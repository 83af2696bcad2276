SPECIFICATION ConfigSpec
CONSTANTS
    Path = {"top", "10", "20"}
    Top = "top"
    Includes <- MCIncludes
    Header = {"main", "mainly", "defaults", "backend:b", "jail:a", "jail:b", "source:s", "typo"}
    SectionName = {"", "a", "b", "s"}
    Meaning <- MCMeaning
    Unknown = Unknown
    Key = {"includes", "ban", "k"}
    Value = {"all", "some", "x", "y", "", "long"}
    TooLong = {"long"}
    Versions <- MCVersions
    Absent = Absent
    GlobFails = TRUE
    MaxChanges = 2
    MaxLoads = 2
INVARIANTS
    ConfigTypeOK
    SectionsMerged
    ParamsOfFiles
    FilesIncluded
CHECK_DEADLOCK FALSE

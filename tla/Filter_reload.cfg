SPECIFICATION FilterSpec
CONSTANTS
    Pattern = {"ssh", "any", "bad"}
    Compiles = {"ssh", "any"}
    Text = {"a", "A", "both", "nothing"}
    Hits <- MCHits
    HitsNoCase <- MCHitsNoCase
    NoHost <- MCNoHost
    DefScore = 10
    ShortHalf = 100
    Section <- MCSection
    Files <- MCFiles
    Missing = Missing
    MaxMatches = 3
INVARIANTS
    PatternsOfFile
    FirstMatchCounts

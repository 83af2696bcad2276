-------------------------------- MODULE Config --------------------------------
(***************************************************************************)
(* Loading the configuration (src/config.c): the file given at the command *)
(* line, then the *.conf files of the directory its `includes` parameter   *)
(* names. Sections of the same name are merged over all files. The daemon  *)
(* loads at start and at every reload, and the files may be edited, or     *)
(* removed, before each one is opened.                                     *)
(*                                                                         *)
(* A file is the sequence of lines that fgets returns; it is read as a     *)
(* whole once it is open.                                                  *)
(***************************************************************************)
EXTENDS Naturals, Sequences, FiniteSets, SequencesExt

CONSTANTS
    Path,       \* configuration files
    Top,        \* the one of the command line
    Includes,   \* [directory -> the paths of its files, in the order of glob()]
    Header,     \* texts of section headers
    SectionName,\* names of sections, "" among them
    Meaning,    \* [Header -> the section it stands for, or Unknown]
    Unknown,
    Key, Value, \* texts of parameters; "" is empty
    TooLong,    \* those that reach CONFIG_KEY_MAX or CONFIG_VAL_MAX
    Versions,   \* [Path -> what the file may contain over time]
    Absent,     \* the file cannot be opened
    GlobFails,  \* glob() may fail
    MaxChanges, \* bound: changes of files
    MaxLoads    \* bound: times the configuration is loaded

Type == {"main", "csocket", "defaults", "source", "filter", "backend", "jail"}

(* Sections of the first three types have the empty name. *)
Single == {"main", "csocket", "defaults"}
Title == [type : Type, name : SectionName]

ConfigLine == [header : Header] \cup [key : Key, value : Value] \cup [comment : {TRUE}]
Parameter == [name : Key, value : Value]

ASSUME ConfigAssumption ==
    /\ Top \in Path
    /\ \A d \in DOMAIN Includes : Includes[d] \in Seq(Path) /\ IsInjective(Includes[d])
    /\ DOMAIN Meaning = Header /\ Unknown \notin Title /\ "" \in SectionName
    /\ \A h \in Header : Meaning[h] # Unknown =>
          Meaning[h] \in Title /\ (Meaning[h].type \in Single => Meaning[h].name = "")
    /\ \A p \in Path : Versions[p] \subseteq Seq(ConfigLine) \cup {Absent}
    /\ GlobFails \in BOOLEAN /\ MaxChanges \in Nat /\ MaxLoads \in Nat

VARIABLES
    files,      \* external: content of the files
    edits,      \* number of changes so far
    stage,      \* "idle", "opened", "including", "loaded" or "failed"
    loads,      \* number of loads so far
    sections,   \* f2b_config_t: a list of sections per type
    globbuf,    \* included files that are still to be read
    read        \* history: the files read by this load, [path, lines]

configVars == <<files, edits, stage, loads, sections, globbuf, read>>

Empty == [t \in Type |-> <<>>]

ConfigInit ==
    /\ files \in {f \in [Path -> UNION {Versions[p] : p \in Path}] : \A p \in Path : f[p] \in Versions[p]}
    /\ edits = 0 /\ stage = "idle" /\ loads = 0
    /\ sections = Empty /\ globbuf = <<>> /\ read = <<>>

EditFile(p) ==
    /\ edits < MaxChanges /\ edits' = edits + 1
    /\ \E c \in Versions[p] \ {files[p]} : files' = [files EXCEPT ![p] = c]
    /\ UNCHANGED <<stage, loads, sections, globbuf, read>>

---------------------------------------------------------------------------
(* Parameters. *)

Named(list, name) == {i \in DOMAIN list : list[i].name = name}
First(S) == CHOOSE i \in S : \A j \in S : i <= j

(* Without a `=`, with an empty key or value, or with one that is too long, *)
(* a line is no parameter.                                                  *)
f2b_config_param_create(l) ==
    IF "" \in {l.key, l.value} \/ {l.key, l.value} \cap TooLong # {} THEN <<>>
    ELSE <<[name |-> l.key, value |-> l.value]>>

(* The value of the first parameter of that name, or none. *)
f2b_config_param_find(list, name) ==
    {list[i].value : i \in {j \in Named(list, name) : j = First(Named(list, name))}}

(* With replace the first parameter of the name takes the new value.        *)
f2b_config_param_append(list, param, replace) ==
    IF replace /\ param # <<>> /\ Named(list, param[1].name) # {}
    THEN [list EXCEPT ![First(Named(list, param[1].name))] = param[1]]
    ELSE list \o param

---------------------------------------------------------------------------
(* Sections. *)

f2b_config_section_create(h) == Meaning[h]

(* Mutant: a section is opened anew in each file. *)
SectionAppendTwice(c, s) ==
    [c EXCEPT ![s.type] = <<[name |-> s.name, param |-> <<>>]>> \o @]

(* Mutant: a new section comes last. *)
SectionAppendLast(c, s) ==
    IF Named(c[s.type], s.name) # {} THEN c
    ELSE [c EXCEPT ![s.type] = Append(@, [name |-> s.name, param |-> <<>>])]

(* A section of the same type and name is used on, a new one comes first.   *)
f2b_config_section_append(c, s) ==
    IF Named(c[s.type], s.name) # {} THEN c
    ELSE [c EXCEPT ![s.type] = <<[name |-> s.name, param |-> <<>>]>> \o @]

(* The local variables of f2b_config_load, and the config it fills. *)
Reading(c) == [config |-> c, section |-> Unknown]

Replaces(s) == s.type \in {"main", "defaults"}

(* One turn of the loop; an unknown section is skipped up to the next header. *)
ReadConfigLine(r, l) ==
    CASE "comment" \in DOMAIN l -> r
      [] "header" \in DOMAIN l ->
            LET s == f2b_config_section_create(l.header) IN
            [config |-> IF s = Unknown THEN r.config ELSE f2b_config_section_append(r.config, s),
             section |-> s]
      [] OTHER ->
            IF r.section = Unknown THEN r
            ELSE LET t == r.section.type
                     i == First(Named(r.config[t], r.section.name))
                 IN [r EXCEPT !.config[t][i].param =
                        f2b_config_param_append(@, f2b_config_param_create(l), Replaces(r.section))]

ReadFile(c, lines) == FoldLeft(ReadConfigLine, Reading(c), lines).config

---------------------------------------------------------------------------
(* f2b_config_load *)

(* Mutant: the structure is not cleared for a reload. *)
LoadOverOld ==
    /\ stage = "idle" /\ loads < MaxLoads /\ loads' = loads + 1
    /\ IF files[Top] = Absent
       THEN sections' = sections /\ read' = <<>> /\ stage' = "failed"
       ELSE /\ sections' = ReadFile(sections, files[Top])
            /\ read' = <<[path |-> Top, lines |-> files[Top]]>>
            /\ stage' = "opened"
    /\ UNCHANGED <<files, edits, globbuf>>

(* The memset of the caller and the first file. *)
f2b_config_load ==
    /\ stage = "idle" /\ loads < MaxLoads /\ loads' = loads + 1
    /\ IF files[Top] = Absent
       THEN sections' = Empty /\ read' = <<>> /\ stage' = "failed"
       ELSE /\ sections' = ReadFile(Empty, files[Top])
            /\ read' = <<[path |-> Top, lines |-> files[Top]]>>
            /\ stage' = "opened"
    /\ UNCHANGED <<files, edits, globbuf>>

(* The directories `includes` of [main] names: at most one. *)
IncludeDirs ==
    IF sections["main"] = <<>> THEN {}
    ELSE f2b_config_param_find(sections["main"][1].param, "includes") \cap DOMAIN Includes

Present(p) == files[p] # Absent

KeepPresent(list, p) == IF Present(p) THEN Append(list, p) ELSE list
Existing(list) == FoldLeft(KeepPresent, <<>>, list)

(* A missing directory, or one without files, is not an error. *)
NoIncludes ==
    /\ stage = "opened"
    /\ \A d \in IncludeDirs : Existing(Includes[d]) = <<>>
    /\ stage' = "loaded"
    /\ UNCHANGED <<files, edits, loads, sections, globbuf, read>>

Glob ==
    /\ stage = "opened"
    /\ \E d \in IncludeDirs :
          /\ globbuf' = Existing(Includes[d])
          /\ globbuf' # <<>>
    /\ stage' = "including"
    /\ UNCHANGED <<files, edits, loads, sections, read>>

GlobError ==
    /\ stage = "opened" /\ GlobFails /\ IncludeDirs # {}
    /\ stage' = "failed"
    /\ UNCHANGED <<files, edits, loads, sections, globbuf, read>>

(* Mutant: an included file can include more. *)
IncludeNested ==
    /\ stage = "including"
    /\ LET p == Head(globbuf)
           c == IF Present(p) THEN ReadFile(sections, files[p]) ELSE sections
           dirs == f2b_config_param_find(c["main"][1].param, "includes") \cap DOMAIN Includes
           more == IF dirs \subseteq IncludeDirs THEN <<>>
                   ELSE Existing(Includes[CHOOSE d \in dirs : TRUE])
       IN /\ sections' = c
          /\ read' = IF Present(p) THEN Append(read, [path |-> p, lines |-> files[p]]) ELSE read
          /\ globbuf' = Tail(globbuf) \o more
          /\ stage' = IF globbuf' = <<>> THEN "loaded" ELSE "including"
    /\ UNCHANGED <<files, edits, loads>>

(* The recursive call for one file; that it fails does not matter. *)
Include ==
    /\ stage = "including"
    /\ LET p == Head(globbuf) IN
       IF Present(p)
       THEN /\ sections' = ReadFile(sections, files[p])
            /\ read' = Append(read, [path |-> p, lines |-> files[p]])
       ELSE UNCHANGED <<sections, read>>
    /\ globbuf' = Tail(globbuf)
    /\ stage' = IF globbuf' = <<>> THEN "loaded" ELSE "including"
    /\ UNCHANGED <<files, edits, loads>>

(* After use; the lists of sources and the control socket are left behind.  *)
f2b_config_free ==
    /\ stage \in {"loaded", "failed"} /\ stage' = "idle"
    /\ sections' = [t \in Type |-> IF t \in {"csocket", "source"} THEN sections[t] ELSE <<>>]
    /\ globbuf' = <<>> /\ read' = <<>>
    /\ UNCHANGED <<files, edits, loads>>

ConfigNext ==
    \/ \E p \in Path : EditFile(p)
    \/ f2b_config_load \/ NoIncludes \/ Glob \/ GlobError \/ Include \/ f2b_config_free

ConfigSpec == ConfigInit /\ [][ConfigNext]_configVars

---------------------------------------------------------------------------
ConfigTypeOK ==
    /\ \A p \in Path : files[p] \in Versions[p]
    /\ edits \in 0 .. MaxChanges /\ loads \in 0 .. MaxLoads
    /\ stage \in {"idle", "opened", "including", "loaded", "failed"}
    /\ \A t \in Type : \A i \in DOMAIN sections[t] :
          /\ sections[t][i].param \in Seq(Parameter)
          /\ t \in Single => i = 1 /\ sections[t][i].name = ""
    /\ \A i \in DOMAIN globbuf : globbuf[i] \in Path
    /\ globbuf # <<>> <=> stage = "including"
    /\ \A n \in DOMAIN read : read[n].lines \in Versions[read[n].path] \ {Absent}

(* What the files that were read say, line by line. *)

(* Every line by its place: file and line number, in the order of reading.  *)
Places == UNION {{<<n, i>> : i \in DOMAIN read[n].lines} : n \in DOMAIN read}
LineAt(a) == read[a[1]].lines[a[2]]
Before(a, b) == a[1] < b[1] \/ (a[1] = b[1] /\ a[2] < b[2])
IsHeader(a) == "header" \in DOMAIN LineAt(a)

(* The section a line belongs to: the last header above it in its file.     *)
SectionOf(a) ==
    LET above == {h \in Places : h[1] = a[1] /\ h[2] < a[2] /\ IsHeader(h)} IN
    IF above = {} THEN Unknown
    ELSE Meaning[LineAt(CHOOSE h \in above : \A k \in above : ~Before(h, k)).header]

(* The parameters given to a section, by their places. *)
GivenTo(s) ==
    {a \in Places : /\ {"key", "value"} \subseteq DOMAIN LineAt(a)
                    /\ "" \notin {LineAt(a).key, LineAt(a).value}
                    /\ {LineAt(a).key, LineAt(a).value} \cap TooLong = {}
                    /\ SectionOf(a) = s}

(* S is laid out in the order of reading: the place a is at index i.        *)
At(S, i) == CHOOSE a \in S : Cardinality({b \in S : Before(b, a)}) = i - 1
FirstWithKey(S, a) == \A b \in S : LineAt(b).key = LineAt(a).key => ~Before(b, a)
LastWithKey(S, a) == CHOOSE b \in S : /\ LineAt(b).key = LineAt(a).key
                                      /\ \A d \in S : LineAt(d).key = LineAt(b).key => ~Before(b, d)

(* However its lines are spread over the files, a section is there once if  *)
(* some file mentions it, and sections stand in the reverse of the order of *)
(* their first mention, the order jails_start visits them in.               *)
SectionsMerged ==
    stage # "idle" => \A t \in Type :
        LET mentions == {h \in Places : /\ IsHeader(h) /\ Meaning[LineAt(h).header] # Unknown
                                        /\ Meaning[LineAt(h).header].type = t}
            Name(h) == Meaning[LineAt(h).header].name
            first == {h \in mentions : \A k \in mentions : Name(k) = Name(h) => ~Before(k, h)}
        IN /\ Len(sections[t]) = Cardinality(first)
           /\ \A i \in DOMAIN sections[t] :
                 sections[t][i].name = Name(At(first, Cardinality(first) + 1 - i))

(* A section has exactly the parameters its files give it, in the order of  *)
(* reading: commands of a backend run in that order.                        *)
InOrder ==
    \A t \in Type \ {"main", "defaults"} : \A k \in DOMAIN sections[t] :
        LET params == sections[t][k].param
            S == GivenTo([type |-> t, name |-> sections[t][k].name])
        IN /\ Len(params) = Cardinality(S)
           /\ \A i \in DOMAIN params :
                 params[i] = [name |-> LineAt(At(S, i)).key, value |-> LineAt(At(S, i)).value]

(* In [main] and [defaults] the last value given to a key, in whichever     *)
(* file, is the only one.                                                   *)
LastWins ==
    \A t \in {"main", "defaults"} : sections[t] # <<>> =>
        LET params == sections[t][1].param
            S == GivenTo([type |-> t, name |-> ""])
            first == {a \in S : FirstWithKey(S, a)}
        IN /\ Len(params) = Cardinality(first)
           /\ \A i \in DOMAIN params :
                 LET a == At(first, i) IN
                 params[i] = [name |-> LineAt(a).key, value |-> LineAt(LastWithKey(S, a)).value]

(* The parameters are those of the files: nothing comes from the load       *)
(* before, from an unknown section, or from the head of another file.       *)
ParamsOfFiles == stage # "idle" => InOrder /\ LastWins

(* A loaded configuration is made of the top file and of the files of the   *)
(* one directory it names, each at most once and in the order of glob(),    *)
(* whatever the included files say and whatever is removed meanwhile; a     *)
(* file that was there all the time is not missed.                          *)
FilesIncluded ==
    stage = "loaded" =>
        LET S == {a \in GivenTo([type |-> "main", name |-> ""]) :
                     a[1] = 1 /\ LineAt(a).key = "includes"}
            dir == LineAt(At(S, Cardinality(S))).value
            names == IF S = {} THEN <<>> ELSE IF dir \in DOMAIN Includes THEN Includes[dir] ELSE <<>>
            Index(n) == {i \in DOMAIN names : names[i] = read[n].path}
        IN /\ read[1].path = Top
           /\ \A n \in 2 .. Len(read) : Index(n) # {}
           /\ \A m, n \in 2 .. Len(read) : m < n => First(Index(m)) < First(Index(n))
           /\ \A i \in DOMAIN names :
                 Absent \in Versions[names[i]] \/ \E n \in 2 .. Len(read) : read[n].path = names[i]
===============================================================================

-------------------------------- MODULE Filter --------------------------------
(***************************************************************************)
(* The filter of a jail: the list of patterns read from a file             *)
(* (src/filter.c) and the module that matches log lines with them          *)
(* (src/filters/preg.c and pcre.c, which differ in the regex library).     *)
(* The file may be edited or removed at any time; the operator has it read *)
(* again with `jail X filter reload`.                                      *)
(***************************************************************************)
EXTENDS Integers, Sequences, FiniteSets, SequencesExt

CONSTANTS
    Pattern,        \* patterns with a <HOST> token
    Compiles,       \* those the regex library accepts
    Text,           \* log lines
    Hits,           \* [Pattern -> SUBSET Text]: lines a pattern matches
    HitsNoCase,     \* the same with the case ignored
    NoHost,         \* <<pattern, line>>: a match that leaves no host to copy (pcre)
    DefScore,       \* MATCH_DEFSCORE
    ShortHalf,      \* 2^15 in the code: `short int defscore` wraps around there
    Section,        \* the parameters of the config section, in order
    Files,          \* what the pattern file may contain: sequences of lines
    Missing,        \* the file cannot be opened
    MaxMatches      \* bound: log lines between two loads

Param == [icase : BOOLEAN] \cup [defscore : Int]

(* A line is a pattern, a `set:` comment, or one that loads nothing: blank,  *)
(* a plain comment, or text without <HOST>.                                  *)
Line == [pattern : Pattern] \cup Param \cup [other : {TRUE}]

ASSUME FilterAssumption ==
    /\ Compiles \subseteq Pattern
    /\ {Hits, HitsNoCase} \subseteq [Pattern -> SUBSET Text]
    /\ NoHost \subseteq Pattern \X Text
    /\ ShortHalf \in Nat \ {0} /\ DefScore \in Int /\ Section \in Seq(Param)
    /\ Files \subseteq Seq(Line) \cup {Missing}
    /\ MaxMatches \in Nat

VARIABLES
    patterns,   \* external: the pattern file
    module,     \* "off" or "on": the module is loaded
    cfg,        \* its struct _config
    answer,     \* what the last f2b_filter_match returned, and for which line
    loaded,     \* history: the content the patterns were read from
    earlier,    \* history: the switch for the case before it was read
    fed         \* history: the lines matched since

filterVars == <<patterns, module, cfg, answer, loaded, earlier, fed>>

create ==
    [regexps |-> <<>>, rlast |-> 0, icase |-> FALSE, defscore |-> DefScore, ready |-> FALSE]

NoAnswer == [line |-> "none", score |-> 0, found |-> FALSE]

Has(l, key) == key \in DOMAIN l

---------------------------------------------------------------------------
(* src/filters/preg.c and pcre.c *)

Short(n) == ((n + ShortHalf) % (2 * ShortHalf)) - ShortHalf

filter_config(c, param) ==
    IF Has(param, "icase") THEN [c EXCEPT !.icase = param.icase]
    ELSE [c EXCEPT !.defscore = Short(param.defscore)]

(* The new pattern follows the one rlast points at. *)
append(c, p) ==
    IF p \notin Compiles THEN c
    ELSE LET new == [pattern |-> p, icase |-> c.icase, score |-> c.defscore, matches |-> 0]
         IN [c EXCEPT !.regexps = Append(SubSeq(@, 1, c.rlast), new),
                      !.rlast = @ + 1, !.ready = TRUE]

(* Mutant: the patterns go, the score of the last file stays. *)
FlushKeepsScore(c) == [c EXCEPT !.regexps = <<>>, !.rlast = 0]

(* The switch for the case stays as it was. *)
flush(c) == [c EXCEPT !.regexps = <<>>, !.rlast = 0, !.defscore = DefScore]

Matches(r, text) == text \in IF r.icase THEN HitsNoCase[r.pattern] ELSE Hits[r.pattern]

(* The patterns that match a line, by their places. *)
Matching(text) == {i \in DOMAIN cfg.regexps : Matches(cfg.regexps[i], text)}

LastOf(S) == CHOOSE i \in S : \A j \in S : i >= j

(* The list is searched from its head. *)
FirstOf(S) == CHOOSE i \in S : \A j \in S : i <= j

(* Those that also give its host. *)
Answering(text) == {i \in Matching(text) : <<cfg.regexps[i].pattern, text>> \notin NoHost}

(* Those that match() comes to: it counts a match, and goes on to the next  *)
(* pattern if the host of this one cannot be copied.                        *)
Tried(text) == {i \in Matching(text) : \A j \in Answering(text) : i <= j}

---------------------------------------------------------------------------
(* src/filter.c *)

ReadLine(c, l) ==
    CASE Has(l, "other")   -> c
      [] Has(l, "pattern") -> append(c, l.pattern)
      [] OTHER             -> filter_config(c, l)

(* f2b_filter_load_file; the patterns of before are flushed once it is open. *)
f2b_filter_load_file(c) == IF patterns = Missing THEN c ELSE FoldLeft(ReadLine, flush(c), patterns)

FilterInit ==
    /\ patterns \in Files /\ module = "off" /\ cfg = create
    /\ answer = NoAnswer /\ loaded = <<>> /\ earlier = FALSE /\ fed = <<>>

EditPatterns ==
    /\ patterns' \in Files \ {patterns}
    /\ UNCHANGED <<module, cfg, answer, loaded, earlier, fed>>

(* The switch for the case in force at line i of a content, where it was b   *)
(* before the first one.                                                     *)
IcaseAt(f, i, b) ==
    LET S == {k \in 1 .. i - 1 : Has(f[k], "icase")} IN
    IF S = {} THEN b ELSE f[LastOf(S)].icase

Loaded ==
    /\ loaded' = IF patterns = Missing THEN <<>> ELSE patterns
    /\ fed' = <<>> /\ answer' = NoAnswer

(* The section's parameters, then the file; with no pattern the module is   *)
(* unloaded again.                                                          *)
f2b_filter_init ==
    /\ module = "off"
    /\ LET c == f2b_filter_load_file(FoldLeft(filter_config, create, Section)) IN
       IF c.regexps # <<>>
       THEN /\ cfg' = c /\ module' = "on" /\ Loaded
            /\ earlier' = IcaseAt(Section, Len(Section) + 1, FALSE)
       ELSE UNCHANGED <<cfg, module, answer, loaded, earlier, fed>>
    /\ UNCHANGED patterns

(* The patterns are gone even if the file cannot be read. *)
f2b_filter_cmd_reload ==
    /\ module = "on"
    /\ cfg' = f2b_filter_load_file(flush(cfg)) /\ Loaded
    /\ earlier' = IcaseAt(loaded, Len(loaded) + 1, earlier)
    /\ UNCHANGED <<patterns, module>>

f2b_filter_match(text) ==
    /\ module = "on" /\ Len(fed) < MaxMatches
    /\ cfg' = [cfg EXCEPT !.regexps =
                  [i \in DOMAIN cfg.regexps |->
                      [cfg.regexps[i] EXCEPT !.matches = IF i \in Tried(text) THEN @ + 1 ELSE @]]]
    /\ LET A == Answering(text) IN
       answer' = IF A = {} THEN [line |-> text, score |-> 0, found |-> FALSE]
                 ELSE [line |-> text, score |-> cfg.regexps[FirstOf(A)].score, found |-> TRUE]
    /\ fed' = Append(fed, text)
    /\ UNCHANGED <<patterns, module, loaded, earlier>>

f2b_filter_destroy ==
    /\ module = "on" /\ module' = "off" /\ cfg' = create
    /\ answer' = NoAnswer /\ loaded' = <<>> /\ earlier' = FALSE /\ fed' = <<>>
    /\ UNCHANGED patterns

FilterNext ==
    \/ EditPatterns \/ f2b_filter_init \/ f2b_filter_cmd_reload \/ f2b_filter_destroy
    \/ \E t \in Text : f2b_filter_match(t)

FilterSpec == FilterInit /\ [][FilterNext]_filterVars

---------------------------------------------------------------------------
(* The lines of a file that become patterns, the place each gets, and the   *)
(* score the last `set: defscore` above it gives it.                        *)
Accepted(f) == {i \in DOMAIN f : Has(f[i], "pattern") /\ f[i].pattern \in Compiles}
Place(f, i) == Cardinality({j \in Accepted(f) : j <= i})
ScoreAt(f, i) ==
    LET S == {k \in 1 .. i - 1 : Has(f[k], "defscore")} IN
    IF S = {} THEN DefScore ELSE Short(f[LastOf(S)].defscore)

(* After any edits and reloads, the patterns in use are those of the file   *)
(* as it was last read, in its order, and with the scores this file gives   *)
(* them: no score of the files read before, nor of the section, is left.    *)
(* The switch for the case is left: a pattern above the first `set: icase`  *)
(* of the file has that of the files read before, or of the section. The    *)
(* tail pointer is at the last pattern.                                     *)
PatternsOfFile ==
    module = "on" =>
        /\ cfg.rlast = Len(cfg.regexps)
        /\ Len(cfg.regexps) = Cardinality(Accepted(loaded))
        /\ \A i \in Accepted(loaded) :
              LET r == cfg.regexps[Place(loaded, i)] IN
              /\ r.pattern = loaded[i].pattern /\ r.score = ScoreAt(loaded, i)
              /\ r.icase = IcaseAt(loaded, i, earlier)

(* A line has the score of the first pattern of the file that matches it    *)
(* and gives a host. The counters of `filter stats` say of each pattern how *)
(* many lines it matched that no pattern before it gave a host for: one     *)
(* line is counted for several patterns if the host is optional in some.    *)
FirstMatchCounts ==
    /\ \A i \in DOMAIN cfg.regexps :
          cfg.regexps[i].matches =
              Cardinality({n \in DOMAIN fed : /\ i \in Matching(fed[n])
                                              /\ \A j \in Answering(fed[n]) : i <= j})
    /\ answer.found => \E i \in Accepted(loaded) :
          /\ Place(loaded, i) \in Answering(answer.line)
          /\ \A j \in Accepted(loaded) : j < i => Place(loaded, j) \notin Answering(answer.line)
          /\ answer.score = ScoreAt(loaded, i)
===============================================================================

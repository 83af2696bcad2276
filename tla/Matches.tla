------------------------------ MODULE Matches ------------------------------
(***************************************************************************)
(* src/matches.c: the match history of one host, a linked list with the    *)
(* newest match at its head, a counter and the time of the latest match.   *)
(* The caller (f2b_jail_process) prepends matches stamped with the current *)
(* time, expires the old ones, asks for the score, and flushes the list    *)
(* when the host is banned.  The wall clock is assumed not to step back.   *)
(***************************************************************************)
EXTENDS Naturals, Sequences, SequencesExt

CONSTANTS
    T0, MaxTime,
    Scores,     \* scores a match can carry
    MaxCount    \* bound: matches kept in one list

ASSUME MatchesAssumption ==
    /\ T0 \in Nat /\ MaxTime \in Nat /\ 0 < T0 /\ T0 <= MaxTime
    /\ Scores \subseteq Nat /\ MaxCount \in Nat

VARIABLES
    clock,      \* time(NULL)
    list,       \* ms->list, newest first
    count,      \* ms->count
    last        \* ms->last

vars == <<clock, list, count, last>>

H == INSTANCE ScoreHistory

Match == [time : H!Time, score : Scores]

---------------------------------------------------------------------------
Init == clock = T0 /\ list = <<>> /\ count = 0 /\ last = 0

Tick == clock < MaxTime /\ clock' = clock + 1 /\ UNCHANGED <<list, count, last>>

(* f2b_match_create(now), then f2b_matches_prepend. *)
Prepend(score) ==
    /\ Len(list) < MaxCount
    /\ list' = <<[time |-> clock, score |-> score]>> \o list
    /\ count' = count + 1
    /\ last' = IF clock > last THEN clock ELSE last
    /\ UNCHANGED clock

(* Mutant: a match of the very second `before` is kept. *)
KeptInclusive(before) == SelectSeq(list, LAMBDA m : m.time >= before)

(* The matches younger than `before`, in their order: what is left of the   *)
(* first i nodes.                                                           *)
Kept(before) ==
    LET Rest[i \in 0 .. Len(list)] ==
            IF i = 0 THEN <<>>
            ELSE IF list[i].time > before THEN Append(Rest[i - 1], list[i])
            ELSE Rest[i - 1]
    IN  Rest[Len(list)]

(* Mutant: the counter is not maintained. *)
ExpireUncounted(before) ==
    /\ list # <<>>
    /\ list' = Kept(before)
    /\ last' = IF Kept(before) = <<>> THEN 0 ELSE Head(Kept(before)).time
    /\ UNCHANGED <<clock, count>>

(* f2b_matches_expire returns at once when the list is empty; otherwise it  *)
(* unlinks the old nodes one by one and recomputes `last` from the head.    *)
Expire(before) ==
    /\ list # <<>>
    /\ list' = Kept(before)
    /\ count' = count - (Len(list) - Len(Kept(before)))
    /\ last' = IF Kept(before) = <<>> THEN 0 ELSE Head(Kept(before)).time
    /\ UNCHANGED clock

Flush == list' = <<>> /\ count' = 0 /\ last' = 0 /\ UNCHANGED clock

(* f2b_matches_score walks from the head and stops at the first match older *)
(* than `after`, trusting the order of the list.                            *)
Score(after) ==
    LET Sum[i \in 1 .. Len(list) + 1] ==
            IF i > Len(list) THEN 0
            ELSE IF after > list[i].time THEN 0
            ELSE list[i].score + Sum[i + 1]
    IN  Sum[1]

Next ==
    \/ Tick
    \/ \E s \in Scores : Prepend(s)
    \/ \E b \in 0 .. MaxTime : Expire(b)
    \/ Flush

Spec == Init /\ [][Next]_vars

---------------------------------------------------------------------------
(* The history the list stands for: the score collected in every second. *)
ScoreOf == [i \in DOMAIN list |-> list[i].score]
PerSecond == [t \in H!Time |-> SumFunctionOnSet(ScoreOf, {i \in DOMAIN list : list[i].time = t})]

(* The counter and `last`, which every operation updates on its own, always *)
(* describe the list they are stored with.                                  *)
CountersAgree ==
    /\ count = Len(list)
    /\ last = IF list = <<>> THEN 0 ELSE list[1].time

HistoryStep ==
    /\ Tick => PerSecond' = PerSecond
    /\ \A s \in Scores :
          Prepend(s) => PerSecond' = H!f2b_matches_prepend(PerSecond, clock, s)
    /\ \A b \in 0 .. MaxTime :
          Expire(b) => PerSecond' = H!f2b_matches_expire(PerSecond, b)
    /\ Flush => PerSecond' = H!f2b_matches_flush

(* The linked list implements the per-second history that Jail uses: it     *)
(* starts blank, every operation of matches.c is the history's operation of *)
(* the same name, and the score read from it is the history's, whatever the *)
(* operations before. The early exit of f2b_matches_score (matches.c:79) is *)
(* harmless because the list never loses its order.                         *)
ImplementsHistory ==
    /\ PerSecond = H!f2b_matches_flush
    /\ [][HistoryStep]_vars
    /\ [](\A after \in 0 .. MaxTime : Score(after) = H!f2b_matches_score(PerSecond, after))
=============================================================================

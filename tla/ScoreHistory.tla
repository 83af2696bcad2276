--------------------------- MODULE ScoreHistory ---------------------------
(***************************************************************************)
(* What a jail remembers of one host's matches, abstracted from the linked *)
(* list of src/matches.c: the score collected in every second.  Matches    *)
(* shows that the list implements these operators (its property            *)
(* ImplementsHistory), and Jail keeps one such history per host.           *)
(***************************************************************************)
EXTENDS Integers, Functions

CONSTANTS
    T0,         \* the wall clock when the daemon is first started
    MaxTime     \* bound: the last second the model looks at

ASSUME TimeAssumption == T0 \in Nat /\ MaxTime \in Nat /\ 0 < T0 /\ T0 <= MaxTime

Time == T0 .. MaxTime

History == [Time -> Nat]

(* f2b_matches_flush: the list is freed and the container zeroed. *)
f2b_matches_flush == [t \in Time |-> 0]

(* f2b_match_create and f2b_matches_prepend of a match seen at second t. *)
f2b_matches_prepend(h, t, score) == [h EXCEPT ![t] = @ + score]

(* f2b_matches_expire keeps the matches that are younger than `before`. *)
f2b_matches_expire(h, before) == [t \in Time |-> IF t > before THEN h[t] ELSE 0]

(* f2b_matches_score: the sum of the scores not older than `after`. *)
f2b_matches_score(h, after) == SumFunctionOnSet(h, {t \in Time : t >= after})
=============================================================================

-------------------------------- MODULE Feed --------------------------------
(***************************************************************************)
(* What the actors of docs/configuration.md may expect of the sensors'     *)
(* messages: a reader may miss some, but gets none twice, none that was    *)
(* not sent, and never an older one after a newer one.                     *)
(***************************************************************************)
EXTENDS Naturals, Sequences

CONSTANT Reader

VARIABLES
    sent,   \* number of messages sent so far
    got     \* numbers of the messages each reader got

Latest(s) == IF s = <<>> THEN 0 ELSE s[Len(s)]

Init == sent = 0 /\ got = [r \in Reader |-> <<>>]

Send == sent' = sent + 1 /\ UNCHANGED got

Get(r) ==
    /\ \E n \in Latest(got[r]) + 1 .. sent : got' = [got EXCEPT ![r] = Append(@, n)]
    /\ UNCHANGED sent

Next == Send \/ \E r \in Reader : Get(r)

Spec == Init /\ [][Next]_<<sent, got>>
=============================================================================

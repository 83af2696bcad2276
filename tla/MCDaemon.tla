------------------------------ MODULE MCDaemon ------------------------------
(* Two jails and a configuration file that may be missing for a while.      *)
EXTENDS Daemon

CONSTANTS j1, j2

Sets(e, b) == [enabled |-> e, bantime |-> b]

Good(js, d, o1, o2) ==
    [readable |-> TRUE, jails |-> js, defaults |-> d,
     own |-> [j \in Jail |-> IF j = j1 THEN o1 ELSE o2]]

(* Both jails take what [defaults] sets; or [defaults] sets nothing and one *)
(* jail all it needs, so that the other has what is left in the template;   *)
(* or [defaults] disables jails and one enables itself; or there is no jail.*)
Both == Good({j1, j2}, Sets("yes", 7), Sets("unset", 0), Sets("unset", 0))

MCContents ==
    {Both,
     Good({j1, j2}, Sets("unset", 0), Sets("unset", 0), Sets("yes", 3)),
     Good({j1, j2}, Sets("no", 0), Sets("yes", 0), Sets("unset", 0)),
     Good({}, Sets("unset", 9), Sets("unset", 0), Sets("unset", 0)),
     [Both EXCEPT !.readable = FALSE]}
=============================================================================

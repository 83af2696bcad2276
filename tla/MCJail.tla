------------------------------- MODULE MCJail -------------------------------
(* Small instances of Jail.  Periods are a few seconds long so that bans,   *)
(* releases, the grace period and forgetting all happen before MaxTime.     *)
EXTENDS Jail, TLC

MCDefaults ==
    [bantime |-> 2, findtime |-> 1, expiretime |-> 3, banscore |-> 2, enabled |-> 1,
     bantime_extend |-> 0, findtime_extend |-> 0]

(* Bans get longer, and the search window deeper, with every repetition. *)
MCConfig ==
    [bantime |-> 1, findtime |-> 1, expiretime |-> 2, banscore |-> 2, enabled |-> 1,
     bantime_extend |-> 100, findtime_extend |-> 50]

(* One match is enough for a ban. *)
MCStrict == [MCConfig EXCEPT !.banscore = 1]

(* Bans of equal length, longer than the time a quiet host is remembered. *)
MCForget == [MCConfig EXCEPT !.bantime = 2, !.expiretime = 1, !.bantime_extend = 0]

AddrSymmetry == Permutations(Addr)
=============================================================================

----------------------------- MODULE JailProofs -----------------------------
(***************************************************************************)
(* Theorems about Jail, for every set of addresses, every configuration    *)
(* and every bound: what the firewall blocks, what the state file keeps,   *)
(* and which lines ban their host.                                         *)
(***************************************************************************)
EXTENDS Jail, SumProofs

(* The operators on score histories stay within the type. *)
LEMMA HistoryOps ==
    ASSUME NEW h \in History, NEW t \in Int, NEW s \in Nat
    PROVE  /\ f2b_matches_flush \in History
           /\ f2b_matches_prepend(h, t, s) \in History
           /\ f2b_matches_expire(h, t) \in History
  <1>1. f2b_matches_flush \in History
    BY DEF History, f2b_matches_flush
  <1>2. f2b_matches_prepend(h, t, s) \in History
    <2>1. \A u \in Time : h[u] \in Nat /\ h[u] + s \in Nat
      BY DEF History
    <2> QED
      BY <2>1 DEF History, f2b_matches_prepend
  <1>3. f2b_matches_expire(h, t) \in History
    BY DEF History, f2b_matches_expire
  <1> QED
    BY <1>1, <1>2, <1>3

(* A period never shrinks below its parameter, however often it is extended. *)
LEMMA ExtendedGrows ==
    ASSUME opt \in Options, NEW p \in Period, NEW x \in Extend, NEW n \in Nat
    PROVE  /\ Extended(p, x, n) \in Nat
           /\ Extended(p, x, n) >= opt[p]
  <1>1. opt[p] \in Nat /\ opt[x] \in Nat
    BY DEF Options, Period, Extend, Param
  <1>2. n * opt[p] \in Nat
    BY <1>1
  <1>3. n * opt[p] * opt[x] \in Nat
    BY <1>1, <1>2
  <1>4. \A k \in Nat : k \div 100 \in Nat
    OBVIOUS
  <1>5. (n * opt[p] * opt[x]) \div 100 \in Nat
    BY <1>3, <1>4
  <1> QED
    BY <1>1, <1>5 DEF Extended

(* Cutting a banscore to a short int, and any other value not at all, leaves *)
(* an integer.                                                               *)
LEMMA StoredIsInt ==
    ASSUME NEW p \in Param, NEW v \in Values
    PROVE  Stored(p, v) \in Int /\ (p # "banscore" => Stored(p, v) = v)
  <1> DEFINE m == 2 * ShortHalf
  <1>1. v \in Int /\ ShortHalf \in Int /\ m \in Nat \ {0}
    BY JailAssumption
  <1>2. \A x, y \in Int : y > 0 => x % y \in Int
    OBVIOUS
  <1>3. v + ShortHalf \in Int /\ m \in Int /\ m > 0
    BY <1>1
  <1>4. (v + ShortHalf) % m \in Int
    BY <1>2, <1>3
  <1>5. Short(v) \in Int
    BY <1>1, <1>4 DEF Short
  <1> QED
    BY <1>1, <1>5 DEF Stored

(* Banning and releasing a host, and seeing a line of it, keep its record   *)
(* well formed.                                                             *)
LEMMA HostOps ==
    ASSUME opt \in Options, NEW h \in Host
    PROVE  BanHost(h) \in Host /\ UnbanHost(h) \in Host /\ f2b_ipaddr_create \in Host
  <1>1. f2b_matches_flush \in History
    BY DEF History, f2b_matches_flush
  <1>2. Extended("bantime", "bantime_extend", h.bancount) \in Nat
    BY ExtendedGrows DEF Host, Period, Extend
  <1> QED
    BY <1>1, <1>2 DEF Host, BanHost, UnbanHost, f2b_ipaddr_create

(* A line of a host (matches.c, jail.c:319-352) leaves its record well formed. *)
LEMMA LineOps ==
    ASSUME TypeOK, NEW a \in Addr, NEW s \in Scores
    PROVE  Seen(a, s) \in Host /\ Looked(a, s) \in Host
  <1>1. host[a] \in Host /\ now \in Nat /\ s \in Nat
    BY JailAssumption, TimeAssumption DEF TypeOK, Time
  <1>2. f2b_matches_prepend(host[a].matches, now, s) \in History
    BY <1>1, HistoryOps DEF Host
  <1>3. Seen(a, s) \in Host
    BY <1>1, <1>2 DEF Seen, Host
  <1>4. Extended("findtime", "findtime_extend", host[a].bancount) \in Nat
    BY <1>1, ExtendedGrows DEF TypeOK, Host, Period, Extend
  <1>5. now - Extended("findtime", "findtime_extend", host[a].bancount) - Grace \in Int
    BY <1>1, <1>4, JailAssumption
  <1>6. \A t \in Int : f2b_matches_expire(Seen(a, s).matches, t) \in History
    BY <1>3, HistoryOps DEF Host
  <1>7. Looked(a, s) \in Host
    BY <1>3, <1>5, <1>6 DEF Looked, Host
  <1> QED
    BY <1>3, <1>7

---------------------------------------------------------------------------
(* Type correctness. *)

(* A daemon that was never started is in a well-formed state.               *)
LEMMA TypeInit == Init => TypeOK
  <1> SUFFICES ASSUME Init PROVE TypeOK
    OBVIOUS
  <1>1. f2b_matches_flush \in History
    BY DEF History, f2b_matches_flush
  <1>2. f2b_ipaddr_create \in Host /\ NoEntry \in Entry
    BY <1>1 DEF Host, f2b_ipaddr_create, Entry, NoEntry
  <1>3. clock \in Time /\ now <= clock /\ lines \in 0 .. MaxLines
    BY TimeAssumption, JailAssumption DEF Init, Time
  <1> QED
    BY <1>2, <1>3, JailAssumption DEF Init, TypeOK

(* f2b_jail_start makes well-formed hosts of the lines of the state file.   *)
LEMMA StartType == TypeOK /\ Start => TypeOK'
  <1> SUFFICES ASSUME TypeOK, Start PROVE TypeOK'
    OBVIOUS
  <1>1. CASE f2b_jail_start
    <2>1. PICK loaded \in SUBSET Addr :
             /\ known' = loaded
             /\ banned' = {a \in loaded : clock < entry[a].release_at}
             /\ host' = [a \in Addr |->
                           IF a \in loaded THEN LoadedHost(entry[a]) ELSE f2b_ipaddr_create]
      BY <1>1 DEF f2b_jail_start, Restored, TypeOK
    <2>2. f2b_ipaddr_create \in Host
      BY HistoryOps DEF Host, f2b_ipaddr_create, History, f2b_matches_flush
    <2>3. \A a \in Addr : LoadedHost(entry[a]) \in Host
      BY HistoryOps DEF TypeOK, Entry, Host, LoadedHost, History, f2b_matches_flush
    <2>4. host' \in [Addr -> Host]
      BY <2>1, <2>2, <2>3
    <2>5. /\ opt' = Config /\ need_save' = FALSE /\ now' = 0 /\ pc' = "restore"
          /\ todo' = banned' /\ UNCHANGED <<clock, lines, fw, saved, entry>>
      BY <1>1 DEF f2b_jail_start, Restored, fileVars
    <2>6. now' <= clock'
      BY <2>5, TimeAssumption DEF TypeOK, Time
    <2> QED
      BY <2>1, <2>4, <2>5, <2>6, JailAssumption DEF TypeOK
  <1>2. CASE \E a \in Addr : RestoreBan(a)
    BY <1>2 DEF RestoreBan, f2b_backend_ban, TypeOK, fileVars
  <1>3. CASE Started
    BY <1>3 DEF Started, TypeOK, fileVars
  <1> QED
    BY <1>1, <1>2, <1>3 DEF Start

(* A log line, whether or not it bans its host, keeps the types.            *)
LEMMA PollType == ASSUME TypeOK, NEW a \in Addr, NEW s \in Scores, PollLine(a, s)
                  PROVE  TypeOK'
  <1>1. Seen(a, s) \in Host /\ Looked(a, s) \in Host /\ BanHost(Looked(a, s)) \in Host
    BY LineOps, HostOps DEF TypeOK
  <1>2. host' \in [Addr -> Host]
    BY <1>1 DEF PollLine, TypeOK
  <1>3. need_save' \in BOOLEAN
    BY JailAssumption DEF PollLine, TypeOK
  <1>4. lines' \in 0 .. MaxLines
    BY JailAssumption DEF PollLine, TypeOK
  <1>5. fw' \subseteq Addr /\ banned' \subseteq known' /\ known' \subseteq Addr
    BY DEF PollLine, TypeOK, f2b_backend_ban
  <1> QED
    BY <1>2, <1>3, <1>4, <1>5 DEF PollLine, TypeOK, fileVars

(* Releasing and forgetting a host (jail.c:364-397) keeps the types: the loop *)
(* never visits a host that is not on the list.                             *)
LEMMA SweepType == ASSUME TypeOK, NEW a \in Addr, Sweep(a)
                   PROVE  TypeOK'
  <1>1. Swept(a) \in Host /\ f2b_ipaddr_create \in Host
    BY HostOps DEF TypeOK, Swept
  <1>2. host' \in [Addr -> Host]
    BY <1>1 DEF Sweep, TypeOK
  <1>3. fw' \subseteq Addr
    BY DEF Sweep, TypeOK, f2b_backend_unban
  <1>4. known' \subseteq Addr /\ banned' \subseteq known' /\ todo' \subseteq known'
    BY DEF Sweep, TypeOK
  <1> QED
    BY <1>2, <1>3, <1>4 DEF Sweep, TypeOK, fileVars

(* f2b_statefile_save writes well-formed entries.                           *)
LEMMA SaveType == TypeOK /\ ProcessEnd => TypeOK'
  <1> SUFFICES ASSUME TypeOK, ProcessEnd PROVE TypeOK'
    OBVIOUS
  <1>1. \A a \in Addr : [banned_at |-> host[a].banned_at, release_at |-> host[a].release_at] \in Entry
    BY DEF TypeOK, Host, Entry
  <1>2. NoEntry \in Entry
    BY DEF NoEntry, Entry
  <1>3. saved' \subseteq Addr /\ entry' \in [Addr -> Entry]
    BY <1>1, <1>2 DEF ProcessEnd, f2b_statefile_save, TypeOK, fileVars
  <1>4. now' <= clock'
    BY TimeAssumption DEF ProcessEnd, TypeOK, Time
  <1> QED
    BY <1>3, <1>4 DEF ProcessEnd, TypeOK, fileVars

(* Commands of the operator keep the types; a parameter that is out of range *)
(* falls back to its default (jail.c:69-126).                               *)
LEMMA CommandType == TypeOK /\ Command => TypeOK'
  <1> SUFFICES ASSUME TypeOK, Command PROVE TypeOK'
    OBVIOUS
  <1>1. ASSUME NEW a \in Addr, CmdBan(a) PROVE TypeOK'
    <2> DEFINE h == IF a \in known THEN host[a]
                    ELSE [f2b_ipaddr_create EXCEPT !.lastseen = clock]
    <2>1. clock \in Nat
      BY TimeAssumption DEF TypeOK, Time
    <2>2. f2b_ipaddr_create \in Host
      BY HistoryOps DEF Host, f2b_ipaddr_create, History, f2b_matches_flush
    <2>3. h \in Host
      BY <2>1, <2>2 DEF TypeOK, Host
    <2>4. BanHost(h) \in Host
      BY <2>3, HostOps DEF TypeOK
    <2>5. host' \in [Addr -> Host]
      BY <1>1, <2>4 DEF CmdBan, TypeOK
    <2>6. need_save' \in BOOLEAN
      BY <1>1, JailAssumption DEF CmdBan, TypeOK
    <2> QED
      BY <1>1, <2>5, <2>6 DEF CmdBan, TypeOK, f2b_backend_ban, fileVars
  <1>2. ASSUME NEW a \in Addr, CmdRelease(a) PROVE TypeOK'
    <2>1. host' \in [Addr -> Host]
      BY <1>2, HostOps DEF CmdRelease, TypeOK
    <2> QED
      BY <1>2, <2>1 DEF CmdRelease, TypeOK, f2b_backend_unban, fileVars
  <1>3. ASSUME NEW p \in Param, NEW v \in Values, f2b_jail_set_param(p, v) PROVE TypeOK'
    <2>1. opt' \in Options
      BY <1>3, JailAssumption, StoredIsInt DEF f2b_jail_set_param, TypeOK, Options, Param, Period, Extend
    <2> QED
      BY <1>3, <2>1 DEF f2b_jail_set_param, TypeOK, fileVars
  <1> QED
    BY <1>1, <1>2, <1>3 DEF Command

(* Shutdown and crash keep the types.                                       *)
LEMMA StopType == TypeOK /\ (Stop \/ Crash) => TypeOK'
  <1> SUFFICES ASSUME TypeOK, Stop \/ Crash PROVE TypeOK'
    OBVIOUS
  <1>1. CASE StopBegin
    BY <1>1 DEF StopBegin, TypeOK, fileVars
  <1>2. ASSUME NEW a \in Addr, StopUnban(a) PROVE TypeOK'
    <2>1. host' \in [Addr -> Host]
      BY <1>2, HostOps DEF StopUnban, TypeOK
    <2> QED
      BY <1>2, <2>1 DEF StopUnban, TypeOK, f2b_backend_unban, fileVars
  <1>3. ASSUME Forgotten, fw' \subseteq Addr PROVE TypeOK'
    <2>1. f2b_ipaddr_create \in Host
      BY HistoryOps DEF Host, f2b_ipaddr_create, History, f2b_matches_flush
    <2>2. now' <= clock'
      BY <1>3, TimeAssumption DEF Forgotten, TypeOK, Time
    <2> QED
      BY <1>3, <2>1, <2>2 DEF Forgotten, TypeOK, fileVars
  <1>4. CASE StopEnd \/ Crash
    BY <1>3, <1>4 DEF StopEnd, Crash, TypeOK
  <1> QED
    BY <1>1, <1>2, <1>4 DEF Stop

(* Every step of the daemon, the clock and the operator keeps the types.    *)
LEMMA TypeStep == TypeOK /\ [Next]_vars => TypeOK'
  <1> SUFFICES ASSUME TypeOK, [Next]_vars PROVE TypeOK'
    OBVIOUS
  <1>1. CASE Tick
    <2>1. clock' \in Time /\ now' <= clock' /\ lines' \in 0 .. MaxLines
      BY <1>1, TimeAssumption, JailAssumption DEF Tick, TypeOK, Time, jailVars
    <2> QED
      BY <1>1, <2>1 DEF Tick, TypeOK, jailVars, fileVars
  <1>2. CASE ProcessBegin
    BY <1>2, TimeAssumption DEF ProcessBegin, TypeOK, fileVars, Time
  <1>3. CASE PollEnd
    BY <1>3 DEF PollEnd, TypeOK, fileVars
  <1>4. CASE SweepEnd
    BY <1>4 DEF SweepEnd, TypeOK, fileVars
  <1>5. CASE UNCHANGED vars
    BY <1>5 DEF vars, jailVars, fileVars, TypeOK
  <1> QED
    BY <1>1, <1>2, <1>3, <1>4, <1>5, StartType, PollType, SweepType, SaveType,
       CommandType, StopType DEF Next, Process

(* Whatever the faults, crashes and commands, the hosts the jail counts as  *)
(* banned are on its list, loops only visit hosts of the list, parameters   *)
(* stay in range and no pass runs ahead of the clock.                       *)
THEOREM TypeCorrect == Spec => []TypeOK
  BY TypeInit, TypeStep, PTL DEF Spec
---------------------------------------------------------------------------
(* The firewall.                                                            *)
(*                                                                          *)
(* Neither statement about the firewall is inductive: the loops that        *)
(* restore and stop rely on visiting banned hosts only, and on visiting     *)
(* them all.                                                                *)

LoopInv ==
    /\ pc = "restore" => todo \subseteq banned
    /\ pc = "stop" => todo = banned
    /\ pc = "down" => banned = {}

FirewallInv == TypeOK /\ LoopInv /\ FirewallCoversBans /\ FirewallExact

(* The sweep never forgets a host that it has not released. *)
LEMMA ForgottenIsReleased ==
    ASSUME TypeOK, NEW a \in banned, IsExpired(Swept(a))
    PROVE  IsReleased(a)
  <1> SUFFICES ASSUME ~IsReleased(a) PROVE FALSE
    OBVIOUS
  <1>1. host[a] \in Host /\ opt.expiretime \in Nat /\ now \in Nat
    BY TimeAssumption DEF TypeOK, Options, Period, Param, Time
  <1>2. now <= host[a].release_at
    BY <1>1 DEF IsReleased, Host
  <1>3. now > host[a].release_at
    BY <1>1 DEF IsExpired, Swept, Host
  <1> QED
    BY <1>1, <1>2, <1>3 DEF Host

(* Every step keeps firewall and host list together: what f2b_jail_ban and  *)
(* f2b_jail_unban do to one they do to the other, and no host leaves the list *)
(* while it is banned.                                                      *)
LEMMA FirewallStep == FirewallInv /\ [Next]_vars => FirewallInv'
  <1> SUFFICES ASSUME FirewallInv, [Next]_vars
               PROVE  LoopInv' /\ FirewallCoversBans' /\ FirewallExact'
    BY TypeStep DEF FirewallInv
  <1> USE DEF FirewallInv, LoopInv, FirewallCoversBans, FirewallExact
  <1>1. CASE Tick
    BY <1>1 DEF Tick, jailVars
  <1>2. CASE f2b_jail_start
    BY <1>2 DEF f2b_jail_start, Restored
  <1>3. ASSUME NEW a \in Addr, RestoreBan(a) PROVE LoopInv' /\ FirewallCoversBans' /\ FirewallExact'
    BY <1>3 DEF RestoreBan, f2b_backend_ban
  <1>4. CASE Started
    BY <1>4 DEF Started
  <1>5. CASE ProcessBegin \/ PollEnd \/ SweepEnd \/ ProcessEnd
    BY <1>5 DEF ProcessBegin, PollEnd, SweepEnd, ProcessEnd
  <1>6. ASSUME NEW a \in Addr, NEW s \in Scores, PollLine(a, s)
        PROVE  LoopInv' /\ FirewallCoversBans' /\ FirewallExact'
    BY <1>6 DEF PollLine, f2b_backend_ban
  <1>7. ASSUME NEW a \in Addr, Sweep(a) PROVE LoopInv' /\ FirewallCoversBans' /\ FirewallExact'
    <2>1. CASE IsReleased(a)
      BY <1>7, <2>1 DEF Sweep, f2b_backend_unban
    <2>2. CASE ~IsReleased(a)
      <3>1. banned' = banned
        BY <1>7, <2>2, ForgottenIsReleased DEF Sweep
      <3> QED
        BY <1>7, <2>2, <3>1 DEF Sweep
    <2> QED
      BY <2>1, <2>2
  <1>8. ASSUME NEW a \in Addr, CmdBan(a) PROVE LoopInv' /\ FirewallCoversBans' /\ FirewallExact'
    BY <1>8 DEF CmdBan, f2b_backend_ban
  <1>9. ASSUME NEW a \in Addr, CmdRelease(a) PROVE LoopInv' /\ FirewallCoversBans' /\ FirewallExact'
    BY <1>9 DEF CmdRelease, f2b_backend_unban
  <1>10. ASSUME NEW p \in Param, NEW v \in Values, f2b_jail_set_param(p, v)
         PROVE  LoopInv' /\ FirewallCoversBans' /\ FirewallExact'
    BY <1>10 DEF f2b_jail_set_param
  <1>11. CASE StopBegin
    BY <1>11 DEF StopBegin
  <1>12. ASSUME NEW a \in Addr, StopUnban(a) PROVE LoopInv' /\ FirewallCoversBans' /\ FirewallExact'
    BY <1>12 DEF StopUnban, f2b_backend_unban
  <1>13. CASE StopEnd
    BY <1>13 DEF StopEnd, Forgotten
  <1>14. CASE Crash
    BY <1>14 DEF Crash, Forgotten
  <1>15. CASE UNCHANGED vars
    BY <1>15 DEF vars, jailVars
  <1> QED
    BY <1>1, <1>2, <1>3, <1>4, <1>5, <1>6, <1>7, <1>8, <1>9, <1>10, <1>11, <1>12, <1>13,
       <1>14, <1>15 DEF Next, Process, Start, Command, Stop

(* The strengthened invariant about the firewall holds from the start.      *)
LEMMA FirewallInvariant == Spec => []FirewallInv
  <1>1. Init => FirewallInv
    BY TypeInit DEF Init, FirewallInv, LoopInv, FirewallCoversBans, FirewallExact
  <1> QED
    BY <1>1, FirewallStep, PTL DEF Spec

(* A reliable backend blocks every host the jail counts as banned, from the *)
(* end of f2b_jail_start until the shutdown, whatever crashes went before.  *)
THEOREM BansAreEnforced == Spec => []FirewallCoversBans
  <1>1. FirewallInv => FirewallCoversBans
    BY DEF FirewallInv
  <1> QED
    BY <1>1, FirewallInvariant, PTL

(* Without faults the firewall blocks the banned hosts and nobody else, and *)
(* a shutdown leaves it empty.                                              *)
THEOREM FirewallIsExact == Spec => []FirewallExact
  <1>1. FirewallInv => FirewallExact
    BY DEF FirewallInv
  <1> QED
    BY <1>1, FirewallInvariant, PTL

(* No fault of any kind releases a host early: only the operator, a         *)
(* shutdown and the clock do.                                               *)
THEOREM ReleasesAreDue == Spec => NoEarlyRelease
  <1> DEFINE Due == \A a \in fw \ fw' : pc \in {"idle", "stop"} \/ clock > host[a].release_at
  <1>1. ASSUME TypeOK, [Next]_vars PROVE [Due]_vars
    <2> SUFFICES ASSUME NEW a \in fw \ fw', pc \notin {"idle", "stop"}, Next
                 PROVE  clock > host[a].release_at
      BY <1>1 DEF vars
    <2>1. PICK b \in Addr : Sweep(b)
      BY DEF Next, Tick, Start, f2b_jail_start, Restored, RestoreBan, Started, f2b_backend_ban, Process,
             ProcessBegin, PollLine, PollEnd, SweepEnd, ProcessEnd, Command, CmdBan, CmdRelease,
             f2b_jail_set_param, Stop, StopBegin, StopUnban, StopEnd, Crash
    <2>2. b = a /\ IsReleased(a)
      BY <2>1 DEF Sweep, f2b_backend_unban
    <2>3. host[a].release_at \in Nat /\ clock \in Nat /\ now \in Nat /\ now <= clock
      BY <2>1, <2>2, <1>1, TimeAssumption DEF TypeOK, Host, Time
    <2> QED
      BY <2>2, <2>3 DEF IsReleased
  <1> QED
    BY <1>1, TypeCorrect, PTL DEF Spec, NoEarlyRelease

---------------------------------------------------------------------------
(* The length of a ban. *)

(* BanTerm with the parameter it depends on. *)
TermInv == TypeOK /\ opt.bantime \in Bantimes /\ BanTerm

(* f2b_jail_ban sets a term of at least bantime, however many bans went before. *)
LEMMA BanHostTerm ==
    ASSUME TermInv, NEW h \in Host
    PROVE  /\ BanHost(h).release_at >= BanHost(h).banned_at + opt.bantime
           /\ BanHost(h).banned_at \in Nat /\ BanHost(h).release_at \in Nat
  <1>1. /\ Extended("bantime", "bantime_extend", h.bancount) \in Nat
        /\ Extended("bantime", "bantime_extend", h.bancount) >= opt["bantime"]
    BY ExtendedGrows DEF TermInv, TypeOK, Host, Period, Extend
  <1>2. opt.bantime \in Nat
    BY DEF TermInv, TypeOK, Options, Period, Param
  <1> QED
    BY <1>1, <1>2 DEF BanHost, Host

(* No step shortens a ban in memory or in the state file, or sets a bantime the *)
(* jail was never given.                                                    *)
LEMMA TermStep == TermInv /\ [Next]_vars => TermInv'
  <1> SUFFICES ASSUME TermInv, [Next]_vars
               PROVE  opt'.bantime \in Bantimes /\ BanTerm'
    BY TypeStep DEF TermInv
  <1> USE DEF TermInv, BanTerm
  <1>1. CASE Tick \/ UNCHANGED vars
    <2>1. UNCHANGED <<opt, banned, host, saved, entry>>
      BY <1>1 DEF Tick, vars, jailVars, fileVars
    <2> QED
      BY <2>1
  <1>2. CASE f2b_jail_start
    <2>1. opt' = Config /\ UNCHANGED <<saved, entry>> /\ banned' \subseteq Addr
      BY <1>2 DEF f2b_jail_start, Restored, fileVars, TypeOK
    <2>2. \A a \in banned' : /\ a \in saved
                             /\ host'[a].banned_at = entry[a].banned_at
                             /\ host'[a].release_at = entry[a].release_at
      BY <1>2 DEF f2b_jail_start, Restored, TypeOK, LoadedHost
    <2> QED
      BY <2>1, <2>2 DEF Bantimes
  <1>3. CASE (\E a \in Addr : RestoreBan(a)) \/ Started \/ ProcessBegin \/ PollEnd \/ SweepEnd
             \/ StopBegin
    BY <1>3 DEF RestoreBan, Started, ProcessBegin, PollEnd, SweepEnd, StopBegin, fileVars
  <1>4. ASSUME NEW a \in Addr, NEW s \in Scores, PollLine(a, s)
        PROVE  opt'.bantime \in Bantimes /\ BanTerm'
    <2>1. UNCHANGED <<opt, saved, entry>>
      BY <1>4 DEF PollLine, fileVars
    <2>2. CASE a \in banned
      <3>1. host' = [host EXCEPT ![a] = Seen(a, s)] /\ banned' = banned
        BY <1>4, <2>2 DEF PollLine
      <3>2. Seen(a, s).banned_at = host[a].banned_at /\ Seen(a, s).release_at = host[a].release_at
        BY DEF Seen, TypeOK, Host
      <3> QED
        BY <2>1, <3>1, <3>2 DEF TypeOK
    <2>3. CASE a \notin banned /\ ~ReachesBanscore(a, s)
      BY <1>4, <2>1, <2>3 DEF PollLine, TypeOK
    <2>4. CASE a \notin banned /\ ReachesBanscore(a, s)
      <3>1. host' = [host EXCEPT ![a] = BanHost(Looked(a, s))] /\ banned' = banned \cup {a}
        BY <1>4, <2>4 DEF PollLine
      <3>2. Looked(a, s) \in Host
        BY LineOps
      <3> QED
        BY <2>1, <3>1, <3>2, BanHostTerm DEF TypeOK
    <2> QED
      BY <2>2, <2>3, <2>4
  <1>5. ASSUME NEW a \in Addr, Sweep(a) PROVE opt'.bantime \in Bantimes /\ BanTerm'
    <2>1. \A b \in banned' : b \in banned /\ host'[b] = host[b]
      <3> SUFFICES ASSUME NEW b \in banned' PROVE b \in banned /\ host'[b] = host[b]
        OBVIOUS
      <3>1. b \in banned
        BY <1>5 DEF Sweep
      <3>2. CASE b # a
        BY <1>5, <3>1, <3>2 DEF Sweep, TypeOK
      <3>3. CASE b = a
        BY <1>5, <3>1, <3>3 DEF Sweep, Swept, TypeOK
      <3> QED
        BY <3>1, <3>2, <3>3
    <2> QED
      BY <1>5, <2>1 DEF Sweep, fileVars
  <1>6. CASE ProcessEnd
    <2>1. UNCHANGED <<opt, banned, host>>
      BY <1>6 DEF ProcessEnd
    <2>2. CASE UNCHANGED fileVars
      BY <2>1, <2>2 DEF fileVars
    <2>3. CASE ~UNCHANGED fileVars
      <3>1. /\ saved' \subseteq banned
            /\ entry' = [a \in Addr |->
                           IF a \in saved'
                           THEN [banned_at  |-> host[a].banned_at,
                                 release_at |-> host[a].release_at]
                           ELSE NoEntry]
        BY <1>6, <2>3 DEF ProcessEnd, f2b_statefile_save
      <3> QED
        BY <2>1, <3>1 DEF TypeOK
    <2> QED
      BY <2>2, <2>3
  <1>7. ASSUME NEW a \in Addr, CmdBan(a) PROVE opt'.bantime \in Bantimes /\ BanTerm'
    <2> DEFINE h == IF a \in known THEN host[a]
                    ELSE [f2b_ipaddr_create EXCEPT !.lastseen = clock]
    <2>1. h \in Host
      <3>1. clock \in Nat
        BY TimeAssumption DEF TypeOK, Time
      <3>2. f2b_ipaddr_create \in Host
        BY HistoryOps DEF Host, f2b_ipaddr_create, History, f2b_matches_flush
      <3> QED
        BY <3>1, <3>2 DEF TypeOK, Host
    <2>2. host' = [host EXCEPT ![a] = BanHost(h)] /\ banned' = banned \cup {a}
      BY <1>7 DEF CmdBan
    <2> QED
      BY <1>7, <2>1, <2>2, BanHostTerm DEF CmdBan, fileVars, TypeOK
  <1>8. ASSUME NEW a \in Addr, CmdRelease(a) \/ StopUnban(a)
        PROVE  opt'.bantime \in Bantimes /\ BanTerm'
    BY <1>8 DEF CmdRelease, StopUnban, fileVars, TypeOK
  <1>9. ASSUME NEW p \in Param, NEW v \in Values, f2b_jail_set_param(p, v)
        PROVE  opt'.bantime \in Bantimes /\ BanTerm'
    <2>1. opt'.bantime \in Bantimes
      BY <1>9, JailAssumption, StoredIsInt DEF f2b_jail_set_param, Bantimes, TypeOK, Options, Param, Period, Extend
    <2> QED
      BY <1>9, <2>1 DEF f2b_jail_set_param, fileVars
  <1>10. CASE StopEnd \/ Crash
    BY <1>10 DEF StopEnd, Crash, Forgotten, fileVars
  <1> QED
    BY <1>1, <1>2, <1>3, <1>4, <1>5, <1>6, <1>7, <1>8, <1>9, <1>10
       DEF Next, Process, Start, Command, Stop

(* Every ban, in memory or on disk, is at least as long as a bantime the    *)
(* jail was given, whatever the operator sets and whatever fails.           *)
THEOREM BansKeepTheirTerm == Spec => []BanTerm
  <1>1. Init => TermInv
    BY TypeInit DEF Init, TermInv, BanTerm, Bantimes
  <1>2. TermInv => BanTerm
    BY DEF TermInv
  <1> QED
    BY <1>1, <1>2, TermStep, PTL DEF Spec

---------------------------------------------------------------------------
(* The state file. *)

(* During a pass a ban may wait for its save, with need_save set. *)
DiskInv ==
    HasState /\ ~CanFail /\ "ban" \notin Commands =>
        /\ pc \in {"restore", "idle", "stop"} => \A a \in banned : OnDisk(a)
        /\ pc \in {"poll", "sweep", "save"} => need_save \/ \A a \in banned : OnDisk(a)

(* Every step keeps the bans in the state file, or need_save set until      *)
(* f2b_jail_process ends.                                                   *)
LEMMA DiskStep == TypeOK /\ DiskInv /\ [Next]_vars => DiskInv'
  <1> SUFFICES ASSUME TypeOK, DiskInv, [Next]_vars, HasState, ~CanFail, "ban" \notin Commands
               PROVE  /\ pc' \in {"restore", "idle", "stop"} => (\A a \in banned : OnDisk(a))'
                      /\ pc' \in {"poll", "sweep", "save"} =>
                             need_save' \/ (\A a \in banned : OnDisk(a))'
    BY DEF DiskInv
  <1> DEFINE Goal == /\ pc' \in {"restore", "idle", "stop"} => (\A a \in banned : OnDisk(a))'
                     /\ pc' \in {"poll", "sweep", "save"} =>
                            need_save' \/ (\A a \in banned : OnDisk(a))'
  (* Steps that leave the dates of the banned hosts and the file alone. *)
  <1>1. ASSUME banned' \subseteq banned, UNCHANGED <<saved, entry>>,
               \A a \in banned' : /\ host'[a].banned_at = host[a].banned_at
                                  /\ host'[a].release_at = host[a].release_at
        PROVE  (\A a \in banned : OnDisk(a)) => (\A a \in banned : OnDisk(a))'
    BY <1>1 DEF OnDisk
  <1>2. CASE Tick \/ UNCHANGED vars
    BY <1>1, <1>2 DEF Tick, vars, jailVars, fileVars, DiskInv
  <1>3. CASE f2b_jail_start
    <2>1. UNCHANGED <<saved, entry>> /\ pc' = "restore"
      BY <1>3 DEF f2b_jail_start, Restored, fileVars
    <2>2. \A a \in banned' : /\ a \in saved
                             /\ host'[a].banned_at = entry[a].banned_at
                             /\ host'[a].release_at = entry[a].release_at
      BY <1>3 DEF f2b_jail_start, Restored, TypeOK, LoadedHost
    <2>3. \A a \in banned' : entry[a] \in Entry
      BY <2>2 DEF TypeOK
    <2> QED
      BY <2>1, <2>2, <2>3 DEF OnDisk, Entry
  <1>4. CASE (\E a \in Addr : RestoreBan(a)) \/ Started \/ ProcessBegin \/ PollEnd \/ SweepEnd
             \/ StopBegin
    BY <1>1, <1>4 DEF RestoreBan, Started, ProcessBegin, PollEnd, SweepEnd, StopBegin, fileVars,
       DiskInv
  <1>5. ASSUME NEW a \in Addr, NEW s \in Scores, PollLine(a, s) PROVE Goal
    <2>1. pc = "poll" /\ pc' = "poll" /\ UNCHANGED <<saved, entry>>
      BY <1>5 DEF PollLine, fileVars
    <2>2. CASE a \in banned
      <3>1. host' = [host EXCEPT ![a] = Seen(a, s)] /\ UNCHANGED <<banned, need_save>>
        BY <1>5, <2>2 DEF PollLine
      <3>2. Seen(a, s).banned_at = host[a].banned_at /\ Seen(a, s).release_at = host[a].release_at
        BY DEF Seen, TypeOK, Host
      <3> QED
        BY <1>1, <2>1, <3>1, <3>2 DEF TypeOK, DiskInv
    <2>3. CASE a \notin banned /\ ~ReachesBanscore(a, s)
      BY <1>1, <1>5, <2>1, <2>3 DEF PollLine, TypeOK, DiskInv
    <2>4. CASE a \notin banned /\ ReachesBanscore(a, s)
      BY <1>5, <2>1, <2>4 DEF PollLine
    <2> QED
      BY <2>2, <2>3, <2>4
  <1>6. ASSUME NEW a \in Addr, Sweep(a) PROVE Goal
    <2>1. \A b \in banned' : b \in banned /\ host'[b] = host[b]
      <3> SUFFICES ASSUME NEW b \in banned' PROVE b \in banned /\ host'[b] = host[b]
        OBVIOUS
      <3>1. b \in banned
        BY <1>6 DEF Sweep
      <3>2. CASE b # a
        BY <1>6, <3>1, <3>2 DEF Sweep, TypeOK
      <3>3. CASE b = a
        BY <1>6, <3>1, <3>3 DEF Sweep, Swept, TypeOK
      <3> QED
        BY <3>1, <3>2, <3>3
    <2> QED
      BY <1>1, <1>6, <2>1 DEF Sweep, fileVars, DiskInv
  <1>7. CASE ProcessEnd
    <2>1. pc = "save" /\ pc' = "idle" /\ UNCHANGED <<banned, host, known>>
      BY <1>7 DEF ProcessEnd
    <2>2. CASE need_save /\ known # {}
      <3>1. /\ saved' = banned
            /\ entry' = [a \in Addr |->
                           IF a \in saved'
                           THEN [banned_at  |-> host[a].banned_at,
                                 release_at |-> host[a].release_at]
                           ELSE NoEntry]
        BY <1>7, <2>2 DEF ProcessEnd, f2b_statefile_save
      <3> QED
        BY <2>1, <3>1 DEF OnDisk, TypeOK
    <2>3. CASE need_save /\ known = {}
      BY <2>1, <2>3 DEF TypeOK
    <2>4. CASE ~need_save
      BY <1>1, <1>7, <2>1, <2>4 DEF ProcessEnd, fileVars, DiskInv
    <2> QED
      BY <2>2, <2>3, <2>4 DEF TypeOK
  <1>8. ASSUME NEW a \in Addr, CmdRelease(a) \/ StopUnban(a) PROVE Goal
    <2>1. \A b \in banned' : b \in banned /\ host'[b] = host[b]
      BY <1>8 DEF CmdRelease, StopUnban, TypeOK
    <2> QED
      BY <1>1, <1>8, <2>1 DEF CmdRelease, StopUnban, fileVars, DiskInv
  <1>9. ASSUME NEW p \in Param, NEW v \in Values, f2b_jail_set_param(p, v) PROVE Goal
    BY <1>1, <1>9 DEF f2b_jail_set_param, fileVars, DiskInv
  <1>10. CASE StopEnd \/ Crash
    BY <1>10 DEF StopEnd, Crash, Forgotten
  <1>11. ASSUME NEW a \in Addr, CmdBan(a) PROVE Goal
    BY <1>11 DEF CmdBan
  <1> QED
    BY <1>2, <1>3, <1>4, <1>5, <1>6, <1>7, <1>8, <1>9, <1>10, <1>11
       DEF Next, Process, Start, Command, Stop

(* Between two passes every ban that was not made by hand is in the state   *)
(* file with its dates, when file operations succeed.                       *)
THEOREM BansAreSaved == Spec => []BansOnDisk
  <1>1. Init => DiskInv
    BY DEF Init, DiskInv
  <1>2. DiskInv => BansOnDisk
    BY DEF DiskInv, BansOnDisk
  <1> QED
    BY <1>1, <1>2, DiskStep, TypeCorrect, PTL DEF Spec
---------------------------------------------------------------------------
(* What a restart brings back. *)

(* From the end of f2b_jail_start to the shutdown, a saved ban that is not  *)
(* over is a ban of the jail with the same release time.                    *)
RestoredInv ==
    HasState /\ ~CanFail /\ Commands = {} /\ pc \notin {"down", "stop"} =>
        \A a \in saved : clock < entry[a].release_at
            => a \in banned /\ host[a].release_at = entry[a].release_at

(* Every step keeps what the state file says of unfinished bans in          *)
(* agreement with the host list and the firewall.                           *)
LEMMA RestoredStep == TypeOK /\ RestoredInv /\ [Next]_vars => RestoredInv'
  <1> SUFFICES ASSUME TypeOK, RestoredInv, [Next]_vars,
                      HasState, ~CanFail, Commands = {}, pc' \notin {"down", "stop"},
                      NEW a \in saved', clock' < entry'[a].release_at
               PROVE  a \in banned' /\ host'[a].release_at = entry'[a].release_at
    BY DEF RestoredInv
  <1> DEFINE Goal == a \in banned' /\ host'[a].release_at = entry'[a].release_at
  <1>1. clock \in Nat /\ clock' \in Nat /\ clock' >= clock /\ now \in Nat /\ now <= clock
    <2>1. UNCHANGED clock \/ clock' = clock + 1
      BY DEF Next, Tick, Start, f2b_jail_start, Restored, RestoreBan, Started, Process, ProcessBegin,
             PollLine, PollEnd, Sweep, SweepEnd, ProcessEnd, Command, CmdBan, CmdRelease,
             f2b_jail_set_param, Stop, StopBegin, StopUnban, StopEnd, Forgotten, Crash, vars
    <2> QED
      BY <2>1, TimeAssumption DEF TypeOK, Time
  <1>2. a \in Addr /\ a \in (saved \cup banned)
    BY DEF TypeOK, Next, Tick, Start, f2b_jail_start, Restored, RestoreBan, Started, Process, ProcessBegin,
           PollLine, PollEnd, Sweep, SweepEnd, ProcessEnd, f2b_statefile_save, Command, CmdBan,
           CmdRelease, f2b_jail_set_param, Stop, StopBegin, StopUnban, StopEnd, Forgotten, Crash,
           vars, fileVars
  (* Steps that keep the file and this host's ban. *)
  <1>3. ASSUME UNCHANGED <<saved, entry>>, pc \notin {"down", "stop"},
               a \in banned => a \in banned' /\ host'[a].release_at = host[a].release_at
        PROVE  Goal
    <2>1. entry'[a].release_at = entry[a].release_at /\ entry[a].release_at \in Nat
      BY <1>2, <1>3 DEF TypeOK, Entry
    <2>2. clock < entry[a].release_at
      BY <1>1, <2>1
    <2> QED
      BY <1>3, <2>1, <2>2 DEF RestoredInv
  <1>4. CASE Tick \/ UNCHANGED vars
    <2>1. UNCHANGED <<pc, banned, host, saved, entry>>
      BY <1>4 DEF Tick, vars, jailVars, fileVars
    <2> QED
      BY <1>3, <2>1
  <1>5. CASE f2b_jail_start
    <2>1. UNCHANGED <<clock, saved, entry>>
      BY <1>5 DEF f2b_jail_start, Restored, fileVars
    <2>2. banned' = {b \in saved : clock < entry[b].release_at} /\ host'[a] = LoadedHost(entry[a])
      BY <1>2, <1>5, <2>1 DEF f2b_jail_start, Restored, TypeOK
    <2> QED
      BY <2>1, <2>2 DEF LoadedHost
  <1>6. CASE (\E b \in Addr : RestoreBan(b)) \/ Started \/ ProcessBegin \/ PollEnd \/ SweepEnd
    BY <1>3, <1>6 DEF RestoreBan, Started, ProcessBegin, PollEnd, SweepEnd, fileVars
  <1>7. ASSUME NEW b \in Addr, NEW s \in Scores, PollLine(b, s) PROVE Goal
    <2>1. pc = "poll" /\ UNCHANGED <<saved, entry>> /\ banned \subseteq banned'
      BY <1>7 DEF PollLine, fileVars
    <2>2. a \in banned => host'[a].release_at = host[a].release_at
      <3>1. CASE a = b /\ a \in banned
        <4>1. host' = [host EXCEPT ![a] = Seen(a, s)]
          BY <1>7, <3>1 DEF PollLine
        <4>2. Seen(a, s).release_at = host[a].release_at
          BY <1>2 DEF Seen, TypeOK, Host
        <4> QED
          BY <1>2, <4>1, <4>2 DEF TypeOK
      <3>2. CASE a # b
        BY <1>2, <1>7, <3>2 DEF PollLine, TypeOK
      <3> QED
        BY <3>1, <3>2
    <2> QED
      BY <1>3, <2>1, <2>2
  <1>8. ASSUME NEW b \in Addr, Sweep(b) PROVE Goal
    <2>1. pc = "sweep" /\ UNCHANGED <<clock, saved, entry>>
      BY <1>8 DEF Sweep, fileVars
    <2>2. a \in banned /\ host[a].release_at = entry[a].release_at
      BY <2>1 DEF RestoredInv
    <2>3. ~IsReleased(a)
      BY <1>1, <1>2, <2>1, <2>2 DEF IsReleased, TypeOK, Entry
    <2>4. ~IsExpired(Swept(a))
      BY <2>2, <2>3, ForgottenIsReleased
    <2>5. a \in banned' /\ host'[a] = host[a]
      BY <1>2, <1>8, <2>2, <2>3, <2>4 DEF Sweep, Swept, TypeOK
    <2> QED
      BY <2>1, <2>2, <2>5
  <1>9. CASE ProcessEnd
    <2>1. UNCHANGED <<banned, host>> /\ pc = "save"
      BY <1>9 DEF ProcessEnd
    <2>2. CASE UNCHANGED fileVars
      BY <1>3, <2>1, <2>2 DEF fileVars
    <2>3. CASE ~UNCHANGED fileVars
      <3>1. /\ saved' \subseteq banned
            /\ entry'[a] = [banned_at |-> host[a].banned_at, release_at |-> host[a].release_at]
        BY <1>2, <1>9, <2>3 DEF ProcessEnd, f2b_statefile_save
      <3> QED
        BY <2>1, <3>1
    <2> QED
      BY <2>2, <2>3
  <1>10. ASSUME NEW p \in Param, NEW v \in Values, f2b_jail_set_param(p, v) PROVE Goal
    BY <1>3, <1>10 DEF f2b_jail_set_param, fileVars
  <1>11. CASE \E b \in Addr : CmdBan(b) \/ CmdRelease(b)
    BY <1>11 DEF CmdBan, CmdRelease
  <1>12. CASE Stop \/ Crash
    BY <1>12 DEF Stop, StopBegin, StopUnban, StopEnd, Crash, Forgotten
  <1> QED
    BY <1>4, <1>5, <1>6, <1>7, <1>8, <1>9, <1>10, <1>11, <1>12
       DEF Next, Process, Start, Command

(* A started jail holds and blocks every host with a saved ban that is not  *)
(* over, with the release time of the file: no crash, at whatever point,    *)
(* loses or shortens a saved ban.                                           *)
THEOREM SavedBansReturn == Spec => []BansRestored
  <1>1. Init => RestoredInv
    BY DEF Init, RestoredInv
  <1>2. RestoredInv /\ FirewallCoversBans => BansRestored
    BY DEF RestoredInv, FirewallCoversBans, BansRestored
  <1> QED
    BY <1>1, <1>2, RestoredStep, TypeCorrect, BansAreEnforced, PTL DEF Spec

---------------------------------------------------------------------------
(* The decision to ban. *)

(* A pass has a time: `now` is set before the first line is read. *)
PassInv == TypeOK /\ (pc \in {"poll", "sweep", "save"} => now \in Time)

LEMMA PassInvariant == Spec => []PassInv
  <1>1. Init => PassInv
    BY TypeInit DEF Init, PassInv
  <1>2. PassInv /\ [Next]_vars => PassInv'
    <2> SUFFICES ASSUME PassInv, [Next]_vars PROVE pc' \in {"poll", "sweep", "save"} => now' \in Time
      BY TypeStep DEF PassInv
    <2>1. CASE UNCHANGED <<pc, now>>
      BY <2>1 DEF PassInv
    <2>2. CASE ProcessBegin
      BY <2>2 DEF ProcessBegin, PassInv, TypeOK
    <2>3. CASE PollEnd \/ SweepEnd
      BY <2>3 DEF PollEnd, SweepEnd, PassInv
    <2>4. CASE pc' \notin {"poll", "sweep", "save"}
      BY <2>4
    <2> QED
      BY <2>1, <2>2, <2>3, <2>4
      DEF Next, Tick, Start, f2b_jail_start, RestoreBan, Started, Process, PollLine, Sweep,
          ProcessEnd, Command, CmdBan, CmdRelease, f2b_jail_set_param, Stop, StopBegin, StopUnban,
          StopEnd, Crash, Forgotten, vars, jailVars
  <1> QED
    BY <1>1, <1>2, PTL DEF Spec

LEMMA TimeFinite == IsFiniteSet(Time) /\ \A S \in SUBSET Time : IsFiniteSet(S)
  <1>1. IsFiniteSet(Time)
    BY TimeAssumption, FS_Interval DEF Time
  <1> QED
    BY <1>1, FS_Subset

(* Of a history that was expired at `cut`, after a match of `now` was       *)
(* prepended, the whole sum is the sum of what was younger than `cut`       *)
(* before, and the score of the new match.                                  *)
LEMMA WindowScore ==
    ASSUME NEW h \in History, NEW t \in Time, NEW s \in Nat, NEW cut \in Int, cut < t
    PROVE  LET kept == {u \in Time : u >= cut + 1} IN
           /\ SumFunctionOnSet(f2b_matches_expire(f2b_matches_prepend(h, t, s), cut), Time)
                 = SumFunctionOnSet(h, kept) + s
           /\ SumFunctionOnSet(h, kept) \in Nat
  <1> DEFINE g == f2b_matches_prepend(h, t, s)
             e == f2b_matches_expire(g, cut)
             kept == {u \in Time : u >= cut + 1}
             old == {u \in Time : ~(u > cut)}
  <1>1. /\ \A u \in Time : u \in Int /\ h[u] \in Nat
        /\ g[t] = h[t] + s /\ \A u \in Time : u # t => g[u] = h[u]
    BY TimeAssumption DEF Time, History, f2b_matches_prepend
  <1>2. /\ \A u \in kept : e[u] = g[u] /\ u \in Time
        /\ \A u \in old : e[u] = 0
        /\ Time \ old = kept /\ t \in kept
    BY <1>1 DEF f2b_matches_expire
  <1>3. \A u \in Time : e[u] \in Int
    BY <1>1 DEF f2b_matches_expire
  <1>4. IsFiniteSet(Time) /\ IsFiniteSet(kept) /\ old \in SUBSET Time
    BY TimeFinite
  <1> HIDE DEF g, e, kept, old
  <1>5. SumFunctionOnSet(e, Time) = SumFunctionOnSet(e, Time \ old)
    BY <1>2, <1>3, <1>4, SumSupport
  <1>6. SumFunctionOnSet(e, kept) = SumFunctionOnSet(g, kept)
    BY <1>2, <1>4, SumEqual
  <1>7. SumFunctionOnSet(g, kept) = SumFunctionOnSet(h, kept) + s
    <2>1. /\ \A u \in kept : h[u] \in Int
          /\ s \in Int /\ \A u \in kept : u # t => g[u] = h[u]
      BY <1>1, <1>2
    <2> QED
      BY <1>1, <1>2, <1>4, <2>1, SumRaised
  <1>8. SumFunctionOnSet(h, kept) \in Nat
    <2>1. \A u \in kept : h[u] \in Nat
      BY <1>1, <1>2
    <2> QED
      BY <1>4, <2>1, SumType
  <1> QED
    BY <1>2, <1>5, <1>6, <1>7, <1>8 DEF g, e, kept

(* A sum that fits is stored as it is. *)
LEMMA ShortFits == ASSUME NEW v \in Nat, v < ShortHalf PROVE Short(v) = v
  <1>1. ShortHalf \in Nat \ {0}
    BY JailAssumption
  <1>2. (v + ShortHalf) % (2 * ShortHalf) = v + ShortHalf
    BY <1>1
  <1> QED
    BY <1>1, <1>2 DEF Short

(* Storing a sum in a short int never makes it larger. *)
LEMMA ShortLow == ASSUME NEW v \in Nat PROVE Short(v) \in Int /\ Short(v) <= v
  <1>1. ShortHalf \in Nat \ {0}
    BY JailAssumption
  <1>2. CASE v < ShortHalf
    BY <1>2, ShortFits
  <1>3. CASE v >= ShortHalf
    <2>1. 2 * ShortHalf \in Nat /\ 2 * ShortHalf > 0 /\ v + ShortHalf \in Int
      BY <1>1
    <2>2. (v + ShortHalf) % (2 * ShortHalf) \in 0 .. 2 * ShortHalf - 1
      BY <2>1
    <2> QED
      BY <1>1, <1>3, <2>2 DEF Short
  <1> QED
    BY <1>1, <1>2, <1>3

(* What the window of jail.c:353 leaves out can only make the sum smaller,  *)
(* and it leaves nothing out if its length is no later than the clock.      *)
LEMMA ScoreLow ==
    ASSUME NEW h \in History, NEW d \in Int
    PROVE  LET all == SumFunctionOnSet(h, Time) IN
           /\ all \in Nat /\ f2b_matches_score(h, d) \in Nat /\ f2b_matches_score(h, d) <= all
           /\ d <= T0 => f2b_matches_score(h, d) = all
  <1> DEFINE young == {t \in Time : t >= d}
             old == Time \ young
  <1>1. /\ \A t \in Time : h[t] \in Nat /\ h[t] \in Int /\ t \in Int /\ t >= T0
        /\ young \in SUBSET Time /\ old \in SUBSET Time /\ T0 \in Int
    BY TimeAssumption DEF History, Time
  <1>2. d <= T0 => young = Time
    BY <1>1
  <1>3. young \cap old = {} /\ young \cup old = Time
    BY <1>1
  <1>4. IsFiniteSet(Time) /\ IsFiniteSet(young) /\ IsFiniteSet(old)
    BY <1>1, TimeFinite
  <1>5. f2b_matches_score(h, d) = SumFunctionOnSet(h, young)
    BY DEF f2b_matches_score
  <1> HIDE DEF young, old
  <1>6. \A t \in young \cup old : h[t] \in Int
    BY <1>1, <1>3
  <1>7. SumFunctionOnSet(h, young \cup old) = SumFunctionOnSet(h, young) + SumFunctionOnSet(h, old)
    BY <1>3, <1>4, <1>6, SumUnion
  <1>8. SumFunctionOnSet(h, young) \in Nat
    <2>1. \A t \in young : h[t] \in Nat
      BY <1>1
    <2> QED
      BY <1>4, <2>1, SumType
  <1>9. SumFunctionOnSet(h, old) \in Nat
    <2>1. \A t \in old : h[t] \in Nat
      BY <1>1
    <2> QED
      BY <1>4, <2>1, SumType
  <1>10. SumFunctionOnSet(h, Time) = SumFunctionOnSet(h, young) + SumFunctionOnSet(h, old)
    BY <1>3, <1>7
  <1>11. d <= T0 => SumFunctionOnSet(h, young) = SumFunctionOnSet(h, Time)
    BY <1>2
  <1>12. /\ SumFunctionOnSet(h, Time) \in Nat
         /\ SumFunctionOnSet(h, young) <= SumFunctionOnSet(h, Time)
    BY <1>8, <1>9, <1>10
  <1> QED
    BY <1>5, <1>8, <1>11, <1>12

LEMMA Decided ==
    ASSUME PassInv, pc = "poll", NEW a \in Addr, NEW s \in Scores
    PROVE  /\ ReachesBanscore(a, s) => Collected(a, s) >= opt.banscore
           /\ \/ Collected(a, s) < opt.banscore
              \/ Collected(a, s) >= ShortHalf \/ Depth(a) > T0
              \/ ReachesBanscore(a, s)
  <1> DEFINE h == host[a].matches
             d == Depth(a)
             cut == now - d - Grace
             kept == {u \in Time : u >= cut + 1}
             e == f2b_matches_expire(f2b_matches_prepend(h, now, s), cut)
             score == f2b_matches_score(e, d)
  <1>1. host[a] \in Host /\ h \in History /\ now \in Time /\ now \in Nat /\ s \in Nat /\ Grace \in Nat
    BY TimeAssumption, JailAssumption DEF PassInv, TypeOK, Time, Host
  <1>2. d \in Nat /\ d > 0 /\ opt.banscore \in Int
    <2>1. opt \in Options /\ host[a].bancount \in Nat
      BY <1>1 DEF PassInv, TypeOK, Host
    <2>2. opt["findtime"] > 0 /\ opt["findtime"] \in Int /\ opt["banscore"] \in Int
      BY <2>1 DEF Options, Period, Param
    <2>3. Extended("findtime", "findtime_extend", host[a].bancount) \in Nat
          /\ Extended("findtime", "findtime_extend", host[a].bancount) >= opt["findtime"]
      BY <2>1, ExtendedGrows DEF Period, Extend
    <2> QED
      BY <2>2, <2>3 DEF Depth
  <1>3. Looked(a, s).matches = e
    <2>1. Seen(a, s).matches = f2b_matches_prepend(h, now, s) /\ Seen(a, s) \in Host
      BY <1>1, LineOps DEF Seen, Host, PassInv
    <2> QED
      BY <2>1 DEF Looked, Host, Depth
  <1>4. ReachesBanscore(a, s) <=> Short(score) >= opt.banscore
    BY <1>3 DEF ReachesBanscore, Depth
  <1>5. cut \in Int /\ cut < now
    BY <1>1, <1>2
  <1>6. Collected(a, s) = SumFunctionOnSet(h, kept) + s
    BY DEF Collected, ScoreSince
  <1>7. e \in History
    BY <1>1, <1>5, HistoryOps
  <1> HIDE DEF h, d, cut
  <1>8. SumFunctionOnSet(e, Time) = SumFunctionOnSet(h, kept) + s
    BY <1>1, <1>5, WindowScore
  <1> HIDE DEF e, kept
  <1>9. /\ SumFunctionOnSet(e, Time) \in Nat /\ score \in Nat
        /\ score <= SumFunctionOnSet(e, Time)
        /\ d <= T0 => score = SumFunctionOnSet(e, Time)
    BY <1>2, <1>7, ScoreLow
  <1> HIDE DEF score
  <1>10. /\ Short(score) \in Int /\ Short(score) <= score
         /\ score < ShortHalf => Short(score) = score
    BY <1>9, ShortLow, ShortFits
  <1>11. ShortHalf \in Int /\ T0 \in Int /\ d = Depth(a)
    BY JailAssumption, TimeAssumption DEF d
  <1> QED
    BY <1>2, <1>4, <1>6, <1>8, <1>9, <1>10, <1>11

(* A line bans its host only if the scores collected over findtime and the  *)
(* grace period, its own included, reach banscore, and always if they do,   *)
(* unless the sum is too large for `short int score` or the search window   *)
(* is longer than the clock is old: the matches f2b_matches_expire drops    *)
(* are the old ones only, however often the host was seen, banned and       *)
(* released before.                                                         *)
THEOREM BansAreDecided == Spec => BanDecision
  <1> DEFINE Decision ==
        \A a \in Addr \ banned, s \in Scores :
           PollLine(a, s) =>
               /\ a \in banned' => Collected(a, s) >= opt.banscore
               /\ \/ Collected(a, s) < opt.banscore
                  \/ Collected(a, s) >= ShortHalf \/ Depth(a) > T0
                  \/ a \in banned'
  <1>1. PassInv => Decision
    <2> SUFFICES ASSUME PassInv, NEW a \in Addr \ banned, NEW s \in Scores, PollLine(a, s)
                 PROVE  /\ a \in banned' => Collected(a, s) >= opt.banscore
                        /\ \/ Collected(a, s) < opt.banscore
                           \/ Collected(a, s) >= ShortHalf \/ Depth(a) > T0
                           \/ a \in banned'
      OBVIOUS
    <2>1. (a \in banned' <=> ReachesBanscore(a, s)) /\ pc = "poll"
      BY DEF PollLine
    <2> QED
      BY <2>1, Decided
  <1>2. PassInv /\ [Next]_vars => [Decision]_vars
    BY <1>1
  <1> QED
    BY <1>2, PassInvariant, PTL DEF Spec, BanDecision
=============================================================================

-------------------------------- MODULE Jail --------------------------------
(***************************************************************************)
(* One jail of the f2b daemon (src/jail.c with src/ipaddr.c and            *)
(* src/statefile.c): the hosts it knows, their scores and bans, the        *)
(* firewall its backend drives and the state file it keeps.                *)
(*                                                                         *)
(* The daemon is single threaded: it calls f2b_jail_process, then serves   *)
(* the control socket, then sleeps.  Commands therefore find the jail      *)
(* idle, but the daemon may be killed between any two effects, so every    *)
(* loop of the code is one step per line or per host.  The firewall and    *)
(* the state file outlive the daemon.                                      *)
(***************************************************************************)
EXTENDS ScoreHistory

CONSTANTS
    Addr,           \* addresses the log lines and the commands mention
    Scores,         \* scores a match can carry
    Grace,          \* seconds kept beyond findtime (600 in jail.c:351)
    ShortHalf,      \* 2^15 in the code: `short int score` wraps around there
    Defaults,       \* DEFAULT_BANTIME .. DEFAULT_BANSCORE of jail.c:21-24
    Config,         \* the parameters this jail gets from its config section
    Settable,       \* parameters the operator changes with `jail X set`
    Values,         \* integers atoi() may make of the values given
    Commands,       \* subset of {"ban", "release"}: ip commands in use
    HasState,       \* JAIL_HAS_STATE
    HasCheck,       \* the backend has a check command
    CanFail,        \* backend commands and file operations may fail
    CanCrash,       \* the daemon may be killed at any moment
    MaxLines,       \* bound: log lines per second
    MaxBans         \* bound: bans of one host through the control socket

Period == {"bantime", "findtime", "expiretime"}
Extend == {"bantime_extend", "findtime_extend"}   \* in percent
Param  == Period \cup Extend \cup {"banscore", "enabled"}

(* Periods and `banscore` are integers, the factors of *_extend percents,   *)
(* and `enabled` is 1 for "yes".                                            *)
Options ==
    {o \in [Param -> Int] : /\ \A p \in Period : o[p] > 0
                            /\ \A p \in Extend : o[p] >= 0}

ASSUME JailAssumption ==
    /\ Scores \subseteq Nat
    /\ Grace \in Nat /\ ShortHalf \in Nat \ {0}
    /\ Defaults \in Options /\ Config \in Options
    /\ Settable \subseteq Param /\ Values \subseteq Int
    /\ Commands \subseteq {"ban", "release"}
    /\ {HasState, HasCheck, CanFail, CanCrash} \subseteq BOOLEAN
    /\ MaxLines \in Nat /\ MaxBans \in Nat

VARIABLES
    clock,      \* time(NULL)
    opt,        \* jail parameters, f2b_jail_set_param
    known,      \* jail->ipaddrs: the hosts on the list
    banned,     \* hosts with addr->banned
    host,       \* the rest of f2b_ipaddr_t for every host
    need_save,  \* jail->sfile->need_save
    pc,         \* where the daemon is
    now,        \* `now` of f2b_jail_process
    todo,       \* hosts the current loop has still to visit
    lines,      \* log lines read in this second
    fw,         \* external: hosts the firewall blocks for this jail
    saved,      \* hosts listed in the state file
    entry       \* their banned_at and release_at in the state file

jailVars == <<opt, known, banned, host, need_save, pc, now, todo>>
fileVars == <<saved, entry>>
vars == <<clock, lines, jailVars, fw, fileVars>>

Host == [lastseen : Nat, bancount : Nat, banned_at : Nat, release_at : Nat,
         matches : History]

Entry == [banned_at : Nat, release_at : Nat]

(* f2b_ipaddr_create: calloc. *)
f2b_ipaddr_create ==
    [lastseen |-> 0, bancount |-> 0, banned_at |-> 0, release_at |-> 0,
     matches |-> f2b_matches_flush]

(* A host as f2b_statefile_load makes it of a line of the state file. *)
LoadedHost(e) ==
    [lastseen |-> 0, bancount |-> 0, banned_at |-> e.banned_at, release_at |-> e.release_at,
     matches |-> f2b_matches_flush]

NoEntry == [banned_at |-> 0, release_at |-> 0]

TypeOK ==
    /\ clock \in Time /\ now \in {0} \cup Time /\ now <= clock
    /\ opt \in Options
    /\ known \subseteq Addr /\ banned \subseteq known
    /\ host \in [Addr -> Host]
    /\ need_save \in BOOLEAN
    /\ pc \in {"down", "restore", "idle", "poll", "sweep", "save", "stop"}
    /\ todo \subseteq known
    /\ lines \in 0 .. MaxLines
    /\ fw \subseteq Addr /\ saved \subseteq Addr
    /\ entry \in [Addr -> Entry]

---------------------------------------------------------------------------
(* Mutant: the first ban counts as minus one repetition. *)
ExtendedTooFew(p, factor, bancount) ==
    opt[p] + ((bancount - 1) * opt[p] * opt[factor]) \div 100

(* Time periods grow with every ban by their *_extend factor, jail.c:207   *)
(* and jail.c:350; the product is truncated to an integer.                 *)
Extended(p, factor, bancount) == opt[p] + (bancount * opt[p] * opt[factor]) \div 100

(* A sum of scores stored in `short int score`. *)
Short(s) == ((s + ShortHalf) % (2 * ShortHalf)) - ShortHalf

(* The part of f2b_jail_ban that writes the host: the ban counts from the  *)
(* host's last match, not from the present moment.                         *)
BanHost(h) ==
    [lastseen   |-> h.lastseen,
     bancount   |-> h.bancount + 1,
     banned_at  |-> h.lastseen,
     release_at |-> h.lastseen + Extended("bantime", "bantime_extend", h.bancount),
     matches    |-> f2b_matches_flush]

(* The part of f2b_jail_unban that writes the host. *)
UnbanHost(h) ==
    [lastseen |-> h.lastseen, bancount |-> h.bancount, banned_at |-> 0,
     release_at |-> 0, matches |-> h.matches]

f2b_backend_check(a) == HasCheck /\ a \in fw

(* A backend adds the host or fails, with or without an effect; no command *)
(* is run for a host the check finds there.                                *)
f2b_backend_ban(a) ==
    \/ fw' = fw \cup {a}
    \/ CanFail /\ ~f2b_backend_check(a) /\ fw' = fw

f2b_backend_unban(a) ==
    \/ fw' = fw \ {a}
    \/ CanFail /\ fw' = fw

---------------------------------------------------------------------------
Init ==
    /\ clock = T0 /\ lines = 0
    /\ opt = Config
    /\ known = {} /\ banned = {} /\ host = [a \in Addr |-> f2b_ipaddr_create]
    /\ need_save = FALSE /\ pc = "down" /\ now = 0 /\ todo = {}
    /\ fw = {}
    /\ saved = {} /\ entry = [a \in Addr |-> NoEntry]

Tick ==
    /\ clock < MaxTime
    /\ clock' = clock + 1 /\ lines' = 0
    /\ UNCHANGED <<jailVars, fw, fileVars>>

(* Mutant: a ban that is in its last second is not restored. *)
RestoredShort(loaded) == {a \in loaded : clock + 1 < entry[a].release_at}

(* The hosts of the state file whose ban is not over, jail.c:513-517. *)
Restored(loaded) == {a \in loaded : clock < entry[a].release_at}

(* f2b_jail_create, f2b_jail_init and the first half of f2b_jail_start: the *)
(* state file becomes the host list; entries whose time is over stay on the *)
(* list as not banned, and nothing is asked of the backend for them.  When  *)
(* the file cannot be opened the list stays empty.                          *)
f2b_jail_start ==
    /\ pc = "down"
    /\ \E loaded \in {IF HasState THEN saved ELSE {}} \cup (IF CanFail THEN {{}} ELSE {}) :
        /\ known' = loaded
        /\ banned' = Restored(loaded)
        /\ host' = [a \in Addr |->
                      IF a \in loaded THEN LoadedHost(entry[a]) ELSE f2b_ipaddr_create]
    /\ opt' = Config /\ need_save' = FALSE /\ now' = 0
    /\ pc' = "restore" /\ todo' = banned'
    /\ UNCHANGED <<clock, lines, fw, fileVars>>

(* Mutant: the firewall is expected to have kept the restored bans. *)
RestoreTrusting(a) ==
    /\ pc = "restore" /\ a \in todo
    /\ todo' = todo \ {a}
    /\ UNCHANGED <<clock, lines, opt, known, banned, host, need_save, pc, now, fw, fileVars>>

(* The second half of f2b_jail_start, one host at a time. *)
RestoreBan(a) ==
    /\ pc = "restore" /\ a \in todo
    /\ f2b_backend_ban(a)
    /\ todo' = todo \ {a}
    /\ UNCHANGED <<clock, lines, opt, known, banned, host, need_save, pc, now, fileVars>>

Started ==
    /\ pc = "restore" /\ todo = {}
    /\ pc' = "idle"
    /\ UNCHANGED <<clock, lines, opt, known, banned, host, need_save, now, todo, fw, fileVars>>

---------------------------------------------------------------------------
(* f2b_jail_process: `now` is read once for the whole pass. *)
ProcessBegin ==
    /\ pc = "idle"
    /\ pc' = "poll" /\ now' = clock
    /\ UNCHANGED <<clock, lines, opt, known, banned, host, need_save, todo, fw, fileVars>>

(* The record of the host of a new line, after f2b_matches_prepend. *)
Seen(a, score) ==
    [host[a] EXCEPT !.lastseen = now,
                    !.matches  = f2b_matches_prepend(@, now, score)]

(* Mutant: the grace period is dropped from the cut-off. *)
LookedShort(a, score) ==
    LET depth == Extended("findtime", "findtime_extend", host[a].bancount)
    IN  [Seen(a, score) EXCEPT !.matches = f2b_matches_expire(@, now - depth)]

(* The same after f2b_matches_expire, done for hosts that are not banned. *)
Looked(a, score) ==
    LET depth == Extended("findtime", "findtime_extend", host[a].bancount)
    IN  [Seen(a, score) EXCEPT !.matches = f2b_matches_expire(@, now - depth - Grace)]

(* The score test of jail.c:353: f2b_matches_score gets the length of the  *)
(* search window where it expects the time the window starts at.           *)
ReachesBanscore(a, score) ==
    LET depth == Extended("findtime", "findtime_extend", host[a].bancount)
    IN  Short(f2b_matches_score(Looked(a, score).matches, depth)) >= opt.banscore

(* Mutant: like f2b_jail_cmd_ip_xxx, asks for a save only for a new host. *)
PollLineSavesNew(a, score) ==
    /\ pc = "poll" /\ lines < MaxLines
    /\ lines' = lines + 1
    /\ known' = known \cup {a}
    /\ IF a \in banned \/ ~ReachesBanscore(a, score)
       THEN /\ host' = [host EXCEPT ![a] = IF a \in banned THEN Seen(a, score)
                                           ELSE Looked(a, score)]
            /\ UNCHANGED <<banned, need_save, fw>>
       ELSE /\ host' = [host EXCEPT ![a] = BanHost(Looked(a, score))]
            /\ banned' = banned \cup {a}
            /\ f2b_backend_ban(a)
            /\ need_save' = (need_save \/ (HasState /\ a \notin known))
    /\ UNCHANGED <<clock, opt, pc, now, todo, fileVars>>

(* One turn of the while loop: a line of the source that the filter maps to *)
(* host a.  Lines the filter drops change nothing.                          *)
PollLine(a, score) ==
    /\ pc = "poll" /\ lines < MaxLines
    /\ lines' = lines + 1
    /\ known' = known \cup {a}
    /\ \/ /\ a \in banned
          /\ host' = [host EXCEPT ![a] = Seen(a, score)]
          /\ UNCHANGED <<banned, need_save, fw>>
       \/ /\ a \notin banned /\ ~ReachesBanscore(a, score)
          /\ host' = [host EXCEPT ![a] = Looked(a, score)]
          /\ UNCHANGED <<banned, need_save, fw>>
       \/ /\ a \notin banned /\ ReachesBanscore(a, score)
          /\ host' = [host EXCEPT ![a] = BanHost(Looked(a, score))]
          /\ banned' = banned \cup {a}
          /\ f2b_backend_ban(a)
          /\ need_save' = (need_save \/ HasState)
    /\ UNCHANGED <<clock, opt, pc, now, todo, fileVars>>

(* Mutant: the sweep passes over banned hosts. *)
PollEndSkipsBanned ==
    /\ pc = "poll"
    /\ pc' = "sweep" /\ todo' = known \ banned
    /\ UNCHANGED <<clock, lines, opt, known, banned, host, need_save, now, fw, fileVars>>

(* The source has no more data. *)
PollEnd ==
    /\ pc = "poll"
    /\ pc' = "sweep" /\ todo' = known
    /\ UNCHANGED <<clock, lines, opt, known, banned, host, need_save, now, fw, fileVars>>

(* Mutant: released one second early. *)
IsReleasedEarly(a) == a \in banned /\ now >= host[a].release_at

IsReleased(a) == a \in banned /\ now > host[a].release_at

(* The host after the release check of the sweep. *)
Swept(a) == IF IsReleased(a) THEN UnbanHost(host[a]) ELSE host[a]

(* Mutant: a ban does not prolong the time a host is remembered. *)
IsExpiredSinceSeen(h) == now > opt.expiretime + h.lastseen

IsExpired(h) ==
    now > opt.expiretime + (IF h.lastseen >= h.release_at THEN h.lastseen ELSE h.release_at)

(* One turn of the for loop: release the host if its time is over, then     *)
(* forget it if it has been quiet for long enough.                          *)
Sweep(a) ==
    /\ pc = "sweep" /\ a \in todo
    /\ todo' = todo \ {a}
    /\ IF IsReleased(a) THEN f2b_backend_unban(a) ELSE UNCHANGED fw
    /\ banned' = IF IsReleased(a) \/ IsExpired(Swept(a)) THEN banned \ {a} ELSE banned
    /\ known' = IF IsExpired(Swept(a)) THEN known \ {a} ELSE known
    /\ host' = [host EXCEPT ![a] = IF IsExpired(Swept(a)) THEN f2b_ipaddr_create ELSE Swept(a)]
    /\ UNCHANGED <<clock, lines, opt, need_save, pc, now, fileVars>>

SweepEnd ==
    /\ pc = "sweep" /\ todo = {}
    /\ pc' = "save"
    /\ UNCHANGED <<clock, lines, opt, known, banned, host, need_save, now, todo, fw, fileVars>>

(* f2b_statefile_save: the banned hosts are written to a new file that is   *)
(* renamed over the old one; with an empty host list nothing is written.    *)
(* Opening or renaming can fail, and a short write goes unnoticed.          *)
f2b_statefile_save ==
    IF known = {} THEN UNCHANGED fileVars
    ELSE \/ /\ \E written \in {banned} \cup (IF CanFail THEN SUBSET banned ELSE {}) :
                 saved' = written
            /\ entry' = [a \in Addr |->
                           IF a \in saved'
                           THEN [banned_at  |-> host[a].banned_at,
                                 release_at |-> host[a].release_at]
                           ELSE NoEntry]
         \/ CanFail /\ UNCHANGED fileVars

(* The end of f2b_jail_process: need_save is reset whatever the outcome. *)
ProcessEnd ==
    /\ pc = "save"
    /\ IF HasState /\ need_save THEN f2b_statefile_save ELSE UNCHANGED fileVars
    /\ need_save' = FALSE
    /\ pc' = "idle" /\ now' = 0
    /\ UNCHANGED <<clock, lines, opt, known, banned, host, todo, fw>>

---------------------------------------------------------------------------
(* f2b_jail_cmd_ip_xxx with op > 0: a host that is not on the list is added *)
(* as if seen now and marks the file as out of date; one that is on the     *)
(* list keeps its lastseen and leaves need_save alone.                      *)
CmdBan(a) ==
    /\ pc = "idle" /\ "ban" \in Commands
    /\ host[a].bancount < MaxBans
    /\ LET h == IF a \in known THEN host[a]
                ELSE [f2b_ipaddr_create EXCEPT !.lastseen = clock]
       IN  host' = [host EXCEPT ![a] = BanHost(h)]
    /\ known' = known \cup {a} /\ banned' = banned \cup {a}
    /\ need_save' = (need_save \/ (HasState /\ a \notin known))
    /\ f2b_backend_ban(a)
    /\ UNCHANGED <<clock, lines, opt, pc, now, todo, fileVars>>

(* f2b_jail_cmd_ip_xxx with op < 0, refused for a host that is not on the   *)
(* list: the backend is asked whether or not the host is banned.            *)
CmdRelease(a) ==
    /\ pc = "idle" /\ "release" \in Commands
    /\ a \in known
    /\ host' = [host EXCEPT ![a] = UnbanHost(host[a])]
    /\ banned' = banned \ {a}
    /\ f2b_backend_unban(a)
    /\ UNCHANGED <<clock, lines, opt, known, need_save, pc, now, todo, fileVars>>

(* jail->banscore is a short int, so the value is cut before it is tested. *)
Stored(p, v) == IF p = "banscore" THEN Short(v) ELSE v

(* f2b_jail_cmd_set, f2b_jail_set_param: a period that is not positive, or a *)
(* banscore of zero, falls back to the built-in default.  The factors are    *)
(* given within the range of jail.h:35, which has no negative ones.          *)
f2b_jail_set_param(p, v) ==
    /\ pc = "idle" /\ p \in Settable
    /\ p \in Extend => v >= 0
    /\ opt' = [opt EXCEPT ![p] =
                 IF (p \in Period /\ v <= 0) \/ (p = "banscore" /\ Stored(p, v) = 0)
                 THEN Defaults[p] ELSE Stored(p, v)]
    /\ UNCHANGED <<clock, lines, known, banned, host, need_save, pc, now, todo, fw, fileVars>>

---------------------------------------------------------------------------
(* f2b_jail_stop: every banned host is released in the backend, one at a    *)
(* time; the state file is left as it is.                                   *)
StopBegin ==
    /\ pc = "idle"
    /\ pc' = "stop" /\ todo' = banned
    /\ UNCHANGED <<clock, lines, opt, known, banned, host, need_save, now, fw, fileVars>>

StopUnban(a) ==
    /\ pc = "stop" /\ a \in todo
    /\ todo' = todo \ {a}
    /\ host' = [host EXCEPT ![a] = UnbanHost(host[a])]
    /\ banned' = banned \ {a}
    /\ f2b_backend_unban(a)
    /\ UNCHANGED <<clock, lines, opt, known, need_save, pc, now, fileVars>>

(* The process or this jail is gone with everything kept in memory. *)
Forgotten ==
    /\ known' = {} /\ banned' = {} /\ host' = [a \in Addr |-> f2b_ipaddr_create]
    /\ need_save' = FALSE /\ pc' = "down" /\ now' = 0 /\ todo' = {}
    /\ UNCHANGED <<clock, lines, opt, fileVars>>

(* f2b_backend_stop: some backends drop their table (ipset destroy), some   *)
(* leave it; then everything is freed.                                      *)
StopEnd ==
    /\ pc = "stop" /\ todo = {}
    /\ fw' \in {fw, {}}
    /\ Forgotten

(* SIGKILL, power loss or a failed assertion. *)
Crash == CanCrash /\ pc # "down" /\ Forgotten /\ UNCHANGED fw

---------------------------------------------------------------------------
Process ==
    \/ ProcessBegin
    \/ \E a \in Addr, s \in Scores : PollLine(a, s)
    \/ PollEnd
    \/ \E a \in Addr : Sweep(a)
    \/ SweepEnd
    \/ ProcessEnd

Start == f2b_jail_start \/ (\E a \in Addr : RestoreBan(a)) \/ Started

Stop == StopBegin \/ (\E a \in Addr : StopUnban(a)) \/ StopEnd

Command ==
    \/ \E a \in Addr : CmdBan(a) \/ CmdRelease(a)
    \/ \E p \in Param, v \in Values : f2b_jail_set_param(p, v)

Next == Tick \/ Start \/ Process \/ Command \/ Stop \/ Crash

Spec == Init /\ [][Next]_vars

(* Time passes, a pass that has begun is finished, and the main loop keeps  *)
(* starting passes; the source is assumed to run dry in every pass.         *)
Fairness ==
    /\ WF_vars(Tick)
    /\ WF_vars(ProcessBegin) /\ WF_vars(PollEnd)
    /\ WF_vars(\E a \in Addr : Sweep(a)) /\ WF_vars(SweepEnd) /\ WF_vars(ProcessEnd)
    /\ WF_vars(Start)
    /\ WF_vars(\E a \in Addr : StopUnban(a)) /\ WF_vars(StopEnd)

FairSpec == Spec /\ Fairness

---------------------------------------------------------------------------
(* Safety. *)

(* With a backend that does what it is told, every host the jail holds for  *)
(* banned is blocked, whatever crashes came before: f2b_jail_start blocks   *)
(* the restored hosts before anything else happens.                         *)
FirewallCoversBans ==
    ~CanFail => /\ pc = "restore" => banned \ todo \subseteq fw
                /\ pc \notin {"down", "restore"} => banned \subseteq fw

(* With such a backend and no crash the firewall blocks the banned hosts    *)
(* and nobody else, through bans, re-bans, releases, the sweep that forgets *)
(* hosts, and the shutdown, which leaves nobody blocked.                    *)
FirewallExact ==
    ~CanFail /\ ~CanCrash => /\ pc = "down" => fw = {}
                             /\ pc = "restore" => fw = banned \ todo
                             /\ pc \notin {"down", "restore"} => fw = banned

Bantimes ==
    {Config.bantime} \cup IF "bantime" \in Settable
                          THEN {Defaults.bantime} \cup {v \in Values : v > 0} ELSE {}

(* A ban, in memory or in the state file, is at least as long as one of the *)
(* bantimes the jail was ever given; *_extend and restarts never shorten it.*)
BanTerm ==
    /\ \A a \in banned : \E b \in Bantimes : host[a].release_at >= host[a].banned_at + b
    /\ \A a \in saved : \E b \in Bantimes : entry[a].release_at >= entry[a].banned_at + b

(* A blocked host is let through only by the operator, by a shutdown, or    *)
(* when its release time has passed on the wall clock; a failing backend, a *)
(* crash and the sweep's old `now` change nothing about that.               *)
NoEarlyRelease ==
    [][\A a \in fw \ fw' : pc \in {"idle", "stop"} \/ clock > host[a].release_at]_vars

OnDisk(a) ==
    /\ a \in saved
    /\ entry[a] = [banned_at |-> host[a].banned_at, release_at |-> host[a].release_at]

(* Between two passes of f2b_jail_process every ban the jail made from log  *)
(* lines or restored is in the state file with its dates, so a crash there  *)
(* loses none of them.                                                      *)
BansOnDisk ==
    HasState /\ ~CanFail /\ "ban" \notin Commands /\ pc \in {"restore", "idle"}
        => \A a \in banned : OnDisk(a)

(* A started jail holds and blocks every host whose saved ban is not over,  *)
(* until the date in the file: restarts and crashes at any point neither    *)
(* lose nor shorten a saved ban.                                            *)
BansRestored ==
    HasState /\ ~CanFail /\ Commands = {} /\ pc = "idle"
        => \A a \in saved : clock < entry[a].release_at
               => a \in banned /\ a \in fw /\ host[a].release_at = entry[a].release_at

Depth(a) == Extended("findtime", "findtime_extend", host[a].bancount)

ScoreSince(a, start) == SumFunctionOnSet(host[a].matches, {t \in Time : t >= start})

(* What is remembered of a host over findtime and the grace period when a   *)
(* line of score s comes, that line included.                               *)
Collected(a, s) == ScoreSince(a, now - Depth(a) - Grace + 1) + s

(* A line bans its host only if the scores collected over findtime and the  *)
(* grace period reach banscore (jail.h:29: "minimum amount of score to ban  *)
(* host"), and it bans it whenever they do, but for two cases: a sum that   *)
(* does not fit in `short int score` (jail.c:302) may wrap below banscore,  *)
(* and a findtime longer than the clock is old, which jail.c:353 passes     *)
(* where matches.h:60 wants a time, leaves matches out.  jail.h:31 has      *)
(* findtime alone as the period: for the same reason the grace period of    *)
(* jail.c:351 counts, too.                                                  *)
BanDecision ==
    [][\A a \in Addr \ banned, s \in Scores :
          PollLine(a, s) =>
              /\ a \in banned' => Collected(a, s) >= opt.banscore
              /\ \/ Collected(a, s) < opt.banscore
                 \/ Collected(a, s) >= ShortHalf \/ Depth(a) > T0
                 \/ a \in banned']_vars

(* Liveness: a blocked host is not blocked for ever; once its release time  *)
(* lies within the modelled time some pass lifts the block.                 *)
BansEnd ==
    \A a \in Addr : a \in fw ~> (a \notin fw \/ host[a].release_at >= MaxTime)

===============================================================================

----------------------------- MODULE Lifecycle -----------------------------
(***************************************************************************)
(* The life of the jails of one daemon from jails_start to jails_stop:     *)
(* f2b_jail_init, f2b_jail_start and f2b_jail_stop (src/jail.c) with a     *)
(* source that owns sockets (Portknock) and a backend library they share   *)
(* (SharedBackend), loaded and unloaded by src/source.c and src/backend.c. *)
(*                                                                         *)
(* The daemon is one thread: it starts the jails of a configuration one by *)
(* one, processes them in turn, and stops them one by one, for a reload or *)
(* an exit.  It may crash between any two commands; its firewall tables    *)
(* and state files outlive it.                                             *)
(***************************************************************************)
EXTENDS Portknock, SharedBackend, FiniteSets, SequencesExt

CONSTANTS
    Jail,
    TableOf,        \* [Jail -> Table]
    PortsOf,        \* [Jail -> Seq(Port)]: the list of ports, last `listen` first
    MaxRounds       \* bound: reloads and starts of the daemon

ASSUME LifecycleAssumption ==
    /\ TableOf \in [Jail -> Table]
    /\ PortsOf \in [Jail -> Seq(Port)]
    /\ {"free", "leaked"} \cap Jail = {}
    /\ IsFiniteSet(Jail)
    /\ MaxRounds \in Nat /\ MaxFaults \in Nat /\ Backlog \in Nat

VARIABLES
    phase,      \* "boot" or, in a reload, "start"; "run", "stop", or "off"
    turn,       \* jails still to be started, processed or stopped
    pc,         \* how far the first of them has got
    jails,      \* the global list: the jail started last comes first
    loaded,     \* jails that hold a handle of the backend library
    held,       \* hosts with `banned` set
    file,       \* those in the state file
    left,       \* hosts f2b_jail_start or f2b_jail_stop has still to visit,
                \*   or that f2b_jail_process banned since the file was saved
    asked,      \* a reload or a shutdown is asked for
    rounds,
    miscounted, \* history: tables a start command failed for since the library was loaded
    orphans,    \* history: rules of each table that have lost their user
    lost,       \* history: ports of jails whose start commands failed in this process
    exposed,    \* history: <<table, host>> for bans that do not work
    stray       \* history: <<table, host>> for hosts blocked without a ban

control == <<phase, turn, pc, jails>>
bans == <<held, file, left>>
requests == <<asked, rounds>>
history == <<miscounted, orphans, lost, exposed, stray>>
vars == <<control, loaded, bans, firewall, backend, faults, source, requests, history>>

(* The jails a configuration file may list: any of them in any order. *)
Configs == SetToAllKPermutations(Jail)

cur == Head(turn)
Here == TableOf[cur]

Starting == {"boot", "start"}
At(ph, p) == phase \in ph /\ turn # <<>> /\ pc = p

(* Some jail on the table t holds a for banned. *)
Holds(who, t, a) == \E j \in Jail : TableOf[j] = t /\ a \in who[j]

Init ==
    /\ BackendInit /\ SourceInit
    /\ phase = "boot" /\ turn \in Configs /\ pc = "next" /\ jails = <<>> /\ loaded = {}
    /\ held = [j \in Jail |-> {}] /\ file = [j \in Jail |-> {}] /\ left = {}
    /\ asked = FALSE /\ rounds = 0
    /\ miscounted = {} /\ orphans = [t \in Table |-> 0] /\ lost = {}
    /\ exposed = {} /\ stray = {}

---------------------------------------------------------------------------
(* Modules. *)

(* f2b_backend_init: dlopen; a module that lacks a function, is of the      *)
(* wrong type or not ready after its configuration is closed again.         *)
f2b_backend_init(ready) == loaded' = IF ready THEN loaded \cup {cur} ELSE loaded

(* f2b_backend_destroy: dlclose; the last one unloads the library and its   *)
(* usage list.                                                              *)
f2b_backend_destroy ==
    /\ loaded' = loaded \ {cur}
    /\ usage' = IF loaded' = {} THEN [t \in Table |-> 0] ELSE usage
    /\ UNCHANGED <<todo, ok>>

(* The rules of S have lost their user; so have, when the library goes, all *)
(* rules whose usage was not counted right.                                 *)
Orphaned(S, mis) ==
    /\ miscounted' = IF loaded' = {} THEN {} ELSE mis
    /\ orphans' = [t \in Table |-> IF t \in S \cup (mis \ miscounted') THEN rules[t]
                                   ELSE orphans[t]]

(* f2b_backend_check and f2b_backend_ban. *)
Ban(a) ==
    /\ ban(Here, a)
    /\ exposed' = IF a \in members'[Here] THEN exposed \ {<<Here, a>>}
                  ELSE exposed \cup {<<Here, a>>}
    /\ stray' = stray \ {<<Here, a>>}

f2b_jail_unban(a) ==
    /\ unban(Here, a)
    /\ held' = [held EXCEPT ![cur] = @ \ {a}]
    /\ stray' = IF a \in members'[Here] /\ ~Holds(held', Here, a)
                THEN stray \cup {<<Here, a>>} ELSE stray \ {<<Here, a>>}
    /\ exposed' = IF a \notin members'[Here] /\ Holds(held', Here, a)
                  THEN exposed \cup {<<Here, a>>} ELSE exposed \ {<<Here, a>>}

---------------------------------------------------------------------------
(* jails_start *)

(* f2b_jail_init fails before anything is started: the modules loaded so    *)
(* far are unloaded again.                                                  *)
InitFails ==
    /\ At(Starting, "next")
    /\ turn' = Tail(turn)
    /\ f2b_backend_init(FALSE)
    /\ UNCHANGED <<phase, pc, jails, bans, firewall, backend, faults, source, requests,
                   history>>

(* f2b_jail_init loads the modules and starts the source and the backend;   *)
(* ports that nobody has and that cannot be opened count as one failure.    *)
f2b_jail_init ==
    /\ At(Starting, "next")
    /\ pc' = "start"
    /\ f2b_backend_init(TRUE)
    /\ SourceStart(cur, ToSet(PortsOf[cur]))
    /\ start(Here)
    /\ IF refused' = refused THEN UNCHANGED faults ELSE Fault
    /\ UNCHANGED <<phase, turn, jails, bans, firewall, requests, history>>

(* The commands of start() and stop(). *)
Exec ==
    /\ At(Starting, "start") \/ At({"stop"}, "stop")
    /\ cmd_list_exec(Here)
    /\ UNCHANGED <<control, loaded, bans, source, requests, history>>

(* The start commands fail. cleanup3 destroys backend and source without    *)
(* calling stop() of either: the usage start() has counted stays, and so do *)
(* the sockets.                                                             *)
StartFails ==
    /\ At(Starting, "start") /\ todo = <<>> /\ ~ok
    /\ turn' = Tail(turn) /\ pc' = "next"
    /\ SourceDestroy(cur)
    /\ lost' = lost \cup {p \in Port : listener[p] = cur}
    /\ f2b_backend_destroy
    /\ Orphaned({Here}, miscounted \cup {Here})
    /\ UNCHANGED <<phase, jails, bans, firewall, faults, requests, exposed, stray>>

(* Mutant: it asks for the bans that are over, too. *)
StartUnchecked ==
    /\ At(Starting, "start") /\ todo = <<>> /\ ok
    /\ pc' = "restore"
    /\ \E over \in SUBSET file[cur] : held' = [held EXCEPT ![cur] = file[cur] \ over]
    /\ left' = file[cur]
    /\ UNCHANGED <<phase, turn, jails, loaded, file, firewall, backend, faults, source, requests,
                   history>>

(* f2b_jail_start loads the state file and drops the bans that are over. *)
f2b_jail_start ==
    /\ At(Starting, "start") /\ todo = <<>> /\ ok
    /\ pc' = "restore"
    /\ \E over \in SUBSET file[cur] :
          /\ held' = [held EXCEPT ![cur] = file[cur] \ over]
          /\ left' = file[cur] \ over
    /\ UNCHANGED <<phase, turn, jails, loaded, file, firewall, backend, faults, source, requests,
                   history>>

(* It asks the backend to block the others, unless check() finds them.      *)
Restore(a) ==
    /\ At(Starting, "restore") /\ a \in left
    /\ left' = left \ {a}
    /\ Ban(a)
    /\ UNCHANGED <<control, loaded, held, file, backend, source, requests, miscounted, orphans,
                   lost>>

Started ==
    /\ At(Starting, "restore") /\ left = {}
    /\ jails' = <<cur>> \o jails
    /\ turn' = Tail(turn) /\ pc' = "next"
    /\ UNCHANGED <<phase, loaded, bans, firewall, backend, faults, source, requests, history>>

AllStarted ==
    /\ phase \in Starting /\ turn = <<>>
    /\ phase = "boot" => jails # <<>>
    /\ phase' = "run"
    /\ UNCHANGED <<turn, pc, jails, loaded, bans, firewall, backend, faults, source, requests,
                   history>>

---------------------------------------------------------------------------
(* The main loop. *)

(* A new turn; or, between two turns, what was asked for. *)
Cycle ==
    /\ phase = "run" /\ turn = <<>>
    /\ phase' = IF asked THEN "stop" ELSE "run"
    /\ turn' = jails
    /\ UNCHANGED <<pc, jails, loaded, bans, firewall, backend, faults, source, requests, history>>

(* f2b_jail_process, as long as next() finds a connection: the host may     *)
(* have enough matches to be banned.                                        *)
NextLine ==
    /\ At({"run"}, "next")
    /\ Accept(cur, PortsOf[cur])
    /\ \/ UNCHANGED <<bans, firewall, faults, exposed, stray>>
       \/ \E a \in Addr \ held[cur] :
             /\ held' = [held EXCEPT ![cur] = @ \cup {a}]
             /\ left' = left \cup {a} /\ UNCHANGED file
             /\ Ban(a)
    /\ UNCHANGED <<control, loaded, backend, requests, miscounted, orphans, lost>>

(* There is none: the sweep begins. *)
PollEnd ==
    /\ At({"run"}, "next") /\ Pending(cur, PortsOf[cur]) = {}
    /\ pc' = "sweep"
    /\ UNCHANGED <<phase, turn, jails, loaded, bans, firewall, backend, faults, source, requests,
                   history>>

(* It releases the hosts whose time has come, in any order; *)
Release(a) ==
    /\ At({"run"}, "sweep") /\ a \in held[cur]
    /\ f2b_jail_unban(a)
    /\ UNCHANGED <<control, loaded, file, left, backend, source, requests, miscounted, orphans,
                   lost>>

(* then the state file is saved if the pass has banned any.                 *)
Save ==
    /\ At({"run"}, "sweep")
    /\ turn' = Tail(turn) /\ pc' = "next"
    /\ file' = IF left = {} THEN file ELSE [file EXCEPT ![cur] = held[cur]]
    /\ left' = {}
    /\ UNCHANGED <<phase, jails, loaded, held, firewall, backend, faults, source, requests,
                   history>>

---------------------------------------------------------------------------
(* jails_stop *)

(* f2b_jail_stop: the source first. *)
f2b_jail_stop ==
    /\ At({"stop"}, "next")
    /\ SourceStop(cur)
    /\ jails' = Tail(jails)
    /\ left' = held[cur] /\ pc' = "unban"
    /\ UNCHANGED <<phase, turn, loaded, held, file, firewall, backend, faults, requests, history>>

(* Then the bans; the state file keeps them. *)
Unblock(a) ==
    /\ At({"stop"}, "unban") /\ a \in left
    /\ left' = left \ {a}
    /\ f2b_jail_unban(a)
    /\ UNCHANGED <<control, loaded, file, backend, source, requests, miscounted, orphans, lost>>

StopBackend ==
    /\ At({"stop"}, "unban") /\ left = {}
    /\ stop(Here) /\ pc' = "stop"
    /\ UNCHANGED <<phase, turn, jails, loaded, bans, firewall, faults, source, requests, history>>

(* The backend is unloaded, whether its stop commands did their work or not.*)
Stopped ==
    /\ At({"stop"}, "stop") /\ todo = <<>>
    /\ turn' = Tail(turn) /\ pc' = "next"
    /\ f2b_backend_destroy
    /\ Orphaned(IF ok THEN {} ELSE {Here}, miscounted)
    /\ UNCHANGED <<phase, jails, bans, firewall, faults, source, requests, lost, exposed, stray>>

(* A new configuration is started, *)
Reload ==
    /\ phase = "stop" /\ turn = <<>> /\ rounds < MaxRounds
    /\ phase' = "start" /\ turn' \in Configs
    /\ asked' = FALSE /\ rounds' = rounds + 1
    /\ UNCHANGED <<pc, jails, loaded, bans, firewall, backend, faults, source, history>>

(* or the process ends, as it does when no jail could be started at its     *)
(* boot, which closes all sockets;                                          *)
Exit ==
    /\ turn = <<>>
    /\ \/ phase = "stop"
       \/ phase = "boot" /\ jails = <<>>
    /\ phase' = "off" /\ asked' = FALSE
    /\ Closed(Jail \cup {"leaked"}) /\ lost' = {}
    /\ UNCHANGED <<turn, pc, jails, loaded, bans, firewall, backend, faults, rounds, miscounted,
                   orphans, exposed, stray>>

(* so does a crash, at any moment, which leaves the firewall as it is.      *)
Crash ==
    /\ phase # "off" /\ Fault
    /\ phase' = "off" /\ turn' = <<>> /\ pc' = "next" /\ jails' = <<>>
    /\ asked' = FALSE
    /\ loaded' = {} /\ usage' = [t \in Table |-> 0] /\ todo' = <<>> /\ ok' = TRUE
    /\ held' = [j \in Jail |-> {}] /\ left' = {}
    /\ Closed(Jail \cup {"leaked"}) /\ lost' = {}
    /\ miscounted' = {} /\ orphans' = rules
    /\ exposed' = {} /\ stray' = {e \in Table \X Addr : e[2] \in members[e[1]]}
    /\ UNCHANGED <<file, firewall, rounds>>

Boot ==
    /\ phase = "off" /\ rounds < MaxRounds
    /\ phase' = "boot" /\ turn' \in Configs
    /\ rounds' = rounds + 1
    /\ UNCHANGED <<pc, jails, loaded, bans, firewall, backend, faults, source, asked, history>>

---------------------------------------------------------------------------
(* A signal or a command asks for a reload or a shutdown. *)
Ask ==
    /\ phase = "run" /\ ~asked
    /\ asked' = TRUE
    /\ UNCHANGED <<control, loaded, bans, firewall, backend, faults, source, rounds, history>>

SomebodyKnocks(p) ==
    /\ Knock(p)
    /\ UNCHANGED <<control, loaded, bans, firewall, backend, faults, requests, history>>

Main ==
    \/ InitFails \/ f2b_jail_init \/ Exec \/ StartFails \/ f2b_jail_start
    \/ (\E a \in Addr : Restore(a)) \/ Started \/ AllStarted
    \/ Cycle \/ NextLine \/ PollEnd \/ (\E a \in Addr : Release(a)) \/ Save
    \/ f2b_jail_stop \/ (\E a \in Addr : Unblock(a)) \/ StopBackend \/ Stopped
    \/ Reload \/ Exit

Next == Main \/ Crash \/ Boot \/ Ask \/ \E p \in Port : SomebodyKnocks(p)

Spec == Init /\ [][Next]_vars

(* The daemon keeps working; nobody has to knock, to ask or to boot it. *)
FairSpec == Spec /\ WF_vars(Main)

---------------------------------------------------------------------------
TypeOK ==
    /\ phase \in {"boot", "start", "run", "stop", "off"}
    /\ pc \in {"next", "start", "restore", "sweep", "unban", "stop"}
    /\ turn \in Seq(Jail) /\ jails \in Seq(Jail) /\ loaded \subseteq Jail
    /\ held \in [Jail -> SUBSET Addr] /\ file \in [Jail -> SUBSET Addr] /\ left \subseteq Addr
    /\ usage \in [Table -> Nat] /\ exists \subseteq Table
    /\ members \in [Table -> SUBSET Addr] /\ rules \in [Table -> Nat]
    /\ todo \in Seq({"create", "insert", "delete", "destroy"}) /\ ok \in BOOLEAN
    /\ faults \in 0 .. MaxFaults /\ asked \in BOOLEAN /\ rounds \in 0 .. MaxRounds
    /\ listener \in [Port -> Jail \cup {"free", "leaked"}] /\ queue \in [Port -> 0 .. Backlog]
    /\ refused \subseteq Jail \X Port
    /\ miscounted \subseteq Table /\ orphans \in [Table -> Nat] /\ lost \subseteq Port
    /\ exposed \subseteq Table \X Addr /\ stray \subseteq Table \X Addr

Running == ToSet(jails)

(* The jail at work, from the start to the stop of its backend. *)
Busy == IF pc \in {"start", "restore", "unban"} THEN {cur} ELSE {}

Users(t) == {j \in Running \cup Busy : TableOf[j] = t}

(* The usage list counts the jails that use each table, through failed      *)
(* starts, failed stop commands, partial shutdowns and reloads. A failed    *)
(* start command upsets the count of its own table only, and only until the *)
(* library is unloaded.                                                     *)
UsageCountsUsers == \A t \in Table \ miscounted : usage[t] = Cardinality(Users(t))

(* A table that is in use has its set, and one rule more than its crashes   *)
(* and failed commands have left behind; one that is not has no more rules  *)
(* than these: start and stop commands come in pairs, and a jail that runs  *)
(* has its rule, even if another jail put it there and has gone since.      *)
RulesPaired ==
    \A t \in Table \ miscounted :
        \/ pc \in {"start", "stop"} /\ t = Here /\ (todo # <<>> \/ ~ok)
        \/ /\ rules[t] = orphans[t] + (IF Users(t) = {} THEN 0 ELSE 1)
           /\ Users(t) # {} => t \in exists

(* Firewall and jails agree. A host a jail holds for banned is blocked,     *)
(* unless the backend failed, or another jail on the same table released    *)
(* the host or was stopped: it is one entry for all of them. And a host is  *)
(* blocked only if some jail on the table holds it for banned, unless a     *)
(* crash or a failed unban has left it there.                               *)
FirewallAgrees ==
    /\ \A j \in Jail : \A a \in held[j] :
          \/ a \in members[TableOf[j]] \/ <<TableOf[j], a>> \in exposed
          \/ pc = "restore" /\ j = cur /\ a \in left
    /\ \A t \in Table : \A a \in members[t] : Holds(held, t, a) \/ <<t, a>> \in stray

(* A port of a jail that runs is open, for it or another jail that lists it *)
(* or for nobody after a failed start, unless it could not be opened when   *)
(* the jail was started; once open it stays so through the starts and stops *)
(* of other jails on the same port. No port stays with a jail that stopped. *)
PortsHeard ==
    \A p \in Port :
        /\ \A j \in Running : p \in ToSet(PortsOf[j]) => listener[p] # "free" \/ <<j, p>> \in refused
        /\ listener[p] = "leaked" => p \in lost
        /\ listener[p] \in Jail => listener[p] \in Running \cup Busy

(* When nobody knocks any more, every connection to a jail that runs is     *)
(* accepted, and a reload or a shutdown that is asked for takes place. Only *)
(* an endless stream of knocks keeps f2b_jail_process, which has no limit,  *)
(* and with it the daemon.                                                  *)
NothingWaits ==
    \/ []<><<\E p \in Port : queue'[p] > queue[p]>>_queue
    \/ /\ asked ~> ~asked
       /\ \A p \in Port :
             (queue[p] > 0 /\ listener[p] \in Running) ~> (queue[p] = 0 \/ listener[p] = "free")
=============================================================================

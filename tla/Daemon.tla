------------------------------- MODULE Daemon -------------------------------
(***************************************************************************)
(* The main program (src/daemon.c): start, the main loop, signals, control *)
(* socket commands that change the state of the daemon, reload, shutdown.  *)
(* Jails are started and stopped as wholes here; Jail models what one does *)
(* in between.                                                             *)
(*                                                                         *)
(* Signals are delivered between any two steps of the main program; the    *)
(* handler does no more than overwrite the global variable `state`.        *)
(***************************************************************************)
EXTENDS Naturals, FiniteSets

CONSTANTS
    Jail,           \* names of jail sections
    Contents,       \* what the configuration file may contain over time:
                    \*   whether it is readable, its jail sections, what
                    \*   [defaults] and each of these sections set
    FirstContent,   \* its content when the daemon is started
    Builtin,        \* DEFAULT_BANTIME
    Signals,        \* subset of {"TERM", "HUP", "USR1"} that may arrive
    Commands,       \* subset of {"shutdown", "reload", "rotate"}
    LogToFile,      \* appconfig.logdest is "file"
    InitFails,      \* f2b_jail_init may fail
    MaxRequests,    \* bound: signals and commands
    MaxEdits        \* bound: changes of the configuration file

(* What a section says of two parameters, if anything (0: no bantime). *)
Setting == [enabled : {"yes", "no", "unset"}, bantime : Nat]

ASSUME DaemonAssumption ==
    /\ Contents \subseteq [readable : BOOLEAN, jails : SUBSET Jail, defaults : Setting,
                           own : [Jail -> Setting]]
    /\ FirstContent \in Contents
    /\ Builtin \in Nat \ {0}
    /\ Signals \subseteq {"TERM", "HUP", "USR1"}
    /\ Commands \subseteq {"shutdown", "reload", "rotate"}
    /\ {LogToFile, InitFails} \subseteq BOOLEAN
    /\ MaxRequests \in Nat /\ MaxEdits \in Nat

VARIABLES
    state,      \* the global: "stop", "run", "reconfig" or "logrotate"
    pc,
    file,       \* external: content and version of the configuration file
    config,     \* the last content that could be loaded, and its version
    defaults,   \* the static jail template: a setting with nothing unset
    todo,       \* jail sections jails_start has still to visit
    failed,     \* history: those of them that could not be started
    jails,      \* the global list: running jails, their version and bantime
    requests,   \* number of requests so far
    asked,      \* history: the values requests gave to `state`
    reloadAsked,\* history: version of the file at the last reload request
    tried       \* history: version of the file at the last load

request == <<requests, asked, reloadAsked>>
vars == <<state, pc, file, config, defaults, todo, failed, jails, request, tried>>

(* f2b_jail_apply_config: what the section does not set stays as it is. *)
f2b_jail_apply_config(jail, section) ==
    [enabled |-> IF section.enabled = "unset" THEN jail.enabled ELSE section.enabled,
     bantime |-> IF section.bantime = 0 THEN jail.bantime ELSE section.bantime]

(* f2b_jail_set_defaults: [defaults] is applied to the template, which is   *)
(* static and keeps what former configurations have set.                    *)
f2b_jail_set_defaults(content) == defaults' = f2b_jail_apply_config(defaults, content.defaults)

(* f2b_jail_create copies the template and applies the section to the copy. *)
f2b_jail_create(j) == f2b_jail_apply_config(defaults, config.content.own[j])

Off == [version |-> 0, bantime |-> 0]
Running == {j \in Jail : jails[j] # Off}

Init ==
    /\ state = "run" /\ pc = "boot"
    /\ file = [version |-> 1, content |-> FirstContent]
    /\ config = [version |-> 0, content |-> FirstContent]
    /\ defaults = [enabled |-> "no", bantime |-> Builtin]
    /\ todo = {} /\ failed = {} /\ jails = [j \in Jail |-> Off]
    /\ requests = 0 /\ asked = {} /\ reloadAsked = 0 /\ tried = 0

---------------------------------------------------------------------------
(* The environment. *)

(* The administrator rewrites the configuration file. *)
Edit ==
    /\ file.version <= MaxEdits
    /\ \E c \in Contents : file' = [version |-> file.version + 1, content |-> c]
    /\ UNCHANGED <<state, pc, config, defaults, todo, failed, jails, request, tried>>

Asked(s) ==
    /\ requests < MaxRequests /\ requests' = requests + 1
    /\ state' = s
    /\ asked' = asked \cup {s}
    /\ reloadAsked' = IF s = "reconfig" THEN file.version ELSE reloadAsked

(* signal_handler *)
signal_handler(sig) ==
    /\ pc # "exited" /\ sig \in Signals
    /\ CASE sig = "TERM" -> Asked("stop")
         [] sig = "HUP"  -> Asked("reconfig")
         [] sig = "USR1" -> Asked("logrotate")
    /\ UNCHANGED <<pc, file, config, defaults, todo, failed, jails, tried>>

---------------------------------------------------------------------------
(* Start and reload. *)

(* f2b_config_load for the first time; without a file the daemon exits. *)
Boot ==
    /\ pc = "boot"
    /\ tried' = file.version
    /\ IF file.content.readable
       THEN /\ config' = file
            /\ f2b_jail_set_defaults(file.content)
            /\ todo' = file.content.jails /\ pc' = "starting"
       ELSE pc' = "exited" /\ UNCHANGED <<config, defaults, todo>>
    /\ UNCHANGED <<state, file, failed, jails, request>>

(* One turn of the loop of jails_start: f2b_jail_create; a jail that is not  *)
(* enabled is passed over; f2b_jail_init, which may fail; f2b_jail_start.    *)
jails_start(j) ==
    /\ pc \in {"starting", "restarting"} /\ j \in todo
    /\ todo' = todo \ {j}
    /\ LET jail == f2b_jail_create(j)
       IN  \/ jail.enabled = "no" /\ UNCHANGED <<jails, failed>>
           \/ /\ jail.enabled = "yes"
              /\ jails' = [jails EXCEPT ![j] = [version |-> config.version,
                                               bantime |-> jail.bantime]]
              /\ UNCHANGED failed
           \/ /\ jail.enabled = "yes" /\ InitFails
              /\ failed' = failed \cup {j} /\ UNCHANGED jails
    /\ UNCHANGED <<state, pc, file, config, defaults, request, tried>>

(* At start-up the daemon gives up when no jail runs; after a reload it     *)
(* goes on.                                                                 *)
JailsStarted ==
    /\ pc \in {"starting", "restarting"} /\ todo = {}
    /\ pc' = IF pc = "starting" /\ Running = {} THEN "exited" ELSE "check"
    /\ UNCHANGED <<state, file, config, defaults, todo, failed, jails, request, tried>>

---------------------------------------------------------------------------
(* The main loop. *)

(* while (state) *)
Check ==
    /\ pc = "check"
    /\ pc' = IF state = "stop" THEN "final" ELSE "process"
    /\ UNCHANGED <<state, file, config, defaults, todo, failed, jails, request, tried>>

(* f2b_jail_process for every jail. *)
ProcessJails ==
    /\ pc = "process"
    /\ pc' = "poll"
    /\ UNCHANGED <<state, file, config, defaults, todo, failed, jails, request, tried>>

(* f2b_csocket_poll runs f2b_csocket_cmd_process on each request that is in. *)
f2b_csocket_cmd_process ==
    /\ pc = "poll"
    /\ \/ "shutdown" \in Commands /\ Asked("stop")
       \/ "reload" \in Commands /\ Asked("reconfig")
       \/ "rotate" \in Commands /\ Asked("logrotate")
    /\ UNCHANGED <<pc, file, config, defaults, todo, failed, jails, tried>>

(* The socket was polled; sleep(1). *)
Sleep ==
    /\ pc = "poll"
    /\ pc' = "rotate?"
    /\ UNCHANGED <<state, file, config, defaults, todo, failed, jails, request, tried>>

(* Mutant: any request is taken for a rotation. *)
RotateTestCareless ==
    /\ pc = "rotate?"
    /\ pc' = IF state # "run" THEN "rotate" ELSE "reconfig?"
    /\ UNCHANGED <<state, file, config, defaults, todo, failed, jails, request, tried>>

(* daemon.c:379: the request is served only when the log is a file. *)
RotateTest ==
    /\ pc = "rotate?"
    /\ pc' = IF state = "logrotate" /\ LogToFile THEN "rotate" ELSE "reconfig?"
    /\ UNCHANGED <<state, file, config, defaults, todo, failed, jails, request, tried>>

Rotate ==
    /\ pc = "rotate"
    /\ state' = "run" /\ pc' = "reconfig?"
    /\ UNCHANGED <<file, config, defaults, todo, failed, jails, request, tried>>

ReconfigTest ==
    /\ pc = "reconfig?"
    /\ pc' = IF state = "reconfig" THEN "reconfig" ELSE "check"
    /\ UNCHANGED <<state, file, config, defaults, todo, failed, jails, request, tried>>

Reconfig ==
    /\ pc = "reconfig"
    /\ state' = "run" /\ pc' = "load"
    /\ UNCHANGED <<file, config, defaults, todo, failed, jails, request, tried>>

(* Mutant: jails are stopped before the file is known to be readable. *)
ReloadEager ==
    /\ pc = "load"
    /\ tried' = file.version
    /\ jails' = [j \in Jail |-> Off]
    /\ IF file.content.readable
       THEN config' = file /\ pc' = "stopping"
       ELSE config' = config /\ pc' = "check"
    /\ UNCHANGED <<state, file, defaults, todo, failed, request>>

(* f2b_config_load; a file that cannot be read leaves everything as it is. *)
Reload ==
    /\ pc = "load"
    /\ tried' = file.version
    /\ IF file.content.readable
       THEN config' = file /\ pc' = "stopping"
       ELSE config' = config /\ pc' = "check"
    /\ UNCHANGED <<state, file, defaults, todo, failed, jails, request>>

(* One turn of the loop of jails_stop. *)
jails_stop(j) ==
    /\ pc \in {"stopping", "final"} /\ j \in Running
    /\ jails' = [jails EXCEPT ![j] = Off]
    /\ UNCHANGED <<state, pc, file, config, defaults, todo, failed, request, tried>>

(* Mutant: the request is taken as served once its reload is done. *)
JailsStoppedResets ==
    /\ pc \in {"stopping", "final"} /\ Running = {}
    /\ failed' = {}
    /\ IF pc = "final"
       THEN pc' = "exited" /\ UNCHANGED <<defaults, todo>>
       ELSE /\ f2b_jail_set_defaults(config.content)
            /\ todo' = config.content.jails /\ pc' = "restarting"
    /\ state' = IF pc = "final" THEN state ELSE "run"
    /\ UNCHANGED <<file, config, jails, request, tried>>

(* All are stopped: the main program ends, or starts the new ones. *)
JailsStopped ==
    /\ pc \in {"stopping", "final"} /\ Running = {}
    /\ failed' = {}
    /\ IF pc = "final"
       THEN pc' = "exited" /\ UNCHANGED <<defaults, todo>>
       ELSE /\ f2b_jail_set_defaults(config.content)
            /\ todo' = config.content.jails /\ pc' = "restarting"
    /\ UNCHANGED <<state, file, config, jails, request, tried>>

Exited == pc = "exited" /\ UNCHANGED vars

Main ==
    \/ Boot \/ (\E j \in Jail : jails_start(j)) \/ JailsStarted
    \/ Check \/ ProcessJails \/ f2b_csocket_cmd_process \/ Sleep \/ RotateTest \/ Rotate
    \/ ReconfigTest \/ Reconfig \/ Reload
    \/ (\E j \in Jail : jails_stop(j)) \/ JailsStopped

Next == Main \/ (\E sig \in Signals : signal_handler(sig)) \/ Edit \/ Exited

Spec == Init /\ [][Next]_vars

(* The main program keeps running; nobody has to send requests. *)
FairSpec == Spec /\ WF_vars(Main)

---------------------------------------------------------------------------
TypeOK ==
    /\ state \in {"stop", "run", "reconfig", "logrotate"}
    /\ pc \in {"boot", "starting", "check", "process", "poll", "rotate?", "rotate", "reconfig?",
               "reconfig", "load", "stopping", "restarting", "final", "exited"}
    /\ file \in [version : 1 .. MaxEdits + 1, content : Contents]
    /\ config \in [version : 0 .. MaxEdits + 1, content : Contents]
    /\ defaults \in [enabled : {"yes", "no"}, bantime : Nat \ {0}]
    /\ todo \subseteq Jail /\ failed \subseteq Jail
    /\ jails \in [Jail -> [version : 0 .. MaxEdits + 1, bantime : Nat]]
    /\ requests \in 0 .. MaxRequests /\ asked \subseteq {"stop", "reconfig", "logrotate"}
    /\ reloadAsked \in 0 .. MaxEdits + 1 /\ tried \in 0 .. MaxEdits + 1

(* What a configuration says of the jail j, in its section or [defaults]. *)
Said(content, j) == f2b_jail_apply_config(content.defaults, content.own[j])

(* While the loop works, the jails are those the last configuration that    *)
(* could be read says are enabled, but for those that failed to start, and  *)
(* each was started from it, with its bantime if it gives one, whatever     *)
(* requests arrived while it was applied and whatever was configured        *)
(* before: a reload that fails takes no jail away, and no jail of an older  *)
(* configuration survives one that succeeds. Where it says nothing of       *)
(* `enabled` or bantime, a former [defaults] may still decide.              *)
JailsOfConfig ==
    pc \in {"check", "process", "poll"} =>
        /\ Running \cup failed \subseteq config.content.jails /\ Running \cap failed = {}
        /\ \A j \in config.content.jails :
              LET said == Said(config.content, j)
              IN  /\ said.enabled = "yes" => j \in Running \cup failed
                  /\ said.enabled = "no" => j \notin Running \cup failed
                  /\ j \in Running => /\ jails[j].version = config.version
                                      /\ said.bantime \in {0, jails[j].bantime}

(* A reload request is served with a configuration at least as recent as    *)
(* the request, wherever in the loop it arrives, because the code resets    *)
(* `state` before it reads the file. Requests of another kind may overwrite *)
(* it, and a start that finds no jail ends first.                           *)
ReloadServed ==
    \A v \in 1 .. MaxEdits + 1 :
        (reloadAsked = v) ~> (tried >= v \/ pc = "exited" \/ asked # {"reconfig"})

(* Once asked to, the daemon terminates, unless it was also asked for       *)
(* something else: nothing but a request is put over the one to stop.       *)
ShutdownServed == ("stop" \in asked) ~> (pc = "exited" \/ asked # {"stop"})

============================================================================

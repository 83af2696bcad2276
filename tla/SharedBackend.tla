--------------------------- MODULE SharedBackend ---------------------------
(***************************************************************************)
(* Backends that work on tables of the firewall: exec (src/backends/exec.c *)
(* with the commands of configs/conf-available/10-backend-exec-ipset.conf) *)
(* and the usage list of `shared = yes` (src/backends/backend.c).  A table *)
(* is an ipset and the iptables rules that match against it.               *)
(*                                                                         *)
(* A call that runs several commands takes a step for each.  Any command   *)
(* may fail, and one that is killed by its timeout may or may not have     *)
(* done its work.  The lists of start and stop are run by cmd_list_exec;   *)
(* those of ban, unban and check have one command.                         *)
(***************************************************************************)
EXTENDS Naturals, Sequences

CONSTANTS
    Table,          \* names of tables: in `backend = name:id` what follows the colon
    Addr,
    MaxFaults       \* bound: commands that fail, ports refused, crashes

VARIABLES
    usage,      \* ids_usage, a static variable of the library: [Table -> Nat]
    exists,     \* external: the ipsets there are
    members,    \* external: the hosts in each of them
    rules,      \* external: number of rules for each of them
    todo,       \* commands cmd_list_exec has still to run
    ok,         \* whether those before succeeded
    faults      \* number of failures

firewall == <<exists, members, rules>>
backend == <<usage, todo, ok>>

BackendInit ==
    /\ usage = [t \in Table |-> 0]
    /\ exists = {} /\ members = [t \in Table |-> {}] /\ rules = [t \in Table |-> 0]
    /\ todo = <<>> /\ ok = TRUE /\ faults = 0

Fault == faults < MaxFaults /\ faults' = faults + 1

---------------------------------------------------------------------------
(* External: `ipset -! create`, `iptables -I`, `iptables -D`, `ipset -!     *)
(* destroy`. A rule needs its set, and a set that a rule uses stays.        *)
Works(c, t) ==
    \/ c = "create"
    \/ c = "insert" /\ t \in exists
    \/ c = "delete" /\ rules[t] > 0
    \/ c = "destroy" /\ t \in exists /\ rules[t] = 0

Effect(c, t) ==
    /\ exists' = (IF c = "create" THEN exists \cup {t}
                  ELSE IF c = "destroy" THEN exists \ {t} ELSE exists)
    /\ members' = IF c = "destroy" THEN [members EXCEPT ![t] = {}] ELSE members
    /\ rules' = [rules EXCEPT ![t] = IF c = "insert" THEN @ + 1
                                     ELSE IF c = "delete" THEN @ - 1 ELSE @]

(* One turn of the loop of cmd_list_exec, which ends with the first command *)
(* that fails.                                                              *)
cmd_list_exec(t) ==
    /\ todo # <<>>
    /\ LET c == Head(todo)
       IN  \/ /\ Works(c, t) /\ Effect(c, t)
              /\ todo' = Tail(todo) /\ UNCHANGED <<ok, faults>>
           \/ /\ todo' = <<>> /\ ok' = FALSE
              /\ \/ ~Works(c, t) /\ UNCHANGED <<firewall, faults>>
                 \/ Works(c, t) /\ Fault /\ (Effect(c, t) \/ UNCHANGED firewall)
    /\ UNCHANGED usage

---------------------------------------------------------------------------
Inc(t) == [usage EXCEPT ![t] = @ + 1]

(* Mutant: a usage too many is dropped. *)
DecTwice(t) == [usage EXCEPT ![t] = IF @ > 1 THEN @ - 2 ELSE 0]

(* usage_dec never goes below zero. *)
Dec(t) == [usage EXCEPT ![t] = IF @ > 0 THEN @ - 1 ELSE 0]

(* Mutant: an off-by-one in start(). *)
IsFirstOrSecond(t) == Inc(t)[t] <= 2

(* Only the first user of a table runs the start commands, and only the     *)
(* last one the stop commands.                                              *)
IsFirst(t) == Inc(t)[t] <= 1

start(t) ==
    /\ usage' = Inc(t)
    /\ todo' = IF IsFirst(t) THEN <<"create", "insert">> ELSE <<>>
    /\ ok' = TRUE

stop(t) ==
    /\ usage' = Dec(t)
    /\ todo' = IF Dec(t)[t] > 0 THEN <<>> ELSE <<"delete", "destroy">>
    /\ ok' = TRUE

(* ban() after check(): `ipset -! test`, and if the host is not there       *)
(* `ipset -! add`. What the callers do with the result is log it.           *)
ban(t, a) ==
    \/ /\ t \in exists
       /\ members' = [members EXCEPT ![t] = @ \cup {a}]
       /\ UNCHANGED <<exists, rules, faults>>
    \/ t \notin exists /\ UNCHANGED <<firewall, faults>>
    \/ a \notin members[t] /\ Fault /\ UNCHANGED firewall

(* unban(): `ipset -! del`, which does not mind if the host is not there.   *)
unban(t, a) ==
    \/ /\ t \in exists
       /\ members' = [members EXCEPT ![t] = @ \ {a}]
       /\ UNCHANGED <<exists, rules, faults>>
    \/ t \notin exists /\ UNCHANGED <<firewall, faults>>
    \/ a \in members[t] /\ Fault /\ UNCHANGED firewall
=============================================================================

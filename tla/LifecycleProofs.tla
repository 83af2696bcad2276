-------------------------- MODULE LifecycleProofs --------------------------
(***************************************************************************)
(* Theorems about Lifecycle, for any number of jails, tables, ports, hosts *)
(* and faults: its types first, then the counts, commands, bans and ports  *)
(* of the jails.                                                           *)
(***************************************************************************)
EXTENDS Lifecycle, FiniteSetTheorems, TLAPS

(* Commands that cmd_list_exec runs. *)
Command == {"create", "insert", "delete", "destroy"}

(* The part of TypeOK about each component. *)
BackendOK ==
    /\ usage \in [Table -> Nat] /\ exists \subseteq Table
    /\ members \in [Table -> SUBSET Addr] /\ rules \in [Table -> Nat]
    /\ todo \in Seq(Command) /\ ok \in BOOLEAN /\ faults \in 0 .. MaxFaults

SourceOK ==
    /\ listener \in [Port -> Jail \cup {"free", "leaked"}] /\ queue \in [Port -> 0 .. Backlog]
    /\ refused \subseteq Jail \X Port

ControlOK ==
    /\ phase \in {"boot", "start", "run", "stop", "off"}
    /\ pc \in {"next", "start", "restore", "sweep", "unban", "stop"}
    /\ turn \in Seq(Jail) /\ jails \in Seq(Jail) /\ loaded \subseteq Jail

BansOK ==
    held \in [Jail -> SUBSET Addr] /\ file \in [Jail -> SUBSET Addr] /\ left \subseteq Addr

RequestsOK == asked \in BOOLEAN /\ rounds \in 0 .. MaxRounds

HistoryOK ==
    /\ miscounted \subseteq Table /\ orphans \in [Table -> Nat] /\ lost \subseteq Port
    /\ exposed \subseteq Table \X Addr /\ stray \subseteq Table \X Addr

LEMMA TypeParts ==
    TypeOK <=> /\ BackendOK /\ SourceOK /\ ControlOK /\ BansOK /\ RequestsOK /\ HistoryOK
  BY DEF TypeOK, BackendOK, SourceOK, ControlOK, BansOK, RequestsOK, HistoryOK, Command

(* A configuration lists jails. *)
LEMMA ConfigsList == ASSUME NEW c \in Configs PROVE c \in Seq(Jail)
  <1>1. PICK S \in SUBSET Jail : c \in SetToSeqs(S)
    BY DEF Configs, SetToAllKPermutations
  <1>2. Cardinality(S) \in Nat
    BY LifecycleAssumption, FS_Subset, FS_CardinalityType
  <1>3. c \in [1 .. Cardinality(S) -> S]
    BY <1>1 DEF SetToSeqs
  <1> QED
    BY <1>2, <1>3

(* The jail at work and its table, when there is one. *)
LEMMA AtWork ==
    ASSUME ControlOK, turn # <<>>
    PROVE  cur \in Jail /\ Here \in Table /\ Tail(turn) \in Seq(Jail)
  BY LifecycleAssumption DEF ControlOK, cur, Here

LEMMA FaultType == ASSUME BackendOK, Fault PROVE faults' \in 0 .. MaxFaults
  BY LifecycleAssumption DEF BackendOK, Fault

---------------------------------------------------------------------------
(* The operations of the backend. *)

LEMMA ExecType ==
    ASSUME BackendOK, NEW t \in Table, cmd_list_exec(t)
    PROVE  BackendOK'
  <1> DEFINE c == Head(todo)
  <1>1. todo # <<>> /\ c \in Command /\ Tail(todo) \in Seq(Command) /\ <<>> \in Seq(Command)
    BY DEF BackendOK, cmd_list_exec
  <1>2. UNCHANGED usage /\ usage \in [Table -> Nat]
    BY DEF BackendOK, cmd_list_exec
  <1>3. todo' \in Seq(Command) /\ ok' \in BOOLEAN /\ faults' \in 0 .. MaxFaults
    BY <1>1, FaultType DEF BackendOK, cmd_list_exec
  <1>4. ASSUME Works(c, t), Effect(c, t)
        PROVE  /\ exists' \subseteq Table /\ members' \in [Table -> SUBSET Addr]
               /\ rules' \in [Table -> Nat]
    <2>1. exists' \subseteq Table
      BY <1>4 DEF BackendOK, Effect
    <2>2. members' \in [Table -> SUBSET Addr]
      BY <1>4 DEF BackendOK, Effect
    <2>3. rules' \in [Table -> Nat]
      <3>1. rules \in [Table -> Nat] /\ rules[t] \in Nat
        BY DEF BackendOK
      <3>2. c = "delete" => rules[t] - 1 \in Nat
        BY <1>4, <3>1 DEF Works
      <3> QED
        BY <1>4, <3>1, <3>2 DEF Effect
    <2> QED
      BY <2>1, <2>2, <2>3
  <1>5. \/ Works(c, t) /\ Effect(c, t)
        \/ UNCHANGED firewall
    BY DEF cmd_list_exec
  <1>6. /\ exists' \subseteq Table /\ members' \in [Table -> SUBSET Addr]
        /\ rules' \in [Table -> Nat]
    BY <1>4, <1>5 DEF firewall, BackendOK
  <1> QED
    BY <1>2, <1>3, <1>6 DEF BackendOK

LEMMA StartType ==
    ASSUME BackendOK, NEW t \in Table, start(t), UNCHANGED firewall, Fault \/ UNCHANGED faults
    PROVE  BackendOK'
  <1>1. usage' \in [Table -> Nat]
    BY DEF BackendOK, start, Inc
  <1>2. todo' \in Seq(Command) /\ ok' \in BOOLEAN
    <2>1. <<>> \in Seq(Command) /\ <<"create", "insert">> \in Seq(Command)
      BY DEF Command
    <2> QED
      BY <2>1 DEF start
  <1>3. faults' \in 0 .. MaxFaults
    BY FaultType DEF BackendOK
  <1> QED
    BY <1>1, <1>2, <1>3 DEF BackendOK, firewall

LEMMA StopType ==
    ASSUME BackendOK, NEW t \in Table, stop(t), UNCHANGED <<firewall, faults>>
    PROVE  BackendOK'
  <1>1. usage' \in [Table -> Nat]
    <2>1. usage \in [Table -> Nat] /\ usage[t] \in Nat
      BY DEF BackendOK
    <2>2. (IF usage[t] > 0 THEN usage[t] - 1 ELSE 0) \in Nat
      BY <2>1
    <2> QED
      BY <2>1, <2>2 DEF stop, Dec
  <1>2. todo' \in Seq(Command) /\ ok' \in BOOLEAN
    <2>1. <<>> \in Seq(Command) /\ <<"delete", "destroy">> \in Seq(Command)
      BY DEF Command
    <2> QED
      BY <2>1 DEF stop
  <1> QED
    BY <1>1, <1>2 DEF BackendOK, firewall

LEMMA BanType ==
    ASSUME BackendOK, HistoryOK, NEW a \in Addr, Here \in Table,
           Ban(a), UNCHANGED <<backend, miscounted, orphans, lost>>
    PROVE  BackendOK' /\ HistoryOK'
  <1>1. members' \in [Table -> SUBSET Addr] /\ UNCHANGED <<exists, rules>>
    BY DEF Ban, ban, BackendOK, firewall
  <1>2. faults' \in 0 .. MaxFaults
    BY FaultType DEF Ban, ban, BackendOK
  <1>3. exposed' \subseteq Table \X Addr /\ stray' \subseteq Table \X Addr
    BY DEF Ban, HistoryOK
  <1> QED
    BY <1>1, <1>2, <1>3 DEF BackendOK, HistoryOK, backend

LEMMA UnbanType ==
    ASSUME BackendOK, HistoryOK, BansOK, NEW a \in Addr, cur \in Jail, Here \in Table,
           f2b_jail_unban(a), UNCHANGED <<backend, miscounted, orphans, lost>>
    PROVE  BackendOK' /\ HistoryOK' /\ held' \in [Jail -> SUBSET Addr]
  <1>1. members' \in [Table -> SUBSET Addr] /\ UNCHANGED <<exists, rules>>
    BY DEF f2b_jail_unban, unban, BackendOK, firewall
  <1>2. faults' \in 0 .. MaxFaults
    BY FaultType DEF f2b_jail_unban, unban, BackendOK
  <1>3. exposed' \subseteq Table \X Addr /\ stray' \subseteq Table \X Addr
    BY DEF f2b_jail_unban, HistoryOK
  <1>4. held' \in [Jail -> SUBSET Addr]
    BY DEF f2b_jail_unban, BansOK
  <1> QED
    BY <1>1, <1>2, <1>3, <1>4 DEF BackendOK, HistoryOK, backend

LEMMA DestroyType ==
    ASSUME BackendOK, f2b_backend_destroy, UNCHANGED <<firewall, faults>>
    PROVE  BackendOK'
  BY DEF BackendOK, f2b_backend_destroy, firewall

LEMMA OrphanedType ==
    ASSUME BackendOK, HistoryOK, NEW S, NEW mis \in SUBSET Table, Orphaned(S, mis)
    PROVE  miscounted' \subseteq Table /\ orphans' \in [Table -> Nat]
  BY DEF BackendOK, HistoryOK, Orphaned

LEMMA ClosedType ==
    ASSUME SourceOK, NEW S, Closed(S)
    PROVE  SourceOK'
  BY LifecycleAssumption DEF SourceOK, Closed, Forgiven

---------------------------------------------------------------------------
(* The jails still to be stopped are the running ones, so that the head of  *)
(* the one list is the head of the other.                                   *)
TurnOK ==
    /\ turn = <<>> => pc = "next"
    /\ phase = "run" => pc \in {"next", "sweep"}
    /\ phase = "off" => pc = "next"
    /\ phase = "stop" => jails = IF pc = "next" THEN turn ELSE Tail(turn)

LifecycleInv ==
    BackendOK /\ SourceOK /\ ControlOK /\ TurnOK /\ BansOK /\ RequestsOK /\ HistoryOK

LEMMA InitInv == Init => LifecycleInv
  <1> SUFFICES ASSUME Init PROVE LifecycleInv
    OBVIOUS
  <1>1. BackendOK
    BY LifecycleAssumption DEF Init, BackendInit, BackendOK
  <1>2. SourceOK
    BY LifecycleAssumption DEF Init, SourceInit, SourceOK
  <1>3. ControlOK /\ TurnOK
    <2>1. turn \in Seq(Jail) /\ <<>> \in Seq(Jail)
      BY ConfigsList DEF Init
    <2> QED
      BY <2>1 DEF Init, ControlOK, TurnOK
  <1>4. BansOK
    BY DEF Init, BansOK
  <1>5. RequestsOK
    <2>1. 0 \in 0 .. MaxRounds
      BY LifecycleAssumption
    <2>2. asked = FALSE /\ rounds = 0
      BY DEF Init
    <2> QED
      BY <2>1, <2>2 DEF RequestsOK
  <1>6. HistoryOK
    BY DEF Init, HistoryOK
  <1> QED
    BY <1>1, <1>2, <1>3, <1>4, <1>5, <1>6 DEF LifecycleInv

(* Steps of jails_start. *)
LEMMA StartSteps ==
    ASSUME LifecycleInv,
           \/ InitFails \/ f2b_jail_init \/ StartFails \/ f2b_jail_start
           \/ (\E a \in Addr : Restore(a)) \/ Started \/ AllStarted
    PROVE  LifecycleInv'
  <1>0. BackendOK /\ SourceOK /\ ControlOK /\ TurnOK /\ BansOK /\ RequestsOK /\ HistoryOK
    BY DEF LifecycleInv
  <1>1. turn # <<>> => cur \in Jail /\ Here \in Table /\ Tail(turn) \in Seq(Jail)
    BY <1>0, AtWork
  <1>2. CASE InitFails
    <2>1. BackendOK' /\ SourceOK' /\ BansOK' /\ RequestsOK' /\ HistoryOK'
      BY <1>0, <1>2 DEF InitFails, BackendOK, SourceOK, BansOK, RequestsOK, HistoryOK, firewall,
           backend, source, bans, requests, history
    <2>2. ControlOK' /\ TurnOK'
      BY <1>0, <1>1, <1>2 DEF InitFails, f2b_backend_init, At, Starting, ControlOK, TurnOK
    <2> QED
      BY <2>1, <2>2 DEF LifecycleInv
  <1>3. CASE f2b_jail_init
    <2>1. BackendOK'
      BY <1>0, <1>1, <1>3, StartType DEF f2b_jail_init, At, Starting
    <2>2. SourceOK'
      <3>1. SourceStart(cur, ToSet(PortsOf[cur])) /\ cur \in Jail
        BY <1>1, <1>3 DEF f2b_jail_init, At
      <3>2. ToSet(PortsOf[cur]) \subseteq Port
        <4>1. PortsOf[cur] \in Seq(Port)
          BY <3>1, LifecycleAssumption
        <4> QED
          BY <4>1 DEF ToSet
      <3> QED
        BY <1>0, <3>1, <3>2 DEF SourceStart, SourceOK
    <2>3. ControlOK' /\ TurnOK'
      BY <1>0, <1>1, <1>3 DEF f2b_jail_init, f2b_backend_init, At, Starting, ControlOK, TurnOK
    <2>4. BansOK' /\ RequestsOK' /\ HistoryOK'
      BY <1>0, <1>3 DEF f2b_jail_init, BansOK, RequestsOK, HistoryOK, bans, requests, history
    <2> QED
      BY <2>1, <2>2, <2>3, <2>4 DEF LifecycleInv
  <1>4. CASE StartFails
    <2>1. BackendOK'
      BY <1>0, <1>4, DestroyType DEF StartFails
    <2>2. SourceOK'
      BY <1>0, <1>4 DEF StartFails, SourceDestroy, Forgiven, SourceOK
    <2>3. ControlOK' /\ TurnOK'
      BY <1>0, <1>1, <1>4 DEF StartFails, At, Starting, f2b_backend_destroy, ControlOK, TurnOK
    <2>4. BansOK' /\ RequestsOK'
      BY <1>0, <1>4 DEF StartFails, BansOK, RequestsOK, bans, requests
    <2>5. HistoryOK'
      <3>1. miscounted \cup {Here} \in SUBSET Table
        BY <1>0, <1>1, <1>4 DEF StartFails, At, Starting, HistoryOK
      <3>2. miscounted' \subseteq Table /\ orphans' \in [Table -> Nat]
        BY <1>0, <1>4, <3>1, OrphanedType DEF StartFails
      <3>3. lost' \subseteq Port
        BY <1>0, <1>4 DEF StartFails, HistoryOK
      <3> QED
        BY <1>0, <1>4, <3>2, <3>3 DEF StartFails, HistoryOK
    <2> QED
      BY <2>1, <2>2, <2>3, <2>4, <2>5 DEF LifecycleInv
  <1>5. CASE f2b_jail_start
    <2>1. BackendOK' /\ SourceOK' /\ RequestsOK' /\ HistoryOK'
      BY <1>0, <1>5 DEF f2b_jail_start, BackendOK, SourceOK, RequestsOK, HistoryOK, firewall,
           backend, source, requests, history
    <2>2. ControlOK' /\ TurnOK'
      BY <1>0, <1>5 DEF f2b_jail_start, At, Starting, ControlOK, TurnOK
    <2>3. BansOK'
      <3>1. PICK over \in SUBSET file[cur] :
              held' = [held EXCEPT ![cur] = file[cur] \ over] /\ left' = file[cur] \ over
        BY <1>5 DEF f2b_jail_start
      <3>2. file[cur] \subseteq Addr
        BY <1>0, <1>1, <1>5 DEF f2b_jail_start, At, Starting, BansOK
      <3> QED
        BY <1>0, <1>5, <3>1, <3>2 DEF f2b_jail_start, BansOK
    <2> QED
      BY <2>1, <2>2, <2>3 DEF LifecycleInv
  <1>6. ASSUME NEW a \in Addr, Restore(a) PROVE LifecycleInv'
    <2>1. BackendOK' /\ HistoryOK'
      BY <1>0, <1>1, <1>6, BanType DEF Restore, At, Starting
    <2>2. SourceOK' /\ RequestsOK'
      BY <1>0, <1>6 DEF Restore, SourceOK, RequestsOK, source, requests
    <2>3. ControlOK' /\ TurnOK' /\ BansOK'
      BY <1>0, <1>6 DEF Restore, ControlOK, TurnOK, BansOK, control
    <2> QED
      BY <2>1, <2>2, <2>3 DEF LifecycleInv
  <1>7. CASE Started
    <2>1. BackendOK' /\ SourceOK' /\ BansOK' /\ RequestsOK' /\ HistoryOK'
      BY <1>0, <1>7 DEF Started, BackendOK, SourceOK, BansOK, RequestsOK, HistoryOK, firewall,
           backend, source, bans, requests, history
    <2>2. jails' \in Seq(Jail)
      <3>1. <<cur>> \in Seq(Jail) /\ jails \in Seq(Jail)
        BY <1>0, <1>1, <1>7 DEF Started, At, Starting, ControlOK
      <3> QED
        BY <1>7, <3>1 DEF Started
    <2>3. ControlOK' /\ TurnOK'
      BY <1>0, <1>1, <1>7, <2>2 DEF Started, At, Starting, ControlOK, TurnOK
    <2> QED
      BY <2>1, <2>3 DEF LifecycleInv
  <1>8. CASE AllStarted
    <2>1. BackendOK' /\ SourceOK' /\ BansOK' /\ RequestsOK' /\ HistoryOK'
      BY <1>0, <1>8 DEF AllStarted, BackendOK, SourceOK, BansOK, RequestsOK, HistoryOK, firewall,
           backend, source, bans, requests, history
    <2>2. ControlOK' /\ TurnOK'
      BY <1>0, <1>8 DEF AllStarted, ControlOK, TurnOK
    <2> QED
      BY <2>1, <2>2 DEF LifecycleInv
  <1> QED
    BY <1>2, <1>3, <1>4, <1>5, <1>6, <1>7, <1>8

(* Steps of the main loop. *)
LEMMA RunSteps ==
    ASSUME LifecycleInv,
           \/ Cycle \/ NextLine \/ PollEnd \/ (\E a \in Addr : Release(a)) \/ Save
           \/ Ask \/ \E p \in Port : SomebodyKnocks(p)
    PROVE  LifecycleInv'
  <1>0. BackendOK /\ SourceOK /\ ControlOK /\ TurnOK /\ BansOK /\ RequestsOK /\ HistoryOK
    BY DEF LifecycleInv
  <1>1. turn # <<>> => cur \in Jail /\ Here \in Table /\ Tail(turn) \in Seq(Jail)
    BY <1>0, AtWork
  <1>2. CASE Cycle
    <2>1. BackendOK' /\ SourceOK' /\ BansOK' /\ RequestsOK' /\ HistoryOK'
      BY <1>0, <1>2 DEF Cycle, BackendOK, SourceOK, BansOK, RequestsOK, HistoryOK, firewall,
           backend, source, bans, requests, history
    <2>2. ControlOK' /\ TurnOK'
      BY <1>0, <1>2 DEF Cycle, ControlOK, TurnOK
    <2> QED
      BY <2>1, <2>2 DEF LifecycleInv
  <1>3. CASE NextLine
    <2>0. cur \in Jail /\ Here \in Table /\ PortsOf[cur] \in Seq(Port)
      BY <1>1, <1>3, LifecycleAssumption DEF NextLine, At, Starting
    <2>1. SourceOK'
      <3>1. PICK k \in Pending(cur, PortsOf[cur]) :
              queue' = [queue EXCEPT ![PortsOf[cur][k]] = @ - 1] /\ UNCHANGED <<listener, refused>>
        BY <1>3 DEF NextLine, Accept
      <3>2. PortsOf[cur][k] \in Port /\ queue[PortsOf[cur][k]] > 0
        BY <2>0 DEF Pending
      <3> QED
        BY <1>0, <3>1, <3>2, LifecycleAssumption DEF SourceOK
    <2>2. ControlOK' /\ TurnOK' /\ RequestsOK'
      BY <1>0, <1>3 DEF NextLine, control, requests, ControlOK, TurnOK, RequestsOK
    <2>3. BackendOK' /\ HistoryOK' /\ BansOK'
      <3>1. CASE UNCHANGED <<bans, firewall, faults, exposed, stray>>
        BY <1>0, <1>3, <3>1 DEF NextLine, BackendOK, HistoryOK, BansOK, bans, firewall, backend
      <3>2. ASSUME NEW a \in Addr \ held[cur],
                   held' = [held EXCEPT ![cur] = @ \cup {a}],
                   left' = left \cup {a}, UNCHANGED file, Ban(a)
            PROVE  BackendOK' /\ HistoryOK' /\ BansOK'
        <4>1. BackendOK' /\ HistoryOK'
          BY <1>0, <1>3, <2>0, <3>2, BanType DEF NextLine
        <4>2. BansOK'
          BY <1>0, <3>2 DEF BansOK
        <4> QED
          BY <4>1, <4>2
      <3> QED
        BY <1>3, <3>1, <3>2 DEF NextLine
    <2> QED
      BY <2>1, <2>2, <2>3 DEF LifecycleInv
  <1>4. CASE PollEnd
    <2>1. BackendOK' /\ SourceOK' /\ BansOK' /\ RequestsOK' /\ HistoryOK'
      BY <1>0, <1>4 DEF PollEnd, BackendOK, SourceOK, BansOK, RequestsOK, HistoryOK, firewall,
           backend, source, bans, requests, history
    <2>2. ControlOK' /\ TurnOK'
      BY <1>0, <1>4 DEF PollEnd, At, ControlOK, TurnOK
    <2> QED
      BY <2>1, <2>2 DEF LifecycleInv
  <1>7. ASSUME NEW a \in Addr, Release(a) PROVE LifecycleInv'
    <2>0. cur \in Jail /\ Here \in Table /\ f2b_jail_unban(a)
      BY <1>1, <1>7 DEF Release, At
    <2>1. BackendOK' /\ HistoryOK' /\ held' \in [Jail -> SUBSET Addr]
      BY <1>0, <1>7, <2>0, UnbanType DEF Release
    <2>2. SourceOK' /\ RequestsOK' /\ ControlOK' /\ TurnOK' /\ BansOK'
      BY <1>0, <1>7, <2>1 DEF Release, SourceOK, RequestsOK, ControlOK, TurnOK, BansOK, control,
           source, requests
    <2> QED
      BY <2>1, <2>2 DEF LifecycleInv
  <1>8. CASE Save
    <2>1. cur \in Jail
      BY <1>1, <1>8 DEF Save, At
    <2>2. BackendOK' /\ SourceOK' /\ RequestsOK' /\ HistoryOK'
      BY <1>0, <1>8 DEF Save, BackendOK, SourceOK, RequestsOK, HistoryOK, firewall, backend,
           source, requests, history
    <2>3. ControlOK' /\ TurnOK'
      BY <1>0, <1>1, <1>8 DEF Save, At, ControlOK, TurnOK
    <2>4. BansOK'
      BY <1>0, <1>8, <2>1 DEF Save, BansOK
    <2> QED
      BY <2>2, <2>3, <2>4 DEF LifecycleInv
  <1>5. CASE Ask
    BY <1>0, <1>5 DEF Ask, LifecycleInv, BackendOK, SourceOK, ControlOK, TurnOK, BansOK,
         RequestsOK, HistoryOK, control, bans, firewall, backend, source, history
  <1>6. ASSUME NEW p \in Port, SomebodyKnocks(p) PROVE LifecycleInv'
    <2>1. SourceOK'
      BY <1>0, <1>6, LifecycleAssumption DEF SomebodyKnocks, Knock, SourceOK
    <2>2. BackendOK' /\ ControlOK' /\ TurnOK' /\ BansOK' /\ RequestsOK' /\ HistoryOK'
      BY <1>0, <1>6 DEF SomebodyKnocks, BackendOK, ControlOK, TurnOK, BansOK, RequestsOK,
           HistoryOK, control, bans, firewall, backend, requests, history
    <2> QED
      BY <2>1, <2>2 DEF LifecycleInv
  <1> QED
    BY <1>2, <1>3, <1>4, <1>5, <1>6, <1>7, <1>8

(* Steps of jails_stop, and those that end or begin a process. *)
LEMMA StopSteps ==
    ASSUME LifecycleInv,
           \/ Exec \/ f2b_jail_stop \/ (\E a \in Addr : Unblock(a)) \/ StopBackend \/ Stopped
           \/ Reload \/ Exit \/ Crash \/ Boot
    PROVE  LifecycleInv'
  <1>0. BackendOK /\ SourceOK /\ ControlOK /\ TurnOK /\ BansOK /\ RequestsOK /\ HistoryOK
    BY DEF LifecycleInv
  <1>1. turn # <<>> => cur \in Jail /\ Here \in Table /\ Tail(turn) \in Seq(Jail)
    BY <1>0, AtWork
  <1>2. CASE Exec
    <2>1. BackendOK'
      BY <1>0, <1>1, <1>2, ExecType DEF Exec, At, Starting
    <2>2. SourceOK' /\ ControlOK' /\ TurnOK' /\ BansOK' /\ RequestsOK' /\ HistoryOK'
      BY <1>0, <1>2 DEF Exec, SourceOK, ControlOK, TurnOK, BansOK, RequestsOK, HistoryOK,
           control, bans, source, requests, history
    <2> QED
      BY <2>1, <2>2 DEF LifecycleInv
  <1>3. CASE f2b_jail_stop
    <2>1. SourceOK'
      BY <1>0, <1>3, ClosedType DEF f2b_jail_stop, SourceStop
    <2>2. turn # <<>> /\ pc = "next" /\ jails = turn
      BY <1>0, <1>3 DEF f2b_jail_stop, At, Starting, TurnOK
    <2>3. ControlOK' /\ TurnOK'
      BY <1>0, <1>1, <1>3, <2>2 DEF f2b_jail_stop, At, Starting, ControlOK, TurnOK
    <2>4. BansOK'
      BY <1>0, <1>1, <1>3, <2>2 DEF f2b_jail_stop, BansOK
    <2>5. BackendOK' /\ RequestsOK' /\ HistoryOK'
      BY <1>0, <1>3 DEF f2b_jail_stop, BackendOK, RequestsOK, HistoryOK, firewall, backend,
           requests, history
    <2> QED
      BY <2>1, <2>3, <2>4, <2>5 DEF LifecycleInv
  <1>4. ASSUME NEW a \in Addr, Unblock(a) PROVE LifecycleInv'
    <2>1. BackendOK' /\ HistoryOK' /\ held' \in [Jail -> SUBSET Addr]
      BY <1>0, <1>1, <1>4, UnbanType DEF Unblock, At, Starting
    <2>2. BansOK'
      BY <1>0, <1>4, <2>1 DEF Unblock, BansOK
    <2>3. SourceOK' /\ ControlOK' /\ TurnOK' /\ RequestsOK'
      BY <1>0, <1>4 DEF Unblock, SourceOK, ControlOK, TurnOK, RequestsOK, control, source, requests
    <2> QED
      BY <2>1, <2>2, <2>3 DEF LifecycleInv
  <1>5. CASE StopBackend
    <2>1. BackendOK'
      BY <1>0, <1>1, <1>5, StopType DEF StopBackend, At, Starting
    <2>2. ControlOK' /\ TurnOK'
      BY <1>0, <1>5 DEF StopBackend, At, Starting, ControlOK, TurnOK
    <2>3. SourceOK' /\ BansOK' /\ RequestsOK' /\ HistoryOK'
      BY <1>0, <1>5 DEF StopBackend, SourceOK, BansOK, RequestsOK, HistoryOK, bans, source,
           requests, history
    <2> QED
      BY <2>1, <2>2, <2>3 DEF LifecycleInv
  <1>6. CASE Stopped
    <2>1. BackendOK'
      BY <1>0, <1>6, DestroyType DEF Stopped
    <2>2. ControlOK' /\ TurnOK'
      BY <1>0, <1>1, <1>6 DEF Stopped, At, Starting, f2b_backend_destroy, ControlOK, TurnOK
    <2>3. SourceOK' /\ BansOK' /\ RequestsOK'
      BY <1>0, <1>6 DEF Stopped, SourceOK, BansOK, RequestsOK, bans, source, requests
    <2>4. HistoryOK'
      <3>1. miscounted' \subseteq Table /\ orphans' \in [Table -> Nat]
        BY <1>0, <1>6, OrphanedType DEF Stopped, HistoryOK
      <3> QED
        BY <1>0, <1>6, <3>1 DEF Stopped, HistoryOK
    <2> QED
      BY <2>1, <2>2, <2>3, <2>4 DEF LifecycleInv
  <1>7. CASE Reload \/ Boot
    <2>1. ControlOK' /\ TurnOK'
      <3>1. turn' \in Seq(Jail)
        BY <1>7, ConfigsList DEF Reload, Boot
      <3>2. pc = "next"
        BY <1>0, <1>7 DEF Reload, Boot, TurnOK
      <3> QED
        BY <1>0, <1>7, <3>1, <3>2 DEF Reload, Boot, ControlOK, TurnOK
    <2>2. RequestsOK'
      <3>1. rounds \in 0 .. MaxRounds /\ rounds < MaxRounds /\ rounds' = rounds + 1
        BY <1>0, <1>7 DEF Reload, Boot, RequestsOK
      <3>2. rounds' \in 0 .. MaxRounds
        BY <3>1, LifecycleAssumption
      <3>3. asked' = FALSE \/ asked' = asked
        BY <1>7 DEF Reload, Boot
      <3> QED
        BY <1>0, <3>2, <3>3 DEF RequestsOK
    <2>3. BackendOK' /\ SourceOK' /\ BansOK' /\ HistoryOK'
      BY <1>0, <1>7 DEF Reload, Boot, BackendOK, SourceOK, BansOK, HistoryOK, firewall, backend,
           bans, source, history
    <2> QED
      BY <2>1, <2>2, <2>3 DEF LifecycleInv
  <1>8. CASE Exit
    <2>1. SourceOK'
      BY <1>0, <1>8, ClosedType DEF Exit
    <2>2. ControlOK' /\ TurnOK' /\ RequestsOK' /\ HistoryOK'
      BY <1>0, <1>8 DEF Exit, ControlOK, TurnOK, RequestsOK, HistoryOK
    <2>3. BackendOK' /\ BansOK'
      BY <1>0, <1>8 DEF Exit, BackendOK, BansOK, firewall, backend, bans
    <2> QED
      BY <2>1, <2>2, <2>3 DEF LifecycleInv
  <1>9. CASE Crash
    <2>1. BackendOK'
      <3>1. usage' = [t \in Table |-> 0] /\ todo' = <<>> /\ ok' = TRUE /\ UNCHANGED firewall
        BY <1>9 DEF Crash
      <3>2. faults' \in 0 .. MaxFaults
        BY <1>0, <1>9, FaultType DEF Crash
      <3>3. <<>> \in Seq(Command)
        OBVIOUS
      <3>4. exists' \subseteq Table /\ members' \in [Table -> SUBSET Addr]
            /\ rules' \in [Table -> Nat]
        BY <1>0, <3>1 DEF BackendOK, firewall
      <3>5. usage' \in [Table -> Nat]
        BY <3>1
      <3>6. todo' \in Seq(Command) /\ ok' \in BOOLEAN
        BY <3>1, <3>3
      <3> QED
        BY <3>2, <3>4, <3>5, <3>6 DEF BackendOK
    <2>2. SourceOK'
      BY <1>0, <1>9, ClosedType DEF Crash
    <2>3. ControlOK' /\ TurnOK' /\ RequestsOK'
      <3>1. <<>> \in Seq(Jail)
        OBVIOUS
      <3> QED
        BY <1>0, <1>9, <3>1 DEF Crash, ControlOK, TurnOK, RequestsOK
    <2>4. BansOK'
      BY <1>0, <1>9 DEF Crash, BansOK
    <2>5. HistoryOK'
      <3>1. stray' \subseteq Table \X Addr
        BY <1>9 DEF Crash
      <3> QED
        BY <1>0, <1>9, <3>1 DEF Crash, HistoryOK, BackendOK
    <2> QED
      BY <2>1, <2>2, <2>3, <2>4, <2>5 DEF LifecycleInv
  <1> QED
    BY <1>2, <1>3, <1>4, <1>5, <1>6, <1>7, <1>8, <1>9

LEMMA StutterInv == LifecycleInv /\ UNCHANGED vars => LifecycleInv'
  BY DEF LifecycleInv, BackendOK, SourceOK, ControlOK, TurnOK, BansOK, RequestsOK, HistoryOK,
       vars, control, bans, firewall, backend, source, requests, history

(* Every reachable state of the daemon, its jails, tables and ports is well *)
(* formed, and the jails that are being stopped are those that run.         *)
THEOREM LifecycleTypes == Spec => [](TypeOK /\ TurnOK)
  <1>1. LifecycleInv => TypeOK /\ TurnOK
    BY TypeParts DEF LifecycleInv
  <1>2. LifecycleInv /\ [Next]_vars => LifecycleInv'
    <2> SUFFICES ASSUME LifecycleInv, [Next]_vars PROVE LifecycleInv'
      OBVIOUS
    <2>1. CASE UNCHANGED vars
      BY <2>1, StutterInv
    <2>2. CASE Next
      BY <2>2, StartSteps, RunSteps, StopSteps DEF Next, Main
    <2> QED
      BY <2>1, <2>2
  <1> QED
    BY InitInv, <1>1, <1>2, PTL DEF Spec

---------------------------------------------------------------------------
(* Safety: commands, counts, rules and ports. *)

(* The jail that holds handles but is not in the list of jails. *)
Work == IF pc \in {"next", "sweep"} THEN {} ELSE {cur}

(* No jail is listed twice; those still to be started do not run, and those *)
(* that hold a handle of the backend library run or are at work.            *)
OrderOK ==
    /\ IsInjective(turn) /\ IsInjective(jails)
    /\ phase \in Starting => ToSet(turn) \cap Running = {}
    /\ phase = "run" => ToSet(turn) \subseteq Running
    /\ phase = "off" => jails = <<>>
    /\ phase \in Starting => pc \in {"next", "start", "restore"}
    /\ phase = "stop" => pc \in {"next", "unban", "stop"}
    /\ loaded = Running \cup Work

(* A usage count is never too low, so the stop commands are run only when   *)
(* the table has no user.                                                   *)
CountOK == \A t \in Table : usage[t] >= Cardinality(Users(t))

(* How far the commands for a table are, and what they have done so far.    *)
CommandsOK ==
    /\ todo # <<>> => pc \in {"start", "stop"}
    /\ pc = "start" => todo \in {<<>>, <<"insert">>, <<"create", "insert">>}
    /\ pc = "stop" => todo \in {<<>>, <<"destroy">>, <<"delete", "destroy">>}
    /\ pc = "stop" /\ (todo # <<>> \/ ~ok) => Users(Here) = {}
    /\ pc = "start" /\ todo # <<>> /\ ok /\ Here \notin miscounted =>
          /\ Users(Here) = {cur} /\ rules[Here] = orphans[Here]
          /\ todo = <<"insert">> => Here \in exists
    /\ pc = "stop" /\ todo # <<>> /\ ok /\ Here \notin miscounted =>
          rules[Here] = orphans[Here] + (IF todo = <<"destroy">> THEN 0 ELSE 1)

(* Only a jail that runs, is about to or did until now holds hosts.         *)
HeldOK ==
    /\ \A j \in Jail : held[j] # {} => j \in Running \/ (j = cur /\ pc \in {"restore", "unban"})
    /\ pc = "restore" => left \subseteq held[cur]
    /\ pc = "unban" => left = held[cur]

(* The jail expects p to be open: it found it taken or could open it.       *)
Expects(j, p) == p \in ToSet(PortsOf[j]) /\ <<j, p>> \notin refused

(* A port is open for the one that was started first of the jails that      *)
(* expect it to be, so that no other loses it when that one is stopped.     *)
PortsOK ==
    \A p \in Port :
        /\ \A i, k \in DOMAIN jails : i < k /\ Expects(jails[k], p) => listener[p] # jails[i]
        /\ pc \in {"start", "restore"} =>
              /\ Expects(cur, p) => listener[p] # "free"
              /\ listener[p] = cur => \A j \in Running : ~Expects(j, p)
        /\ pc = "unban" => listener[p] # cur

SafetyInv ==
    /\ OrderOK /\ CountOK /\ UsageCountsUsers /\ CommandsOK /\ RulesPaired
    /\ HeldOK /\ FirewallAgrees /\ PortsOK /\ PortsHeard

---------------------------------------------------------------------------
(* Lists without repetition. *)

LEMMA ListTail ==
    ASSUME NEW S, NEW s \in Seq(S), s # <<>>, IsInjective(s)
    PROVE  /\ Tail(s) \in Seq(S) /\ IsInjective(Tail(s))
           /\ Head(s) \notin ToSet(Tail(s)) /\ ToSet(s) = {Head(s)} \cup ToSet(Tail(s))
           /\ DOMAIN Tail(s) = 1 .. Len(s) - 1 /\ DOMAIN s = 1 .. Len(s) /\ Len(s) \in Nat
           /\ Head(s) = s[1] /\ 1 \in DOMAIN s
           /\ \A i \in DOMAIN Tail(s) : i + 1 \in DOMAIN s /\ Tail(s)[i] = s[i + 1]
  <1> DEFINE n == Len(s)
             t == Tail(s)
  <1>1. /\ n \in Nat /\ n >= 1 /\ DOMAIN s = 1 .. n /\ t \in Seq(S) /\ DOMAIN t = 1 .. n - 1
        /\ Head(s) = s[1] /\ \A i \in 1 .. n - 1 : t[i] = s[i + 1]
    OBVIOUS
  <1> HIDE DEF n, t
  <1>2. \A i \in 1 .. n - 1 : i + 1 \in 1 .. n /\ i + 1 # 1
    BY <1>1
  <1>3. IsInjective(t)
    <2> SUFFICES ASSUME NEW i \in 1 .. n - 1, NEW k \in 1 .. n - 1, t[i] = t[k] PROVE i = k
      BY <1>1 DEF IsInjective
    <2>1. s[i + 1] = s[k + 1] /\ i + 1 \in 1 .. n /\ k + 1 \in 1 .. n
      BY <1>1, <1>2
    <2>2. i + 1 = k + 1
      BY <1>1, <2>1 DEF IsInjective
    <2> QED
      BY <1>1, <2>2
  <1>4. 1 \in 1 .. n
    BY <1>1
  <1>5. Head(s) \notin ToSet(t)
    BY <1>1, <1>2, <1>4 DEF IsInjective, ToSet
  <1>6. ToSet(s) = {Head(s)} \cup ToSet(t)
    <2>1. ASSUME NEW i \in 1 .. n PROVE s[i] \in {Head(s)} \cup ToSet(t)
      <3>1. CASE i = 1
        BY <1>1, <3>1
      <3>2. CASE i # 1
        <4>1. i - 1 \in 1 .. n - 1 /\ (i - 1) + 1 = i
          BY <1>1, <3>2
        <4> QED
          BY <1>1, <4>1 DEF ToSet
      <3> QED
        BY <3>1, <3>2
    <2>2. ToSet(s) \subseteq {Head(s)} \cup ToSet(t)
      BY <1>1, <2>1 DEF ToSet
    <2>3. Head(s) \in ToSet(s)
      BY <1>1, <1>4 DEF ToSet
    <2>4. ToSet(t) \subseteq ToSet(s)
      BY <1>1, <1>2 DEF ToSet
    <2> QED
      BY <2>2, <2>3, <2>4
  <1> QED
    BY <1>1, <1>2, <1>3, <1>4, <1>5, <1>6 DEF n, t

LEMMA ListHead ==
    ASSUME NEW S, NEW s \in Seq(S), NEW x \in S, IsInjective(s), x \notin ToSet(s)
    PROVE  /\ <<x>> \o s \in Seq(S) /\ IsInjective(<<x>> \o s) /\ ToSet(<<x>> \o s) = {x} \cup ToSet(s)
           /\ (<<x>> \o s)[1] = x /\ DOMAIN (<<x>> \o s) = 1 .. Len(s) + 1
           /\ DOMAIN s = 1 .. Len(s) /\ Len(s) \in Nat
           /\ \A i \in DOMAIN (<<x>> \o s) :
                 i # 1 => i - 1 \in DOMAIN s /\ (<<x>> \o s)[i] = s[i - 1]
  <1> DEFINE n == Len(s)
             t == <<x>> \o s
  <1>1. /\ n \in Nat /\ DOMAIN s = 1 .. n /\ t \in Seq(S) /\ DOMAIN t = 1 .. n + 1
        /\ t[1] = x /\ \A i \in 2 .. n + 1 : t[i] = s[i - 1]
    OBVIOUS
  <1> HIDE DEF n, t
  <1>2. \A i \in 1 .. n + 1 : i # 1 => i - 1 \in 1 .. n /\ i \in 2 .. n + 1
    BY <1>1
  <1>3. \A i \in 1 .. n : s[i] # x
    BY <1>1 DEF ToSet
  <1>4. IsInjective(t)
    <2> SUFFICES ASSUME NEW i \in 1 .. n + 1, NEW k \in 1 .. n + 1, t[i] = t[k] PROVE i = k
      BY <1>1 DEF IsInjective
    <2>1. CASE i # 1 /\ k # 1
      <3>1. s[i - 1] = s[k - 1] /\ i - 1 \in 1 .. n /\ k - 1 \in 1 .. n
        BY <1>1, <1>2, <2>1
      <3>2. i - 1 = k - 1
        BY <1>1, <3>1 DEF IsInjective
      <3> QED
        BY <1>1, <3>2
    <2>2. CASE i = 1 \/ k = 1
      BY <1>1, <1>2, <1>3, <2>2
    <2> QED
      BY <2>1, <2>2
  <1>5. ToSet(t) = {x} \cup ToSet(s)
    <2>1. ToSet(t) \subseteq {x} \cup ToSet(s)
      BY <1>1, <1>2 DEF ToSet
    <2>2. x \in ToSet(t)
      <3>1. 1 \in 1 .. n + 1
        BY <1>1
      <3> QED
        BY <1>1, <3>1 DEF ToSet
    <2>3. ASSUME NEW i \in 1 .. n PROVE s[i] \in ToSet(t)
      <3>1. i + 1 \in 2 .. n + 1 /\ i + 1 \in 1 .. n + 1 /\ (i + 1) - 1 = i
        BY <1>1
      <3> QED
        BY <1>1, <3>1 DEF ToSet
    <2>4. ToSet(s) \subseteq ToSet(t)
      BY <1>1, <2>3 DEF ToSet
    <2> QED
      BY <2>1, <2>2, <2>4
  <1> QED
    BY <1>1, <1>2, <1>4, <1>5 DEF n, t

LEMMA EmptyList == ToSet(<<>>) = {} /\ IsInjective(<<>>)
  BY DEF ToSet, IsInjective

LEMMA ConfigsInjective == ASSUME NEW c \in Configs PROVE IsInjective(c)
  <1>1. PICK S \in SUBSET Jail : c \in SetToSeqs(S)
    BY DEF Configs, SetToAllKPermutations
  <1> DEFINE D == 1 .. Cardinality(S)
  <1>2. c \in [D -> S] /\ \A i, j \in D : i # j => c[i] # c[j]
    BY <1>1 DEF SetToSeqs
  <1> QED
    BY <1>2 DEF IsInjective

---------------------------------------------------------------------------
(* Which jails run, and which one is at work. *)

Active == Running \cup Busy

(* What a step does to the jails that use their tables. *)
Keeps == Active' = Active
Joins == Active' = Active \cup {cur} /\ cur \notin Active
Leaves == Active' = Active \ {cur} /\ cur \in Active /\ cur \notin Running

(* The jail at work does not run. *)
LEMMA CurrentApart ==
    ASSUME LifecycleInv, OrderOK, turn # <<>>, phase \in Starting \/ (phase = "stop" /\ pc # "next")
    PROVE  cur \in Jail /\ cur \notin Running /\ cur \in ToSet(turn)
  <1>1. turn \in Seq(Jail) /\ IsInjective(turn)
    BY DEF LifecycleInv, ControlOK, OrderOK
  <1>2. Head(turn) \notin ToSet(Tail(turn)) /\ ToSet(turn) = {Head(turn)} \cup ToSet(Tail(turn))
    BY <1>1, ListTail
  <1>3. cur \in Jail
    BY AtWork DEF LifecycleInv
  <1>4. CASE phase \in Starting
    BY <1>2, <1>3, <1>4 DEF OrderOK, cur
  <1>5. CASE phase = "stop" /\ pc # "next"
    BY <1>2, <1>3, <1>5 DEF LifecycleInv, TurnOK, Running, cur
  <1> QED
    BY <1>4, <1>5

LEMMA OrderInit == Init => OrderOK
  <1>1. ASSUME Init PROVE OrderOK
    <2>1. IsInjective(turn)
      BY <1>1, ConfigsInjective DEF Init
    <2> QED
      BY <1>1, <2>1, EmptyList DEF Init, OrderOK, Running, Work, Starting
  <1> QED
    BY <1>1

(* Steps of jails_start. *)
LEMMA OrderStart ==
    ASSUME LifecycleInv, OrderOK,
           \/ InitFails \/ f2b_jail_init \/ StartFails \/ f2b_jail_start
           \/ (\E a \in Addr : Restore(a)) \/ Started \/ AllStarted
    PROVE  /\ OrderOK'
           /\ f2b_jail_init => Joins
           /\ StartFails => Leaves
           /\ ~f2b_jail_init /\ ~StartFails => Keeps
  <1>0. /\ turn \in Seq(Jail) /\ jails \in Seq(Jail) /\ IsInjective(turn) /\ IsInjective(jails)
        /\ loaded = Running \cup Work /\ TurnOK
    BY DEF LifecycleInv, ControlOK, OrderOK
  <1>1. ASSUME turn # <<>>, phase \in Starting
        PROVE  /\ cur \in Jail /\ cur \notin Running /\ IsInjective(Tail(turn))
               /\ cur \notin ToSet(Tail(turn)) /\ ToSet(Tail(turn)) \cap Running = {}
               /\ phase # "off" /\ phase # "stop" /\ phase # "run"
    <2>1. /\ IsInjective(Tail(turn)) /\ Head(turn) \notin ToSet(Tail(turn))
          /\ ToSet(turn) = {Head(turn)} \cup ToSet(Tail(turn))
      BY <1>0, <1>1, ListTail
    <2> QED
      BY <1>1, <2>1, CurrentApart DEF OrderOK, cur, Starting
  <1>2. CASE InitFails
    <2>1. turn # <<>> /\ phase \in Starting /\ pc = "next" /\ turn' = Tail(turn)
          /\ UNCHANGED <<phase, pc, jails>> /\ loaded' = loaded
      BY <1>2 DEF InitFails, At, f2b_backend_init
    <2>2. OrderOK'
      BY <1>0, <1>1, <2>1 DEF OrderOK, Running, Work
    <2>3. Keeps
      BY <2>1 DEF Keeps, Active, Running, Busy
    <2>4. ~f2b_jail_init /\ ~StartFails
      BY <2>1 DEF f2b_jail_init, StartFails, At
    <2> QED
      BY <2>2, <2>3, <2>4
  <1>3. CASE f2b_jail_init
    <2>1. turn # <<>> /\ phase \in Starting /\ pc = "next" /\ pc' = "start"
          /\ UNCHANGED <<phase, turn, jails>> /\ loaded' = loaded \cup {cur}
      BY <1>3 DEF f2b_jail_init, At, f2b_backend_init
    <2>2. OrderOK'
      BY <1>0, <1>1, <2>1 DEF OrderOK, Running, Work, cur
    <2>3. Joins
      BY <1>1, <2>1 DEF Joins, Active, Running, Busy, cur
    <2>4. ~StartFails
      BY <2>1 DEF StartFails, At
    <2> QED
      BY <1>3, <2>2, <2>3, <2>4
  <1>4. CASE StartFails
    <2>1. turn # <<>> /\ phase \in Starting /\ pc = "start" /\ pc' = "next" /\ turn' = Tail(turn)
          /\ UNCHANGED <<phase, jails>> /\ loaded' = loaded \ {cur}
      BY <1>4 DEF StartFails, At, f2b_backend_destroy
    <2>2. OrderOK'
      BY <1>0, <1>1, <2>1 DEF OrderOK, Running, Work
    <2>3. Leaves
      BY <1>1, <2>1 DEF Leaves, Active, Running, Busy
    <2>4. ~f2b_jail_init
      BY <2>1 DEF f2b_jail_init, At
    <2> QED
      BY <1>4, <2>2, <2>3, <2>4
  <1>5. CASE f2b_jail_start
    <2>1. turn # <<>> /\ phase \in Starting /\ pc = "start" /\ pc' = "restore"
          /\ UNCHANGED <<phase, turn, jails, loaded>> /\ ok
      BY <1>5 DEF f2b_jail_start, At
    <2>2. OrderOK'
      BY <1>0, <1>1, <2>1 DEF OrderOK, Running, Work, cur
    <2>3. Keeps
      BY <2>1 DEF Keeps, Active, Running, Busy, cur
    <2>4. ~f2b_jail_init /\ ~StartFails
      BY <2>1 DEF f2b_jail_init, StartFails, At
    <2> QED
      BY <2>2, <2>3, <2>4
  <1>6. ASSUME NEW a \in Addr, Restore(a)
        PROVE  OrderOK' /\ Keeps /\ ~f2b_jail_init /\ ~StartFails
    <2>1. UNCHANGED <<phase, turn, pc, jails, loaded>> /\ pc = "restore"
      BY <1>6 DEF Restore, At, control
    <2>2. OrderOK' /\ Keeps
      BY <2>1 DEF OrderOK, Keeps, Active, Running, Busy, Work, cur
    <2>3. ~f2b_jail_init /\ ~StartFails
      BY <2>1 DEF f2b_jail_init, StartFails, At
    <2> QED
      BY <2>2, <2>3
  <1>7. CASE Started
    <2>1. turn # <<>> /\ phase \in Starting /\ pc = "restore" /\ pc' = "next" /\ turn' = Tail(turn)
          /\ UNCHANGED <<phase, loaded>> /\ jails' = <<cur>> \o jails
      BY <1>7 DEF Started, At
    <2>2. /\ IsInjective(jails') /\ Running' = {cur} \cup Running
      BY <1>0, <1>1, <2>1, ListHead DEF Running
    <2>3. OrderOK'
      BY <1>0, <1>1, <2>1, <2>2 DEF OrderOK, Work
    <2>4. Keeps
      BY <2>1, <2>2 DEF Keeps, Active, Busy
    <2>5. ~f2b_jail_init /\ ~StartFails
      BY <2>1 DEF f2b_jail_init, StartFails, At
    <2> QED
      BY <2>3, <2>4, <2>5
  <1>8. CASE AllStarted
    <2>1. turn = <<>> /\ phase' = "run" /\ UNCHANGED <<turn, pc, jails, loaded>>
      BY <1>8 DEF AllStarted
    <2>2. OrderOK' /\ Keeps
      BY <1>0, <2>1, EmptyList DEF OrderOK, Keeps, Active, Running, Busy, Work, cur, Starting
    <2>3. ~f2b_jail_init /\ ~StartFails
      BY <2>1 DEF f2b_jail_init, StartFails, At
    <2> QED
      BY <2>2, <2>3
  <1> QED
    BY <1>2, <1>3, <1>4, <1>5, <1>6, <1>7, <1>8

(* Steps of the main loop, of jails_stop, and those that end or begin a     *)
(* process.                                                                 *)
LEMMA OrderRest ==
    ASSUME LifecycleInv, OrderOK,
           \/ Cycle \/ NextLine \/ PollEnd \/ (\E a \in Addr : Release(a)) \/ Save
           \/ Ask \/ \E p \in Port : SomebodyKnocks(p)
           \/ Exec \/ f2b_jail_stop \/ (\E a \in Addr : Unblock(a)) \/ StopBackend \/ Stopped
           \/ Reload \/ Exit \/ Crash \/ Boot \/ UNCHANGED vars
    PROVE  /\ OrderOK'
           /\ StopBackend => Leaves
           /\ Crash => Active' = {}
           /\ ~StopBackend /\ ~Crash => Keeps
  <1>0. /\ turn \in Seq(Jail) /\ jails \in Seq(Jail) /\ IsInjective(turn) /\ IsInjective(jails)
        /\ loaded = Running \cup Work /\ TurnOK
        /\ turn # <<>> => IsInjective(Tail(turn)) /\ ToSet(turn) = {cur} \cup ToSet(Tail(turn))
        /\ turn # <<>> => cur \notin ToSet(Tail(turn))
        /\ {"run", "stop", "off"} \cap Starting = {}
    BY ListTail DEF LifecycleInv, ControlOK, OrderOK, cur, Starting
  <1>1. CASE /\ UNCHANGED <<turn, pc, jails, loaded>> /\ phase' = phase
             /\ ~StopBackend /\ ~Crash
    BY <1>1 DEF OrderOK, Keeps, Active, Running, Busy, Work, cur
  <1>2. CASE Cycle
    <2>1. phase = "run" /\ turn = <<>> /\ pc = "next" /\ turn' = jails /\ UNCHANGED <<pc, jails, loaded>>
          /\ phase' \in {"run", "stop"}
      BY <1>0, <1>2 DEF Cycle, TurnOK
    <2>2. OrderOK' /\ Keeps
      BY <1>0, <2>1 DEF OrderOK, Keeps, Active, Running, Busy, Work
    <2>3. ~StopBackend /\ ~Crash
      BY <2>1 DEF StopBackend, At, Crash
    <2> QED
      BY <2>2, <2>3
  <1>3. CASE PollEnd \/ Save
    <2>1. turn # <<>> /\ phase = "run" /\ {pc, pc'} \subseteq {"next", "sweep"}
          /\ turn' \in {turn, Tail(turn)} /\ UNCHANGED <<phase, jails, loaded>>
      BY <1>3 DEF PollEnd, Save, At
    <2>2. OrderOK' /\ Keeps
      BY <1>0, <2>1 DEF OrderOK, Keeps, Active, Running, Busy, Work
    <2>3. ~StopBackend /\ ~Crash
      BY <2>1 DEF StopBackend, At, Crash
    <2> QED
      BY <2>2, <2>3
  <1>4. CASE f2b_jail_stop
    <2>1. turn # <<>> /\ phase = "stop" /\ pc = "next" /\ jails = turn /\ jails' = Tail(jails)
          /\ pc' = "unban" /\ UNCHANGED <<phase, turn, loaded>>
      BY <1>0, <1>4 DEF f2b_jail_stop, At, TurnOK
    <2>2. Running = {cur} \cup Running' /\ Work' = {cur} /\ Busy' = {cur} /\ Busy = {} /\ Work = {}
      BY <1>0, <2>1 DEF Running, Work, Busy, cur
    <2>3. OrderOK' /\ Keeps
      BY <1>0, <2>1, <2>2 DEF OrderOK, Keeps, Active
    <2>4. ~StopBackend /\ ~Crash
      BY <2>1 DEF StopBackend, At, Crash
    <2> QED
      BY <2>3, <2>4
  <1>5. CASE StopBackend
    <2>1. turn # <<>> /\ phase = "stop" /\ pc = "unban" /\ pc' = "stop"
          /\ UNCHANGED <<phase, turn, jails, loaded>>
      BY <1>5 DEF StopBackend, At
    <2>2. cur \notin Running
      BY <2>1, CurrentApart
    <2>3. OrderOK' /\ Leaves
      BY <1>0, <2>1, <2>2 DEF OrderOK, Leaves, Active, Running, Work, Busy, cur
    <2>4. ~Crash
      BY <2>1 DEF Crash
    <2> QED
      BY <1>5, <2>3, <2>4
  <1>6. CASE Stopped
    <2>1. turn # <<>> /\ phase = "stop" /\ pc = "stop" /\ pc' = "next" /\ turn' = Tail(turn)
          /\ UNCHANGED <<phase, jails>> /\ loaded' = loaded \ {cur} /\ turn' # turn
      BY <1>0, <1>6 DEF Stopped, At, f2b_backend_destroy
    <2>2. cur \notin Running
      BY <2>1, CurrentApart
    <2>3. OrderOK' /\ Keeps
      BY <1>0, <2>1, <2>2 DEF OrderOK, Keeps, Active, Running, Work, Busy
    <2>4. ~StopBackend /\ ~Crash
      BY <2>1 DEF Crash, StopBackend, At
    <2> QED
      BY <2>3, <2>4
  <1>7. CASE Reload \/ Boot
    <2>1. /\ jails = <<>> /\ pc = "next" /\ turn' \in Configs
          /\ phase' \in {"start", "boot"} /\ UNCHANGED <<pc, jails, loaded>>
      BY <1>0, <1>7 DEF Reload, Boot, TurnOK, OrderOK
    <2>2. IsInjective(turn')
      BY <2>1, ConfigsInjective
    <2>3. OrderOK' /\ Keeps
      BY <1>0, <2>1, <2>2, EmptyList DEF OrderOK, Keeps, Active, Running, Work, Busy
    <2>4. ~StopBackend /\ ~Crash
      BY <2>1 DEF Crash, StopBackend, At
    <2> QED
      BY <2>3, <2>4
  <1>8. CASE Exit
    <2>1. /\ jails = <<>> /\ pc = "next" /\ turn = <<>>
          /\ phase' = "off" /\ UNCHANGED <<turn, pc, jails, loaded>>
      BY <1>0, <1>8 DEF Exit, TurnOK
    <2>2. OrderOK' /\ Keeps
      BY <1>0, <2>1, EmptyList DEF OrderOK, Keeps, Active, Running, Work, Busy
    <2>3. ~StopBackend /\ ~Crash
      <3>1. faults \in 0 .. MaxFaults /\ faults' = faults
        BY <1>8 DEF LifecycleInv, BackendOK, Exit
      <3>2. faults' # faults + 1
        BY <3>1, LifecycleAssumption
      <3> QED
        BY <2>1, <3>2 DEF Crash, Fault, StopBackend, At
    <2> QED
      BY <2>2, <2>3
  <1>9. CASE Crash
    <2>1. jails' = <<>> /\ pc' = "next" /\ turn' = <<>> /\ phase' = "off" /\ loaded' = {}
          /\ phase # "off"
      BY <1>9 DEF Crash
    <2>2. OrderOK' /\ Active' = {}
      BY <1>0, <2>1, EmptyList DEF OrderOK, Active, Running, Work, Busy
    <2>3. ~StopBackend
      BY <2>1 DEF StopBackend, At
    <2> QED
      BY <1>9, <2>2, <2>3
  <1>10. CASE \/ NextLine \/ Ask \/ (\E p \in Port : SomebodyKnocks(p)) \/ Exec
              \/ (\E a \in Addr : Release(a) \/ Unblock(a)) \/ UNCHANGED vars
    <2>1. UNCHANGED <<control, loaded>>
      BY <1>10 DEF NextLine, Ask, SomebodyKnocks, Exec, Release, Unblock, vars
    <2>2. ~StopBackend /\ ~Crash
      BY <1>0, <2>1 DEF StopBackend, Crash, At, control
    <2> QED
      BY <1>1, <2>1, <2>2 DEF control
  <1> QED
    BY <1>2, <1>3, <1>4, <1>5, <1>6, <1>7, <1>8, <1>9, <1>10

LEMMA OrderStep ==
    ASSUME LifecycleInv, OrderOK, [Next]_vars
    PROVE  OrderOK'
  BY OrderStart, OrderRest DEF Next, Main

---------------------------------------------------------------------------
(* Users of the tables. *)

LEMMA UsersFinite ==
    ASSUME LifecycleInv, NEW t \in Table
    PROVE  IsFiniteSet(Users(t)) /\ Cardinality(Users(t)) \in Nat
  <1>1. Users(t) \subseteq Jail
    <2>1. Running \subseteq Jail
      BY DEF LifecycleInv, ControlOK, Running, ToSet
    <2>2. Busy \subseteq Jail
      <3>1. CASE turn = <<>>
        BY <3>1 DEF LifecycleInv, TurnOK, Busy
      <3>2. CASE turn # <<>>
        BY <3>2, AtWork DEF LifecycleInv, Busy
      <3> QED
        BY <3>1, <3>2
    <2> QED
      BY <2>1, <2>2 DEF Users
  <1> QED
    BY <1>1, LifecycleAssumption, FS_Subset, FS_CardinalityType

LEMMA NoUsers == Active = {} => \A t \in Table : Users(t) = {} /\ Cardinality(Users(t)) = 0
  BY FS_EmptySet DEF Users, Active

(* A jail that starts is one more user of its table, and one that is done   *)
(* is one less.                                                             *)
LEMMA UsersChange ==
    ASSUME LifecycleInv, NEW t \in Table
    PROVE  /\ Keeps => Users(t)' = Users(t)
           /\ Joins => /\ Users(t)' = IF t = Here THEN Users(t) \cup {cur} ELSE Users(t)
                       /\ t = Here => cur \notin Users(t)
                       /\ t = Here => Cardinality(Users(t)') = Cardinality(Users(t)) + 1
           /\ Leaves => /\ Users(t)' = IF t = Here THEN Users(t) \ {cur} ELSE Users(t)
                        /\ t = Here => cur \in Users(t)
                        /\ t = Here => Cardinality(Users(t)') = Cardinality(Users(t)) - 1
           /\ Active' = {} => Users(t)' = {} /\ Cardinality(Users(t)') = 0
  <1>1. Users(t) = {j \in Active : TableOf[j] = t} /\ Users(t)' = {j \in Active' : TableOf[j] = t}
    BY DEF Users, Active
  <1>2. IsFiniteSet(Users(t)) /\ Cardinality(Users(t)) \in Nat
    BY UsersFinite
  <1>4. ASSUME Joins
        PROVE  /\ Users(t)' = IF t = Here THEN Users(t) \cup {cur} ELSE Users(t)
               /\ t = Here => cur \notin Users(t)
    BY <1>1, <1>4 DEF Joins, Here
  <1>5. ASSUME Leaves
        PROVE  /\ Users(t)' = IF t = Here THEN Users(t) \ {cur} ELSE Users(t)
               /\ t = Here => cur \in Users(t)
    BY <1>1, <1>5 DEF Leaves, Here
  <1>6. Active' = {} => Users(t)' = {} /\ Cardinality(Users(t)') = 0
    BY <1>1, FS_EmptySet
  <1>7. Joins /\ t = Here => Cardinality(Users(t)') = Cardinality(Users(t)) + 1
    BY <1>2, <1>4, FS_AddElement
  <1>8. Leaves /\ t = Here => Cardinality(Users(t)') = Cardinality(Users(t)) - 1
    BY <1>2, <1>5, FS_RemoveElement
  <1>9. Keeps => Users(t)' = Users(t)
    BY <1>1 DEF Keeps
  <1> QED
    BY <1>4, <1>5, <1>6, <1>7, <1>8, <1>9

(* Every step is one of a few kinds, as far as users and counts go.         *)
LEMMA StepKinds ==
    ASSUME LifecycleInv, OrderOK, [Next]_vars
    PROVE  \/ f2b_jail_init /\ Joins
           \/ StartFails /\ Leaves
           \/ StopBackend /\ Leaves
           \/ Stopped /\ Keeps
           \/ Crash /\ Active' = {}
           \/ Exec /\ Keeps
           \/ /\ Keeps /\ UNCHANGED <<backend, exists, rules, miscounted, orphans>>
              /\ pc' \in {"start", "stop"} => pc' = pc /\ turn' = turn
              /\ pc = "start" => pc' = "start" \/ (todo = <<>> /\ ok)
              /\ pc = "stop" => pc' = "stop"
  <1> DEFINE Same == UNCHANGED <<backend, exists, rules, miscounted, orphans>>
             Pc == /\ pc' \in {"start", "stop"} => pc' = pc /\ turn' = turn
                   /\ pc = "start" => pc' = "start" \/ (todo = <<>> /\ ok)
                   /\ pc = "stop" => pc' = "stop"
  <1>0. TurnOK
    BY DEF LifecycleInv
  <1>1. CASE InitFails \/ Started \/ f2b_jail_start \/ AllStarted
    <2>1. ~f2b_jail_init /\ ~StartFails
      BY <1>1 DEF InitFails, Started, f2b_jail_start, AllStarted, f2b_jail_init, StartFails, At
    <2>2. Keeps
      BY <1>1, <2>1, OrderStart
    <2>3. Same
      BY <1>1 DEF InitFails, Started, f2b_jail_start, AllStarted, firewall, history
    <2>4. Pc
      BY <1>0, <1>1 DEF InitFails, Started, f2b_jail_start, AllStarted, At, TurnOK
    <2> QED
      BY <2>2, <2>3, <2>4
  <1>2. ASSUME NEW a \in Addr, Restore(a) \/ Unblock(a)
        PROVE  Keeps /\ Same /\ Pc
    <2>1. UNCHANGED <<control, backend, miscounted, orphans>> /\ pc \in {"restore", "unban"}
      BY <1>2 DEF Restore, Unblock, At
    <2>2. UNCHANGED <<exists, rules>>
      BY <1>2 DEF Restore, Unblock, Ban, ban, f2b_jail_unban, unban, firewall
    <2>3. Keeps
      BY <2>1 DEF Keeps, Active, Running, Busy, cur, control
    <2> QED
      BY <2>1, <2>2, <2>3 DEF control
  <1>3. CASE \/ Cycle \/ NextLine \/ PollEnd \/ (\E a \in Addr : Release(a)) \/ Save
             \/ Ask \/ (\E p \in Port : SomebodyKnocks(p))
             \/ f2b_jail_stop \/ Reload \/ Exit \/ Boot \/ UNCHANGED vars
    <2>1. Same
      <3>1. CASE NextLine \/ (\E a \in Addr : Release(a))
        BY <3>1 DEF NextLine, Release, Ban, ban, f2b_jail_unban, unban, firewall
      <3>2. CASE ~(NextLine \/ (\E a \in Addr : Release(a)))
        BY <1>3, <3>2 DEF Cycle, PollEnd, Save, Ask, SomebodyKnocks, f2b_jail_stop, Reload, Exit, Boot, vars,
                          firewall, history
      <3> QED
        BY <3>1, <3>2
    <2>2. Pc
      BY <1>0, <1>3 DEF Cycle, NextLine, PollEnd, Release, Save, Ask, SomebodyKnocks, f2b_jail_stop, Reload,
                        Exit, Boot, vars, control, At, TurnOK
    <2>3. ~StopBackend /\ ~Crash
      <3>1. CASE StopBackend
        BY <1>0, <1>3, <3>1 DEF Cycle, NextLine, PollEnd, Release, Save, Ask, SomebodyKnocks, f2b_jail_stop,
                        Reload, Exit, Boot, vars, control, At, TurnOK, StopBackend
      <3>2. CASE Crash
        <4>1. faults \in 0 .. MaxFaults
          BY DEF LifecycleInv, BackendOK
        <4>2. faults' # faults /\ phase # "off" /\ phase' = "off"
          BY <3>2, <4>1, LifecycleAssumption DEF Crash, Fault
        <4> QED
          BY <1>0, <1>3, <4>2 DEF Cycle, NextLine, PollEnd, Release, Save, Ask, SomebodyKnocks, f2b_jail_stop,
                          Reload, Exit, Boot, vars, control, At, TurnOK
      <3> QED
        BY <3>1, <3>2
    <2>4. Keeps
      BY <1>3, <2>3, OrderRest
    <2> QED
      BY <2>1, <2>2, <2>4
  <1>4. CASE Exec
    <2>1. UNCHANGED control
      BY <1>4 DEF Exec
    <2> QED
      BY <1>4, <2>1 DEF Keeps, Active, Running, Busy, cur, control
  <1>5. CASE Stopped
    <2>1. phase = "stop" /\ pc = "stop" /\ UNCHANGED phase
      BY <1>5 DEF Stopped, At
    <2>2. ~StopBackend /\ ~Crash
      BY <2>1 DEF StopBackend, Crash, At
    <2> QED
      BY <1>5, <2>2, OrderRest
  <1> HIDE DEF Same, Pc
  <1>6. CASE f2b_jail_init \/ StartFails
    BY <1>6, OrderStart
  <1>7. CASE StopBackend \/ Crash
    BY <1>7, OrderRest
  <1> QED
    BY <1>1, <1>2, <1>3, <1>4, <1>5, <1>6, <1>7 DEF Next, Main, Same, Pc

(* When the library is unloaded no table has a user. *)
LEMMA UnloadedUnused ==
    ASSUME LifecycleInv, OrderOK, [Next]_vars, StartFails \/ Stopped, loaded' = {}
    PROVE  Active' = {}
  <1>1. OrderOK'
    BY OrderStep
  <1>2. pc' = "next"
    BY DEF StartFails, Stopped
  <1> QED
    BY <1>1, <1>2 DEF OrderOK, Active, Work, Busy

LEMMA CountStep ==
    ASSUME LifecycleInv, OrderOK, CountOK, UsageCountsUsers, [Next]_vars
    PROVE  CountOK' /\ UsageCountsUsers'
  <1> SUFFICES ASSUME NEW t \in Table
               PROVE  /\ usage'[t] >= Cardinality(Users(t)')
                      /\ t \notin miscounted' => usage'[t] = Cardinality(Users(t)')
    BY DEF CountOK, UsageCountsUsers, Users
  <1> DEFINE n == Cardinality(Users(t))
             u == usage[t]
             m == Cardinality(Users(t)')
             v == usage'[t]
  <1>1. /\ n \in Nat /\ u \in Nat /\ u >= n /\ (t \notin miscounted => u = n)
        /\ usage \in [Table -> Nat] /\ miscounted \subseteq Table
    BY UsersFinite DEF CountOK, UsageCountsUsers, LifecycleInv, BackendOK, HistoryOK
  <1>2. /\ Keeps => m = n
        /\ Joins => m = IF t = Here THEN n + 1 ELSE n
        /\ Leaves => m = IF t = Here THEN n - 1 ELSE n
        /\ Active' = {} => m = 0
    BY UsersChange
  <1> HIDE DEF n, u, m, v
  <1>3. CASE f2b_jail_init /\ Joins
    <2>1. usage' = Inc(Here) /\ UNCHANGED miscounted
      BY <1>3 DEF f2b_jail_init, start, history
    <2>2. v = IF t = Here THEN u + 1 ELSE u
      BY <1>1, <2>1 DEF Inc, u, v
    <2> QED
      BY <1>1, <1>2, <1>3, <2>1, <2>2 DEF v, m
  <1>4. CASE StopBackend /\ Leaves
    <2>1. usage' = Dec(Here) /\ UNCHANGED miscounted
      BY <1>4 DEF StopBackend, stop, history
    <2>2. v = IF t = Here THEN (IF u > 0 THEN u - 1 ELSE 0) ELSE u
      BY <1>1, <2>1 DEF Dec, u, v
    <2>3. t = Here => m = n - 1 /\ m \in Nat
      <3>1. t = Here => Users(t)' = Users(t) \ {cur}
        BY <1>4, UsersChange
      <3>2. IsFiniteSet(Users(t)) /\ (t = Here => cur \in Users(t))
        BY <1>4, UsersFinite, UsersChange
      <3>3. t = Here => n # 0
        BY <3>2, FS_EmptySet DEF n
      <3> QED
        BY <1>1, <1>2, <1>4, <3>3
    <2> QED
      BY <1>1, <1>2, <1>4, <2>1, <2>2, <2>3 DEF v, m
  <1>5. CASE Crash /\ Active' = {}
    <2>1. v = 0
      BY <1>5 DEF Crash, v
    <2> QED
      BY <1>2, <1>5, <2>1 DEF v, m
  <1>6. CASE (StartFails /\ Leaves) \/ (Stopped /\ Keeps)
    <2>1. CASE loaded' = {}
      <3>1. v = 0
        BY <1>6, <2>1 DEF StartFails, Stopped, f2b_backend_destroy, v
      <3>2. m = 0
        BY <1>2, <1>6, <2>1, UnloadedUnused
      <3> QED
        BY <3>1, <3>2 DEF v, m
    <2>2. CASE loaded' # {}
      <3>1. v = u
        BY <1>6, <2>2 DEF StartFails, Stopped, f2b_backend_destroy, u, v
      <3>2. CASE StartFails
        <4>1. t \notin miscounted' => t # Here /\ t \notin miscounted
          BY <2>2, <3>2 DEF StartFails, Orphaned
        <4> QED
          BY <1>1, <1>2, <1>6, <3>1, <3>2, <4>1 DEF v, m, Stopped, StartFails, At, Starting
      <3>3. CASE Stopped /\ Keeps
        <4>1. miscounted' = miscounted
          BY <2>2, <3>3 DEF Stopped, Orphaned
        <4> QED
          BY <1>1, <1>2, <3>1, <3>3, <4>1 DEF v, m
      <3> QED
        BY <1>6, <3>2, <3>3
    <2> QED
      BY <2>1, <2>2
  <1>7. CASE Exec /\ Keeps
    BY <1>1, <1>2, <1>7 DEF Exec, cmd_list_exec, history, v, u, m
  <1>8. CASE Keeps /\ UNCHANGED <<usage, miscounted>>
    BY <1>1, <1>2, <1>8 DEF v, u, m
  <1> QED
    BY <1>3, <1>4, <1>5, <1>6, <1>7, <1>8, StepKinds DEF backend

---------------------------------------------------------------------------
(* Commands and rules of the firewall. *)

(* The rules of the table t are those that lost their user, and one for its *)
(* users, which they find in its set.                                       *)
RuleOK(t) ==
    /\ rules[t] = orphans[t] + (IF Users(t) = {} THEN 0 ELSE 1)
    /\ Users(t) # {} => t \in exists

AtCommands(t) == pc \in {"start", "stop"} /\ t = Here /\ (todo # <<>> \/ ~ok)

LEMMA RulesByTable == RulesPaired <=> \A t \in Table \ miscounted : AtCommands(t) \/ RuleOK(t)
  BY DEF RulesPaired, AtCommands, RuleOK

LEMMA RulesByTableNext ==
    RulesPaired' <=> \A t \in Table \ miscounted' : AtCommands(t)' \/ RuleOK(t)'
  BY DEF RulesPaired, AtCommands, RuleOK, Users

(* One turn of the loop of cmd_list_exec. *)
LEMMA ExecCommands ==
    ASSUME LifecycleInv, CommandsOK, RulesPaired, Exec, Keeps
    PROVE  CommandsOK' /\ RulesPaired'
  <1> DEFINE c == Head(todo)
  <1>0. /\ turn # <<>> /\ todo # <<>> /\ pc \in {"start", "stop"} /\ Here \in Table /\ cmd_list_exec(Here)
        /\ UNCHANGED <<turn, pc, miscounted, orphans>>
        /\ \A t \in Table : Users(t)' = Users(t)
    <2>1. /\ turn # <<>> /\ todo # <<>> /\ pc \in {"start", "stop"} /\ cmd_list_exec(Here)
          /\ UNCHANGED <<turn, pc, miscounted, orphans>>
      BY DEF Exec, At, control, history, cmd_list_exec
    <2>2. Here \in Table
      BY <2>1, AtWork DEF LifecycleInv
    <2>3. \A t \in Table : Users(t)' = Users(t)
      BY UsersChange
    <2> QED
      BY <2>1, <2>2, <2>3
  <1>1. Here' = Here /\ cur' = cur
    BY <1>0 DEF Here, cur
  <1>2. /\ rules \in [Table -> Nat] /\ rules[Here] \in Nat /\ orphans[Here] \in Nat
    BY <1>0 DEF LifecycleInv, BackendOK, HistoryOK
  <1>3. /\ pc = "start" => todo \in {<<"insert">>, <<"create", "insert">>}
        /\ pc = "stop" => todo \in {<<"destroy">>, <<"delete", "destroy">>} /\ Users(Here) = {}
    BY <1>0 DEF CommandsOK
  <1>4. UNCHANGED firewall \/ Effect(c, Here)
    BY <1>0 DEF cmd_list_exec
  <1>5. \A t \in Table : t # Here => rules'[t] = rules[t] /\ (t \in exists' <=> t \in exists)
    BY <1>2, <1>4 DEF firewall, Effect
  <1>6. ASSUME NEW t \in Table \ miscounted', t # Here
        PROVE  RuleOK(t)'
    <2>1. RuleOK(t)
      BY <1>0, <1>6, RulesByTable DEF AtCommands
    <2> QED
      BY <1>0, <1>5, <1>6, <2>1 DEF RuleOK
  <1>7. CASE todo' = <<>> /\ ok' = FALSE
    <2>1. CommandsOK'
      BY <1>0, <1>1, <1>3, <1>7 DEF CommandsOK
    <2>2. AtCommands(Here)'
      BY <1>0, <1>1, <1>7 DEF AtCommands
    <2> QED
      BY <1>1, <1>6, <2>1, <2>2, RulesByTableNext
  <1>8. CASE Works(c, Here) /\ Effect(c, Here) /\ todo' = Tail(todo) /\ UNCHANGED ok
    <2>1. CASE pc = "start" /\ todo = <<"create", "insert">>
      <3>1. c = "create" /\ todo' = <<"insert">>
        BY <1>8, <2>1
      <3>2. Here \in exists' /\ rules'[Here] = rules[Here]
        BY <1>2, <1>8, <3>1 DEF Effect
      <3>3. todo # <<>> /\ todo' # <<>>
        BY <2>1, <3>1
      <3>4. CommandsOK'
        <4>1. pc' = "start" /\ todo' = <<"insert">>
          BY <1>0, <2>1, <3>1
        <4>2. ok' /\ Here' \notin miscounted' =>
                 Users(Here)' = {cur} /\ rules'[Here] = orphans[Here]
          <5> SUFFICES ASSUME ok, Here \notin miscounted
                       PROVE  Users(Here)' = {cur} /\ rules'[Here] = orphans[Here]
            BY <1>0, <1>1, <1>8
          <5>1. Users(Here) = {cur} /\ rules[Here] = orphans[Here]
            BY <2>1, <3>3 DEF CommandsOK
          <5> QED
            BY <1>0, <1>1, <3>2, <5>1 DEF Users
        <4> QED
          BY <1>0, <1>1, <3>2, <4>1, <4>2 DEF CommandsOK
      <3>5. AtCommands(Here)'
        BY <1>0, <1>1, <3>3 DEF AtCommands
      <3> QED
        BY <1>1, <1>6, <3>4, <3>5, RulesByTableNext
    <2>2. CASE pc = "start" /\ todo = <<"insert">>
      <3>1. c = "insert" /\ todo' = <<>>
        BY <1>8, <2>2
      <3>2. Here \in exists' /\ rules'[Here] = rules[Here] + 1
        BY <1>0, <1>2, <1>8, <3>1 DEF Effect, Works
      <3>4. CommandsOK'
        BY <1>0, <1>1, <2>2, <3>1 DEF CommandsOK
      <3>5. Here \notin miscounted /\ ok => RuleOK(Here)'
        <4> SUFFICES ASSUME Here \notin miscounted, ok PROVE RuleOK(Here)'
          OBVIOUS
        <4>1. Users(Here) = {cur} /\ rules[Here] = orphans[Here]
          BY <1>0, <2>2 DEF CommandsOK
        <4>2. Users(Here)' = {cur}
          BY <1>0, <1>1, <4>1 DEF Users
        <4> QED
          BY <1>0, <1>1, <1>2, <3>2, <4>1, <4>2 DEF RuleOK
      <3>6. ~ok => AtCommands(Here)'
        BY <1>0, <1>1, <1>8 DEF AtCommands
      <3> QED
        BY <1>0, <1>1, <1>6, <3>4, <3>5, <3>6, RulesByTableNext
    <2>3. CASE pc = "stop" /\ todo = <<"delete", "destroy">>
      <3>1. c = "delete" /\ todo' = <<"destroy">>
        BY <1>8, <2>3
      <3>2. rules'[Here] = rules[Here] - 1
        <4> HIDE DEF c
        <4>1. rules' = [rules EXCEPT ![Here] = @ - 1]
          BY <1>8, <3>1 DEF Effect
        <4> QED
          BY <1>0, <1>2, <4>1
      <3>3. todo # <<"destroy">> /\ todo' # <<>> /\ Users(Here) = {}
        <4>1. Len(todo) = 2 /\ Len(<<"destroy">>) = 1
          BY <2>3
        <4> QED
          BY <1>3, <2>3, <3>1, <4>1
      <3>4. Users(Here)' = {}
        BY <1>0, <1>1, <3>3 DEF Users
      <3>5. CommandsOK'
        <4>1. pc' = "stop" /\ Users(Here)' = {}
          BY <1>0, <2>3, <3>4
        <4>2. ok /\ Here \notin miscounted => rules'[Here] = orphans[Here] + 0
          BY <1>0, <1>2, <2>3, <3>2, <3>3 DEF CommandsOK
        <4> QED
          BY <1>0, <1>1, <1>8, <3>1, <4>1, <4>2 DEF CommandsOK
      <3>6. AtCommands(Here)'
        BY <1>0, <1>1, <3>3 DEF AtCommands
      <3> QED
        BY <1>1, <1>6, <3>5, <3>6, RulesByTableNext
    <2>4. CASE pc = "stop" /\ todo = <<"destroy">>
      <3>1. c = "destroy" /\ todo' = <<>>
        BY <1>8, <2>4
      <3>2. rules'[Here] = rules[Here]
        BY <1>2, <1>8, <3>1 DEF Effect
      <3>3. Users(Here)' = {}
        BY <1>0, <1>1, <1>3, <2>4 DEF Users
      <3>4. CommandsOK'
        BY <1>0, <1>1, <2>4, <3>1, <3>3 DEF CommandsOK
      <3>5. Here \notin miscounted /\ ok => RuleOK(Here)'
        <4> SUFFICES ASSUME Here \notin miscounted, ok PROVE RuleOK(Here)'
          OBVIOUS
        <4>1. rules[Here] = orphans[Here] + 0
          BY <1>0, <2>4 DEF CommandsOK
        <4> QED
          BY <1>0, <1>1, <1>2, <3>2, <3>3, <4>1 DEF RuleOK
      <3>6. ~ok => AtCommands(Here)'
        BY <1>0, <1>1, <1>8 DEF AtCommands
      <3> QED
        BY <1>0, <1>1, <1>6, <3>4, <3>5, <3>6, RulesByTableNext
    <2> QED
      BY <1>0, <1>3, <2>1, <2>2, <2>3, <2>4
  <1> QED
    BY <1>0, <1>7, <1>8 DEF cmd_list_exec

LEMMA CommandsStep ==
    ASSUME LifecycleInv, OrderOK, CountOK, UsageCountsUsers, CommandsOK, RulesPaired, [Next]_vars
    PROVE  CommandsOK' /\ RulesPaired'
  <1>0. /\ CountOK' /\ UsageCountsUsers' /\ TurnOK /\ usage \in [Table -> Nat] /\ rules \in [Table -> Nat]
        /\ orphans \in [Table -> Nat] /\ (pc # "next" => turn # <<>>)
        /\ (turn # <<>> => Here \in Table)
    BY CountStep, AtWork DEF LifecycleInv, TurnOK, BackendOK, HistoryOK
  <1>1. ASSUME NEW t \in Table \ miscounted, ~AtCommands(t) PROVE RuleOK(t)
    BY <1>1, RulesByTable
  <1>2. ASSUME NEW t \in Table, RuleOK(t), Users(t)' = Users(t), rules'[t] = rules[t],
               orphans'[t] = orphans[t], exists' = exists
        PROVE  RuleOK(t)'
    BY <1>2 DEF RuleOK
  <1>3. ASSUME NEW t \in Table, Users(t)' = {}, rules'[t] = orphans'[t]
        PROVE  RuleOK(t)'
    <2>1. rules'[t] = orphans'[t] + 0
      <3>1. LifecycleInv'
        BY StartSteps, RunSteps, StopSteps, StutterInv DEF Next, Main
      <3>2. orphans'[t] \in Nat
        BY <3>1 DEF LifecycleInv, HistoryOK
      <3> QED
        BY <1>3, <3>2
    <2> QED
      BY <1>3, <2>1 DEF RuleOK
  <1>4. CASE f2b_jail_init /\ Joins
    <2>1. /\ turn # <<>> /\ pc = "next" /\ pc' = "start" /\ Here \in Table /\ todo = <<>>
          /\ UNCHANGED <<turn, exists, rules, miscounted, orphans>>
          /\ usage' = Inc(Here) /\ ok' = TRUE
          /\ todo' = IF Inc(Here)[Here] <= 1 THEN <<"create", "insert">> ELSE <<>>
      BY <1>0, <1>4 DEF f2b_jail_init, At, start, IsFirst, firewall, history, CommandsOK
    <2>2. Here' = Here /\ cur' = cur
      BY <2>1 DEF Here, cur
    <2> DEFINE n == Cardinality(Users(Here))
               u == usage[Here]
    <2>3. n \in Nat /\ u \in Nat /\ u >= n /\ (Here \notin miscounted => u = n)
      BY <1>0, <2>1, UsersFinite DEF CountOK, UsageCountsUsers
    <2>4. Inc(Here)[Here] = u + 1
      BY <1>0, <2>1 DEF Inc
    <2>5. n = 0 <=> Users(Here) = {}
      BY <2>1, UsersFinite, FS_EmptySet
    <2> HIDE DEF n, u
    <2>6. /\ todo' # <<>> => Users(Here) = {} /\ todo' = <<"create", "insert">>
          /\ todo' = <<>> /\ Here \notin miscounted => Users(Here) # {}
      BY <2>1, <2>3, <2>4, <2>5
    <2>7. \A t \in Table \ miscounted : RuleOK(t)
      BY <1>1, <2>1 DEF AtCommands
    <2>8. Users(Here)' = Users(Here) \cup {cur}
      <3>1. ASSUME NEW t \in Table, t = Here PROVE Users(t)' = Users(t) \cup {cur}
        BY <1>4, <3>1, UsersChange
      <3> QED
        BY <2>1, <2>2, <3>1 DEF Users
    <2>9. CommandsOK'
      <3>1. ASSUME todo' # <<>>, Here \notin miscounted
            PROVE  Users(Here)' = {cur} /\ rules'[Here] = orphans'[Here] /\ todo' # <<"insert">>
        <4>1. RuleOK(Here) /\ Users(Here) = {}
          BY <2>1, <2>6, <2>7, <3>1
        <4>2. rules[Here] = orphans[Here]
          BY <1>0, <2>1, <4>1 DEF RuleOK
        <4>3. Len(<<"create", "insert">>) = 2 /\ Len(<<"insert">>) = 1
          OBVIOUS
        <4> QED
          BY <2>1, <2>6, <2>8, <3>1, <4>1, <4>2, <4>3
      <3> QED
        BY <2>1, <2>2, <2>6, <3>1 DEF CommandsOK
    <2>10. ASSUME NEW t \in Table \ miscounted PROVE AtCommands(t)' \/ RuleOK(t)'
      <3>1. CASE t # Here
        <4>1. Users(t)' = Users(t)
          BY <1>4, <3>1, UsersChange
        <4> QED
          BY <1>2, <2>1, <2>7, <4>1
      <3>2. CASE t = Here /\ todo' = <<>>
        <4>1. RuleOK(t) /\ Users(t) # {} /\ Users(t)' # {}
          BY <2>6, <2>7, <2>8, <2>2, <3>2 DEF Users
        <4> QED
          BY <2>1, <4>1 DEF RuleOK
      <3>3. CASE t = Here /\ todo' # <<>>
        BY <2>1, <2>2, <3>3 DEF AtCommands
      <3> QED
        BY <3>1, <3>2, <3>3
    <2> QED
      BY <2>1, <2>9, <2>10, RulesByTableNext
  <1>5. CASE StopBackend /\ Leaves
    <2>1. /\ turn # <<>> /\ pc = "unban" /\ pc' = "stop" /\ Here \in Table /\ todo = <<>>
          /\ UNCHANGED <<turn, exists, rules, miscounted, orphans>>
          /\ usage' = Dec(Here) /\ ok' = TRUE
          /\ todo' = IF usage'[Here] > 0 THEN <<>> ELSE <<"delete", "destroy">>
      BY <1>0, <1>5 DEF StopBackend, At, stop, firewall, history, CommandsOK
    <2>2. Here' = Here /\ cur' = cur
      BY <2>1 DEF Here, cur
    <2>3. /\ Users(Here)' = Users(Here) \ {cur} /\ cur \in Users(Here)
      <3>1. ASSUME NEW t \in Table, t = Here
            PROVE  Users(t)' = Users(t) \ {cur} /\ cur \in Users(t)
        BY <1>5, <3>1, UsersChange
      <3> QED
        BY <2>1, <2>2, <3>1 DEF Users
    <2> DEFINE n == Cardinality(Users(Here)')
               u == usage'[Here]
    <2>4. n \in Nat /\ u \in Nat /\ u >= n /\ (Here \notin miscounted => u = n)
      <3>1. IsFiniteSet(Users(Here)) /\ IsFiniteSet(Users(Here)')
        BY <2>1, <2>3, UsersFinite, FS_RemoveElement
      <3>2. n \in Nat
        BY <3>1, FS_CardinalityType
      <3>3. u \in Nat
        BY <1>0, <2>1 DEF Dec
      <3>4. u >= n /\ (Here \notin miscounted => u = n)
        BY <1>0, <2>1, <2>2 DEF CountOK, UsageCountsUsers, Users
      <3> QED
        BY <3>2, <3>3, <3>4
    <2>5. n = 0 <=> Users(Here)' = {}
      BY <2>1, <2>3, UsersFinite, FS_RemoveElement, FS_EmptySet
    <2> HIDE DEF n
    <2>6. /\ todo' # <<>> => Users(Here)' = {} /\ todo' = <<"delete", "destroy">>
          /\ todo' = <<>> /\ Here \notin miscounted => Users(Here)' # {}
      BY <2>1, <2>4, <2>5
    <2>7. \A t \in Table \ miscounted : RuleOK(t)
      BY <1>1, <2>1 DEF AtCommands
    <2>8. CommandsOK'
      <3>1. Here \notin miscounted => rules'[Here] = orphans'[Here] + 1
        BY <2>1, <2>3, <2>7 DEF RuleOK
      <3>2. Len(<<"delete", "destroy">>) = 2 /\ Len(<<"destroy">>) = 1
        OBVIOUS
      <3>3. todo' # <<>> => todo' # <<"destroy">>
        BY <2>6, <3>2
      <3> QED
        BY <2>1, <2>2, <2>6, <3>1, <3>3 DEF CommandsOK
    <2>9. ASSUME NEW t \in Table \ miscounted PROVE AtCommands(t)' \/ RuleOK(t)'
      <3>1. CASE t # Here
        <4>1. Users(t)' = Users(t)
          BY <1>5, <3>1, UsersChange
        <4> QED
          BY <1>2, <2>1, <2>7, <4>1
      <3>2. CASE t = Here /\ todo' = <<>>
        <4>1. RuleOK(t) /\ Users(t) # {} /\ Users(t)' # {}
          BY <2>3, <2>6, <2>7, <2>2, <3>2 DEF Users
        <4> QED
          BY <2>1, <4>1 DEF RuleOK
      <3>3. CASE t = Here /\ todo' # <<>>
        BY <2>1, <2>2, <3>3 DEF AtCommands
      <3> QED
        BY <3>1, <3>2, <3>3
    <2> QED
      BY <2>1, <2>8, <2>9, RulesByTableNext
  <1>6. CASE Crash /\ Active' = {}
    <2>1. pc' = "next" /\ todo' = <<>> /\ orphans' = rules /\ UNCHANGED rules
      BY <1>6 DEF Crash, firewall
    <2>2. \A t \in Table : Users(t)' = {}
      BY <1>6, UsersChange
    <2>3. \A t \in Table : RuleOK(t)'
      BY <1>3, <2>1, <2>2
    <2>4. CommandsOK'
      BY <2>1 DEF CommandsOK
    <2> QED
      BY <2>3, <2>4, RulesByTableNext
  <1>7. CASE (StartFails /\ Leaves) \/ (Stopped /\ Keeps)
    <2> DEFINE S == IF StartFails \/ ~ok THEN {Here} ELSE {}
               mis == IF StartFails THEN miscounted \cup {Here} ELSE miscounted
    <2>1. /\ turn # <<>> /\ pc \in {"start", "stop"} /\ todo = <<>> /\ pc' = "next" /\ todo' = <<>>
          /\ Orphaned(S, mis) /\ UNCHANGED <<exists, rules>>
          /\ ~StartFails => pc = "stop"
      BY <1>7 DEF StartFails, Stopped, At, f2b_backend_destroy, firewall
    <2>2. CommandsOK'
      BY <2>1 DEF CommandsOK
    <2>3. ASSUME NEW t \in Table \ miscounted' PROVE RuleOK(t)'
      <3> HIDE DEF S, mis
      <3>1. /\ miscounted' = IF loaded' = {} THEN {} ELSE mis
            /\ orphans'[t] = IF t \in S \cup (mis \ miscounted') THEN rules[t] ELSE orphans[t]
        BY <2>1 DEF Orphaned
      <3>2. loaded' = {} => Users(t)' = {}
        <4>1. loaded' = {} => Active' = {}
          BY <1>7, UnloadedUnused
        <4> QED
          BY <4>1, UsersChange
      <3>3. CASE t \in mis
        <4>1. loaded' = {}
          BY <2>3, <3>1, <3>3
        <4> QED
          BY <1>3, <2>1, <3>1, <3>2, <3>3, <4>1
      <3>4. CASE t \notin mis /\ t \in S
        <4>1. ~StartFails /\ t = Here /\ ~ok
          BY <3>4 DEF S, mis
        <4>2. Users(t) = {} /\ Keeps
          BY <1>7, <2>1, <4>1 DEF CommandsOK
        <4>3. Users(t)' = {}
          BY <4>2, UsersChange
        <4> QED
          BY <1>3, <2>1, <3>1, <3>4, <4>3
      <3>5. CASE t \notin mis /\ t \notin S
        <4>1. t \notin miscounted /\ ~AtCommands(t) /\ (StartFails => t # Here)
          BY <2>1, <3>5 DEF S, mis, AtCommands
        <4>2. RuleOK(t)
          BY <1>1, <4>1
        <4>3. Users(t)' = Users(t)
          BY <1>7, <4>1, UsersChange
        <4>4. orphans'[t] = orphans[t]
          BY <3>1, <3>5
        <4> QED
          BY <1>2, <2>1, <4>2, <4>3, <4>4
      <3> QED
        BY <3>3, <3>4, <3>5
    <2> QED
      BY <2>2, <2>3, RulesByTableNext
  <1>8. CASE /\ Keeps /\ UNCHANGED <<backend, exists, rules, miscounted, orphans>>
             /\ pc' \in {"start", "stop"} => pc' = pc /\ turn' = turn
             /\ pc = "start" => pc' = "start" \/ (todo = <<>> /\ ok)
             /\ pc = "stop" => pc' = "stop"
    <2>1. \A t \in Table : Users(t)' = Users(t)
      BY <1>8, UsersChange
    <2>2. pc' \in {"start", "stop"} => pc' = pc /\ Here' = Here /\ cur' = cur /\ Here \in Table
          /\ Users(Here)' = Users(Here)
      <3>1. pc' \in {"start", "stop"} => pc' = pc /\ Here' = Here /\ cur' = cur /\ Here \in Table
        BY <1>0, <1>8 DEF Here, cur
      <3> QED
        BY <2>1, <3>1 DEF Users
    <2>3. CommandsOK'
      BY <1>8, <2>2 DEF CommandsOK, backend
    <2>4. ASSUME NEW t \in Table \ miscounted PROVE AtCommands(t)' \/ RuleOK(t)'
      <3>1. CASE AtCommands(t)
        <4>1. pc' = pc /\ t = Here' /\ todo' = todo /\ ok' = ok
          BY <1>8, <2>2, <3>1 DEF AtCommands, backend
        <4> QED
          BY <3>1, <4>1 DEF AtCommands
      <3>2. CASE ~AtCommands(t)
        BY <1>1, <1>2, <1>8, <2>1, <3>2
      <3> QED
        BY <3>1, <3>2
    <2> QED
      BY <1>8, <2>3, <2>4, RulesByTableNext
  <1> QED
    BY <1>4, <1>5, <1>6, <1>7, <1>8, ExecCommands, StepKinds

---------------------------------------------------------------------------
(* Bans and the firewall. *)

Blocked(j, a) == a \in members[TableOf[j]] \/ <<TableOf[j], a>> \in exposed
Known(t, a) == Holds(held, t, a) \/ <<t, a>> \in stray
ToRestore(j, a) == pc = "restore" /\ j = cur /\ a \in left

LEMMA FirewallParts ==
    FirewallAgrees <=>
        /\ \A j \in Jail : \A a \in held[j] : Blocked(j, a) \/ ToRestore(j, a)
        /\ \A t \in Table : \A a \in members[t] : Known(t, a)
  BY DEF FirewallAgrees, Blocked, Known, ToRestore

LEMMA FirewallPartsNext ==
    FirewallAgrees' <=>
        /\ \A j \in Jail : \A a \in held'[j] : Blocked(j, a)' \/ ToRestore(j, a)'
        /\ \A t \in Table : \A a \in members'[t] : Known(t, a)'
  BY DEF FirewallAgrees, Blocked, Known, ToRestore, Holds

(* A ban leaves the other bans as they are. *)
LEMMA BanAgrees ==
    ASSUME LifecycleInv, FirewallAgrees, turn # <<>>, NEW a \in Addr, Ban(a),
           held' \in [Jail -> SUBSET Addr], a \in held'[cur], UNCHANGED <<turn, pc>>,
           pc = "restore" => left \ {a} \subseteq left',
           \A j \in Jail : held[j] \subseteq held'[j]
                           /\ held'[j] \subseteq held[j] \cup (IF j = cur THEN {a} ELSE {})
    PROVE  FirewallAgrees'
  <1>0. /\ cur \in Jail /\ Here \in Table /\ cur' = cur /\ members \in [Table -> SUBSET Addr]
        /\ TableOf \in [Jail -> Table]
    BY AtWork, LifecycleAssumption DEF LifecycleInv, BackendOK, cur
  <1>1. /\ \A t \in Table : t # Here => members'[t] = members[t]
        /\ members[Here] \subseteq members'[Here] /\ members'[Here] \subseteq members[Here] \cup {a}
        /\ exposed' = IF a \in members'[Here] THEN exposed \ {<<Here, a>>}
                      ELSE exposed \cup {<<Here, a>>}
        /\ stray' = stray \ {<<Here, a>>}
    BY <1>0 DEF Ban, ban, firewall
  <1>2. ASSUME NEW j \in Jail, NEW b \in held'[j]
        PROVE  Blocked(j, b)' \/ ToRestore(j, b)'
    <2>1. CASE TableOf[j] = Here /\ b = a
      BY <1>1, <2>1 DEF Blocked
    <2>2. CASE ~(TableOf[j] = Here /\ b = a)
      <3>1. TableOf[j] \in Table
        BY <1>0
      <3>2. b \in held[j] /\ (j = cur => b # a)
        BY <1>0, <2>2 DEF Here
      <3>3. CASE Blocked(j, b)
        <4>1. b \in members[TableOf[j]] => b \in members'[TableOf[j]]
          BY <1>1, <3>1
        <4>2. <<TableOf[j], b>> \in exposed => <<TableOf[j], b>> \in exposed'
          BY <1>1, <2>2
        <4> QED
          BY <3>3, <4>1, <4>2 DEF Blocked
      <3>4. CASE ToRestore(j, b)
        <4>1. j = cur' /\ b \in left' /\ pc' = "restore"
          BY <1>0, <3>2, <3>4 DEF ToRestore
        <4> QED
          BY <4>1 DEF ToRestore
      <3> QED
        BY <3>2, <3>3, <3>4, FirewallParts
    <2> QED
      BY <2>1, <2>2
  <1>3. ASSUME NEW t \in Table, NEW b \in members'[t]
        PROVE  Known(t, b)'
    <2>1. CASE t = Here /\ b = a
      <3>1. TableOf[cur] = t /\ b \in held'[cur]
        BY <2>1 DEF Here
      <3> QED
        BY <1>0, <3>1 DEF Known, Holds
    <2>2. CASE ~(t = Here /\ b = a)
      <3>1. b \in members[t]
        BY <1>1, <2>2
      <3>2. Known(t, b)
        BY <3>1, FirewallParts
      <3>3. <<t, b>> \in stray => <<t, b>> \in stray'
        BY <1>1, <2>2
      <3>4. Holds(held, t, b) => Holds(held', t, b)
        BY DEF Holds
      <3> QED
        BY <3>2, <3>3, <3>4 DEF Known, Holds
    <2> QED
      BY <2>1, <2>2
  <1> QED
    BY <1>2, <1>3, FirewallPartsNext

(* A release takes away the entry that other jails on the table rely on, if *)
(* there are any, which the history tells.                                  *)
LEMMA UnbanAgrees ==
    ASSUME LifecycleInv, FirewallAgrees, turn # <<>>, NEW a \in Addr, f2b_jail_unban(a),
           pc # "restore"
    PROVE  /\ FirewallAgrees' /\ held' \in [Jail -> SUBSET Addr]
           /\ \A j \in Jail : held'[j] = IF j = cur THEN held[j] \ {a} ELSE held[j]
  <1>0. /\ cur \in Jail /\ Here \in Table /\ members \in [Table -> SUBSET Addr]
        /\ TableOf \in [Jail -> Table] /\ held \in [Jail -> SUBSET Addr]
    BY AtWork, LifecycleAssumption DEF LifecycleInv, BackendOK, BansOK
  <1>1. /\ \A t \in Table : t # Here => members'[t] = members[t]
        /\ members[Here] \ {a} \subseteq members'[Here] /\ members'[Here] \subseteq members[Here]
    BY <1>0 DEF f2b_jail_unban, unban, firewall
  <1>2. /\ held' = [held EXCEPT ![cur] = @ \ {a}]
        /\ stray' = IF a \in members'[Here] /\ ~Holds(held', Here, a)
                    THEN stray \cup {<<Here, a>>} ELSE stray \ {<<Here, a>>}
        /\ exposed' = IF a \notin members'[Here] /\ Holds(held', Here, a)
                      THEN exposed \cup {<<Here, a>>} ELSE exposed \ {<<Here, a>>}
    BY DEF f2b_jail_unban
  <1>3. /\ held' \in [Jail -> SUBSET Addr]
        /\ \A j \in Jail : held'[j] = IF j = cur THEN held[j] \ {a} ELSE held[j]
    BY <1>0, <1>2
  <1>4. ASSUME NEW j \in Jail, NEW b \in held'[j]
        PROVE  Blocked(j, b)'
    <2>1. CASE TableOf[j] = Here /\ b = a
      <3>1. Holds(held', Here, a)
        BY <1>4, <2>1 DEF Holds
      <3> QED
        BY <1>2, <2>1, <3>1 DEF Blocked
    <2>2. CASE ~(TableOf[j] = Here /\ b = a)
      <3>1. TableOf[j] \in Table
        BY <1>0
      <3>2. Blocked(j, b)
        <4>1. b \in held[j]
          BY <1>3, <1>4
        <4> QED
          BY <4>1, FirewallParts DEF ToRestore
      <3>3. b \in members[TableOf[j]] => b \in members'[TableOf[j]]
        BY <1>1, <2>2, <3>1
      <3>4. <<TableOf[j], b>> \in exposed => <<TableOf[j], b>> \in exposed'
        BY <1>2, <2>2
      <3> QED
        BY <3>2, <3>3, <3>4 DEF Blocked
    <2> QED
      BY <2>1, <2>2
  <1>5. ASSUME NEW t \in Table, NEW b \in members'[t]
        PROVE  Known(t, b)'
    <2>1. CASE t = Here /\ b = a
      BY <1>2, <1>5, <2>1 DEF Known, Holds
    <2>2. CASE ~(t = Here /\ b = a)
      <3>1. b \in members[t]
        BY <1>1, <1>5
      <3>2. Known(t, b)
        BY <3>1, FirewallParts
      <3>3. <<t, b>> \in stray => <<t, b>> \in stray'
        BY <1>2, <2>2
      <3>4. Holds(held, t, b) => Holds(held', t, b)
        <4>1. ASSUME NEW j \in Jail, TableOf[j] = t, b \in held[j] PROVE b \in held'[j]
          BY <1>3, <2>2, <4>1 DEF Here
        <4> QED
          BY <4>1 DEF Holds
      <3> QED
        BY <3>2, <3>3, <3>4 DEF Known, Holds
    <2> QED
      BY <2>1, <2>2
  <1> QED
    BY <1>3, <1>4, <1>5, FirewallPartsNext

(* Nothing about bans and the firewall changes. *)
LEMMA BansIdle ==
    ASSUME FirewallAgrees, UNCHANGED <<held, members, exposed, stray>>,
           pc = "restore" => (left \subseteq left' /\ pc' = pc /\ turn' = turn) \/ left = {}
    PROVE  FirewallAgrees'
  <1>1. ASSUME NEW j \in Jail, NEW a \in held'[j]
        PROVE  Blocked(j, a)' \/ ToRestore(j, a)'
    <2>1. Blocked(j, a) \/ ToRestore(j, a)
      BY <1>1, FirewallParts
    <2>2. Blocked(j, a) => Blocked(j, a)'
      BY DEF Blocked
    <2>3. ToRestore(j, a) => ToRestore(j, a)'
      BY DEF ToRestore, cur
    <2> QED
      BY <2>1, <2>2, <2>3
  <1>2. ASSUME NEW t \in Table, NEW a \in members'[t]
        PROVE  Known(t, a)'
    BY <1>2, FirewallParts DEF Known, Holds
  <1> QED
    BY <1>1, <1>2, FirewallPartsNext

LEMMA FirewallStart ==
    ASSUME LifecycleInv, OrderOK, HeldOK, FirewallAgrees,
           \/ InitFails \/ f2b_jail_init \/ StartFails \/ f2b_jail_start
           \/ (\E a \in Addr : Restore(a)) \/ Started \/ AllStarted
    PROVE  HeldOK' /\ FirewallAgrees'
  <1>0. /\ held \in [Jail -> SUBSET Addr] /\ file \in [Jail -> SUBSET Addr] /\ left \subseteq Addr
        /\ turn = <<>> => pc = "next"
    BY DEF LifecycleInv, BansOK, TurnOK
  <1>1. CASE InitFails \/ f2b_jail_init \/ StartFails \/ AllStarted
    <2>1. /\ UNCHANGED <<jails, held, members, exposed, stray>>
          /\ pc \notin {"restore", "unban"} /\ pc' \notin {"restore", "unban"}
      BY <1>0, <1>1 DEF InitFails, f2b_jail_init, StartFails, AllStarted, At, bans, firewall, history
    <2>2. HeldOK'
      BY <2>1 DEF HeldOK, Running
    <2> QED
      BY <2>1, <2>2, BansIdle
  <1>2. CASE f2b_jail_start
    <2>1. /\ turn # <<>> /\ phase \in Starting /\ pc = "start" /\ pc' = "restore"
          /\ UNCHANGED <<turn, jails, members, exposed, stray>>
      BY <1>2 DEF f2b_jail_start, At, firewall, history
    <2>2. PICK over \in SUBSET file[cur] :
             held' = [held EXCEPT ![cur] = file[cur] \ over] /\ left' = file[cur] \ over
      BY <1>2 DEF f2b_jail_start
    <2>3. cur \in Jail /\ cur \notin Running /\ cur' = cur
      BY <2>1, CurrentApart DEF cur
    <2>4. held'[cur] = left' /\ \A j \in Jail : j # cur => held'[j] = held[j]
      BY <1>0, <2>2, <2>3
    <2>5. held[cur] = {}
      BY <2>1, <2>3 DEF HeldOK
    <2>6. HeldOK'
      BY <2>1, <2>3, <2>4 DEF HeldOK, Running
    <2>7. ASSUME NEW j \in Jail, NEW b \in held'[j] PROVE Blocked(j, b)' \/ ToRestore(j, b)'
      <3>1. CASE j = cur
        BY <2>1, <2>3, <2>4, <2>7, <3>1 DEF ToRestore
      <3>2. CASE j # cur
        <4>1. Blocked(j, b)
          BY <2>1, <2>4, <2>7, <3>2, FirewallParts DEF ToRestore
        <4> QED
          BY <2>1, <4>1 DEF Blocked
      <3> QED
        BY <3>1, <3>2
    <2>8. ASSUME NEW t \in Table, NEW b \in members'[t] PROVE Known(t, b)'
      <3>1. Known(t, b)
        BY <2>1, <2>8, FirewallParts
      <3>2. Holds(held, t, b) => Holds(held', t, b)
        BY <2>4, <2>5 DEF Holds
      <3> QED
        BY <2>1, <3>1, <3>2 DEF Known, Holds
    <2> QED
      BY <2>6, <2>7, <2>8, FirewallPartsNext
  <1>3. ASSUME NEW a \in Addr, Restore(a) PROVE HeldOK' /\ FirewallAgrees'
    <2>1. /\ turn # <<>> /\ pc = "restore" /\ a \in left /\ left' = left \ {a} /\ Ban(a)
          /\ UNCHANGED <<turn, pc, jails, held>>
      BY <1>3 DEF Restore, At, control
    <2>2. HeldOK' /\ a \in held'[cur]
      BY <2>1 DEF HeldOK, Running, cur
    <2>3. FirewallAgrees'
      BY <1>0, <2>1, <2>2, BanAgrees
    <2> QED
      BY <2>2, <2>3
  <1>4. CASE Started
    <2>1. /\ turn # <<>> /\ phase \in Starting /\ pc = "restore" /\ left = {} /\ pc' = "next"
          /\ jails' = <<cur>> \o jails /\ UNCHANGED <<held, members, exposed, stray>>
      BY <1>4 DEF Started, At, bans, firewall, history
    <2>2. cur \in Jail /\ cur \notin Running
      BY <2>1, CurrentApart
    <2>3. Running' = {cur} \cup Running
      BY <2>1, <2>2, ListHead DEF LifecycleInv, ControlOK, OrderOK, Running
    <2>4. HeldOK'
      BY <2>1, <2>3 DEF HeldOK
    <2> QED
      BY <2>1, <2>4, BansIdle
  <1> QED
    BY <1>1, <1>2, <1>3, <1>4

LEMMA FirewallRest ==
    ASSUME LifecycleInv, OrderOK, CommandsOK, HeldOK, FirewallAgrees,
           \/ Cycle \/ NextLine \/ PollEnd \/ (\E a \in Addr : Release(a)) \/ Save
           \/ Ask \/ \E p \in Port : SomebodyKnocks(p)
           \/ Exec \/ f2b_jail_stop \/ (\E a \in Addr : Unblock(a)) \/ StopBackend \/ Stopped
           \/ Reload \/ Exit \/ Crash \/ Boot \/ UNCHANGED vars
    PROVE  HeldOK' /\ FirewallAgrees'
  <1>0. /\ held \in [Jail -> SUBSET Addr] /\ members \in [Table -> SUBSET Addr] /\ TurnOK
        /\ (turn # <<>> => cur \in Jail /\ Here \in Table)
    BY AtWork DEF LifecycleInv, BackendOK, BansOK
  <1>1. CASE Cycle \/ PollEnd \/ Save \/ Reload \/ Exit \/ Boot
    <2>1. /\ UNCHANGED <<jails, held, members, exposed, stray>>
          /\ {pc, pc'} \subseteq {"next", "sweep"}
      BY <1>0, <1>1 DEF Cycle, PollEnd, Save, At, Reload, Exit, Boot, bans, firewall, history, TurnOK
    <2>2. HeldOK'
      BY <2>1 DEF HeldOK, Running
    <2> QED
      BY <2>1, <2>2, BansIdle
  <1>2. CASE Ask \/ (\E p \in Port : SomebodyKnocks(p)) \/ UNCHANGED vars
    <2>1. UNCHANGED <<turn, pc, jails, held, left, members, exposed, stray>>
      BY <1>2 DEF Ask, SomebodyKnocks, vars, control, bans, firewall, history
    <2>2. HeldOK'
      BY <2>1 DEF HeldOK, Running, cur
    <2> QED
      BY <2>1, <2>2, BansIdle
  <1>3. CASE NextLine
    <2>1. turn # <<>> /\ phase = "run" /\ pc = "next" /\ UNCHANGED <<turn, pc, jails>>
      BY <1>3 DEF NextLine, At, control
    <2>2. cur \in Running
      <3>1. turn \in Seq(Jail) /\ IsInjective(turn)
        BY DEF LifecycleInv, ControlOK, OrderOK
      <3>2. ToSet(turn) = {Head(turn)} \cup ToSet(Tail(turn))
        BY <2>1, <3>1, ListTail
      <3> QED
        BY <2>1, <3>2 DEF OrderOK, cur
    <2>3. CASE UNCHANGED <<bans, firewall, faults, exposed, stray>>
      <3>1. HeldOK'
        BY <2>1, <2>3 DEF HeldOK, Running, bans
      <3> QED
        BY <2>1, <2>3, <3>1, BansIdle DEF bans, firewall
    <2>4. ASSUME NEW a \in Addr \ held[cur],
                 held' = [held EXCEPT ![cur] = @ \cup {a}], Ban(a)
          PROVE  HeldOK' /\ FirewallAgrees'
      <3>1. /\ held' \in [Jail -> SUBSET Addr] /\ a \in held'[cur]
            /\ \A j \in Jail : held'[j] = IF j = cur THEN held[j] \cup {a} ELSE held[j]
        BY <1>0, <2>1, <2>4
      <3>2. HeldOK'
        BY <2>1, <2>2, <3>1 DEF HeldOK, Running
      <3>3. FirewallAgrees'
        BY <2>1, <2>4, <3>1, BanAgrees
      <3> QED
        BY <3>2, <3>3
    <2> QED
      BY <1>3, <2>3, <2>4 DEF NextLine
  <1>4. ASSUME NEW a \in Addr, Release(a)
        PROVE  HeldOK' /\ FirewallAgrees'
    <2>1. /\ turn # <<>> /\ pc = "sweep" /\ UNCHANGED <<turn, pc, jails>>
          /\ a \in held[cur] /\ f2b_jail_unban(a)
      BY <1>4 DEF Release, At, control
    <2>2. /\ FirewallAgrees'
          /\ \A j \in Jail : held'[j] = IF j = cur THEN held[j] \ {a} ELSE held[j]
      BY <2>1, UnbanAgrees
    <2>3. HeldOK'
      BY <2>1, <2>2 DEF HeldOK, Running
    <2> QED
      BY <2>2, <2>3
  <1>5. CASE Exec
    <2>1. /\ turn # <<>> /\ todo # <<>> /\ pc \in {"start", "stop"} /\ cmd_list_exec(Here)
          /\ UNCHANGED <<turn, pc, jails, held, exposed, stray>>
      BY <1>5 DEF Exec, At, control, bans, history, cmd_list_exec
    <2>2. HeldOK'
      BY <2>1 DEF HeldOK, Running
    <2>3. CASE UNCHANGED members
      BY <2>1, <2>3, <2>2, BansIdle
    <2>4. CASE ~UNCHANGED members
      <3> DEFINE c == Head(todo)
      <3>1. Effect(c, Here) \/ UNCHANGED firewall
        BY <2>1 DEF cmd_list_exec
      <3> HIDE DEF c
      <3>2. c = "destroy" /\ members' = [members EXCEPT ![Here] = {}]
        BY <2>4, <3>1 DEF Effect, firewall
      <3>3. pc = "stop"
        BY <2>1, <3>2 DEF CommandsOK, c
      <3>4. Users(Here) = {}
        BY <2>1, <3>3 DEF CommandsOK
      <3>5. ASSUME NEW j \in Jail, NEW b \in held'[j] PROVE Blocked(j, b)'
        <4>1. j \in Running
          BY <2>1, <3>3, <3>5 DEF HeldOK
        <4>2. TableOf[j] # Here
          BY <3>4, <4>1 DEF Users
        <4>3. Blocked(j, b)
          BY <2>1, <3>3, <3>5, FirewallParts DEF ToRestore
        <4>4. members'[TableOf[j]] = members[TableOf[j]]
          BY <1>0, <3>2, <4>2, LifecycleAssumption
        <4> QED
          BY <2>1, <4>3, <4>4 DEF Blocked
      <3>6. ASSUME NEW t \in Table, NEW b \in members'[t] PROVE Known(t, b)'
        <4>1. b \in members[t]
          BY <1>0, <3>2, <3>6
        <4>2. Known(t, b)
          BY <4>1, FirewallParts
        <4> QED
          BY <2>1, <4>2 DEF Known, Holds
      <3> QED
        BY <2>2, <3>5, <3>6, FirewallPartsNext
    <2> QED
      BY <2>3, <2>4
  <1>6. CASE f2b_jail_stop
    <2>1. /\ turn # <<>> /\ pc = "next" /\ jails = turn /\ jails' = Tail(jails) /\ pc' = "unban"
          /\ left' = held[cur] /\ UNCHANGED <<turn, held, members, exposed, stray>>
      BY <1>0, <1>6 DEF f2b_jail_stop, At, TurnOK, firewall, history
    <2>2. Running = {cur} \cup Running'
      <3>1. jails \in Seq(Jail) /\ IsInjective(jails)
        BY DEF LifecycleInv, ControlOK, OrderOK
      <3> QED
        BY <2>1, <3>1, ListTail DEF Running, cur
    <2>3. HeldOK'
      BY <2>1, <2>2 DEF HeldOK, cur
    <2> QED
      BY <2>1, <2>3, BansIdle
  <1>7. ASSUME NEW a \in Addr, Unblock(a) PROVE HeldOK' /\ FirewallAgrees'
    <2>1. /\ turn # <<>> /\ pc = "unban" /\ left' = left \ {a} /\ f2b_jail_unban(a)
          /\ UNCHANGED <<turn, pc, jails>>
      BY <1>7 DEF Unblock, At, control
    <2>2. /\ FirewallAgrees'
          /\ \A j \in Jail : held'[j] = IF j = cur THEN held[j] \ {a} ELSE held[j]
      BY <2>1, UnbanAgrees
    <2>3. HeldOK'
      BY <1>0, <2>1, <2>2 DEF HeldOK, Running, cur
    <2> QED
      BY <2>2, <2>3
  <1>8. CASE StopBackend \/ Stopped
    <2>1. /\ UNCHANGED <<jails, held, members, exposed, stray>> /\ pc' \in {"stop", "next"}
          /\ pc = "stop" \/ (pc = "unban" /\ left = {})
      BY <1>8 DEF StopBackend, Stopped, At, bans, firewall, history
    <2>2. HeldOK'
      BY <2>1 DEF HeldOK, Running
    <2>3. FirewallAgrees'
      BY <2>1, BansIdle
    <2> QED
      BY <2>2, <2>3
  <1>9. CASE Crash
    <2>1. /\ held' = [j \in Jail |-> {}] /\ pc' = "next" /\ members' = members
          /\ stray' = {e \in Table \X Addr : e[2] \in members[e[1]]}
      BY <1>9 DEF Crash, firewall
    <2>2. HeldOK'
      BY <2>1 DEF HeldOK
    <2>3. \A t \in Table : \A b \in members'[t] : Known(t, b)'
      BY <1>0, <2>1 DEF Known
    <2> QED
      BY <2>1, <2>2, <2>3, FirewallPartsNext
  <1> QED
    BY <1>1, <1>2, <1>3, <1>4, <1>5, <1>6, <1>7, <1>8, <1>9

---------------------------------------------------------------------------
(* Ports. *)

(* PortsHeard in these terms. *)
LEMMA PortsExpected ==
    PortsHeard <=> \A p \in Port :
        /\ \A j \in Running : Expects(j, p) => listener[p] # "free"
        /\ listener[p] = "leaked" => p \in lost
        /\ listener[p] \in Jail => listener[p] \in Running \cup Busy
  BY DEF PortsHeard, Expects

LEMMA PortsExpectedNext ==
    PortsHeard' <=> \A p \in Port :
        /\ \A j \in Running' : Expects(j, p)' => listener'[p] # "free"
        /\ listener'[p] = "leaked" => p \in lost'
        /\ listener'[p] \in Jail => listener'[p] \in Running' \cup Busy'
  BY DEF PortsHeard, Expects

LEMMA PortsInit == Init => PortsOK /\ PortsHeard
  BY LifecycleAssumption DEF Init, SourceInit, PortsOK, PortsHeard, Running, ToSet

(* A port that a jail lists stays open as long as one that listed it before *)
(* runs.                                                                    *)
LEMMA PortsStep ==
    ASSUME LifecycleInv, OrderOK, PortsOK, PortsHeard, [Next]_vars
    PROVE  PortsOK' /\ PortsHeard'
  <1>0. /\ TurnOK /\ listener \in [Port -> Jail \cup {"free", "leaked"}]
        /\ "free" \notin Jail /\ "leaked" \notin Jail /\ "free" # "leaked"
        /\ jails \in Seq(Jail) /\ IsInjective(jails)
        /\ (turn # <<>> => cur \in Jail)
        /\ \A p \in Port : listener[p] \in Jail \cup {"free", "leaked"}
    BY LifecycleAssumption, AtWork DEF LifecycleInv, SourceOK, ControlOK, OrderOK
  <1>1. CASE f2b_jail_init
    <2>1. /\ turn # <<>> /\ phase \in Starting /\ pc = "next" /\ pc' = "start"
          /\ UNCHANGED <<turn, jails, lost>> /\ SourceStart(cur, ToSet(PortsOf[cur]))
      BY <1>1 DEF f2b_jail_init, At, history
    <2>2. cur \in Jail /\ cur \notin Running /\ cur' = cur
      BY <2>1, CurrentApart DEF cur
    <2>3. \A p \in Port : listener[p] # cur
      BY <2>1, <2>2 DEF PortsHeard, Busy
    <2>4. \A i \in DOMAIN jails : jails[i] \in Running
      BY DEF Running, ToSet
    <2>5. PICK opened \in SUBSET {p \in ToSet(PortsOf[cur]) : listener[p] = "free"} :
            /\ listener' = [p \in Port |-> IF p \in opened THEN cur ELSE listener[p]]
            /\ refused' = refused \cup
                   ({cur} \X ({p \in ToSet(PortsOf[cur]) : listener[p] = "free"} \ opened))
      BY <2>1 DEF SourceStart
    <2> SUFFICES ASSUME NEW p \in Port
                 PROVE  /\ \A i, k \in DOMAIN jails :
                              i < k /\ Expects(jails[k], p)' => listener'[p] # jails[i]
                        /\ Expects(cur, p)' => listener'[p] # "free"
                        /\ listener'[p] = cur => \A j \in Running : ~Expects(j, p)'
                        /\ \A j \in Running : Expects(j, p)' => listener'[p] # "free"
                        /\ listener'[p] = "leaked" => p \in lost
                        /\ listener'[p] \in Jail => listener'[p] \in Running \cup {cur}
      BY <2>1, <2>2, PortsExpectedNext DEF PortsOK, Running, Busy, Expects
    <2>6. \A j \in Running : Expects(j, p)' <=> Expects(j, p)
      BY <2>2, <2>5 DEF Expects
    <2>7. Expects(cur, p)' => p \in opened \/ listener[p] # "free"
      BY <2>2, <2>5 DEF Expects
    <2>8. \A j \in Running : Expects(j, p) => listener[p] # "free"
      BY PortsExpected
    <2>9. CASE p \in opened
      <3>1. listener'[p] = cur /\ listener[p] = "free"
        BY <2>5, <2>9
      <3> QED
        BY <1>0, <2>2, <2>4, <2>6, <2>8, <3>1
    <2>10. CASE p \notin opened
      <3>1. listener'[p] = listener[p]
        BY <2>5, <2>10
      <3>2. \A i, k \in DOMAIN jails : i < k /\ Expects(jails[k], p)' => listener'[p] # jails[i]
        BY <2>1, <2>4, <2>6, <3>1 DEF PortsOK, Expects
      <3>3. /\ listener[p] = "leaked" => p \in lost
            /\ listener[p] \in Jail => listener[p] \in Running
        BY <2>1 DEF PortsHeard, Busy
      <3> QED
        BY <2>3, <2>6, <2>7, <2>8, <2>10, <3>1, <3>2, <3>3
    <2> QED
      BY <2>9, <2>10
  <1>2. CASE StartFails
    <2>1. /\ turn # <<>> /\ phase \in Starting /\ pc = "start" /\ pc' = "next" /\ UNCHANGED jails
          /\ listener' = [p \in Port |-> IF listener[p] = cur THEN "leaked" ELSE listener[p]]
          /\ refused' = {e \in refused : e[1] \notin {cur}}
          /\ lost' = lost \cup {p \in Port : listener[p] = cur}
      BY <1>2 DEF StartFails, At, SourceDestroy, Forgiven
    <2>2. \A i \in DOMAIN jails : jails[i] \in Jail
      BY <1>0
    <2> SUFFICES ASSUME NEW p \in Port
                 PROVE  /\ \A i, k \in DOMAIN jails :
                              i < k /\ Expects(jails[k], p) => listener'[p] # jails[i]
                        /\ \A j \in Running : Expects(j, p) => listener'[p] # "free"
                        /\ listener'[p] = "leaked" => p \in lost'
                        /\ listener'[p] \in Jail => listener'[p] \in Running
      <3>1. cur \notin Running /\ \A i \in DOMAIN jails : jails[i] \in Running
        BY <2>1, CurrentApart DEF Running, ToSet
      <3>2. \A j \in Running, p \in Port : Expects(j, p)' <=> Expects(j, p)
        BY <2>1, <3>1 DEF Expects
      <3>3. Running' = Running /\ Busy' = {}
        BY <2>1 DEF Running, Busy
      <3> QED
        BY <2>1, <3>1, <3>2, <3>3, PortsExpectedNext DEF PortsOK
    <2>3. CASE listener[p] = cur
      BY <1>0, <2>1, <2>2, <2>3
    <2>4. CASE listener[p] # cur
      BY <1>0, <2>1, <2>4, PortsExpected DEF PortsOK, Busy
    <2> QED
      BY <2>3, <2>4
  <1>3. CASE Started
    <2>1. /\ turn # <<>> /\ phase \in Starting /\ pc = "restore" /\ pc' = "next"
          /\ jails' = <<cur>> \o jails /\ UNCHANGED <<listener, refused, lost>>
      BY <1>3 DEF Started, At, source, history
    <2>2. cur \in Jail /\ cur \notin Running
      BY <2>1, CurrentApart
    <2>3. /\ Running' = {cur} \cup Running /\ jails'[1] = cur /\ DOMAIN jails' = 1 .. Len(jails) + 1
          /\ DOMAIN jails = 1 .. Len(jails) /\ Len(jails) \in Nat
          /\ \A i \in DOMAIN jails' : i # 1 => i - 1 \in DOMAIN jails /\ jails'[i] = jails[i - 1]
      BY <1>0, <2>1, <2>2, ListHead DEF Running
    <2>4. ASSUME NEW p \in Port, NEW i \in DOMAIN jails', NEW k \in DOMAIN jails',
                 i < k, Expects(jails'[k], p)
          PROVE  listener[p] # jails'[i]
      <3>1. k # 1 /\ k - 1 \in DOMAIN jails /\ jails'[k] = jails[k - 1]
        BY <2>3, <2>4
      <3>2. CASE i = 1
        <4>1. jails[k - 1] \in Running
          BY <3>1 DEF Running, ToSet
        <4> QED
          BY <2>1, <2>3, <2>4, <3>1, <3>2, <4>1 DEF PortsOK
      <3>3. CASE i # 1
        <4>1. i - 1 \in DOMAIN jails /\ jails'[i] = jails[i - 1] /\ i - 1 < k - 1
          BY <2>3, <2>4, <3>3
        <4> QED
          BY <2>4, <3>1, <4>1 DEF PortsOK
      <3> QED
        BY <3>2, <3>3
    <2>5. PortsOK'
      BY <2>1, <2>4 DEF PortsOK, Expects
    <2>6. PortsHeard'
      BY <2>1, <2>3, PortsExpected DEF PortsOK, PortsHeard, Busy, Expects
    <2> QED
      BY <2>5, <2>6
  <1>4. CASE f2b_jail_stop
    <2>1. /\ turn # <<>> /\ pc = "next" /\ jails = turn /\ jails' = Tail(jails) /\ pc' = "unban"
          /\ UNCHANGED <<turn, lost>>
          /\ listener' = [p \in Port |-> IF listener[p] \in {cur} THEN "free" ELSE listener[p]]
          /\ refused' = {e \in refused : e[1] \notin {cur}}
      BY <1>0, <1>4 DEF f2b_jail_stop, At, TurnOK, SourceStop, Closed, Forgiven, history
    <2>2. /\ Running = {cur} \cup Running' /\ cur \notin Running' /\ jails[1] = cur
          /\ DOMAIN jails = 1 .. Len(jails) /\ Len(jails) \in Nat /\ 1 \in DOMAIN jails
          /\ DOMAIN jails' = 1 .. Len(jails) - 1
          /\ \A i \in DOMAIN jails' : i + 1 \in DOMAIN jails /\ jails'[i] = jails[i + 1]
      <3>1. cur = Head(jails)
        BY <2>1 DEF cur
      <3> QED
        BY <1>0, <2>1, <3>1, ListTail DEF Running
    <2>3. cur' = cur /\ cur \in Jail
      BY <1>0, <2>1 DEF cur
    <2>4. \A i \in DOMAIN jails' : jails'[i] # cur /\ jails'[i] \in Jail
      <3>1. \A i \in DOMAIN jails' : jails'[i] \in Running'
        BY DEF Running, ToSet
      <3> QED
        BY <1>0, <2>2, <3>1
    <2>5. ASSUME NEW p \in Port, NEW i \in DOMAIN jails', NEW k \in DOMAIN jails',
                 i < k, Expects(jails'[k], p)
          PROVE  listener'[p] # jails'[i]
      <3>1. /\ i + 1 \in DOMAIN jails /\ k + 1 \in DOMAIN jails /\ i + 1 < k + 1
            /\ jails'[i] = jails[i + 1] /\ jails'[k] = jails[k + 1]
        BY <2>2, <2>5
      <3>2. listener[p] # jails'[i]
        BY <2>5, <3>1 DEF PortsOK
      <3> QED
        BY <1>0, <2>1, <2>4, <3>2
    <2>9. \A j, p : j # cur => (Expects(j, p)' <=> Expects(j, p))
      BY <2>1 DEF Expects
    <2>6. PortsOK'
      BY <1>0, <2>1, <2>3, <2>4, <2>5, <2>9 DEF PortsOK
    <2>7. ASSUME NEW p \in Port, NEW j \in Running', Expects(j, p)
          PROVE  listener[p] # "free" /\ listener[p] # cur
      <3>1. PICK i \in DOMAIN jails' : jails'[i] = j
        BY DEF Running, ToSet
      <3>2. i + 1 \in DOMAIN jails /\ jails[i + 1] = j /\ 1 < i + 1
        BY <2>2, <3>1
      <3>3. listener[p] # jails[1]
        BY <2>2, <2>7, <3>2 DEF PortsOK
      <3>4. j \in Running
        BY <2>2
      <3> QED
        BY <2>2, <2>7, <3>3, <3>4, PortsExpected
    <2>8. PortsHeard'
      <3>1. \A j \in Running' : j # cur
        BY <2>2
      <3>2. Busy' = {cur}
        BY <2>1, <2>3 DEF Busy
      <3> QED
        BY <1>0, <2>1, <2>2, <2>7, <2>9, <3>1, <3>2, PortsExpectedNext DEF PortsHeard, Busy
    <2> QED
      BY <2>6, <2>8
  <1>5. CASE StopBackend
    <2>1. turn # <<>> /\ pc = "unban" /\ pc' = "stop" /\ UNCHANGED <<turn, jails, listener, refused, lost>>
      BY <1>5 DEF StopBackend, At, source, history
    <2>2. PortsOK'
      BY <2>1 DEF PortsOK, Expects
    <2>3. PortsHeard'
      BY <2>1 DEF PortsOK, PortsHeard, Running, Busy
    <2> QED
      BY <2>2, <2>3
  <1>6. CASE Exit \/ Crash
    <2>1. pc' = "next" /\ jails' = <<>> /\ Closed(Jail \cup {"leaked"})
      BY <1>0, <1>6 DEF Exit, Crash, TurnOK
    <2>2. \A p \in Port : listener'[p] = "free"
      BY <1>0, <2>1 DEF Closed
    <2> QED
      BY <1>0, <2>1, <2>2, EmptyList DEF PortsOK, PortsHeard, Running
  <1>7. CASE f2b_jail_start
    <2>1. pc = "start" /\ pc' = "restore" /\ UNCHANGED <<turn, jails, listener, refused, lost>>
      BY <1>7 DEF f2b_jail_start, At, source, history
    <2> QED
      BY <2>1 DEF PortsOK, PortsHeard, Running, Busy, cur, Expects
  <1>8. CASE /\ UNCHANGED <<jails, listener, refused, lost>> /\ pc' \notin {"start", "restore", "unban"}
             /\ pc \notin {"start", "restore", "unban"}
    BY <1>8 DEF PortsOK, PortsHeard, Running, Busy, Expects
  <1>9. CASE UNCHANGED <<turn, pc, jails, listener, refused, lost>>
    BY <1>9 DEF PortsOK, PortsHeard, Running, Busy, cur, Expects
  <1>10. CASE InitFails \/ AllStarted \/ Cycle \/ PollEnd \/ Save \/ Stopped \/ Reload \/ Boot
    <2>1. UNCHANGED <<jails, listener, refused, lost>> /\ {pc, pc'} \subseteq {"next", "sweep", "stop"}
      BY <1>0, <1>10 DEF InitFails, AllStarted, Cycle, PollEnd, Save, Stopped, Reload, Boot, At,
                         source, history, TurnOK
    <2> QED
      BY <1>8, <2>1
  <1>11. CASE \/ (\E a \in Addr : Restore(a) \/ Release(a) \/ Unblock(a)) \/ Exec \/ Ask \/ NextLine
              \/ (\E p \in Port : SomebodyKnocks(p)) \/ UNCHANGED vars
    <2>1. UNCHANGED <<turn, pc, jails, listener, refused, lost>>
      BY <1>11 DEF Restore, Release, Unblock, Exec, Ask, NextLine, Accept, SomebodyKnocks, Knock, vars,
                   control, source, history
    <2> QED
      BY <1>9, <2>1
  <1> QED
    BY <1>1, <1>2, <1>3, <1>4, <1>5, <1>6, <1>7, <1>10, <1>11 DEF Next, Main

---------------------------------------------------------------------------
LEMMA SafetyInit == Init => SafetyInv
  <1> SUFFICES ASSUME Init PROVE SafetyInv
    OBVIOUS
  <1>1. OrderOK /\ PortsOK /\ PortsHeard
    BY OrderInit, PortsInit
  <1>2. \A t \in Table : usage[t] = 0 /\ Users(t) = {} /\ Cardinality(Users(t)) = 0
    <2>1. Active = {}
      BY EmptyList DEF Init, Active, Running, Busy
    <2> QED
      BY <2>1, NoUsers DEF Init, BackendInit
  <1>3. CountOK /\ UsageCountsUsers
    BY <1>2 DEF CountOK, UsageCountsUsers
  <1>4. CommandsOK
    BY DEF Init, BackendInit, CommandsOK
  <1>5. RulesPaired
    BY <1>2 DEF Init, BackendInit, RulesPaired
  <1>6. HeldOK /\ FirewallAgrees
    BY LifecycleAssumption DEF Init, BackendInit, HeldOK, FirewallAgrees
  <1> QED
    BY <1>1, <1>3, <1>4, <1>5, <1>6 DEF SafetyInv

LEMMA SafetyStep == LifecycleInv /\ SafetyInv /\ [Next]_vars => LifecycleInv' /\ SafetyInv'
  <1> SUFFICES ASSUME LifecycleInv, SafetyInv, [Next]_vars PROVE LifecycleInv' /\ SafetyInv'
    OBVIOUS
  <1>1. LifecycleInv'
    BY StartSteps, RunSteps, StopSteps, StutterInv DEF Next, Main
  <1>2. OrderOK' /\ CountOK' /\ UsageCountsUsers'
    BY OrderStep, CountStep DEF SafetyInv
  <1>3. CommandsOK' /\ RulesPaired'
    BY CommandsStep DEF SafetyInv
  <1>4. HeldOK' /\ FirewallAgrees'
    BY FirewallStart, FirewallRest DEF SafetyInv, Next, Main
  <1>5. PortsOK' /\ PortsHeard'
    BY PortsStep DEF SafetyInv
  <1> QED
    BY <1>1, <1>2, <1>3, <1>4, <1>5 DEF SafetyInv

(* The invariant below holds in every reachable state: lists, usage counts, *)
(* commands, bans and ports of the jails, through any mix of reloads,       *)
(* failed commands, crashes and restarts.                                   *)
THEOREM SafetyInvariance == Spec => [](LifecycleInv /\ SafetyInv)
  BY InitInv, SafetyInit, SafetyStep, PTL DEF Spec

(* The usage list of the backend library counts the jails on each table     *)
(* (usage_inc and usage_dec of src/backends/exec.c and the handles of       *)
(* src/backend.c), except for tables a start command has failed for.        *)
THEOREM UsersAreCounted == Spec => []UsageCountsUsers
  <1>1. SafetyInv => UsageCountsUsers
    BY DEF SafetyInv
  <1> QED
    BY <1>1, SafetyInvariance, PTL

(* The start and stop commands of a table come in pairs: a table in use has *)
(* exactly one rule that is not left over from a crash or a failed command, *)
(* and a set for it.                                                        *)
THEOREM RulesArePaired == Spec => []RulesPaired
  <1>1. SafetyInv => RulesPaired
    BY DEF SafetyInv
  <1> QED
    BY <1>1, SafetyInvariance, PTL

(* Every host a jail holds for banned is blocked and every blocked host is  *)
(* held by a jail on the table, with the exceptions the code makes: failed  *)
(* commands, crashes, and jails that share a table.                         *)
THEOREM FirewallAndJailsAgree == Spec => []FirewallAgrees
  <1>1. SafetyInv => FirewallAgrees
    BY DEF SafetyInv
  <1> QED
    BY <1>1, SafetyInvariance, PTL

(* The ports of a jail that runs are open, whichever jail opened them, but  *)
(* for those that could not be opened when it was started: the jails are    *)
(* stopped in the order opposite to that of their start, so that none loses *)
(* a port to the stop of another.                                           *)
THEOREM PortsAreHeard == Spec => []PortsHeard
  <1>1. SafetyInv => PortsHeard
    BY DEF SafetyInv
  <1> QED
    BY <1>1, SafetyInvariance, PTL
=============================================================================

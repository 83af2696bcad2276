---------------------------- MODULE ReloadProofs ----------------------------
(***************************************************************************)
(* What a reload leaves in use is what was read last: the jails of the     *)
(* daemon are those of its configuration (Daemon), the patterns of a filter*)
(* are those of its file (Filter), and the sections of a configuration are *)
(* what its files say line by line (Config), after any number of edits and *)
(* reloads. The three are proved one after the other, each with the        *)
(* invariant that carries the fact from one load to the next.              *)
(***************************************************************************)
EXTENDS Daemon, Filter, Config, SumProofs, SequenceTheorems

---------------------------------------------------------------------------
(* The daemon. *)

(* What the section sets has been set. *)
Obeys(jail, section) ==
    section.enabled \in {"unset", jail.enabled} /\ section.bantime \in {0, jail.bantime}

(* From the first load on there is a configuration, and the template has    *)
(* what its [defaults] sets while jails are started from it.                *)
Configured ==
    /\ pc = "boot" => Running = {} /\ failed = {}
    /\ pc \notin {"boot", "exited"} => config.version # 0
    /\ pc \in {"starting", "restarting"} => Obeys(defaults, config.content.defaults)

(* The jail j is as the configuration says, unless it waits for its start.  *)
AsSaid(j) ==
    LET said == Said(config.content, j)
    IN  /\ said.enabled = "yes" => j \in Running \cup failed \cup todo
        /\ said.enabled = "no" => j \notin Running \cup failed
        /\ j \in Running => /\ jails[j].version = config.version
                            /\ said.bantime \in {0, jails[j].bantime}

(* Every jail of the configuration is running, failed, disabled or still to *)
(* be started, and those that run were started from it.                     *)
Applied ==
    /\ Running \cup failed \cup todo \subseteq config.content.jails
    /\ Running \cap failed = {} /\ todo \cap (Running \cup failed) = {}
    /\ \A j \in config.content.jails : AsSaid(j)

(* It holds from the start of the jails until another configuration has     *)
(* been loaded: the whole turn of the main loop, with todo empty.           *)
Loop == {"check", "process", "poll", "rotate?", "rotate", "reconfig?", "reconfig", "load"}

DaemonInv ==
    /\ TypeOK /\ Configured
    /\ pc \in {"starting", "restarting"} \cup Loop => Applied
    /\ pc \in Loop => todo = {}

LEMMA InvInit == Init => DaemonInv
  <1> SUFFICES ASSUME Init PROVE DaemonInv
    OBVIOUS
  <1>1. TypeOK
    BY DaemonAssumption DEF Init, TypeOK, Off
  <1>2. Running = {}
    BY DEF Init, Running
  <1> QED
    BY <1>1, <1>2 DEF Init, DaemonInv, Configured, Loop

LEMMA AskedType ==
    ASSUME TypeOK, NEW s \in {"stop", "reconfig", "logrotate"}, Asked(s)
    PROVE  /\ state' = s
           /\ requests' \in 0 .. MaxRequests /\ asked' \subseteq {"stop", "reconfig", "logrotate"}
           /\ reloadAsked' \in 0 .. MaxEdits + 1
  BY DaemonAssumption DEF TypeOK, Asked

(* A content that could be loaded. *)
LEMMA ContentType ==
    ASSUME NEW c \in Contents
    PROVE  /\ c.readable \in BOOLEAN /\ c.jails \subseteq Jail
           /\ c.defaults \in Setting /\ \A j \in Jail : c.own[j] \in Setting
  BY DaemonAssumption

Template == [enabled : {"yes", "no"}, bantime : Nat \ {0}]

(* A section applied to a jail sets what it says and leaves nothing unset.  *)
LEMMA ApplyType ==
    ASSUME NEW jail \in Template, NEW s \in Setting
    PROVE  /\ f2b_jail_apply_config(jail, s) \in Template
           /\ Obeys(f2b_jail_apply_config(jail, s), s)
  BY DEF Template, Setting, f2b_jail_apply_config, Obeys

(* A new jail is what the configuration says of it. *)
LEMMA CreateObeys ==
    ASSUME DaemonInv, pc \in {"starting", "restarting"}, NEW j \in Jail
    PROVE  f2b_jail_create(j) \in Template /\ Obeys(f2b_jail_create(j), Said(config.content, j))
  <1>1. /\ defaults \in Template /\ config.content.defaults \in Setting
        /\ config.content.own[j] \in Setting /\ Obeys(defaults, config.content.defaults)
    <2>1. config.content \in Contents
      BY DEF DaemonInv, TypeOK
    <2> QED
      BY <2>1, ContentType DEF DaemonInv, TypeOK, Template, Configured
  <1>2. f2b_jail_create(j) \in Template
    BY <1>1, ApplyType DEF f2b_jail_create
  <1> QED
    BY <1>1, <1>2 DEF f2b_jail_create, f2b_jail_apply_config, Said, Obeys, Setting, Template

(* Requests and edits change nothing that the invariant is about.           *)
LEMMA RequestKeeps ==
    ASSUME DaemonInv,
           \/ \E sig \in Signals : signal_handler(sig)
           \/ f2b_csocket_cmd_process
    PROVE  DaemonInv'
  <1>1. PICK s \in {"stop", "reconfig", "logrotate"} : Asked(s)
    BY DaemonAssumption DEF signal_handler, f2b_csocket_cmd_process
  <1>2. UNCHANGED <<pc, file, config, defaults, todo, failed, jails, tried>>
    BY DEF signal_handler, f2b_csocket_cmd_process
  <1>3. TypeOK'
    BY <1>1, <1>2, AskedType DEF DaemonInv, TypeOK
  <1> QED
    BY <1>2, <1>3 DEF DaemonInv, Configured, Applied, AsSaid, Running

LEMMA EditKeeps == ASSUME DaemonInv, Edit PROVE DaemonInv'
  <1>1. file' \in [version : 1 .. MaxEdits + 1, content : Contents]
    <2>1. file.version \in 1 .. MaxEdits + 1 /\ file.version <= MaxEdits
      BY DEF DaemonInv, TypeOK, Edit
    <2>2. file.version + 1 \in 1 .. MaxEdits + 1
      BY <2>1, DaemonAssumption
    <2> QED
      BY <2>2 DEF Edit
  <1> QED
    BY <1>1 DEF DaemonInv, TypeOK, Configured, Applied, AsSaid, Running, Edit, request

---------------------------------------------------------------------------
(* The steps that load a configuration, or start and stop jails. *)

LEMMA BootKeeps == ASSUME DaemonInv, Boot PROVE DaemonInv'
  <1>1. CASE file.content.readable
    <2>1. /\ config' = file /\ todo' = file.content.jails /\ pc' = "starting"
          /\ UNCHANGED <<state, file, failed, jails, request>> /\ tried' = file.version
          /\ defaults' = f2b_jail_apply_config(defaults, file.content.defaults)
      BY <1>1 DEF Boot, f2b_jail_set_defaults
    <2>2. file.content \in Contents /\ file.version \in 1 .. MaxEdits + 1
      BY DEF DaemonInv, TypeOK
    <2>6. defaults' \in Template /\ Obeys(defaults', file.content.defaults)
      BY <2>1, <2>2, ContentType, ApplyType DEF DaemonInv, TypeOK, Template
    <2>3. TypeOK'
      BY <2>1, <2>2, <2>6, ContentType, DaemonAssumption DEF DaemonInv, TypeOK, Template, request
    <2>4. Running' = {} /\ failed' = {}
      BY <2>1 DEF DaemonInv, Configured, Boot, Running
    <2>7. config'.version # 0
      BY <2>1, <2>2
    <2>5. Configured'
      BY <2>1, <2>6, <2>7 DEF Configured
    <2>8. Applied'
      BY <2>1, <2>4 DEF Applied, AsSaid
    <2> QED
      BY <2>1, <2>3, <2>5, <2>8 DEF DaemonInv, Loop
  <1>2. CASE ~file.content.readable
    <2>1. pc' = "exited" /\ UNCHANGED <<state, file, config, defaults, todo, failed, jails, request>>
      BY <1>2 DEF Boot
    <2>2. TypeOK'
      BY <2>1 DEF DaemonInv, TypeOK, Boot, request
    <2> QED
      BY <2>1, <2>2 DEF DaemonInv, Configured, Loop
  <1> QED
    BY <1>1, <1>2

LEMMA StartKeeps == ASSUME DaemonInv, NEW j \in Jail, jails_start(j) PROVE DaemonInv'
  <1>0. /\ pc \in {"starting", "restarting"} /\ j \in todo /\ todo' = todo \ {j}
        /\ UNCHANGED <<state, pc, file, config, defaults, request, tried>>
        /\ Applied /\ config.version # 0 /\ j \notin Running /\ j \notin failed
    BY DEF jails_start, DaemonInv, Configured, Applied
  <1> DEFINE jail == f2b_jail_create(j)
             said == Said(config.content, j)
  <1>1. /\ jail.enabled \in {"yes", "no"} /\ jail.bantime \in Nat \ {0}
        /\ said.enabled \in {"unset", jail.enabled} /\ said.bantime \in {0, jail.bantime}
    BY <1>0, CreateObeys DEF Template, Obeys
  <1>2. /\ AsSaid(j) /\ config.content.jails \subseteq Jail
        /\ \A k \in config.content.jails : AsSaid(k)
    <2>1. config.content \in Contents
      BY DEF DaemonInv, TypeOK
    <2> QED
      BY <1>0, <2>1, ContentType DEF Applied
  <1> HIDE DEF jail
  <1>3. CASE jail.enabled = "no" /\ UNCHANGED <<jails, failed>>
    <2>1. TypeOK'
      BY <1>0, <1>3 DEF DaemonInv, TypeOK, request
    <2>2. Running' = Running
      BY <1>3 DEF Running
    <2>3. ASSUME NEW k \in config.content.jails PROVE AsSaid(k)'
      <3>1. CASE k = j
        BY <1>0, <1>1, <1>2, <1>3, <2>2, <3>1 DEF AsSaid
      <3>2. CASE k # j
        BY <1>0, <1>2, <1>3, <2>2, <3>2 DEF AsSaid
      <3> QED
        BY <3>1, <3>2
    <2>4. Applied'
      BY <1>0, <1>3, <2>2, <2>3 DEF Applied
    <2> QED
      BY <1>0, <2>1, <2>4 DEF DaemonInv, Configured, Loop
  <1>4. CASE /\ jail.enabled = "yes" /\ UNCHANGED failed
             /\ jails' = [jails EXCEPT ![j] = [version |-> config.version, bantime |-> jail.bantime]]
    <2>1. TypeOK'
      BY <1>0, <1>1, <1>4 DEF DaemonInv, TypeOK, request
    <2>2. jails'[j] = [version |-> config.version, bantime |-> jail.bantime] /\ jails'[j] # Off
      BY <1>0, <1>4 DEF DaemonInv, TypeOK, Off
    <2>3. \A k \in Jail \ {j} : jails'[k] = jails[k]
      BY <1>4 DEF DaemonInv, TypeOK
    <2>4. Running' = Running \cup {j}
      BY <2>2, <2>3 DEF Running
    <2>5. ASSUME NEW k \in config.content.jails PROVE AsSaid(k)'
      <3>1. CASE k = j
        BY <1>0, <1>1, <1>4, <2>2, <2>4, <3>1 DEF AsSaid
      <3>2. CASE k # j
        BY <1>0, <1>2, <1>4, <2>3, <2>4, <3>2 DEF AsSaid
      <3> QED
        BY <3>1, <3>2
    <2>6. Applied'
      BY <1>0, <1>4, <2>4, <2>5 DEF Applied
    <2> QED
      BY <1>0, <2>1, <2>6 DEF DaemonInv, Configured, Loop
  <1>5. CASE jail.enabled = "yes" /\ failed' = failed \cup {j} /\ UNCHANGED jails
    <2>1. TypeOK'
      BY <1>0, <1>5 DEF DaemonInv, TypeOK, request
    <2>2. Running' = Running
      BY <1>5 DEF Running
    <2>3. ASSUME NEW k \in config.content.jails PROVE AsSaid(k)'
      <3>1. CASE k = j
        BY <1>0, <1>1, <1>5, <2>2, <3>1 DEF AsSaid
      <3>2. CASE k # j
        BY <1>0, <1>2, <1>5, <2>2, <3>2 DEF AsSaid
      <3> QED
        BY <3>1, <3>2
    <2>4. Applied'
      BY <1>0, <1>5, <2>2, <2>3 DEF Applied
    <2> QED
      BY <1>0, <2>1, <2>4 DEF DaemonInv, Configured, Loop
  <1> QED
    BY <1>3, <1>4, <1>5 DEF jails_start, jail

LEMMA StopKeeps == ASSUME DaemonInv, NEW j \in Jail, jails_stop(j) PROVE DaemonInv'
  <1>1. /\ pc \in {"stopping", "final"} /\ jails' = [jails EXCEPT ![j] = Off]
        /\ UNCHANGED <<state, pc, file, config, defaults, todo, failed, request, tried>>
    BY DEF jails_stop
  <1>2. TypeOK'
    BY <1>1, DaemonAssumption DEF DaemonInv, TypeOK, Off, request
  <1> QED
    BY <1>1, <1>2 DEF DaemonInv, Configured, Loop

LEMMA StoppedKeeps == ASSUME DaemonInv, JailsStopped PROVE DaemonInv'
  <1>0. /\ pc \in {"stopping", "final"} /\ Running' = {} /\ failed' = {}
        /\ UNCHANGED <<state, file, config, jails, request, tried>>
    BY DEF JailsStopped, Running
  <1>1. CASE pc = "final"
    <2>1. pc' = "exited" /\ UNCHANGED <<defaults, todo>>
      BY <1>1 DEF JailsStopped
    <2>2. TypeOK'
      BY <1>0, <2>1 DEF DaemonInv, TypeOK, request
    <2> QED
      BY <2>1, <2>2 DEF DaemonInv, Configured, Loop
  <1>2. CASE pc # "final"
    <2>1. /\ todo' = config.content.jails /\ pc' = "restarting"
          /\ defaults' = f2b_jail_apply_config(defaults, config.content.defaults)
      BY <1>2 DEF JailsStopped, f2b_jail_set_defaults
    <2>2. config.content \in Contents /\ config.version # 0
      BY <1>0 DEF DaemonInv, TypeOK, Configured
    <2>5. defaults' \in Template /\ Obeys(defaults', config.content.defaults)
      BY <2>1, <2>2, ContentType, ApplyType DEF DaemonInv, TypeOK, Template
    <2>3. TypeOK'
      BY <1>0, <2>1, <2>2, <2>5, ContentType DEF DaemonInv, TypeOK, Template, request
    <2>4. Configured' /\ Applied'
      BY <1>0, <2>1, <2>2, <2>5 DEF Configured, Applied, AsSaid
    <2> QED
      BY <2>1, <2>3, <2>4 DEF DaemonInv, Loop
  <1> QED
    BY <1>1, <1>2

LEMMA ReloadKeeps == ASSUME DaemonInv, Reload PROVE DaemonInv'
  <1>0. /\ pc = "load" /\ tried' = file.version /\ file.version \in 1 .. MaxEdits + 1
        /\ file.content \in Contents
        /\ UNCHANGED <<state, file, defaults, todo, failed, jails, request>>
    BY DEF Reload, DaemonInv, TypeOK
  <1>1. CASE file.content.readable
    <2>1. config' = file /\ pc' = "stopping"
      BY <1>1 DEF Reload
    <2>2. TypeOK'
      BY <1>0, <2>1 DEF DaemonInv, TypeOK, request
    <2> QED
      BY <1>0, <2>1, <2>2 DEF DaemonInv, Configured, Loop
  <1>2. CASE ~file.content.readable
    <2>1. config' = config /\ pc' = "check"
      BY <1>2 DEF Reload
    <2>2. TypeOK'
      BY <1>0, <2>1 DEF DaemonInv, TypeOK, request
    <2> QED
      BY <1>0, <2>1, <2>2 DEF DaemonInv, Configured, Applied, AsSaid, Running, Loop
  <1> QED
    BY <1>1, <1>2

---------------------------------------------------------------------------
(* The steps of the main loop do no more than move on and reset `state`.    *)
LEMMA LoopKeeps ==
    ASSUME DaemonInv,
           \/ JailsStarted \/ Check \/ ProcessJails \/ Sleep \/ RotateTest \/ Rotate
           \/ ReconfigTest \/ Reconfig
    PROVE  DaemonInv'
  <1>1. UNCHANGED <<file, config, defaults, todo, failed, jails, request, tried>>
    BY DEF JailsStarted, Check, ProcessJails, Sleep, RotateTest, Rotate, ReconfigTest, Reconfig
  <1>2. state' \in {state, "run"}
    BY DEF JailsStarted, Check, ProcessJails, Sleep, RotateTest, Rotate, ReconfigTest, Reconfig
  <1>3. \/ pc \in {"starting", "restarting"} /\ todo = {} /\ pc' \in {"exited", "check"}
        \/ pc \in Loop /\ pc' \in Loop \cup {"final"}
    BY DEF JailsStarted, Check, ProcessJails, Sleep, RotateTest, Rotate, ReconfigTest, Reconfig,
         Loop
  <1>4. TypeOK'
    BY <1>1, <1>2, <1>3 DEF DaemonInv, TypeOK, request, Loop
  <1>5. Applied => Applied'
    BY <1>1 DEF Applied, AsSaid, Running
  <1> QED
    BY <1>1, <1>3, <1>4, <1>5 DEF DaemonInv, Configured, Loop

LEMMA InvNext == DaemonInv /\ [Next]_vars => DaemonInv'
  <1> SUFFICES ASSUME DaemonInv, [Next]_vars PROVE DaemonInv'
    OBVIOUS
  <1>1. CASE UNCHANGED vars
    BY <1>1 DEF vars, request, DaemonInv, TypeOK, Configured, Applied, AsSaid, Running
  <1>2. CASE Next
    BY <1>1, <1>2, BootKeeps, StartKeeps, StopKeeps, StoppedKeeps, ReloadKeeps, LoopKeeps,
       RequestKeeps, EditKeeps DEF Next, Main, Exited
  <1> QED
    BY <1>1, <1>2

THEOREM DaemonInvariance == Spec => []DaemonInv
  BY InvInit, InvNext, PTL DEF Spec

(* Every reachable state of the daemon is well formed.                      *)
THEOREM DaemonTypes == Spec => []TypeOK
  <1>1. DaemonInv => TypeOK
    BY DEF DaemonInv
  <1> QED
    BY <1>1, DaemonInvariance, PTL

(* The main loop of src/daemon.c works on the jails of the configuration    *)
(* that was read last, whatever requests and edits come between.            *)
THEOREM JailsFollowConfig == Spec => []JailsOfConfig
  <1>1. DaemonInv => JailsOfConfig
    BY DEF DaemonInv, Applied, AsSaid, JailsOfConfig, Loop
  <1> QED
    BY <1>1, DaemonInvariance, PTL

---------------------------------------------------------------------------
(* The filter: folds over sequences. *)

USE FilterAssumption

(* FoldLeft takes the last element of a set of places off.                  *)
Upmost(s) == CHOOSE x \in s : \A y \in s : x >= y
Fold(step, it, base, l, s) ==
    IF s = {} THEN base ELSE step[<<it[s \ {Upmost(s)}], l[Upmost(s)]>>]

LEMMA LastPlace ==
    ASSUME NEW n \in Nat
    PROVE  Upmost(1 .. n + 1) = n + 1 /\ (1 .. n + 1) \ {n + 1} = 1 .. n /\ 1 .. n + 1 # {}
  <1>1. n + 1 \in 1 .. n + 1 /\ \A y \in 1 .. n + 1 : n + 1 >= y
    OBVIOUS
  <1>2. \A x \in 1 .. n + 1 : (\A y \in 1 .. n + 1 : x >= y) => x = n + 1
    BY <1>1
  <1>3. Upmost(1 .. n + 1) = n + 1
    BY <1>1, <1>2 DEF Upmost
  <1>4. (1 .. n + 1) \ {n + 1} = 1 .. n
    OBVIOUS
  <1> QED
    BY <1>1, <1>3, <1>4

(* The last element of a set of numbers of which there are finitely many.   *)
LEMMA LastIn ==
    ASSUME NEW n \in Nat, NEW s \in SUBSET (1 .. n), s # {}
    PROVE  Upmost(s) \in s
  <1> DEFINE T == {n - i : i \in s}
  <1>0. \A i \in s : i \in Int /\ n - i \in Nat /\ n - (n - i) = i
    OBVIOUS
  <1>1. T \in SUBSET Nat /\ T # {}
    BY <1>0
  <1>2. PICK k \in T : \A i \in T : k <= i
    <2> HIDE DEF T
    <2> QED
      BY <1>1, Smallest
  <1>3. PICK x \in s : k = n - x
    BY <1>2
  <1>4. \A y \in s : n - x <= n - y
    BY <1>2, <1>3
  <1>5. \A y \in s : x >= y
    BY <1>0, <1>4
  <1> QED
    BY <1>5 DEF Upmost

Folds(step, it, base, l, C) ==
    /\ it \in [SUBSET DOMAIN l -> C]
    /\ \A s \in SUBSET DOMAIN l : it[s] = Fold(step, it, base, l, s)

(* The recursive function of a fold exists, when the accumulator stays in a *)
(* set C: it is made for the sets of at most n places, then of n + 1.       *)
LEMMA FoldExists ==
    ASSUME NEW C, NEW X, NEW step \in [C \X X -> C], NEW base \in C, NEW l \in Seq(X)
    PROVE  \E it : Folds(step, it, base, l, C)
  <1> DEFINE D == SUBSET DOMAIN l
             Upto(it, n) == \A s \in D : Cardinality(s) <= n => it[s] = Fold(step, it, base, l, s)
             T == {n \in Nat : \E it \in [D -> C] : Upto(it, n)}
  <1>1. Len(l) \in Nat /\ DOMAIN l = 1 .. Len(l) /\ \A i \in DOMAIN l : l[i] \in X
    OBVIOUS
  <1>2. IsFiniteSet(DOMAIN l)
    BY <1>1, FS_Interval
  <1>3. \A s \in D : /\ IsFiniteSet(s) /\ Cardinality(s) \in Nat
                     /\ Cardinality(s) <= Cardinality(DOMAIN l)
    BY <1>2, FS_Subset, FS_CardinalityType
  <1>4. \A s \in D : s # {} => Upmost(s) \in s /\ s \ {Upmost(s)} \in D
    BY <1>1, LastIn
  <1>5. \A s \in D : s # {} => Cardinality(s \ {Upmost(s)}) = Cardinality(s) - 1
    BY <1>3, <1>4, FS_RemoveElement
  <1>6. \A it \in [D -> C] : \A s \in D : Fold(step, it, base, l, s) \in C
    <2>1. ASSUME NEW it \in [D -> C], NEW s \in D, s # {}
          PROVE  step[<<it[s \ {Upmost(s)}], l[Upmost(s)]>>] \in C
      <3>1. it[s \ {Upmost(s)}] \in C /\ l[Upmost(s)] \in X
        <4>1. s \ {Upmost(s)} \in D /\ Upmost(s) \in DOMAIN l
          BY <1>4, <2>1
        <4> HIDE DEF D
        <4> QED
          BY <1>1, <4>1
      <3> QED
        BY <3>1
    <2> QED
      BY <2>1 DEF Fold
  <1> HIDE DEF D
  <1>7. 0 \in T
    <2> DEFINE it == [s \in D |-> base]
    <2>1. it \in [D -> C]
      OBVIOUS
    <2>2. ASSUME NEW s \in D, Cardinality(s) <= 0 PROVE it[s] = Fold(step, it, base, l, s)
      <3>1. s = {}
        BY <1>3, <2>2, FS_EmptySet
      <3> QED
        BY <3>1 DEF Fold
    <2> HIDE DEF it
    <2> QED
      BY <2>1, <2>2
  <1>8. ASSUME NEW n \in T PROVE n + 1 \in T
    <2>1. n \in Nat
      OBVIOUS
    <2>2. PICK f \in [D -> C] : Upto(f, n)
      OBVIOUS
    <2> DEFINE it == [s \in D |-> IF Cardinality(s) <= n THEN f[s] ELSE Fold(step, f, base, l, s)]
    <2>3. it \in [D -> C]
      BY <1>6, <2>2
    <2>4. ASSUME NEW s \in D, Cardinality(s) <= n + 1 PROVE it[s] = Fold(step, it, base, l, s)
      <3>1. s # {} => it[s \ {Upmost(s)}] = f[s \ {Upmost(s)}]
        <4> SUFFICES ASSUME s # {} PROVE it[s \ {Upmost(s)}] = f[s \ {Upmost(s)}]
          OBVIOUS
        <4>1. s \ {Upmost(s)} \in D /\ Cardinality(s \ {Upmost(s)}) = Cardinality(s) - 1
              /\ Cardinality(s) \in Nat
          BY <1>3, <1>4, <1>5
        <4>2. Cardinality(s \ {Upmost(s)}) <= n
          BY <2>1, <2>4, <4>1
        <4> QED
          BY <4>1, <4>2
      <3>2. Fold(step, it, base, l, s) = Fold(step, f, base, l, s)
        <4> HIDE DEF it
        <4> QED
          BY <3>1 DEF Fold
      <3>3. it[s] = Fold(step, f, base, l, s)
        BY <2>2
      <3> QED
        BY <3>2, <3>3
    <2> HIDE DEF it
    <2> QED
      BY <2>1, <2>3, <2>4
  <1>9. Cardinality(DOMAIN l) \in T
    <2>1. T \in SUBSET Nat /\ Cardinality(DOMAIN l) \in Nat
      BY <1>2, FS_CardinalityType
    <2> HIDE DEF T
    <2> QED
      BY <1>7, <1>8, <2>1, Inductive
  <1>10. PICK it \in [D -> C] : Upto(it, Cardinality(DOMAIN l))
    BY <1>9
  <1>11. \A s \in D : it[s] = Fold(step, it, base, l, s)
    BY <1>3, <1>10
  <1> QED
    BY <1>10, <1>11 DEF D, Folds

---------------------------------------------------------------------------
(* The module's configuration; rlast is at the last pattern. *)

Regexp == [pattern : Pattern, icase : BOOLEAN, score : Int, matches : Nat]
Configuration ==
    {c \in [regexps : Seq(Regexp), rlast : Nat, icase : BOOLEAN, defscore : Int, ready : BOOLEAN] :
        c.rlast = Len(c.regexps)}

New(c, p) == [pattern |-> p, icase |-> c.icase, score |-> c.defscore, matches |-> 0]

LEMMA ShortType ==
    ASSUME NEW n \in Int
    PROVE  Short(n) \in Int
  <1> DEFINE m == 2 * ShortHalf
             k == n + ShortHalf
  <1>1. m \in Nat \ {0} /\ k \in Int /\ ShortHalf \in Int
    OBVIOUS
  <1> HIDE DEF m, k
  <1>2. k % m \in Int
    BY <1>1
  <1>3. Short(n) = (k % m) - ShortHalf
    BY DEF Short, m, k
  <1> QED
    BY <1>1, <1>2, <1>3

LEMMA LineKinds ==
    ASSUME NEW l \in Line
    PROVE  \/ DOMAIN l = {"pattern"} /\ l.pattern \in Pattern
           \/ DOMAIN l = {"icase"} /\ l.icase \in BOOLEAN
           \/ DOMAIN l = {"defscore"} /\ l.defscore \in Int
           \/ DOMAIN l = {"other"}
  <1>1. CASE l \in [pattern : Pattern]
    BY <1>1
  <1>2. CASE l \in [icase : BOOLEAN]
    BY <1>2
  <1>3. CASE l \in [defscore : Int]
    BY <1>3
  <1>4. CASE l \in [other : {TRUE}]
    BY <1>4
  <1> QED
    BY <1>1, <1>2, <1>3, <1>4 DEF Line, Param

LEMMA Fields ==
    ASSUME NEW c \in Configuration
    PROVE  /\ c.regexps \in Seq(Regexp) /\ c.rlast = Len(c.regexps) /\ c.rlast \in Nat
           /\ c.icase \in BOOLEAN /\ c.defscore \in Int /\ c.ready \in BOOLEAN
  BY DEF Configuration

LEMMA AppendType ==
    ASSUME NEW c \in Configuration, NEW p \in Pattern
    PROVE  /\ append(c, p) \in Configuration
           /\ append(c, p).defscore = c.defscore /\ append(c, p).icase = c.icase
           /\ append(c, p).regexps =
                 IF p \in Compiles THEN Append(c.regexps, New(c, p)) ELSE c.regexps
  <1>1. CASE p \notin Compiles
    BY <1>1 DEF append
  <1>2. CASE p \in Compiles
    <2> DEFINE s == Append(c.regexps, New(c, p))
    <2>1. New(c, p) \in Regexp
      BY Fields DEF New, Regexp
    <2>2. SubSeq(c.regexps, 1, c.rlast) = c.regexps
      BY Fields
    <2>3. s \in Seq(Regexp) /\ Len(s) = c.rlast + 1
      BY <2>1, Fields, AppendProperties
    <2>4. append(c, p) = [c EXCEPT !.regexps = s, !.rlast = @ + 1, !.ready = TRUE]
      BY <1>2, <2>2 DEF append, New
    <2> HIDE DEF s
    <2>5. c \in [regexps : Seq(Regexp), rlast : Nat, icase : BOOLEAN, defscore : Int, ready : BOOLEAN]
      BY DEF Configuration
    <2>6. append(c, p) \in
              [regexps : Seq(Regexp), rlast : Nat, icase : BOOLEAN, defscore : Int, ready : BOOLEAN]
          /\ append(c, p).rlast = c.rlast + 1 /\ append(c, p).regexps = s
          /\ append(c, p).defscore = c.defscore /\ append(c, p).icase = c.icase
      <3> DEFINE d == [c EXCEPT !.regexps = s, !.rlast = @ + 1, !.ready = TRUE]
      <3>1. d.rlast = c.rlast + 1 /\ d.regexps = s /\ d.defscore = c.defscore /\ d.icase = c.icase
        BY <2>5
      <3>2. c.rlast + 1 \in Nat /\ s \in Seq(Regexp)
        BY <2>3, <2>5
      <3>3. d \in [regexps : Seq(Regexp), rlast : Nat, icase : BOOLEAN, defscore : Int, ready : BOOLEAN]
        BY <2>5, <3>2
      <3> HIDE DEF d
      <3> QED
        BY <2>4, <3>1, <3>3 DEF d
    <2> QED
      BY <1>2, <2>3, <2>6 DEF Configuration, s
  <1> QED
    BY <1>1, <1>2

LEMMA ConfigType ==
    ASSUME NEW c \in Configuration, NEW l \in Param
    PROVE  /\ filter_config(c, l) \in Configuration
           /\ filter_config(c, l).regexps = c.regexps
           /\ filter_config(c, l).defscore =
                 IF Has(l, "defscore") THEN Short(l.defscore) ELSE c.defscore
           /\ filter_config(c, l).icase = IF Has(l, "icase") THEN l.icase ELSE c.icase
  <1>0. c \in [regexps : Seq(Regexp), rlast : Nat, icase : BOOLEAN, defscore : Int, ready : BOOLEAN]
        /\ c.rlast = Len(c.regexps)
    BY DEF Configuration
  <1>1. CASE l \in [icase : BOOLEAN]
    <2>1. Has(l, "icase") /\ ~Has(l, "defscore") /\ l.icase \in BOOLEAN
      BY <1>1 DEF Has
    <2>2. filter_config(c, l) = [c EXCEPT !.icase = l.icase]
      BY <2>1 DEF filter_config
    <2> QED
      BY <1>0, <2>1, <2>2 DEF Configuration
  <1>2. CASE l \in [defscore : Int]
    <2>1. ~Has(l, "icase") /\ Has(l, "defscore") /\ l.defscore \in Int
      BY <1>2 DEF Has
    <2>2. filter_config(c, l) = [c EXCEPT !.defscore = Short(l.defscore)]
      BY <2>1 DEF filter_config
    <2>3. Short(l.defscore) \in Int
      BY <2>1, ShortType
    <2> QED
      BY <1>0, <2>1, <2>2, <2>3 DEF Configuration
  <1> QED
    BY <1>1, <1>2 DEF Param

LEMMA ReadType ==
    ASSUME NEW c \in Configuration, NEW l \in Line
    PROVE  /\ ReadLine(c, l) \in Configuration
           /\ ReadLine(c, l).defscore = IF Has(l, "defscore") THEN Short(l.defscore) ELSE c.defscore
           /\ ReadLine(c, l).icase = IF Has(l, "icase") THEN l.icase ELSE c.icase
           /\ ReadLine(c, l).regexps =
                 IF Has(l, "pattern") /\ l.pattern \in Compiles
                 THEN Append(c.regexps, New(c, l.pattern)) ELSE c.regexps
  <1>1. CASE l \in Param
    <2>1. ~Has(l, "other") /\ ~Has(l, "pattern")
      BY <1>1 DEF Param, Has
    <2> QED
      BY <1>1, <2>1, ConfigType DEF ReadLine
  <1>2. CASE l \in [pattern : Pattern]
    <2>1. /\ ~Has(l, "other") /\ Has(l, "pattern") /\ l.pattern \in Pattern
          /\ ~Has(l, "defscore") /\ ~Has(l, "icase")
      BY <1>2 DEF Has
    <2> QED
      BY <2>1, AppendType DEF ReadLine
  <1>3. CASE l \in [other : {TRUE}]
    <2>1. Has(l, "other") /\ ~Has(l, "pattern") /\ ~Has(l, "defscore") /\ ~Has(l, "icase")
      BY <1>3 DEF Has
    <2> QED
      BY <2>1 DEF ReadLine
  <1> QED
    BY <1>1, <1>2, <1>3 DEF Line

LEMMA FlushType ==
    ASSUME NEW c \in Configuration
    PROVE  /\ flush(c) \in Configuration /\ flush(c).regexps = <<>> /\ flush(c).defscore = DefScore
           /\ flush(c).icase = c.icase
  <1>1. c \in [regexps : Seq(Regexp), rlast : Nat, icase : BOOLEAN, defscore : Int, ready : BOOLEAN]
    BY DEF Configuration
  <1>2. <<>> \in Seq(Regexp) /\ Len(<<>>) = 0
    OBVIOUS
  <1> QED
    BY <1>1, <1>2 DEF flush, Configuration

LEMMA CreateType == /\ create \in Configuration /\ create.regexps = <<>>
                    /\ create.defscore = DefScore /\ create.icase = FALSE
  <1>1. <<>> \in Seq(Regexp) /\ Len(<<>>) = 0
    OBVIOUS
  <1> QED
    BY <1>1 DEF create, Configuration

---------------------------------------------------------------------------
(* The loops of src/filter.c, over the lines of the file and over the       *)
(* parameters of the section, turn by turn.                                 *)

LEMMA FileLoop ==
    ASSUME NEW base \in Configuration, NEW l \in Seq(Line)
    PROVE  \E r : /\ r[0] = base
                  /\ \A n \in Nat : n + 1 <= Len(l) => r[n + 1] = ReadLine(r[n], l[n + 1])
                  /\ FoldLeft(ReadLine, base, l) = r[Len(l)]
  <1> DEFINE Reads(it) ==
                it = [s \in SUBSET DOMAIN l |->
                        IF s = {} THEN base ELSE ReadLine(it[s \ {Upmost(s)}], l[Upmost(s)])]
             it == CHOOSE it : Reads(it)
             r == [n \in Nat |-> it[1 .. n]]
             step == [a \in Configuration \X Line |-> ReadLine(a[1], a[2])]
  <1>1. Len(l) \in Nat /\ DOMAIN l = 1 .. Len(l) /\ \A i \in DOMAIN l : l[i] \in Line
    OBVIOUS
  <1>2. step \in [Configuration \X Line -> Configuration]
    BY ReadType
  <1>3. PICK f : Folds(step, f, base, l, Configuration)
    <2> HIDE DEF step
    <2> QED
      BY <1>2, FoldExists
  <1>4. \A s \in SUBSET DOMAIN l :
           f[s] = IF s = {} THEN base ELSE ReadLine(f[s \ {Upmost(s)}], l[Upmost(s)])
    <2>0. f \in [SUBSET DOMAIN l -> Configuration]
          /\ \A s \in SUBSET DOMAIN l : f[s] = Fold(step, f, base, l, s)
      BY <1>3 DEF Folds
    <2>1. ASSUME NEW s \in SUBSET DOMAIN l, s # {}
          PROVE  step[<<f[s \ {Upmost(s)}], l[Upmost(s)]>>] = ReadLine(f[s \ {Upmost(s)}], l[Upmost(s)])
      <3>1. Upmost(s) \in DOMAIN l
        BY <1>1, <2>1, LastIn
      <3>2. f[s \ {Upmost(s)}] \in Configuration /\ l[Upmost(s)] \in Line
        BY <1>1, <2>0, <3>1
      <3> QED
        BY <3>2
    <2> HIDE DEF step
    <2> QED
      BY <2>0, <2>1 DEF Fold
  <1>5. Reads(f)
    BY <1>3, <1>4 DEF Folds
  <1> HIDE DEF it
  <1>6. Reads(it)
    <2> HIDE DEF Reads
    <2> QED
      BY <1>5 DEF it
  <1>7. FoldLeft(ReadLine, base, l) = it[DOMAIN l]
    BY DEF FoldLeft, MapThenFoldSet, Max, Upmost, it
  <1>8. r[0] = base
    <2>1. it[{}] = base
      BY <1>6
    <2>2. 1 .. 0 = {}
      OBVIOUS
    <2> QED
      BY <2>1, <2>2
  <1>9. ASSUME NEW n \in Nat, n + 1 <= Len(l) PROVE r[n + 1] = ReadLine(r[n], l[n + 1])
    <2>1. 1 .. n + 1 \in SUBSET DOMAIN l
      BY <1>1, <1>9
    <2>2. \A s \in SUBSET DOMAIN l :
             it[s] = IF s = {} THEN base ELSE ReadLine(it[s \ {Upmost(s)}], l[Upmost(s)])
      BY <1>6
    <2>3. it[1 .. n + 1] = ReadLine(it[1 .. n], l[n + 1])
      BY <2>1, <2>2, LastPlace
    <2> QED
      BY <2>3
  <1>10. FoldLeft(ReadLine, base, l) = r[Len(l)]
    BY <1>1, <1>7
  <1> HIDE DEF r
  <1> QED
    BY <1>8, <1>9, <1>10

LEMMA SectionLoop ==
    ASSUME NEW base \in Configuration, NEW l \in Seq(Param)
    PROVE  \E r : /\ r[0] = base
                  /\ \A n \in Nat : n + 1 <= Len(l) => r[n + 1] = filter_config(r[n], l[n + 1])
                  /\ FoldLeft(filter_config, base, l) = r[Len(l)]
  <1> DEFINE Reads(it) ==
                it = [s \in SUBSET DOMAIN l |->
                        IF s = {} THEN base ELSE filter_config(it[s \ {Upmost(s)}], l[Upmost(s)])]
             it == CHOOSE it : Reads(it)
             r == [n \in Nat |-> it[1 .. n]]
             step == [a \in Configuration \X Param |-> filter_config(a[1], a[2])]
  <1>1. Len(l) \in Nat /\ DOMAIN l = 1 .. Len(l) /\ \A i \in DOMAIN l : l[i] \in Param
    OBVIOUS
  <1>2. step \in [Configuration \X Param -> Configuration]
    BY ConfigType
  <1>3. PICK f : Folds(step, f, base, l, Configuration)
    <2> HIDE DEF step
    <2> QED
      BY <1>2, FoldExists
  <1>4. \A s \in SUBSET DOMAIN l :
           f[s] = IF s = {} THEN base ELSE filter_config(f[s \ {Upmost(s)}], l[Upmost(s)])
    <2>0. f \in [SUBSET DOMAIN l -> Configuration]
          /\ \A s \in SUBSET DOMAIN l : f[s] = Fold(step, f, base, l, s)
      BY <1>3 DEF Folds
    <2>1. ASSUME NEW s \in SUBSET DOMAIN l, s # {}
          PROVE  step[<<f[s \ {Upmost(s)}], l[Upmost(s)]>>] = filter_config(f[s \ {Upmost(s)}], l[Upmost(s)])
      <3>1. Upmost(s) \in DOMAIN l
        BY <1>1, <2>1, LastIn
      <3>2. f[s \ {Upmost(s)}] \in Configuration /\ l[Upmost(s)] \in Param
        BY <1>1, <2>0, <3>1
      <3> QED
        BY <3>2
    <2> HIDE DEF step
    <2> QED
      BY <2>0, <2>1 DEF Fold
  <1>5. Reads(f)
    BY <1>3, <1>4 DEF Folds
  <1> HIDE DEF it
  <1>6. Reads(it)
    <2> HIDE DEF Reads
    <2> QED
      BY <1>5 DEF it
  <1>7. FoldLeft(filter_config, base, l) = it[DOMAIN l]
    BY DEF FoldLeft, MapThenFoldSet, Max, Upmost, it
  <1>8. r[0] = base
    <2>1. it[{}] = base
      BY <1>6
    <2>2. 1 .. 0 = {}
      OBVIOUS
    <2> QED
      BY <2>1, <2>2
  <1>9. ASSUME NEW n \in Nat, n + 1 <= Len(l) PROVE r[n + 1] = filter_config(r[n], l[n + 1])
    <2>1. 1 .. n + 1 \in SUBSET DOMAIN l
      BY <1>1, <1>9
    <2>2. \A s \in SUBSET DOMAIN l :
             it[s] = IF s = {} THEN base ELSE filter_config(it[s \ {Upmost(s)}], l[Upmost(s)])
      BY <1>6
    <2>3. it[1 .. n + 1] = filter_config(it[1 .. n], l[n + 1])
      BY <2>1, <2>2, LastPlace
    <2> QED
      BY <2>3
  <1>10. FoldLeft(filter_config, base, l) = r[Len(l)]
    BY <1>1, <1>7
  <1> HIDE DEF r
  <1> QED
    BY <1>8, <1>9, <1>10

(* The switch for the case after line n + 1. *)
LEMMA IcaseSet ==
    ASSUME NEW f, NEW b, NEW n \in Nat
    PROVE  IcaseAt(f, n + 2, b) =
              IF Has(f[n + 1], "icase") THEN f[n + 1].icase ELSE IcaseAt(f, n + 1, b)
  <1> DEFINE S(m) == {k \in 1 .. m : Has(f[k], "icase")}
  <1>1. ASSUME NEW m \in Nat
        PROVE  IcaseAt(f, m + 1, b) = IF S(m) = {} THEN b ELSE f[LastOf(S(m))].icase
    <2>1. m + 1 - 1 = m
      OBVIOUS
    <2> QED
      BY <2>1 DEF IcaseAt
  <1>2. IcaseAt(f, n + 2, b) = IF S(n + 1) = {} THEN b ELSE f[LastOf(S(n + 1))].icase
    <2>1. n + 1 \in Nat /\ (n + 1) + 1 = n + 2
      OBVIOUS
    <2>2. IcaseAt(f, (n + 1) + 1, b) = IF S(n + 1) = {} THEN b ELSE f[LastOf(S(n + 1))].icase
      BY <1>1, <2>1
    <2> QED
      BY <2>1, <2>2
  <1>3. IcaseAt(f, n + 1, b) = IF S(n) = {} THEN b ELSE f[LastOf(S(n))].icase
    BY <1>1
  <1>4. CASE Has(f[n + 1], "icase")
    <2>1. n + 1 \in S(n + 1) /\ \A j \in S(n + 1) : j \in Int /\ n + 1 >= j
      BY <1>4
    <2>2. LastOf(S(n + 1)) = n + 1
      BY <2>1 DEF LastOf
    <2> QED
      BY <1>2, <1>4, <2>1, <2>2
  <1>5. CASE ~Has(f[n + 1], "icase")
    <2>1. S(n + 1) = S(n)
      BY <1>5
    <2> QED
      BY <1>2, <1>3, <1>5, <2>1
  <1> QED
    BY <1>4, <1>5

LEMMA IcaseBefore == \A f, b : IcaseAt(f, 1, b) = b /\ IcaseAt(f, 0 + 1, b) = b
  <1>1. \A f : {k \in 1 .. 1 - 1 : Has(f[k], "icase")} = {} /\ 0 + 1 = 1
    OBVIOUS
  <1> QED
    BY <1>1 DEF IcaseAt

(* The section's parameters add no pattern, and set the switch. *)
LEMMA SectionType ==
    /\ FoldLeft(filter_config, create, Section) \in Configuration
    /\ FoldLeft(filter_config, create, Section).regexps = <<>>
    /\ FoldLeft(filter_config, create, Section).icase = IcaseAt(Section, Len(Section) + 1, FALSE)
  <1>1. PICK r : /\ r[0] = create
                 /\ \A n \in Nat : n + 1 <= Len(Section) => r[n + 1] = filter_config(r[n], Section[n + 1])
                 /\ FoldLeft(filter_config, create, Section) = r[Len(Section)]
    BY CreateType, SectionLoop
  <1> DEFINE Set(n) == /\ r[n] \in Configuration /\ r[n].regexps = <<>>
                       /\ r[n].icase = IcaseAt(Section, n + 1, FALSE)
             T == {n \in Nat : n <= Len(Section) => Set(n)}
  <1>2. Len(Section) \in Nat /\ \A i \in 1 .. Len(Section) : Section[i] \in Param
    OBVIOUS
  <1>3. 0 \in T
    BY <1>1, CreateType, IcaseBefore
  <1> HIDE DEF Set
  <1>4. ASSUME NEW n \in T PROVE n + 1 \in T
    <2>1. ASSUME n + 1 <= Len(Section)
          PROVE  Set(n + 1)
      <3>1. n \in Nat /\ n <= Len(Section) /\ Section[n + 1] \in Param
        BY <1>2, <2>1
      <3>2. Set(n)
        BY <3>1
      <3>3. r[n + 1] = filter_config(r[n], Section[n + 1])
        BY <1>1, <2>1, <3>1
      <3>4. /\ filter_config(r[n], Section[n + 1]) \in Configuration
            /\ filter_config(r[n], Section[n + 1]).regexps = r[n].regexps
            /\ filter_config(r[n], Section[n + 1]).icase =
                  IF Has(Section[n + 1], "icase") THEN Section[n + 1].icase ELSE r[n].icase
        BY <3>1, <3>2, ConfigType DEF Set
      <3>5. IcaseAt(Section, n + 2, FALSE) =
               IF Has(Section[n + 1], "icase") THEN Section[n + 1].icase
               ELSE IcaseAt(Section, n + 1, FALSE)
        BY <3>1, IcaseSet
      <3>6. (n + 1) + 1 = n + 2
        BY <3>1
      <3> QED
        BY <3>2, <3>3, <3>4, <3>5, <3>6 DEF Set
    <2> QED
      BY <2>1
  <1>5. Len(Section) \in T
    <2>1. T \in SUBSET Nat /\ Len(Section) \in Nat
      OBVIOUS
    <2> HIDE DEF T
    <2>2. \A n \in T : n + 1 \in T
      BY <1>4
    <2> QED
      BY <1>3, <2>1, <2>2, Inductive
  <1>6. Set(Len(Section))
    BY <1>2, <1>5
  <1> QED
    BY <1>1, <1>6 DEF Set

---------------------------------------------------------------------------
(* The first n lines of a file. *)

Among(f, n) == {i \in Accepted(f) : i <= n}

(* What f2b_filter_load_file has made of them; b is the switch before.      *)
ReadOK(c, f, b, n) ==
    /\ c \in Configuration
    /\ Len(c.regexps) = Cardinality(Among(f, n))
    /\ c.defscore = ScoreAt(f, n + 1) /\ c.icase = IcaseAt(f, n + 1, b)
    /\ \A i \in Among(f, n) :
          /\ Place(f, i) \in 1 .. Len(c.regexps)
          /\ c.regexps[Place(f, i)].pattern = f[i].pattern
          /\ c.regexps[Place(f, i)].score = ScoreAt(f, i)
          /\ c.regexps[Place(f, i)].icase = IcaseAt(f, i, b)
    /\ \A k \in 1 .. Len(c.regexps) : \E i \in Among(f, n) : Place(f, i) = k
    /\ \A k \in 1 .. Len(c.regexps) : c.regexps[k].matches = 0

LEMMA AcceptedType ==
    ASSUME NEW f \in Seq(Line)
    PROVE  \A i \in Accepted(f) : i \in Int /\ i \in 1 .. Len(f)
  BY DEF Accepted

LEMMA AmongFacts ==
    ASSUME NEW f \in Seq(Line), NEW n
    PROVE  /\ Accepted(f) \subseteq 1 .. Len(f) /\ Among(f, n) \subseteq 1 .. Len(f)
           /\ IsFiniteSet(Accepted(f)) /\ IsFiniteSet(Among(f, n))
           /\ Cardinality(Among(f, n)) \in Nat
           /\ Place(f, n) = Cardinality(Among(f, n))
  <1>1. Len(f) \in Nat /\ Accepted(f) \subseteq 1 .. Len(f) /\ Among(f, n) \subseteq 1 .. Len(f)
    BY DEF Accepted, Among
  <1>2. IsFiniteSet(1 .. Len(f))
    BY <1>1, FS_Interval
  <1>3. IsFiniteSet(Accepted(f)) /\ IsFiniteSet(Among(f, n))
    BY <1>1, <1>2, FS_Subset
  <1>4. Cardinality(Among(f, n)) \in Nat
    BY <1>3, FS_CardinalityType
  <1>5. Place(f, n) = Cardinality(Among(f, n))
    BY DEF Place, Among
  <1> QED
    BY <1>1, <1>3, <1>4, <1>5

(* The score in force after line n + 1. *)
LEMMA ScoreSet ==
    ASSUME NEW f \in Seq(Line), NEW n \in Nat, n + 1 <= Len(f)
    PROVE  ScoreAt(f, n + 2) =
              IF Has(f[n + 1], "defscore") THEN Short(f[n + 1].defscore) ELSE ScoreAt(f, n + 1)
  <1> DEFINE S(m) == {k \in 1 .. m : Has(f[k], "defscore")}
  <1>1. ASSUME NEW m \in Nat
        PROVE  ScoreAt(f, m + 1) = IF S(m) = {} THEN DefScore ELSE Short(f[LastOf(S(m))].defscore)
    <2>1. m + 1 - 1 = m
      OBVIOUS
    <2> QED
      BY <2>1 DEF ScoreAt
  <1>2. ScoreAt(f, n + 2) = IF S(n + 1) = {} THEN DefScore ELSE Short(f[LastOf(S(n + 1))].defscore)
    <2>1. n + 1 \in Nat /\ (n + 1) + 1 = n + 2
      OBVIOUS
    <2>2. ScoreAt(f, (n + 1) + 1) = IF S(n + 1) = {} THEN DefScore ELSE Short(f[LastOf(S(n + 1))].defscore)
      BY <1>1, <2>1
    <2> QED
      BY <2>1, <2>2
  <1>3. ScoreAt(f, n + 1) = IF S(n) = {} THEN DefScore ELSE Short(f[LastOf(S(n))].defscore)
    BY <1>1
  <1>4. CASE Has(f[n + 1], "defscore")
    <2>1. n + 1 \in S(n + 1) /\ \A j \in S(n + 1) : j \in Int /\ n + 1 >= j
      BY <1>4
    <2>2. LastOf(S(n + 1)) = n + 1
      BY <2>1 DEF LastOf
    <2> QED
      BY <1>2, <1>4, <2>1, <2>2
  <1>5. CASE ~Has(f[n + 1], "defscore")
    <2>1. S(n + 1) = S(n)
      BY <1>5
    <2> QED
      BY <1>2, <1>3, <1>5, <2>1
  <1> QED
    BY <1>4, <1>5

LEMMA ReadFirst ==
    ASSUME NEW f \in Seq(Line), NEW c \in Configuration, c.regexps = <<>>, c.defscore = DefScore
    PROVE  ReadOK(c, f, c.icase, 0)
  <1>1. Among(f, 0) = {}
    BY DEF Among, Accepted
  <1>2. Cardinality(Among(f, 0)) = 0
    BY <1>1, FS_EmptySet
  <1>3. {k \in 1 .. 0 : Has(f[k], "defscore")} = {} /\ 0 + 1 - 1 = 0
    OBVIOUS
  <1>4. ScoreAt(f, 0 + 1) = DefScore
    BY <1>3 DEF ScoreAt
  <1> QED
    BY <1>1, <1>2, <1>4, IcaseBefore DEF ReadOK

LEMMA ReadNext ==
    ASSUME NEW f \in Seq(Line), NEW n \in Nat, n + 1 <= Len(f), NEW c, NEW b, ReadOK(c, f, b, n)
    PROVE  ReadOK(ReadLine(c, f[n + 1]), f, b, n + 1)
  <1> DEFINE l == f[n + 1]
             d == ReadLine(c, l)
             p == l.pattern
  <1>1. l \in Line /\ n + 1 \in 1 .. Len(f) /\ c \in Configuration /\ (n + 1) + 1 = n + 2
    BY DEF ReadOK
  <1>2. /\ d \in Configuration
        /\ d.defscore = IF Has(l, "defscore") THEN Short(l.defscore) ELSE c.defscore
        /\ d.icase = IF Has(l, "icase") THEN l.icase ELSE c.icase
        /\ d.regexps = IF Has(l, "pattern") /\ p \in Compiles
                       THEN Append(c.regexps, New(c, p)) ELSE c.regexps
    BY <1>1, ReadType
  <1>3. d.defscore = ScoreAt(f, (n + 1) + 1) /\ d.icase = IcaseAt(f, (n + 1) + 1, b)
    <2>1. /\ ScoreAt(f, n + 2) = IF Has(l, "defscore") THEN Short(l.defscore) ELSE ScoreAt(f, n + 1)
          /\ IcaseAt(f, n + 2, b) = IF Has(l, "icase") THEN l.icase ELSE IcaseAt(f, n + 1, b)
      BY ScoreSet, IcaseSet
    <2>2. c.defscore = ScoreAt(f, n + 1) /\ c.icase = IcaseAt(f, n + 1, b)
      BY DEF ReadOK
    <2> HIDE DEF l, d
    <2> QED
      BY <1>1, <1>2, <2>1, <2>2
  <1>4. /\ Len(c.regexps) = Cardinality(Among(f, n)) /\ c.regexps \in Seq(Regexp)
        /\ \A i \in Among(f, n) :
              /\ Place(f, i) \in 1 .. Len(c.regexps)
              /\ c.regexps[Place(f, i)].pattern = f[i].pattern
              /\ c.regexps[Place(f, i)].score = ScoreAt(f, i)
              /\ c.regexps[Place(f, i)].icase = IcaseAt(f, i, b)
        /\ \A k \in 1 .. Len(c.regexps) : \E i \in Among(f, n) : Place(f, i) = k
        /\ \A k \in 1 .. Len(c.regexps) : c.regexps[k].matches = 0
        /\ c.defscore = ScoreAt(f, n + 1) /\ c.icase = IcaseAt(f, n + 1, b)
    BY Fields DEF ReadOK
  <1>5. CASE Has(l, "pattern") /\ p \in Compiles
    <2>1. n + 1 \in Accepted(f)
      BY <1>1, <1>5 DEF Accepted
    <2>2. Among(f, n + 1) = Among(f, n) \cup {n + 1} /\ n + 1 \notin Among(f, n)
      BY <2>1, AcceptedType DEF Among
    <2>3. IsFiniteSet(Among(f, n)) /\ Cardinality(Among(f, n)) \in Nat
      BY AmongFacts
    <2>4. Cardinality(Among(f, n + 1)) = Cardinality(Among(f, n)) + 1
      BY <2>2, <2>3, FS_AddElement
    <2>5. Place(f, n + 1) = Len(c.regexps) + 1
      BY <1>4, <2>4, AmongFacts
    <2>6. New(c, p) \in Regexp /\ New(c, p).pattern = p /\ New(c, p).score = ScoreAt(f, n + 1)
          /\ New(c, p).icase = IcaseAt(f, n + 1, b) /\ New(c, p).matches = 0
      BY <1>1, <1>4, <1>5, Fields DEF New, Regexp
    <2> DEFINE s == d.regexps
    <2>7. s = Append(c.regexps, New(c, p))
      BY <1>2, <1>5
    <2> HIDE DEF s
    <2>8. /\ Len(s) = Len(c.regexps) + 1 /\ Len(c.regexps) \in Nat /\ s[Len(c.regexps) + 1] = New(c, p)
          /\ \A k \in 1 .. Len(c.regexps) : s[k] = c.regexps[k]
      BY <1>4, <2>6, <2>7, AppendProperties
    <2>9. ASSUME NEW i \in Among(f, n + 1)
          PROVE  /\ Place(f, i) \in 1 .. Len(s)
                 /\ s[Place(f, i)].pattern = f[i].pattern
                 /\ s[Place(f, i)].score = ScoreAt(f, i)
                 /\ s[Place(f, i)].icase = IcaseAt(f, i, b)
      <3>1. CASE i = n + 1
        BY <2>5, <2>6, <2>8, <3>1
      <3>2. CASE i \in Among(f, n)
        <4>1. /\ Place(f, i) \in 1 .. Len(c.regexps)
              /\ c.regexps[Place(f, i)].pattern = f[i].pattern
              /\ c.regexps[Place(f, i)].score = ScoreAt(f, i)
              /\ c.regexps[Place(f, i)].icase = IcaseAt(f, i, b)
          BY <1>4, <3>2
        <4>2. s[Place(f, i)] = c.regexps[Place(f, i)] /\ Place(f, i) \in 1 .. Len(s)
          BY <2>8, <4>1
        <4> QED
          BY <4>1, <4>2
      <3> QED
        BY <2>2, <3>1, <3>2
    <2>10. ASSUME NEW k \in 1 .. Len(s)
           PROVE  (\E i \in Among(f, n + 1) : Place(f, i) = k) /\ s[k].matches = 0
      <3>1. CASE k = Len(c.regexps) + 1
        BY <2>2, <2>5, <2>6, <2>8, <3>1
      <3>2. CASE k \in 1 .. Len(c.regexps)
        BY <1>4, <2>2, <2>8, <3>2
      <3> QED
        BY <2>8, <3>1, <3>2
    <2> QED
      BY <1>2, <1>3, <1>4, <2>4, <2>8, <2>9, <2>10 DEF ReadOK, s
  <1>6. CASE ~(Has(l, "pattern") /\ p \in Compiles)
    <2>1. n + 1 \notin Accepted(f)
      BY <1>6 DEF Accepted
    <2>2. Among(f, n + 1) = Among(f, n)
      BY <2>1, AcceptedType DEF Among
    <2>3. d.regexps = c.regexps
      BY <1>2, <1>6
    <2> HIDE DEF d
    <2> QED
      BY <1>2, <1>3, <1>4, <2>2, <2>3 DEF ReadOK, d
  <1> QED
    BY <1>5, <1>6

(* f2b_filter_load_file, once the file is open. *)
LEMMA ReadAll ==
    ASSUME NEW f \in Seq(Line), NEW c \in Configuration
    PROVE  ReadOK(FoldLeft(ReadLine, flush(c), f), f, c.icase, Len(f))
  <1>1. PICK r : /\ r[0] = flush(c)
                 /\ \A n \in Nat : n + 1 <= Len(f) => r[n + 1] = ReadLine(r[n], f[n + 1])
                 /\ FoldLeft(ReadLine, flush(c), f) = r[Len(f)]
    BY FlushType, FileLoop
  <1> DEFINE T == {n \in Nat : n <= Len(f) => ReadOK(r[n], f, c.icase, n)}
  <1>2. 0 \in T
    <2>1. ReadOK(flush(c), f, flush(c).icase, 0)
      BY FlushType, ReadFirst
    <2> QED
      BY <1>1, <2>1, FlushType
  <1>3. ASSUME NEW n \in T PROVE n + 1 \in T
    <2>1. ASSUME n + 1 <= Len(f) PROVE ReadOK(r[n + 1], f, c.icase, n + 1)
      <3>1. n \in Nat /\ n <= Len(f) /\ ReadOK(r[n], f, c.icase, n)
        BY <2>1
      <3>2. r[n + 1] = ReadLine(r[n], f[n + 1])
        BY <1>1, <2>1, <3>1
      <3> QED
        BY <2>1, <3>1, <3>2, ReadNext
    <2> QED
      BY <2>1
  <1>4. Len(f) \in Nat
    OBVIOUS
  <1>5. Len(f) \in T
    <2>1. T \in SUBSET Nat
      OBVIOUS
    <2> HIDE DEF T
    <2> QED
      BY <1>2, <1>3, <1>4, <2>1, Inductive
  <1> QED
    BY <1>1, <1>5

(* The places of the patterns are in the order of their lines. *)
LEMMA PlaceGrows ==
    ASSUME NEW f \in Seq(Line), NEW i \in Accepted(f), NEW j \in Accepted(f), i < j
    PROVE  Place(f, i) < Place(f, j)
  <1>1. i \in Int /\ j \in Int
    BY AcceptedType
  <1>2. j \in Among(f, j) /\ Among(f, i) \subseteq Among(f, j) \ {j}
    <2>1. \A k \in Accepted(f) : k <= i => k <= j /\ k # j
      BY <1>1, AcceptedType
    <2>2. j \in Among(f, j)
      BY <1>1 DEF Among
    <2>3. \A k \in Among(f, i) : k \in Accepted(f) /\ k <= i
      BY DEF Among
    <2>4. \A k \in Among(f, i) : k \in Among(f, j) /\ k # j
      BY <2>1, <2>3 DEF Among
    <2> QED
      BY <2>2, <2>4
  <1>3. IsFiniteSet(Among(f, j)) /\ Cardinality(Among(f, j)) \in Nat /\ Cardinality(Among(f, i)) \in Nat
    BY AmongFacts
  <1>4. IsFiniteSet(Among(f, j) \ {j}) /\ Cardinality(Among(f, j) \ {j}) = Cardinality(Among(f, j)) - 1
    BY <1>2, <1>3, FS_RemoveElement
  <1>5. Cardinality(Among(f, i)) <= Cardinality(Among(f, j) \ {j})
    BY <1>2, <1>4, FS_Subset
  <1>6. Place(f, i) = Cardinality(Among(f, i)) /\ Place(f, j) = Cardinality(Among(f, j))
    BY AmongFacts
  <1> QED
    BY <1>3, <1>4, <1>5, <1>6

---------------------------------------------------------------------------
(* The parts of the two invariants, for a configuration c, a content f that *)
(* was loaded with the switch for the case at b, the lines w matched since, *)
(* and the last answer a.                                                   *)

Listed(c, f, b) ==
    /\ Len(c.regexps) = Cardinality(Accepted(f))
    /\ c.icase = IcaseAt(f, Len(f) + 1, b)
    /\ \A i \in Accepted(f) :
          /\ Place(f, i) \in 1 .. Len(c.regexps)
          /\ c.regexps[Place(f, i)].pattern = f[i].pattern
          /\ c.regexps[Place(f, i)].score = ScoreAt(f, i)
          /\ c.regexps[Place(f, i)].icase = IcaseAt(f, i, b)
    /\ \A k \in 1 .. Len(c.regexps) : \E i \in Accepted(f) : Place(f, i) = k

MatchingOf(c, t) == {i \in DOMAIN c.regexps : Matches(c.regexps[i], t)}
AnsweringOf(c, t) == {i \in MatchingOf(c, t) : <<c.regexps[i].pattern, t>> \notin NoHost}
TriedOf(c, t) == {i \in MatchingOf(c, t) : \A j \in AnsweringOf(c, t) : i <= j}
IsTried(c, i, t) == i \in MatchingOf(c, t) /\ \A j \in AnsweringOf(c, t) : i <= j

Counted(c, w) ==
    \A i \in DOMAIN c.regexps :
        c.regexps[i].matches = Cardinality({n \in DOMAIN w : IsTried(c, i, w[n])})

Answered(c, f, a) ==
    a.found => \E i \in Accepted(f) :
        /\ Place(f, i) \in AnsweringOf(c, a.line)
        /\ \A j \in Accepted(f) : j < i => Place(f, j) \notin AnsweringOf(c, a.line)
        /\ a.score = ScoreAt(f, i)

(* What a load leaves. *)
LEMMA LoadedFile ==
    ASSUME NEW f \in Seq(Line), NEW c, NEW b, ReadOK(c, f, b, Len(f))
    PROVE  c \in Configuration /\ Listed(c, f, b) /\ Counted(c, <<>>)
  <1>1. Among(f, Len(f)) = Accepted(f)
    BY AcceptedType DEF Among
  <1>2. Listed(c, f, b)
    BY <1>1 DEF ReadOK, Listed
  <1>3. c \in Configuration /\ DOMAIN c.regexps = 1 .. Len(c.regexps)
    BY Fields DEF ReadOK
  <1>4. \A i : {n \in DOMAIN <<>> : IsTried(c, i, <<>>[n])} = {}
    OBVIOUS
  <1>5. Cardinality({}) = 0
    BY FS_EmptySet
  <1>6. Counted(c, <<>>)
    BY <1>3, <1>4, <1>5 DEF ReadOK, Counted
  <1> QED
    BY <1>2, <1>3, <1>6

LEMMA LoadedNothing ==
    ASSUME NEW c \in Configuration, c.regexps = <<>>
    PROVE  Listed(c, <<>>, c.icase) /\ Counted(c, <<>>)
  <1>1. Accepted(<<>>) = {} /\ Len(c.regexps) = 0 /\ DOMAIN c.regexps = {} /\ Len(<<>>) = 0
    BY DEF Accepted
  <1>2. Cardinality(Accepted(<<>>)) = 0
    BY <1>1, FS_EmptySet
  <1>3. c.icase = IcaseAt(<<>>, Len(<<>>) + 1, c.icase)
    BY <1>1, IcaseBefore
  <1> QED
    BY <1>1, <1>2, <1>3 DEF Listed, Counted

(* The first of the patterns that give a host. *)
LEMMA FirstExists ==
    ASSUME NEW c \in Configuration, NEW t, AnsweringOf(c, t) # {}
    PROVE  /\ FirstOf(AnsweringOf(c, t)) \in 1 .. Len(c.regexps)
           /\ FirstOf(AnsweringOf(c, t)) \in AnsweringOf(c, t)
           /\ \A i \in AnsweringOf(c, t) : FirstOf(AnsweringOf(c, t)) <= i
  <1> DEFINE S == AnsweringOf(c, t)
  <1>1. S \subseteq 1 .. Len(c.regexps) /\ Len(c.regexps) \in Nat
    BY Fields DEF AnsweringOf, MatchingOf
  <1>2. S \in SUBSET Nat
    BY <1>1
  <1> HIDE DEF S
  <1>3. S # {}
    BY DEF S
  <1>4. \E k \in S : \A i \in S : k <= i
    BY <1>2, <1>3, Smallest
  <1>5. FirstOf(S) \in S /\ \A i \in S : FirstOf(S) <= i
    BY <1>4 DEF FirstOf
  <1> QED
    BY <1>1, <1>5 DEF S

Good(c, f, b, w, a) ==
    c \in Configuration /\ Listed(c, f, b) /\ Counted(c, w) /\ Answered(c, f, a)

Raised(c, t) ==
    [c EXCEPT !.regexps =
        [i \in DOMAIN c.regexps |->
            [c.regexps[i] EXCEPT !.matches = IF i \in TriedOf(c, t) THEN @ + 1 ELSE @]]]
Told(c, t) ==
    IF AnsweringOf(c, t) = {} THEN [line |-> t, score |-> 0, found |-> FALSE]
    ELSE [line |-> t, score |-> c.regexps[FirstOf(AnsweringOf(c, t))].score, found |-> TRUE]

(* f2b_filter_match. *)
LEMMA MatchCounts ==
    ASSUME NEW c \in Configuration, NEW f \in Seq(Line), NEW b, NEW w \in Seq(Text), NEW t \in Text,
           Listed(c, f, b), Counted(c, w)
    PROVE  Good(Raised(c, t), f, b, Append(w, t), Told(c, t))
  <1> DEFINE d == Raised(c, t)
             a == Told(c, t)
             s == c.regexps
             u == d.regexps
             Up(i) == i \in TriedOf(c, t)
  <1>2. s \in Seq(Regexp) /\ Len(s) \in Nat /\ DOMAIN s = 1 .. Len(s) /\ c.rlast = Len(s)
    BY Fields
  <1> DEFINE v == [i \in DOMAIN s |-> [s[i] EXCEPT !.matches = IF Up(i) THEN @ + 1 ELSE @]]
  <1>3. d = [c EXCEPT !.regexps = v]
    BY DEF Raised
  <1>4. c \in [regexps : Seq(Regexp), rlast : Nat, icase : BOOLEAN, defscore : Int, ready : BOOLEAN]
    BY DEF Configuration
  <1> HIDE DEF a, d, v
  <1>5. u = v
    BY <1>3, <1>4
  <1>6. ASSUME NEW i \in 1 .. Len(s)
        PROVE  /\ s[i] \in Regexp /\ u[i] \in Regexp
               /\ u[i].pattern = s[i].pattern /\ u[i].icase = s[i].icase /\ u[i].score = s[i].score
               /\ u[i].matches = IF Up(i) THEN s[i].matches + 1 ELSE s[i].matches
    <2>1. s[i] \in Regexp
      BY <1>2
    <2> DEFINE e == s[i]
               g == u[i]
               m == IF Up(i) THEN s[i].matches + 1 ELSE s[i].matches
    <2>2. g = [e EXCEPT !.matches = m]
      BY <1>2, <1>5 DEF v
    <2>3. e \in [pattern : Pattern, icase : BOOLEAN, score : Int, matches : Nat]
      BY <2>1 DEF Regexp, e
    <2>4. m \in Nat
      BY <2>3
    <2> HIDE DEF e, g, m, Up
    <2>5. /\ g \in [pattern : Pattern, icase : BOOLEAN, score : Int, matches : Nat]
          /\ g.pattern = e.pattern /\ g.icase = e.icase /\ g.score = e.score
          /\ g.matches = m
      BY <2>2, <2>3, <2>4
    <2> QED
      BY <2>1, <2>5 DEF Regexp, e, g, m
  <1>7. u \in Seq(Regexp) /\ Len(u) = Len(s) /\ DOMAIN u = DOMAIN s
    <2>1. DOMAIN u = 1 .. Len(s) /\ \A i \in 1 .. Len(s) : u[i] \in Regexp
      BY <1>2, <1>5, <1>6 DEF v
    <2>2. u = [i \in 1 .. Len(s) |-> u[i]]
      BY <1>2, <1>5 DEF v
    <2> HIDE DEF s, u
    <2> QED
      BY <1>2, <2>1, <2>2
  <1>8. d \in Configuration /\ d.icase = c.icase
    <2>1. d \in [regexps : Seq(Regexp), rlast : Nat, icase : BOOLEAN, defscore : Int, ready : BOOLEAN]
          /\ d.rlast = c.rlast /\ d.icase = c.icase
      BY <1>3, <1>4, <1>5, <1>7
    <2> QED
      BY <1>2, <1>7, <2>1 DEF Configuration
  <1> HIDE DEF u, Up
  <1>9. Listed(d, f, b)
    BY <1>6, <1>7, <1>8 DEF Listed, u
  <1>10. \A x : MatchingOf(d, x) = MatchingOf(c, x)
    BY <1>2, <1>6, <1>7 DEF MatchingOf, Matches, u
  <1>11. \A x : AnsweringOf(d, x) = AnsweringOf(c, x)
    <2> SUFFICES ASSUME NEW x PROVE AnsweringOf(d, x) = AnsweringOf(c, x)
      OBVIOUS
    <2>1. \A i \in MatchingOf(c, x) : i \in 1 .. Len(s)
      BY <1>2 DEF MatchingOf
    <2>2. \A i \in MatchingOf(c, x) : d.regexps[i].pattern = c.regexps[i].pattern
      BY <1>6, <2>1 DEF u
    <2>3. MatchingOf(d, x) = MatchingOf(c, x)
      BY <1>10
    <2> HIDE DEF s
    <2> QED
      BY <2>2, <2>3 DEF AnsweringOf
  <1>12. \A i, x : IsTried(d, i, x) <=> IsTried(c, i, x)
    BY <1>10, <1>11 DEF IsTried
  <1>13. Counted(d, Append(w, t))
    <2> DEFINE z == Append(w, t)
               Old(i) == {n \in DOMAIN w : IsTried(c, i, w[n])}
               Now(i) == {n \in DOMAIN z : IsTried(d, i, z[n])}
    <2>1. /\ z \in Seq(Text) /\ Len(z) = Len(w) + 1 /\ Len(w) \in Nat /\ DOMAIN w = 1 .. Len(w)
          /\ \A n \in 1 .. Len(w) : z[n] = w[n]
          /\ z[Len(w) + 1] = t
      BY AppendProperties
    <2>2. DOMAIN z = 1 .. Len(w) + 1
      BY <2>1
    <2> HIDE DEF z
    <2>3. ASSUME NEW i \in 1 .. Len(s)
          PROVE  /\ Old(i) \subseteq 1 .. Len(w)
                 /\ Now(i) = IF Up(i) THEN Old(i) \cup {Len(w) + 1} ELSE Old(i)
      <3>1. IsTried(c, i, t) <=> Up(i)
        BY DEF IsTried, TriedOf, Up
      <3>2. \A n \in 1 .. Len(w) : IsTried(d, i, z[n]) <=> IsTried(c, i, w[n])
        BY <1>12, <2>1
      <3>3. IsTried(d, i, z[Len(w) + 1]) <=> Up(i)
        BY <1>12, <2>1, <3>1
      <3>4. \A n \in 1 .. Len(w) + 1 : n = Len(w) + 1 \/ n \in 1 .. Len(w)
        BY <2>1
      <3>5. Len(w) + 1 \notin 1 .. Len(w) /\ 1 .. Len(w) \subseteq 1 .. Len(w) + 1
            /\ Len(w) + 1 \in 1 .. Len(w) + 1
        BY <2>1
      <3> QED
        BY <2>1, <2>2, <3>2, <3>3, <3>4, <3>5
    <2>4. ASSUME NEW i \in 1 .. Len(s) PROVE u[i].matches = Cardinality(Now(i))
      <3>1. s[i].matches = Cardinality(Old(i))
        <4>1. i \in DOMAIN c.regexps
          BY <1>2
        <4> QED
          BY <4>1 DEF Counted
      <3>2. IsFiniteSet(Old(i)) /\ Len(w) + 1 \notin Old(i)
        <4>0. 1 \in Int /\ Len(w) \in Int
          BY <2>1
        <4>1. IsFiniteSet(1 .. Len(w))
          BY <4>0, FS_Interval
        <4>2. Len(w) + 1 \notin 1 .. Len(w)
          BY <2>1
        <4> HIDE DEF Old
        <4> QED
          BY <2>3, <4>1, <4>2, FS_Subset
      <3> HIDE DEF Old, Now
      <3>3. Cardinality(Old(i) \cup {Len(w) + 1}) = Cardinality(Old(i)) + 1
        BY <3>2, FS_AddElement
      <3> QED
        BY <1>6, <2>3, <3>1, <3>3 DEF u
    <2> QED
      BY <1>2, <1>7, <2>4 DEF Counted, u, z
  <1>14. Answered(d, f, a)
    <2>0. CASE AnsweringOf(c, t) = {}
      <3>1. ~a.found
        BY <2>0 DEF a, Told
      <3> QED
        BY <3>1 DEF Answered
    <2>1. CASE AnsweringOf(c, t) # {}
      <3> DEFINE k == FirstOf(AnsweringOf(c, t))
      <3>1. k \in 1 .. Len(s) /\ k \in AnsweringOf(c, t) /\ \A j \in AnsweringOf(c, t) : k <= j
        BY <2>1, FirstExists
      <3>2. a.line = t /\ a.score = s[k].score
        BY <2>1 DEF a, Told
      <3> HIDE DEF k
      <3>3. PICK q \in Accepted(f) : Place(f, q) = k
        BY <3>1 DEF Listed
      <3>4. s[k].score = ScoreAt(f, q)
        BY <3>3 DEF Listed
      <3>5. k \in AnsweringOf(d, t)
        BY <1>11, <3>1
      <3>6. ASSUME NEW j \in Accepted(f), j < q, Place(f, j) \in AnsweringOf(d, t) PROVE FALSE
        <4>1. Place(f, j) < k
          BY <3>3, <3>6, PlaceGrows
        <4>2. k <= Place(f, j)
          BY <1>11, <3>1, <3>6
        <4>3. Place(f, j) \in Int /\ k \in Int
          BY <1>2, <3>1 DEF Listed
        <4> QED
          BY <4>1, <4>2, <4>3
      <3> QED
        BY <3>2, <3>3, <3>4, <3>5, <3>6 DEF Answered
    <2> QED
      BY <2>0, <2>1
  <1> QED
    BY <1>8, <1>9, <1>13, <1>14 DEF Good, d, a

---------------------------------------------------------------------------
(* The invariant: the module holds what was loaded, unless it is unloaded,  *)
(* and counts are those of the lines matched since.                         *)

FilterInv ==
    /\ patterns \in Files /\ module \in {"off", "on"}
    /\ cfg \in Configuration /\ loaded \in Seq(Line) /\ fed \in Seq(Text)
    /\ Listed(cfg, loaded, earlier) /\ Counted(cfg, fed) /\ Answered(cfg, loaded, answer)

LEMMA BlankAnswer == \A c, f : Answered(c, f, NoAnswer)
  BY DEF Answered, NoAnswer

LEMMA FilterInvInit == FilterInit => FilterInv
  <1> SUFFICES ASSUME FilterInit PROVE FilterInv
    OBVIOUS
  <1>1. cfg \in Configuration /\ cfg.regexps = <<>> /\ loaded = <<>> /\ fed = <<>>
        /\ cfg.icase = FALSE /\ earlier = FALSE
        /\ answer = NoAnswer /\ patterns \in Files /\ module = "off"
    BY CreateType DEF FilterInit
  <1>2. <<>> \in Seq(Line) /\ <<>> \in Seq(Text)
    OBVIOUS
  <1>3. Listed(cfg, <<>>, FALSE) /\ Counted(cfg, <<>>)
    BY <1>1, LoadedNothing
  <1> QED
    BY <1>1, <1>2, <1>3, BlankAnswer DEF FilterInv

(* Every load leaves the module as its file says. *)
LEMMA LoadGood ==
    ASSUME NEW c \in Configuration, c.regexps = <<>>, patterns \in Files, Loaded, earlier' = c.icase,
           cfg' = f2b_filter_load_file(c), patterns' = patterns, module' \in {"off", "on"}
    PROVE  FilterInv'
  <1>1. fed' = <<>> /\ answer' = NoAnswer /\ patterns' \in Files /\ <<>> \in Seq(Text) /\ <<>> \in Seq(Line)
    BY DEF Loaded
  <1>2. CASE patterns = Missing
    <2>1. cfg' = c /\ loaded' = <<>>
      BY <1>2 DEF f2b_filter_load_file, Loaded
    <2>2. Listed(c, <<>>, c.icase) /\ Counted(c, <<>>)
      BY LoadedNothing
    <2> QED
      BY <1>1, <2>1, <2>2, BlankAnswer DEF FilterInv
  <1>3. CASE patterns # Missing
    <2>1. patterns \in Seq(Line)
      BY <1>3
    <2>2. cfg' = FoldLeft(ReadLine, flush(c), patterns) /\ loaded' = patterns
      BY <1>3 DEF f2b_filter_load_file, Loaded
    <2>3. ReadOK(FoldLeft(ReadLine, flush(c), patterns), patterns, c.icase, Len(patterns))
      BY <2>1, ReadAll
    <2>4. cfg' \in Configuration /\ Listed(cfg', loaded', c.icase) /\ Counted(cfg', <<>>)
      BY <2>1, <2>2, <2>3, LoadedFile
    <2> QED
      BY <1>1, <2>1, <2>2, <2>4, BlankAnswer DEF FilterInv
  <1> QED
    BY <1>2, <1>3

LEMMA FilterInvStep == FilterInv /\ [FilterNext]_filterVars => FilterInv'
  <1> SUFFICES ASSUME FilterInv, [FilterNext]_filterVars PROVE FilterInv'
    OBVIOUS
  <1>1. CASE EditPatterns
    BY <1>1 DEF EditPatterns, FilterInv
  <1>2. CASE f2b_filter_init
    <2> DEFINE b == FoldLeft(filter_config, create, Section)
               c == f2b_filter_load_file(b)
    <2>1. CASE c.regexps # <<>>
      <3>1. /\ cfg' = c /\ module' = "on" /\ Loaded /\ patterns' = patterns
            /\ earlier' = IcaseAt(Section, Len(Section) + 1, FALSE)
        BY <1>2, <2>1 DEF f2b_filter_init
      <3>2. /\ b \in Configuration /\ b.regexps = <<>>
            /\ b.icase = IcaseAt(Section, Len(Section) + 1, FALSE)
        BY SectionType
      <3> HIDE DEF b
      <3>3. earlier' = b.icase
        BY <3>1, <3>2
      <3> QED
        BY <3>1, <3>2, <3>3, LoadGood DEF FilterInv
    <2>2. CASE c.regexps = <<>>
      BY <1>2, <2>2 DEF f2b_filter_init, FilterInv
    <2> QED
      BY <2>1, <2>2
  <1>3. CASE f2b_filter_cmd_reload
    <2>1. /\ cfg' = f2b_filter_load_file(flush(cfg)) /\ Loaded /\ patterns' = patterns
          /\ module' = module /\ earlier' = IcaseAt(loaded, Len(loaded) + 1, earlier)
      BY <1>3 DEF f2b_filter_cmd_reload
    <2>2. flush(cfg) \in Configuration /\ flush(cfg).regexps = <<>> /\ flush(cfg).icase = cfg.icase
      BY FlushType DEF FilterInv
    <2>3. earlier' = flush(cfg).icase
      BY <2>1, <2>2 DEF FilterInv, Listed
    <2> QED
      BY <2>1, <2>2, <2>3, LoadGood DEF FilterInv
  <1>4. CASE f2b_filter_destroy
    <2>1. cfg' = create /\ answer' = NoAnswer /\ loaded' = <<>> /\ fed' = <<>> /\ patterns' = patterns
          /\ module' = "off" /\ earlier' = FALSE
      BY <1>4 DEF f2b_filter_destroy
    <2>2. <<>> \in Seq(Line) /\ <<>> \in Seq(Text)
      OBVIOUS
    <2>3. Listed(create, <<>>, FALSE) /\ Counted(create, <<>>)
      BY CreateType, LoadedNothing
    <2> QED
      BY <2>1, <2>2, <2>3, CreateType, BlankAnswer DEF FilterInv
  <1>5. ASSUME NEW t \in Text, f2b_filter_match(t) PROVE FilterInv'
    <2>1. /\ cfg \in Configuration /\ loaded \in Seq(Line) /\ fed \in Seq(Text)
          /\ Listed(cfg, loaded, earlier) /\ Counted(cfg, fed)
          /\ fed' = Append(fed, t) /\ patterns' = patterns /\ module' = module /\ loaded' = loaded
          /\ earlier' = earlier /\ patterns \in Files /\ module \in {"off", "on"}
      BY <1>5 DEF FilterInv, f2b_filter_match
    <2>2. Matching(t) = MatchingOf(cfg, t) /\ fed' \in Seq(Text)
      BY <2>1 DEF Matching, MatchingOf
    <2>3. Answering(t) = AnsweringOf(cfg, t)
      BY <2>2 DEF Answering, AnsweringOf
    <2>4. Tried(t) = TriedOf(cfg, t)
      BY <2>2, <2>3 DEF Tried, TriedOf
    <2>5. cfg' = Raised(cfg, t) /\ answer' = Told(cfg, t)
      BY <1>5, <2>3, <2>4 DEF f2b_filter_match, Raised, Told
    <2>6. Good(Raised(cfg, t), loaded, earlier, Append(fed, t), Told(cfg, t))
      BY <2>1, MatchCounts
    <2> QED
      BY <2>1, <2>2, <2>5, <2>6 DEF FilterInv, Good
  <1>6. CASE UNCHANGED filterVars
    BY <1>6 DEF filterVars, FilterInv
  <1> QED
    BY <1>1, <1>2, <1>3, <1>4, <1>5, <1>6 DEF FilterNext

LEMMA FilterInvariance == FilterSpec => []FilterInv
  BY FilterInvInit, FilterInvStep, PTL DEF FilterSpec

(* After f2b_filter_init and any number of reloads the patterns in use are  *)
(* those of the file as it was last read, in its order and with its scores  *)
(* cut to 16 bits, whatever was loaded before (src/filter.c:157, flush of   *)
(* the modules). The switch for the case is that of the last `set: icase`   *)
(* above a pattern, in the file or in what was read before it.              *)
THEOREM PatternsAreOfFile == FilterSpec => []PatternsOfFile
  <1>1. FilterInv => PatternsOfFile
    BY Fields DEF FilterInv, Listed, PatternsOfFile
  <1> QED
    BY <1>1, FilterInvariance, PTL

(* f2b_filter_match gives a line the score of the first pattern of the file *)
(* that matches it and gives a host, and counts the line for this pattern   *)
(* and for those before it that match without a host.                       *)
THEOREM FirstMatchIsCounted == FilterSpec => []FirstMatchCounts
  <1>1. FilterInv => FirstMatchCounts
    BY DEF FilterInv, Counted, Answered, IsTried, MatchingOf, Matching, AnsweringOf, Answering,
           FirstMatchCounts
  <1> QED
    BY <1>1, FilterInvariance, PTL

---------------------------------------------------------------------------
(* The configuration. *)

HIDE FilterAssumption

(* Places in the order of reading, and their enumerations. *)

Spot == Nat \X Nat

LEMMA BeforeOrder ==
    /\ \A a \in Spot : ~Before(a, a)
    /\ \A a, b \in Spot : Before(a, b) => ~Before(b, a)
    /\ \A a, b \in Spot : a = b \/ Before(a, b) \/ Before(b, a)
    /\ \A a, b, c \in Spot : Before(a, b) /\ Before(b, c) => Before(a, c)
  <1>1. \A a \in Spot : a = <<a[1], a[2]>> /\ a[1] \in Nat /\ a[2] \in Nat
    BY DEF Spot
  <1>2. \A a, b \in Spot : a = b <=> (a[1] = b[1] /\ a[2] = b[2])
    BY <1>1
  <1> QED
    BY <1>1, <1>2 DEF Before

(* e lists the places of S in their order. *)
Enum(S, e) ==
    /\ e \in Seq(S)
    /\ \A a \in S : \E i \in DOMAIN e : e[i] = a
    /\ \A i, j \in DOMAIN e : i < j => Before(e[i], e[j])

LEMMA EnumNone == Enum({}, <<>>)
  BY DEF Enum

LEMMA EnumAdd ==
    ASSUME NEW S \in SUBSET Spot, NEW e, Enum(S, e), NEW a \in Spot, \A b \in S : Before(b, a)
    PROVE  Enum(S \cup {a}, Append(e, a))
  <1> DEFINE u == Append(e, a)
  <1>1. e \in Seq(S) /\ Len(e) \in Nat /\ DOMAIN e = 1 .. Len(e) /\ \A i \in 1 .. Len(e) : e[i] \in S
    BY DEF Enum
  <1>2. e \in Seq(S \cup {a})
    BY <1>1
  <1>3. /\ u \in Seq(S \cup {a}) /\ DOMAIN u = 1 .. Len(e) + 1 /\ u[Len(e) + 1] = a
        /\ \A i \in 1 .. Len(e) : u[i] = e[i]
    BY <1>1, <1>2, AppendProperties
  <1>4. \A i \in 1 .. Len(e) + 1 : i = Len(e) + 1 \/ i \in 1 .. Len(e)
    BY <1>1
  <1> HIDE DEF u
  <1>5. \A b \in S \cup {a} : \E i \in DOMAIN u : u[i] = b
    <2>1. 1 .. Len(e) \subseteq 1 .. Len(e) + 1 /\ Len(e) + 1 \in 1 .. Len(e) + 1
      BY <1>1
    <2> QED
      BY <1>1, <1>3, <2>1 DEF Enum
  <1>6. \A i, j \in DOMAIN u : i < j => Before(u[i], u[j])
    <2> SUFFICES ASSUME NEW i \in 1 .. Len(e) + 1, NEW j \in 1 .. Len(e) + 1, i < j
                 PROVE  Before(u[i], u[j])
      BY <1>3
    <2>1. i \in 1 .. Len(e)
      BY <1>1
    <2>2. CASE j = Len(e) + 1
      BY <1>1, <1>3, <2>1, <2>2
    <2>3. CASE j \in 1 .. Len(e)
      BY <1>1, <1>3, <2>1, <2>3 DEF Enum
    <2> QED
      BY <1>4, <2>2, <2>3
  <1> QED
    BY <1>3, <1>5, <1>6 DEF Enum, u

LEMMA EnumAt ==
    ASSUME NEW S \in SUBSET Spot, NEW e, Enum(S, e)
    PROVE  /\ IsFiniteSet(S) /\ Cardinality(S) = Len(e)
           /\ \A i \in 1 .. Len(e) : At(S, i) = e[i]
  <1> DEFINE n == Len(e)
  <1>1. /\ e \in Seq(S) /\ n \in Nat /\ DOMAIN e = 1 .. n /\ \A i \in 1 .. n : e[i] \in S /\ e[i] \in Spot
        /\ \A a \in S : \E i \in 1 .. n : e[i] = a
        /\ \A i, j \in 1 .. n : i < j => Before(e[i], e[j])
    BY DEF Enum
  <1>2. \A i, j \in 1 .. n : e[i] = e[j] => i = j
    <2> SUFFICES ASSUME NEW i \in 1 .. n, NEW j \in 1 .. n, e[i] = e[j], i # j PROVE FALSE
      OBVIOUS
    <2>1. i < j \/ j < i
      OBVIOUS
    <2> QED
      BY <1>1, <2>1, BeforeOrder
  <1>3. \A i, j \in 1 .. n : Before(e[j], e[i]) <=> j < i
    <2> SUFFICES ASSUME NEW i \in 1 .. n, NEW j \in 1 .. n PROVE Before(e[j], e[i]) <=> j < i
      OBVIOUS
    <2>1. j < i \/ i = j \/ i < j
      OBVIOUS
    <2>2. ~(i < j /\ j < i) /\ (i = j => ~(j < i))
      OBVIOUS
    <2> HIDE DEF n
    <2> QED
      BY <1>1, <2>1, <2>2, BeforeOrder
  <1> HIDE DEF n
  <1>4. ASSUME NEW k \in 0 .. n
        PROVE  /\ IsFiniteSet({e[j] : j \in 1 .. k}) /\ Cardinality({e[j] : j \in 1 .. k}) = k
    <2> DEFINE I == 1 .. k
               T == {e[j] : j \in 1 .. k}
               f == [j \in I |-> e[j]]
    <2>1. f \in Bijection(I, T)
      <3>1. \A i, j \in I : i \in 1 .. n /\ j \in 1 .. n
        BY <1>1
      <3>2. \A i, j \in I : f[i] = f[j] => i = j
        BY <1>2, <3>1
      <3>3. f \in [I -> T] /\ \A t \in T : \E j \in I : f[j] = t
        OBVIOUS
      <3> QED
        BY <3>2, <3>3 DEF Bijection, Injection, Surjection, IsInjective
    <2>2. IsFiniteSet(I) /\ Cardinality(I) = k
      <3>1. 1 \in Int /\ k \in Int /\ k \in Nat
        BY <1>1
      <3>2. IsFiniteSet(1 .. k) /\ Cardinality(1 .. k) = IF 1 > k THEN 0 ELSE k - 1 + 1
        BY <3>1, FS_Interval
      <3> QED
        BY <3>1, <3>2
    <2>3. ExistsBijection(I, T)
      BY <2>1 DEF ExistsBijection
    <2> HIDE DEF I, T
    <2>4. IsFiniteSet(T) /\ Cardinality(T) = Cardinality(I)
      BY <2>2, <2>3, FS_Bijection
    <2> QED
      BY <2>2, <2>4 DEF T
  <1>5. S = {e[j] : j \in 1 .. n}
    BY <1>1
  <1>6. ASSUME NEW i \in 1 .. n PROVE Cardinality({b \in S : Before(b, e[i])}) = i - 1
    <2>1. i - 1 \in 0 .. n /\ 1 .. i - 1 \subseteq 1 .. n /\ \A j \in 1 .. n : j < i <=> j \in 1 .. i - 1
      BY <1>1
    <2>2. {b \in S : Before(b, e[i])} = {e[j] : j \in 1 .. i - 1}
      BY <1>3, <1>5, <2>1
    <2> QED
      BY <1>4, <2>1, <2>2
  <1>7. ASSUME NEW i \in 1 .. n PROVE At(S, i) = e[i]
    <2>1. e[i] \in S /\ Cardinality({b \in S : Before(b, e[i])}) = i - 1
      BY <1>1, <1>6
    <2>2. \A a \in S : Cardinality({b \in S : Before(b, a)}) = i - 1 => a = e[i]
      <3> SUFFICES ASSUME NEW j \in 1 .. n, Cardinality({b \in S : Before(b, e[j])}) = i - 1
                   PROVE  e[j] = e[i]
        BY <1>1
      <3>1. j - 1 = i - 1
        BY <1>6
      <3>2. j = i
        BY <3>1
      <3> QED
        BY <3>2
    <2> QED
      BY <2>1, <2>2 DEF At
  <1>8. n \in 0 .. n
    BY <1>1
  <1> QED
    BY <1>4, <1>5, <1>7, <1>8 DEF n

---------------------------------------------------------------------------
(* What a script R says, a function from places to lines. *)

Heads(R) == {h \in DOMAIN R : "header" \in DOMAIN R[h]}
TitleAt(R, h) == Meaning[R[h].header]

Above(R, a) == {h \in Heads(R) : h[1] = a[1] /\ h[2] < a[2]}
Nearest(S) == CHOOSE h \in S : \A k \in S : ~Before(h, k)
TitleOf(R, a) == IF Above(R, a) = {} THEN Unknown ELSE TitleAt(R, Nearest(Above(R, a)))

IsParameter(l) ==
    /\ {"key", "value"} \subseteq DOMAIN l
    /\ "" \notin {l.key, l.value} /\ {l.key, l.value} \cap TooLong = {}
Given(R, s) == {a \in DOMAIN R : IsParameter(R[a]) /\ TitleOf(R, a) = s}

MentionsOf(R, t) == {h \in Heads(R) : TitleAt(R, h) # Unknown /\ TitleAt(R, h).type = t}
FirstsOf(R, t) ==
    {h \in MentionsOf(R, t) :
        \A k \in MentionsOf(R, t) : TitleAt(R, k).name = TitleAt(R, h).name => ~Before(k, h)}

(* The kinds of lines exclude each other. *)
LEMMA ConfigLineKinds ==
    ASSUME NEW l \in ConfigLine
    PROVE  \/ /\ "header" \in DOMAIN l /\ l.header \in Header
              /\ "comment" \notin DOMAIN l /\ "key" \notin DOMAIN l
           \/ /\ {"key", "value"} \subseteq DOMAIN l /\ l.key \in Key /\ l.value \in Value
              /\ "comment" \notin DOMAIN l /\ "header" \notin DOMAIN l
           \/ /\ "comment" \in DOMAIN l /\ "header" \notin DOMAIN l /\ "key" \notin DOMAIN l
  <1>1. CASE l \in [header : Header]
    <2>1. DOMAIN l = {"header"} /\ l.header \in Header
      BY <1>1
    <2> QED
      BY <2>1
  <1>2. CASE l \in [key : Key, value : Value]
    <2>1. DOMAIN l = {"key", "value"} /\ l.key \in Key /\ l.value \in Value
      BY <1>2
    <2> QED
      BY <2>1
  <1>3. CASE l \in [comment : {TRUE}]
    <2>1. DOMAIN l = {"comment"}
      BY <1>3
    <2> QED
      BY <2>1
  <1> QED
    BY <1>1, <1>2, <1>3 DEF ConfigLine

(* The nearest header above a line exists if there is one. *)
LEMMA NearestIn ==
    ASSUME NEW m \in Nat, NEW S \in SUBSET Spot, S # {}, NEW n \in Nat,
           \A h \in S : h[1] = m /\ h[2] < n
    PROVE  Nearest(S) \in S /\ \A k \in S : ~Before(Nearest(S), k)
  <1> DEFINE T == {n - h[2] : h \in S}
  <1>1. \A h \in S : h[1] \in Nat /\ h[2] \in Nat /\ n - h[2] \in Nat
    BY DEF Spot
  <1>2. T \in SUBSET Nat /\ T # {}
    BY <1>1
  <1>3. PICK d \in T : \A e \in T : d <= e
    <2> HIDE DEF T
    <2> QED
      BY <1>2, Smallest
  <1>4. PICK h \in S : d = n - h[2]
    BY <1>3
  <1>5. \A k \in S : n - h[2] <= n - k[2]
    BY <1>3, <1>4
  <1>6. \A k \in S : ~Before(h, k)
    BY <1>1, <1>5 DEF Before
  <1> QED
    BY <1>6 DEF Nearest

LEMMA NearestIs ==
    ASSUME NEW S \in SUBSET Spot, NEW h \in S, \A k \in S : k = h \/ Before(k, h)
    PROVE  Nearest(S) = h
  <1>1. \A k \in S : ~Before(h, k)
    BY BeforeOrder
  <1>2. \A g \in S : (\A k \in S : ~Before(g, k)) => g = h
    OBVIOUS
  <1> QED
    BY <1>1, <1>2 DEF Nearest

---------------------------------------------------------------------------
(* Q is R and one more line x, at the place a behind all others.            *)
Longer(R, Q, a, x) ==
    /\ DOMAIN R \subseteq Spot /\ a \in Spot /\ x \in ConfigLine
    /\ DOMAIN Q = DOMAIN R \cup {a} /\ Q[a] = x
    /\ \A b \in DOMAIN R : /\ R[b] \in ConfigLine
                              /\ Q[b] = R[b]
                              /\ Before(b, a)

LEMMA AboveIn ==
    ASSUME NEW R, DOMAIN R \subseteq Spot, NEW a \in Spot, Above(R, a) # {}
    PROVE  /\ Nearest(Above(R, a)) \in Above(R, a) /\ Nearest(Above(R, a)) \in Heads(R)
           /\ \A k \in Above(R, a) : ~Before(Nearest(Above(R, a)), k)
  <1> DEFINE S == Above(R, a)
  <1>1. S \in SUBSET Spot /\ S \subseteq Heads(R)
    BY DEF Above, Heads
  <1>2. \A h \in S : h[1] = a[1] /\ h[2] < a[2]
    BY DEF Above
  <1>3. a[1] \in Nat /\ a[2] \in Nat
    BY DEF Spot
  <1> HIDE DEF S
  <1>4. S # {}
    BY DEF S
  <1>5. Nearest(S) \in S /\ \A k \in S : ~Before(Nearest(S), k)
    BY <1>1, <1>2, <1>3, <1>4, NearestIn
  <1> QED
    BY <1>1, <1>5 DEF S

(* The lines above the new one keep what they say. *)
LEMMA LongerKeeps ==
    ASSUME NEW R, NEW Q, NEW a, NEW x, Longer(R, Q, a, x)
    PROVE  /\ Heads(Q) = Heads(R) \cup (IF "header" \in DOMAIN x THEN {a} ELSE {})
           /\ \A h \in Heads(R) : TitleAt(Q, h) = TitleAt(R, h)
           /\ \A b \in DOMAIN R \cup {a} : Above(Q, b) = Above(R, b) /\ TitleOf(Q, b) = TitleOf(R, b)
           /\ a \notin DOMAIN R
  <1>1. a \notin DOMAIN R
    BY BeforeOrder DEF Longer
  <1>2. Heads(Q) = Heads(R) \cup (IF "header" \in DOMAIN x THEN {a} ELSE {})
    BY <1>1 DEF Longer, Heads
  <1>3. \A h \in Heads(R) : TitleAt(Q, h) = TitleAt(R, h)
    BY DEF Longer, Heads, TitleAt
  <1>4. ASSUME NEW b \in DOMAIN R \cup {a} PROVE Above(Q, b) = Above(R, b)
    <2>1. ~(a[1] = b[1] /\ a[2] < b[2])
      <3>1. a = b \/ Before(b, a)
        BY DEF Longer
      <3>2. ~Before(a, b) /\ b \in Spot /\ a \in Spot
        BY <3>1, BeforeOrder DEF Longer
      <3> QED
        BY <3>2 DEF Before
    <2> QED
      BY <1>2, <2>1 DEF Above
  <1>5. ASSUME NEW b \in DOMAIN R \cup {a} PROVE TitleOf(Q, b) = TitleOf(R, b)
    <2>1. b \in Spot /\ DOMAIN R \subseteq Spot
      BY DEF Longer
    <2>2. Above(R, b) # {} => Nearest(Above(R, b)) \in Heads(R)
      BY <2>1, AboveIn
    <2> QED
      BY <1>3, <1>4, <2>2 DEF TitleOf
  <1> QED
    BY <1>1, <1>2, <1>3, <1>4, <1>5

(* The section in force behind the new line. *)
LEMMA LongerTitle ==
    ASSUME NEW R, NEW Q, NEW a, NEW x, Longer(R, Q, a, x), NEW b \in Spot, b[1] = a[1], b[2] = a[2] + 1
    PROVE  TitleOf(Q, b) = IF "header" \in DOMAIN x THEN Meaning[x.header] ELSE TitleOf(R, a)
  <1>0. a[1] \in Nat /\ a[2] \in Nat /\ a \in Spot /\ DOMAIN R \subseteq Spot /\ a \notin DOMAIN R
    BY LongerKeeps DEF Longer, Spot
  <1>1. \A h \in DOMAIN R : h[1] = a[1] => (h[2] < b[2] <=> h[2] < a[2])
    <2> SUFFICES ASSUME NEW h \in DOMAIN R, h[1] = a[1] PROVE h[2] < a[2]
      BY <1>0 DEF Spot
    <2>1. Before(h, a) /\ h[1] \in Nat /\ h[2] \in Nat
      BY <1>0 DEF Longer, Spot
    <2> QED
      BY <1>0, <2>1 DEF Before
  <1>2. Above(Q, b) = Above(R, a) \cup (IF "header" \in DOMAIN x THEN {a} ELSE {})
    <2>1. Heads(Q) = Heads(R) \cup (IF "header" \in DOMAIN x THEN {a} ELSE {})
      BY LongerKeeps
    <2>2. Heads(R) \subseteq DOMAIN R
      BY DEF Heads
    <2> QED
      BY <1>0, <1>1, <2>1, <2>2 DEF Above
  <1>3. CASE "header" \in DOMAIN x
    <2>1. Above(Q, b) = Above(R, a) \cup {a}
      BY <1>2, <1>3
    <2>2. \A k \in Above(R, a) : k \in Spot /\ Before(k, a)
      BY <1>0 DEF Above, Heads, Longer
    <2>3. Nearest(Above(Q, b)) = a
      BY <1>0, <2>1, <2>2, NearestIs
    <2> QED
      BY <1>3, <2>1, <2>3 DEF TitleOf, TitleAt, Longer
  <1>4. CASE "header" \notin DOMAIN x
    <2>1. Above(Q, b) = Above(Q, a)
      BY <1>2, <1>4, LongerKeeps
    <2>2. TitleOf(Q, b) = TitleOf(Q, a)
      BY <2>1 DEF TitleOf
    <2> QED
      BY <1>4, <2>2, LongerKeeps
  <1> QED
    BY <1>3, <1>4

(* What the new line adds to a section, to the mentions and to the first    *)
(* mentions of a type.                                                      *)
Mentions(x, t) == "header" \in DOMAIN x /\ Meaning[x.header] # Unknown /\ Meaning[x.header].type = t
News(R, x, t) ==
    /\ Mentions(x, t)
    /\ \A k \in MentionsOf(R, t) : TitleAt(R, k).name # Meaning[x.header].name

LEMMA LongerGiven ==
    ASSUME NEW R, NEW Q, NEW a, NEW x, Longer(R, Q, a, x), NEW s
    PROVE  /\ Given(Q, s) = Given(R, s) \cup (IF IsParameter(x) /\ TitleOf(R, a) = s THEN {a} ELSE {})
           /\ \A b \in Given(R, s) : Q[b] = R[b] /\ Before(b, a) /\ b \in Spot
  <1>1. \A b \in DOMAIN R : Q[b] = R[b] /\ TitleOf(Q, b) = TitleOf(R, b)
    BY LongerKeeps DEF Longer
  <1>2. DOMAIN Q = DOMAIN R \cup {a} /\ Q[a] = x /\ TitleOf(Q, a) = TitleOf(R, a)
    BY LongerKeeps DEF Longer
  <1>3. Given(Q, s) = Given(R, s) \cup (IF IsParameter(x) /\ TitleOf(R, a) = s THEN {a} ELSE {})
    <2>1. \A b \in DOMAIN R : b \in Given(Q, s) <=> b \in Given(R, s)
      BY <1>1, <1>2 DEF Given
    <2>2. a \in Given(Q, s) <=> IsParameter(x) /\ TitleOf(R, a) = s
      BY <1>2 DEF Given
    <2>3. Given(Q, s) \subseteq DOMAIN R \cup {a} /\ Given(R, s) \subseteq DOMAIN R
      BY <1>2 DEF Given
    <2>4. a \notin DOMAIN R
      BY LongerKeeps
    <2> QED
      BY <2>1, <2>2, <2>3, <2>4
  <1> QED
    BY <1>3 DEF Given, Longer

LEMMA LongerMentions ==
    ASSUME NEW R, NEW Q, NEW a, NEW x, Longer(R, Q, a, x), NEW t
    PROVE  /\ MentionsOf(Q, t) = MentionsOf(R, t) \cup (IF Mentions(x, t) THEN {a} ELSE {})
           /\ FirstsOf(Q, t) = FirstsOf(R, t) \cup (IF News(R, x, t) THEN {a} ELSE {})
           /\ TitleAt(Q, a) = Meaning[x.header]
           /\ \A h \in MentionsOf(R, t) : TitleAt(Q, h) = TitleAt(R, h) /\ Before(h, a) /\ h \in Spot
  <1>1. /\ Heads(Q) = Heads(R) \cup (IF "header" \in DOMAIN x THEN {a} ELSE {})
        /\ \A h \in Heads(R) : TitleAt(Q, h) = TitleAt(R, h) /\ h # a /\ Before(h, a) /\ h \in Spot
    BY LongerKeeps DEF Longer, Heads
  <1>2. TitleAt(Q, a) = Meaning[x.header]
    BY DEF TitleAt, Longer
  <1>3. MentionsOf(Q, t) = MentionsOf(R, t) \cup (IF Mentions(x, t) THEN {a} ELSE {})
    BY <1>1, <1>2 DEF MentionsOf, Mentions
  <1>4. \A h \in MentionsOf(R, t) : /\ TitleAt(Q, h) = TitleAt(R, h) /\ h # a /\ Before(h, a)
                                    /\ h \in Spot /\ ~Before(a, h)
    BY <1>1, BeforeOrder DEF MentionsOf, Longer
  <1>5. a \in Spot /\ ~Before(a, a)
    BY BeforeOrder DEF Longer
  <1>6. \A h \in MentionsOf(R, t) : h \in FirstsOf(Q, t) <=> h \in FirstsOf(R, t)
    BY <1>3, <1>4 DEF FirstsOf
  <1>7. a \in FirstsOf(Q, t) <=> News(R, x, t)
    <2>1. ASSUME News(R, x, t) PROVE a \in FirstsOf(Q, t)
      BY <1>2, <1>3, <1>4, <1>5, <2>1 DEF FirstsOf, News
    <2>2. ASSUME a \in FirstsOf(Q, t) PROVE News(R, x, t)
      <3>1. a \in MentionsOf(Q, t) /\ a \notin MentionsOf(R, t)
        BY <1>4, <2>2 DEF FirstsOf
      <3>2. Mentions(x, t)
        BY <1>3, <3>1
      <3>3. \A k \in MentionsOf(R, t) : TitleAt(R, k).name # Meaning[x.header].name
        BY <1>2, <1>3, <1>4, <2>2 DEF FirstsOf
      <3> QED
        BY <3>2, <3>3 DEF News
    <2> QED
      BY <2>1, <2>2
  <1>8. /\ FirstsOf(Q, t) \subseteq MentionsOf(R, t) \cup {a} /\ FirstsOf(R, t) \subseteq MentionsOf(R, t)
        /\ a \notin MentionsOf(R, t)
    BY <1>3, <1>4 DEF FirstsOf
  <1> QED
    BY <1>2, <1>3, <1>4, <1>6, <1>7, <1>8

---------------------------------------------------------------------------
(* What a configuration takes from a script. *)

Block == [name : SectionName, param : Seq(Parameter)]

Placed(R, t, list) ==
    \E e : /\ Enum(FirstsOf(R, t), e) /\ Len(list) = Len(e)
           /\ \A i \in DOMAIN list : list[i].name = TitleAt(R, e[Len(e) + 1 - i]).name
Mentioned(R, t, list) == \A h \in MentionsOf(R, t) : Named(list, TitleAt(R, h).name) # {}

(* Adding a section at the head shifts the others. *)
LEMMA Shifted ==
    ASSUME NEW X, NEW x \in X, NEW list \in Seq(X)
    PROVE  /\ <<x>> \o list \in Seq(X) /\ Len(<<x>> \o list) = Len(list) + 1
           /\ DOMAIN (<<x>> \o list) = 1 .. Len(list) + 1
           /\ (<<x>> \o list)[1] = x
           /\ \A i \in 1 .. Len(list) : (<<x>> \o list)[i + 1] = list[i]
           /\ \A i \in 1 .. Len(list) + 1 : i = 1 \/ i - 1 \in 1 .. Len(list)
  <1> DEFINE l == <<x>> \o list
  <1>1. <<x>> \in Seq(X) /\ Len(<<x>>) = 1 /\ <<x>>[1] = x /\ Len(list) \in Nat
    OBVIOUS
  <1>2. l \in Seq(X) /\ Len(l) = 1 + Len(list)
        /\ \A i \in 1 .. 1 + Len(list) : l[i] = IF i <= 1 THEN <<x>>[i] ELSE list[i - 1]
    BY <1>1, ConcatProperties
  <1>3. DOMAIN l = 1 .. Len(l)
    BY <1>2
  <1> HIDE DEF l
  <1>4. l[1] = x
    BY <1>1, <1>2
  <1>5. ASSUME NEW i \in 1 .. Len(list) PROVE l[i + 1] = list[i]
    <2>1. i + 1 \in 1 .. 1 + Len(list) /\ ~(i + 1 <= 1) /\ i + 1 - 1 = i
      BY <1>1
    <2> QED
      BY <1>2, <2>1
  <1>6. \A i \in 1 .. Len(list) + 1 : i = 1 \/ i - 1 \in 1 .. Len(list)
    BY <1>1
  <1>7. Len(l) = Len(list) + 1
    BY <1>1, <1>2
  <1> QED
    BY <1>2, <1>3, <1>4, <1>5, <1>6, <1>7 DEF l

LEMMA FirstsAreMentions ==
    ASSUME NEW R, NEW t, NEW e, Enum(FirstsOf(R, t), e)
    PROVE  /\ Len(e) \in Nat /\ DOMAIN e = 1 .. Len(e)
           /\ \A i \in 1 .. Len(e) : e[i] \in FirstsOf(R, t) /\ e[i] \in MentionsOf(R, t)
  BY DEF Enum, FirstsOf

(* A line that mentions no new section leaves the list. *)
LEMMA PlacedSame ==
    ASSUME NEW R, NEW Q, NEW a, NEW x, Longer(R, Q, a, x), NEW t, ~News(R, x, t),
           NEW list, NEW same \in Seq(Block), list \in Seq(Block), Len(same) = Len(list),
           \A i \in DOMAIN list : same[i].name = list[i].name, Placed(R, t, list)
    PROVE  Placed(Q, t, same)
  <1>1. PICK e : /\ Enum(FirstsOf(R, t), e) /\ Len(list) = Len(e)
                 /\ \A i \in DOMAIN list : list[i].name = TitleAt(R, e[Len(e) + 1 - i]).name
    BY DEF Placed
  <1>2. FirstsOf(Q, t) = FirstsOf(R, t)
    <2>1. FirstsOf(Q, t) = FirstsOf(R, t) \cup {}
      BY LongerMentions
    <2> QED
      BY <2>1
  <1>3. Len(e) \in Nat /\ DOMAIN list = 1 .. Len(e) /\ DOMAIN same = 1 .. Len(e)
    BY <1>1, FirstsAreMentions
  <1>4. \A i \in 1 .. Len(e) : Len(e) + 1 - i \in 1 .. Len(e)
    BY <1>3
  <1>5. \A i \in 1 .. Len(e) : TitleAt(Q, e[Len(e) + 1 - i]) = TitleAt(R, e[Len(e) + 1 - i])
    BY <1>1, <1>4, FirstsAreMentions, LongerMentions
  <1> QED
    BY <1>1, <1>2, <1>3, <1>5 DEF Placed

LEMMA PlacedNew ==
    ASSUME NEW R, NEW Q, NEW a, NEW x, Longer(R, Q, a, x), NEW t, News(R, x, t),
           NEW list \in Seq(Block), Placed(R, t, list),
           NEW s \in Block, s.name = Meaning[x.header].name
    PROVE  Placed(Q, t, <<s>> \o list)
  <1> DEFINE new == <<s>> \o list
  <1>1. PICK e : /\ Enum(FirstsOf(R, t), e) /\ Len(list) = Len(e)
                 /\ \A i \in DOMAIN list : list[i].name = TitleAt(R, e[Len(e) + 1 - i]).name
    BY DEF Placed
  <1> DEFINE f == Append(e, a)
             n == Len(e)
  <1>2. n \in Nat /\ DOMAIN list = 1 .. n
    BY <1>1, FirstsAreMentions
  <1>3. FirstsOf(Q, t) = FirstsOf(R, t) \cup {a} /\ TitleAt(Q, a) = Meaning[x.header]
    BY LongerMentions
  <1>4. a \in Spot /\ FirstsOf(R, t) \in SUBSET Spot /\ \A b \in FirstsOf(R, t) : Before(b, a)
    <2>1. FirstsOf(R, t) \subseteq MentionsOf(R, t)
      BY DEF FirstsOf
    <2> QED
      BY <2>1, LongerMentions DEF Longer
  <1>5. Enum(FirstsOf(Q, t), f)
    BY <1>1, <1>3, <1>4, EnumAdd
  <1>6. Len(f) = n + 1 /\ f[n + 1] = a /\ \A i \in 1 .. n : f[i] = e[i]
    <2>1. e \in Seq(Spot)
      <3>1. e \in Seq(FirstsOf(R, t))
        BY <1>1 DEF Enum
      <3> QED
        BY <1>4, <3>1
    <2> QED
      BY <1>4, <2>1, AppendProperties
  <1>7. /\ Len(new) = n + 1 /\ DOMAIN new = 1 .. n + 1 /\ new[1] = s
        /\ \A i \in 1 .. n : new[i + 1] = list[i]
        /\ \A i \in 1 .. n + 1 : i = 1 \/ i - 1 \in 1 .. n
    BY <1>1, Shifted
  <1> HIDE DEF f, new, n
  <1>8. ASSUME NEW i \in 1 .. n + 1 PROVE new[i].name = TitleAt(Q, f[n + 1 + 1 - i]).name
    <2>1. CASE i = 1
      <3>1. n + 1 + 1 - i = n + 1
        BY <1>2, <2>1
      <3> QED
        BY <1>3, <1>6, <1>7, <2>1, <3>1
    <2>2. CASE i - 1 \in 1 .. n
      <3>1. i - 1 + 1 = i /\ n + 1 + 1 - i = n + 1 - (i - 1) /\ n + 1 - (i - 1) \in 1 .. n
        BY <1>2, <2>2
      <3>2. new[i] = list[i - 1]
        BY <1>7, <2>2, <3>1
      <3>3. list[i - 1].name = TitleAt(R, e[n + 1 - (i - 1)]).name
        BY <1>1, <1>2, <2>2 DEF n
      <3>4. f[n + 1 + 1 - i] = e[n + 1 - (i - 1)]
        BY <1>6, <3>1
      <3>5. TitleAt(Q, e[n + 1 - (i - 1)]) = TitleAt(R, e[n + 1 - (i - 1)])
        BY <1>1, <3>1, FirstsAreMentions, LongerMentions DEF n
      <3> QED
        BY <3>2, <3>3, <3>4, <3>5
    <2> QED
      BY <1>7, <2>1, <2>2
  <1>9. Placed(Q, t, new)
    <2>1. Len(new) = Len(f) /\ \A i \in DOMAIN new : new[i].name = TitleAt(Q, f[Len(f) + 1 - i]).name
      BY <1>6, <1>7, <1>8
    <2> QED
      BY <1>5, <2>1 DEF Placed
  <1> QED
    BY <1>9 DEF new

---------------------------------------------------------------------------
(* Parameters of a section. *)

Kept(R, s, list) ==
    \E e : /\ Enum(Given(R, s), e) /\ Len(list) = Len(e)
           /\ \A i \in DOMAIN list : list[i] = [name |-> R[e[i]].key, value |-> R[e[i]].value]

FirstKeys(R, S) == {a \in S : \A b \in S : R[b].key = R[a].key => ~Before(b, a)}
LastKey(R, S, a) == CHOOSE b \in S : /\ R[b].key = R[a].key
                                     /\ \A d \in S : R[d].key = R[b].key => ~Before(b, d)

Replaced(R, s, list) ==
    /\ \E e : /\ Enum(FirstKeys(R, Given(R, s)), e) /\ Len(list) = Len(e)
              /\ \A i \in DOMAIN list :
                    list[i] = [name |-> R[e[i]].key, value |-> R[LastKey(R, Given(R, s), e[i])].value]
    /\ \A b \in Given(R, s) : Named(list, R[b].key) # {}
    /\ \E e : Enum(Given(R, s), e)

Filled(R, s, list) == IF Replaces(s) THEN Replaced(R, s, list) ELSE Kept(R, s, list)

LEMMA NothingGiven ==
    ASSUME NEW R, NEW s, Given(R, s) = {}
    PROVE  Filled(R, s, <<>>)
  <1>1. Len(<<>>) = 0 /\ DOMAIN <<>> = {}
    OBVIOUS
  <1>2. FirstKeys(R, {}) = {}
    BY DEF FirstKeys
  <1>3. Kept(R, s, <<>>)
    BY <1>1, EnumNone DEF Kept
  <1>4. Replaced(R, s, <<>>)
    <2>1. Enum(FirstKeys(R, Given(R, s)), <<>>)
      BY <1>2, EnumNone
    <2>2. Enum(Given(R, s), <<>>)
      BY EnumNone
    <2> QED
      BY <1>1, <2>1, <2>2 DEF Replaced
  <1> QED
    BY <1>3, <1>4 DEF Filled

(* The script says of known places what it said. *)
LEMMA SameKeys ==
    ASSUME NEW R, NEW Q, NEW S, \A b \in S : Q[b] = R[b]
    PROVE  /\ FirstKeys(Q, S) = FirstKeys(R, S)
           /\ \A a \in S : LastKey(Q, S, a) = LastKey(R, S, a)
  BY DEF FirstKeys, LastKey

(* The last place of a key exists: places have a last one. *)
LEMMA LastKeyIn ==
    ASSUME NEW R, NEW S \in SUBSET Spot, NEW e, Enum(S, e), NEW a \in S
    PROVE  /\ LastKey(R, S, a) \in S /\ R[LastKey(R, S, a)].key = R[a].key
           /\ \A d \in S : R[d].key = R[a].key => ~Before(LastKey(R, S, a), d)
  <1> DEFINE I == {i \in 1 .. Len(e) : R[e[i]].key = R[a].key}
  <1>1. /\ Len(e) \in Nat /\ DOMAIN e = 1 .. Len(e) /\ \A i \in 1 .. Len(e) : e[i] \in S
        /\ \A b \in S : \E i \in 1 .. Len(e) : e[i] = b
        /\ \A i, j \in 1 .. Len(e) : i < j => Before(e[i], e[j])
    BY DEF Enum
  <1>2. I \in SUBSET (1 .. Len(e)) /\ I # {}
    BY <1>1
  <1>3. PICK m \in I : \A j \in I : m >= j
    <2> DEFINE T == {Len(e) - i : i \in I}
    <2>1. \A i \in I : i \in Int /\ Len(e) - i \in Nat /\ Len(e) - (Len(e) - i) = i
      BY <1>1
    <2>2. T \in SUBSET Nat /\ T # {}
      BY <1>2, <2>1
    <2>3. PICK k \in T : \A i \in T : k <= i
      <3> HIDE DEF T
      <3> QED
        BY <2>2, Smallest
    <2>4. PICK m \in I : k = Len(e) - m
      BY <2>3
    <2>5. \A j \in I : Len(e) - m <= Len(e) - j
      BY <2>3, <2>4
    <2>6. \A j \in I : m >= j
      BY <1>1, <2>1, <2>5
    <2> QED
      BY <2>6
  <1>4. e[m] \in S /\ R[e[m]].key = R[a].key
    BY <1>1, <1>3
  <1>5. ASSUME NEW d \in S, R[d].key = R[a].key PROVE ~Before(e[m], d)
    <2>1. PICK j \in 1 .. Len(e) : e[j] = d
      BY <1>1
    <2>2. j \in I
      BY <1>5, <2>1
    <2>3. m >= j /\ m \in 1 .. Len(e)
      BY <1>3, <2>2
    <2>4. j = m \/ j < m
      BY <1>1, <2>3
    <2>5. CASE j = m
      BY <1>1, <2>1, <2>5, BeforeOrder
    <2>6. CASE j < m
      <3>1. Before(d, e[m])
        BY <1>1, <2>1, <2>3, <2>6
      <3> QED
        BY <1>4, <3>1, BeforeOrder
    <2> QED
      BY <2>4, <2>5, <2>6
  <1>6. \E b \in S : R[b].key = R[a].key /\ \A d \in S : R[d].key = R[b].key => ~Before(b, d)
    BY <1>4, <1>5
  <1> QED
    BY <1>6 DEF LastKey

LEMMA LastKeyIs ==
    ASSUME NEW R, NEW S \in SUBSET Spot, NEW a, NEW b \in S, R[b].key = R[a].key,
           \A d \in S : R[d].key = R[a].key => ~Before(b, d)
    PROVE  LastKey(R, S, a) = b
  <1>1. \A c \in S : (R[c].key = R[a].key /\ \A d \in S : R[d].key = R[c].key => ~Before(c, d)) => c = b
    BY BeforeOrder
  <1> QED
    BY <1>1 DEF LastKey

LEMMA FirstIn ==
    ASSUME NEW S \in SUBSET Nat, S # {}
    PROVE  First(S) \in S /\ \A j \in S : First(S) <= j
  <1>1. \E i \in S : \A j \in S : i <= j
    BY Smallest
  <1> QED
    BY <1>1 DEF First

(* A section that is not [main] or [defaults] gets its parameters appended. *)
LEMMA KeptAdd ==
    ASSUME NEW R, NEW Q, NEW a, NEW x, Longer(R, Q, a, x), IsParameter(x),
           NEW s, TitleOf(R, a) = s, NEW list \in Seq(Parameter), Kept(R, s, list)
    PROVE  Kept(Q, s, Append(list, [name |-> x.key, value |-> x.value]))
  <1> DEFINE p == [name |-> x.key, value |-> x.value]
             new == Append(list, p)
  <1>1. PICK e : /\ Enum(Given(R, s), e) /\ Len(list) = Len(e)
                 /\ \A i \in DOMAIN list : list[i] = [name |-> R[e[i]].key, value |-> R[e[i]].value]
    BY DEF Kept
  <1> DEFINE f == Append(e, a)
             n == Len(e)
  <1>2. Given(Q, s) = Given(R, s) \cup {a}
        /\ \A b \in Given(R, s) : Q[b] = R[b] /\ Before(b, a) /\ b \in Spot
    BY LongerGiven
  <1>3. a \in Spot /\ Q[a] = x
    BY DEF Longer
  <1>4. Enum(Given(Q, s), f)
    BY <1>1, <1>2, <1>3, EnumAdd
  <1>5. n \in Nat /\ DOMAIN e = 1 .. n /\ \A i \in 1 .. n : e[i] \in Given(R, s)
    BY <1>1 DEF Enum
  <1>6. Len(f) = n + 1 /\ f[n + 1] = a /\ \A i \in 1 .. n : f[i] = e[i]
    <2>1. e \in Seq(Spot)
      <3>1. e \in Seq(Given(R, s))
        BY <1>1 DEF Enum
      <3> QED
        BY <1>2, <3>1
    <2> QED
      BY <1>3, <2>1, AppendProperties
  <1>7. Len(new) = n + 1 /\ DOMAIN new = 1 .. n + 1 /\ new[n + 1] = p /\ \A i \in 1 .. n : new[i] = list[i]
    <2>1. list \in Seq(Parameter \cup {p}) /\ p \in Parameter \cup {p}
      OBVIOUS
    <2> HIDE DEF p
    <2> QED
      BY <1>1, <2>1, AppendProperties
  <1>8. \A i \in 1 .. n + 1 : i = n + 1 \/ i \in 1 .. n
    BY <1>5
  <1> HIDE DEF new, f, n
  <1>9. ASSUME NEW i \in 1 .. n + 1 PROVE new[i] = [name |-> Q[f[i]].key, value |-> Q[f[i]].value]
    <2>1. CASE i = n + 1
      BY <1>3, <1>6, <1>7, <2>1
    <2>2. CASE i \in 1 .. n
      <3>1. DOMAIN list = 1 .. n
        BY <1>1 DEF n
      <3>2. Q[e[i]] = R[e[i]]
        BY <1>2, <1>5, <2>2
      <3>3. new[i] = list[i] /\ f[i] = e[i]
        BY <1>6, <1>7, <2>2
      <3> QED
        BY <1>1, <2>2, <3>1, <3>2, <3>3
    <2> QED
      BY <1>8, <2>1, <2>2
  <1>10. Kept(Q, s, new)
    BY <1>4, <1>6, <1>7, <1>9 DEF Kept
  <1> QED
    BY <1>10 DEF new

(* What a parameter with a new or a known key does to [main] and [defaults]. *)
Behind(R, Q, S, T, a) ==
    /\ S \subseteq Spot /\ a \in Spot /\ T = S \cup {a}
    /\ \A b \in S : Q[b] = R[b] /\ Before(b, a)
NewKey(R, Q, S, a) == \A b \in S : R[b].key # Q[a].key

LEMMA KeysAdd ==
    ASSUME NEW R, NEW Q, NEW S, NEW T, NEW a, Behind(R, Q, S, T, a)
    PROVE  /\ NewKey(R, Q, S, a) => FirstKeys(Q, T) = FirstKeys(R, S) \cup {a}
           /\ ~NewKey(R, Q, S, a) => FirstKeys(Q, T) = FirstKeys(R, S)
           /\ LastKey(Q, T, a) = a
           /\ \A b \in S : R[b].key = Q[a].key => LastKey(Q, T, b) = a
  <1>0. /\ a \in Spot /\ T = S \cup {a} /\ a \notin S /\ ~Before(a, a)
        /\ \A b \in S : b \in Spot /\ ~Before(a, b) /\ Q[b] = R[b] /\ Before(b, a)
    BY BeforeOrder DEF Behind
  <1>1. T \in SUBSET Spot /\ a \in T
    BY <1>0
  <1>2. \A b \in S : b \in FirstKeys(Q, T) <=> b \in FirstKeys(R, S)
    BY <1>0 DEF FirstKeys
  <1>3. a \in FirstKeys(Q, T) <=> \A b \in S : R[b].key # Q[a].key
    BY <1>0 DEF FirstKeys
  <1>4. FirstKeys(Q, T) \subseteq S \cup {a} /\ FirstKeys(R, S) \subseteq S
    BY <1>0 DEF FirstKeys
  <1>5. \A d \in T : ~Before(a, d)
    BY <1>0
  <1>6. ASSUME NEW b \in T, Q[b].key = Q[a].key PROVE LastKey(Q, T, b) = a
    <2> QED
      BY <1>1, <1>5, <1>6, LastKeyIs
  <1>61. \A b \in S : R[b].key = Q[a].key => LastKey(Q, T, b) = a
    BY <1>0, <1>6
  <1>7. /\ NewKey(R, Q, S, a) => FirstKeys(Q, T) = FirstKeys(R, S) \cup {a}
        /\ ~NewKey(R, Q, S, a) => FirstKeys(Q, T) = FirstKeys(R, S)
    BY <1>0, <1>2, <1>3, <1>4 DEF NewKey
  <1>8. LastKey(Q, T, a) = a
    BY <1>1, <1>6
  <1> QED
    BY <1>61, <1>7, <1>8

LEMMA OtherKeys ==
    ASSUME NEW R, NEW Q, NEW S, NEW T, NEW a, Behind(R, Q, S, T, a), NEW e, Enum(S, e),
           NEW b \in S, R[b].key # Q[a].key
    PROVE  LastKey(Q, T, b) = LastKey(R, S, b)
  <1> DEFINE c == LastKey(R, S, b)
  <1>0. S \in SUBSET Spot /\ a \in Spot /\ T = S \cup {a} /\ \A d \in S : Q[d] = R[d]
    BY DEF Behind
  <1>1. c \in S /\ R[c].key = R[b].key /\ \A d \in S : R[d].key = R[b].key => ~Before(c, d)
    BY <1>0, LastKeyIn
  <1>2. T \in SUBSET Spot /\ c \in T /\ Q[c].key = Q[b].key
    BY <1>0, <1>1
  <1>3. \A d \in T : Q[d].key = Q[b].key => ~Before(c, d)
    BY <1>0, <1>1
  <1> HIDE DEF c
  <1>4. LastKey(Q, T, b) = c
    BY <1>2, <1>3, LastKeyIs
  <1> QED
    BY <1>4 DEF c

(* A key that is new to the section. *)
LEMMA ReplacedAppend ==
    ASSUME NEW R, NEW Q, NEW a, NEW x, Longer(R, Q, a, x), IsParameter(x),
           NEW s, TitleOf(R, a) = s, NEW list \in Seq(Parameter), Replaced(R, s, list),
           Named(list, x.key) = {}
    PROVE  Replaced(Q, s, Append(list, [name |-> x.key, value |-> x.value]))
  <1> DEFINE p == [name |-> x.key, value |-> x.value]
             new == Append(list, p)
             S == Given(R, s)
             T == Given(Q, s)
  <1>1. PICK e : /\ Enum(FirstKeys(R, S), e) /\ Len(list) = Len(e)
                 /\ \A i \in DOMAIN list :
                       list[i] = [name |-> R[e[i]].key, value |-> R[LastKey(R, S, e[i])].value]
    BY DEF Replaced
  <1>2. PICK g : Enum(S, g)
    BY DEF Replaced
  <1>3. T = S \cup {a} /\ \A b \in S : Q[b] = R[b] /\ Before(b, a) /\ b \in Spot
    BY LongerGiven
  <1>4. a \in Spot /\ Q[a] = x
    BY DEF Longer
  <1>5. \A b \in S : R[b].key # x.key
    BY DEF Replaced
  <1> DEFINE f == Append(e, a)
             n == Len(e)
  <1>6. FirstKeys(R, S) \in SUBSET S
    BY DEF FirstKeys
  <1> HIDE DEF S, T
  <1>7. FirstKeys(Q, T) = FirstKeys(R, S) \cup {a} /\ LastKey(Q, T, a) = a
    <2>1. Behind(R, Q, S, T, a)
      BY <1>3, <1>4 DEF Behind
    <2>2. /\ NewKey(R, Q, S, a) => FirstKeys(Q, T) = FirstKeys(R, S) \cup {a}
          /\ LastKey(Q, T, a) = a
      BY <2>1, KeysAdd
    <2> QED
      BY <1>3, <1>4, <1>5, <2>2 DEF NewKey
  <1>8. \A b \in S : LastKey(Q, T, b) = LastKey(R, S, b) /\ Q[LastKey(R, S, b)] = R[LastKey(R, S, b)]
    <2>0. Behind(R, Q, S, T, a)
      BY <1>3, <1>4 DEF Behind
    <2>1. S \in SUBSET Spot /\ \A b \in S : Q[b] = R[b] /\ Before(b, a)
      BY <1>3
    <2> SUFFICES ASSUME NEW b \in S
                 PROVE  LastKey(Q, T, b) = LastKey(R, S, b) /\ LastKey(R, S, b) \in S
      BY <2>1
    <2>2. R[b].key # Q[a].key
      BY <1>4, <1>5
    <2>3. LastKey(Q, T, b) = LastKey(R, S, b)
      BY <1>2, <2>0, <2>2, OtherKeys
    <2>4. LastKey(R, S, b) \in S
      BY <1>2, <2>1, LastKeyIn
    <2> QED
      BY <1>3, <2>3, <2>4
  <1>9. Enum(FirstKeys(Q, T), f) /\ Enum(T, Append(g, a))
    <2>1. \A b \in FirstKeys(R, S) : Before(b, a) /\ b \in Spot
      BY <1>3, <1>6
    <2>2. FirstKeys(R, S) \in SUBSET Spot /\ S \in SUBSET Spot /\ \A b \in S : Before(b, a)
      BY <1>3, <2>1
    <2>3. Enum(FirstKeys(R, S) \cup {a}, Append(e, a))
      BY <1>1, <1>4, <2>1, <2>2, EnumAdd
    <2>4. Enum(S \cup {a}, Append(g, a))
      BY <1>2, <1>4, <2>2, EnumAdd
    <2> QED
      BY <1>3, <1>7, <2>3, <2>4
  <1>10. n \in Nat /\ DOMAIN e = 1 .. n /\ \A i \in 1 .. n : e[i] \in S /\ e[i] \in Spot
    BY <1>1, <1>3, <1>6 DEF Enum
  <1>11. Len(f) = n + 1 /\ f[n + 1] = a /\ \A i \in 1 .. n : f[i] = e[i]
    <2>1. e \in Seq(Spot)
      <3>1. e \in Seq(FirstKeys(R, S)) /\ FirstKeys(R, S) \subseteq Spot
        BY <1>1, <1>3, <1>6 DEF Enum
      <3> QED
        BY <3>1
    <2> QED
      BY <1>4, <2>1, AppendProperties
  <1>12. Len(new) = n + 1 /\ DOMAIN new = 1 .. n + 1 /\ new[n + 1] = p /\ \A i \in 1 .. n : new[i] = list[i]
    <2>1. list \in Seq(Parameter \cup {p}) /\ p \in Parameter \cup {p}
      OBVIOUS
    <2> HIDE DEF p
    <2> QED
      BY <1>1, <2>1, AppendProperties
  <1>13. \A i \in 1 .. n + 1 : i = n + 1 \/ i \in 1 .. n
    BY <1>10
  <1>14. DOMAIN list = 1 .. n
    BY <1>1
  <1>15. p.name = x.key /\ p.value = x.value
    OBVIOUS
  <1>16. p = [name |-> Q[a].key, value |-> Q[LastKey(Q, T, a)].value]
    BY <1>4, <1>7
  <1> HIDE DEF new, f, n, p
  <1>17. ASSUME NEW i \in 1 .. n + 1
         PROVE  new[i] = [name |-> Q[f[i]].key, value |-> Q[LastKey(Q, T, f[i])].value]
    <2>1. CASE i = n + 1
      BY <1>11, <1>12, <1>16, <2>1
    <2>2. CASE i \in 1 .. n
      <3>1. list[i] = [name |-> R[e[i]].key, value |-> R[LastKey(R, S, e[i])].value]
        BY <1>1, <1>14, <2>2
      <3>2. Q[e[i]] = R[e[i]] /\ Q[LastKey(Q, T, e[i])] = R[LastKey(R, S, e[i])]
        BY <1>3, <1>8, <1>10, <2>2
      <3>3. new[i] = list[i] /\ f[i] = e[i]
        BY <1>11, <1>12, <2>2
      <3> QED
        BY <3>1, <3>2, <3>3
    <2> QED
      BY <1>13, <2>1, <2>2
  <1>18. ASSUME NEW b \in T PROVE Named(new, Q[b].key) # {}
    <2>1. CASE b = a
      <3>1. n + 1 \in DOMAIN new /\ new[n + 1].name = Q[b].key
        BY <1>4, <1>10, <1>12, <1>15, <2>1
      <3> QED
        BY <3>1 DEF Named
    <2>2. CASE b \in S
      <3>1. PICK i \in 1 .. n : list[i].name = R[b].key
        BY <1>14, <2>2 DEF Replaced, Named, S
      <3>2. i \in DOMAIN new /\ new[i].name = Q[b].key
        BY <1>3, <1>10, <1>12, <2>2, <3>1
      <3> QED
        BY <3>2 DEF Named
    <2> QED
      BY <1>3, <2>1, <2>2
  <1>19. Replaced(Q, s, new)
    <2>1. Len(new) = Len(f) /\ \A i \in DOMAIN new :
             new[i] = [name |-> Q[f[i]].key, value |-> Q[LastKey(Q, T, f[i])].value]
      BY <1>11, <1>12, <1>17
    <2> QED
      BY <1>9, <1>18, <2>1 DEF Replaced, T
  <1> QED
    BY <1>19 DEF new, p

(* A key the section has. *)
LEMMA ReplacedChange ==
    ASSUME NEW R, NEW Q, NEW a, NEW x, Longer(R, Q, a, x), IsParameter(x),
           NEW s, TitleOf(R, a) = s, NEW list \in Seq(Parameter), Replaced(R, s, list),
           Named(list, x.key) # {}
    PROVE  /\ First(Named(list, x.key)) \in DOMAIN list
           /\ Replaced(Q, s, [list EXCEPT ![First(Named(list, x.key))] = [name |-> x.key, value |-> x.value]])
  <1> DEFINE p == [name |-> x.key, value |-> x.value]
             m == First(Named(list, x.key))
             new == [list EXCEPT ![m] = p]
             S == Given(R, s)
             T == Given(Q, s)
  <1>1. PICK e : /\ Enum(FirstKeys(R, S), e) /\ Len(list) = Len(e)
                 /\ \A i \in DOMAIN list :
                       list[i] = [name |-> R[e[i]].key, value |-> R[LastKey(R, S, e[i])].value]
    BY DEF Replaced
  <1>2. PICK g : Enum(S, g)
    BY DEF Replaced
  <1>3. T = S \cup {a} /\ \A b \in S : Q[b] = R[b] /\ Before(b, a) /\ b \in Spot
    BY LongerGiven
  <1>4. a \in Spot /\ Q[a] = x
    BY DEF Longer
  <1> DEFINE n == Len(e)
  <1>5. FirstKeys(R, S) \in SUBSET S
    BY DEF FirstKeys
  <1>6. n \in Nat /\ DOMAIN e = 1 .. n /\ DOMAIN list = 1 .. n
        /\ \A i \in 1 .. n : e[i] \in S /\ e[i] \in Spot /\ e[i] \in FirstKeys(R, S)
    BY <1>1, <1>3, <1>5 DEF Enum
  <1>7. m \in 1 .. n /\ list[m].name = x.key
    <2>1. Named(list, x.key) \in SUBSET Nat
      BY <1>6 DEF Named
    <2>2. m \in Named(list, x.key)
      BY <2>1, FirstIn
    <2> QED
      BY <1>6, <2>2 DEF Named
  <1>8. \A i \in 1 .. n : list[i] = [name |-> R[e[i]].key, value |-> R[LastKey(R, S, e[i])].value]
    BY <1>1, <1>6
  <1>9. R[e[m]].key = x.key
    <2> HIDE DEF m, n
    <2>1. list[m] = [name |-> R[e[m]].key, value |-> R[LastKey(R, S, e[m])].value]
      BY <1>7, <1>8
    <2>2. list[m].name = R[e[m]].key
      BY <2>1
    <2> QED
      BY <1>7, <2>2
  <1>10. DOMAIN new = 1 .. n /\ Len(new) = n /\ new[m] = p /\ \A i \in 1 .. n : i # m => new[i] = list[i]
    <2>1. list \in Seq(Parameter \cup {p}) /\ p \in Parameter \cup {p} /\ Len(list) = n
      BY <1>1
    <2> HIDE DEF p, m, n
    <2>2. new \in Seq(Parameter \cup {p}) /\ Len(new) = n
      BY <2>1, <1>7, ExceptSeq
    <2>3. DOMAIN new = 1 .. n
      BY <2>2
    <2> QED
      BY <1>6, <1>7, <2>2, <2>3
  <1>11. p.name = x.key /\ p.value = x.value
    OBVIOUS
  <1> HIDE DEF S, T, m, n, new, p
  <1>12. Behind(R, Q, S, T, a)
    BY <1>3, <1>4 DEF Behind
  <1>13. FirstKeys(Q, T) = FirstKeys(R, S)
    <2>1. ~NewKey(R, Q, S, a)
      BY <1>4, <1>6, <1>7, <1>9 DEF NewKey
    <2> QED
      BY <1>12, <2>1, KeysAdd
  <1>14. Enum(T, Append(g, a))
    <2>1. S \in SUBSET Spot /\ \A b \in S : Before(b, a)
      BY <1>3
    <2>2. Enum(S \cup {a}, Append(g, a))
      BY <1>2, <1>4, <2>1, EnumAdd
    <2> QED
      BY <1>3, <2>2
  <1>15. ASSUME NEW i \in 1 .. n
         PROVE  new[i] = [name |-> Q[e[i]].key, value |-> Q[LastKey(Q, T, e[i])].value]
    <2>0. e[i] \in S /\ Q[e[i]] = R[e[i]]
      BY <1>3, <1>6
    <2>1. CASE i = m
      <3>1. LastKey(Q, T, e[i]) = a
        BY <1>4, <1>9, <1>12, <2>0, <2>1, KeysAdd
      <3>2. new[i] = p /\ Q[e[i]].key = x.key /\ Q[LastKey(Q, T, e[i])] = x
        BY <1>4, <1>9, <1>10, <2>0, <2>1, <3>1
      <3> QED
        BY <3>2 DEF p
    <2>2. CASE i # m
      <3>1. R[e[i]].key # x.key
        <4> SUFFICES ASSUME R[e[i]].key = x.key PROVE FALSE
          OBVIOUS
        <4>1. e[i] \in FirstKeys(R, S) /\ e[m] \in FirstKeys(R, S) /\ R[e[i]].key = R[e[m]].key
          BY <1>6, <1>7, <1>9
        <4>2. ~Before(e[i], e[m]) /\ ~Before(e[m], e[i])
          BY <4>1 DEF FirstKeys
        <4>3. i < m \/ m < i
          BY <1>6, <1>7, <2>2
        <4> QED
          BY <1>1, <1>6, <1>7, <4>2, <4>3 DEF Enum
      <3>2. LastKey(Q, T, e[i]) = LastKey(R, S, e[i])
        BY <1>2, <1>4, <1>12, <2>0, <3>1, OtherKeys
      <3>3. LastKey(R, S, e[i]) \in S
        <4>1. S \in SUBSET Spot
          BY <1>3
        <4> QED
          BY <1>2, <2>0, <4>1, LastKeyIn
      <3>4. Q[LastKey(Q, T, e[i])] = R[LastKey(R, S, e[i])]
        BY <1>3, <3>2, <3>3
      <3>5. new[i] = list[i]
        BY <1>10, <2>2
      <3>6. list[i] = [name |-> R[e[i]].key, value |-> R[LastKey(R, S, e[i])].value]
        BY <1>8
      <3> QED
        BY <2>0, <3>4, <3>5, <3>6
    <2> QED
      BY <2>1, <2>2
  <1>16. ASSUME NEW b \in T PROVE Named(new, Q[b].key) # {}
    <2>1. CASE Q[b].key = x.key
      <3>1. m \in DOMAIN new /\ new[m].name = Q[b].key
        BY <1>7, <1>10, <1>11, <2>1
      <3> QED
        BY <3>1 DEF Named
    <2>2. CASE Q[b].key # x.key
      <3>1. b \in S /\ Q[b] = R[b]
        BY <1>3, <1>4, <2>2
      <3>2. PICK i \in 1 .. n : list[i].name = R[b].key
        BY <1>6, <3>1 DEF Replaced, Named, S
      <3>3. i # m
        BY <1>7, <2>2, <3>1, <3>2
      <3>4. i \in DOMAIN new /\ new[i].name = Q[b].key
        BY <1>10, <3>1, <3>2, <3>3
      <3> QED
        BY <3>4 DEF Named
    <2> QED
      BY <2>1, <2>2
  <1>17. Replaced(Q, s, new)
    <2>1. Len(new) = Len(e) /\ \A i \in DOMAIN new :
             new[i] = [name |-> Q[e[i]].key, value |-> Q[LastKey(Q, T, e[i])].value]
      BY <1>10, <1>15 DEF n
    <2>2. Enum(FirstKeys(Q, T), e)
      BY <1>1, <1>13
    <2> QED
      BY <1>14, <1>16, <2>1, <2>2 DEF Replaced, T
  <1> QED
    BY <1>6, <1>7, <1>17 DEF new, p, m

(* A line that gives a section nothing. *)
LEMMA FilledSame ==
    ASSUME NEW R, NEW Q, NEW a, NEW x, Longer(R, Q, a, x), NEW s,
           ~(IsParameter(x) /\ TitleOf(R, a) = s), NEW list \in Seq(Parameter), Filled(R, s, list)
    PROVE  Filled(Q, s, list)
  <1> DEFINE S == Given(R, s)
  <1>1. Given(Q, s) = S
    <2>1. Given(Q, s) = S \cup (IF IsParameter(x) /\ TitleOf(R, a) = s THEN {a} ELSE {})
      BY LongerGiven
    <2> QED
      BY <2>1
  <1>2. \A b \in S : Q[b] = R[b] /\ b \in Spot
    BY LongerGiven
  <1> HIDE DEF S
  <1>3. FirstKeys(Q, S) = FirstKeys(R, S) /\ \A b \in S : LastKey(Q, S, b) = LastKey(R, S, b)
    BY <1>2, SameKeys
  <1>4. ASSUME NEW e, NEW T, T \subseteq S, Enum(T, e), Len(list) = Len(e)
        PROVE  \A i \in DOMAIN list : i \in DOMAIN e /\ e[i] \in S /\ Q[e[i]] = R[e[i]]
    <2>1. DOMAIN list = 1 .. Len(e) /\ \A i \in 1 .. Len(e) : e[i] \in T
      BY <1>4 DEF Enum
    <2>2. DOMAIN e = 1 .. Len(e)
      BY <1>4 DEF Enum
    <2> QED
      BY <1>2, <1>4, <2>1, <2>2
  <1>5. ASSUME Kept(R, s, list) PROVE Kept(Q, s, list)
    <2>1. PICK e : /\ Enum(S, e) /\ Len(list) = Len(e)
                   /\ \A i \in DOMAIN list : list[i] = [name |-> R[e[i]].key, value |-> R[e[i]].value]
      BY <1>5 DEF Kept, S
    <2>2. \A i \in DOMAIN list : Q[e[i]] = R[e[i]]
      BY <1>4, <2>1
    <2>3. \A i \in DOMAIN list : list[i] = [name |-> Q[e[i]].key, value |-> Q[e[i]].value]
      BY <2>1, <2>2
    <2> QED
      BY <1>1, <2>1, <2>3 DEF Kept
  <1>6. ASSUME Replaced(R, s, list) PROVE Replaced(Q, s, list)
    <2>1. PICK e : /\ Enum(FirstKeys(R, S), e) /\ Len(list) = Len(e)
                   /\ \A i \in DOMAIN list :
                         list[i] = [name |-> R[e[i]].key, value |-> R[LastKey(R, S, e[i])].value]
      BY <1>6 DEF Replaced, S
    <2>2. PICK g : Enum(S, g)
      BY <1>6 DEF Replaced, S
    <2>3. FirstKeys(R, S) \subseteq S
      BY DEF FirstKeys
    <2>4. \A i \in DOMAIN list : e[i] \in S /\ Q[e[i]] = R[e[i]]
      BY <1>4, <2>1, <2>3
    <2>5. \A b \in S : LastKey(R, S, b) \in S
      <3>1. S \in SUBSET Spot
        BY <1>2
      <3> QED
        BY <2>2, <3>1, LastKeyIn
    <2>6. \A i \in DOMAIN list : Q[LastKey(Q, S, e[i])] = R[LastKey(R, S, e[i])]
      BY <1>2, <1>3, <2>4, <2>5
    <2>7. \A i \in DOMAIN list :
             list[i] = [name |-> Q[e[i]].key, value |-> Q[LastKey(Q, S, e[i])].value]
      BY <2>1, <2>4, <2>6
    <2>8. \A b \in S : Named(list, Q[b].key) # {}
      BY <1>2, <1>6 DEF Replaced, S
    <2>9. Enum(FirstKeys(Q, S), e)
      BY <1>3, <2>1
    <2> QED
      BY <1>1, <2>1, <2>2, <2>7, <2>8, <2>9 DEF Replaced
  <1> QED
    BY <1>5, <1>6 DEF Filled

(* A section that is not there yet was given nothing. *)
LEMMA FreshGiven ==
    ASSUME NEW R, DOMAIN R \subseteq Spot, NEW s \in Title, NEW list,
           Mentioned(R, s.type, list), Named(list, s.name) = {}
    PROVE  Given(R, s) = {}
  <1> SUFFICES ASSUME NEW b \in Given(R, s) PROVE FALSE
    OBVIOUS
  <1>1. b \in Spot /\ TitleOf(R, b) = s
    BY DEF Given
  <1>2. s # Unknown
    BY ConfigAssumption
  <1>3. Above(R, b) # {} /\ TitleAt(R, Nearest(Above(R, b))) = s
    BY <1>1, <1>2 DEF TitleOf
  <1>4. Nearest(Above(R, b)) \in Heads(R)
    BY <1>1, <1>3, AboveIn
  <1>5. Nearest(Above(R, b)) \in MentionsOf(R, s.type)
    BY <1>2, <1>3, <1>4 DEF MentionsOf
  <1> QED
    BY <1>3, <1>5 DEF Mentioned

---------------------------------------------------------------------------
(* The functions of src/config.c on the lists. *)

Shape == [Type -> Seq(Block)]

LEMMA AppendSection ==
    ASSUME NEW c \in Shape, NEW s \in Title
    PROVE  /\ f2b_config_section_append(c, s) \in Shape
           /\ Named(f2b_config_section_append(c, s)[s.type], s.name) # {}
           /\ \A t \in Type : f2b_config_section_append(c, s)[t] =
                 IF t = s.type /\ Named(c[t], s.name) = {}
                 THEN <<[name |-> s.name, param |-> <<>>]>> \o c[t] ELSE c[t]
  <1> DEFINE new == [name |-> s.name, param |-> <<>>]
             d == f2b_config_section_append(c, s)
  <1>1. s.type \in Type /\ s.name \in SectionName /\ new \in Block /\ new.name = s.name
    BY DEF Title, Block
  <1>2. CASE Named(c[s.type], s.name) # {}
    <2>1. d = c
      BY <1>2 DEF f2b_config_section_append
    <2> QED
      BY <1>2, <2>1
  <1>3. CASE Named(c[s.type], s.name) = {}
    <2>1. d = [c EXCEPT ![s.type] = <<new>> \o @]
      BY <1>3 DEF f2b_config_section_append
    <2>2. c[s.type] \in Seq(Block)
      BY <1>1 DEF Shape
    <2> DEFINE l == <<new>> \o c[s.type]
    <2> HIDE DEF new, d
    <2>3. l \in Seq(Block) /\ 1 \in DOMAIN l /\ l[1] = new
      BY <1>1, <2>2, Shifted
    <2> HIDE DEF l
    <2>4. d = [c EXCEPT ![s.type] = l]
      BY <2>1 DEF l
    <2>5. d \in Shape /\ d[s.type] = l /\ \A t \in Type : t # s.type => d[t] = c[t]
      BY <1>1, <2>3, <2>4 DEF Shape
    <2>6. 1 \in Named(l, s.name)
      BY <1>1, <2>3 DEF Named
    <2> QED
      BY <1>1, <1>3, <2>5, <2>6 DEF d, l, new
  <1> QED
    BY <1>2, <1>3

(* The list of parameters after a line with a key and a value. *)
After(p, l, replace) ==
    IF ~IsParameter(l) THEN p
    ELSE IF replace /\ Named(p, l.key) # {}
         THEN [p EXCEPT ![First(Named(p, l.key))] = [name |-> l.key, value |-> l.value]]
         ELSE Append(p, [name |-> l.key, value |-> l.value])

LEMMA AppendParam ==
    ASSUME NEW p \in Seq(Parameter), NEW l \in [key : Key, value : Value], NEW replace \in BOOLEAN
    PROVE  /\ f2b_config_param_append(p, f2b_config_param_create(l), replace) = After(p, l, replace)
           /\ After(p, l, replace) \in Seq(Parameter)
  <1> DEFINE x == [name |-> l.key, value |-> l.value]
             n == f2b_config_param_create(l)
  <1>1. {"key", "value"} \subseteq DOMAIN l /\ x \in Parameter /\ x.name = l.key
    BY DEF Parameter
  <1>2. CASE ~IsParameter(l)
    <2>1. n = <<>>
      BY <1>1, <1>2 DEF IsParameter, f2b_config_param_create
    <2>2. p \o <<>> = p
      BY ConcatEmptySeq
    <2> QED
      BY <1>2, <2>1, <2>2 DEF f2b_config_param_append, After
  <1>3. CASE IsParameter(l)
    <2>1. n = <<x>>
      BY <1>3 DEF IsParameter, f2b_config_param_create
    <2>2. n # <<>> /\ n[1] = x
      BY <2>1
    <2>3. Append(p, x) = p \o <<x>> /\ Append(p, x) \in Seq(Parameter)
      <3> HIDE DEF x
      <3> QED
        BY <1>1, AppendIsConcat, AppendProperties
    <2>4. CASE replace /\ Named(p, l.key) # {}
      <3>1. First(Named(p, l.key)) \in Named(p, l.key)
        <4>1. Named(p, l.key) \in SUBSET Nat
          BY DEF Named
        <4> QED
          BY <2>4, <4>1, FirstIn
      <3>2. First(Named(p, l.key)) \in 1 .. Len(p)
        BY <3>1 DEF Named
      <3>3. [p EXCEPT ![First(Named(p, l.key))] = x] \in Seq(Parameter)
        <4> HIDE DEF x
        <4> QED
          BY <1>1, <3>2, ExceptSeq
      <3>4. f2b_config_param_append(p, n, replace) = [p EXCEPT ![First(Named(p, l.key))] = x]
        <4> HIDE DEF n, x
        <4> QED
          BY <1>1, <2>2, <2>4 DEF f2b_config_param_append
      <3> QED
        BY <1>3, <2>4, <3>3, <3>4 DEF After
    <2>5. CASE ~(replace /\ Named(p, l.key) # {})
      <3>1. f2b_config_param_append(p, n, replace) = p \o n
        <4> HIDE DEF n, x
        <4>1. ~(replace /\ n # <<>> /\ Named(p, n[1].name) # {})
          BY <1>1, <2>2, <2>5
        <4> QED
          BY <4>1 DEF f2b_config_param_append
      <3> QED
        BY <1>3, <2>1, <2>3, <2>5, <3>1 DEF After
    <2> QED
      BY <2>4, <2>5
  <1> QED
    BY <1>2, <1>3

(* The turn of the loop. *)
Turn ==
    {r \in [config : Shape, section : Title \cup {Unknown}] :
        r.section # Unknown => Named(r.config[r.section.type], r.section.name) # {}}

LEMMA ReadHeader ==
    ASSUME NEW r \in Turn, NEW l \in [header : Header]
    PROVE  /\ ReadConfigLine(r, l) \in Turn
           /\ ReadConfigLine(r, l).section = Meaning[l.header]
           /\ ReadConfigLine(r, l).config =
                 IF Meaning[l.header] = Unknown THEN r.config
                 ELSE f2b_config_section_append(r.config, Meaning[l.header])
  <1>1. "header" \in DOMAIN l /\ "comment" \notin DOMAIN l /\ l.header \in Header
    OBVIOUS
  <1> DEFINE s == Meaning[l.header]
             d == IF s = Unknown THEN r.config ELSE f2b_config_section_append(r.config, s)
  <1>2. s = Unknown \/ s \in Title
    BY <1>1, ConfigAssumption
  <1>3. r.config \in Shape
    BY DEF Turn
  <1> HIDE DEF s
  <1>4. d \in Shape /\ (s # Unknown => Named(d[s.type], s.name) # {})
    BY <1>2, <1>3, AppendSection
  <1>5. ReadConfigLine(r, l) = [config |-> d, section |-> s]
    BY <1>1 DEF ReadConfigLine, f2b_config_section_create, s
  <1> HIDE DEF d
  <1>6. [config |-> d, section |-> s] \in Turn
    BY <1>2, <1>4 DEF Turn
  <1> QED
    BY <1>5, <1>6 DEF d, s

Slot(r) == First(Named(r.config[r.section.type], r.section.name))
Stored(r, l) ==
    [name |-> r.section.name,
     param |-> After(r.config[r.section.type][Slot(r)].param, l, Replaces(r.section))]

LEMMA PlaceIn ==
    ASSUME NEW r \in Turn, r.section # Unknown
    PROVE  /\ r.section \in Title /\ r.section.type \in Type /\ r.config \in Shape
           /\ r.config[r.section.type] \in Seq(Block)
           /\ Slot(r) \in 1 .. Len(r.config[r.section.type])
           /\ r.config[r.section.type][Slot(r)] \in Block
           /\ r.config[r.section.type][Slot(r)].name = r.section.name
           /\ r.config[r.section.type][Slot(r)].param \in Seq(Parameter)
  <1> DEFINE s == r.section
             list == r.config[s.type]
  <1>1. s \in Title /\ s.type \in Type /\ r.config \in Shape
    BY DEF Turn, Title
  <1>2. list \in Seq(Block)
    BY <1>1 DEF Shape
  <1>3. Named(list, s.name) # {}
    BY DEF Turn
  <1>4. Named(list, s.name) \in SUBSET Nat /\ Named(list, s.name) \subseteq 1 .. Len(list)
    BY <1>2 DEF Named
  <1>5. Slot(r) \in Named(list, s.name)
    BY <1>3, <1>4, FirstIn DEF Slot
  <1>6. Slot(r) \in 1 .. Len(list) /\ list[Slot(r)].name = s.name
    BY <1>4, <1>5 DEF Named
  <1>7. list[Slot(r)] \in Block /\ list[Slot(r)].param \in Seq(Parameter)
    <2>1. list[Slot(r)] \in Block
      BY <1>2, <1>6
    <2> QED
      BY <2>1 DEF Block
  <1> QED
    BY <1>1, <1>2, <1>6, <1>7

LEMMA ReadParameter ==
    ASSUME NEW r \in Turn, NEW l \in [key : Key, value : Value], r.section # Unknown
    PROVE  /\ ReadConfigLine(r, l) \in Turn /\ Stored(r, l) \in Block
           /\ ReadConfigLine(r, l).section = r.section
           /\ \A t \in Type : ReadConfigLine(r, l).config[t] =
                 IF t = r.section.type THEN [r.config[t] EXCEPT ![Slot(r)] = Stored(r, l)]
                 ELSE r.config[t]
  <1> DEFINE s == r.section
             t == s.type
             c == r.config
             i == Slot(r)
             p == c[t][i].param
             q == After(p, l, Replaces(s))
             d == [c EXCEPT ![t] = [c[t] EXCEPT ![i] = [c[t][i] EXCEPT !.param = q]]]
             e == [c[t] EXCEPT ![i] = Stored(r, l)]
  <1>1. "header" \notin DOMAIN l /\ "comment" \notin DOMAIN l
    OBVIOUS
  <1>2. /\ s \in Title /\ t \in Type /\ c \in Shape /\ c[t] \in Seq(Block) /\ i \in 1 .. Len(c[t])
        /\ c[t][i] \in Block /\ c[t][i].name = s.name /\ p \in Seq(Parameter)
    BY PlaceIn
  <1>3. Replaces(s) \in BOOLEAN
    BY DEF Replaces
  <1>4. f2b_config_param_append(p, f2b_config_param_create(l), Replaces(s)) = q /\ q \in Seq(Parameter)
    BY <1>2, <1>3, AppendParam
  <1>5. ReadConfigLine(r, l) =
            [r EXCEPT !.config[t][i].param =
                f2b_config_param_append(@, f2b_config_param_create(l), Replaces(s))]
    BY <1>1 DEF ReadConfigLine, Slot
  <1>6. r = [config |-> c, section |-> s]
    BY DEF Turn
  <1>7. Stored(r, l) = [name |-> s.name, param |-> q] /\ Stored(r, l) \in Block
    BY <1>2, <1>4 DEF Stored, Block, Title
  <1>8. ReadConfigLine(r, l) = [config |-> d, section |-> s]
    <2>1. ReadConfigLine(r, l) = [r EXCEPT !.config[t][i].param = q]
      BY <1>4, <1>5
    <2>2. r \in [config : Shape, section : Title \cup {Unknown}] /\ r.config = c /\ r.section = s
      BY DEF Turn
    <2> HIDE DEF q, i, t, c, s
    <2>3. [r EXCEPT !.config[t][i].param = q] = [config |-> d, section |-> s]
      BY <2>2
    <2> HIDE DEF d
    <2> QED
      BY <2>1, <2>3
  <1>9. [c[t][i] EXCEPT !.param = q] = Stored(r, l)
    <2> DEFINE z == c[t][i]
    <2>1. z \in Block /\ z.name = s.name
      BY <1>2
    <2> HIDE DEF q, s, i, z
    <2>2. [z EXCEPT !.param = q] = [name |-> s.name, param |-> q]
      BY <2>1 DEF Block
    <2> QED
      BY <1>7, <2>2 DEF z
  <1>10. e \in Seq(Block) /\ DOMAIN e = DOMAIN c[t] /\ e[i] = Stored(r, l)
         /\ \A j \in DOMAIN c[t] : j # i => e[j] = c[t][j]
    <2> HIDE DEF t, c, i
    <2>1. e \in Seq(Block) /\ Len(e) = Len(c[t]) /\ \A j \in 1 .. Len(c[t]) :
             e[j] = IF j = i THEN Stored(r, l) ELSE c[t][j]
      BY <1>2, <1>7, ExceptSeq
    <2>2. DOMAIN e = DOMAIN c[t] /\ DOMAIN c[t] = 1 .. Len(c[t])
      BY <1>2, <2>1
    <2> QED
      BY <1>2, <2>1, <2>2
  <1>11. d = [c EXCEPT ![t] = e]
    <2> HIDE DEF q, i, t, c, s
    <2>1. i \in DOMAIN c[t]
      BY <1>2
    <2>2. [c[t] EXCEPT ![i] = [@ EXCEPT !.param = q]] = e
      BY <1>9, <2>1
    <2> HIDE DEF e
    <2> QED
      BY <2>2
  <1> HIDE DEF d, e, c, t, s, q, i
  <1>12. d \in Shape /\ d[t] = e /\ \A u \in Type : u # t => d[u] = c[u]
    BY <1>2, <1>10, <1>11 DEF Shape
  <1>13. Named(d[t], s.name) # {}
    <2>1. i \in DOMAIN e /\ e[i].name = s.name
      BY <1>2, <1>7, <1>10
    <2> QED
      BY <1>12, <2>1 DEF Named
  <1>14. [config |-> d, section |-> s] \in Turn
    BY <1>2, <1>12, <1>13 DEF Turn, t
  <1> QED
    BY <1>7, <1>8, <1>12, <1>14 DEF e, c, t, s, i

---------------------------------------------------------------------------
(* A list of sections says what the script says. *)

Titled(t, list, i) == [type |-> t, name |-> list[i].name]
Says(R, t, list) ==
    /\ Placed(R, t, list) /\ Mentioned(R, t, list)
    /\ \A i, j \in DOMAIN list : list[i].name = list[j].name => i = j
    /\ t \in Single => \A i \in DOMAIN list : list[i].name = ""
    /\ \A i \in DOMAIN list : Filled(R, Titled(t, list, i), list[i].param)

(* The mentions that a new line adds to, or that it leaves. *)
LEMMA MentionedSame ==
    ASSUME NEW R, NEW Q, NEW a, NEW x, Longer(R, Q, a, x), NEW t, NEW list, Mentioned(R, t, list),
           Mentions(x, t) => Named(list, Meaning[x.header].name) # {}
    PROVE  Mentioned(Q, t, list)
  <1>1. /\ MentionsOf(Q, t) = MentionsOf(R, t) \cup (IF Mentions(x, t) THEN {a} ELSE {})
        /\ TitleAt(Q, a) = Meaning[x.header]
        /\ \A h \in MentionsOf(R, t) : TitleAt(Q, h) = TitleAt(R, h)
    BY LongerMentions
  <1> SUFFICES ASSUME NEW h \in MentionsOf(Q, t) PROVE Named(list, TitleAt(Q, h).name) # {}
    BY DEF Mentioned
  <1>2. CASE h \in MentionsOf(R, t)
    BY <1>1, <1>2 DEF Mentioned
  <1>3. CASE h \notin MentionsOf(R, t)
    <2>1. h = a /\ Mentions(x, t)
      BY <1>1, <1>3
    <2> QED
      BY <1>1, <2>1
  <1> QED
    BY <1>2, <1>3

LEMMA NewsOrNamed ==
    ASSUME NEW R, NEW x, NEW t, NEW list \in Seq(Block), Mentions(x, t),
           Placed(R, t, list), Mentioned(R, t, list)
    PROVE  News(R, x, t) <=> Named(list, Meaning[x.header].name) = {}
  <1>1. ASSUME News(R, x, t), NEW i \in Named(list, Meaning[x.header].name) PROVE FALSE
    <2>1. PICK e : /\ Enum(FirstsOf(R, t), e) /\ Len(list) = Len(e)
                   /\ \A j \in DOMAIN list : list[j].name = TitleAt(R, e[Len(e) + 1 - j]).name
      BY DEF Placed
    <2>2. i \in DOMAIN list /\ list[i].name = Meaning[x.header].name /\ i \in 1 .. Len(e)
      BY <2>1 DEF Named
    <2>3. Len(e) + 1 - i \in 1 .. Len(e)
      BY <2>1, <2>2, FirstsAreMentions
    <2>4. e[Len(e) + 1 - i] \in MentionsOf(R, t)
      BY <2>1, <2>3, FirstsAreMentions
    <2> QED
      BY <1>1, <2>1, <2>2, <2>4 DEF News
  <1>2. ASSUME Named(list, Meaning[x.header].name) = {} PROVE News(R, x, t)
    <2>1. \A k \in MentionsOf(R, t) : TitleAt(R, k).name # Meaning[x.header].name
      BY <1>2 DEF Mentioned
    <2> QED
      BY <2>1 DEF News
  <1> QED
    BY <1>1, <1>2

(* A line that is not for the sections of this type, or that is a header of *)
(* one that is there.                                                       *)
LEMMA SaysSame ==
    ASSUME NEW R, NEW Q, NEW a, NEW x, Longer(R, Q, a, x), NEW t, NEW list \in Seq(Block),
           Says(R, t, list), Mentions(x, t) => Named(list, Meaning[x.header].name) # {},
           \A i \in DOMAIN list : ~(IsParameter(x) /\ TitleOf(R, a) = Titled(t, list, i))
    PROVE  Says(Q, t, list)
  <1>1. Placed(R, t, list) /\ Mentioned(R, t, list)
    BY DEF Says
  <1>2. ~News(R, x, t)
    <2>1. ~Mentions(x, t) => ~News(R, x, t)
      BY DEF News
    <2> QED
      BY <1>1, <2>1, NewsOrNamed
  <1>3. Placed(Q, t, list)
    BY <1>1, <1>2, PlacedSame
  <1>4. Mentioned(Q, t, list)
    BY <1>1, MentionedSame
  <1>5. ASSUME NEW i \in DOMAIN list PROVE Filled(Q, Titled(t, list, i), list[i].param)
    <2>1. list[i].param \in Seq(Parameter)
      <3>1. list[i] \in Block
        OBVIOUS
      <3> QED
        BY <3>1 DEF Block
    <2>2. Filled(R, Titled(t, list, i), list[i].param)
      BY DEF Says
    <2>3. ~(IsParameter(x) /\ TitleOf(R, a) = Titled(t, list, i))
      OBVIOUS
    <2> QED
      BY <2>1, <2>2, <2>3, FilledSame
  <1> QED
    BY <1>3, <1>4, <1>5 DEF Says

(* A header of a section that is not there yet. *)
LEMMA SaysNew ==
    ASSUME NEW R, NEW Q, NEW a, NEW x, Longer(R, Q, a, x), NEW t \in Type, NEW list \in Seq(Block),
           Says(R, t, list), Mentions(x, t), Named(list, Meaning[x.header].name) = {}
    PROVE  Says(Q, t, <<[name |-> Meaning[x.header].name, param |-> <<>>]>> \o list)
  <1> DEFINE m == Meaning[x.header]
             s == [name |-> m.name, param |-> <<>>]
             new == <<s>> \o list
  <1>1. Placed(R, t, list) /\ Mentioned(R, t, list) /\ DOMAIN R \subseteq Spot
    BY DEF Says, Longer
  <1>2. ~IsParameter(x) /\ x.header \in Header
    <2>1. x \in ConfigLine /\ "header" \in DOMAIN x
      BY DEF Longer, Mentions
    <2> QED
      BY <2>1, ConfigLineKinds DEF IsParameter
  <1>3. m \in Title /\ m.type = t /\ (t \in Single => m.name = "") /\ m.name \in SectionName
    <2>1. m # Unknown /\ m.type = t
      BY DEF Mentions
    <2> HIDE DEF s, new
    <2>2. m \in Title /\ (t \in Single => m.name = "")
      BY <1>2, <2>1, ConfigAssumption
    <2> QED
      BY <2>1, <2>2 DEF Title
  <1>4. s \in Block /\ s.name = m.name /\ s.param = <<>>
    <2>1. <<>> \in Seq(Parameter)
      OBVIOUS
    <2> HIDE DEF m
    <2> QED
      BY <1>3, <2>1 DEF Block
  <1>5. News(R, x, t)
    BY <1>1, NewsOrNamed
  <1>6. /\ new \in Seq(Block) /\ DOMAIN new = 1 .. Len(list) + 1 /\ new[1] = s /\ Len(list) \in Nat
        /\ \A i \in 1 .. Len(list) : new[i + 1] = list[i]
        /\ \A i \in 1 .. Len(list) + 1 : i = 1 \/ i - 1 \in 1 .. Len(list)
    <2> HIDE DEF s
    <2> QED
      BY <1>4, Shifted
  <1>7. Placed(Q, t, new)
    <2> HIDE DEF s
    <2> QED
      BY <1>1, <1>4, <1>5, PlacedNew
  <1> HIDE DEF new, s, m
  <1>8. \A i \in DOMAIN new : i = 1 \/ (i - 1 \in DOMAIN list /\ new[i] = list[i - 1])
    <2> SUFFICES ASSUME NEW i \in 1 .. Len(list) + 1, i - 1 \in 1 .. Len(list)
                 PROVE  new[i] = list[i - 1]
      BY <1>6
    <2>1. i - 1 + 1 = i
      OBVIOUS
    <2> QED
      BY <1>6, <2>1
  <1>9. Mentioned(Q, t, new)
    <2>1. Named(new, m.name) # {}
      <3>1. 1 \in DOMAIN new /\ new[1].name = m.name
        BY <1>4, <1>6
      <3> QED
        BY <3>1 DEF Named
    <2>2. \A n : Named(list, n) # {} => Named(new, n) # {}
      <3> SUFFICES ASSUME NEW n, NEW i \in 1 .. Len(list), list[i].name = n PROVE Named(new, n) # {}
        BY DEF Named
      <3>1. i + 1 \in DOMAIN new /\ new[i + 1].name = n
        BY <1>6
      <3> QED
        BY <3>1 DEF Named
    <2>3. Mentioned(R, t, new)
      BY <1>1, <2>2 DEF Mentioned
    <2> QED
      BY <2>1, <2>3, MentionedSame DEF m
  <1>10. \A i, j \in DOMAIN new : new[i].name = new[j].name => i = j
    <2>1. \A i \in DOMAIN list : list[i].name # m.name
      BY DEF Named, m
    <2> SUFFICES ASSUME NEW i \in DOMAIN new, NEW j \in DOMAIN new, new[i].name = new[j].name
                 PROVE  i = j
      OBVIOUS
    <2>2. CASE i = 1 \/ j = 1
      BY <1>4, <1>6, <1>8, <2>1, <2>2
    <2>3. CASE i # 1 /\ j # 1
      <3>1. i - 1 = j - 1
        BY <1>8, <2>3 DEF Says
      <3> QED
        BY <1>6, <3>1
    <2> QED
      BY <2>2, <2>3
  <1>11. t \in Single => \A i \in DOMAIN new : new[i].name = ""
    <2> SUFFICES ASSUME t \in Single, NEW i \in DOMAIN new PROVE new[i].name = ""
      OBVIOUS
    <2>1. CASE i = 1
      BY <1>3, <1>4, <1>6, <2>1
    <2>2. CASE i - 1 \in DOMAIN list /\ new[i] = list[i - 1]
      BY <2>2 DEF Says
    <2> QED
      BY <1>8, <2>1, <2>2
  <1>12. ASSUME NEW i \in DOMAIN new PROVE Filled(Q, Titled(t, new, i), new[i].param)
    <2>1. CASE i = 1
      <3>1. Titled(t, new, i) = m
        BY <1>3, <1>4, <1>6, <2>1 DEF Titled, Title
      <3>2. Given(R, m) = {}
        BY <1>1, <1>3, FreshGiven DEF m
      <3>3. Filled(R, m, <<>>) /\ <<>> \in Seq(Parameter)
        BY <3>2, NothingGiven
      <3>4. Filled(Q, m, <<>>)
        BY <1>2, <3>3, FilledSame
      <3> QED
        BY <1>4, <1>6, <2>1, <3>1, <3>4
    <2>2. CASE i # 1
      <3> DEFINE j == i - 1
      <3>1. j \in DOMAIN list /\ new[i] = list[j]
        BY <1>8, <2>2
      <3> HIDE DEF j
      <3>2. Titled(t, new, i) = Titled(t, list, j)
        BY <3>1 DEF Titled
      <3>3. list[j].param \in Seq(Parameter) /\ Filled(R, Titled(t, list, j), list[j].param)
        <4>1. list[j] \in Block
          BY <3>1
        <4> QED
          BY <3>1, <4>1 DEF Block, Says
      <3>4. Filled(Q, Titled(t, list, j), list[j].param)
        BY <1>2, <3>3, FilledSame
      <3> QED
        BY <3>1, <3>2, <3>4
    <2> QED
      BY <2>1, <2>2
  <1> QED
    BY <1>7, <1>9, <1>10, <1>11, <1>12 DEF Says, new, s, m

(* A line in a section. *)
LEMMA SaysParameter ==
    ASSUME NEW R, NEW Q, NEW a, NEW x, Longer(R, Q, a, x), x \in [key : Key, value : Value],
           NEW t \in Type, NEW list \in Seq(Block), Says(R, t, list), NEW m \in DOMAIN list,
           TitleOf(R, a) = Titled(t, list, m)
    PROVE  Says(Q, t, [list EXCEPT ![m] =
                          [name |-> list[m].name,
                           param |-> After(list[m].param, x, Replaces(Titled(t, list, m)))]])
  <1> DEFINE p == list[m].param
             s == Titled(t, list, m)
             sec == [name |-> list[m].name, param |-> After(p, x, Replaces(s))]
             new == [list EXCEPT ![m] = sec]
  <1>1. Placed(R, t, list) /\ Mentioned(R, t, list) /\ Filled(R, s, p)
    BY DEF Says
  <1>2. list[m] \in Block /\ p \in Seq(Parameter) /\ m \in 1 .. Len(list)
    <2>1. list[m] \in Block /\ m \in 1 .. Len(list)
      OBVIOUS
    <2> QED
      BY <2>1 DEF Block
  <1>3. Replaces(s) \in BOOLEAN
    BY DEF Replaces
  <1>4. After(p, x, Replaces(s)) \in Seq(Parameter)
    BY <1>2, <1>3, AppendParam
  <1>5. sec \in Block /\ sec.name = list[m].name /\ sec.param = After(p, x, Replaces(s))
    BY <1>2, <1>4 DEF Block
  <1>6. ~Mentions(x, t) /\ ~News(R, x, t)
    <2>1. "header" \notin DOMAIN x
      OBVIOUS
    <2> QED
      BY <2>1 DEF Mentions, News
  <1> HIDE DEF sec, s, p
  <1>7. new \in Seq(Block) /\ Len(new) = Len(list) /\ DOMAIN new = DOMAIN list /\ new[m] = sec
        /\ \A i \in DOMAIN list : i # m => new[i] = list[i]
    <2>1. new \in Seq(Block) /\ Len(new) = Len(list) /\ \A i \in 1 .. Len(list) :
             new[i] = IF i = m THEN sec ELSE list[i]
      BY <1>2, <1>5, ExceptSeq
    <2>2. DOMAIN new = DOMAIN list /\ DOMAIN list = 1 .. Len(list)
      BY <2>1
    <2> QED
      BY <1>2, <2>1, <2>2
  <1> HIDE DEF new
  <1>8. \A i \in DOMAIN list : new[i].name = list[i].name
    BY <1>5, <1>7
  <1>9. Placed(Q, t, new)
    BY <1>1, <1>6, <1>7, <1>8, PlacedSame
  <1>10. Mentioned(Q, t, new)
    <2>1. Mentioned(Q, t, list)
      BY <1>1, <1>6, MentionedSame
    <2>2. \A n : Named(new, n) = Named(list, n)
      BY <1>7, <1>8 DEF Named
    <2> QED
      BY <2>1, <2>2 DEF Mentioned
  <1>11. \A i \in DOMAIN list : Titled(t, new, i) = Titled(t, list, i)
    BY <1>8 DEF Titled
  <1>12. Filled(Q, s, After(p, x, Replaces(s)))
    <2>0. TitleOf(R, a) = s
      BY DEF s
    <2>1. CASE ~IsParameter(x)
      <3>1. After(p, x, Replaces(s)) = p
        BY <2>1 DEF After
      <3> QED
        BY <1>1, <1>2, <2>1, <3>1, FilledSame
    <2>2. CASE IsParameter(x) /\ ~Replaces(s)
      <3>1. After(p, x, Replaces(s)) = Append(p, [name |-> x.key, value |-> x.value])
        BY <2>2 DEF After
      <3>2. Kept(Q, s, Append(p, [name |-> x.key, value |-> x.value]))
        BY <1>1, <1>2, <2>0, <2>2, KeptAdd DEF Filled
      <3> QED
        BY <2>2, <3>1, <3>2 DEF Filled
    <2>3. CASE IsParameter(x) /\ Replaces(s) /\ Named(p, x.key) = {}
      <3>1. After(p, x, Replaces(s)) = Append(p, [name |-> x.key, value |-> x.value])
        BY <2>3 DEF After
      <3>2. Replaced(Q, s, Append(p, [name |-> x.key, value |-> x.value]))
        BY <1>1, <1>2, <2>0, <2>3, ReplacedAppend DEF Filled
      <3> QED
        BY <2>3, <3>1, <3>2 DEF Filled
    <2>4. CASE IsParameter(x) /\ Replaces(s) /\ Named(p, x.key) # {}
      <3>1. After(p, x, Replaces(s)) =
               [p EXCEPT ![First(Named(p, x.key))] = [name |-> x.key, value |-> x.value]]
        BY <2>4 DEF After
      <3>2. Replaced(Q, s, [p EXCEPT ![First(Named(p, x.key))] = [name |-> x.key, value |-> x.value]])
        BY <1>1, <1>2, <2>0, <2>4, ReplacedChange DEF Filled
      <3> QED
        BY <2>4, <3>1, <3>2 DEF Filled
    <2> QED
      BY <1>3, <2>1, <2>2, <2>3, <2>4
  <1>13. ASSUME NEW i \in DOMAIN list PROVE Filled(Q, Titled(t, new, i), new[i].param)
    <2>1. CASE i = m
      BY <1>5, <1>7, <1>11, <1>12, <2>1 DEF s
    <2>2. CASE i # m
      <3>1. list[i].param \in Seq(Parameter) /\ Filled(R, Titled(t, list, i), list[i].param)
        <4>1. list[i] \in Block
          OBVIOUS
        <4> QED
          BY <4>1 DEF Block, Says
      <3>2. Titled(t, list, i) # TitleOf(R, a)
        <4>1. list[i].name # list[m].name
          BY <2>2 DEF Says
        <4> QED
          BY <4>1 DEF Titled
      <3>3. Filled(Q, Titled(t, list, i), list[i].param)
        BY <3>1, <3>2, FilledSame
      <3> QED
        BY <1>7, <1>11, <2>2, <3>3
    <2> QED
      BY <2>1, <2>2
  <1> QED
    BY <1>7, <1>8, <1>9, <1>10, <1>13 DEF Says, new, sec, s, p

Agrees(R, c) == c \in Shape /\ \A t \in Type : Says(R, t, c[t])

LEMMA ReadSkips ==
    ASSUME NEW r \in Turn, NEW l \in ConfigLine,
           "comment" \in DOMAIN l \/ ("header" \notin DOMAIN l /\ r.section = Unknown)
    PROVE  ReadConfigLine(r, l) = r
  <1>1. CASE "comment" \in DOMAIN l
    <2>1. "header" \notin DOMAIN l
      BY <1>1, ConfigLineKinds
    <2> QED
      BY <1>1, <2>1 DEF ReadConfigLine
  <1>2. CASE "comment" \notin DOMAIN l
    BY <1>2 DEF ReadConfigLine
  <1> QED
    BY <1>1, <1>2

LEMMA ReadTurn ==
    ASSUME NEW r \in Turn, NEW l \in ConfigLine
    PROVE  ReadConfigLine(r, l) \in Turn
  <1>1. CASE l \in [header : Header]
    BY <1>1, ReadHeader
  <1>2. CASE l \in [key : Key, value : Value]
    <2>1. "header" \notin DOMAIN l
      BY <1>2
    <2>2. CASE r.section = Unknown
      BY <2>1, <2>2, ReadSkips
    <2>3. CASE r.section # Unknown
      BY <1>2, <2>3, ReadParameter
    <2> QED
      BY <2>2, <2>3
  <1>3. CASE l \in [comment : {TRUE}]
    <2>1. "comment" \in DOMAIN l
      BY <1>3
    <2> QED
      BY <2>1, ReadSkips
  <1> QED
    BY <1>1, <1>2, <1>3 DEF ConfigLine

(* A turn of the loop keeps the sections and the script in agreement.       *)
LEMMA TurnAgrees ==
    ASSUME NEW R, NEW Q, NEW a, NEW x, Longer(R, Q, a, x),
           NEW b \in Spot, b[1] = a[1], b[2] = a[2] + 1,
           NEW r \in Turn, Agrees(R, r.config), r.section = TitleOf(R, a)
    PROVE  /\ ReadConfigLine(r, x) \in Turn /\ Agrees(Q, ReadConfigLine(r, x).config)
           /\ ReadConfigLine(r, x).section = TitleOf(Q, b)
  <1> DEFINE q == ReadConfigLine(r, x)
  <1>0. x \in ConfigLine /\ TitleOf(Q, b) = IF "header" \in DOMAIN x THEN Meaning[x.header] ELSE TitleOf(R, a)
    BY LongerTitle DEF Longer
  <1>1. q \in Turn
    BY <1>0, ReadTurn
  <1>2. r.config \in Shape /\ \A t \in Type : Says(R, t, r.config[t]) /\ r.config[t] \in Seq(Block)
    BY DEF Agrees, Shape
  <1>3. ASSUME NEW d \in Shape, d = r.config, q = r, ~IsParameter(x) \/ TitleOf(R, a) = Unknown,
               "header" \notin DOMAIN x
        PROVE  Agrees(Q, q.config) /\ q.section = TitleOf(Q, b)
    <2>1. ASSUME NEW t \in Type PROVE Says(Q, t, r.config[t])
      <3>1. ~Mentions(x, t)
        BY <1>3 DEF Mentions
      <3>2. \A i \in DOMAIN r.config[t] : Titled(t, r.config[t], i) \in Title
        <4> DEFINE list == r.config[t]
        <4>1. list \in Seq(Block)
          BY <1>2
        <4> HIDE DEF list
        <4>2. \A i \in DOMAIN list : list[i] \in Block
          BY <4>1
        <4>3. \A i \in DOMAIN list : Titled(t, list, i) \in Title
          BY <4>2 DEF Titled, Title, Block
        <4> QED
          BY <4>3 DEF list
      <3>3. \A i \in DOMAIN r.config[t] : ~(IsParameter(x) /\ TitleOf(R, a) = Titled(t, r.config[t], i))
        BY <1>3, <3>2, ConfigAssumption
      <3> QED
        BY <1>2, <3>1, <3>3, SaysSame
    <2> QED
      BY <1>0, <1>2, <1>3, <2>1 DEF Agrees
  <1>4. CASE x \in [comment : {TRUE}]
    <2>1. "comment" \in DOMAIN x /\ "header" \notin DOMAIN x /\ ~IsParameter(x)
      <3>1. "comment" \in DOMAIN x /\ "header" \notin DOMAIN x /\ "key" \notin DOMAIN x
        BY <1>4
      <3> QED
        BY <3>1 DEF IsParameter
    <2>2. q = r
      BY <1>0, <2>1, ReadSkips
    <2> QED
      BY <1>1, <1>2, <1>3, <2>1, <2>2
  <1>5. CASE x \in [header : Header]
    <2> DEFINE m == Meaning[x.header]
    <2>1. "header" \in DOMAIN x /\ ~IsParameter(x) /\ x.header \in Header
      <3>1. "header" \in DOMAIN x /\ "key" \notin DOMAIN x /\ x.header \in Header
        BY <1>5
      <3> QED
        BY <3>1 DEF IsParameter
    <2>2. q.section = m /\ q.config = IF m = Unknown THEN r.config ELSE f2b_config_section_append(r.config, m)
      BY <1>5, ReadHeader
    <2>3. m = Unknown \/ m \in Title
      BY <2>1, ConfigAssumption
    <2> HIDE DEF m, q
    <2>4. ASSUME NEW t \in Type PROVE Says(Q, t, q.config[t])
      <3>1. CASE Mentions(x, t) /\ Named(r.config[t], m.name) = {}
        <4>1. m \in Title /\ m.type = t
          BY <2>3, <3>1 DEF Mentions, m
        <4>2. m # Unknown
          BY <4>1, ConfigAssumption
        <4>3. q.config[t] = <<[name |-> m.name, param |-> <<>>]>> \o r.config[t]
          <5>1. f2b_config_section_append(r.config, m)[t] =
                   IF t = m.type /\ Named(r.config[t], m.name) = {}
                   THEN <<[name |-> m.name, param |-> <<>>]>> \o r.config[t] ELSE r.config[t]
            BY <1>2, <4>1, AppendSection
          <5> QED
            BY <2>2, <3>1, <4>1, <4>2, <5>1
        <4>4. Says(Q, t, <<[name |-> m.name, param |-> <<>>]>> \o r.config[t])
          BY <1>2, <3>1, SaysNew DEF m
        <4> QED
          BY <4>3, <4>4
      <3>2. CASE ~(Mentions(x, t) /\ Named(r.config[t], m.name) = {})
        <4>1. q.config[t] = r.config[t]
          <5>1. CASE m = Unknown
            BY <2>2, <5>1
          <5>2. CASE m \in Title /\ m # Unknown
            <6>1. ~(t = m.type /\ Named(r.config[t], m.name) = {})
              BY <2>1, <3>2, <5>2 DEF Mentions, m
            <6>2. f2b_config_section_append(r.config, m)[t] =
                     IF t = m.type /\ Named(r.config[t], m.name) = {}
                     THEN <<[name |-> m.name, param |-> <<>>]>> \o r.config[t] ELSE r.config[t]
              BY <1>2, <5>2, AppendSection
            <6> QED
              BY <2>2, <5>2, <6>1, <6>2
          <5> QED
            BY <2>3, <5>1, <5>2
        <4>2. Says(Q, t, r.config[t])
          BY <1>2, <2>1, <3>2, SaysSame DEF m
        <4> QED
          BY <4>1, <4>2
      <3> QED
        BY <3>1, <3>2
    <2> QED
      BY <1>0, <1>1, <2>1, <2>2, <2>4 DEF Agrees, Turn, m, q
  <1>6. CASE x \in [key : Key, value : Value] /\ r.section = Unknown
    <2>1. "header" \notin DOMAIN x
      BY <1>6
    <2>2. q = r
      BY <1>0, <1>6, <2>1, ReadSkips
    <2> QED
      BY <1>1, <1>2, <1>3, <1>6, <2>1, <2>2
  <1>7. CASE x \in [key : Key, value : Value] /\ r.section # Unknown
    <2> DEFINE u == r.section.type
               i == Slot(r)
               list == r.config[u]
               sec == [name |-> list[i].name, param |-> After(list[i].param, x, Replaces(Titled(u, list, i)))]
    <2>1. "header" \notin DOMAIN x
      BY <1>7
    <2>2. /\ r.section \in Title /\ u \in Type /\ list \in Seq(Block) /\ i \in 1 .. Len(list)
          /\ list[i] \in Block /\ list[i].name = r.section.name
      BY <1>7, PlaceIn
    <2>3. Titled(u, list, i) = r.section
      BY <2>2 DEF Titled, Title
    <2>4. sec = Stored(r, x)
      BY <2>2, <2>3 DEF Stored
    <2>5. /\ q.section = r.section
          /\ \A t \in Type : q.config[t] = IF t = u THEN [r.config[t] EXCEPT ![i] = Stored(r, x)] ELSE r.config[t]
      BY <1>7, ReadParameter
    <2>6. Says(Q, u, [list EXCEPT ![i] = sec])
      <3> HIDE DEF i, list, u
      <3>1. i \in DOMAIN list /\ Says(R, u, list)
        BY <1>2, <2>2 DEF list
      <3> QED
        BY <1>7, <2>2, <2>3, <3>1, SaysParameter
    <2>7. ASSUME NEW t \in Type PROVE Says(Q, t, q.config[t])
      <3>1. CASE t = u
        BY <2>4, <2>5, <2>6, <3>1
      <3>2. CASE t # u
        <4>1. ~Mentions(x, t)
          BY <2>1 DEF Mentions
        <4>2. \A j \in DOMAIN r.config[t] : TitleOf(R, a) # Titled(t, r.config[t], j)
          BY <3>2 DEF Titled
        <4>3. Says(Q, t, r.config[t])
          BY <1>2, <4>1, <4>2, SaysSame
        <4> QED
          BY <2>5, <3>2, <4>3
      <3> QED
        BY <3>1, <3>2
    <2> QED
      BY <1>0, <1>1, <2>1, <2>5, <2>7 DEF Agrees, Turn
  <1> QED
    BY <1>0, <1>4, <1>5, <1>6, <1>7 DEF ConfigLine

---------------------------------------------------------------------------
(* The loop of f2b_config_load over the lines of a file.                    *)
LEMMA ConfigLoop ==
    ASSUME NEW base \in Turn, NEW l \in Seq(ConfigLine)
    PROVE  \E r : /\ r[0] = base
                  /\ \A n \in Nat : n + 1 <= Len(l) => r[n + 1] = ReadConfigLine(r[n], l[n + 1])
                  /\ FoldLeft(ReadConfigLine, base, l) = r[Len(l)]
  <1> DEFINE Reads(it) ==
                it = [s \in SUBSET DOMAIN l |->
                        IF s = {} THEN base ELSE ReadConfigLine(it[s \ {Upmost(s)}], l[Upmost(s)])]
             it == CHOOSE it : Reads(it)
             r == [n \in Nat |-> it[1 .. n]]
             step == [a \in Turn \X ConfigLine |-> ReadConfigLine(a[1], a[2])]
  <1>1. Len(l) \in Nat /\ DOMAIN l = 1 .. Len(l) /\ \A i \in DOMAIN l : l[i] \in ConfigLine
    OBVIOUS
  <1>2. step \in [Turn \X ConfigLine -> Turn]
    BY ReadTurn
  <1>3. PICK f : Folds(step, f, base, l, Turn)
    <2> HIDE DEF step
    <2> QED
      BY <1>2, FoldExists
  <1>4. \A s \in SUBSET DOMAIN l :
           f[s] = IF s = {} THEN base ELSE ReadConfigLine(f[s \ {Upmost(s)}], l[Upmost(s)])
    <2>0. f \in [SUBSET DOMAIN l -> Turn]
          /\ \A s \in SUBSET DOMAIN l : f[s] = Fold(step, f, base, l, s)
      BY <1>3 DEF Folds
    <2>1. ASSUME NEW s \in SUBSET DOMAIN l, s # {}
          PROVE  step[<<f[s \ {Upmost(s)}], l[Upmost(s)]>>] = ReadConfigLine(f[s \ {Upmost(s)}], l[Upmost(s)])
      <3>1. Upmost(s) \in DOMAIN l
        BY <1>1, <2>1, LastIn
      <3>2. f[s \ {Upmost(s)}] \in Turn /\ l[Upmost(s)] \in ConfigLine
        BY <1>1, <2>0, <3>1
      <3> QED
        BY <3>2
    <2> HIDE DEF step
    <2> QED
      BY <2>0, <2>1 DEF Fold
  <1>5. Reads(f)
    BY <1>3, <1>4 DEF Folds
  <1> HIDE DEF it
  <1>6. Reads(it)
    <2> HIDE DEF Reads
    <2> QED
      BY <1>5 DEF it
  <1>7. FoldLeft(ReadConfigLine, base, l) = it[DOMAIN l]
    BY DEF FoldLeft, MapThenFoldSet, Max, Upmost, it
  <1>8. r[0] = base
    <2>1. it[{}] = base
      BY <1>6
    <2>2. 1 .. 0 = {}
      OBVIOUS
    <2> QED
      BY <2>1, <2>2
  <1>9. ASSUME NEW n \in Nat, n + 1 <= Len(l) PROVE r[n + 1] = ReadConfigLine(r[n], l[n + 1])
    <2>1. 1 .. n + 1 \in SUBSET DOMAIN l
      BY <1>1, <1>9
    <2>2. \A s \in SUBSET DOMAIN l :
             it[s] = IF s = {} THEN base ELSE ReadConfigLine(it[s \ {Upmost(s)}], l[Upmost(s)])
      BY <1>6
    <2>3. it[1 .. n + 1] = ReadConfigLine(it[1 .. n], l[n + 1])
      BY <2>1, <2>2, LastPlace
    <2> QED
      BY <2>3
  <1>10. FoldLeft(ReadConfigLine, base, l) = r[Len(l)]
    BY <1>1, <1>7
  <1> HIDE DEF r
  <1> QED
    BY <1>8, <1>9, <1>10

---------------------------------------------------------------------------
(* What has been read, as a script. *)

Read == [path : Path, lines : Seq(ConfigLine)]
PlacesIn(rd) == UNION {{<<n, i>> : i \in DOMAIN rd[n].lines} : n \in DOMAIN rd}
Script(rd) == [a \in PlacesIn(rd) |-> rd[a[1]].lines[a[2]]]

LEMMA ScriptPlaces ==
    ASSUME NEW rd \in Seq(Read)
    PROVE  /\ DOMAIN Script(rd) = PlacesIn(rd) /\ PlacesIn(rd) \subseteq Spot
           /\ \A a \in PlacesIn(rd) :
                 /\ a[1] \in 1 .. Len(rd) /\ a[2] \in 1 .. Len(rd[a[1]].lines)
                 /\ Script(rd)[a] = rd[a[1]].lines[a[2]] /\ Script(rd)[a] \in ConfigLine
           /\ \A n \in 1 .. Len(rd) : \A i \in 1 .. Len(rd[n].lines) : <<n, i>> \in PlacesIn(rd)
  <1>1. \A n \in 1 .. Len(rd) : rd[n].lines \in Seq(ConfigLine)
    <2>1. \A n \in 1 .. Len(rd) : rd[n] \in Read
      OBVIOUS
    <2> QED
      BY <2>1 DEF Read
  <1>2. DOMAIN rd = 1 .. Len(rd) /\ Len(rd) \in Nat
    OBVIOUS
  <1>3. \A n \in 1 .. Len(rd) : DOMAIN rd[n].lines = 1 .. Len(rd[n].lines) /\ Len(rd[n].lines) \in Nat
    BY <1>1
  <1>4. ASSUME NEW a \in PlacesIn(rd)
        PROVE  a \in Spot /\ a[1] \in 1 .. Len(rd) /\ a[2] \in 1 .. Len(rd[a[1]].lines)
    <2>1. PICK n \in 1 .. Len(rd) : a \in {<<n, i>> : i \in DOMAIN rd[n].lines}
      BY <1>2 DEF PlacesIn
    <2>2. PICK i \in DOMAIN rd[n].lines : a = <<n, i>>
      BY <2>1
    <2>3. i \in 1 .. Len(rd[n].lines) /\ i \in Nat /\ n \in Nat
      BY <1>2, <1>3, <2>1, <2>2
    <2>4. a[1] = n /\ a[2] = i
      BY <2>2
    <2> QED
      BY <2>1, <2>2, <2>3, <2>4 DEF Spot
  <1>5. ASSUME NEW n \in 1 .. Len(rd), NEW i \in 1 .. Len(rd[n].lines) PROVE <<n, i>> \in PlacesIn(rd)
    <2>1. <<n, i>> \in {<<n, j>> : j \in DOMAIN rd[n].lines}
      BY <1>3
    <2> QED
      BY <1>2, <2>1 DEF PlacesIn
  <1>6. \A a \in PlacesIn(rd) : rd[a[1]].lines[a[2]] \in ConfigLine
    <2> SUFFICES ASSUME NEW a \in PlacesIn(rd) PROVE rd[a[1]].lines[a[2]] \in ConfigLine
      OBVIOUS
    <2> DEFINE l == rd[a[1]].lines
    <2>1. l \in Seq(ConfigLine) /\ a[2] \in 1 .. Len(l)
      BY <1>1, <1>4
    <2> HIDE DEF l
    <2>2. l[a[2]] \in ConfigLine
      BY <2>1
    <2> QED
      BY <2>2 DEF l
  <1>7. DOMAIN Script(rd) = PlacesIn(rd) /\ \A a \in PlacesIn(rd) : Script(rd)[a] = rd[a[1]].lines[a[2]]
    BY DEF Script
  <1> QED
    BY <1>4, <1>5, <1>6, <1>7

(* The script when k lines of the last file are read. *)
Part(rd, k) == [a \in {b \in PlacesIn(rd) : b[1] < Len(rd) \/ b[2] <= k} |-> Script(rd)[a]]

LEMMA PartLonger ==
    ASSUME NEW rd \in Seq(Read), rd # <<>>, NEW k \in Nat, k + 1 <= Len(rd[Len(rd)].lines)
    PROVE  Longer(Part(rd, k), Part(rd, k + 1), <<Len(rd), k + 1>>, rd[Len(rd)].lines[k + 1])
  <1> DEFINE n == Len(rd)
             a == <<n, k + 1>>
             R == Part(rd, k)
             Q == Part(rd, k + 1)
             S(m) == {b \in PlacesIn(rd) : b[1] < n \/ b[2] <= m}
  <1>1. n \in 1 .. Len(rd) /\ n \in Nat /\ k + 1 \in 1 .. Len(rd[n].lines) /\ a[1] = n /\ a[2] = k + 1
    <2>1. rd[n] \in Read
      OBVIOUS
    <2>2. Len(rd[n].lines) \in Nat
      BY <2>1 DEF Read
    <2> QED
      BY <2>2
  <1>2. a \in PlacesIn(rd) /\ a \in Spot /\ Script(rd)[a] = rd[n].lines[k + 1] /\ Script(rd)[a] \in ConfigLine
    BY <1>1, ScriptPlaces
  <1>3. /\ DOMAIN R = S(k) /\ DOMAIN Q = S(k + 1)
        /\ \A b \in S(k) : R[b] = Script(rd)[b]
        /\ \A b \in S(k + 1) : Q[b] = Script(rd)[b]
    BY DEF Part
  <1>4. \A b \in PlacesIn(rd) : /\ b \in Spot /\ b = <<b[1], b[2]>> /\ b[1] \in Nat /\ b[2] \in Nat
                                /\ b[1] <= n /\ Script(rd)[b] \in ConfigLine
    BY ScriptPlaces DEF Spot
  <1> HIDE DEF R, Q
  <1>5. S(k + 1) = S(k) \cup {a}
    <2>1. a \in S(k + 1)
      BY <1>1, <1>2
    <2>2. \A b \in S(k + 1) : b \in S(k) \/ b = a
      <3> SUFFICES ASSUME NEW b \in PlacesIn(rd), b[2] <= k + 1, ~(b[1] < n), ~(b[2] <= k) PROVE b = a
        OBVIOUS
      <3>1. b[1] = n /\ b[2] = k + 1
        BY <1>1, <1>4
      <3> QED
        BY <1>4, <3>1
    <2>3. \A b \in S(k) : b \in S(k + 1)
      <3> SUFFICES ASSUME NEW b \in PlacesIn(rd), b[2] <= k PROVE b[2] <= k + 1
        OBVIOUS
      <3> QED
        BY <1>4
    <2> QED
      BY <2>1, <2>2, <2>3
  <1>6. \A b \in S(k) : Before(b, a)
    <2> SUFFICES ASSUME NEW b \in PlacesIn(rd), b[1] < n \/ b[2] <= k PROVE Before(b, a)
      OBVIOUS
    <2>1. b[1] < n \/ (b[1] = n /\ b[2] < k + 1)
      BY <1>1, <1>4
    <2> QED
      BY <1>1, <2>1 DEF Before
  <1>7. \A b \in S(k) : b \in S(k + 1) /\ Q[b] = R[b] /\ R[b] \in ConfigLine
    BY <1>3, <1>4, <1>5
  <1>8. S(k) \subseteq Spot /\ a \in S(k + 1)
    BY <1>4, <1>5
  <1>9. Q[a] = rd[n].lines[k + 1]
    BY <1>2, <1>3, <1>8
  <1> HIDE DEF S, a, n
  <1> QED
    BY <1>2, <1>3, <1>5, <1>6, <1>7, <1>8, <1>9 DEF Longer, R, Q, a, n

LEMMA PartEnds ==
    ASSUME NEW rd \in Seq(Read), NEW f \in Read
    PROVE  /\ Part(Append(rd, f), 0) = Script(rd)
           /\ Part(Append(rd, f), Len(f.lines)) = Script(Append(rd, f))
           /\ TitleOf(Script(rd), <<Len(rd) + 1, 1>>) = Unknown
  <1> DEFINE u == Append(rd, f)
             n == Len(rd)
  <1>1. /\ u \in Seq(Read) /\ Len(u) = n + 1 /\ n \in Nat /\ u[n + 1] = f
        /\ \A i \in 1 .. n : u[i] = rd[i]
    BY AppendProperties
  <1> HIDE DEF u
  <1>2. \A a \in PlacesIn(u) : /\ a \in Spot /\ a[1] \in 1 .. n + 1 /\ a[2] \in 1 .. Len(u[a[1]].lines)
                               /\ Script(u)[a] = u[a[1]].lines[a[2]]
    BY <1>1, ScriptPlaces
  <1>3. \A a \in PlacesIn(rd) : /\ a \in Spot /\ a[1] \in 1 .. n /\ a[2] \in 1 .. Len(rd[a[1]].lines)
                                /\ Script(rd)[a] = rd[a[1]].lines[a[2]]
    BY ScriptPlaces
  <1>4. \A a \in PlacesIn(rd) : a \in PlacesIn(u) /\ a[1] < n + 1 /\ Script(u)[a] = Script(rd)[a]
    <2> SUFFICES ASSUME NEW a \in PlacesIn(rd)
                 PROVE  a \in PlacesIn(u) /\ a[1] < n + 1 /\ Script(u)[a] = Script(rd)[a]
      OBVIOUS
    <2>1. u[a[1]] = rd[a[1]] /\ a[1] \in 1 .. n + 1 /\ a[1] < n + 1
      BY <1>1, <1>3
    <2>2. a = <<a[1], a[2]>>
      BY <1>3 DEF Spot
    <2>3. <<a[1], a[2]>> \in PlacesIn(u)
      BY <1>1, <1>3, <2>1, ScriptPlaces
    <2> QED
      BY <1>2, <1>3, <2>1, <2>2, <2>3
  <1>5. \A a \in PlacesIn(u) : (a[1] < n + 1 \/ a[2] <= 0) => a \in PlacesIn(rd)
    <2> SUFFICES ASSUME NEW a \in PlacesIn(u), a[1] < n + 1 \/ a[2] <= 0 PROVE a \in PlacesIn(rd)
      OBVIOUS
    <2>0. a[2] \in Nat /\ ~(a[2] <= 0)
      <3>1. a[2] \in 1 .. Len(u[a[1]].lines) /\ a \in Spot
        BY <1>2
      <3> QED
        BY <3>1 DEF Spot
    <2>1. a[1] \in 1 .. n /\ u[a[1]] = rd[a[1]]
      BY <1>1, <1>2, <2>0
    <2>2. a = <<a[1], a[2]>>
      BY <1>2 DEF Spot
    <2>3. <<a[1], a[2]>> \in PlacesIn(rd)
      BY <1>2, <2>1, ScriptPlaces
    <2> QED
      BY <2>2, <2>3
  <1>6. \A a \in PlacesIn(u) : a[1] < n + 1 \/ a[2] <= Len(f.lines)
    <2> SUFFICES ASSUME NEW a \in PlacesIn(u), ~(a[1] < n + 1) PROVE a[2] <= Len(f.lines)
      OBVIOUS
    <2>1. a[1] = n + 1
      BY <1>1, <1>2
    <2>2. a[2] \in 1 .. Len(f.lines)
      BY <1>1, <1>2, <2>1
    <2> QED
      BY <2>2
  <1>7. Part(u, 0) = Script(rd)
    <2>1. {b \in PlacesIn(u) : b[1] < Len(u) \/ b[2] <= 0} = PlacesIn(rd)
      BY <1>1, <1>4, <1>5
    <2>2. Part(u, 0) = [a \in PlacesIn(rd) |-> Script(u)[a]]
      BY <2>1 DEF Part
    <2>3. Script(rd) = [a \in PlacesIn(rd) |-> Script(rd)[a]]
      BY DEF Script
    <2> QED
      BY <1>4, <2>2, <2>3
  <1>8. Part(u, Len(f.lines)) = Script(u)
    <2>1. {b \in PlacesIn(u) : b[1] < Len(u) \/ b[2] <= Len(f.lines)} = PlacesIn(u)
      BY <1>1, <1>6
    <2>2. Part(u, Len(f.lines)) = [a \in PlacesIn(u) |-> Script(u)[a]]
      BY <2>1 DEF Part
    <2>3. Script(u) = [a \in PlacesIn(u) |-> Script(u)[a]]
      BY DEF Script
    <2> QED
      BY <2>2, <2>3
  <1>9. TitleOf(Script(rd), <<n + 1, 1>>) = Unknown
    <2>1. \A h \in Heads(Script(rd)) : h[1] # n + 1
      <3>1. \A h \in Heads(Script(rd)) : h \in PlacesIn(rd)
        BY ScriptPlaces DEF Heads
      <3>2. \A i \in 1 .. n : i # n + 1
        BY <1>1
      <3> QED
        BY <1>3, <3>1, <3>2
    <2>2. <<n + 1, 1>>[1] = n + 1
      OBVIOUS
    <2>3. Above(Script(rd), <<n + 1, 1>>) = {}
      BY <2>1, <2>2 DEF Above
    <2> QED
      BY <2>3 DEF TitleOf
  <1> QED
    BY <1>7, <1>8, <1>9 DEF u

(* Reading one more file keeps the agreement with what has been read.       *)
LEMMA ReadFileAgrees ==
    ASSUME NEW rd \in Seq(Read), NEW f \in Read, NEW c, Agrees(Script(rd), c)
    PROVE  Agrees(Script(Append(rd, f)), ReadFile(c, f.lines))
  <1> DEFINE u == Append(rd, f)
             n == Len(rd)
             l == f.lines
             base == Reading(c)
             NextTo(k) == <<n + 1, k + 1>>
  <1>1. /\ u \in Seq(Read) /\ Len(u) = n + 1 /\ n \in Nat /\ u[n + 1] = f /\ u # <<>>
        /\ l \in Seq(ConfigLine) /\ Len(l) \in Nat
    <2>1. u \in Seq(Read) /\ Len(u) = n + 1 /\ n \in Nat /\ u[n + 1] = f /\ u # <<>>
      BY AppendProperties
    <2>2. l \in Seq(ConfigLine) /\ Len(l) \in Nat
      BY DEF Read
    <2> QED
      BY <2>1, <2>2
  <1>2. /\ base \in Turn /\ base.config = c /\ base.section = Unknown
    <2>1. c \in Shape
      BY DEF Agrees
    <2> QED
      BY <2>1 DEF Reading, Turn
  <1> HIDE DEF u, l, base
  <1>3. PICK r : /\ r[0] = base
                 /\ \A k \in Nat : k + 1 <= Len(l) => r[k + 1] = ReadConfigLine(r[k], l[k + 1])
                 /\ FoldLeft(ReadConfigLine, base, l) = r[Len(l)]
    BY <1>1, <1>2, ConfigLoop
  <1> DEFINE OK(k) == /\ r[k] \in Turn /\ Agrees(Part(u, k), r[k].config)
                      /\ r[k].section = TitleOf(Part(u, k), NextTo(k))
             T == {k \in Nat : k <= Len(l) => OK(k)}
  <1>4. OK(0)
    <2>1. Part(u, 0) = Script(rd) /\ TitleOf(Script(rd), <<n + 1, 1>>) = Unknown
      BY PartEnds DEF u
    <2>2. NextTo(0) = <<n + 1, 1>>
      OBVIOUS
    <2> HIDE DEF n, Next
    <2> QED
      BY <1>2, <1>3, <2>1, <2>2
  <1>5. ASSUME NEW k \in T PROVE k + 1 \in T
    <2> SUFFICES ASSUME k + 1 <= Len(l) PROVE OK(k + 1)
      OBVIOUS
    <2>1. k \in Nat /\ k <= Len(l)
      BY <1>1
    <2>2. OK(k)
      BY <2>1
    <2>3. r[k + 1] = ReadConfigLine(r[k], l[k + 1])
      BY <1>3, <2>1
    <2>4. Longer(Part(u, k), Part(u, k + 1), NextTo(k), l[k + 1])
      <3>1. u[Len(u)] = f /\ NextTo(k) = <<Len(u), k + 1>>
        BY <1>1
      <3>2. k + 1 <= Len(u[Len(u)].lines)
        BY <3>1 DEF l
      <3> HIDE DEF Next
      <3>3. Longer(Part(u, k), Part(u, k + 1), <<Len(u), k + 1>>, u[Len(u)].lines[k + 1])
        BY <1>1, <2>1, <3>2, PartLonger
      <3> QED
        BY <3>1, <3>3 DEF l
    <2>5. NextTo(k + 1) \in Spot /\ NextTo(k + 1)[1] = NextTo(k)[1] /\ NextTo(k + 1)[2] = NextTo(k)[2] + 1
      BY <1>1, <2>1 DEF Spot
    <2> HIDE DEF Next
    <2>6. /\ ReadConfigLine(r[k], l[k + 1]) \in Turn
          /\ Agrees(Part(u, k + 1), ReadConfigLine(r[k], l[k + 1]).config)
          /\ ReadConfigLine(r[k], l[k + 1]).section = TitleOf(Part(u, k + 1), NextTo(k + 1))
      BY <2>2, <2>4, <2>5, TurnAgrees
    <2> QED
      BY <2>3, <2>6
  <1>6. Len(l) \in T
    <2>1. T \in SUBSET Nat /\ 0 \in T
      BY <1>4
    <2> HIDE DEF T
    <2> QED
      BY <1>1, <1>5, <2>1, Inductive
  <1>7. Agrees(Part(u, Len(l)), r[Len(l)].config)
    BY <1>1, <1>6
  <1>8. Part(u, Len(l)) = Script(u)
    BY PartEnds DEF u, l
  <1>9. ReadFile(c, l) = r[Len(l)].config
    BY <1>3 DEF ReadFile, base
  <1> QED
    BY <1>7, <1>8, <1>9 DEF u, l

---------------------------------------------------------------------------
(* The properties of Config in these terms. *)

LEMMA ScriptSays ==
    ASSUME read \in Seq(Read), NEW R, R = Script(read)
    PROVE  /\ Places = DOMAIN R /\ Places \subseteq Spot
           /\ \A a \in Places : LineAt(a) = R[a] /\ (IsHeader(a) <=> a \in Heads(R))
           /\ \A a \in Spot : SectionOf(a) = TitleOf(R, a)
           /\ \A s : GivenTo(s) = Given(R, s)
  <1>1. Places = DOMAIN R /\ Places = PlacesIn(read) /\ Places \subseteq Spot
    BY ScriptPlaces DEF Places, PlacesIn
  <1>2. \A a \in Places : LineAt(a) = R[a]
    BY <1>1, ScriptPlaces DEF LineAt
  <1>3. \A a \in Places : IsHeader(a) <=> a \in Heads(R)
    BY <1>1, <1>2 DEF IsHeader, Heads
  <1>4. ASSUME NEW a \in Spot PROVE SectionOf(a) = TitleOf(R, a)
    <2> DEFINE above == {h \in Places : h[1] = a[1] /\ h[2] < a[2] /\ IsHeader(h)}
    <2>1. above = Above(R, a)
      <3>1. Heads(R) \subseteq Places
        BY <1>1 DEF Heads
      <3> QED
        BY <1>3, <3>1 DEF Above
    <2>2. SectionOf(a) = IF above = {} THEN Unknown ELSE Meaning[LineAt(Nearest(above)).header]
      BY DEF SectionOf, Nearest
    <2> HIDE DEF above
    <2>3. Above(R, a) # {} => Nearest(Above(R, a)) \in Heads(R)
      BY <1>1, AboveIn
    <2>4. Above(R, a) # {} => LineAt(Nearest(above)) = R[Nearest(Above(R, a))]
      BY <1>1, <1>2, <2>1, <2>3 DEF Heads
    <2> QED
      BY <2>1, <2>2, <2>4 DEF TitleOf, TitleAt
  <1>5. ASSUME NEW s PROVE GivenTo(s) = Given(R, s)
    <2>1. \A a \in Places : LineAt(a) = R[a] /\ SectionOf(a) = TitleOf(R, a)
      BY <1>1, <1>2, <1>4
    <2> QED
      BY <1>1, <2>1 DEF GivenTo, Given, IsParameter
  <1> QED
    BY <1>1, <1>2, <1>3, <1>4, <1>5

LEMMA AgreesNames ==
    ASSUME read \in Seq(Read), Agrees(Script(read), sections), NEW t \in Type
    PROVE  LET mentions == {h \in Places : /\ IsHeader(h) /\ Meaning[LineAt(h).header] # Unknown
                                           /\ Meaning[LineAt(h).header].type = t}
               Name(h) == Meaning[LineAt(h).header].name
               first == {h \in mentions : \A k \in mentions : Name(k) = Name(h) => ~Before(k, h)}
           IN /\ Len(sections[t]) = Cardinality(first)
              /\ \A i \in DOMAIN sections[t] :
                    sections[t][i].name = Name(At(first, Cardinality(first) + 1 - i))
  <1> DEFINE R == Script(read)
             mentions == {h \in Places : /\ IsHeader(h) /\ Meaning[LineAt(h).header] # Unknown
                                         /\ Meaning[LineAt(h).header].type = t}
             Name(h) == Meaning[LineAt(h).header].name
             first == {h \in mentions : \A k \in mentions : Name(k) = Name(h) => ~Before(k, h)}
             list == sections[t]
  <1> HIDE DEF R
  <1>1. /\ Places = DOMAIN R /\ Places \subseteq Spot
        /\ \A a \in Places : LineAt(a) = R[a] /\ (IsHeader(a) <=> a \in Heads(R))
    BY ScriptSays DEF R
  <1>2. \A h \in Places : Meaning[LineAt(h).header] = TitleAt(R, h)
    BY <1>1 DEF TitleAt
  <1>3. mentions = MentionsOf(R, t)
    <2>1. Heads(R) \subseteq Places
      BY <1>1 DEF Heads
    <2> QED
      BY <1>1, <1>2, <2>1 DEF MentionsOf
  <1>4. first = FirstsOf(R, t)
    <2>1. \A h \in mentions : Name(h) = TitleAt(R, h).name
      BY <1>2
    <2> HIDE DEF mentions, Name
    <2> QED
      BY <1>3, <2>1 DEF FirstsOf
  <1>5. PICK e : /\ Enum(FirstsOf(R, t), e) /\ Len(list) = Len(e)
                 /\ \A i \in DOMAIN list : list[i].name = TitleAt(R, e[Len(e) + 1 - i]).name
    BY DEF Agrees, Says, Placed, R
  <1>6. FirstsOf(R, t) \in SUBSET Spot /\ FirstsOf(R, t) \subseteq Places
    BY <1>1, <1>3, <1>4
  <1>7. Cardinality(FirstsOf(R, t)) = Len(e) /\ \A i \in 1 .. Len(e) : At(FirstsOf(R, t), i) = e[i]
    BY <1>5, <1>6, EnumAt
  <1>8. Len(e) \in Nat /\ \A i \in 1 .. Len(e) : e[i] \in FirstsOf(R, t)
    BY <1>5, FirstsAreMentions
  <1>9. list \in Seq(Block)
    BY DEF Agrees, Shape
  <1> HIDE DEF mentions, first, list
  <1>10. ASSUME NEW i \in DOMAIN list PROVE list[i].name = Name(At(first, Cardinality(first) + 1 - i))
    <2>1. Len(e) + 1 - i \in 1 .. Len(e)
      BY <1>5, <1>8, <1>9
    <2>2. At(first, Cardinality(first) + 1 - i) = e[Len(e) + 1 - i]
      BY <1>4, <1>7, <2>1
    <2>3. Name(e[Len(e) + 1 - i]) = TitleAt(R, e[Len(e) + 1 - i]).name
      BY <1>2, <1>6, <1>8, <2>1
    <2> QED
      BY <1>5, <2>2, <2>3
  <1>11. Len(list) = Cardinality(first)
    BY <1>4, <1>5, <1>7
  <1> QED
    BY <1>10, <1>11 DEF mentions, first, list

LEMMA AgreesOrder ==
    ASSUME read \in Seq(Read), Agrees(Script(read), sections)
    PROVE  InOrder
  <1> DEFINE R == Script(read)
  <1> HIDE DEF R
  <1> SUFFICES ASSUME NEW t \in Type \ {"main", "defaults"}, NEW k \in DOMAIN sections[t]
               PROVE  LET params == sections[t][k].param
                          S == GivenTo([type |-> t, name |-> sections[t][k].name])
                      IN /\ Len(params) = Cardinality(S)
                         /\ \A i \in DOMAIN params :
                               params[i] = [name |-> LineAt(At(S, i)).key, value |-> LineAt(At(S, i)).value]
    BY DEF InOrder
  <1> DEFINE params == sections[t][k].param
             s == [type |-> t, name |-> sections[t][k].name]
             S == GivenTo(s)
  <1>1. /\ Places = DOMAIN R /\ Places \subseteq Spot
        /\ \A a \in Places : LineAt(a) = R[a]
        /\ S = Given(R, s)
    BY ScriptSays DEF R
  <1>2. Kept(R, s, params)
    <2>1. Filled(R, Titled(t, sections[t], k), params)
      BY DEF Agrees, Says, R
    <2>2. ~Replaces(s) /\ Titled(t, sections[t], k) = s
      BY DEF Replaces, Titled
    <2> QED
      BY <2>1, <2>2 DEF Filled
  <1>3. params \in Seq(Parameter)
    <2>1. sections[t] \in Seq(Block)
      BY DEF Agrees, Shape
    <2>2. sections[t][k] \in Block
      BY <2>1
    <2> QED
      BY <2>2 DEF Block
  <1> HIDE DEF params, s, S
  <1>4. PICK e : /\ Enum(S, e) /\ Len(params) = Len(e)
                 /\ \A i \in DOMAIN params : params[i] = [name |-> R[e[i]].key, value |-> R[e[i]].value]
    BY <1>1, <1>2 DEF Kept
  <1>5. S \in SUBSET Spot /\ S \subseteq Places
    BY <1>1 DEF Given
  <1>6. Cardinality(S) = Len(e) /\ \A i \in 1 .. Len(e) : At(S, i) = e[i]
    <2>1. Enum(S, e) /\ S \in SUBSET Spot
      BY <1>4, <1>5
    <2> QED
      BY <2>1, EnumAt
  <1>7. DOMAIN params = 1 .. Len(e) /\ \A i \in 1 .. Len(e) : e[i] \in S
    BY <1>3, <1>4 DEF Enum
  <1>8. \A i \in DOMAIN params : LineAt(At(S, i)) = R[e[i]]
    BY <1>1, <1>5, <1>6, <1>7
  <1>9. \A i \in DOMAIN params :
           params[i] = [name |-> LineAt(At(S, i)).key, value |-> LineAt(At(S, i)).value]
    BY <1>4, <1>8
  <1> QED
    BY <1>4, <1>6, <1>9 DEF params, s, S

LEMMA AgreesLast ==
    ASSUME read \in Seq(Read), Agrees(Script(read), sections)
    PROVE  LastWins
  <1> DEFINE R == Script(read)
  <1> HIDE DEF R
  <1> SUFFICES ASSUME NEW t \in {"main", "defaults"}, sections[t] # <<>>
               PROVE  LET params == sections[t][1].param
                          S == GivenTo([type |-> t, name |-> ""])
                          first == {a \in S : FirstWithKey(S, a)}
                      IN /\ Len(params) = Cardinality(first)
                         /\ \A i \in DOMAIN params :
                               LET a == At(first, i) IN
                               params[i] = [name |-> LineAt(a).key, value |-> LineAt(LastWithKey(S, a)).value]
    BY DEF LastWins
  <1> DEFINE params == sections[t][1].param
             s == [type |-> t, name |-> ""]
             S == GivenTo(s)
             first == {a \in S : FirstWithKey(S, a)}
  <1>1. /\ Places = DOMAIN R /\ Places \subseteq Spot
        /\ \A a \in Places : LineAt(a) = R[a]
        /\ S = Given(R, s)
    BY ScriptSays DEF R
  <1>2. sections[t] \in Seq(Block) /\ 1 \in DOMAIN sections[t] /\ sections[t][1] \in Block
    <2>1. t \in Type /\ t \in Single
      BY DEF Type, Single
    <2>2. sections[t] \in Seq(Block)
      BY <2>1 DEF Agrees, Shape
    <2>3. 1 \in DOMAIN sections[t]
      BY <2>2
    <2> QED
      BY <2>2, <2>3
  <1>3. Replaced(R, s, params)
    <2>1. t \in Type /\ t \in Single
      BY DEF Type, Single
    <2>2. Says(R, t, sections[t])
      BY <2>1 DEF Agrees, R
    <2>3. Filled(R, Titled(t, sections[t], 1), params) /\ sections[t][1].name = ""
      BY <1>2, <2>1, <2>2 DEF Says
    <2>4. Replaces(s) /\ Titled(t, sections[t], 1) = s
      BY <2>3 DEF Replaces, Titled
    <2> QED
      BY <2>3, <2>4 DEF Filled
  <1>4. params \in Seq(Parameter)
    BY <1>2 DEF Block
  <1> HIDE DEF params, s, S
  <1>5. S \in SUBSET Spot /\ S \subseteq Places /\ \A a \in S : LineAt(a) = R[a]
    BY <1>1 DEF Given
  <1>6. first = FirstKeys(R, S)
    BY <1>5 DEF FirstWithKey, FirstKeys
  <1>7. \A a \in S : LastWithKey(S, a) = LastKey(R, S, a)
    BY <1>5 DEF LastWithKey, LastKey
  <1>8. PICK e : /\ Enum(FirstKeys(R, S), e) /\ Len(params) = Len(e)
                 /\ \A i \in DOMAIN params :
                       params[i] = [name |-> R[e[i]].key, value |-> R[LastKey(R, S, e[i])].value]
    BY <1>1, <1>3 DEF Replaced
  <1>9. PICK g : Enum(S, g)
    BY <1>1, <1>3 DEF Replaced
  <1>10. FirstKeys(R, S) \in SUBSET Spot /\ FirstKeys(R, S) \subseteq S
    BY <1>5 DEF FirstKeys
  <1> HIDE DEF first
  <1>11. Cardinality(first) = Len(e) /\ \A i \in 1 .. Len(e) : At(first, i) = e[i]
    BY <1>6, <1>8, <1>10, EnumAt
  <1>12. DOMAIN params = 1 .. Len(e) /\ \A i \in 1 .. Len(e) : e[i] \in S
    BY <1>4, <1>8, <1>10 DEF Enum
  <1>13. \A a \in S : LineAt(LastWithKey(S, a)) = R[LastKey(R, S, a)]
    BY <1>5, <1>7, <1>9, LastKeyIn
  <1>14. \A i \in DOMAIN params :
            params[i] = [name |-> LineAt(At(first, i)).key, value |-> LineAt(LastWithKey(S, At(first, i))).value]
    <2> SUFFICES ASSUME NEW i \in DOMAIN params
                 PROVE  params[i] =
                           [name |-> LineAt(At(first, i)).key, value |-> LineAt(LastWithKey(S, At(first, i))).value]
      OBVIOUS
    <2>1. At(first, i) = e[i] /\ e[i] \in S
      BY <1>11, <1>12
    <2>2. LineAt(At(first, i)) = R[e[i]] /\ LineAt(LastWithKey(S, At(first, i))) = R[LastKey(R, S, e[i])]
      BY <1>5, <1>13, <2>1
    <2> QED
      BY <1>8, <2>2
  <1> QED
    BY <1>8, <1>11, <1>14 DEF params, s, S, first

---------------------------------------------------------------------------
(* glob(): the files of a directory that are there. *)

LEMMA KeptLoop ==
    ASSUME NEW l \in Seq(Path)
    PROVE  \E r : /\ r[0] = <<>>
                  /\ \A n \in Nat : n + 1 <= Len(l) => r[n + 1] = KeepPresent(r[n], l[n + 1])
                  /\ Existing(l) = r[Len(l)]
  <1> DEFINE Keeps(it) ==
                it = [s \in SUBSET DOMAIN l |->
                        IF s = {} THEN <<>> ELSE KeepPresent(it[s \ {Upmost(s)}], l[Upmost(s)])]
             it == CHOOSE it : Keeps(it)
             r == [n \in Nat |-> it[1 .. n]]
             step == [a \in Seq(Path) \X Path |-> KeepPresent(a[1], a[2])]
  <1>1. Len(l) \in Nat /\ DOMAIN l = 1 .. Len(l) /\ \A i \in DOMAIN l : l[i] \in Path
    OBVIOUS
  <1>2. step \in [Seq(Path) \X Path -> Seq(Path)] /\ <<>> \in Seq(Path)
    BY AppendProperties DEF KeepPresent
  <1>3. PICK f : Folds(step, f, <<>>, l, Seq(Path))
    <2> HIDE DEF step
    <2> QED
      BY <1>2, FoldExists
  <1>4. \A s \in SUBSET DOMAIN l :
           f[s] = IF s = {} THEN <<>> ELSE KeepPresent(f[s \ {Upmost(s)}], l[Upmost(s)])
    <2>0. f \in [SUBSET DOMAIN l -> Seq(Path)]
          /\ \A s \in SUBSET DOMAIN l : f[s] = Fold(step, f, <<>>, l, s)
      BY <1>3 DEF Folds
    <2>1. ASSUME NEW s \in SUBSET DOMAIN l, s # {}
          PROVE  step[<<f[s \ {Upmost(s)}], l[Upmost(s)]>>] = KeepPresent(f[s \ {Upmost(s)}], l[Upmost(s)])
      <3>1. Upmost(s) \in DOMAIN l
        BY <1>1, <2>1, LastIn
      <3>2. f[s \ {Upmost(s)}] \in Seq(Path) /\ l[Upmost(s)] \in Path
        BY <1>1, <2>0, <3>1
      <3> QED
        BY <3>2
    <2> HIDE DEF step
    <2> QED
      BY <2>0, <2>1 DEF Fold
  <1>5. Keeps(f)
    BY <1>3, <1>4 DEF Folds
  <1> HIDE DEF it
  <1>6. Keeps(it)
    <2> HIDE DEF Keeps
    <2> QED
      BY <1>5 DEF it
  <1>7. Existing(l) = it[DOMAIN l]
    BY DEF Existing, FoldLeft, MapThenFoldSet, Max, Upmost, it
  <1>8. r[0] = <<>>
    <2>1. it[{}] = <<>>
      BY <1>6
    <2>2. 1 .. 0 = {}
      OBVIOUS
    <2> QED
      BY <2>1, <2>2
  <1>9. ASSUME NEW n \in Nat, n + 1 <= Len(l) PROVE r[n + 1] = KeepPresent(r[n], l[n + 1])
    <2>1. 1 .. n + 1 \in SUBSET DOMAIN l
      BY <1>1, <1>9
    <2>2. \A s \in SUBSET DOMAIN l :
             it[s] = IF s = {} THEN <<>> ELSE KeepPresent(it[s \ {Upmost(s)}], l[Upmost(s)])
      BY <1>6
    <2>3. it[1 .. n + 1] = KeepPresent(it[1 .. n], l[n + 1])
      BY <2>1, <2>2, LastPlace
    <2> QED
      BY <2>3
  <1>10. Existing(l) = r[Len(l)]
    BY <1>1, <1>7
  <1> HIDE DEF r
  <1> QED
    BY <1>8, <1>9, <1>10

Within(q, l) == \A m \in DOMAIN q : \E i \in DOMAIN l : l[i] = q[m]
Sorted(q, l) ==
    \A m, n \in DOMAIN q : m < n => \A i, j \in DOMAIN l : l[i] = q[m] /\ l[j] = q[n] => i < j

LEMMA ExistingKeeps ==
    ASSUME NEW l \in Seq(Path), IsInjective(l)
    PROVE  /\ Existing(l) \in Seq(Path) /\ Within(Existing(l), l) /\ Sorted(Existing(l), l)
           /\ \A i \in DOMAIN l : Present(l[i]) => \E m \in DOMAIN Existing(l) : Existing(l)[m] = l[i]
  <1>1. PICK r : /\ r[0] = <<>>
                 /\ \A n \in Nat : n + 1 <= Len(l) => r[n + 1] = KeepPresent(r[n], l[n + 1])
                 /\ Existing(l) = r[Len(l)]
    BY KeptLoop
  <1> DEFINE OK(q, n) == /\ q \in Seq(Path) /\ Sorted(q, l)
                         /\ \A m \in DOMAIN q : \E i \in 1 .. n : l[i] = q[m]
                         /\ \A i \in 1 .. n : Present(l[i]) => \E m \in DOMAIN q : q[m] = l[i]
             T == {n \in Nat : n <= Len(l) => OK(r[n], n)}
  <1>2. Len(l) \in Nat /\ DOMAIN l = 1 .. Len(l) /\ \A i, j \in 1 .. Len(l) : l[i] = l[j] => i = j
    BY DEF IsInjective
  <1>3. OK(r[0], 0)
    <2>1. <<>> \in Seq(Path) /\ DOMAIN <<>> = {} /\ 1 .. 0 = {}
      OBVIOUS
    <2> QED
      BY <1>1, <2>1 DEF Sorted
  <1>4. ASSUME NEW n \in Nat, n + 1 <= Len(l), OK(r[n], n) PROVE OK(r[n + 1], n + 1)
    <2> DEFINE q == r[n]
               p == l[n + 1]
               u == Append(q, p)
    <2>1. r[n + 1] = IF Present(p) THEN u ELSE q
      BY <1>1, <1>4 DEF KeepPresent
    <2>2. /\ n + 1 \in 1 .. Len(l) /\ p \in Path /\ q \in Seq(Path) /\ Sorted(q, l)
          /\ \A i \in 1 .. n : i \in 1 .. n + 1 /\ i \in 1 .. Len(l) /\ i < n + 1
          /\ \A i \in 1 .. n + 1 : i \in 1 .. n \/ i = n + 1
      BY <1>2, <1>4
    <2> HIDE DEF q, p
    <2>3. /\ \A m \in DOMAIN q : \E i \in 1 .. n : l[i] = q[m]
          /\ \A i \in 1 .. n : Present(l[i]) => \E m \in DOMAIN q : q[m] = l[i]
      BY <1>4 DEF q
    <2>4. CASE ~Present(p)
      <3>1. r[n + 1] = q
        BY <2>1, <2>4
      <3>2. \A m \in DOMAIN q : \E i \in 1 .. n + 1 : l[i] = q[m]
        BY <2>2, <2>3
      <3>3. \A i \in 1 .. n + 1 : Present(l[i]) => \E m \in DOMAIN q : q[m] = l[i]
        BY <2>2, <2>3, <2>4 DEF p
      <3> QED
        BY <2>2, <3>1, <3>2, <3>3
    <2>5. CASE Present(p)
      <3>1. r[n + 1] = u
        BY <2>1, <2>5
      <3>2. /\ u \in Seq(Path) /\ DOMAIN u = 1 .. Len(q) + 1 /\ u[Len(q) + 1] = p
            /\ DOMAIN q = 1 .. Len(q) /\ Len(q) \in Nat
            /\ \A m \in 1 .. Len(q) : u[m] = q[m]
        BY <2>2, AppendProperties
      <3>3. \A m \in 1 .. Len(q) + 1 : m \in 1 .. Len(q) \/ m = Len(q) + 1
        BY <3>2
      <3>4. 1 .. Len(q) \subseteq 1 .. Len(q) + 1 /\ Len(q) + 1 \in 1 .. Len(q) + 1
        BY <3>2
      <3> HIDE DEF u
      <3>5. \A m \in DOMAIN u : \E i \in 1 .. n + 1 : l[i] = u[m]
        <4> SUFFICES ASSUME NEW m \in DOMAIN u PROVE \E i \in 1 .. n + 1 : l[i] = u[m]
          OBVIOUS
        <4>1. CASE m \in 1 .. Len(q)
          BY <2>2, <2>3, <3>2, <4>1
        <4>2. CASE m = Len(q) + 1
          <5>1. l[n + 1] = u[m] /\ n + 1 \in 1 .. n + 1
            BY <3>2, <4>2 DEF p
          <5> QED
            BY <5>1
        <4> QED
          BY <3>2, <3>3, <4>1, <4>2
      <3>6. \A i \in 1 .. n + 1 : Present(l[i]) => \E m \in DOMAIN u : u[m] = l[i]
        <4> SUFFICES ASSUME NEW i \in 1 .. n + 1, Present(l[i]) PROVE \E m \in DOMAIN u : u[m] = l[i]
          OBVIOUS
        <4>1. CASE i \in 1 .. n
          BY <2>3, <3>2, <3>4, <4>1
        <4>2. CASE i = n + 1
          <5>1. u[Len(q) + 1] = l[i] /\ Len(q) + 1 \in DOMAIN u
            BY <3>2, <3>4, <4>2 DEF p
          <5> QED
            BY <5>1
        <4> QED
          BY <2>2, <4>1, <4>2
      <3>7. Sorted(u, l)
        <4> SUFFICES ASSUME NEW m \in 1 .. Len(q) + 1, NEW k \in 1 .. Len(q) + 1, m < k,
                            NEW i \in 1 .. Len(l), NEW j \in 1 .. Len(l), l[i] = u[m], l[j] = u[k]
                     PROVE  i < j
          BY <1>2, <3>2 DEF Sorted
        <4>1. m \in 1 .. Len(q)
          BY <3>2
        <4>2. CASE k \in 1 .. Len(q)
          BY <1>2, <2>2, <3>2, <4>1, <4>2 DEF Sorted
        <4>3. CASE k = Len(q) + 1
          <5>1. j = n + 1
            BY <1>2, <2>2, <3>2, <4>3 DEF p
          <5>2. PICK h \in 1 .. n : l[h] = q[m]
            BY <2>3, <3>2, <4>1
          <5>3. h = i
            BY <1>2, <2>2, <3>2, <4>1, <5>2
          <5> QED
            BY <2>2, <5>1, <5>3
        <4> QED
          BY <3>3, <4>2, <4>3
      <3> QED
        BY <3>1, <3>2, <3>5, <3>6, <3>7
    <2> QED
      BY <2>4, <2>5
  <1> HIDE DEF OK
  <1>5. Len(l) \in T
    <2>1. T \in SUBSET Nat /\ 0 \in T
      BY <1>3
    <2>2. ASSUME NEW n \in T PROVE n + 1 \in T
      <3>1. n \in Nat /\ (n + 1 <= Len(l) => n <= Len(l))
        BY <1>2
      <3> QED
        BY <1>4, <3>1
    <2> HIDE DEF T
    <2> QED
      BY <1>2, <2>1, <2>2, Inductive
  <1>6. OK(Existing(l), Len(l))
    BY <1>1, <1>2, <1>5
  <1> QED
    BY <1>2, <1>6 DEF OK, Within

---------------------------------------------------------------------------
(* The files that `includes` names. *)

MainTitle == [type |-> "main", name |-> ""]
IncludesGiven(R) == {a \in Given(R, MainTitle) : a[1] = 1 /\ R[a].key = "includes"}
NamesIn(R, N) ==
    \/ IncludesGiven(R) = {} /\ N = <<>>
    \/ \E b \in IncludesGiven(R) :
          /\ IsFiniteSet(IncludesGiven(R)) /\ \A d \in IncludesGiven(R) : ~Before(b, d)
          /\ N = IF R[b].value \in DOMAIN Includes THEN Includes[R[b].value] ELSE <<>>

LEMMA LastAt ==
    ASSUME NEW S \in SUBSET Spot, IsFiniteSet(S), NEW b \in S, \A d \in S : ~Before(b, d)
    PROVE  At(S, Cardinality(S)) = b
  <1> DEFINE Below(a) == {d \in S : Before(d, a)}
             n == Cardinality(S)
  <1>1. \A d \in S : d # b => Before(d, b)
    BY BeforeOrder
  <1>2. ~Before(b, b)
    BY BeforeOrder
  <1>3. Below(b) = S \ {b}
    BY <1>1, <1>2
  <1>4. n \in Nat
    BY FS_CardinalityType
  <1>5. IsFiniteSet(S \ {b}) /\ Cardinality(S \ {b}) = n - 1
    BY FS_RemoveElement
  <1>6. ASSUME NEW a \in S, a # b PROVE Cardinality(Below(a)) # n - 1
    <2>1. a \in S \ {b} /\ IsFiniteSet((S \ {b}) \ {a})
          /\ Cardinality((S \ {b}) \ {a}) = Cardinality(S \ {b}) - 1
      BY <1>5, <1>6, FS_RemoveElement
    <2>2. Below(a) \subseteq (S \ {b}) \ {a}
      <3>1. ~Before(a, a) /\ ~Before(b, a)
        BY BeforeOrder
      <3> QED
        BY <3>1
    <2> HIDE DEF Below, n
    <2>3. Cardinality(Below(a)) <= Cardinality((S \ {b}) \ {a}) /\ Cardinality(Below(a)) \in Nat
      BY <2>1, <2>2, FS_Subset, FS_CardinalityType
    <2>4. Cardinality(Below(a)) <= n - 1 - 1
      BY <1>5, <2>1, <2>3
    <2> QED
      BY <1>4, <2>3, <2>4
  <1>7. Cardinality(Below(b)) = n - 1
    BY <1>3, <1>5
  <1>8. At(S, n) = b
    <2> HIDE DEF n
    <2> QED
      BY <1>6, <1>7 DEF At
  <1> QED
    BY <1>8

(* What the first file says of them stays. *)
LEMMA NamesStay ==
    ASSUME NEW rd \in Seq(Read), rd # <<>>, NEW f \in Read, NEW N, NamesIn(Script(rd), N)
    PROVE  NamesIn(Script(Append(rd, f)), N)
  <1> DEFINE R == Script(rd)
             u == Append(rd, f)
             Q == Script(u)
  <1>1. /\ u \in Seq(Read) /\ Len(u) = Len(rd) + 1 /\ Len(rd) \in Nat /\ 1 \in 1 .. Len(rd)
        /\ 1 \in 1 .. Len(u) /\ u[1] = rd[1]
    <2>1. Len(rd) \in Nat /\ Len(rd) # 0
      OBVIOUS
    <2>2. u \in Seq(Read) /\ Len(u) = Len(rd) + 1 /\ \A i \in 1 .. Len(rd) : u[i] = rd[i]
      BY AppendProperties
    <2> HIDE DEF u
    <2> QED
      BY <2>1, <2>2
  <1> HIDE DEF R, u, Q
  <1>2. DOMAIN R \subseteq Spot /\ DOMAIN Q \subseteq Spot
    BY <1>1, ScriptPlaces DEF R, Q
  <1>3. \A a \in Spot : a[1] = 1 => (a \in DOMAIN Q <=> a \in DOMAIN R)
    <2> SUFFICES ASSUME NEW a \in Spot, a[1] = 1 PROVE a \in DOMAIN Q <=> a \in DOMAIN R
      OBVIOUS
    <2>1. a = <<1, a[2]>>
      BY DEF Spot
    <2>2. a \in DOMAIN R <=> a[2] \in 1 .. Len(rd[1].lines)
      BY <1>1, <2>1, ScriptPlaces DEF R
    <2>3. a \in DOMAIN Q <=> a[2] \in 1 .. Len(u[1].lines)
      BY <1>1, <2>1, ScriptPlaces DEF Q
    <2> QED
      BY <1>1, <2>2, <2>3
  <1>4. \A a \in DOMAIN R : a[1] = 1 => Q[a] = R[a]
    <2> SUFFICES ASSUME NEW a \in DOMAIN R, a[1] = 1 PROVE Q[a] = R[a]
      OBVIOUS
    <2>1. a \in DOMAIN Q
      BY <1>2, <1>3
    <2>2. R[a] = rd[1].lines[a[2]]
      BY ScriptPlaces DEF R
    <2>3. Q[a] = u[1].lines[a[2]]
      BY <1>1, <2>1, ScriptPlaces DEF Q
    <2> QED
      BY <1>1, <2>2, <2>3
  <1>5. \A h : h \in Spot /\ h[1] = 1 => (h \in Heads(Q) <=> h \in Heads(R))
    BY <1>3, <1>4 DEF Heads
  <1>6. ASSUME NEW a \in Spot, a[1] = 1 PROVE Above(Q, a) = Above(R, a) /\ TitleOf(Q, a) = TitleOf(R, a)
    <2>1. Above(Q, a) = Above(R, a)
      <3>1. Heads(Q) \subseteq Spot /\ Heads(R) \subseteq Spot
        BY <1>2 DEF Heads
      <3> QED
        BY <1>5, <1>6, <3>1 DEF Above
    <2>2. Above(R, a) # {} => Nearest(Above(R, a)) \in Above(R, a)
      BY <1>2, AboveIn
    <2>3. Above(R, a) # {} => TitleAt(Q, Nearest(Above(R, a))) = TitleAt(R, Nearest(Above(R, a)))
      <3> SUFFICES ASSUME Above(R, a) # {} PROVE Q[Nearest(Above(R, a))] = R[Nearest(Above(R, a))]
        BY DEF TitleAt
      <3>1. Nearest(Above(R, a)) \in DOMAIN R /\ Nearest(Above(R, a))[1] = 1
        BY <1>6, <2>2 DEF Above, Heads
      <3> QED
        BY <1>4, <3>1
    <2> QED
      BY <2>1, <2>3 DEF TitleOf
  <1>7. \A a \in Spot : a[1] = 1 => (a \in Given(Q, MainTitle) <=> a \in Given(R, MainTitle))
    BY <1>3, <1>4, <1>6 DEF Given
  <1>8. IncludesGiven(Q) = IncludesGiven(R) /\ \A a \in IncludesGiven(R) : Q[a] = R[a]
    <2>1. Given(Q, MainTitle) \subseteq Spot /\ Given(R, MainTitle) \subseteq DOMAIN R
          /\ Given(R, MainTitle) \subseteq Spot
      BY <1>2 DEF Given
    <2> QED
      BY <1>4, <1>7, <2>1 DEF IncludesGiven
  <1>9. NamesIn(R, N)
    BY DEF R
  <1>10. NamesIn(Q, N)
    BY <1>8, <1>9 DEF NamesIn
  <1> QED
    BY <1>10 DEF Q, u

(* After the first file the directory is known. *)
LEMMA IncludeDirsAre ==
    ASSUME read \in Seq(Read), Len(read) = 1, Agrees(Script(read), sections)
    PROVE  \E N : /\ NamesIn(Script(read), N)
                  /\ N = <<>> \/ IncludeDirs # {}
                  /\ \A d \in IncludeDirs : d \in DOMAIN Includes /\ N = Includes[d]
  <1> DEFINE R == Script(read)
             main == sections["main"]
             p == main[1].param
             S == Given(R, MainTitle)
             K == {a \in S : R[a].key = "includes"}
             Found == f2b_config_param_find(p, "includes")
  <1>1. "main" \in Type /\ "main" \in Single /\ Replaces(MainTitle) /\ MainTitle \in Title
    <2>1. "main" \in Type /\ "main" \in Single /\ MainTitle.type = "main"
      BY DEF Type, Single, MainTitle
    <2>2. MainTitle \in Title
      BY <2>1, ConfigAssumption DEF Title, MainTitle
    <2> QED
      BY <2>1, <2>2 DEF Replaces
  <1>2. main \in Seq(Block) /\ Says(R, "main", main)
    BY <1>1 DEF Agrees, Shape
  <1>3. IncludesGiven(R) = K /\ S \in SUBSET Spot
    <2>1. \A a \in S : a \in Spot /\ a[1] = 1
      <3>1. S \subseteq PlacesIn(read)
        BY ScriptPlaces DEF Given
      <3>2. \A a \in PlacesIn(read) : a \in Spot /\ a[1] \in 1 .. 1
        BY ScriptPlaces
      <3>3. \A i \in 1 .. 1 : i = 1
        OBVIOUS
      <3> HIDE DEF S
      <3> QED
        BY <3>1, <3>2, <3>3
    <2> HIDE DEF R
    <2> QED
      BY <2>1 DEF IncludesGiven
  <1> HIDE DEF R, main, Found
  <1>4. CASE main = <<>>
    <2>1. Named(main, MainTitle.name) = {}
      BY <1>4 DEF Named
    <2>2. Mentioned(R, MainTitle.type, main)
      BY <1>2 DEF Says, MainTitle
    <2>3. DOMAIN R \subseteq Spot
      BY ScriptPlaces DEF R
    <2>4. S = {}
      BY <1>1, <2>1, <2>2, <2>3, FreshGiven
    <2>5. IncludeDirs = {}
      BY <1>4 DEF IncludeDirs, main
    <2>6. NamesIn(R, <<>>)
      BY <1>3, <2>4 DEF NamesIn
    <2> QED
      BY <2>5, <2>6 DEF R
  <1>5. CASE main # <<>>
    <2>1. 1 \in DOMAIN main /\ main[1] \in Block
      BY <1>2, <1>5
    <2>2. p \in Seq(Parameter)
      BY <2>1 DEF Block
    <2>3. Replaced(R, MainTitle, p)
      <3>1. Filled(R, Titled("main", main, 1), p) /\ main[1].name = ""
        BY <1>1, <1>2, <2>1 DEF Says
      <3>2. Titled("main", main, 1) = MainTitle
        BY <3>1 DEF Titled, MainTitle
      <3> QED
        BY <1>1, <3>1, <3>2 DEF Filled
    <2> HIDE DEF p, S
    <2>4. PICK e : /\ Enum(FirstKeys(R, S), e) /\ Len(p) = Len(e)
                   /\ \A i \in DOMAIN p :
                         p[i] = [name |-> R[e[i]].key, value |-> R[LastKey(R, S, e[i])].value]
      BY <2>3 DEF Replaced, S
    <2>5. (\E g : Enum(S, g)) /\ \A b \in S : Named(p, R[b].key) # {}
      BY <2>3 DEF Replaced, S
    <2>6. DOMAIN p = 1 .. Len(p) /\ \A i \in DOMAIN p : e[i] \in S
      <3>1. FirstKeys(R, S) \subseteq S
        BY DEF FirstKeys
      <3> QED
        BY <2>2, <2>4, <3>1 DEF Enum
    <2>7. IncludeDirs = Found \cap DOMAIN Includes
      BY <1>5 DEF IncludeDirs, main, Found, p
    <2>8. CASE K = {}
      <3>1. Named(p, "includes") = {}
        <4> SUFFICES ASSUME NEW i \in DOMAIN p, p[i].name = "includes" PROVE FALSE
          BY DEF Named
        <4>1. e[i] \in S /\ R[e[i]].key = "includes"
          BY <2>4, <2>6
        <4> QED
          BY <2>8, <4>1
      <3>2. Found = {}
        BY <3>1 DEF Found, f2b_config_param_find
      <3>3. NamesIn(R, <<>>)
        BY <1>3, <2>8 DEF NamesIn
      <3> QED
        BY <2>7, <3>2, <3>3 DEF R
    <2>9. CASE K # {}
      <3> DEFINE m == First(Named(p, "includes"))
                 b == LastKey(R, S, e[m])
                 N == IF R[b].value \in DOMAIN Includes THEN Includes[R[b].value] ELSE <<>>
      <3>1. Named(p, "includes") # {} /\ Named(p, "includes") \in SUBSET Nat
        BY <2>5, <2>6, <2>9 DEF Named
      <3>2. m \in Named(p, "includes")
        BY <3>1, FirstIn
      <3>3. m \in DOMAIN p /\ p[m].name = "includes"
        BY <3>2 DEF Named
      <3> HIDE DEF m
      <3>4. p[m] = [name |-> R[e[m]].key, value |-> R[b].value]
        BY <2>4, <3>3
      <3>5. e[m] \in S /\ R[e[m]].key = "includes" /\ p[m].value = R[b].value
        BY <2>6, <3>3, <3>4
      <3>6. b \in S /\ R[b].key = "includes" /\ \A d \in S : R[d].key = "includes" => ~Before(b, d)
        BY <1>3, <2>5, <3>5, LastKeyIn
      <3>7. Found = {R[b].value}
        <4>1. {j \in Named(p, "includes") : j = First(Named(p, "includes"))} = {m}
          BY <3>2 DEF m
        <4>2. Found = {p[i].value : i \in {m}}
          BY <4>1 DEF Found, f2b_config_param_find
        <4> QED
          BY <3>5, <4>2
      <3>8. b \in K /\ \A d \in K : ~Before(b, d)
        BY <3>6
      <3>9. IsFiniteSet(K)
        <4>1. IsFiniteSet(S)
          BY <1>3, <2>5, EnumAt
        <4> QED
          BY <4>1, FS_Subset
      <3> HIDE DEF b, K
      <3>10. NamesIn(R, N)
        BY <1>3, <3>8, <3>9 DEF NamesIn
      <3>11. N = <<>> \/ IncludeDirs # {}
        BY <2>7, <3>7
      <3>12. \A d \in IncludeDirs : d \in DOMAIN Includes /\ N = Includes[d]
        BY <2>7, <3>7
      <3> HIDE DEF N
      <3> QED
        BY <3>10, <3>11, <3>12 DEF R
    <2> QED
      BY <2>8, <2>9
  <1> QED
    BY <1>4, <1>5

---------------------------------------------------------------------------
(* The files read so far and those still to be read, in the order of glob(). *)

Came(N, rd, gb, i) ==
    \/ Absent \in Versions[N[i]]
    \/ \E n \in 2 .. Len(rd) : rd[n].path = N[i]
    \/ \E k \in DOMAIN gb : gb[k] = N[i]

Follows(N, rd, gb) ==
    /\ N \in Seq(Path) /\ IsInjective(N)
    /\ Within(gb, N) /\ Sorted(gb, N)
    /\ \A n \in 2 .. Len(rd) : \E i \in DOMAIN N : N[i] = rd[n].path
    /\ \A m, n \in 2 .. Len(rd) : m < n =>
          \A i, j \in DOMAIN N : N[i] = rd[m].path /\ N[j] = rd[n].path => i < j
    /\ \A n \in 2 .. Len(rd) : \A k \in DOMAIN gb :
          \A i, j \in DOMAIN N : N[i] = rd[n].path /\ N[j] = gb[k] => i < j
    /\ \A i \in DOMAIN N : Came(N, rd, gb, i)

(* What glob() finds follows the top file. *)
LEMMA FollowsGlob ==
    ASSUME NEW N \in Seq(Path), IsInjective(N), NEW rd, Len(rd) = 1,
           \A p \in Path : files[p] \in Versions[p]
    PROVE  Follows(N, rd, Existing(N))
  <1>1. 2 .. Len(rd) = {}
    OBVIOUS
  <1>2. /\ Existing(N) \in Seq(Path) /\ Within(Existing(N), N) /\ Sorted(Existing(N), N)
        /\ \A i \in DOMAIN N : Present(N[i]) => \E m \in DOMAIN Existing(N) : Existing(N)[m] = N[i]
    BY ExistingKeeps
  <1>3. ASSUME NEW i \in DOMAIN N PROVE Came(N, rd, Existing(N), i)
    <2>1. N[i] \in Path
      OBVIOUS
    <2> QED
      BY <1>2, <2>1 DEF Came, Present
  <1> QED
    BY <1>1, <1>2, <1>3 DEF Follows

(* An `includes` that names no directory, or none at all. *)
LEMMA FollowsNone ==
    ASSUME NEW rd, Len(rd) = 1
    PROVE  Follows(<<>>, rd, <<>>)
  <1>1. 2 .. Len(rd) = {} /\ <<>> \in Seq(Path) /\ DOMAIN <<>> = {}
    OBVIOUS
  <1> QED
    BY <1>1 DEF Follows, Within, Sorted, IsInjective

LEMMA RestOf ==
    ASSUME NEW g \in Seq(Path), g # <<>>
    PROVE  /\ Tail(g) \in Seq(Path) /\ Head(g) \in Path
           /\ 1 \in DOMAIN g /\ g[1] = Head(g)
           /\ \A k \in DOMAIN Tail(g) : k + 1 \in DOMAIN g /\ Tail(g)[k] = g[k + 1] /\ 1 < k + 1
           /\ \A m, n \in DOMAIN Tail(g) : m < n => m + 1 < n + 1
           /\ \A k \in DOMAIN g : k = 1 \/ (k - 1 \in DOMAIN Tail(g) /\ Tail(g)[k - 1] = g[k])
  <1>1. /\ Tail(g) \in Seq(Path) /\ Head(g) \in Path /\ Len(Tail(g)) = Len(g) - 1
        /\ \A i \in 1 .. Len(Tail(g)) : Tail(g)[i] = g[i + 1]
    BY HeadTailProperties
  <1>2. Len(g) \in Nat /\ Len(g) # 0 /\ DOMAIN g = 1 .. Len(g) /\ DOMAIN Tail(g) = 1 .. Len(g) - 1
    BY <1>1
  <1>3. 1 \in DOMAIN g /\ g[1] = Head(g)
    BY <1>2
  <1>4. \A k \in 1 .. Len(g) - 1 : k + 1 \in 1 .. Len(g) /\ 1 < k + 1 /\ k \in Int
    BY <1>2
  <1>5. \A k \in 1 .. Len(g) : k = 1 \/ (k - 1 \in 1 .. Len(g) - 1 /\ k - 1 + 1 = k)
    BY <1>2
  <1>6. \A k \in 1 .. Len(g) - 1 : Tail(g)[k] = g[k + 1]
    BY <1>1, <1>2
  <1>7. \A k \in DOMAIN g : k = 1 \/ (k - 1 \in DOMAIN Tail(g) /\ Tail(g)[k - 1] = g[k])
    <2> SUFFICES ASSUME NEW k \in 1 .. Len(g), k # 1
                 PROVE  k - 1 \in 1 .. Len(g) - 1 /\ Tail(g)[k - 1] = g[k]
      BY <1>2
    <2>1. k - 1 \in 1 .. Len(g) - 1 /\ k - 1 + 1 = k
      BY <1>5
    <2>2. Tail(g)[k - 1] = g[k - 1 + 1]
      BY <1>6, <2>1
    <2> QED
      BY <2>1, <2>2
  <1>8. \A m, n \in DOMAIN Tail(g) : m < n => m + 1 < n + 1
    BY <1>2
  <1>9. \A k \in DOMAIN Tail(g) : k + 1 \in DOMAIN g /\ Tail(g)[k] = g[k + 1] /\ 1 < k + 1
    BY <1>2, <1>4, <1>6
  <1> QED
    BY <1>1, <1>3, <1>7, <1>8, <1>9

(* The next file is gone: it may be absent. *)
LEMMA FollowsSkip ==
    ASSUME NEW N, NEW rd, NEW g \in Seq(Path), g # <<>>, Follows(N, rd, g),
           Absent \in Versions[Head(g)]
    PROVE  Follows(N, rd, Tail(g))
  <1> DEFINE h == Tail(g)
  <1>1. /\ h \in Seq(Path) /\ 1 \in DOMAIN g /\ g[1] = Head(g)
        /\ \A k \in DOMAIN h : k + 1 \in DOMAIN g /\ h[k] = g[k + 1]
        /\ \A m, n \in DOMAIN h : m < n => m + 1 < n + 1
        /\ \A k \in DOMAIN g : k = 1 \/ (k - 1 \in DOMAIN h /\ h[k - 1] = g[k])
    BY RestOf
  <1> HIDE DEF h
  <1>2. Within(h, N)
    BY <1>1 DEF Follows, Within
  <1>3. Sorted(h, N)
    <2> SUFFICES ASSUME NEW m \in DOMAIN h, NEW n \in DOMAIN h, m < n,
                        NEW i \in DOMAIN N, NEW j \in DOMAIN N, N[i] = h[m], N[j] = h[n]
                 PROVE  i < j
      BY DEF Sorted
    <2>1. m + 1 \in DOMAIN g /\ n + 1 \in DOMAIN g /\ m + 1 < n + 1 /\ h[m] = g[m + 1] /\ h[n] = g[n + 1]
      BY <1>1
    <2>2. \A a, b \in DOMAIN g : a < b => (N[i] = g[a] /\ N[j] = g[b] => i < j)
      BY DEF Follows, Sorted
    <2> QED
      BY <2>1, <2>2
  <1>4. ASSUME NEW n \in 2 .. Len(rd), NEW k \in DOMAIN h, NEW i \in DOMAIN N, NEW j \in DOMAIN N,
               N[i] = rd[n].path, N[j] = h[k]
        PROVE  i < j
    BY <1>1, <1>4 DEF Follows
  <1>5. ASSUME NEW i \in DOMAIN N PROVE Came(N, rd, h, i)
    <2>1. Came(N, rd, g, i)
      BY DEF Follows
    <2>2. CASE \E k \in DOMAIN g : g[k] = N[i]
      BY <1>1, <2>2 DEF Came
    <2> QED
      BY <2>1, <2>2 DEF Came
  <1>6. Follows(N, rd, h)
    BY <1>2, <1>3, <1>4, <1>5 DEF Follows
  <1> QED
    BY <1>6 DEF h

(* The next file is read. *)
LEMMA FollowsTake ==
    ASSUME NEW N, NEW rd \in Seq(Read), rd # <<>>, NEW g \in Seq(Path), g # <<>>, Follows(N, rd, g),
           NEW f \in Read, f.path = Head(g)
    PROVE  Follows(N, Append(rd, f), Tail(g))
  <1> DEFINE h == Tail(g)
             u == Append(rd, f)
             l == Len(rd) + 1
  <1>1. /\ h \in Seq(Path) /\ 1 \in DOMAIN g /\ g[1] = f.path
        /\ \A k \in DOMAIN h : k + 1 \in DOMAIN g /\ h[k] = g[k + 1] /\ 1 < k + 1
        /\ \A m, n \in DOMAIN h : m < n => m + 1 < n + 1
        /\ \A k \in DOMAIN g : k = 1 \/ (k - 1 \in DOMAIN h /\ h[k - 1] = g[k])
    BY RestOf
  <1>2. /\ l \in 2 .. l /\ u[l] = f /\ Len(u) = l
        /\ \A n \in 2 .. l : n = l \/ (n \in 2 .. Len(rd) /\ u[n] = rd[n] /\ n < l)
        /\ \A n \in 2 .. Len(rd) : n \in 2 .. l /\ u[n] = rd[n]
        /\ ~(l < l) /\ \A m \in 2 .. l : ~(l < m)
    <2>1. Len(rd) \in Nat /\ Len(rd) # 0
      OBVIOUS
    <2>2. u[l] = f /\ Len(u) = l /\ \A n \in 1 .. Len(rd) : u[n] = rd[n]
      BY AppendProperties
    <2>3. \A n \in 2 .. l : n = l \/ (n \in 2 .. Len(rd) /\ n < l)
      BY <2>1
    <2>4. \A n \in 2 .. Len(rd) : n \in 1 .. Len(rd) /\ n \in 2 .. l
      BY <2>1
    <2>5. l \in 2 .. l /\ ~(l < l) /\ \A m \in 2 .. l : ~(l < m)
      BY <2>1
    <2> HIDE DEF u, l
    <2> QED
      BY <2>2, <2>3, <2>4, <2>5
  <1> HIDE DEF h, u, l
  <1>3. Within(h, N)
    BY <1>1 DEF Follows, Within
  <1>4. Sorted(h, N)
    <2> SUFFICES ASSUME NEW m \in DOMAIN h, NEW n \in DOMAIN h, m < n,
                        NEW i \in DOMAIN N, NEW j \in DOMAIN N, N[i] = h[m], N[j] = h[n]
                 PROVE  i < j
      BY DEF Sorted
    <2>1. m + 1 \in DOMAIN g /\ n + 1 \in DOMAIN g /\ m + 1 < n + 1 /\ h[m] = g[m + 1] /\ h[n] = g[n + 1]
      BY <1>1
    <2>2. \A a, b \in DOMAIN g : a < b => (N[i] = g[a] /\ N[j] = g[b] => i < j)
      BY DEF Follows, Sorted
    <2> QED
      BY <2>1, <2>2
  <1>5. ASSUME NEW n \in 2 .. l PROVE \E i \in DOMAIN N : N[i] = u[n].path
    <2>1. CASE n = l
      BY <1>1, <1>2, <2>1 DEF Follows, Within
    <2>2. CASE n \in 2 .. Len(rd)
      BY <1>2, <2>2 DEF Follows
    <2> QED
      BY <1>2, <2>1, <2>2
  <1>6. ASSUME NEW m \in 2 .. l, NEW n \in 2 .. l, m < n, NEW i \in DOMAIN N, NEW j \in DOMAIN N,
               N[i] = u[m].path, N[j] = u[n].path
        PROVE  i < j
    <2>1. m \in 2 .. Len(rd) /\ u[m] = rd[m]
      BY <1>2, <1>6
    <2>2. CASE n = l
      BY <1>1, <1>2, <1>6, <2>1, <2>2 DEF Follows
    <2>3. CASE n \in 2 .. Len(rd)
      BY <1>2, <1>6, <2>1, <2>3 DEF Follows
    <2> QED
      BY <1>2, <2>2, <2>3
  <1>7. ASSUME NEW n \in 2 .. l, NEW k \in DOMAIN h, NEW i \in DOMAIN N, NEW j \in DOMAIN N,
               N[i] = u[n].path, N[j] = h[k]
        PROVE  i < j
    <2>1. k + 1 \in DOMAIN g /\ N[j] = g[k + 1] /\ 1 < k + 1
      BY <1>1, <1>7
    <2>2. CASE n = l
      <3>1. N[i] = g[1]
        BY <1>1, <1>2, <1>7, <2>2
      <3> QED
        BY <1>1, <2>1, <3>1 DEF Follows, Sorted
    <2>3. CASE n \in 2 .. Len(rd)
      BY <1>2, <1>7, <2>1, <2>3 DEF Follows
    <2> QED
      BY <1>2, <2>2, <2>3
  <1>8. ASSUME NEW i \in DOMAIN N PROVE Came(N, u, h, i)
    <2>1. Came(N, rd, g, i)
      BY DEF Follows
    <2>2. CASE \E k \in DOMAIN g : g[k] = N[i]
      <3>1. PICK k \in DOMAIN g : g[k] = N[i]
        BY <2>2
      <3>2. CASE k = 1
        BY <1>1, <1>2, <3>1, <3>2 DEF Came
      <3>3. CASE k # 1
        BY <1>1, <3>1, <3>3 DEF Came
      <3> QED
        BY <3>2, <3>3
    <2>3. CASE \E n \in 2 .. Len(rd) : rd[n].path = N[i]
      BY <1>2, <2>3 DEF Came
    <2> QED
      BY <2>1, <2>2, <2>3 DEF Came
  <1>9. Follows(N, u, h)
    BY <1>2, <1>3, <1>4, <1>5, <1>6, <1>7, <1>8 DEF Follows
  <1> QED
    BY <1>9 DEF h, u

---------------------------------------------------------------------------
(* The inductive invariant. *)

Kind(c) ==
    c \in Shape /\ \A t \in Single : \A i \in DOMAIN c[t] : i = 1 /\ c[t][i].name = ""

LEMMA SingleTypes == Single \subseteq Type
  BY DEF Single, Type

LEMMA AgreesKind ==
    ASSUME NEW R, NEW c, Agrees(R, c)
    PROVE  Kind(c)
  <1>1. c \in Shape
    BY DEF Agrees
  <1>2. ASSUME NEW t \in Single, NEW i \in DOMAIN c[t] PROVE i = 1 /\ c[t][i].name = ""
    <2> DEFINE list == c[t]
    <2>1. t \in Type /\ list \in Seq(Block)
      BY <1>1, SingleTypes DEF Shape
    <2>2. /\ \A j, k \in DOMAIN list : list[j].name = list[k].name => j = k
          /\ \A j \in DOMAIN list : list[j].name = ""
      BY <2>1 DEF Agrees, Says
    <2>3. i \in DOMAIN list
      BY <1>2
    <2> HIDE DEF list
    <2>4. 1 \in DOMAIN list
      BY <2>1, <2>3
    <2>5. i = 1 /\ list[i].name = ""
      BY <2>2, <2>3, <2>4
    <2> QED
      BY <2>5 DEF list
  <1> QED
    BY <1>1, <1>2 DEF Kind

LEMMA EmptyKind == Empty \in Shape /\ Kind(Empty)
  <1>1. \A t \in Type : Empty[t] = <<>>
    BY DEF Empty
  <1>2. <<>> \in Seq(Block) /\ DOMAIN <<>> = {}
    OBVIOUS
  <1>3. Empty \in Shape
    BY <1>2 DEF Empty, Shape
  <1> QED
    BY <1>1, <1>2, <1>3, SingleTypes DEF Kind

(* Nothing read, nothing said. *)
LEMMA EmptyAgrees == Agrees(Script(<<>>), Empty)
  <1> DEFINE R == Script(<<>>)
  <1>1. DOMAIN R = {}
    BY DEF Script, PlacesIn
  <1> HIDE DEF R
  <1>2. ASSUME NEW t \in Type PROVE Says(R, t, <<>>)
    <2>1. MentionsOf(R, t) = {}
      BY <1>1 DEF MentionsOf, Heads
    <2>2. FirstsOf(R, t) = {}
      BY <2>1 DEF FirstsOf
    <2>3. DOMAIN <<>> = {}
      OBVIOUS
    <2>4. Placed(R, t, <<>>)
      BY <2>2, <2>3, EnumNone DEF Placed
    <2>5. Mentioned(R, t, <<>>)
      BY <2>1 DEF Mentioned
    <2> QED
      BY <2>3, <2>4, <2>5 DEF Says
  <1>3. \A t \in Type : Empty[t] = <<>>
    BY DEF Empty
  <1>4. Agrees(R, Empty)
    BY <1>2, <1>3, EmptyKind DEF Agrees
  <1> QED
    BY <1>4 DEF R

LEMMA FreeKind ==
    ASSUME NEW c, Kind(c)
    PROVE  Kind([t \in Type |-> IF t \in {"csocket", "source"} THEN c[t] ELSE <<>>])
  <1> DEFINE d == [t \in Type |-> IF t \in {"csocket", "source"} THEN c[t] ELSE <<>>]
  <1>1. <<>> \in Seq(Block) /\ DOMAIN <<>> = {}
    OBVIOUS
  <1>2. \A t \in Type : d[t] = c[t] \/ d[t] = <<>>
    OBVIOUS
  <1>3. d \in Shape
    <2>1. \A t \in Type : c[t] \in Seq(Block)
      BY DEF Kind, Shape
    <2>2. \A t \in Type : d[t] \in Seq(Block)
      BY <1>1, <1>2, <2>1
    <2> QED
      BY <2>2 DEF Shape
  <1> HIDE DEF d
  <1>4. ASSUME NEW t \in Single, NEW i \in DOMAIN d[t] PROVE i = 1 /\ d[t][i].name = ""
    <2>1. t \in Type
      BY SingleTypes
    <2>2. d[t] = c[t]
      BY <1>1, <1>2, <1>4, <2>1
    <2> QED
      BY <1>4, <2>2 DEF Kind
  <1>5. Kind(d)
    BY <1>3, <1>4 DEF Kind
  <1> QED
    BY <1>5 DEF d

FilesRead(rd) ==
    rd \in Seq(Read) /\ \A n \in DOMAIN rd : rd[n].lines \in Versions[rd[n].path] \ {Absent}

LEMMA FilesReadAdd ==
    ASSUME NEW rd, FilesRead(rd), NEW p \in Path, NEW l \in Versions[p], l # Absent
    PROVE  LET f == [path |-> p, lines |-> l] IN f \in Read /\ FilesRead(Append(rd, f))
  <1> DEFINE f == [path |-> p, lines |-> l]
             u == Append(rd, f)
  <1>1. l \in Seq(ConfigLine)
    BY ConfigAssumption
  <1>2. f \in Read
    BY <1>1 DEF Read
  <1>3. f.path = p /\ f.lines = l
    OBVIOUS
  <1>4. rd \in Seq(Read)
    BY DEF FilesRead
  <1> HIDE DEF f
  <1>5. /\ u \in Seq(Read) /\ DOMAIN u = 1 .. Len(rd) + 1 /\ u[Len(rd) + 1] = f
        /\ \A n \in 1 .. Len(rd) : u[n] = rd[n]
    BY <1>2, <1>4, AppendProperties
  <1>6. \A n \in 1 .. Len(rd) + 1 : n \in 1 .. Len(rd) \/ n = Len(rd) + 1
    BY <1>4
  <1>7. \A n \in 1 .. Len(rd) : rd[n].lines \in Versions[rd[n].path] \ {Absent}
    BY <1>4 DEF FilesRead
  <1> HIDE DEF u
  <1>8. FilesRead(u)
    BY <1>3, <1>5, <1>6, <1>7 DEF FilesRead
  <1> QED
    BY <1>2, <1>8 DEF u, f

ConfigTypes ==
    /\ files \in [Path -> UNION {Versions[p] : p \in Path}]
    /\ \A p \in Path : files[p] \in Versions[p]
    /\ edits \in 0 .. MaxChanges /\ loads \in 0 .. MaxLoads
    /\ stage \in {"idle", "opened", "including", "loaded", "failed"}
    /\ Kind(sections)
    /\ globbuf \in Seq(Path) /\ (globbuf # <<>> <=> stage = "including")
    /\ FilesRead(read)

(* The sections are what the files read so far say; these are the top file  *)
(* and, in the order of glob(), files of the directory it names.            *)
ConfigInv ==
    /\ ConfigTypes
    /\ stage # "idle" => Agrees(Script(read), sections)
    /\ stage = "opened" => Len(read) = 1 /\ read[1].path = Top
    /\ stage \in {"including", "loaded"} =>
          /\ read # <<>> /\ read[1].path = Top
          /\ \E N : NamesIn(Script(read), N) /\ Follows(N, read, globbuf)

LEMMA ConfigStarts == ConfigInit => ConfigInv
  <1> SUFFICES ASSUME ConfigInit PROVE ConfigInv
    OBVIOUS
  <1>1. MaxChanges \in Nat /\ MaxLoads \in Nat
    BY ConfigAssumption
  <1>2. <<>> \in Seq(Path) /\ FilesRead(<<>>)
    BY DEF FilesRead
  <1>3. ConfigTypes
    BY <1>1, <1>2, EmptyKind DEF ConfigInit, ConfigTypes
  <1> QED
    BY <1>3 DEF ConfigInit, ConfigInv

LEMMA EditFileKeeps ==
    ASSUME ConfigInv, NEW p \in Path, EditFile(p)
    PROVE  ConfigInv'
  <1>1. PICK c \in Versions[p] \ {files[p]} : files' = [files EXCEPT ![p] = c]
    BY DEF EditFile
  <1>2. /\ files' \in [Path -> UNION {Versions[q] : q \in Path}]
        /\ \A q \in Path : files'[q] \in Versions[q]
    BY <1>1 DEF ConfigInv, ConfigTypes
  <1>3. edits' \in 0 .. MaxChanges
    <2>1. MaxChanges \in Nat
      BY ConfigAssumption
    <2>2. edits \in 0 .. MaxChanges /\ edits < MaxChanges /\ edits' = edits + 1
      BY DEF ConfigInv, ConfigTypes, EditFile
    <2> QED
      BY <2>1, <2>2
  <1>4. UNCHANGED <<stage, loads, sections, globbuf, read>>
    BY DEF EditFile
  <1>5. ConfigTypes'
    BY <1>2, <1>3, <1>4 DEF ConfigInv, ConfigTypes
  <1> QED
    BY <1>4, <1>5 DEF ConfigInv

LEMMA LoadKeeps ==
    ASSUME ConfigInv, f2b_config_load
    PROVE  ConfigInv'
  <1> DEFINE f == [path |-> Top, lines |-> files[Top]]
  <1>1. Top \in Path /\ files[Top] \in Versions[Top]
    BY ConfigAssumption DEF ConfigInv, ConfigTypes
  <1>2. loads' \in 0 .. MaxLoads /\ stage = "idle"
    <2>1. MaxLoads \in Nat
      BY ConfigAssumption
    <2>2. loads \in 0 .. MaxLoads /\ loads < MaxLoads /\ loads' = loads + 1 /\ stage = "idle"
      BY DEF ConfigInv, ConfigTypes, f2b_config_load
    <2> QED
      BY <2>1, <2>2
  <1>3. UNCHANGED <<files, edits, globbuf>>
    BY DEF f2b_config_load
  <1>4. globbuf \in Seq(Path) /\ globbuf = <<>>
    BY <1>2 DEF ConfigInv, ConfigTypes
  <1>5. FilesRead(<<>>) /\ <<>> \in Seq(Read)
    BY DEF FilesRead
  <1>6. CASE files[Top] = Absent
    <2>1. sections' = Empty /\ read' = <<>> /\ stage' = "failed"
      BY <1>6 DEF f2b_config_load
    <2>2. ConfigTypes'
      BY <1>2, <1>3, <1>4, <1>5, <2>1, EmptyKind DEF ConfigInv, ConfigTypes
    <2> QED
      BY <2>1, <2>2, EmptyAgrees DEF ConfigInv
  <1>7. CASE files[Top] # Absent
    <2>1. sections' = ReadFile(Empty, files[Top]) /\ read' = <<f>> /\ stage' = "opened"
      BY <1>7 DEF f2b_config_load
    <2>2. f \in Read /\ FilesRead(Append(<<>>, f)) /\ f.lines = files[Top] /\ f.path = Top
      BY <1>1, <1>5, <1>7, FilesReadAdd
    <2> HIDE DEF f
    <2>3. Append(<<>>, f) = <<f>> /\ Len(<<f>>) = 1 /\ <<f>>[1] = f
      OBVIOUS
    <2>4. Agrees(Script(<<f>>), sections')
      <3>1. Agrees(Script(Append(<<>>, f)), ReadFile(Empty, f.lines))
        BY <1>5, <2>2, EmptyAgrees, ReadFileAgrees
      <3> QED
        BY <2>1, <2>2, <2>3, <3>1
    <2>5. ConfigTypes'
      <3>1. Kind(sections') /\ FilesRead(read')
        BY <2>1, <2>2, <2>3, <2>4, AgreesKind
      <3> QED
        BY <1>2, <1>3, <1>4, <2>1, <3>1 DEF ConfigInv, ConfigTypes
    <2> QED
      BY <2>1, <2>2, <2>3, <2>4, <2>5 DEF ConfigInv
  <1> QED
    BY <1>6, <1>7

LEMMA NoIncludesKeeps ==
    ASSUME ConfigInv, NoIncludes
    PROVE  ConfigInv'
  <1>1. /\ stage = "opened" /\ stage' = "loaded"
        /\ UNCHANGED <<files, edits, loads, sections, globbuf, read>>
        /\ \A d \in IncludeDirs : Existing(Includes[d]) = <<>>
    BY DEF NoIncludes
  <1>2. /\ read \in Seq(Read) /\ Len(read) = 1 /\ read[1].path = Top /\ globbuf = <<>>
        /\ Agrees(Script(read), sections) /\ \A p \in Path : files[p] \in Versions[p]
    BY <1>1 DEF ConfigInv, ConfigTypes, FilesRead
  <1>3. ConfigTypes'
    BY <1>1, <1>2 DEF ConfigInv, ConfigTypes
  <1>4. PICK N : /\ NamesIn(Script(read), N) /\ (N = <<>> \/ IncludeDirs # {})
                 /\ \A d \in IncludeDirs : d \in DOMAIN Includes /\ N = Includes[d]
    BY <1>2, IncludeDirsAre
  <1>5. Follows(N, read, <<>>)
    <2>1. CASE N = <<>>
      BY <1>2, <2>1, FollowsNone
    <2>2. CASE N # <<>>
      <3>1. PICK d \in IncludeDirs : d \in DOMAIN Includes /\ N = Includes[d]
        BY <1>4, <2>2
      <3>2. N \in Seq(Path) /\ IsInjective(N) /\ Existing(N) = <<>>
        BY <1>1, <3>1, ConfigAssumption
      <3>3. Follows(N, read, Existing(N))
        BY <1>2, <3>2, FollowsGlob
      <3> QED
        BY <3>2, <3>3
    <2> QED
      BY <2>1, <2>2
  <1>6. read # <<>>
    BY <1>2
  <1> QED
    BY <1>1, <1>2, <1>3, <1>4, <1>5, <1>6 DEF ConfigInv

LEMMA GlobKeeps ==
    ASSUME ConfigInv, Glob
    PROVE  ConfigInv'
  <1>1. /\ stage = "opened" /\ stage' = "including"
        /\ UNCHANGED <<files, edits, loads, sections, read>>
    BY DEF Glob
  <1>2. PICK d \in IncludeDirs : globbuf' = Existing(Includes[d]) /\ globbuf' # <<>>
    BY DEF Glob
  <1>3. /\ read \in Seq(Read) /\ Len(read) = 1 /\ read[1].path = Top
        /\ Agrees(Script(read), sections) /\ \A p \in Path : files[p] \in Versions[p]
    BY <1>1 DEF ConfigInv, ConfigTypes, FilesRead
  <1>4. PICK N : /\ NamesIn(Script(read), N) /\ (N = <<>> \/ IncludeDirs # {})
                 /\ \A e \in IncludeDirs : e \in DOMAIN Includes /\ N = Includes[e]
    BY <1>3, IncludeDirsAre
  <1>5. N = Includes[d] /\ N \in Seq(Path) /\ IsInjective(N)
    BY <1>2, <1>4, ConfigAssumption
  <1>6. Follows(N, read, globbuf') /\ globbuf' \in Seq(Path)
    <2>1. Follows(N, read, Existing(N))
      BY <1>3, <1>5, FollowsGlob
    <2>2. Existing(N) \in Seq(Path)
      BY <1>5, ExistingKeeps
    <2> QED
      BY <1>2, <1>5, <2>1, <2>2
  <1>7. ConfigTypes'
    BY <1>1, <1>2, <1>6 DEF ConfigInv, ConfigTypes
  <1>8. read # <<>>
    BY <1>3
  <1> QED
    BY <1>1, <1>3, <1>4, <1>6, <1>7, <1>8 DEF ConfigInv

LEMMA IncludeKeeps ==
    ASSUME ConfigInv, Include
    PROVE  ConfigInv'
  <1> DEFINE p == Head(globbuf)
             f == [path |-> p, lines |-> files[p]]
  <1>1. /\ stage = "including" /\ globbuf' = Tail(globbuf)
        /\ stage' = (IF globbuf' = <<>> THEN "loaded" ELSE "including")
        /\ UNCHANGED <<files, edits, loads>>
    BY DEF Include
  <1>2. /\ read \in Seq(Read) /\ FilesRead(read) /\ read # <<>> /\ read[1].path = Top
        /\ globbuf \in Seq(Path) /\ globbuf # <<>>
        /\ Agrees(Script(read), sections) /\ \A q \in Path : files[q] \in Versions[q]
    BY <1>1 DEF ConfigInv, ConfigTypes, FilesRead
  <1>3. PICK N : NamesIn(Script(read), N) /\ Follows(N, read, globbuf)
    BY <1>1 DEF ConfigInv
  <1>4. p \in Path /\ globbuf' \in Seq(Path) /\ files[p] \in Versions[p]
    BY <1>1, <1>2, RestOf
  <1>5. /\ FilesRead(read') /\ read' \in Seq(Read) /\ read' # <<>> /\ read'[1].path = Top
        /\ Agrees(Script(read'), sections')
        /\ NamesIn(Script(read'), N) /\ Follows(N, read', globbuf')
    <2>1. CASE ~Present(p)
      <3>1. UNCHANGED <<sections, read>>
        BY <2>1 DEF Include
      <3>2. Absent \in Versions[p]
        BY <1>4, <2>1 DEF Present
      <3>3. Follows(N, read, globbuf')
        BY <1>1, <1>2, <1>3, <3>2, FollowsSkip
      <3> QED
        BY <1>2, <1>3, <3>1, <3>3
    <2>2. CASE Present(p)
      <3>1. sections' = ReadFile(sections, files[p]) /\ read' = Append(read, f)
        BY <2>2 DEF Include
      <3>2. f \in Read /\ FilesRead(Append(read, f)) /\ f.lines = files[p] /\ f.path = p
        BY <1>2, <1>4, <2>2, FilesReadAdd DEF Present
      <3> HIDE DEF f, p
      <3>3. Agrees(Script(read'), sections')
        BY <1>2, <3>1, <3>2, ReadFileAgrees
      <3>4. NamesIn(Script(read'), N)
        BY <1>2, <1>3, <3>1, <3>2, NamesStay
      <3>5. Follows(N, read', globbuf')
        BY <1>1, <1>2, <1>3, <3>1, <3>2, FollowsTake DEF p
      <3>6. read' \in Seq(Read) /\ Len(read') = Len(read) + 1 /\ read'[1] = read[1]
        <4>1. Len(read) \in Nat /\ Len(read) # 0
          BY <1>2
        <4>2. /\ read' \in Seq(Read) /\ Len(read') = Len(read) + 1
              /\ \A n \in 1 .. Len(read) : read'[n] = read[n]
          BY <1>2, <3>1, <3>2, AppendProperties
        <4> QED
          BY <4>1, <4>2
      <3> QED
        BY <1>2, <3>1, <3>2, <3>3, <3>4, <3>5, <3>6
    <2> QED
      BY <2>1, <2>2
  <1>6. ConfigTypes'
    <2>1. Kind(sections')
      BY <1>5, AgreesKind
    <2>2. globbuf' # <<>> <=> stage' = "including"
      BY <1>1
    <2> QED
      BY <1>1, <1>4, <1>5, <2>1, <2>2 DEF ConfigInv, ConfigTypes
  <1>7. stage' # "opened"
    BY <1>1
  <1> QED
    BY <1>5, <1>6, <1>7 DEF ConfigInv

LEMMA FreeKeeps ==
    ASSUME ConfigInv, f2b_config_free
    PROVE  ConfigInv'
  <1>1. /\ stage' = "idle" /\ globbuf' = <<>> /\ read' = <<>>
        /\ UNCHANGED <<files, edits, loads>>
        /\ sections' = [t \in Type |-> IF t \in {"csocket", "source"} THEN sections[t] ELSE <<>>]
    BY DEF f2b_config_free
  <1>2. Kind(sections')
    BY <1>1, FreeKind DEF ConfigInv, ConfigTypes
  <1>3. <<>> \in Seq(Path) /\ FilesRead(<<>>)
    BY DEF FilesRead
  <1>4. ConfigTypes'
    BY <1>1, <1>2, <1>3 DEF ConfigInv, ConfigTypes
  <1> QED
    BY <1>1, <1>4 DEF ConfigInv

LEMMA ConfigSteps == ConfigInv /\ [ConfigNext]_configVars => ConfigInv'
  <1> SUFFICES ASSUME ConfigInv, [ConfigNext]_configVars PROVE ConfigInv'
    OBVIOUS
  <1>1. CASE \E p \in Path : EditFile(p)
    BY <1>1, EditFileKeeps
  <1>2. CASE f2b_config_load
    BY <1>2, LoadKeeps
  <1>3. CASE NoIncludes
    BY <1>3, NoIncludesKeeps
  <1>4. CASE Glob
    BY <1>4, GlobKeeps
  <1>5. CASE GlobError
    BY <1>5 DEF GlobError, ConfigInv, ConfigTypes
  <1>6. CASE Include
    BY <1>6, IncludeKeeps
  <1>7. CASE f2b_config_free
    BY <1>7, FreeKeeps
  <1>8. CASE UNCHANGED configVars
    BY <1>8 DEF configVars, ConfigInv, ConfigTypes, IncludeDirs
  <1> QED
    BY <1>1, <1>2, <1>3, <1>4, <1>5, <1>6, <1>7, <1>8 DEF ConfigNext

LEMMA ConfigHolds == ConfigSpec => []ConfigInv
  <1> QED
    BY ConfigStarts, ConfigSteps, PTL DEF ConfigSpec

---------------------------------------------------------------------------
(* The theorems. *)

(* The lists of sections keep their form, also those f2b_config_free leaves *)
(* behind, and what is read is a version of the file that was opened.       *)
THEOREM ConfigTypeCorrect == ConfigSpec => []ConfigTypeOK
  <1>1. ConfigInv => ConfigTypeOK
    <2> SUFFICES ASSUME ConfigInv PROVE ConfigTypeOK
      OBVIOUS
    <2>1. ASSUME NEW t \in Type, NEW i \in DOMAIN sections[t]
          PROVE  /\ sections[t][i].param \in Seq(Parameter)
                 /\ t \in Single => i = 1 /\ sections[t][i].name = ""
      <3>1. sections[t] \in Seq(Block)
        BY DEF ConfigInv, ConfigTypes, Kind, Shape
      <3>2. sections[t][i] \in Block
        BY <3>1
      <3> QED
        BY <3>2 DEF Block, ConfigInv, ConfigTypes, Kind
    <2>2. \A i \in DOMAIN globbuf : globbuf[i] \in Path
      BY DEF ConfigInv, ConfigTypes
    <2>3. \A n \in DOMAIN read : read[n].lines \in Versions[read[n].path] \ {Absent}
      BY DEF ConfigInv, ConfigTypes, FilesRead
    <2> QED
      BY <2>1, <2>2, <2>3 DEF ConfigInv, ConfigTypes, ConfigTypeOK
  <1> QED
    BY <1>1, ConfigHolds, PTL

(* Sections that several files mention are merged into one, and they stand  *)
(* in the reverse of the order of first mention.                            *)
THEOREM ConfigMerges == ConfigSpec => []SectionsMerged
  <1>1. ConfigInv => SectionsMerged
    <2> SUFFICES ASSUME ConfigInv, stage # "idle" PROVE SectionsMerged
      BY DEF SectionsMerged
    <2>1. read \in Seq(Read) /\ Agrees(Script(read), sections)
      BY DEF ConfigInv, ConfigTypes, FilesRead
    <2> QED
      BY <2>1, AgreesNames DEF SectionsMerged
  <1> QED
    BY <1>1, ConfigHolds, PTL

(* The parameters of a section are those the files give it: in the order of *)
(* reading, or in [main] and [defaults] the last value of each key.         *)
THEOREM ConfigParams == ConfigSpec => []ParamsOfFiles
  <1>1. ConfigInv => ParamsOfFiles
    <2> SUFFICES ASSUME ConfigInv, stage # "idle" PROVE InOrder /\ LastWins
      BY DEF ParamsOfFiles
    <2>1. read \in Seq(Read) /\ Agrees(Script(read), sections)
      BY DEF ConfigInv, ConfigTypes, FilesRead
    <2> QED
      BY <2>1, AgreesOrder, AgreesLast
  <1> QED
    BY <1>1, ConfigHolds, PTL

(* Only the files of the directory the top file names are included, in the  *)
(* order of glob(), and none that was there all the time is missed.         *)
THEOREM ConfigIncludes == ConfigSpec => []FilesIncluded
  <1>1. ASSUME ConfigInv, stage = "loaded" PROVE FilesIncluded
    <2> DEFINE R == Script(read)
               S == {a \in GivenTo([type |-> "main", name |-> ""]) :
                        a[1] = 1 /\ LineAt(a).key = "includes"}
               dir == LineAt(At(S, Cardinality(S))).value
               names == IF S = {} THEN <<>> ELSE IF dir \in DOMAIN Includes THEN Includes[dir] ELSE <<>>
               Index(n) == {i \in DOMAIN names : names[i] = read[n].path}
    <2>1. read \in Seq(Read) /\ read[1].path = Top /\ globbuf = <<>>
      BY <1>1 DEF ConfigInv, ConfigTypes, FilesRead
    <2>2. PICK N : NamesIn(R, N) /\ Follows(N, read, <<>>)
      BY <1>1, <2>1 DEF ConfigInv
    <2> HIDE DEF R
    <2>3. /\ Places = DOMAIN R /\ Places \subseteq Spot /\ (\A a \in Places : LineAt(a) = R[a])
          /\ GivenTo(MainTitle) = Given(R, MainTitle) /\ Given(R, MainTitle) \subseteq Places
      <3>1. /\ Places = DOMAIN R /\ Places \subseteq Spot /\ (\A a \in Places : LineAt(a) = R[a])
            /\ GivenTo(MainTitle) = Given(R, MainTitle)
        BY <2>1, ScriptSays DEF R
      <3> QED
        BY <3>1 DEF Given
    <2>4. S = IncludesGiven(R) /\ S \in SUBSET Spot /\ S \subseteq Places
      <3>1. S = {a \in GivenTo(MainTitle) : a[1] = 1 /\ LineAt(a).key = "includes"}
        BY DEF MainTitle
      <3> QED
        BY <2>3, <3>1 DEF IncludesGiven
    <2> HIDE DEF S
    <2>5. names = N
      <3>1. CASE S = {}
        BY <2>2, <2>4, <3>1 DEF NamesIn
      <3>2. CASE S # {}
        <4>1. PICK b \in S : /\ IsFiniteSet(S) /\ \A d \in S : ~Before(b, d)
                             /\ N = IF R[b].value \in DOMAIN Includes THEN Includes[R[b].value] ELSE <<>>
          BY <2>2, <2>4, <3>2 DEF NamesIn
        <4>2. At(S, Cardinality(S)) = b
          BY <2>4, <4>1, LastAt
        <4>3. dir = R[b].value
          BY <2>3, <2>4, <4>1, <4>2
        <4> HIDE DEF dir
        <4> QED
          BY <3>2, <4>1, <4>3
      <3> QED
        BY <3>1, <3>2
    <2> HIDE DEF names
    <2>6. DOMAIN N \subseteq Nat
      BY <2>2 DEF Follows
    <2>7. ASSUME NEW n \in 2 .. Len(read)
          PROVE  Index(n) # {} /\ Index(n) \in SUBSET Nat /\ First(Index(n)) \in Index(n)
      <3>1. Index(n) # {} /\ Index(n) \in SUBSET Nat
        BY <2>2, <2>5, <2>6 DEF Follows
      <3> HIDE DEF Index
      <3> QED
        BY <3>1, FirstIn
    <2>8. ASSUME NEW m \in 2 .. Len(read), NEW n \in 2 .. Len(read), m < n
          PROVE  First(Index(m)) < First(Index(n))
      <3> DEFINE i == First(Index(m))
                 j == First(Index(n))
      <3>1. i \in Index(m) /\ j \in Index(n)
        BY <2>7
      <3> HIDE DEF i, j
      <3>2. i \in DOMAIN N /\ N[i] = read[m].path /\ j \in DOMAIN N /\ N[j] = read[n].path
        BY <2>5, <3>1
      <3>3. i < j
        BY <2>2, <2>8, <3>2 DEF Follows
      <3> QED
        BY <3>3 DEF i, j
    <2>9. ASSUME NEW i \in DOMAIN names
          PROVE  Absent \in Versions[names[i]] \/ \E n \in 2 .. Len(read) : read[n].path = names[i]
      <3>1. Came(N, read, <<>>, i)
        BY <2>2, <2>5, <2>9 DEF Follows
      <3>2. DOMAIN <<>> = {}
        OBVIOUS
      <3> QED
        BY <2>5, <3>1, <3>2 DEF Came
    <2> HIDE DEF Index
    <2>10. /\ read[1].path = Top
           /\ \A n \in 2 .. Len(read) : Index(n) # {}
           /\ \A m, n \in 2 .. Len(read) : m < n => First(Index(m)) < First(Index(n))
           /\ \A i \in DOMAIN names :
                 Absent \in Versions[names[i]] \/ \E n \in 2 .. Len(read) : read[n].path = names[i]
      BY <2>1, <2>7, <2>8, <2>9
    <2> QED
      BY <2>10 DEF FilesIncluded, Index, names, S
  <1>2. ConfigInv => FilesIncluded
    BY <1>1 DEF FilesIncluded
  <1> QED
    BY <1>2, ConfigHolds, PTL
=============================================================================

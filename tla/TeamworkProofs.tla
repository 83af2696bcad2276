--------------------------- MODULE TeamworkProofs ---------------------------
(***************************************************************************)
(* Theorems about Teamwork, for any number of sensors, actors, hosts and   *)
(* faults.                                                                 *)
(***************************************************************************)
EXTENDS Teamwork, FiniteSetTheorems, TLAPS

(* What is lost on the way is a tail: every actor keeps a first part of its *)
(* messages, and those whose connection holds keep all.                     *)
LEMMA LoseCuts ==
    ASSUME wire \in [Actor -> Seq(Nat)], NEW S, Lose(S)
    PROVE  /\ wire' \in [Actor -> Seq(Nat)]
           /\ \A x \in Actor :
                 /\ Len(wire'[x]) <= Len(wire[x])
                 /\ \A k \in 1 .. Len(wire'[x]) : wire'[x][k] = wire[x][k]
                 /\ x \notin S => wire'[x] = wire[x]
  <1>1. PICK kept \in [Actor -> 0 .. MaxBans] :
           wire' = [x \in Actor |->
                      IF x \in S /\ kept[x] < Len(wire[x]) THEN SubSeq(wire[x], 1, kept[x])
                      ELSE wire[x]]
    BY DEF Lose
  <1>2. ASSUME NEW x \in Actor
        PROVE  /\ wire'[x] \in Seq(Nat)
               /\ Len(wire'[x]) <= Len(wire[x])
               /\ \A k \in 1 .. Len(wire'[x]) : wire'[x][k] = wire[x][k]
               /\ x \notin S => wire'[x] = wire[x]
    <2>1. wire[x] \in Seq(Nat) /\ kept[x] \in Nat
      BY <1>1, TeamworkAssumption
    <2>2. CASE x \in S /\ kept[x] < Len(wire[x])
      <3>1. wire'[x] = SubSeq(wire[x], 1, kept[x])
        BY <1>1, <2>2
      <3>2. /\ SubSeq(wire[x], 1, kept[x]) \in Seq(Nat)
            /\ Len(SubSeq(wire[x], 1, kept[x])) = kept[x]
            /\ \A k \in 1 .. kept[x] : SubSeq(wire[x], 1, kept[x])[k] = wire[x][k]
        BY <2>1, <2>2
      <3> QED
        BY <3>1, <3>2, <2>1, <2>2
    <2>3. CASE ~(x \in S /\ kept[x] < Len(wire[x]))
      <3>1. wire'[x] = wire[x]
        BY <1>1, <2>3
      <3> QED
        BY <3>1, <2>1
    <2> QED
      BY <2>2, <2>3
  <1>3. wire' \in [Actor -> Seq(Nat)]
    <2>1. wire' = [x \in Actor |-> wire'[x]]
      BY <1>1
    <2> QED
      BY <2>1, <1>2
  <1> QED
    BY <1>2, <1>3

(* Publishing appends the number of the message, for those that listen.     *)
LEMMA PublishAppends ==
    ASSUME TypeOK, NEW a \in Addr, Publish(a)
    PROVE  /\ sent' \in Seq(Addr) /\ Len(sent') = Len(sent) + 1
           /\ wire' \in [Actor -> Seq(Nat)]
           /\ \A x \in Actor : wire'[x] = IF conn[x] = "open" THEN Append(wire[x], Len(sent) + 1)
                                          ELSE wire[x]
  <1>1. sent \in Seq(Addr) /\ Len(sent) + 1 \in Nat
    BY DEF TypeOK
  <1>2. \A x \in Actor : wire[x] \in Seq(Nat) /\ Append(wire[x], Len(sent) + 1) \in Seq(Nat)
    BY <1>1 DEF TypeOK
  <1> QED
    BY <1>1, <1>2 DEF Publish

(* redis_connect leaves every connection in a known state. *)
LEMMA ConnectType ==
    ASSUME TypeOK, NEW j \in Jail, redis_connect(j)
    PROVE  conn' \in [Jail -> Conn]
  BY DEF TypeOK, redis_connect, Conn

(* One cell of a table of numbers is written. *)
LEMMA CellWritten ==
    ASSUME NEW S, NEW T, NEW f \in [S -> [T -> Nat]], NEW s \in S, NEW t \in T, NEW n \in Nat
    PROVE  [f EXCEPT ![s][t] = n] \in [S -> [T -> Nat]]
  <1>1. f[s] \in [T -> Nat]
    OBVIOUS
  <1>2. [f[s] EXCEPT ![t] = n] \in [T -> Nat]
    BY <1>1
  <1> QED
    BY <1>2

---------------------------------------------------------------------------
(* Type correctness. *)

LEMMA TypeInit == Init => TypeOK
  BY TeamworkAssumption DEF Init, TypeOK, Conn, Jail

(* Faults and restarts of the server. *)
LEMMA FaultType ==
    TypeOK /\ (ServerDown \/ ServerUp \/ \E j \in Jail : Break(j)) => TypeOK'
  <1> SUFFICES ASSUME TypeOK, ServerDown \/ ServerUp \/ \E j \in Jail : Break(j) PROVE TypeOK'
    OBVIOUS
  <1>1. CASE ServerDown
    <2>1. wire' \in [Actor -> Seq(Nat)]
      BY <1>1, LoseCuts DEF ServerDown, TypeOK
    <2>2. conn' \in [Jail -> Conn] /\ faults' \in 0 .. MaxFaults
      BY <1>1, TeamworkAssumption DEF ServerDown, TypeOK, Conn
    <2> QED
      BY <1>1, <2>1, <2>2 DEF ServerDown, TypeOK, sensors, actors
  <1>2. CASE ServerUp
    BY <1>2 DEF ServerUp, TypeOK, sensors, actors
  <1>3. ASSUME NEW j \in Jail, Break(j) PROVE TypeOK'
    <2>1. wire' \in [Actor -> Seq(Nat)]
      BY <1>3, LoseCuts DEF Break, TypeOK
    <2>2. conn' \in [Jail -> Conn] /\ faults' \in 0 .. MaxFaults
      BY <1>3, TeamworkAssumption DEF Break, TypeOK, Conn
    <2> QED
      BY <1>3, <2>1, <2>2 DEF Break, TypeOK, redis, sensors, actors
  <1> QED
    BY <1>1, <1>2, <1>3

LEMMA ReplyLostType ==
    ASSUME TypeOK, NEW s \in Jail, ReplyLost(s)
    PROVE  /\ faults' \in 0 .. MaxFaults /\ conn' \in [Jail -> Conn]
           /\ pc' \in [Jail -> {"start", "scan", "hincrby", "publish", "next", "reply"}]
  <1>1. faults' \in 0 .. MaxFaults
    BY TeamworkAssumption DEF ReplyLost, TypeOK
  <1>2. conn' \in [Jail -> Conn]
    BY DEF ReplyLost, TypeOK, Conn
  <1>3. pc' \in [Jail -> {"start", "scan", "hincrby", "publish", "next", "reply"}]
    BY DEF ReplyLost, TypeOK
  <1> QED
    BY <1>1, <1>2, <1>3

(* The steps of a sensor. *)
LEMMA SensorType ==
    ASSUME TypeOK, NEW s \in Sensor,
           SensorStep(s) \/ SensorRestart(s) \/ \E a \in Addr : BanBegin(s, a)
    PROVE  TypeOK'
  <1>s. s \in Jail
    BY DEF Jail
  <1>1. CASE SensorStart(s)
    <2>1. conn' \in [Jail -> Conn]
      BY <1>1, <1>s, ConnectType DEF SensorStart
    <2> QED
      BY <1>1, <1>s, <2>1 DEF SensorStart, Goes, TypeOK, redis, sensors, actors
  <1>2. CASE ping(s)
    <2>1. conn' \in [Jail -> Conn]
      BY <1>2, <1>s, ConnectType DEF ping, TypeOK, Conn
    <2>2. pings' \in [Sensor -> Nat]
      <3>1. pings \in [Sensor -> Nat] /\ pings[s] + 1 \in Nat
        BY DEF TypeOK
      <3>2. pings' = pings \/ \E n \in Nat : pings' = [pings EXCEPT ![s] = n]
        BY <1>2, <3>1 DEF ping
      <3> QED
        BY <3>1, <3>2
    <2> QED
      BY <1>2, <2>1, <2>2 DEF ping, TypeOK, redis, actors
  <1>3. CASE CommandFails(s)
    BY <1>3, <1>s DEF CommandFails, TypeOK, Conn, redis, sensors, actors
  <1>4. CASE Hincrby(s)
    <2>1. ip[s] \in Addr /\ counts' \in [Addr -> Nat]
      BY <1>4 DEF Hincrby, TypeOK
    <2>2. /\ faults' \in 0 .. MaxFaults /\ conn' \in [Jail -> Conn]
          /\ pc' \in [Jail -> {"start", "scan", "hincrby", "publish", "next", "reply"}]
      <3>1. CASE Goes(s, "hincrby", "publish") /\ UNCHANGED <<faults, conn>>
        BY <1>s, <3>1 DEF Goes, TypeOK
      <3>2. CASE ReplyLost(s)
        BY <1>s, <3>2, ReplyLostType
      <3> QED
        BY <1>4, <3>1, <3>2 DEF Hincrby
    <2> QED
      BY <1>4, <2>1, <2>2 DEF Hincrby, TypeOK, sensors, actors
  <1>5. CASE PublishBan(s)
    <2>1. ip[s] \in Addr
      BY DEF TypeOK
    <2>2. sent' \in Seq(Addr) /\ wire' \in [Actor -> Seq(Nat)]
      BY <1>5, <2>1, PublishAppends DEF PublishBan
    <2>3. /\ faults' \in 0 .. MaxFaults /\ conn' \in [Jail -> Conn] /\ acked' \in Nat
          /\ pc' \in [Jail -> {"start", "scan", "hincrby", "publish", "next", "reply"}]
      <3>1. CASE Goes(s, "publish", "scan") /\ acked' = acked + 1 /\ UNCHANGED <<faults, conn>>
        BY <1>s, <3>1 DEF Goes, TypeOK
      <3>2. CASE ReplyLost(s) /\ UNCHANGED acked
        <4>1. acked' \in Nat
          BY <3>2 DEF TypeOK
        <4> QED
          BY <1>s, <3>2, <4>1, ReplyLostType
      <3> QED
        BY <1>5, <3>1, <3>2 DEF PublishBan
    <2> QED
      BY <1>5, <2>2, <2>3 DEF PublishBan, TypeOK, actors
  <1>6. CASE SensorRestart(s)
    <2>1. faults' \in 0 .. MaxFaults
      BY <1>6, TeamworkAssumption DEF SensorRestart, TypeOK
    <2> QED
      BY <1>6, <1>s, <2>1 DEF SensorRestart, TypeOK, Conn, redis, actors
  <1>7. ASSUME NEW a \in Addr, BanBegin(s, a) PROVE TypeOK'
    <2>1. conn' \in [Jail -> Conn]
      BY <1>7, <1>s, ConnectType DEF BanBegin
    <2>2. bans' \in 0 .. MaxBans
      BY <1>7, TeamworkAssumption DEF BanBegin, TypeOK
    <2> QED
      BY <1>7, <1>s, <2>1, <2>2 DEF BanBegin, TypeOK, redis, actors
  <1> QED
    BY <1>1, <1>2, <1>3, <1>4, <1>5, <1>6, <1>7 DEF SensorStep

(* The steps of an actor. *)
LEMMA ActorType ==
    ASSUME TypeOK, NEW x \in Actor,
           ActorStep(x) \/ ActorRestart(x) \/ \E a \in Addr : ActorRelease(x, a),
           \A k \in DOMAIN wire[x] : wire[x][k] \in DOMAIN sent
    PROVE  TypeOK'
  <1>x. x \in Jail
    BY DEF Jail
  <1>1. CASE ActorConnect(x)
    <2>1. conn' \in [Jail -> Conn]
      BY <1>1, <1>x, ConnectType DEF ActorConnect, redis_subscribe
    <2>2. wire' \in [Actor -> Seq(Nat)] /\ since' \in [Actor -> Nat]
      <3>1. /\ <<>> \in Seq(Nat) /\ Len(sent) \in Nat
            /\ wire \in [Actor -> Seq(Nat)] /\ since \in [Actor -> Nat]
        BY DEF TypeOK
      <3>2. \/ wire' = [wire EXCEPT ![x] = <<>>] /\ since' = [since EXCEPT ![x] = Len(sent)]
            \/ UNCHANGED <<wire, since>>
        BY <1>1 DEF ActorConnect, redis_subscribe
      <3> QED
        BY <3>1, <3>2
    <2> QED
      BY <1>1, <1>x, <2>1, <2>2 DEF ActorConnect, TypeOK, redis, sensors
  <1>2. CASE GetMessage(x)
    <2>1. wire[x] \in Seq(Nat) /\ wire[x] # <<>>
      BY <1>2 DEF GetMessage, TypeOK
    <2>2. Head(wire[x]) \in Nat /\ Tail(wire[x]) \in Seq(Nat) /\ Head(wire[x]) = wire[x][1]
          /\ 1 \in DOMAIN wire[x]
      BY <2>1
    <2>3. sent[Head(wire[x])] \in Addr
      BY <2>2 DEF TypeOK
    <2>4. wire' \in [Actor -> Seq(Nat)]
      BY <1>2, <2>2 DEF GetMessage, Take, TypeOK
    <2>5. got' \in [Actor -> Seq(Nat)]
      <3>1. Append(got[x], Head(wire[x])) \in Seq(Nat)
        BY <2>2 DEF TypeOK
      <3> QED
        BY <1>2, <3>1 DEF GetMessage, TypeOK
    <2>6. /\ heard' \in [Actor -> [Addr -> Nat]] /\ banned' \in [Actor -> SUBSET Addr]
          /\ term' \in [Actor -> [Addr -> Nat]]
      <3> DEFINE a == sent[Head(wire[x])]
      <3>a. a \in Addr
        BY <2>3
      <3> HIDE DEF a
      <3>t. /\ heard \in [Actor -> [Addr -> Nat]] /\ term \in [Actor -> [Addr -> Nat]]
            /\ heard[x][a] \in Nat /\ term[x][a] \in Nat /\ banned \in [Actor -> SUBSET Addr]
        BY <3>a DEF TypeOK
      <3>1. CASE a \in banned[x]
        <4>1. heard' = [heard EXCEPT ![x][a] = heard[x][a] + 1] /\ UNCHANGED <<banned, term>>
          BY <1>2, <3>1 DEF GetMessage, a
        <4>2. heard[x][a] + 1 \in Nat
          BY <3>t
        <4> QED
          BY <3>a, <3>t, <4>1, <4>2, CellWritten
      <3>2. CASE a \notin banned[x]
        <4>1. PICK young \in 0 .. heard[x][a] :
                 IF Enough(young + 1)
                 THEN /\ heard' = [heard EXCEPT ![x][a] = 0]
                      /\ banned' = [banned EXCEPT ![x] = @ \cup {a}]
                      /\ term' = [term EXCEPT ![x][a] = term[x][a] + 1]
                 ELSE /\ heard' = [heard EXCEPT ![x][a] = young + 1]
                      /\ UNCHANGED <<banned, term>>
          BY <1>2, <3>2 DEF GetMessage, a
        <4>2. young + 1 \in Nat /\ term[x][a] + 1 \in Nat /\ 0 \in Nat
          BY <3>t
        <4>3. CASE Enough(young + 1)
          <5>1. banned' \in [Actor -> SUBSET Addr]
            BY <3>a, <3>t, <4>1, <4>3
          <5>2. [heard EXCEPT ![x][a] = 0] \in [Actor -> [Addr -> Nat]]
            BY <3>a, <3>t, CellWritten
          <5>3. [term EXCEPT ![x][a] = term[x][a] + 1] \in [Actor -> [Addr -> Nat]]
            BY <3>a, <3>t, <4>2, CellWritten
          <5> QED
            BY <4>1, <4>3, <5>1, <5>2, <5>3
        <4>4. CASE ~Enough(young + 1)
          <5>1. [heard EXCEPT ![x][a] = young + 1] \in [Actor -> [Addr -> Nat]]
            BY <3>a, <3>t, <4>2, CellWritten
          <5> QED
            BY <3>t, <4>1, <4>4, <5>1
        <4> QED
          BY <4>3, <4>4
      <3> QED
        BY <3>1, <3>2
    <2> QED
      BY <1>2, <1>x, <2>4, <2>5, <2>6 DEF GetMessage, Goes, TypeOK, redis, sensors
  <1>3. CASE GetNothing(x)
    BY <1>3, <1>x DEF GetNothing, Goes, TimedOut, TypeOK, Conn, redis, sensors, actors
  <1>4. CASE ActorRestart(x)
    <2>1. faults' \in 0 .. MaxFaults
      BY <1>4, TeamworkAssumption DEF ActorRestart, TypeOK
    <2>2. wire' \in [Actor -> Seq(Nat)] /\ heard' \in [Actor -> [Addr -> Nat]]
      BY <1>4 DEF ActorRestart, TypeOK
    <2> QED
      BY <1>4, <1>x, <2>1, <2>2 DEF ActorRestart, TypeOK, Conn, redis, sensors
  <1>5. ASSUME NEW a \in Addr, ActorRelease(x, a) PROVE TypeOK'
    BY <1>5 DEF ActorRelease, TypeOK, redis, sensors
  <1> QED
    BY <1>1, <1>2, <1>3, <1>4, <1>5 DEF ActorStep

---------------------------------------------------------------------------
(* The messages on their way to an actor are of the past, in order, and     *)
(* newer than all it got. This and NothingMissed are inductive: a step can  *)
(* cut what is on its way to an actor, publish, subscribe it, or hand it    *)
(* the first message, and nothing else touches them.                        *)
Rising(w, lo, n) ==
    \A k \in DOMAIN w : w[k] \in lo + 1 .. n /\ \A l \in 1 .. k - 1 : w[l] < w[k]

OnItsWay(x) == Rising(wire[x], Latest(x), Len(sent))

Ordered ==
    \A x \in Actor :
        OnItsWay(x) /\ Latest(x) \in 0 .. Len(sent) /\ since[x] \in 0 .. Len(sent)

IInv == TypeOK /\ Ordered /\ NothingMissed

Cuts ==
    /\ UNCHANGED <<sent, got, since>>
    /\ \A x \in Actor :
          /\ wire'[x] \in Seq(Nat) /\ Len(wire'[x]) <= Len(wire[x])
          /\ \A k \in 1 .. Len(wire'[x]) : wire'[x][k] = wire[x][k]
          /\ conn'[x] = "open" => conn[x] = "open" /\ wire'[x] = wire[x]

Publishes ==
    /\ UNCHANGED <<got, since>>
    /\ Len(sent') = Len(sent) + 1
    /\ \A x \in Actor :
          /\ conn'[x] = "open" => conn[x] = "open"
          /\ wire'[x] = IF conn[x] = "open" THEN Append(wire[x], Len(sent) + 1) ELSE wire[x]

Subscribes(x) ==
    /\ UNCHANGED <<sent, got>>
    /\ since' = [since EXCEPT ![x] = Len(sent)]
    /\ wire' = [wire EXCEPT ![x] = <<>>]
    /\ \A y \in Actor \ {x} : conn'[y] = conn[y]

Gets(x) ==
    /\ wire[x] # <<>>
    /\ UNCHANGED <<sent, since, conn>>
    /\ got' = [got EXCEPT ![x] = Append(@, Head(wire[x]))]
    /\ wire' = [wire EXCEPT ![x] = Tail(@)]

(* Rising sequences stay so when they are cut, when the next number is      *)
(* appended and when the first one is taken off.                            *)
LEMMA CutRising ==
    ASSUME NEW w \in Seq(Nat), NEW v \in Seq(Nat), NEW lo, NEW n, Rising(w, lo, n),
           Len(v) <= Len(w), \A k \in 1 .. Len(v) : v[k] = w[k]
    PROVE  Rising(v, lo, n)
  <1>1. DOMAIN v = 1 .. Len(v) /\ DOMAIN w = 1 .. Len(w) /\ Len(v) \in Nat /\ Len(w) \in Nat
    OBVIOUS
  <1>2. ASSUME NEW k \in DOMAIN v
        PROVE  v[k] \in lo + 1 .. n /\ \A l \in 1 .. k - 1 : v[l] < v[k]
    <2>1. k \in DOMAIN w /\ v[k] = w[k] /\ \A l \in 1 .. k - 1 : v[l] = w[l]
      BY <1>1
    <2> QED
      BY <2>1 DEF Rising
  <1> QED
    BY <1>2 DEF Rising

LEMMA AppendRising ==
    ASSUME NEW w \in Seq(Nat), NEW lo \in Nat, NEW n \in Nat, lo <= n, Rising(w, lo, n)
    PROVE  Rising(Append(w, n + 1), lo, n + 1)
  <1> DEFINE v == Append(w, n + 1)
  <1>1. /\ DOMAIN v = 1 .. Len(w) + 1 /\ DOMAIN w = 1 .. Len(w) /\ Len(w) \in Nat
        /\ v[Len(w) + 1] = n + 1 /\ \A k \in 1 .. Len(w) : v[k] = w[k]
    OBVIOUS
  <1> HIDE DEF v
  <1>2. \A k \in 1 .. Len(w) : w[k] \in lo + 1 .. n /\ \A l \in 1 .. k - 1 : w[l] < w[k]
    BY <1>1 DEF Rising
  <1>3. ASSUME NEW k \in DOMAIN v
        PROVE  v[k] \in lo + 1 .. n + 1 /\ \A l \in 1 .. k - 1 : v[l] < v[k]
    <2>1. CASE k \in 1 .. Len(w)
      <3>1. v[k] = w[k] /\ \A l \in 1 .. k - 1 : v[l] = w[l]
        BY <1>1, <2>1
      <3> QED
        BY <1>2, <2>1, <3>1
    <2>2. CASE k = Len(w) + 1
      <3>1. \A l \in 1 .. k - 1 : v[l] = w[l] /\ w[l] \in lo + 1 .. n
        BY <1>1, <1>2, <2>2
      <3> QED
        BY <1>1, <2>2, <3>1
    <2> QED
      BY <1>1, <2>1, <2>2
  <1> QED
    BY <1>3 DEF Rising, v

LEMMA TailRising ==
    ASSUME NEW w \in Seq(Nat), w # <<>>, NEW lo \in Nat, NEW n \in Nat, Rising(w, lo, n)
    PROVE  Head(w) \in lo + 1 .. n /\ Rising(Tail(w), Head(w), n)
  <1> DEFINE v == Tail(w)
  <1>1. /\ DOMAIN v = 1 .. Len(w) - 1 /\ DOMAIN w = 1 .. Len(w) /\ Len(w) \in Nat
        /\ Head(w) = w[1] /\ 1 \in DOMAIN w
        /\ \A k \in 1 .. Len(w) - 1 : v[k] = w[k + 1]
    OBVIOUS
  <1> HIDE DEF v
  <1>2. \A k \in DOMAIN w : w[k] \in lo + 1 .. n /\ \A l \in 1 .. k - 1 : w[l] < w[k]
    BY DEF Rising
  <1>3. ASSUME NEW k \in DOMAIN v
        PROVE  v[k] \in w[1] + 1 .. n /\ \A l \in 1 .. k - 1 : v[l] < v[k]
    <2>1. k + 1 \in DOMAIN w /\ v[k] = w[k + 1] /\ k \in Nat \ {0}
      BY <1>1
    <2>2. w[k + 1] \in lo + 1 .. n /\ \A l \in 1 .. (k + 1) - 1 : w[l] < w[k + 1]
      BY <1>2, <2>1
    <2>3. w[1] < w[k + 1] /\ w[1] \in lo + 1 .. n
      <3>1. 1 \in 1 .. (k + 1) - 1
        BY <2>1
      <3> QED
        BY <1>1, <1>2, <2>2, <3>1
    <2>4. \A l \in 1 .. k - 1 : v[l] = w[l + 1] /\ l + 1 \in 1 .. (k + 1) - 1
      BY <1>1, <2>1
    <2> QED
      BY <2>1, <2>2, <2>3, <2>4
  <1> QED
    BY <1>1, <1>2, <1>3 DEF Rising, v

LEMMA LatestAppended ==
    ASSUME NEW q \in Seq(Nat), NEW e \in Nat
    PROVE  F!Latest(Append(q, e)) = e
  <1>1. /\ Len(Append(q, e)) = Len(q) + 1 /\ Append(q, e)[Len(q) + 1] = e
        /\ Len(q) \in Nat /\ Append(q, e) \in Seq(Nat)
    OBVIOUS
  <1>2. Append(q, e) # <<>>
    BY <1>1
  <1> QED
    BY <1>1, <1>2 DEF F!Latest

(* redis_connect touches the connection of its jail only. *)
LEMMA ConnectOwn ==
    ASSUME TypeOK, NEW j \in Jail, redis_connect(j)
    PROVE  \A x \in Jail \ {j} : conn'[x] = conn[x]
  BY DEF TypeOK, redis_connect

(* A sensor is no actor. *)
LEMMA SensorNoActor ==
    ASSUME NEW s \in Sensor
    PROVE  s \in Jail /\ \A x \in Actor : x # s /\ x \in Jail \ {s}
  BY TeamworkAssumption DEF Jail

(* What leaves messages and actors alone is a cut of nothing. *)
LEMMA NothingCut ==
    ASSUME TypeOK, UNCHANGED <<sent, got, since, wire>>,
           \A x \in Actor : conn'[x] = "open" => conn[x] = "open"
    PROVE  Cuts
  BY DEF TypeOK, Cuts

(* Every step is of one of the four kinds. *)
LEMMA FaultKind ==
    ASSUME TypeOK, ServerDown \/ ServerUp \/ \E j \in Jail : Break(j)
    PROVE  Cuts
  <1>1. CASE ServerDown
    <2>1. \A x \in Actor : conn'[x] # "open"
      BY <1>1 DEF ServerDown, TypeOK, Jail
    <2> QED
      BY <1>1, <2>1, LoseCuts DEF ServerDown, Cuts, TypeOK, actors
  <1>2. CASE ServerUp
    BY <1>2, NothingCut DEF ServerUp, sensors, actors
  <1>3. ASSUME NEW j \in Jail, Break(j) PROVE Cuts
    <2>1. \A x \in Actor : conn'[x] = "open" => conn[x] = "open" /\ x \notin {j}
      BY <1>3 DEF Break, TypeOK, Jail
    <2> QED
      BY <1>3, <2>1, LoseCuts DEF Break, Cuts, TypeOK, actors, redis
  <1> QED
    BY <1>1, <1>2, <1>3

LEMMA SensorKind ==
    ASSUME TypeOK, NEW s \in Sensor,
           SensorStep(s) \/ SensorRestart(s) \/ \E a \in Addr : BanBegin(s, a)
    PROVE  Cuts \/ Publishes
  <1>s. s \in Jail /\ \A x \in Actor : x # s /\ x \in Jail \ {s}
    BY SensorNoActor
  <1>c. ASSUME redis_connect(s) PROVE \A x \in Actor : conn'[x] = conn[x]
    BY <1>s, <1>c, ConnectOwn
  <1>o. ASSUME NEW v, conn' = [conn EXCEPT ![s] = v] PROVE \A x \in Actor : conn'[x] = conn[x]
    BY <1>s, <1>o DEF TypeOK
  <1>1. CASE SensorStart(s)
    BY <1>1, <1>c, NothingCut DEF SensorStart, redis, actors
  <1>2. CASE ping(s)
    <2>1. \A x \in Actor : conn'[x] = conn[x]
      BY <1>2, <1>c, <1>o DEF ping
    <2> QED
      BY <1>2, <2>1, NothingCut DEF ping, redis, actors
  <1>3. CASE CommandFails(s)
    <2>1. \A x \in Actor : conn'[x] = conn[x]
      BY <1>3, <1>o DEF CommandFails
    <2> QED
      BY <1>3, <2>1, NothingCut DEF CommandFails, redis, actors
  <1>4. CASE Hincrby(s)
    <2>1. \A x \in Actor : conn'[x] = conn[x]
      BY <1>4, <1>o DEF Hincrby, ReplyLost
    <2> QED
      BY <1>4, <2>1, NothingCut DEF Hincrby, actors
  <1>5. CASE PublishBan(s)
    <2>1. \A x \in Actor : conn'[x] = conn[x]
      BY <1>5, <1>o DEF PublishBan, ReplyLost
    <2>2. ip[s] \in Addr
      BY DEF TypeOK
    <2> QED
      BY <1>5, <2>1, <2>2, PublishAppends DEF PublishBan, Publishes, actors
  <1>6. CASE SensorRestart(s)
    <2>1. \A x \in Actor : conn'[x] = conn[x]
      BY <1>6, <1>o DEF SensorRestart
    <2> QED
      BY <1>6, <2>1, NothingCut DEF SensorRestart, redis, actors
  <1>7. ASSUME NEW a \in Addr, BanBegin(s, a) PROVE Cuts
    BY <1>7, <1>c, NothingCut DEF BanBegin, redis, actors
  <1> QED
    BY <1>1, <1>2, <1>3, <1>4, <1>5, <1>6, <1>7 DEF SensorStep

LEMMA ActorKind ==
    ASSUME TypeOK, NEW x \in Actor,
           ActorStep(x) \/ ActorRestart(x) \/ \E a \in Addr : ActorRelease(x, a)
    PROVE  Cuts \/ Subscribes(x) \/ Gets(x)
  <1>x. x \in Jail
    BY DEF Jail
  <1>1. CASE ActorConnect(x)
    <2>1. CASE ~Usable(x) /\ Connected(x)
      <3>1. \A y \in Actor \ {x} : conn'[y] = conn[y]
        BY <1>1, <1>x, ConnectOwn DEF ActorConnect, redis_subscribe, Jail
      <3> QED
        BY <1>1, <2>1, <3>1 DEF ActorConnect, redis_subscribe, Subscribes, redis
    <2>2. CASE ~(~Usable(x) /\ Connected(x))
      <3>1. conn' = conn
        BY <1>1, <1>x, <2>2 DEF ActorConnect, redis_subscribe, redis_connect, Connected, TypeOK
      <3> QED
        BY <1>1, <2>2, <3>1, NothingCut DEF ActorConnect, redis_subscribe, redis
    <2> QED
      BY <2>1, <2>2
  <1>2. CASE GetMessage(x)
    BY <1>2 DEF GetMessage, Gets, Take, redis
  <1>3. CASE GetNothing(x)
    <2>1. \A y \in Actor : conn'[y] = "open" => conn[y] = "open"
      BY <1>3, <1>x DEF GetNothing, TimedOut, TypeOK, Jail
    <2> QED
      BY <1>3, <2>1, NothingCut DEF GetNothing, redis, actors
  <1>4. CASE ActorRestart(x)
    <2>1. /\ <<>> \in Seq(Nat) /\ wire \in [Actor -> Seq(Nat)]
          /\ wire' = [wire EXCEPT ![x] = <<>>] /\ conn' = [conn EXCEPT ![x] = "none"]
          /\ UNCHANGED <<sent, got, since>>
      BY <1>4 DEF ActorRestart, redis, TypeOK
    <2>2. conn'[x] = "none" /\ wire'[x] = <<>>
      BY <2>1, <1>x DEF TypeOK
    <2>3. \A y \in Actor \ {x} : conn'[y] = conn[y] /\ wire'[y] = wire[y]
      BY <2>1 DEF TypeOK, Jail
    <2> QED
      BY <2>1, <2>2, <2>3 DEF Cuts
  <1>5. ASSUME NEW a \in Addr, ActorRelease(x, a) PROVE Cuts
    BY <1>5, NothingCut DEF ActorRelease, redis
  <1> QED
    BY <1>1, <1>2, <1>3, <1>4, <1>5 DEF ActorStep

(* An actor whose messages are cut, or that nothing happens to. *)
LEMMA CutKeeps ==
    ASSUME TypeOK, Ordered, NothingMissed, Cuts
    PROVE  Ordered' /\ NothingMissed'
  <1>1. ASSUME NEW x \in Actor
        PROVE  /\ OnItsWay(x)' /\ Latest(x)' \in 0 .. Len(sent') /\ since'[x] \in 0 .. Len(sent')
               /\ conn'[x] = "open" => wire'[x] = wire[x]
    <2>1. /\ wire[x] \in Seq(Nat) /\ wire'[x] \in Seq(Nat) /\ Len(wire'[x]) <= Len(wire[x])
          /\ \A k \in 1 .. Len(wire'[x]) : wire'[x][k] = wire[x][k]
          /\ got' = got /\ sent' = sent /\ since' = since
      BY DEF TypeOK, Cuts
    <2>2. Latest(x)' = Latest(x)
      BY <2>1 DEF Latest, F!Latest
    <2>3. OnItsWay(x)'
      BY <2>1, <2>2, CutRising DEF Ordered, OnItsWay
    <2> QED
      BY <2>1, <2>2, <2>3 DEF Ordered, Cuts
  <1>2. \A x \in Actor : Latest(x)' = Latest(x)
    BY DEF Cuts, Latest, F!Latest
  <1> QED
    BY <1>1, <1>2 DEF Ordered, NothingMissed, Cuts

(* A new message is newer than those on their way, and follows them.        *)
LEMMA PublishKeeps ==
    ASSUME TypeOK, Ordered, NothingMissed, Publishes
    PROVE  Ordered' /\ NothingMissed'
  <1> DEFINE n == Len(sent)
  <1>n. n \in Nat /\ Len(sent') = n + 1
    BY DEF TypeOK, Publishes
  <1>1. ASSUME NEW x \in Actor
        PROVE  /\ OnItsWay(x)' /\ Latest(x)' \in 0 .. Len(sent') /\ since'[x] \in 0 .. Len(sent')
               /\ conn'[x] = "open" =>
                     wire'[x] = Numbers(IF Latest(x)' > since'[x] THEN Latest(x)' ELSE since'[x],
                                        Len(sent'))
    <2>1. wire[x] \in Seq(Nat) /\ OnItsWay(x) /\ Latest(x) \in 0 .. n /\ since[x] \in 0 .. n
      BY DEF TypeOK, Ordered
    <2>2. Latest(x)' = Latest(x) /\ since'[x] = since[x]
      BY DEF Publishes, Latest, F!Latest
    <2> DEFINE i == IF Latest(x) > since[x] THEN Latest(x) ELSE since[x]
    <2>i. i \in 0 .. n
      BY <2>1
    <2>3. CASE conn[x] # "open"
      <3>1. wire'[x] = wire[x] /\ conn'[x] # "open"
        BY <2>3 DEF Publishes
      <3>2. Rising(wire[x], Latest(x), n + 1)
        BY <1>n, <2>1 DEF OnItsWay, Rising
      <3> QED
        BY <1>n, <2>1, <2>2, <3>1, <3>2 DEF OnItsWay
    <2>4. CASE conn[x] = "open"
      <3>1. wire'[x] = Append(wire[x], n + 1)
        BY <2>4 DEF Publishes
      <3>2. wire[x] = Numbers(i, n)
        BY <2>4 DEF NothingMissed
      <3>3. wire'[x] = Numbers(i, n + 1)
        <4> HIDE DEF i, n
        <4>1. Append([k \in 1 .. n - i |-> i + k], n + 1) = [k \in 1 .. (n + 1) - i |-> i + k]
          <5>1. n - i \in Nat /\ (n + 1) - i = (n - i) + 1 /\ i + ((n - i) + 1) = n + 1
            BY <1>n, <2>i
          <5>2. \A k \in 1 .. n - i : i + k \in Nat
            BY <1>n, <2>i
          <5> QED
            BY <1>n, <2>i, <5>1, <5>2
        <4> QED
          BY <3>1, <3>2, <4>1 DEF Numbers
      <3>4. OnItsWay(x)'
        BY <1>n, <2>1, <2>2, <3>1, AppendRising DEF OnItsWay
      <3> QED
        BY <1>n, <2>1, <2>2, <3>3, <3>4
    <2> QED
      BY <2>3, <2>4
  <1> QED
    BY <1>1 DEF Ordered, NothingMissed

(* An actor that subscribes waits for all that is published from now on.    *)
LEMMA SubscribeKeeps ==
    ASSUME TypeOK, Ordered, NothingMissed, NEW x \in Actor, Subscribes(x)
    PROVE  Ordered' /\ NothingMissed'
  <1>n. Len(sent) \in Nat /\ sent' = sent /\ got' = got
    BY DEF TypeOK, Subscribes
  <1>1. \A y \in Actor : Latest(y)' = Latest(y) /\ Latest(y) \in 0 .. Len(sent)
    BY <1>n DEF Latest, F!Latest, Ordered
  <1>2. ASSUME NEW y \in Actor \ {x}
        PROVE  wire'[y] = wire[y] /\ since'[y] = since[y] /\ conn'[y] = conn[y]
    BY DEF Subscribes, TypeOK
  <1>3. wire'[x] = <<>> /\ since'[x] = Len(sent)
    BY DEF Subscribes, TypeOK
  <1>4. OnItsWay(x)'
    BY <1>3 DEF OnItsWay, Rising
  <1>5. wire'[x] = Numbers(IF Latest(x)' > since'[x] THEN Latest(x)' ELSE since'[x], Len(sent'))
    <2>1. ~(Latest(x)' > since'[x]) /\ 1 .. Len(sent) - Len(sent) = {}
      BY <1>n, <1>1, <1>3
    <2> QED
      BY <1>n, <1>3, <2>1 DEF Numbers
  <1>6. Ordered'
    BY <1>n, <1>1, <1>2, <1>3, <1>4 DEF Ordered, OnItsWay
  <1> QED
    BY <1>n, <1>1, <1>2, <1>5, <1>6 DEF NothingMissed

(* An actor gets the oldest message on its way to it. *)
LEMMA GetKeeps ==
    ASSUME TypeOK, Ordered, NothingMissed, NEW x \in Actor, Gets(x)
    PROVE  /\ Ordered' /\ NothingMissed'
           /\ Head(wire[x]) \in Latest(x) + 1 .. Len(sent)
  <1> DEFINE w == wire[x]
             h == Head(wire[x])
  <1>n. Len(sent) \in Nat /\ sent' = sent /\ since' = since /\ conn' = conn
    BY DEF TypeOK, Gets
  <1>1. /\ w \in Seq(Nat) /\ w # <<>> /\ h = w[1] /\ 1 \in DOMAIN w /\ got[x] \in Seq(Nat)
        /\ Latest(x) \in 0 .. Len(sent) /\ since[x] \in 0 .. Len(sent) /\ OnItsWay(x)
    BY DEF TypeOK, Gets, Ordered
  <1>2. h \in Latest(x) + 1 .. Len(sent) /\ Rising(Tail(w), h, Len(sent))
    BY <1>n, <1>1, TailRising DEF OnItsWay
  <1>3. Latest(x)' = h
    <2>1. got'[x] = Append(got[x], h)
      BY DEF Gets, TypeOK
    <2>2. h \in Nat
      BY <1>n, <1>1, <1>2
    <2> QED
      BY <1>1, <2>1, <2>2, LatestAppended DEF Latest
  <1>4. ASSUME NEW y \in Actor \ {x} PROVE wire'[y] = wire[y] /\ Latest(y)' = Latest(y)
    BY DEF Gets, TypeOK, Latest, F!Latest
  <1>5. wire'[x] = Tail(w)
    BY DEF Gets, TypeOK
  <1>6. OnItsWay(x)'
    BY <1>n, <1>2, <1>3, <1>5 DEF OnItsWay
  <1>7. Ordered'
    <2>1. h \in 0 .. Len(sent)
      BY <1>n, <1>1, <1>2
    <2> QED
      BY <1>n, <1>1, <1>3, <1>4, <1>6, <2>1 DEF Ordered, OnItsWay
  <1>8. ASSUME conn[x] = "open"
        PROVE  wire'[x] = Numbers(IF Latest(x)' > since[x] THEN Latest(x)' ELSE since[x], Len(sent))
    <2> DEFINE i == IF Latest(x) > since[x] THEN Latest(x) ELSE since[x]
               n == Len(sent)
    <2>1. w = Numbers(i, n) /\ i \in 0 .. n
      BY <1>1, <1>8 DEF NothingMissed
    <2>2. h = i + 1 /\ i + 1 <= n
      BY <1>1, <2>1 DEF Numbers
    <2>3. Tail(w) = Numbers(i + 1, n)
      <3> HIDE DEF i, n
      <3>1. n - i \in Nat \ {0} /\ n - (i + 1) = (n - i) - 1
        BY <1>n, <2>1, <2>2 DEF n
      <3>2. Tail([k \in 1 .. n - i |-> i + k]) = [k \in 1 .. (n - i) - 1 |-> i + (k + 1)]
        BY <2>1, <3>1
      <3>3. [k \in 1 .. (n - i) - 1 |-> i + (k + 1)] = [k \in 1 .. n - (i + 1) |-> (i + 1) + k]
        BY <2>1, <3>1
      <3> QED
        BY <2>1, <3>2, <3>3 DEF Numbers
    <2>4. (IF Latest(x)' > since[x] THEN Latest(x)' ELSE since[x]) = i + 1
      BY <1>1, <1>3, <2>2
    <2> QED
      BY <1>5, <2>3, <2>4
  <1> QED
    BY <1>n, <1>2, <1>4, <1>7, <1>8 DEF NothingMissed

---------------------------------------------------------------------------
LEMMA InvInit == Init => IInv
  <1> SUFFICES ASSUME Init PROVE IInv
    OBVIOUS
  <1>1. TypeOK
    BY TypeInit
  <1>2. \A x \in Actor : wire[x] = <<>> /\ Latest(x) = 0 /\ since[x] = 0 /\ Len(sent) = 0
    BY DEF Init, Latest, F!Latest
  <1>3. \A x \in Actor : x \in Jail /\ conn[x] # "open"
    BY DEF Init, Jail
  <1> QED
    BY <1>1, <1>2, <1>3 DEF IInv, Ordered, OnItsWay, Rising, NothingMissed

LEMMA InvNext == IInv /\ [Next]_vars => IInv'
  <1> SUFFICES ASSUME IInv, [Next]_vars PROVE IInv'
    OBVIOUS
  <1>t. TypeOK /\ Ordered /\ NothingMissed
    BY DEF IInv
  <1>1. CASE ServerDown \/ ServerUp \/ \E j \in Jail : Break(j)
    BY <1>t, <1>1, FaultType, FaultKind, CutKeeps DEF IInv
  <1>2. ASSUME NEW s \in Sensor,
               SensorStep(s) \/ SensorRestart(s) \/ \E a \in Addr : BanBegin(s, a)
        PROVE  IInv'
    BY <1>t, <1>2, SensorType, SensorKind, CutKeeps, PublishKeeps DEF IInv
  <1>3. ASSUME NEW x \in Actor,
               ActorStep(x) \/ ActorRestart(x) \/ \E a \in Addr : ActorRelease(x, a)
        PROVE  IInv'
    <2>1. wire[x] \in Seq(Nat) /\ sent \in Seq(Addr) /\ Latest(x) \in Nat
      BY <1>t DEF TypeOK, Ordered
    <2>2. \A k \in DOMAIN wire[x] : wire[x][k] \in DOMAIN sent
      BY <1>t, <2>1 DEF Ordered, OnItsWay, Rising
    <2> QED
      BY <1>t, <1>3, <2>2, ActorType, ActorKind, CutKeeps, SubscribeKeeps, GetKeeps DEF IInv
  <1>4. CASE UNCHANGED vars
    <2>1. UNCHANGED <<sent, got, since, wire, conn>>
      BY <1>4 DEF vars, redis, actors
    <2>2. Cuts
      BY <1>t, <2>1, NothingCut
    <2>3. TypeOK'
      BY <1>t, <1>4 DEF TypeOK, vars, redis, sensors, actors
    <2> QED
      BY <1>t, <2>2, <2>3, CutKeeps DEF IInv
  <1> QED
    BY <1>1, <1>2, <1>3, <1>4 DEF Next

THEOREM Invariance == Spec => []IInv
  BY InvInit, InvNext, PTL DEF Spec

(* The model is well typed: a message that is taken names a host, numbers   *)
(* stay numbers and no connection is in a state redis_connect does not know.*)
THEOREM TypeCorrect == Spec => []TypeOK
  BY Invariance, PTL DEF IInv

(* An actor misses nothing while its connection holds (redis_connect and    *)
(* next() of src/sources/redis.c).                                          *)
THEOREM NothingIsMissed == Spec => []NothingMissed
  BY Invariance, PTL DEF IInv

(* The sensors and actors, with all their failures, implement the feed: no  *)
(* actor takes a message twice, or an older one after a newer one.          *)
THEOREM Refinement == Spec => FollowsFeed
  <1>1. Init => F!Init
    BY DEF Init, F!Init
  <1>2. IInv /\ [Next]_vars => [F!Next]_<<Len(sent), got>>
    <2> SUFFICES ASSUME IInv, [Next]_vars PROVE [F!Next]_<<Len(sent), got>>
      OBVIOUS
    <2>t. TypeOK /\ Ordered /\ NothingMissed
      BY DEF IInv
    <2>c. ASSUME Cuts PROVE UNCHANGED <<Len(sent), got>>
      BY <2>c DEF Cuts
    <2>1. CASE ServerDown \/ ServerUp \/ \E j \in Jail : Break(j)
      BY <2>t, <2>1, <2>c, FaultKind
    <2>2. ASSUME NEW s \in Sensor,
                 SensorStep(s) \/ SensorRestart(s) \/ \E a \in Addr : BanBegin(s, a)
          PROVE  [F!Next]_<<Len(sent), got>>
      <3>1. ASSUME Publishes PROVE F!Send
        BY <3>1 DEF Publishes, F!Send
      <3> QED
        BY <2>t, <2>2, <2>c, <3>1, SensorKind DEF F!Next
    <2>3. ASSUME NEW x \in Actor,
                 ActorStep(x) \/ ActorRestart(x) \/ \E a \in Addr : ActorRelease(x, a)
          PROVE  [F!Next]_<<Len(sent), got>>
      <3>1. ASSUME Subscribes(x) PROVE UNCHANGED <<Len(sent), got>>
        BY <3>1 DEF Subscribes
      <3>2. ASSUME Gets(x) PROVE F!Get(x)
        <4>1. /\ Head(wire[x]) \in F!Latest(got[x]) + 1 .. Len(sent)
              /\ got' = [got EXCEPT ![x] = Append(@, Head(wire[x]))]
              /\ UNCHANGED Len(sent)
          BY <2>t, <3>2, GetKeeps DEF Gets, Latest
        <4> QED
          BY <4>1 DEF F!Get
      <3> QED
        BY <2>t, <2>3, <2>c, <3>1, <3>2, ActorKind DEF F!Next
    <2>4. CASE UNCHANGED vars
      BY <2>4 DEF vars, redis, actors
    <2> QED
      BY <2>1, <2>2, <2>3, <2>4 DEF Next
  <1> QED
    BY <1>1, <1>2, Invariance, PTL DEF Spec, FollowsFeed, F!Spec

---------------------------------------------------------------------------
(* Messages are counted before they are published. *)

(* The sensors that have counted a ban of the host a and not published it.  *)
Publishing(a) == {s \in Sensor : pc[s] = "publish" /\ ip[s] = a}

(* The messages about a that x got, or that were lost to it before those.   *)
Told(x, a) == {n \in 1 .. Latest(x) : sent[n] = a}

(* Each sensor between the two commands has one count in advance.           *)
Counted ==
    /\ acked <= Len(sent)
    /\ \A a \in Addr : /\ IsFiniteSet(Publishing(a))
                       /\ Messages(a) + Cardinality(Publishing(a)) <= counts[a]

(* Each message is used for one ban only: what an actor holds in its match  *)
(* history is left over from the messages that were needed for its bans.    *)
Earned ==
    \A x \in Actor, a \in Addr :
        term[x][a] * Banscore + heard[x][a] * DefScore <= Cardinality(Told(x, a)) * DefScore

(* What a step does to the two commands of the sensors: nothing, but that   *)
(* one may give up; or one of the commands of the sensor s.                 *)
Carries(s) == pc'[s] = "publish" => pc[s] = "publish" /\ ip'[s] = ip[s]

Idles == UNCHANGED <<counts, sent, acked>> /\ \A s \in Sensor : Carries(s)

Counts(s) ==
    /\ UNCHANGED <<sent, acked, ip>>
    /\ counts' = [counts EXCEPT ![ip[s]] = @ + 1]
    /\ \A z \in Sensor \ {s} : Carries(z)

Sends(s) ==
    /\ UNCHANGED <<counts, ip>> /\ pc[s] = "publish" /\ pc'[s] # "publish"
    /\ sent' = Append(sent, ip[s]) /\ acked' \in {acked, acked + 1}
    /\ \A z \in Sensor \ {s} : Carries(z)

LEMMA SensorSends ==
    ASSUME TypeOK, NEW s \in Sensor,
           SensorStep(s) \/ SensorRestart(s) \/ \E a \in Addr : BanBegin(s, a)
    PROVE  Idles \/ Counts(s) \/ Sends(s)
  <1>s. s \in Jail /\ Sensor \subseteq Jail
    BY DEF Jail
  <1>1. ASSUME NEW v, pc' = [pc EXCEPT ![s] = v]
        PROVE  pc'[s] = v /\ \A z \in Sensor \ {s} : pc'[z] = pc[z]
    BY <1>s, <1>1 DEF TypeOK
  <1>2. CASE SensorStart(s) \/ CommandFails(s) \/ SensorRestart(s)
    <2>1. \E v \in {"scan", "start"} : pc' = [pc EXCEPT ![s] = v]
      BY <1>2 DEF SensorStart, CommandFails, SensorRestart, Goes
    <2>2. UNCHANGED <<counts, sent, acked, ip>>
      BY <1>2 DEF SensorStart, CommandFails, SensorRestart, redis, sensors
    <2> QED
      BY <1>1, <2>1, <2>2 DEF Idles, Carries
  <1>3. CASE ping(s)
    BY <1>3 DEF ping, redis, Idles, Carries
  <1>4. ASSUME NEW a \in Addr, BanBegin(s, a) PROVE Idles
    <2>1. \E v \in {"scan", "hincrby"} : pc' = [pc EXCEPT ![s] = v]
      BY <1>4 DEF BanBegin
    <2>2. UNCHANGED <<counts, sent, acked>> /\ \A z \in Sensor \ {s} : ip'[z] = ip[z]
      BY <1>4 DEF BanBegin, redis, TypeOK
    <2> QED
      BY <1>1, <2>1, <2>2 DEF Idles, Carries
  <1>5. CASE Hincrby(s)
    <2>1. \E v \in {"scan", "publish"} : pc' = [pc EXCEPT ![s] = v]
      BY <1>5 DEF Hincrby, Goes, ReplyLost
    <2> QED
      BY <1>1, <1>5, <2>1 DEF Hincrby, sensors, Counts, Carries
  <1>6. CASE PublishBan(s)
    <2>1. pc[s] = "publish" /\ pc' = [pc EXCEPT ![s] = "scan"]
      BY <1>6 DEF PublishBan, Goes, ReplyLost
    <2> QED
      BY <1>1, <1>6, <2>1 DEF PublishBan, Publish, Sends, Carries
  <1> QED
    BY <1>2, <1>3, <1>4, <1>5, <1>6 DEF SensorStep

LEMMA OthersIdle ==
    ASSUME TypeOK,
           \/ ServerDown \/ ServerUp \/ (\E j \in Jail : Break(j)) \/ UNCHANGED vars
           \/ \E x \in Actor : \/ ActorStep(x) \/ ActorRestart(x)
                               \/ \E a \in Addr : ActorRelease(x, a)
    PROVE  Idles
  <1>1. CASE ServerDown \/ ServerUp \/ (\E j \in Jail : Break(j)) \/ UNCHANGED vars
    BY <1>1 DEF ServerDown, ServerUp, Break, vars, redis, sensors, Idles, Carries
  <1>2. ASSUME NEW x \in Actor,
               ActorStep(x) \/ ActorRestart(x) \/ \E a \in Addr : ActorRelease(x, a)
        PROVE  Idles
    <2>1. UNCHANGED <<counts, sent, sensors>>
      BY <1>2 DEF ActorStep, ActorConnect, GetMessage, GetNothing, ActorRestart, ActorRelease, redis
    <2>2. \A s \in Sensor : pc'[s] = pc[s]
      <3>1. pc' = pc \/ \E v : pc' = [pc EXCEPT ![x] = v]
        BY <1>2 DEF ActorStep, ActorConnect, GetMessage, GetNothing, ActorRestart, ActorRelease, Goes
      <3> QED
        BY <3>1, SensorNoActor DEF TypeOK
    <2> QED
      BY <2>1, <2>2 DEF sensors, Idles, Carries
  <1> QED
    BY <1>1, <1>2

LEMMA MessagesFinite ==
    ASSUME sent \in Seq(Addr), NEW a \in Addr
    PROVE  IsFiniteSet({n \in DOMAIN sent : sent[n] = a}) /\ Messages(a) \in Nat
  <1> DEFINE M == {n \in DOMAIN sent : sent[n] = a}
  <1>1. M \in SUBSET (1 .. Len(sent)) /\ 1 \in Int /\ Len(sent) \in Int
    OBVIOUS
  <1> HIDE DEF M
  <1>2. IsFiniteSet(M)
    BY <1>1, FS_Interval, FS_Subset
  <1>3. Cardinality(M) \in Nat
    BY <1>2, FS_CardinalityType
  <1> QED
    BY <1>2, <1>3 DEF M, Messages

(* A message about b is one more about b and none about the other hosts.    *)
LEMMA OneMessageMore ==
    ASSUME sent \in Seq(Addr), NEW b \in Addr, NEW a \in Addr, sent' = Append(sent, b)
    PROVE  Messages(a)' = IF a = b THEN Messages(a) + 1 ELSE Messages(a)
  <1> DEFINE M == {n \in DOMAIN sent : sent[n] = a}
             l == Len(sent)
  <1>1. /\ l \in Nat /\ DOMAIN sent = 1 .. l /\ DOMAIN sent' = 1 .. l + 1
        /\ sent'[l + 1] = b /\ \A n \in 1 .. l : sent'[n] = sent[n]
    OBVIOUS
  <1>2. M' = IF a = b THEN M \cup {l + 1} ELSE M
    BY <1>1
  <1>3. IsFiniteSet(M) /\ l + 1 \notin M
    <2>1. IsFiniteSet(M)
      BY MessagesFinite
    <2>2. l + 1 \notin M
      BY <1>1
    <2> QED
      BY <2>1, <2>2
  <1>4. Cardinality(M \cup {l + 1}) = Cardinality(M) + 1
    <2> HIDE DEF M, l
    <2> QED
      BY <1>3, FS_AddElement
  <1> QED
    BY <1>2, <1>4 DEF Messages

LEMMA CountedInit == Init => Counted
  <1> SUFFICES ASSUME Init PROVE Counted
    OBVIOUS
  <1>1. \A a \in Addr : Publishing(a) = {}
    BY DEF Init, Publishing, Jail
  <1>2. \A a \in Addr : {n \in DOMAIN sent : sent[n] = a} = {}
    BY DEF Init
  <1>3. IsFiniteSet({}) /\ Cardinality({}) = 0
    BY FS_EmptySet
  <1>4. acked = 0 /\ Len(sent) = 0 /\ \A a \in Addr : counts[a] = 0
    BY DEF Init
  <1> QED
    BY <1>1, <1>2, <1>3, <1>4 DEF Counted, Messages

LEMMA CountedStep ==
    ASSUME TypeOK, Counted, [Next]_vars
    PROVE  Counted'
  <1>1. Idles \/ \E s \in Sensor : Counts(s) \/ Sends(s)
    BY SensorSends, OthersIdle DEF Next
  <1>2. /\ acked \in Nat /\ Len(sent) \in Nat /\ sent \in Seq(Addr) /\ counts \in [Addr -> Nat]
        /\ \A s \in Sensor : ip[s] \in Addr
    BY DEF TypeOK
  <1>3. acked' <= Len(sent')
    <2>1. ASSUME NEW s \in Sensor, Sends(s) PROVE acked' <= Len(sent')
      <3>1. Len(sent') = Len(sent) + 1
        BY <1>2, <2>1 DEF Sends
      <3> QED
        BY <1>2, <2>1, <3>1 DEF Sends, Counted
    <2> QED
      BY <1>1, <1>2, <2>1 DEF Idles, Counts, Counted
  <1>4. ASSUME NEW a \in Addr
        PROVE  /\ IsFiniteSet(Publishing(a)')
               /\ Messages(a)' + Cardinality(Publishing(a)') <= counts'[a]
    <2> DEFINE P == Publishing(a)
               Q == Publishing(a)'
               m == Messages(a)
    <2>1. IsFiniteSet(P) /\ m + Cardinality(P) <= counts[a] /\ counts[a] \in Nat
      BY <1>2 DEF Counted
    <2>2. Cardinality(P) \in Nat /\ m \in Nat
      <3>1. m \in Nat
        BY <1>2, MessagesFinite
      <3>2. Cardinality(P) \in Nat
        <4> HIDE DEF P
        <4> QED
          BY <2>1, FS_CardinalityType
      <3> QED
        BY <3>1, <3>2
    <2>3. ASSUME Q \subseteq P
          PROVE  IsFiniteSet(Q) /\ Cardinality(Q) <= Cardinality(P) /\ Cardinality(Q) \in Nat
      <3> HIDE DEF P, Q
      <3> QED
        BY <2>1, <2>3, FS_Subset, FS_CardinalityType
    <2>4. CASE Idles
      <3>1. Q \subseteq P
        BY <2>4 DEF Idles, Carries, Publishing
      <3>2. Messages(a)' = m /\ counts'[a] = counts[a]
        BY <2>4 DEF Idles, Messages
      <3> HIDE DEF P, Q, m
      <3> QED
        BY <2>1, <2>2, <2>3, <3>1, <3>2 DEF Q
    <2>5. ASSUME NEW s \in Sensor, Counts(s), ip[s] = a
          PROVE  IsFiniteSet(Q) /\ Messages(a)' + Cardinality(Q) <= counts'[a]
      <3>1. Q \subseteq P \cup {s}
        BY <2>5 DEF Counts, Carries, Publishing
      <3>2. Messages(a)' = m /\ counts'[a] = counts[a] + 1
        BY <1>2, <2>5 DEF Counts, Messages
      <3> HIDE DEF P, Q, m
      <3>3. /\ IsFiniteSet(P \cup {s}) /\ Cardinality(P \cup {s}) <= Cardinality(P) + 1
            /\ Cardinality(P \cup {s}) \in Nat
        <4>1. /\ IsFiniteSet(P \cup {s})
              /\ Cardinality(P \cup {s}) = IF s \in P THEN Cardinality(P) ELSE Cardinality(P) + 1
          BY <2>1, FS_AddElement
        <4> QED
          BY <2>2, <4>1
      <3>4. IsFiniteSet(Q) /\ Cardinality(Q) <= Cardinality(P \cup {s}) /\ Cardinality(Q) \in Nat
        BY <3>1, <3>3, FS_Subset, FS_CardinalityType
      <3> QED
        BY <2>1, <2>2, <3>2, <3>3, <3>4
    <2>6. ASSUME NEW s \in Sensor, Sends(s), ip[s] = a
          PROVE  IsFiniteSet(Q) /\ Messages(a)' + Cardinality(Q) <= counts'[a]
      <3>1. Q \subseteq P \ {s} /\ s \in P
        BY <2>6 DEF Sends, Carries, Publishing
      <3>2. Messages(a)' = m + 1 /\ counts'[a] = counts[a]
        BY <1>2, <2>6, OneMessageMore DEF Sends
      <3> HIDE DEF P, Q, m
      <3>3. /\ IsFiniteSet(P \ {s}) /\ Cardinality(P \ {s}) = Cardinality(P) - 1
        BY <2>1, <3>1, FS_RemoveElement
      <3>4. IsFiniteSet(Q) /\ Cardinality(Q) <= Cardinality(P \ {s}) /\ Cardinality(Q) \in Nat
        BY <3>1, <3>3, FS_Subset, FS_CardinalityType
      <3> QED
        BY <2>1, <2>2, <3>2, <3>3, <3>4
    <2>7. ASSUME NEW s \in Sensor, Counts(s) \/ Sends(s), ip[s] # a
          PROVE  IsFiniteSet(Q) /\ Messages(a)' + Cardinality(Q) <= counts'[a]
      <3>1. Q \subseteq P
        BY <2>7 DEF Counts, Sends, Carries, Publishing
      <3>2. counts'[a] = counts[a]
        BY <1>2, <2>7 DEF Counts, Sends
      <3>3. Messages(a)' = m
        <4>1. CASE Counts(s)
          BY <4>1 DEF Counts, Messages
        <4>2. CASE Sends(s)
          BY <1>2, <2>7, <4>2, OneMessageMore DEF Sends
        <4> QED
          BY <2>7, <4>1, <4>2
      <3> HIDE DEF P, Q, m
      <3> QED
        BY <2>1, <2>2, <2>3, <3>1, <3>2, <3>3
    <2> QED
      BY <1>1, <2>4, <2>5, <2>6, <2>7
  <1> QED
    BY <1>3, <1>4 DEF Counted

(* The hash counts every message, and every ban the backend of a sensor     *)
(* reported done was published (ban() of src/backends/redis.c, between any  *)
(* two commands of which the connection may fail).                          *)
THEOREM BansArePublished == Spec => []CountedAndPublished
  <1>1. TypeOK /\ Counted => CountedAndPublished
    <2> SUFFICES ASSUME TypeOK, Counted, NEW a \in Addr
                 PROVE  acked <= Len(sent) /\ Messages(a) <= counts[a]
      BY DEF CountedAndPublished, Counted
    <2>1. /\ IsFiniteSet(Publishing(a)) /\ counts[a] \in Nat
          /\ Messages(a) + Cardinality(Publishing(a)) <= counts[a]
      BY DEF Counted, TypeOK
    <2>2. Messages(a) \in Nat /\ Cardinality(Publishing(a)) \in Nat
      BY <2>1, MessagesFinite, FS_CardinalityType DEF TypeOK
    <2> QED
      BY <2>1, <2>2 DEF Counted
  <1>2. TypeOK /\ Counted /\ [Next]_vars => Counted'
    BY CountedStep
  <1> QED
    BY <1>1, <1>2, CountedInit, TypeCorrect, PTL DEF Spec

---------------------------------------------------------------------------
(* Bans are earned. *)

LEMMA Monotone ==
    ASSUME NEW m \in Nat, NEW n \in Nat, m <= n, NEW d \in Nat
    PROVE  m * d \in Nat /\ n * d \in Nat /\ m * d <= n * d
  <1>1. PICK e \in Nat : n = m + e
    <2>1. n - m \in Nat /\ n = m + (n - m)
      OBVIOUS
    <2> QED
      BY <2>1
  <1>2. m * d \in Nat /\ e * d \in Nat /\ (m + e) * d = m * d + e * d
    OBVIOUS
  <1> QED
    BY <1>1, <1>2

(* The books of one host: t bans and h matches for k messages. *)
LEMMA MatchPaid ==
    ASSUME NEW t \in Nat, NEW h \in Nat, NEW k \in Nat, NEW h2 \in Nat, NEW k2 \in Nat,
           t * Banscore + h * DefScore <= k * DefScore,
           (h2 <= h /\ k <= k2) \/ (h2 <= h + 1 /\ k + 1 <= k2)
    PROVE  /\ t * Banscore + h2 * DefScore <= k2 * DefScore
           /\ Enough(h2) => (t + 1) * Banscore + 0 * DefScore <= k2 * DefScore
  <1> DEFINE tb == t * Banscore
             hd == h * DefScore
             kd == k * DefScore
             hd2 == h2 * DefScore
             kd2 == k2 * DefScore
  <1>1. /\ Banscore \in Nat /\ DefScore \in Nat
        /\ tb \in Nat /\ hd \in Nat /\ kd \in Nat /\ hd2 \in Nat /\ kd2 \in Nat
    BY TeamworkAssumption
  <1>2. /\ (h + 1) * DefScore = hd + DefScore /\ (k + 1) * DefScore = kd + DefScore
        /\ (t + 1) * Banscore = tb + Banscore /\ 0 * DefScore = 0
    BY <1>1
  <1>3. (hd2 <= hd /\ kd <= kd2) \/ (hd2 <= hd + DefScore /\ kd + DefScore <= kd2)
    <2>1. CASE h2 <= h /\ k <= k2
      BY <1>1, <2>1, Monotone
    <2>2. CASE h2 <= h + 1 /\ k + 1 <= k2
      <3>1. hd2 <= (h + 1) * DefScore /\ (k + 1) * DefScore <= kd2
        BY <1>1, <2>2, Monotone
      <3> HIDE DEF hd, kd, hd2, kd2
      <3> QED
        BY <1>2, <3>1
    <2> QED
      BY <2>1, <2>2
  <1>4. tb + hd <= kd /\ (Enough(h2) => hd2 >= Banscore)
    BY DEF Enough
  <1>5. tb + hd2 <= kd2 /\ (Enough(h2) => tb + Banscore <= kd2)
    <2> HIDE DEF tb, hd, kd, hd2, kd2
    <2> QED
      BY <1>1, <1>3, <1>4
  <1>6. Enough(h2) => (t + 1) * Banscore + 0 * DefScore <= k2 * DefScore
    <2> HIDE DEF tb
    <2> QED
      BY <1>1, <1>2, <1>5
  <1> QED
    BY <1>5, <1>6

LEMMA ToldFinite ==
    ASSUME NEW x, NEW a, Latest(x) \in Nat
    PROVE  IsFiniteSet(Told(x, a)) /\ Cardinality(Told(x, a)) \in Nat
  <1>1. Told(x, a) \in SUBSET (1 .. Latest(x)) /\ 1 \in Int /\ Latest(x) \in Int
    BY DEF Told
  <1>2. IsFiniteSet(Told(x, a))
    BY <1>1, FS_Interval, FS_Subset
  <1> QED
    BY <1>2, FS_CardinalityType

(* Steps that take no message from an actor's connection add nothing to its *)
(* match histories, and leave what it was told as it is.                    *)
Forgets ==
    /\ UNCHANGED <<got, term>>
    /\ \A x \in Actor, a \in Addr : heard'[x][a] \in 0 .. heard[x][a]
    /\ Len(sent) <= Len(sent') /\ \A n \in 1 .. Len(sent) : sent'[n] = sent[n]

LEMMA OnlyMessagesCount ==
    ASSUME TypeOK, [Next]_vars, \A x \in Actor : ~GetMessage(x)
    PROVE  Forgets
  <1>1. /\ Len(sent) \in Nat /\ sent \in Seq(Addr) /\ heard \in [Actor -> [Addr -> Nat]]
        /\ \A x \in Actor, a \in Addr : heard[x][a] \in Nat /\ 0 \in 0 .. heard[x][a]
                                        /\ heard[x][a] \in 0 .. heard[x][a]
    BY DEF TypeOK
  <1>2. ASSUME UNCHANGED <<sent, got, term, heard>> PROVE Forgets
    BY <1>1, <1>2 DEF Forgets
  <1>3. CASE ServerDown \/ ServerUp \/ (\E j \in Jail : Break(j)) \/ UNCHANGED vars
    BY <1>2, <1>3 DEF ServerDown, ServerUp, Break, vars, redis, actors
  <1>4. ASSUME NEW s \in Sensor, SensorStep(s) \/ SensorRestart(s) \/ \E a \in Addr : BanBegin(s, a)
        PROVE  Forgets
    <2>1. CASE PublishBan(s)
      <3>1. sent' = Append(sent, ip[s]) /\ ip[s] \in Addr /\ UNCHANGED <<got, term, heard>>
        BY <2>1 DEF PublishBan, Publish, actors, TypeOK
      <3>2. Len(sent) <= Len(sent') /\ \A n \in 1 .. Len(sent) : sent'[n] = sent[n]
        BY <1>1, <3>1
      <3> QED
        BY <1>1, <3>1, <3>2 DEF Forgets
    <2>2. CASE ~PublishBan(s)
      BY <1>2, <1>4, <2>2 DEF SensorStep, SensorStart, ping, CommandFails, Hincrby, SensorRestart,
                              BanBegin, redis, actors
    <2> QED
      BY <2>1, <2>2
  <1>5. ASSUME NEW x \in Actor, ActorConnect(x) \/ GetNothing(x) \/ \E a \in Addr : ActorRelease(x, a)
        PROVE  Forgets
    BY <1>2, <1>5 DEF ActorConnect, GetNothing, ActorRelease, redis, actors
  <1>6. ASSUME NEW x \in Actor, ActorRestart(x)
        PROVE  Forgets
    <2>1. UNCHANGED <<sent, got, term>> /\ heard' = [heard EXCEPT ![x] = [a \in Addr |-> 0]]
      BY <1>6 DEF ActorRestart, redis
    <2>2. \A y \in Actor, a \in Addr : heard'[y][a] \in 0 .. heard[y][a]
      BY <1>1, <2>1
    <2> QED
      BY <1>1, <2>1, <2>2 DEF Forgets
  <1> QED
    BY <1>3, <1>4, <1>5, <1>6 DEF Next, ActorStep

LEMMA CellRead ==
    ASSUME NEW S, NEW T, NEW f \in [S -> [T -> Nat]], NEW s \in S, NEW t \in T, NEW n,
           NEW u \in S, NEW v \in T
    PROVE  [f EXCEPT ![s][t] = n][u][v] = IF u = s /\ v = t THEN n ELSE f[u][v]
  <1>1. [f EXCEPT ![s][t] = n][u] = IF u = s THEN [f[s] EXCEPT ![t] = n] ELSE f[u]
    OBVIOUS
  <1>2. f[s] \in [T -> Nat]
    OBVIOUS
  <1>3. [f[s] EXCEPT ![t] = n][v] = IF v = t THEN n ELSE f[s][v]
    BY <1>2
  <1> QED
    BY <1>1, <1>3

LEMMA EarnedInit == Init => Earned
  <1> SUFFICES ASSUME Init, NEW x \in Actor, NEW a \in Addr
               PROVE  term[x][a] * Banscore + heard[x][a] * DefScore
                         <= Cardinality(Told(x, a)) * DefScore
    BY DEF Earned
  <1>1. term[x][a] = 0 /\ heard[x][a] = 0 /\ Latest(x) = 0
    BY DEF Init, Latest, F!Latest
  <1>2. Cardinality(Told(x, a)) \in Nat
    BY <1>1, ToldFinite
  <1>3. Cardinality(Told(x, a)) * DefScore \in Nat /\ 0 * Banscore + 0 * DefScore = 0
    BY <1>2, TeamworkAssumption
  <1> QED
    BY <1>1, <1>3

LEMMA EarnedStep ==
    ASSUME IInv, Earned, [Next]_vars
    PROVE  Earned'
  <1>t. /\ TypeOK /\ Ordered /\ NothingMissed /\ TypeOK' /\ Ordered'
        /\ \A x \in Actor : Latest(x) \in 0 .. Len(sent) /\ Latest(x) \in Nat /\ Latest(x)' \in Nat
    BY InvNext DEF IInv, Ordered, TypeOK
  <1> SUFFICES ASSUME NEW x \in Actor, NEW a \in Addr
               PROVE  term'[x][a] * Banscore + heard'[x][a] * DefScore
                         <= Cardinality(Told(x, a)') * DefScore
    BY DEF Earned
  <1> DEFINE t == term[x][a]
             h == heard[x][a]
             k == Cardinality(Told(x, a))
             h2 == heard'[x][a]
             k2 == Cardinality(Told(x, a)')
  <1>1. /\ t \in Nat /\ h \in Nat /\ h2 \in Nat /\ t * Banscore + h * DefScore <= k * DefScore
        /\ IsFiniteSet(Told(x, a)) /\ k \in Nat
    BY <1>t, ToldFinite DEF Earned, TypeOK
  <1>2. IsFiniteSet(Told(x, a)') /\ k2 \in Nat
    <2>1. Told(x, a)' \in SUBSET (1 .. Latest(x)') /\ 1 \in Int /\ Latest(x)' \in Int
      BY <1>t DEF Told
    <2> DEFINE T == Told(x, a)'
    <2> HIDE DEF T
    <2>2. IsFiniteSet(T)
      BY <2>1, FS_Interval, FS_Subset DEF T
    <2> QED
      BY <2>2, FS_CardinalityType DEF T
  <1>3. CASE \A y \in Actor : ~GetMessage(y)
    <2>1. Forgets
      BY <1>t, <1>3, OnlyMessagesCount
    <2>2. Latest(x)' = Latest(x)
      BY <2>1 DEF Forgets, Latest, F!Latest
    <2>3. Told(x, a)' = Told(x, a)
      <3>1. \A n \in 1 .. Latest(x) : sent'[n] = sent[n]
        BY <1>t, <2>1 DEF Forgets, TypeOK
      <3> QED
        BY <2>2, <3>1 DEF Told
    <2>4. k2 = k /\ term'[x][a] = t /\ h2 <= h
      BY <1>1, <2>1, <2>3 DEF Forgets
    <2> HIDE DEF t, h, k, h2, k2
    <2> QED
      BY <1>1, <1>2, <2>4, MatchPaid DEF h2, k2
  <1>4. ASSUME NEW y \in Actor, GetMessage(y)
        PROVE  term'[x][a] * Banscore + h2 * DefScore <= k2 * DefScore
    <2> DEFINE m == Head(wire[y])
               b == sent[m]
    <2>1. Gets(y) /\ sent' = sent
      BY <1>4 DEF GetMessage, Gets, Take, redis
    <2>2. m \in Latest(y) + 1 .. Len(sent) /\ Latest(y)' = m
      <3>1. m \in Latest(y) + 1 .. Len(sent) /\ got'[y] = Append(got[y], m) /\ got[y] \in Seq(Nat)
        BY <1>t, <2>1, GetKeeps DEF Gets, TypeOK
      <3>2. m \in Nat
        <4>1. Len(sent) \in Nat /\ Latest(y) \in Nat
          BY <1>t DEF TypeOK
        <4> HIDE DEF m
        <4> QED
          BY <3>1, <4>1
      <3> QED
        BY <3>1, <3>2, LatestAppended DEF Latest
    <2>b. b \in Addr /\ m \in DOMAIN sent
      <3>1. sent \in Seq(Addr) /\ Latest(y) \in Nat
        BY <1>t DEF TypeOK
      <3> HIDE DEF m
      <3>2. m \in 1 .. Len(sent)
        BY <2>2, <3>1
      <3> QED
        BY <3>1, <3>2
    <2>c. term \in [Actor -> [Addr -> Nat]] /\ heard \in [Actor -> [Addr -> Nat]]
      BY <1>t DEF TypeOK
    <2>3. \A z \in Actor \ {y} : Latest(z)' = Latest(z)
      BY <1>t, <2>1 DEF Gets, TypeOK, Latest, F!Latest
    <2>4. CASE x # y \/ a # b
      <3>1. term'[x][a] = t /\ h2 = h
        <4>1. UNCHANGED term \/ \E n : term' = [term EXCEPT ![y][b] = n]
          BY <1>4 DEF GetMessage
        <4>2. \E n : heard' = [heard EXCEPT ![y][b] = n]
          BY <1>4 DEF GetMessage
        <4> HIDE DEF b
        <4> QED
          BY <2>4, <2>b, <2>c, <4>1, <4>2, CellRead
      <3>2. Told(x, a) \subseteq Told(x, a)'
        BY <1>t, <2>1, <2>2, <2>3 DEF Told
      <3>3. k <= k2
        <4> DEFINE T == Told(x, a)'
        <4> HIDE DEF T
        <4> QED
          BY <1>2, <3>2, FS_Subset DEF T
      <3> HIDE DEF t, h, k, h2, k2
      <3> QED
        BY <1>1, <1>2, <3>1, <3>3, MatchPaid DEF h2, k2
    <2>5. CASE x = y /\ a = b
      <3>1. Told(x, a) \cup {m} \subseteq Told(x, a)' /\ m \notin Told(x, a)
        BY <1>t, <2>1, <2>2, <2>5 DEF Told
      <3>2. k + 1 <= k2
        <4> DEFINE T == Told(x, a)'
                   S == Told(x, a)
        <4> HIDE DEF T, S
        <4>1. IsFiniteSet(S) /\ IsFiniteSet(T) /\ S \cup {m} \subseteq T /\ m \notin S
          BY <1>1, <1>2, <3>1 DEF S, T
        <4>2. Cardinality(S \cup {m}) = Cardinality(S) + 1
          BY <4>1, FS_AddElement
        <4>3. Cardinality(S \cup {m}) <= Cardinality(T)
          BY <4>1, FS_Subset
        <4> QED
          BY <4>2, <4>3 DEF S, T
      <3>3. \/ term'[x][a] = t /\ h2 <= h + 1
            \/ \E n \in Nat : n <= h + 1 /\ Enough(n) /\ h2 = 0 /\ term'[x][a] = t + 1
        <4>1. \/ UNCHANGED term /\ heard' = [heard EXCEPT ![y][b] = @ + 1]
              \/ \E young \in 0 .. heard[y][b] :
                    \/ /\ Enough(young + 1) /\ heard' = [heard EXCEPT ![y][b] = 0]
                       /\ term' = [term EXCEPT ![y][b] = @ + 1]
                    \/ UNCHANGED term /\ heard' = [heard EXCEPT ![y][b] = young + 1]
          BY <1>4 DEF GetMessage
        <4>2. t = term[y][b] /\ h = heard[y][b]
          BY <2>5
        <4> HIDE DEF b, t, h
        <4>3. /\ [term EXCEPT ![y][b] = @ + 1][x][a] = t + 1
              /\ [heard EXCEPT ![y][b] = @ + 1][x][a] = h + 1
              /\ [heard EXCEPT ![y][b] = 0][x][a] = 0
          BY <2>5, <2>b, <2>c, <4>2, CellRead
        <4>4. \A young : [heard EXCEPT ![y][b] = young + 1][x][a] = young + 1
          BY <2>5, <2>b, <2>c, CellRead
        <4>5. CASE UNCHANGED term /\ heard' = [heard EXCEPT ![y][b] = @ + 1]
          BY <1>1, <4>3, <4>5 DEF t
        <4>6. ASSUME NEW young \in 0 .. h, Enough(young + 1), heard' = [heard EXCEPT ![y][b] = 0],
                     term' = [term EXCEPT ![y][b] = @ + 1]
              PROVE  \E n \in Nat : n <= h + 1 /\ Enough(n) /\ h2 = 0 /\ term'[x][a] = t + 1
          <5>1. young + 1 \in Nat /\ young + 1 <= h + 1
            BY <1>1
          <5> QED
            BY <4>3, <4>6, <5>1
        <4>7. ASSUME NEW young \in 0 .. h, UNCHANGED term,
                     heard' = [heard EXCEPT ![y][b] = young + 1]
              PROVE  term'[x][a] = t /\ h2 <= h + 1
          BY <1>1, <4>4, <4>7 DEF t
        <4> QED
          BY <4>1, <4>2, <4>5, <4>6, <4>7
      <3> HIDE DEF t, h, k, h2, k2
      <3>4. ASSUME NEW n \in Nat, n <= h + 1, Enough(n), h2 = 0, term'[x][a] = t + 1
            PROVE  term'[x][a] * Banscore + h2 * DefScore <= k2 * DefScore
        BY <1>1, <1>2, <3>2, <3>4, MatchPaid
      <3> QED
        BY <1>1, <1>2, <3>2, <3>3, <3>4, MatchPaid
    <2> QED
      BY <2>4, <2>5
  <1> QED
    BY <1>3, <1>4

(* An actor bans a host once for every Banscore / DefScore messages about it*)
(* at most, through reconnects, restarts and messages lost on the way:      *)
(* f2b_matches_flush in f2b_jail_ban lets no message count for two bans.    *)
THEOREM BansAreAlwaysEarned == Spec => []BansAreEarned
  <1>1. IInv /\ Earned => BansAreEarned
    <2> SUFFICES ASSUME IInv, Earned, NEW x \in Actor, NEW a \in Addr
                 PROVE  term[x][a] * Banscore <= Messages(a) * DefScore
      BY DEF BansAreEarned
    <2> DEFINE k == Cardinality(Told(x, a))
               n == Messages(a)
               tb == term[x][a] * Banscore
               hd == heard[x][a] * DefScore
    <2>1. /\ TypeOK /\ Latest(x) \in 0 .. Len(sent) /\ Latest(x) \in Nat /\ sent \in Seq(Addr)
          /\ tb + hd <= k * DefScore /\ tb \in Nat /\ hd \in Nat
      BY TeamworkAssumption DEF IInv, TypeOK, Ordered, Earned
    <2>2. k \in Nat /\ n \in Nat /\ DefScore \in Nat
      BY <2>1, ToldFinite, MessagesFinite, TeamworkAssumption
    <2>3. k <= n
      <3> DEFINE M == {i \in DOMAIN sent : sent[i] = a}
      <3>1. IsFiniteSet(M)
        BY <2>1, MessagesFinite
      <3>2. Told(x, a) \subseteq M
        BY <2>1 DEF Told
      <3> HIDE DEF M
      <3> QED
        BY <3>1, <3>2, FS_Subset DEF M, Messages
    <2> HIDE DEF k, n, tb, hd
    <2>4. k * DefScore <= n * DefScore /\ k * DefScore \in Nat /\ n * DefScore \in Nat
      BY <2>2, <2>3, Monotone
    <2>5. tb <= n * DefScore
      <3> DEFINE kd == k * DefScore
                 nd == n * DefScore
      <3> HIDE DEF kd, nd
      <3>1. kd <= nd /\ kd \in Nat /\ nd \in Nat /\ tb + hd <= kd
        BY <2>1, <2>4 DEF kd, nd
      <3> QED
        BY <2>1, <3>1 DEF nd
    <2> QED
      BY <2>5 DEF tb, n
  <1>2. IInv /\ Earned /\ [Next]_vars => Earned'
    BY EarnedStep
  <1> QED
    BY <1>1, <1>2, EarnedInit, Invariance, PTL DEF Spec
=============================================================================

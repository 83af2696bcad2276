------------------------------ MODULE Teamwork ------------------------------
(***************************************************************************)
(* Several f2b installations that share their bans through a redis server  *)
(* (docs/configuration.md:117-186): sensor jails, whose backend            *)
(* (src/backends/redis.c) counts each ban in a hash and publishes it on a  *)
(* channel, and actor jails, whose source (src/sources/redis.c) subscribes *)
(* to that channel and takes each message for a log line.  All of them use *)
(* one channel.                                                            *)
(*                                                                         *)
(* Every process acts between any two commands of the others.  The server  *)
(* and single connections may fail at any moment.  A broken connection is  *)
(* noticed by its owner when it is used next, or, if the peer is gone      *)
(* without a word, never ("mute").                                         *)
(***************************************************************************)
EXTENDS Integers, Sequences, FiniteSets

CONSTANTS
    Sensor,         \* jails with `backend = redis:...`
    Actor,          \* jails with `source = redis:...` and no filter
    Addr,
    Banscore,       \* `banscore` of the actor jails (50 by default)
    DefScore,       \* MATCH_DEFSCORE, the score of a line without a filter
    PingMax,        \* `ping` of the backend
    MaxBans,        \* bound: calls of the backend's ban()
    MaxFaults       \* bound: failures of the server and of connections

ASSUME TeamworkAssumption ==
    /\ Banscore \in Nat /\ DefScore \in Nat \ {0} /\ PingMax \in Nat
    /\ MaxBans \in Nat /\ MaxFaults \in Nat
    /\ Sensor \cap Actor = {}

VARIABLES
    up,         \* external: the redis server runs
    counts,     \* external: the hash f2b-banned-<id>
    sent,       \* external: the host of each message published so far
    wire,       \* external: numbers of the messages on their way to each actor
    faults,     \* number of failures
    conn,       \* cfg->conn of every jail
    pc,         \* where a jail is
    pings,      \* ping_num of the sensors
    ip,         \* the host a sensor's ban() is called for
    bans,       \* number of calls of ban()
    acked,      \* history: messages ban() returned true for
    heard,      \* lines an actor's match history holds for each host
    banned,     \* hosts each actor holds for banned
    got,        \* history: numbers of the messages an actor's next() returned
    since,      \* history: number of messages sent before an actor subscribed
    term        \* history: times an actor has banned each host

Jail == Sensor \cup Actor

redis == <<up, counts, sent>>
sensors == <<pings, ip, bans, acked>>
actors == <<heard, banned, got, since, term>>
vars == <<redis, wire, faults, conn, pc, sensors, actors>>

(* cfg->conn: none (NULL), usable, or with its err set ("error"); a broken   *)
(* connection looks usable until it is used.                                *)
Conn == {"none", "open", "broken", "mute", "error"}
Usable(j) == conn[j] \in {"open", "broken", "mute"}

Init ==
    /\ up \in BOOLEAN /\ counts = [a \in Addr |-> 0] /\ sent = <<>>
    /\ wire = [x \in Actor |-> <<>>] /\ faults = 0
    /\ conn = [j \in Jail |-> "none"]
    /\ pc = [j \in Jail |-> "start"]
    /\ pings = [s \in Sensor |-> 0] /\ ip \in [Sensor -> Addr]
    /\ bans = 0 /\ acked = 0
    /\ heard = [x \in Actor |-> [a \in Addr |-> 0]]
    /\ banned = [x \in Actor |-> {}]
    /\ got = [x \in Actor |-> <<>>] /\ since = [x \in Actor |-> 0]
    /\ term = [x \in Actor |-> [a \in Addr |-> 0]]

Goes(j, from, to) == pc[j] = from /\ pc' = [pc EXCEPT ![j] = to]

---------------------------------------------------------------------------
(* External: the server and the network. *)

(* Of what is on its way to the actors in S a tail may be lost. *)
Lose(S) ==
    \E kept \in [Actor -> 0 .. MaxBans] :
        wire' = [x \in Actor |->
                   IF x \in S /\ kept[x] < Len(wire[x]) THEN SubSeq(wire[x], 1, kept[x])
                   ELSE wire[x]]

(* The connection of j is gone. What had arrived at an actor can still be   *)
(* read from it; the owner is told when it uses it, or never.               *)
Break(j) ==
    /\ conn[j] = "open" /\ faults < MaxFaults /\ faults' = faults + 1
    /\ \E how \in {"broken", "mute"} : conn' = [conn EXCEPT ![j] = how]
    /\ Lose({j})
    /\ UNCHANGED <<redis, pc, sensors, actors>>

(* The server goes down with all connections, and comes up again with its  *)
(* data.                                                                    *)
ServerDown ==
    /\ up /\ up' = FALSE
    /\ faults < MaxFaults /\ faults' = faults + 1
    /\ conn' = [j \in Jail |-> IF conn[j] = "open" THEN "broken" ELSE conn[j]]
    /\ Lose({x \in Actor : conn[x] = "open"})
    /\ UNCHANGED <<counts, sent, pc, sensors, actors>>

ServerUp ==
    /\ ~up /\ up' = TRUE
    /\ UNCHANGED <<counts, sent, wire, faults, conn, pc, sensors, actors>>

(* PUBLISH reaches the actors that are subscribed at that moment. *)
Publish(a) ==
    /\ sent' = Append(sent, a)
    /\ wire' = [x \in Actor |->
                  IF conn[x] = "open" THEN Append(wire[x], Len(sent) + 1) ELSE wire[x]]

---------------------------------------------------------------------------
(* The sensors. *)

(* redis_connect: keeps a connection that has no error; otherwise opens one *)
(* with AUTH and SELECT, any of which may fail, and then leaves the old one *)
(* in place.                                                                *)
redis_connect(j) ==
    \/ Usable(j) /\ UNCHANGED conn
    \/ ~Usable(j) /\ up /\ conn' = [conn EXCEPT ![j] = "open"]
    \/ ~Usable(j) /\ UNCHANGED conn

Connected(j) == conn'[j] \notin {"none", "error"}

(* start(): a connection that cannot be made is no failure. *)
SensorStart(s) ==
    /\ Goes(s, "start", "scan")
    /\ redis_connect(s)
    /\ UNCHANGED <<redis, wire, faults, sensors, actors>>

(* Mutant: ping() does nothing, like that of the exec backend. *)
PingNever(s) ==
    /\ pc[s] = "scan" /\ UNCHANGED vars

(* The call of f2b_backend_ping that begins every f2b_jail_process:         *)
(* reconnects; every PingMax-th call sends PING, which finds a broken       *)
(* connection.                                                              *)
ping(s) ==
    /\ pc[s] = "scan"
    /\ \/ /\ ~Usable(s) /\ redis_connect(s)
          /\ pings' = IF ~Connected(s) THEN pings
                      ELSE [pings EXCEPT ![s] = IF @ + 1 < PingMax THEN @ + 1 ELSE 0]
       \/ /\ Usable(s) /\ pings[s] + 1 < PingMax
          /\ pings' = [pings EXCEPT ![s] = @ + 1]
          /\ UNCHANGED conn
       \/ /\ Usable(s) /\ pings[s] + 1 >= PingMax
          /\ pings' = [pings EXCEPT ![s] = 0]
          /\ conn' = IF conn[s] = "open" THEN conn ELSE [conn EXCEPT ![s] = "error"]
    /\ UNCHANGED <<redis, wire, faults, pc, ip, bans, acked, actors>>

(* The jail bans a host, or bans it again after a release (of which unban() *)
(* tells nobody) or a restart. ban() begins with redis_connect; without a   *)
(* connection the ban is not shared, and the jail does not try again.       *)
BanBegin(s, a) ==
    /\ pc[s] = "scan"
    /\ bans < MaxBans /\ bans' = bans + 1
    /\ ip' = [ip EXCEPT ![s] = a]
    /\ redis_connect(s)
    /\ pc' = [pc EXCEPT ![s] = IF Connected(s) THEN "hincrby" ELSE "scan"]
    /\ UNCHANGED <<redis, wire, faults, pings, acked, actors>>

(* A command fails: the connection turns out to be broken, or the server    *)
(* answers with an error.                                                   *)
CommandFails(s) ==
    /\ pc[s] \in {"hincrby", "publish"}
    /\ pc' = [pc EXCEPT ![s] = "scan"]
    /\ conn' = IF conn[s] = "open" THEN conn ELSE [conn EXCEPT ![s] = "error"]
    /\ UNCHANGED <<redis, wire, faults, sensors, actors>>

(* The connection breaks after the server has run the command: the answer   *)
(* is lost.                                                                 *)
ReplyLost(s) ==
    /\ faults < MaxFaults /\ faults' = faults + 1
    /\ pc' = [pc EXCEPT ![s] = "scan"]
    /\ conn' = [conn EXCEPT ![s] = "error"]

(* Mutant: the host is published before it is counted. *)
PublishFirst(s) ==
    /\ pc[s] = "hincrby" /\ conn[s] = "open"
    /\ Publish(ip[s])
    /\ \/ Goes(s, "hincrby", "publish") /\ UNCHANGED <<faults, conn>>
       \/ ReplyLost(s)
    /\ UNCHANGED <<up, counts, sensors, actors>>

(* HINCRBY *)
Hincrby(s) ==
    /\ pc[s] = "hincrby" /\ conn[s] = "open"
    /\ counts' = [counts EXCEPT ![ip[s]] = @ + 1]
    /\ \/ Goes(s, "hincrby", "publish") /\ UNCHANGED <<faults, conn>>
       \/ ReplyLost(s)
    /\ UNCHANGED <<up, sent, wire, sensors, actors>>

(* PUBLISH; ban() returns true when the answer arrives. *)
PublishBan(s) ==
    /\ pc[s] = "publish" /\ conn[s] = "open"
    /\ Publish(ip[s])
    /\ \/ Goes(s, "publish", "scan") /\ acked' = acked + 1 /\ UNCHANGED <<faults, conn>>
       \/ ReplyLost(s) /\ UNCHANGED acked
    /\ UNCHANGED <<up, counts, pings, ip, bans, actors>>

(* stop(), or a crash, and a new create(). The bans restored from the state *)
(* file are published again by f2b_jail_start, like new ones.               *)
SensorRestart(s) ==
    /\ pc[s] # "start" /\ faults < MaxFaults /\ faults' = faults + 1
    /\ pc' = [pc EXCEPT ![s] = "start"]
    /\ conn' = [conn EXCEPT ![s] = "none"]
    /\ pings' = [pings EXCEPT ![s] = 0]
    /\ UNCHANGED <<redis, wire, ip, bans, acked, actors>>

---------------------------------------------------------------------------
(* The actors. *)

(* redis_connect of the source subscribes as well: what was sent before is  *)
(* not seen, and what the old connection held is gone.                      *)
redis_subscribe(x) ==
    /\ redis_connect(x)
    /\ IF ~Usable(x) /\ Connected(x)
       THEN /\ wire' = [wire EXCEPT ![x] = <<>>]
            /\ since' = [since EXCEPT ![x] = Len(sent)]
       ELSE UNCHANGED <<wire, since>>

(* Mutant: only the call that connects goes on to look for a message. *)
ActorConnectOnly(x) ==
    /\ pc[x] \in {"start", "next"}
    /\ redis_subscribe(x)
    /\ pc' = [pc EXCEPT ![x] = IF pc[x] = "next" /\ ~Usable(x) /\ Connected(x)
                              THEN "reply" ELSE "next"]
    /\ UNCHANGED <<redis, faults, sensors, heard, banned, got, term>>

(* start() of the source, and the part of next() before redisGetReply. *)
ActorConnect(x) ==
    /\ pc[x] \in {"start", "next"}
    /\ redis_subscribe(x)
    /\ pc' = [pc EXCEPT ![x] = IF pc[x] = "next" /\ Connected(x) THEN "reply" ELSE "next"]
    /\ UNCHANGED <<redis, faults, sensors, heard, banned, got, term>>

(* Mutants: the newest message is removed, not the one that was read; what  *)
(* follows it goes with it.                                                 *)
TakeNewest(x) == [wire EXCEPT ![x] = SubSeq(@, 1, Len(@) - 1)]
TakeAll(x) == [wire EXCEPT ![x] = <<>>]
Take(x) == [wire EXCEPT ![x] = Tail(@)]

(* Mutant: one match too few is enough. *)
EnoughEarly(n) == (n + 1) * DefScore >= Banscore
Enough(n) == n * DefScore >= Banscore

(* redisGetReply has a message: next() returns the host it names, and       *)
(* f2b_jail_process prepends a match of DefScore, forgets those that are    *)
(* too old if the host is not banned, and bans it if it has enough.         *)
GetMessage(x) ==
    /\ wire[x] # <<>>
    /\ Goes(x, "reply", "next")
    /\ got' = [got EXCEPT ![x] = Append(@, Head(wire[x]))]
    /\ wire' = Take(x)
    /\ LET a == sent[Head(wire[x])] IN
       \/ /\ a \in banned[x]
          /\ heard' = [heard EXCEPT ![x][a] = @ + 1]
          /\ UNCHANGED <<banned, term>>
       \/ /\ a \notin banned[x]
          /\ \E young \in 0 .. heard[x][a] :
                IF Enough(young + 1)
                THEN /\ heard' = [heard EXCEPT ![x][a] = 0]
                     /\ banned' = [banned EXCEPT ![x] = @ \cup {a}]
                     /\ term' = [term EXCEPT ![x][a] = @ + 1]
                ELSE /\ heard' = [heard EXCEPT ![x][a] = young + 1]
                     /\ UNCHANGED <<banned, term>>
    /\ UNCHANGED <<redis, faults, conn, sensors, since>>

(* redisGetReply has none: after 10ms with no news the error is reset, and  *)
(* so it is for ever when the peer is gone without a word; the end of the   *)
(* connection is an error, and the next call connects again.                *)
TimedOut(x) == IF conn[x] = "broken" THEN [conn EXCEPT ![x] = "error"] ELSE conn

GetNothing(x) ==
    /\ wire[x] = <<>>
    /\ Goes(x, "reply", "next")
    /\ conn' = TimedOut(x)
    /\ UNCHANGED <<redis, wire, faults, sensors, actors>>

(* The ban of an actor ends there and nowhere else. *)
ActorRelease(x, a) ==
    /\ pc[x] = "next" /\ a \in banned[x]
    /\ banned' = [banned EXCEPT ![x] = @ \ {a}]
    /\ UNCHANGED <<redis, wire, faults, conn, pc, sensors, heard, got, since, term>>

(* stop() or a crash: the connection, the match histories and the bans go.  *)
ActorRestart(x) ==
    /\ pc[x] # "start" /\ faults < MaxFaults /\ faults' = faults + 1
    /\ pc' = [pc EXCEPT ![x] = "start"]
    /\ conn' = [conn EXCEPT ![x] = "none"]
    /\ wire' = [wire EXCEPT ![x] = <<>>]
    /\ heard' = [heard EXCEPT ![x] = [a \in Addr |-> 0]]
    /\ banned' = [banned EXCEPT ![x] = {}]
    /\ UNCHANGED <<redis, sensors, got, since, term>>

---------------------------------------------------------------------------
ActorStep(x) == ActorConnect(x) \/ GetMessage(x) \/ GetNothing(x)

SensorStep(s) ==
    SensorStart(s) \/ ping(s) \/ CommandFails(s) \/ Hincrby(s) \/ PublishBan(s)

Next ==
    \/ ServerDown \/ ServerUp \/ (\E j \in Jail : Break(j))
    \/ \E s \in Sensor :
          \/ SensorStep(s) \/ SensorRestart(s)
          \/ \E a \in Addr : BanBegin(s, a)
    \/ \E x \in Actor :
          ActorStep(x) \/ ActorRestart(x) \/ \E a \in Addr : ActorRelease(x, a)

Spec == Init /\ [][Next]_vars

(* Every jail keeps working, and one that tries again and again to connect  *)
(* to a server that runs succeeds some time: an attempt that fails changes  *)
(* nothing. The server, the faults and the bans are under no obligation.    *)
Fairness ==
    /\ \A s \in Sensor : WF_vars(SensorStep(s))
    /\ \A x \in Actor : WF_vars(ActorStep(x))

FairSpec == Spec /\ Fairness

---------------------------------------------------------------------------
TypeOK ==
    /\ up \in BOOLEAN /\ counts \in [Addr -> Nat] /\ sent \in Seq(Addr)
    /\ wire \in [Actor -> Seq(Nat)]
    /\ faults \in 0 .. MaxFaults
    /\ conn \in [Jail -> Conn]
    /\ pc \in [Jail -> {"start", "scan", "hincrby", "publish", "next", "reply"}]
    /\ pings \in [Sensor -> Nat] /\ ip \in [Sensor -> Addr]
    /\ bans \in 0 .. MaxBans /\ acked \in Nat
    /\ heard \in [Actor -> [Addr -> Nat]] /\ banned \in [Actor -> SUBSET Addr]
    /\ got \in [Actor -> Seq(Nat)] /\ since \in [Actor -> Nat]
    /\ term \in [Actor -> [Addr -> Nat]]

(* What the actors get is a feed of what the sensors published: reconnects, *)
(* restarts, lost answers and the buffers in between lose messages, but     *)
(* repeat and swap none.                                                    *)
F == INSTANCE Feed WITH Reader <- Actor, sent <- Len(sent), got <- got
FollowsFeed == F!Spec

Latest(x) == F!Latest(got[x])

(* The numbers i + 1 .. n in order. *)
Numbers(i, n) == [k \in 1 .. n - i |-> i + k]

(* As long as its connection holds, an actor misses nothing: what it has    *)
(* not got of the messages published since it subscribed is on its way.     *)
NothingMissed ==
    \A x \in Actor :
        conn[x] = "open" =>
            wire[x] = Numbers(IF Latest(x) > since[x] THEN Latest(x) ELSE since[x], Len(sent))

Messages(a) == Cardinality({n \in DOMAIN sent : sent[n] = a})

(* An actor bans a host once for every Banscore / DefScore messages about   *)
(* it at most: docs/configuration.md:184 promises a ban "as quick as        *)
(* possible" on one message, which with the default banscore takes five.    *)
BansAreEarned ==
    \A x \in Actor, a \in Addr : term[x][a] * Banscore <= Messages(a) * DefScore

(* The hash counts every message, and every ban the backend reported done   *)
(* was published, whatever broke between the two commands or their answers. *)
CountedAndPublished ==
    acked <= Len(sent) /\ \A a \in Addr : Messages(a) <= counts[a]

(* A message on its way to an actor is got by it, unless the connection     *)
(* does not hold.                                                           *)
Heard ==
    \A x \in Actor, n \in 1 .. MaxBans :
        (\E k \in DOMAIN wire[x] : wire[x][k] = n) ~> (Latest(x) >= n \/ conn[x] # "open")

(* Once the server stays up, every sensor is connected to it in the end,    *)
(* thanks to ping(), and every actor, unless its old connection was lost    *)
(* without a word: the source has nothing like ping().                      *)
Reconnected ==
    <>[]up => /\ \A s \in Sensor : <>[](conn[s] = "open")
              /\ \A x \in Actor : <>[](conn[x] \in {"open", "mute"})
=============================================================================

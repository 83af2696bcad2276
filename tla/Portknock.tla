----------------------------- MODULE Portknock -----------------------------
(***************************************************************************)
(* The source that waits for connections to ports nobody has a reason to   *)
(* use (src/sources/portknock.c).  The host that connects is the "line".   *)
(***************************************************************************)
EXTENDS Naturals, Sequences

CONSTANTS
    Port,
    Backlog         \* of listen(), 5 in the code

VARIABLES
    listener,   \* external: the jail whose socket listens on each port,
                \*   "free", or "leaked" for a socket nobody refers to any more
    queue,      \* external: connections that wait to be accepted
    refused     \* history: <<jail, port>> for ports that nobody had and that
                \*   could not be opened for the jail all the same

source == <<listener, queue, refused>>

SourceInit ==
    listener = [p \in Port |-> "free"] /\ queue = [p \in Port |-> 0] /\ refused = {}

(* External: somebody connects. *)
Knock(p) ==
    /\ listener[p] # "free" /\ queue[p] < Backlog
    /\ queue' = [queue EXCEPT ![p] = @ + 1]
    /\ UNCHANGED <<listener, refused>>

(* start() returns true whatever it cannot open: a port another socket      *)
(* listens on, or one for which getaddrinfo, socket, bind or listen fails   *)
(* for any other reason. Such a port stays silent until the next start.     *)
SourceStart(j, ports) ==
    LET free == {p \in ports : listener[p] = "free"}
    IN  \E opened \in SUBSET free :
            /\ listener' = [p \in Port |-> IF p \in opened THEN j ELSE listener[p]]
            /\ refused' = refused \cup ({j} \X (free \ opened))
            /\ UNCHANGED queue

Forgiven(S) == refused' = {e \in refused : e[1] \notin S}

Closed(S) ==
    /\ listener' = [p \in Port |-> IF listener[p] \in S THEN "free" ELSE listener[p]]
    /\ queue' = [p \in Port |-> IF listener[p] \in S THEN 0 ELSE queue[p]]
    /\ Forgiven(S)

(* Mutant: stop() leaves the sockets to destroy(). *)
StopLeaves(j) == UNCHANGED source

(* stop() closes the sockets. *)
SourceStop(j) == Closed({j})

(* destroy() frees the list of ports and closes nothing. *)
SourceDestroy(j) ==
    /\ listener' = [p \in Port |-> IF listener[p] = j THEN "leaked" ELSE listener[p]]
    /\ Forgiven({j})
    /\ UNCHANGED queue

(* Mutant: the last port of the list is not looked at. *)
AllButLast(j, ports) ==
    {k \in 1 .. Len(ports) - 1 : listener[ports[k]] = j /\ queue[ports[k]] > 0}

(* The ports on which a connection waits. *)
Pending(j, ports) == {k \in DOMAIN ports : listener[ports[k]] = j /\ queue[ports[k]] > 0}

(* next() looks through the ports from the first one at every call, for     *)
(* cfg->current stays where it is, and accepts the first connection.        *)
Accept(j, ports) ==
    \E k \in Pending(j, ports) :
        /\ \A l \in Pending(j, ports) : k <= l
        /\ queue' = [queue EXCEPT ![ports[k]] = @ - 1]
        /\ UNCHANGED <<listener, refused>>
=============================================================================

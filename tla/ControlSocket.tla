---------------------------- MODULE ControlSocket ----------------------------
(***************************************************************************)
(* The control socket (src/csocket.c) with its receive and send buffers    *)
(* (src/buf.c): clients connect, send lines in arbitrary pieces and hang   *)
(* up; f2b_csocket_poll accepts, reads, authenticates, runs commands and   *)
(* answers; events of the jails are broadcast in between.                  *)
(*                                                                         *)
(* A unit stands for a run of bytes; a line is the units before a "nl".    *)
(***************************************************************************)
EXTENDS Naturals, Sequences, FiniteSets

CONSTANTS
    Local,          \* clients of the unix socket
    Remote,         \* clients of the inet socket
    Nobody,         \* an empty slot
    Slots,          \* CSOCKET_MAX_CLIENTS
    RBuf, WBuf,     \* RBUF_SIZE and WBUF_SIZE, in units
    Lines,          \* the lines clients may send
    MayStop,        \* the daemon may shut down
    MaxLines,       \* bound: lines per client
    MaxEvents       \* bound: events broadcast by jails

(* What a line may be made of: the right password, a wrong one, `log events` *)
(* on and off, any other known command, anything else, a control character,  *)
(* a NUL.                                                                    *)
Word == {"auth", "wrong", "events", "noevents", "command", "junk", "binary", "nul"}
Client == Local \cup Remote

ASSUME SocketAssumption ==
    /\ Local \cap Remote = {} /\ Nobody \notin Client
    /\ Lines \subseteq Seq(Word)
    /\ {Slots, RBuf, WBuf} \subseteq Nat \ {0}
    /\ MayStop \in BOOLEAN /\ MaxLines \in Nat /\ MaxEvents \in Nat

VARIABLES
    net,        \* external: "away", "backlog", "open", "hungup" or "closed"
    line,       \* external: what is left to send of the current line
    wire,       \* external: units sent to the daemon and not received yet
    slot,       \* csock.clients
    conn,       \* the f2b_conn_t of each client
    pc, cnum,   \* where f2b_csocket_poll is, and the slot it looks at
    ready,      \* rfds: clients with something to receive
    pending,    \* rfds: listening sockets with a client in the backlog
    events,     \* number of events broadcast by jails
    sent,       \* history: lines each client began to send
    served,     \* history: lines extracted of each client
    ran,        \* history: which of these were run as commands
    said, heard,\* history: units put into the send buffer, and sent from it
    cause       \* history: why the daemon closed the connection

client == <<net, line, wire, sent>>
past == <<served, ran, said, heard, cause>>
vars == <<client, slot, conn, pc, cnum, ready, pending, events, past>>

NewConn(local) == [auth |-> local, events |-> FALSE, recv |-> <<>>, send |-> <<>>]

Init ==
    /\ net = [c \in Client |-> "away"]
    /\ line = [c \in Client |-> <<>>] /\ wire = [c \in Client |-> <<>>]
    /\ slot = [i \in 0 .. Slots - 1 |-> Nobody]
    /\ conn = [c \in Client |-> NewConn(FALSE)]
    /\ pc = "idle" /\ cnum = 0 /\ ready = {} /\ pending = {} /\ events = 0
    /\ sent = [c \in Client |-> <<>>] /\ served = [c \in Client |-> <<>>]
    /\ ran = [c \in Client |-> {}]
    /\ said = [c \in Client |-> <<>>] /\ heard = [c \in Client |-> <<>>]
    /\ cause = [c \in Client |-> "none"]

Held == {slot[i] : i \in 0 .. Slots - 1} \ {Nobody}

---------------------------------------------------------------------------
(* Clients. *)

Connect(c) ==
    /\ net[c] = "away" /\ net' = [net EXCEPT ![c] = "backlog"]
    /\ UNCHANGED <<line, wire, sent, slot, conn, pc, cnum, ready, pending, events, past>>

Put(c, units) ==
    /\ wire' = [wire EXCEPT ![c] = Append(@, Head(units))]
    /\ line' = [line EXCEPT ![c] = Tail(units)]

(* The first unit of a line, or the next one. *)
Send(c) ==
    /\ net[c] \in {"backlog", "open"}
    /\ \/ /\ line[c] = <<>> /\ Len(sent[c]) < MaxLines
          /\ \E l \in Lines : Put(c, Append(l, "nl")) /\ sent' = [sent EXCEPT ![c] = Append(@, l)]
       \/ line[c] # <<>> /\ Put(c, line[c]) /\ UNCHANGED sent
    /\ UNCHANGED <<net, slot, conn, pc, cnum, ready, pending, events, past>>

HangUp(c) ==
    /\ net[c] = "open" /\ net' = [net EXCEPT ![c] = "hungup"]
    /\ UNCHANGED <<line, wire, sent, slot, conn, pc, cnum, ready, pending, events, past>>

---------------------------------------------------------------------------
(* src/buf.c *)

(* Mutant: the size of the buffer is not looked at. *)
AppendAll(buf, units, size) == buf \o units
f2b_buf_append(buf, units, size) ==
    buf \o SubSeq(units, 1, IF Len(buf) + Len(units) > size THEN size - Len(buf) ELSE Len(units))

(* Mutant: what was not sent yet goes with what was sent. *)
SpliceAll(buf, len) == IF len = 0 THEN buf ELSE <<>>
f2b_buf_splice(buf, len) == SubSeq(buf, (IF Len(buf) <= len THEN Len(buf) ELSE len) + 1, Len(buf))

(* strstr() finds a delimiter that no NUL comes before. *)
HasLine(buf) ==
    \E i \in DOMAIN buf : buf[i] = "nl" /\ \A j \in 1 .. i - 1 : buf[j] # "nul"

(* Mutant: the line is shifted out and its delimiter left. *)
ExtractShort(buf) ==
    LET k == CHOOSE i \in DOMAIN buf : buf[i] = "nl" /\ \A j \in 1 .. i - 1 : buf[j] # "nl"
    IN [line |-> SubSeq(buf, 1, k - 1), rest |-> f2b_buf_splice(buf, IF k > 1 THEN k - 1 ELSE k)]

(* The first line, and what is left without it and its delimiter. *)
f2b_buf_extract(buf) ==
    LET k == CHOOSE i \in DOMAIN buf : buf[i] = "nl" /\ \A j \in 1 .. i - 1 : buf[j] # "nl"
    IN [line |-> SubSeq(buf, 1, k - 1), rest |-> f2b_buf_splice(buf, k)]

---------------------------------------------------------------------------
(* What the daemon says. *)

(* Connection records with units appended to the send buffers of Cs. *)
Say(cn, Cs, units) ==
    [c \in Client |->
        IF c \in Cs THEN [cn[c] EXCEPT !.send = f2b_buf_append(@, units, WBuf)] ELSE cn[c]]

(* What was appended, for the history. *)
Said(old, new) ==
    [c \in Client |-> said[c] \o SubSeq(new[c].send, Len(old[c].send) + 1, Len(new[c].send))]

Listeners(cn) == {c \in Held : cn[c].events}
f2b_csocket_event_broadcast(cn) == Say(cn, Listeners(cn), <<"!", "event", "nl">>)

(* An event of a jail, between two polls. *)
JailEvent ==
    /\ pc = "idle" /\ events < MaxEvents /\ events' = events + 1
    /\ conn' = f2b_csocket_event_broadcast(conn)
    /\ said' = Said(conn, conn')
    /\ UNCHANGED <<client, slot, pc, cnum, ready, pending, served, ran, heard, cause>>

---------------------------------------------------------------------------
(* f2b_csocket_poll: select; without news it returns. *)

Readable == {c \in Held : wire[c] # <<>> \/ net[c] = "hungup"}
Backlogs == {l \in {Local, Remote} : \E c \in l : net[c] = "backlog"}

Select ==
    /\ pc = "idle"
    /\ IF Readable # {} \/ Backlogs # {} \/ \E c \in Held : conn[c].send # <<>>
       THEN ready' = Readable /\ pending' = Backlogs /\ pc' = "accept"
       ELSE UNCHANGED <<ready, pending, pc>>
    /\ UNCHANGED <<client, slot, conn, cnum, events, past>>

(* A listening socket with a client: the search for a free slot leaves the  *)
(* slot number it was to set at 0. accept() may fail.                       *)
Accept(l) ==
    /\ pc = "accept" /\ l \in pending
    /\ pending' = pending \ {l}
    /\ \/ \E c \in l :
             /\ net[c] = "backlog" /\ net' = [net EXCEPT ![c] = "open"]
             /\ conn' = [conn EXCEPT ![c] = NewConn(c \in Local)]
             /\ slot' = [slot EXCEPT ![0] = c]
       \/ UNCHANGED <<net, conn, slot>>
    /\ UNCHANGED <<line, wire, sent, pc, cnum, ready, events, past>>

Accepted ==
    /\ pc = "accept" /\ pending = {}
    /\ pc' = "slot" /\ cnum' = 0
    /\ UNCHANGED <<client, slot, conn, ready, pending, events, past>>

---------------------------------------------------------------------------
(* f2b_csocket_poll: f2b_conn_process for each slot. *)

Current == slot[cnum]

NextSlot ==
    IF cnum + 1 < Slots THEN pc' = "slot" /\ cnum' = cnum + 1 ELSE pc' = "idle" /\ cnum' = 0

Visit ==
    /\ pc = "slot"
    /\ IF Current = Nobody THEN NextSlot
       ELSE pc' = (IF Current \in ready THEN "recv" ELSE "send") /\ cnum' = cnum
    /\ UNCHANGED <<client, slot, conn, ready, pending, events, past>>

(* The connection is closed and its slot is free again. *)
Drop(why) ==
    /\ net' = [net EXCEPT ![Current] = "closed"]
    /\ cause' = [cause EXCEPT ![Current] = why]
    /\ slot' = [slot EXCEPT ![cnum] = Nobody]
    /\ NextSlot

(* A control character in the units received, as far as they are looked at:  *)
(* up to the first NUL.                                                      *)
Refused(units) ==
    \E i \in DOMAIN units : units[i] = "binary" /\ \A j \in 1 .. i - 1 : units[j] # "nul"

(* recv() returns what is there and fits; 0 stands for the end of input. A   *)
(* NUL, and whatever is behind it, is kept like any other unit.              *)
Receive ==
    /\ pc = "recv"
    /\ LET c == Current
           avail == RBuf - Len(conn[c].recv)
           n == IF Len(wire[c]) < avail THEN Len(wire[c]) ELSE avail
           units == SubSeq(wire[c], 1, n)
       IN /\ wire' = [wire EXCEPT ![c] = SubSeq(@, n + 1, Len(@))]
          /\ IF n = 0
             THEN Drop("hungup") /\ UNCHANGED conn
             ELSE IF Refused(units)
             THEN Drop("binary") /\ UNCHANGED conn
             ELSE /\ conn' = [conn EXCEPT ![c].recv = f2b_buf_append(@, units, RBuf)]
                  /\ pc' = "lines" /\ UNCHANGED <<net, cause, slot, cnum>>
    /\ UNCHANGED <<line, sent, ready, pending, events, served, ran, said, heard>>

(* f2b_conn_check_auth and f2b_conn_events: the new flags, and the answer. *)
Auth(f, ok) ==
    IF f.auth THEN [f |-> f, answer |-> <<"already", "nl">>]
    ELSE IF ok THEN [f |-> [f EXCEPT !.auth = TRUE], answer |-> <<"ok", "nl">>]
    ELSE [f |-> f, answer |-> <<"unauthorized", "nl">>]

(* Mutant: a command needs no authorization. *)
MayRunAll(f, l) == l = <<"command">>
MayRun(f, l) == l = <<"command">> /\ f.auth

(* What a line does to the connection f, unless it is run as a command. *)
Handle(f, l) ==
    CASE l = <<"auth">>     -> Auth(f, TRUE)
      [] l = <<"wrong">>    -> Auth(f, FALSE)
      [] l = <<"events">>   -> [f |-> [f EXCEPT !.events = TRUE], answer |-> <<"events", "nl">>]
      [] l = <<"noevents">> -> [f |-> [f EXCEPT !.events = FALSE], answer |-> <<"events", "nl">>]
      [] OTHER -> [f |-> f, answer |-> IF f.auth THEN <<"unknown", "nl">>
                                       ELSE <<"unauthorized", "nl">>]

(* Mutant: one line is taken of what was received. *)
AfterLineOnce == "send"
AfterLine == "lines"

(* One turn of the loop over the lines received. A command may make a jail  *)
(* ban or release somebody, which is broadcast before the answer.           *)
HandleLine ==
    /\ pc = "lines" /\ HasLine(conn[Current].recv)
    /\ LET c == Current
           x == f2b_buf_extract(conn[c].recv)
           shifted == [conn EXCEPT ![c].recv = x.rest]
           done == Handle(shifted[c], x.line)
       IN /\ served' = [served EXCEPT ![c] = Append(@, x.line)]
          /\ IF x.line = <<>>
             THEN conn' = shifted /\ UNCHANGED ran
             ELSE IF MayRun(shifted[c], x.line)
             THEN /\ ran' = [ran EXCEPT ![c] = @ \cup {Len(served[c]) + 1}]
                  /\ \E cn \in {shifted, f2b_csocket_event_broadcast(shifted)} :
                        conn' = Say(cn, {c}, <<"done", "nl">>)
             ELSE /\ conn' = Say([shifted EXCEPT ![c] = done.f], {c}, done.answer)
                  /\ UNCHANGED ran
    /\ said' = Said(conn, conn') /\ pc' = AfterLine
    /\ UNCHANGED <<client, slot, cnum, ready, pending, events, heard, cause>>

(* Mutant: the buffer is taken for full one unit early. *)
OverflowsEarly(buf) == Len(buf) + 1 >= RBuf
Overflows(buf) == Len(buf) >= RBuf

LinesDone ==
    /\ pc = "lines" /\ ~HasLine(conn[Current].recv)
    /\ IF Overflows(conn[Current].recv)
       THEN Drop("overflow")
       ELSE pc' = "send" /\ UNCHANGED <<net, slot, cnum, cause>>
    /\ UNCHANGED <<line, wire, sent, conn, ready, pending, events, served, ran, said, heard>>

(* send() takes any part of the buffer, or nothing (EAGAIN), or fails once  *)
(* the client hung up.                                                      *)
Answer ==
    /\ pc = "send"
    /\ LET c == Current IN
       \/ \E n \in 0 .. Len(conn[c].send) :
             /\ conn' = [conn EXCEPT ![c].send = f2b_buf_splice(@, n)]
             /\ heard' = [heard EXCEPT ![c] = @ \o SubSeq(conn[c].send, 1, n)]
             /\ NextSlot /\ UNCHANGED <<net, slot, cause>>
       \/ /\ conn[c].send # <<>> /\ net[c] = "hungup"
          /\ Drop("hungup") /\ UNCHANGED <<conn, heard>>
    /\ UNCHANGED <<line, wire, sent, ready, pending, events, served, ran, said>>

f2b_csocket_destroy ==
    /\ MayStop /\ pc = "idle" /\ pc' = "off"
    /\ slot' = [i \in 0 .. Slots - 1 |-> Nobody]
    /\ net' = [c \in Client |-> "closed"]
    /\ UNCHANGED <<line, wire, sent, conn, cnum, ready, pending, events, past>>

Ended == pc = "off" /\ UNCHANGED vars

Poll ==
    \/ Select \/ (\E l \in {Local, Remote} : Accept(l)) \/ Accepted \/ Visit
    \/ Receive \/ HandleLine \/ LinesDone \/ Answer

Next ==
    \/ Poll \/ JailEvent \/ f2b_csocket_destroy \/ Ended
    \/ \E c \in Client : Connect(c) \/ Send(c) \/ HangUp(c)

Spec == Init /\ [][Next]_vars

(* The daemon polls the socket in each turn of its main loop, and accept()  *)
(* succeeds some time. Clients finish the lines they begin.                 *)
Fairness ==
    /\ WF_vars(Poll)
    /\ \A l \in {Local, Remote} : SF_vars(Accept(l) /\ net' # net)
    /\ \A c \in Client : WF_vars(line[c] # <<>> /\ Send(c))

FairSpec == Spec /\ Fairness

---------------------------------------------------------------------------
TypeOK ==
    /\ net \in [Client -> {"away", "backlog", "open", "hungup", "closed"}]
    /\ \A c \in Client :
          /\ line[c] \in Seq(Word \cup {"nl"}) /\ wire[c] \in Seq(Word \cup {"nl"})
          /\ conn[c].auth \in BOOLEAN /\ conn[c].events \in BOOLEAN
          /\ Len(conn[c].recv) <= RBuf /\ Len(conn[c].send) <= WBuf
          /\ sent[c] \in Seq(Lines) /\ ran[c] \subseteq 1 .. Len(served[c])
    /\ slot \in [0 .. Slots - 1 -> Client \cup {Nobody}]
    /\ pc \in {"idle", "accept", "slot", "recv", "lines", "send", "off"}
    /\ cnum \in 0 .. Slots - 1 /\ ready \subseteq Client
    /\ pending \subseteq {Local, Remote} /\ events \in 0 .. MaxEvents
    /\ (pc \in {"recv", "lines", "send"} => Current # Nobody)
    /\ cause \in [Client -> {"none", "hungup", "binary", "overflow"}]

(* The lines the daemon serves are those the client sent, whole and in the  *)
(* order it sent them, however they were cut into pieces on the way.        *)
InOrder ==
    \A c \in Client :
        Len(served[c]) <= Len(sent[c]) /\ \A i \in DOMAIN served[c] : served[c][i] = sent[c][i]

(* A command is run for a client of the unix socket, or for one that gave   *)
(* the right password in an earlier line of the same connection.            *)
RunsAuthorized ==
    \A c \in Remote : \A i \in ran[c] : \E k \in 1 .. i - 1 : sent[c][k] = <<"auth">>

(* The client is sent, in order, exactly what was put into its buffer: a    *)
(* send() that takes a part of it loses and repeats nothing.                *)
AnswersInOrder == \A c \in Client : heard[c] \o conn[c].send = said[c]

HasNul(l) == \E i \in DOMAIN l : l[i] = "nul"

(* A client is dropped for an overflow only if the line that is its turn,    *)
(* with its delimiter, does not fit into the buffer, or has a NUL, behind    *)
(* which no delimiter is found; many short lines at once do not fill it.     *)
OverflowIsLongLine ==
    \A c \in Client : cause[c] = "overflow" =>
        /\ Len(served[c]) < Len(sent[c])
        /\ LET l == sent[c][Len(served[c]) + 1] IN Len(l) >= RBuf \/ HasNul(l)

(* Each line of a client that stays connected is served, unless there is a   *)
(* NUL in it or in an earlier one. With one client no other can take its     *)
(* slot.                                                                     *)
LinesServed ==
    \A c \in Client : \A n \in 1 .. MaxLines :
        (Len(sent[c]) >= n /\ net[c] = "open" /\ \A i \in 1 .. n : ~HasNul(sent[c][i]))
            ~> (Len(served[c]) >= n \/ net[c] \in {"hungup", "closed"})

---------------------------------------------------------------------------
(* A comment that the code does not live up to.                             *)

(* csocket.c:475: a new connection gets a free slot, so an open one keeps   *)
(* its own.                                                                 *)
OpenIsHeld == \A c \in Client : net[c] = "open" => c \in Held
=============================================================================

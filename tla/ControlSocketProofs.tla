------------------------- MODULE ControlSocketProofs -------------------------
(***************************************************************************)
(* Theorems about ControlSocket, for any number of clients and slots, any  *)
(* sizes of the buffers and any lines.                                     *)
(***************************************************************************)
EXTENDS ControlSocket, SequenceTheorems, WellFoundedInduction, TLAPS

Unit == Word \cup {"nl"}
Reply == {"!", "event", "already", "ok", "unauthorized", "events", "unknown", "done", "nl"}

Connection == [auth : BOOLEAN, events : BOOLEAN, recv : Seq(Unit), send : Seq(Reply)]

(* The types of all variables. *)
Types ==
    /\ net \in [Client -> {"away", "backlog", "open", "hungup", "closed"}]
    /\ line \in [Client -> Seq(Unit)] /\ wire \in [Client -> Seq(Unit)]
    /\ sent \in [Client -> Seq(Lines)] /\ served \in [Client -> Seq(Seq(Unit))]
    /\ conn \in [Client -> Connection] /\ ran \in [Client -> SUBSET Nat]
    /\ said \in [Client -> Seq(Reply)] /\ heard \in [Client -> Seq(Reply)]
    /\ cause \in [Client -> {"none", "hungup", "binary", "overflow"}]
    /\ slot \in [0 .. Slots - 1 -> Client \cup {Nobody}]
    /\ pc \in {"idle", "accept", "slot", "recv", "lines", "send", "off"}
    /\ cnum \in 0 .. Slots - 1 /\ ready \subseteq Client
    /\ pending \subseteq {Local, Remote} /\ events \in 0 .. MaxEvents

(* The buffers keep their size, and a command is one of the lines served. *)
SizesOK ==
    \A c \in Client :
        /\ Len(conn[c].recv) <= RBuf /\ Len(conn[c].send) <= WBuf
        /\ ran[c] \subseteq 1 .. Len(served[c])

(* A slot holds a client that is connected, no two hold the same one, and   *)
(* the poll is in the middle of a slot only if it is taken.                 *)
SlotsOK ==
    /\ \A i \in 0 .. Slots - 1 : slot[i] # Nobody => net[slot[i]] \in {"open", "hungup"}
    /\ \A i, j \in 0 .. Slots - 1 : slot[i] = slot[j] /\ slot[i] # Nobody => i = j
    /\ pc \in {"recv", "lines", "send"} => Current # Nobody

(* Nothing was received from or said to a client that is not connected yet. *)
FreshOK ==
    \A c \in Client :
        net[c] \in {"away", "backlog"} =>
            /\ conn[c] = NewConn(FALSE) /\ served[c] = <<>> /\ ran[c] = {}
            /\ said[c] = <<>> /\ heard[c] = <<>>

(* What a client sent and the daemon did not serve yet. *)
Stream(c) == conn[c].recv \o wire[c] \o line[c]

(* A stream s holds the lines of ls behind the first m, whole and in order: *)
(* the k-th line ends where at[k] says.                                     *)
Laid(s, ls, m, at) ==
    /\ m \in 0 .. Len(ls) /\ at \in [0 .. Len(ls) -> Nat]
    /\ at[Len(ls)] = at[m] + Len(s)
    /\ \A j, k \in 0 .. Len(ls) : j <= k => at[j] <= at[k]
    /\ \A k \in 1 .. Len(ls) : at[k] = at[k - 1] + Len(ls[k]) + 1
    /\ \A k \in m + 1 .. Len(ls) :
          /\ s[at[k] - at[m]] = "nl"
          /\ \A i \in 1 .. Len(ls[k]) : s[at[k - 1] - at[m] + i] = ls[k][i]

(* The stream of a client that is not dropped holds what was not served. *)
StreamOK ==
    \A c \in Client :
        net[c] # "closed" =>
            \E at \in [0 .. Len(sent[c]) -> Nat] :
                Laid(Stream(c), sent[c], Len(served[c]), at)

(* A client of the inet socket is authorized by a line that was served. *)
AuthOK ==
    \A c \in Remote : conn[c].auth => \E k \in DOMAIN served[c] : served[c][k] = <<"auth">>

(* A client that was dropped is gone. *)
DroppedOK == \A c \in Client : cause[c] # "none" => net[c] = "closed"

SocketInv ==
    /\ DroppedOK
    /\ Types /\ SizesOK /\ SlotsOK /\ FreshOK /\ AnswersInOrder
    /\ StreamOK /\ InOrder /\ AuthOK /\ RunsAuthorized /\ OverflowIsLongLine

---------------------------------------------------------------------------
(* Lemmas about the buffers of src/buf.c. *)

(* A sequence is its two parts. *)
LEMMA Cut ==
    ASSUME NEW S, NEW s \in Seq(S), NEW n \in 0 .. Len(s)
    PROVE  /\ SubSeq(s, 1, n) \in Seq(S) /\ Len(SubSeq(s, 1, n)) = n
           /\ \A i \in 1 .. n : SubSeq(s, 1, n)[i] = s[i]
           /\ SubSeq(s, n + 1, Len(s)) \in Seq(S) /\ Len(SubSeq(s, n + 1, Len(s))) = Len(s) - n
           /\ \A i \in 1 .. Len(s) - n : SubSeq(s, n + 1, Len(s))[i] = s[n + i]
           /\ SubSeq(s, 1, n) \o SubSeq(s, n + 1, Len(s)) = s
  <1>1. n \in Nat /\ Len(s) \in Nat /\ \A i \in 1 .. Len(s) : s[i] \in S
    OBVIOUS
  <1>2. /\ SubSeq(s, 1, n) \in Seq(S) /\ Len(SubSeq(s, 1, n)) = n
        /\ \A i \in 1 .. n : SubSeq(s, 1, n)[i] = s[i]
    BY <1>1, SubSeqProperties
  <1>3. /\ SubSeq(s, n + 1, Len(s)) \in Seq(S) /\ Len(SubSeq(s, n + 1, Len(s))) = Len(s) - n
        /\ \A i \in 1 .. Len(s) - n : SubSeq(s, n + 1, Len(s))[i] = s[n + i]
    BY <1>1, SubSeqProperties
  <1>4. 1 \in 1 .. Len(s) + 1 /\ n \in 1 - 1 .. Len(s) /\ Len(s) \in n .. Len(s)
    BY <1>1
  <1>5. SubSeq(s, 1, n) \o SubSeq(s, n + 1, Len(s)) = SubSeq(s, 1, Len(s))
    BY <1>4, ConcatAdjacentSubSeq
  <1>6. SubSeq(s, 1, Len(s)) = s
    BY SubSeqFull
  <1> QED
    BY <1>2, <1>3, <1>5, <1>6

(* A suffix of a concatenation. *)
LEMMA Suffix ==
    ASSUME NEW S, NEW s \in Seq(S), NEW t \in Seq(S)
    PROVE  SubSeq(s \o t, Len(s) + 1, Len(s \o t)) = t
  <1>1. /\ s \o t \in Seq(S) /\ Len(s \o t) = Len(s) + Len(t)
        /\ \A i \in 1 .. Len(t) : (s \o t)[Len(s) + i] = t[i]
    BY ConcatProperties
  <1> DEFINE u == SubSeq(s \o t, Len(s) + 1, Len(s \o t))
  <1>2. u \in Seq(S) /\ Len(u) = Len(t) /\ \A i \in 1 .. Len(t) : u[i] = (s \o t)[Len(s) + i]
    BY <1>1, Cut
  <1> QED
    BY <1>1, <1>2, SeqEqual

(* f2b_buf_append puts units behind what the buffer has: as many as fit,    *)
(* all of them if there is room.                                            *)
LEMMA AppendFits ==
    ASSUME NEW S, NEW buf \in Seq(S), NEW units \in Seq(S), NEW size \in Nat,
           Len(buf) + Len(units) <= size
    PROVE  f2b_buf_append(buf, units, size) = buf \o units
  <1>1. (IF Len(buf) + Len(units) > size THEN size - Len(buf) ELSE Len(units)) = Len(units)
    OBVIOUS
  <1>2. SubSeq(units, 1, Len(units)) = units
    BY SubSeqFull
  <1> QED
    BY <1>1, <1>2 DEF f2b_buf_append

LEMMA Appended ==
    \A buf, units \in Seq(Reply) :
        Len(buf) <= WBuf =>
            /\ \E t \in Seq(Reply) : f2b_buf_append(buf, units, WBuf) = buf \o t
            /\ Len(f2b_buf_append(buf, units, WBuf)) <= WBuf
  <1> SUFFICES ASSUME NEW buf \in Seq(Reply), NEW units \in Seq(Reply), Len(buf) <= WBuf
               PROVE  /\ \E t \in Seq(Reply) : f2b_buf_append(buf, units, WBuf) = buf \o t
                      /\ Len(f2b_buf_append(buf, units, WBuf)) <= WBuf
    OBVIOUS
  <1> DEFINE n == IF Len(buf) + Len(units) > WBuf THEN WBuf - Len(buf) ELSE Len(units)
             t == SubSeq(units, 1, n)
  <1>1. WBuf \in Nat
    BY SocketAssumption
  <1>2. n \in 0 .. Len(units) /\ Len(buf) + n <= WBuf
    BY <1>1
  <1>3. t \in Seq(Reply) /\ Len(t) = n
    BY <1>2, Cut
  <1>4. f2b_buf_append(buf, units, WBuf) = buf \o t
    BY DEF f2b_buf_append
  <1> HIDE DEF t, n
  <1>5. Len(buf \o t) = Len(buf) + n
    BY <1>3
  <1> QED
    BY <1>2, <1>3, <1>4, <1>5

(* f2b_buf_splice takes units from the front. *)
LEMMA Spliced ==
    ASSUME NEW S, NEW buf \in Seq(S), NEW n \in 0 .. Len(buf)
    PROVE  f2b_buf_splice(buf, n) = SubSeq(buf, n + 1, Len(buf))
  <1>1. (IF Len(buf) <= n THEN Len(buf) ELSE n) = n
    OBVIOUS
  <1> QED
    BY <1>1 DEF f2b_buf_splice

LEMMA Least ==
    ASSUME NEW T \in SUBSET Nat, T # {}
    PROVE  \E k \in T : \A i \in T : k <= i
  <1> DEFINE R == OpToRel(<, Nat)
  <1>1. IsWellFoundedOn(R, Nat)
    BY NatLessThanWellFounded
  <1>2. \A x, y \in T : y < x => <<y, x>> \in R
    BY DEF OpToRel
  <1> HIDE DEF R
  <1>3. PICK x \in T : \A y \in T : <<y, x>> \notin R
    BY <1>1, WFMin
  <1>4. \A y \in T : ~(y < x) /\ x \in Nat /\ y \in Nat
    BY <1>2, <1>3
  <1> QED
    BY <1>3, <1>4

(* f2b_buf_extract finds the first delimiter: what is before it is the      *)
(* line, what is behind it the rest.                                        *)
LEMMA FirstLine ==
    ASSUME NEW buf \in Seq(Unit), HasLine(buf)
    PROVE  \E k \in 1 .. Len(buf) :
              /\ buf[k] = "nl" /\ \A j \in 1 .. k - 1 : buf[j] # "nl"
              /\ f2b_buf_extract(buf).line = SubSeq(buf, 1, k - 1)
              /\ f2b_buf_extract(buf).rest = SubSeq(buf, k + 1, Len(buf))
  <1> DEFINE First(k) == buf[k] = "nl" /\ \A j \in 1 .. k - 1 : buf[j] # "nl"
             T == {i \in DOMAIN buf : buf[i] = "nl"}
             e == CHOOSE i \in DOMAIN buf : First(i)
  <1>1. DOMAIN buf = 1 .. Len(buf) /\ Len(buf) \in Nat
    OBVIOUS
  <1>2. T # {} /\ T \in SUBSET Nat
    BY <1>1 DEF HasLine
  <1>3. PICK k \in T : \A i \in T : k <= i
    BY <1>2, Least
  <1>4. k \in DOMAIN buf /\ First(k)
    BY <1>1, <1>3
  <1>5. e \in DOMAIN buf /\ First(e)
    BY <1>4
  <1>6. f2b_buf_extract(buf) = [line |-> SubSeq(buf, 1, e - 1), rest |-> f2b_buf_splice(buf, e)]
    BY DEF f2b_buf_extract
  <1> HIDE DEF e
  <1>7. f2b_buf_splice(buf, e) = SubSeq(buf, e + 1, Len(buf))
    BY <1>1, <1>5, Spliced
  <1>8. /\ f2b_buf_extract(buf).line = SubSeq(buf, 1, e - 1)
        /\ f2b_buf_extract(buf).rest = SubSeq(buf, e + 1, Len(buf))
    <2> DEFINE l == SubSeq(buf, 1, e - 1)
               r == f2b_buf_splice(buf, e)
    <2>1. [line |-> l, rest |-> r].line = l /\ [line |-> l, rest |-> r].rest = r
      OBVIOUS
    <2> QED
      BY <1>6, <1>7, <2>1
  <1>9. e \in 1 .. Len(buf)
    BY <1>1, <1>5
  <1> QED
    BY <1>5, <1>8, <1>9

---------------------------------------------------------------------------
(* What the daemon says. *)

(* Each send buffer has what it had, and maybe more behind it, in its size. *)
SaysMore(new, old) ==
    \A c \in Client :
        /\ Len(new[c].send) <= WBuf
        /\ \E t \in Seq(Reply) : new[c].send = old[c].send \o t

LEMMA SocketConstants ==
    /\ Slots \in Nat /\ Slots > 0 /\ RBuf \in Nat /\ RBuf > 0 /\ WBuf \in Nat
    /\ Lines \subseteq Seq(Word) /\ Nobody \notin Client /\ MaxEvents \in Nat
    /\ Local \subseteq Client /\ Remote \subseteq Client /\ Local \cap Remote = {}
  BY SocketAssumption DEF Client

LEMMA SpeechAssociative ==
    \A s, t, u \in Seq(Reply) : s \o t \in Seq(Reply) /\ (s \o t) \o u = s \o (t \o u)
  OBVIOUS

LEMMA SaysMoreRefl ==
    ASSUME NEW old \in [Client -> Connection], NEW new \in [Client -> Connection],
           \A c \in Client : Len(old[c].send) <= WBuf,
           \A c \in Client : new[c].send = old[c].send
    PROVE  SaysMore(new, old)
  <1> SUFFICES ASSUME NEW c \in Client
               PROVE  Len(new[c].send) <= WBuf
                      /\ \E t \in Seq(Reply) : new[c].send = old[c].send \o t
    BY DEF SaysMore
  <1>1. old[c].send \in Seq(Reply)
    BY DEF Connection
  <1>2. <<>> \in Seq(Reply) /\ old[c].send \o <<>> = old[c].send
    BY <1>1, ConcatEmptySeq
  <1> QED
    BY <1>2

LEMMA SaysMoreTrans ==
    ASSUME NEW a \in [Client -> Connection], NEW b \in [Client -> Connection],
           NEW d \in [Client -> Connection], SaysMore(b, a), SaysMore(d, b)
    PROVE  SaysMore(d, a)
  <1> SUFFICES ASSUME NEW c \in Client
               PROVE  Len(d[c].send) <= WBuf
                      /\ \E t \in Seq(Reply) : d[c].send = a[c].send \o t
    BY DEF SaysMore
  <1>1. PICK t \in Seq(Reply) : b[c].send = a[c].send \o t
    BY DEF SaysMore
  <1>2. PICK u \in Seq(Reply) : d[c].send = b[c].send \o u
    BY DEF SaysMore
  <1>3. a[c].send \in Seq(Reply)
    BY DEF Connection
  <1>4. /\ (a[c].send \o t) \o u = a[c].send \o (t \o u) /\ t \o u \in Seq(Reply)
    BY <1>3, SpeechAssociative
  <1>5. d[c].send = a[c].send \o (t \o u)
    BY <1>1, <1>2, <1>4
  <1> QED
    BY <1>4, <1>5 DEF SaysMore

(* Say touches nothing but the send buffers of Cs. *)
LEMMA Says ==
    ASSUME NEW cn \in [Client -> Connection], \A c \in Client : Len(cn[c].send) <= WBuf,
           NEW Cs, NEW units \in Seq(Reply)
    PROVE  /\ Say(cn, Cs, units) \in [Client -> Connection]
           /\ \A c \in Client \ Cs : Say(cn, Cs, units)[c] = cn[c]
           /\ \A c \in Client : /\ Say(cn, Cs, units)[c].recv = cn[c].recv
                                /\ Say(cn, Cs, units)[c].auth = cn[c].auth
           /\ SaysMore(Say(cn, Cs, units), cn)
  <1> DEFINE new == Say(cn, Cs, units)
             buf(c) == f2b_buf_append(cn[c].send, units, WBuf)
  <1>1. new = [c \in Client |-> IF c \in Cs THEN [cn[c] EXCEPT !.send = buf(c)] ELSE cn[c]]
    BY DEF Say
  <1>2. ASSUME NEW c \in Client
        PROVE  /\ cn[c] \in Connection /\ buf(c) \in Seq(Reply) /\ Len(buf(c)) <= WBuf
               /\ \E t \in Seq(Reply) : buf(c) = cn[c].send \o t
    <2>1. cn[c] \in Connection /\ cn[c].send \in Seq(Reply)
      BY DEF Connection
    <2>2. PICK t \in Seq(Reply) : buf(c) = cn[c].send \o t
      BY <2>1, Appended
    <2>3. buf(c) \in Seq(Reply)
      BY <2>1, <2>2, ConcatProperties
    <2>4. Len(buf(c)) <= WBuf
      BY <2>1, Appended
    <2> QED
      BY <2>1, <2>2, <2>3, <2>4
  <1> HIDE DEF buf
  <1>3. ASSUME NEW c \in Client
        PROVE  /\ new[c] \in Connection /\ new[c].recv = cn[c].recv /\ new[c].auth = cn[c].auth
               /\ new[c].send = IF c \in Cs THEN buf(c) ELSE cn[c].send
    <2>1. CASE c \in Cs
      <3>1. new[c] = [cn[c] EXCEPT !.send = buf(c)]
        BY <1>1, <2>1
      <3> QED
        BY <1>2, <2>1, <3>1 DEF Connection
    <2>2. CASE c \notin Cs
      <3>1. new[c] = cn[c]
        BY <1>1, <2>2
      <3> QED
        BY <1>2, <2>2, <3>1
    <2> QED
      BY <2>1, <2>2
  <1>4. new \in [Client -> Connection]
    <2>1. new = [c \in Client |-> new[c]]
      BY <1>1
    <2> HIDE DEF new
    <2> QED
      BY <1>3, <2>1
  <1>5. \A c \in Client \ Cs : new[c] = cn[c]
    BY <1>1
  <1>6. SaysMore(new, cn)
    <2> SUFFICES ASSUME NEW c \in Client
                 PROVE  Len(new[c].send) <= WBuf
                        /\ \E t \in Seq(Reply) : new[c].send = cn[c].send \o t
      BY DEF SaysMore
    <2>1. CASE c \in Cs
      BY <1>2, <1>3, <2>1
    <2>2. CASE c \notin Cs
      <3>1. cn[c].send \in Seq(Reply) /\ new[c].send = cn[c].send
        BY <1>3, <2>2 DEF Connection
      <3>2. <<>> \in Seq(Reply) /\ cn[c].send \o <<>> = cn[c].send
        BY <3>1, ConcatEmptySeq
      <3> QED
        BY <3>1, <3>2
    <2> QED
      BY <2>1, <2>2
  <1> QED
    BY <1>3, <1>4, <1>5, <1>6

(* The history gets exactly what the buffers got. *)
LEMMA SaidMore ==
    ASSUME Types, conn' \in [Client -> Connection], SaysMore(conn', conn),
           said' = Said(conn, conn'), UNCHANGED heard, AnswersInOrder
    PROVE  said' \in [Client -> Seq(Reply)] /\ AnswersInOrder'
  <1>1. ASSUME NEW c \in Client
        PROVE  said'[c] \in Seq(Reply) /\ heard'[c] \o conn'[c].send = said'[c]
    <2>1. /\ conn[c].send \in Seq(Reply) /\ conn'[c].send \in Seq(Reply)
          /\ said[c] \in Seq(Reply) /\ heard[c] \in Seq(Reply)
      BY DEF Types, Connection
    <2>2. PICK t \in Seq(Reply) : conn'[c].send = conn[c].send \o t
      BY DEF SaysMore
    <2>3. SubSeq(conn'[c].send, Len(conn[c].send) + 1, Len(conn'[c].send)) = t
      BY <2>1, <2>2, Suffix
    <2>4. said'[c] = said[c] \o t
      BY <2>3 DEF Said
    <2>5. heard[c] \o (conn[c].send \o t) = (heard[c] \o conn[c].send) \o t
      BY <2>1, SpeechAssociative
    <2>6. said[c] = heard[c] \o conn[c].send /\ heard'[c] = heard[c]
      BY DEF AnswersInOrder
    <2>7. heard'[c] \o conn'[c].send = said'[c]
      BY <2>2, <2>4, <2>5, <2>6
    <2> QED
      BY <2>1, <2>4, <2>7, SpeechAssociative
  <1>2. said' = [c \in Client |-> said'[c]]
    BY DEF Said
  <1> QED
    BY <1>1, <1>2 DEF AnswersInOrder

---------------------------------------------------------------------------
(* What the steps that speak do to the connections. *)

(* An event reaches the listeners that hold a slot, and changes only their  *)
(* send buffers.                                                            *)
LEMMA Broadcast ==
    ASSUME NEW cn \in [Client -> Connection], \A c \in Client : Len(cn[c].send) <= WBuf
    PROVE  LET new == f2b_csocket_event_broadcast(cn)
           IN /\ new \in [Client -> Connection] /\ SaysMore(new, cn)
              /\ \A c \in Client \ Held : new[c] = cn[c]
              /\ \A c \in Client : new[c].recv = cn[c].recv /\ new[c].auth = cn[c].auth
  <1>1. <<"!", "event", "nl">> \in Seq(Reply)
    BY DEF Reply
  <1>2. Client \ Held \subseteq Client \ Listeners(cn)
    BY DEF Listeners
  <1> DEFINE Cs == Listeners(cn)
             w == <<"!", "event", "nl">>
             new == Say(cn, Cs, w)
  <1>w. w \in Seq(Reply)
    BY <1>1
  <1> HIDE DEF Cs, w
  <1>3. /\ new \in [Client -> Connection] /\ SaysMore(new, cn)
        /\ \A c \in Client \ Cs : new[c] = cn[c]
        /\ \A c \in Client : new[c].recv = cn[c].recv /\ new[c].auth = cn[c].auth
    BY <1>w, Says
  <1>4. f2b_csocket_event_broadcast(cn) = new
    BY DEF f2b_csocket_event_broadcast, Cs, w
  <1> HIDE DEF new
  <1> QED
    BY <1>2, <1>3, <1>4 DEF Cs

LEMMA JailEventSays ==
    ASSUME Types, SizesOK, JailEvent
    PROVE  /\ conn' \in [Client -> Connection] /\ SaysMore(conn', conn)
           /\ \A c \in Client \ Held : conn'[c] = conn[c]
           /\ \A c \in Client : conn'[c].recv = conn[c].recv /\ conn'[c].auth = conn[c].auth
           /\ said' = Said(conn, conn')
  <1>1. conn \in [Client -> Connection] /\ \A c \in Client : Len(conn[c].send) <= WBuf
    BY DEF Types, SizesOK
  <1>2. conn' = f2b_csocket_event_broadcast(conn) /\ said' = Said(conn, conn')
    BY DEF JailEvent
  <1> QED
    BY <1>1, <1>2, Broadcast

(* What a line does to the flags of a connection, and the answer. *)
LEMMA FieldsOfOutcome ==
    ASSUME NEW g, NEW w
    PROVE  [f |-> g, answer |-> w].f = g /\ [f |-> g, answer |-> w].answer = w
  OBVIOUS

LEMMA HandleType ==
    ASSUME NEW f \in Connection, NEW l
    PROVE  \E g \in Connection, w \in Seq(Reply) :
              /\ Handle(f, l) = [f |-> g, answer |-> w]
              /\ g.recv = f.recv /\ g.send = f.send
              /\ g.auth => f.auth \/ l = <<"auth">>
  <1> DEFINE Outcome(g, w) ==
         /\ g \in Connection /\ w \in Seq(Reply)
         /\ Handle(f, l) = [f |-> g, answer |-> w]
         /\ g.recv = f.recv /\ g.send = f.send
         /\ g.auth => f.auth \/ l = <<"auth">>
  <1>1. /\ <<"already", "nl">> \in Seq(Reply) /\ <<"ok", "nl">> \in Seq(Reply)
        /\ <<"unauthorized", "nl">> \in Seq(Reply) /\ <<"unknown", "nl">> \in Seq(Reply)
        /\ <<"events", "nl">> \in Seq(Reply)
    BY DEF Reply
  <1>2. ASSUME NEW b \in BOOLEAN
        PROVE  /\ [f EXCEPT !.auth = b] \in Connection /\ [f EXCEPT !.events = b] \in Connection
               /\ [f EXCEPT !.auth = b].recv = f.recv /\ [f EXCEPT !.auth = b].send = f.send
               /\ [f EXCEPT !.events = b].recv = f.recv /\ [f EXCEPT !.events = b].send = f.send
               /\ [f EXCEPT !.events = b].auth = f.auth
    BY DEF Connection
  <1>3. CASE l = <<"auth">>
    <2>1. Handle(f, l) = Auth(f, TRUE)
      BY <1>3 DEF Handle
    <2>2. CASE f.auth
      <3>1. Outcome(f, <<"already", "nl">>)
        BY <1>1, <2>1, <2>2 DEF Auth
      <3> QED
        BY <3>1
    <2>3. CASE ~f.auth
      <3>1. Outcome([f EXCEPT !.auth = TRUE], <<"ok", "nl">>)
        BY <1>1, <1>2, <1>3, <2>1, <2>3 DEF Auth
      <3> QED
        BY <3>1
    <2> QED
      BY <2>2, <2>3
  <1>4. CASE l # <<"auth">> /\ l = <<"wrong">>
    <2>1. Handle(f, l) = Auth(f, FALSE)
      BY <1>4 DEF Handle
    <2>2. Outcome(f, <<"already", "nl">>) \/ Outcome(f, <<"unauthorized", "nl">>)
      BY <1>1, <2>1 DEF Auth
    <2> QED
      BY <2>2
  <1>5. CASE l \notin {<<"auth">>, <<"wrong">>} /\ l = <<"events">>
    <2>1. Handle(f, l) = [f |-> [f EXCEPT !.events = TRUE], answer |-> <<"events", "nl">>]
      BY <1>5 DEF Handle
    <2>2. Outcome([f EXCEPT !.events = TRUE], <<"events", "nl">>)
      BY <1>1, <1>2, <2>1
    <2> QED
      BY <2>2
  <1>6. CASE l \notin {<<"auth">>, <<"wrong">>, <<"events">>} /\ l = <<"noevents">>
    <2>1. Handle(f, l) = [f |-> [f EXCEPT !.events = FALSE], answer |-> <<"events", "nl">>]
      BY <1>6 DEF Handle
    <2>2. Outcome([f EXCEPT !.events = FALSE], <<"events", "nl">>)
      BY <1>1, <1>2, <2>1
    <2> QED
      BY <2>2
  <1>7. CASE l \notin {<<"auth">>, <<"wrong">>, <<"events">>, <<"noevents">>}
    <2>1. Handle(f, l) = [f |-> f, answer |-> IF f.auth THEN <<"unknown", "nl">>
                                              ELSE <<"unauthorized", "nl">>]
      BY <1>7 DEF Handle
    <2>2. Outcome(f, IF f.auth THEN <<"unknown", "nl">> ELSE <<"unauthorized", "nl">>)
      BY <1>1, <2>1
    <2> QED
      BY <2>2
  <1> QED
    BY <1>3, <1>4, <1>5, <1>6, <1>7

(* One turn of the loop over the lines of c, whose first delimiter is the   *)
(* k-th unit received.                                                      *)
LineServed(c, k) ==
    LET recv == conn[c].recv
        l == SubSeq(recv, 1, k - 1)
    IN /\ k \in 1 .. Len(recv) /\ recv[k] = "nl" /\ \A j \in 1 .. k - 1 : recv[j] # "nl"
       /\ conn' \in [Client -> Connection] /\ SaysMore(conn', conn)
       /\ said' = Said(conn, conn')
       /\ \A d \in Client \ Held : conn'[d] = conn[d]
       /\ \A d \in Client \ {c} : conn'[d].recv = conn[d].recv /\ conn'[d].auth = conn[d].auth
       /\ conn'[c].recv = SubSeq(recv, k + 1, Len(recv))
       /\ conn'[c].auth => conn[c].auth \/ l = <<"auth">>
       /\ served' = [served EXCEPT ![c] = Append(@, l)]
       /\ \/ ran' = ran
          \/ conn[c].auth /\ ran' = [ran EXCEPT ![c] = @ \cup {Len(served[c]) + 1}]

LEMMA CurrentHeld ==
    ASSUME Types, SlotsOK, pc \in {"recv", "lines", "send"}
    PROVE  Current \in Client /\ Current \in Held /\ net[Current] \in {"open", "hungup"}
  BY SocketConstants DEF Types, SlotsOK, Current, Held

LEMMA HandleLineServes ==
    ASSUME Types, SizesOK, SlotsOK, HandleLine
    PROVE  \E k \in Nat : LineServed(Current, k)
  <1> DEFINE c == Current
             recv == conn[c].recv
             x == f2b_buf_extract(recv)
             shifted == [conn EXCEPT ![c].recv = x.rest]
             done == Handle(shifted[c], x.line)
             Password == x.line = <<"auth">>
             Ran == ran' = [ran EXCEPT ![c] = @ \cup {Len(served[c]) + 1}]
  <1>0. c \in Client /\ c \in Held
    BY CurrentHeld DEF HandleLine
  <1>1. recv \in Seq(Unit) /\ conn[c] \in Connection
    BY <1>0 DEF Types, Connection
  <1>2. HasLine(recv)
    BY DEF HandleLine
  <1>3. PICK k \in 1 .. Len(recv) :
           /\ recv[k] = "nl" /\ \A j \in 1 .. k - 1 : recv[j] # "nl"
           /\ x.line = SubSeq(recv, 1, k - 1) /\ x.rest = SubSeq(recv, k + 1, Len(recv))
    BY <1>1, <1>2, FirstLine
  <1>4. x.rest \in Seq(Unit)
    BY <1>1, <1>3, Cut
  <1>5. /\ served' = [served EXCEPT ![c] = Append(@, x.line)]
        /\ \/ conn' = shifted /\ ran' = ran
           \/ /\ shifted[c].auth /\ Ran
              /\ \E cn \in {shifted, f2b_csocket_event_broadcast(shifted)} :
                    conn' = Say(cn, {c}, <<"done", "nl">>)
           \/ conn' = Say([shifted EXCEPT ![c] = done.f], {c}, done.answer) /\ ran' = ran
        /\ said' = Said(conn, conn')
    BY DEF HandleLine, MayRun
  <1> HIDE DEF x, done
  <1>6. /\ shifted \in [Client -> Connection] /\ \A d \in Client \ {c} : shifted[d] = conn[d]
        /\ shifted[c].recv = x.rest /\ shifted[c].send = conn[c].send
        /\ shifted[c].auth = conn[c].auth
    BY <1>0, <1>1, <1>4 DEF Types, Connection
  <1> HIDE DEF shifted
  <1>7. \A d \in Client : Len(conn[d].send) <= WBuf /\ shifted[d].send = conn[d].send
    BY <1>6 DEF SizesOK
  <1>8. conn \in [Client -> Connection]
    BY DEF Types
  <1>9. SaysMore(shifted, conn)
    BY <1>6, <1>7, <1>8, SaysMoreRefl
  <1> DEFINE Good ==
         /\ conn' \in [Client -> Connection] /\ SaysMore(conn', conn)
         /\ \A d \in Client \ Held : conn'[d] = conn[d]
         /\ \A d \in Client \ {c} : conn'[d].recv = conn[d].recv /\ conn'[d].auth = conn[d].auth
         /\ conn'[c].recv = x.rest
         /\ conn'[c].auth => conn[c].auth \/ Password
         /\ ran' = ran \/ (conn[c].auth /\ Ran)
  <1> HIDE DEF Ran, Password
  <1>10. Client \ Held \subseteq Client \ {c}
    BY <1>0
  <1>11. ASSUME conn' = shifted /\ ran' = ran PROVE Good
    BY <1>6, <1>9, <1>10, <1>11
  <1>12. ASSUME /\ shifted[c].auth /\ Ran
                /\ \E cn \in {shifted, f2b_csocket_event_broadcast(shifted)} :
                      conn' = Say(cn, {c}, <<"done", "nl">>)
         PROVE  Good
    <2>1. PICK cn \in {shifted, f2b_csocket_event_broadcast(shifted)} :
             conn' = Say(cn, {c}, <<"done", "nl">>)
      BY <1>12
    <2>2. /\ cn \in [Client -> Connection] /\ SaysMore(cn, shifted)
          /\ \A d \in Client \ Held : cn[d] = shifted[d]
          /\ \A d \in Client : cn[d].recv = shifted[d].recv /\ cn[d].auth = shifted[d].auth
      <3>1. CASE cn = shifted
        <4>1. SaysMore(shifted, shifted)
          BY <1>6, <1>7, SaysMoreRefl
        <4> QED
          BY <1>6, <3>1, <4>1
      <3>2. CASE cn = f2b_csocket_event_broadcast(shifted)
        BY <1>6, <1>7, <3>2, Broadcast
      <3> QED
        BY <2>1, <3>1, <3>2
    <2>3. \A d \in Client : Len(cn[d].send) <= WBuf
      BY <2>2 DEF SaysMore
    <2> DEFINE Cs == {c}
               w == <<"done", "nl">>
    <2>4. w \in Seq(Reply)
      BY DEF Reply
    <2>5. conn' = Say(cn, Cs, w)
      BY <2>1
    <2> HIDE DEF Cs, w
    <2>6. /\ conn' \in [Client -> Connection] /\ SaysMore(conn', cn)
          /\ \A d \in Client \ Cs : conn'[d] = cn[d]
          /\ \A d \in Client : conn'[d].recv = cn[d].recv /\ conn'[d].auth = cn[d].auth
      BY <2>2, <2>3, <2>4, <2>5, Says
    <2>7. SaysMore(conn', conn)
      BY <1>6, <1>8, <1>9, <2>2, <2>6, SaysMoreTrans
    <2>8. \A d \in Client \ Held : conn'[d] = conn[d]
      BY <1>6, <1>10, <2>2, <2>6 DEF Cs
    <2>9. \A d \in Client : conn'[d].recv = shifted[d].recv /\ conn'[d].auth = shifted[d].auth
      BY <2>2, <2>6
    <2>10. /\ \A d \in Client \ {c} : conn'[d].recv = conn[d].recv /\ conn'[d].auth = conn[d].auth
           /\ conn'[c].recv = x.rest /\ conn'[c].auth = conn[c].auth
      BY <1>0, <1>6, <2>9
    <2>11. conn[c].auth /\ Ran
      BY <1>6, <1>12
    <2> QED
      BY <2>6, <2>7, <2>8, <2>10, <2>11
  <1>13. ASSUME conn' = Say([shifted EXCEPT ![c] = done.f], {c}, done.answer) /\ ran' = ran
         PROVE  Good
    <2>1. shifted[c] \in Connection
      BY <1>0, <1>6
    <2>2. PICK g \in Connection, w \in Seq(Reply) :
             /\ done = [f |-> g, answer |-> w]
             /\ g.recv = shifted[c].recv /\ g.send = shifted[c].send
             /\ g.auth => shifted[c].auth \/ Password
      <3> DEFINE f == shifted[c]
                 l == x.line
      <3>1. f \in Connection
        BY <2>1
      <3> HIDE DEF f, l
      <3>2. \E g \in Connection, w \in Seq(Reply) :
               /\ Handle(f, l) = [f |-> g, answer |-> w]
               /\ g.recv = f.recv /\ g.send = f.send
               /\ g.auth => f.auth \/ l = <<"auth">>
        BY <3>1, HandleType
      <3> QED
        BY <3>2 DEF done, Password, f, l
    <2>3. done.f = g /\ done.answer = w
      BY <2>2, FieldsOfOutcome
    <2> DEFINE cn == [shifted EXCEPT ![c] = g]
               Cs == {c}
    <2>4. /\ cn \in [Client -> Connection] /\ \A d \in Client \ {c} : cn[d] = conn[d]
          /\ cn[c] = g
      BY <1>0, <1>6
    <2>5. conn' = Say(cn, Cs, w)
      BY <1>13, <2>3
    <2> HIDE DEF cn, Cs
    <2>6. \A d \in Client : cn[d].send = conn[d].send
      BY <1>7, <2>2, <2>4
    <2>7. \A d \in Client : Len(cn[d].send) <= WBuf
      BY <1>7, <2>6
    <2>8. /\ conn' \in [Client -> Connection] /\ SaysMore(conn', cn)
          /\ \A d \in Client \ Cs : conn'[d] = cn[d]
          /\ \A d \in Client : conn'[d].recv = cn[d].recv /\ conn'[d].auth = cn[d].auth
      BY <2>4, <2>5, <2>7, Says
    <2>9. SaysMore(cn, conn)
      BY <1>7, <1>8, <2>4, <2>6, SaysMoreRefl
    <2>10. SaysMore(conn', conn)
      BY <1>8, <2>4, <2>8, <2>9, SaysMoreTrans
    <2>11. \A d \in Client \ Held : conn'[d] = conn[d]
      BY <1>10, <2>4, <2>8 DEF Cs
    <2>12. /\ \A d \in Client \ {c} : conn'[d].recv = conn[d].recv /\ conn'[d].auth = conn[d].auth
           /\ conn'[c].recv = g.recv /\ conn'[c].auth = g.auth
      BY <1>0, <2>4, <2>8
    <2>13. conn'[c].recv = x.rest /\ (conn'[c].auth => conn[c].auth \/ Password)
      BY <1>6, <2>2, <2>12
    <2> QED
      BY <1>13, <2>8, <2>10, <2>11, <2>12, <2>13
  <1>14. Good
    BY <1>5, <1>11, <1>12, <1>13
  <1>15. LineServed(c, k)
    BY <1>3, <1>5, <1>14 DEF LineServed, Password, Ran
  <1>16. k \in Nat
    BY <1>1, <1>3
  <1> QED
    BY <1>15, <1>16

---------------------------------------------------------------------------
(* Types, sizes, slots and answers. *)

CoreInv == Types /\ SizesOK /\ SlotsOK /\ FreshOK /\ AnswersInOrder

LEMMA NewConnType ==
    ASSUME NEW b \in BOOLEAN
    PROVE  /\ NewConn(b) \in Connection /\ NewConn(b).auth = b
           /\ NewConn(b).recv = <<>> /\ NewConn(b).send = <<>>
  <1>1. <<>> \in Seq(Unit) /\ <<>> \in Seq(Reply)
    OBVIOUS
  <1> DEFINE e == <<>>
  <1>2. NewConn(b) = [auth |-> b, events |-> FALSE, recv |-> e, send |-> e]
    BY DEF NewConn
  <1> HIDE DEF e
  <1>3. [auth |-> b, events |-> FALSE, recv |-> e, send |-> e] \in Connection
    BY <1>1 DEF Connection, e
  <1> QED
    BY <1>2, <1>3 DEF e

LEMMA CoreInit == Init => CoreInv
  <1> SUFFICES ASSUME Init PROVE CoreInv
    OBVIOUS
  <1>1. <<>> \in Seq(Unit) /\ <<>> \in Seq(Reply) /\ <<>> \in Seq(Lines) /\ <<>> \in Seq(Seq(Unit))
    OBVIOUS
  <1>2. conn \in [Client -> Connection] /\ \A c \in Client : conn[c] = NewConn(FALSE)
    BY NewConnType DEF Init
  <1>3. Types
    <2>1. /\ net \in [Client -> {"away", "backlog", "open", "hungup", "closed"}]
          /\ cause \in [Client -> {"none", "hungup", "binary", "overflow"}]
          /\ ran \in [Client -> SUBSET Nat]
      BY DEF Init
    <2>2. /\ line \in [Client -> Seq(Unit)] /\ wire \in [Client -> Seq(Unit)]
          /\ sent \in [Client -> Seq(Lines)] /\ served \in [Client -> Seq(Seq(Unit))]
          /\ said \in [Client -> Seq(Reply)] /\ heard \in [Client -> Seq(Reply)]
      <3> DEFINE e == <<>>
      <3>1. /\ line = [c \in Client |-> e] /\ wire = [c \in Client |-> e]
            /\ sent = [c \in Client |-> e] /\ served = [c \in Client |-> e]
            /\ said = [c \in Client |-> e] /\ heard = [c \in Client |-> e]
        BY DEF Init
      <3>2. e \in Seq(Unit) /\ e \in Seq(Reply) /\ e \in Seq(Lines) /\ e \in Seq(Seq(Unit))
        BY <1>1
      <3> HIDE DEF e
      <3> QED
        BY <3>1, <3>2
    <2>3. /\ slot \in [0 .. Slots - 1 -> Client \cup {Nobody}]
          /\ pc = "idle" /\ cnum \in 0 .. Slots - 1 /\ ready \subseteq Client
          /\ pending \subseteq {Local, Remote} /\ events \in 0 .. MaxEvents
      BY SocketConstants DEF Init
    <2> QED
      BY <1>2, <2>1, <2>2, <2>3 DEF Types
  <1>4. SizesOK
    <2> SUFFICES ASSUME NEW c \in Client
                 PROVE  /\ Len(conn[c].recv) <= RBuf /\ Len(conn[c].send) <= WBuf
                        /\ ran[c] \subseteq 1 .. Len(served[c])
      BY DEF SizesOK
    <2>1. conn[c].recv = <<>> /\ conn[c].send = <<>> /\ ran[c] = {}
      BY <1>2, NewConnType DEF Init
    <2> QED
      BY <2>1, SocketConstants
  <1>5. SlotsOK /\ FreshOK
    BY <1>2 DEF Init, SlotsOK, FreshOK
  <1>6. AnswersInOrder
    <2> SUFFICES ASSUME NEW c \in Client PROVE heard[c] \o conn[c].send = said[c]
      BY DEF AnswersInOrder
    <2>1. heard[c] = <<>> /\ conn[c].send = <<>> /\ said[c] = <<>>
      BY <1>2, NewConnType DEF Init
    <2> QED
      BY <2>1
  <1> QED
    BY <1>3, <1>4, <1>5, <1>6 DEF CoreInv

LEMMA NextSlotType ==
    ASSUME Types, NextSlot
    PROVE  cnum' \in 0 .. Slots - 1 /\ pc' \in {"slot", "idle"}
  BY SocketConstants DEF Types, NextSlot

(* A connection that is dropped leaves its slot, and nobody else does. *)
LEMMA DropFrees ==
    ASSUME Types, SlotsOK, pc \in {"recv", "lines", "send"},
           NEW why \in {"hungup", "binary", "overflow"}, Drop(why)
    PROVE  /\ net' \in [Client -> {"away", "backlog", "open", "hungup", "closed"}]
           /\ \A d \in Client : net'[d] = IF d = Current THEN "closed" ELSE net[d]
           /\ cause' \in [Client -> {"none", "hungup", "binary", "overflow"}]
           /\ \A d \in Client : cause'[d] = IF d = Current THEN why ELSE cause[d]
           /\ slot' \in [0 .. Slots - 1 -> Client \cup {Nobody}]
           /\ cnum' \in 0 .. Slots - 1 /\ pc' \in {"slot", "idle"} /\ SlotsOK'
  <1>1. Current \in Client /\ Current = slot[cnum]
    BY CurrentHeld DEF Current
  <1>2. cnum' \in 0 .. Slots - 1 /\ pc' \in {"slot", "idle"}
    BY NextSlotType DEF Drop
  <1>3. /\ net' = [net EXCEPT ![Current] = "closed"] /\ cause' = [cause EXCEPT ![Current] = why]
        /\ slot' = [slot EXCEPT ![cnum] = Nobody]
    BY DEF Drop
  <1>4. /\ net' \in [Client -> {"away", "backlog", "open", "hungup", "closed"}]
        /\ \A d \in Client : net'[d] = IF d = Current THEN "closed" ELSE net[d]
    BY <1>1, <1>3 DEF Types
  <1>5. /\ cause' \in [Client -> {"none", "hungup", "binary", "overflow"}]
        /\ \A d \in Client : cause'[d] = IF d = Current THEN why ELSE cause[d]
    BY <1>1, <1>3 DEF Types
  <1>6. /\ slot' \in [0 .. Slots - 1 -> Client \cup {Nobody}]
        /\ \A i \in 0 .. Slots - 1 : slot'[i] = IF i = cnum THEN Nobody ELSE slot[i]
    BY <1>3 DEF Types
  <1>7. SlotsOK'
    <2>1. ASSUME NEW i \in 0 .. Slots - 1, slot'[i] # Nobody
          PROVE  net'[slot'[i]] \in {"open", "hungup"}
      <3>1. slot'[i] = slot[i] /\ i # cnum
        BY <1>6, <2>1
      <3>2. slot[i] # Current /\ slot[i] \in Client
        BY <1>1, <2>1, <3>1 DEF SlotsOK, Types
      <3> QED
        BY <1>4, <2>1, <3>1, <3>2 DEF SlotsOK
    <2>2. \A i, j \in 0 .. Slots - 1 : slot'[i] = slot'[j] /\ slot'[i] # Nobody => i = j
      BY <1>6 DEF SlotsOK
    <2> QED
      BY <1>2, <2>1, <2>2 DEF SlotsOK
  <1> QED
    BY <1>2, <1>4, <1>5, <1>6, <1>7

(* A step of a client, before the daemon sees it. *)
LEMMA ClientCore ==
    ASSUME CoreInv, NEW c \in Client, Connect(c) \/ Send(c) \/ HangUp(c)
    PROVE  CoreInv'
  <1>1. /\ UNCHANGED <<slot, conn, pc, cnum, ready, pending, events, past>>
        /\ net' \in [Client -> {"away", "backlog", "open", "hungup", "closed"}]
        /\ \A d \in Client : /\ net[d] \in {"open", "hungup"} => net'[d] \in {"open", "hungup"}
                             /\ net'[d] \in {"away", "backlog"} => net[d] \in {"away", "backlog"}
    BY DEF CoreInv, Types, Connect, Send, HangUp
  <1>2. /\ line' \in [Client -> Seq(Unit)] /\ wire' \in [Client -> Seq(Unit)]
        /\ sent' \in [Client -> Seq(Lines)]
    <2>1. CASE Connect(c) \/ HangUp(c)
      BY <2>1 DEF Connect, HangUp, CoreInv, Types
    <2>2. ASSUME NEW units \in Seq(Unit), units # <<>>, Put(c, units)
          PROVE  line' \in [Client -> Seq(Unit)] /\ wire' \in [Client -> Seq(Unit)]
      <3>1. wire[c] \in Seq(Unit) /\ Head(units) \in Unit /\ Tail(units) \in Seq(Unit)
        BY <2>2 DEF CoreInv, Types
      <3>2. Append(wire[c], Head(units)) \in Seq(Unit)
        BY <3>1
      <3> QED
        BY <2>2, <3>1, <3>2 DEF Put, CoreInv, Types
    <2>3. CASE Send(c)
      <3>1. ASSUME NEW l \in Lines, Put(c, Append(l, "nl")), sent' = [sent EXCEPT ![c] = Append(@, l)]
            PROVE  /\ line' \in [Client -> Seq(Unit)] /\ wire' \in [Client -> Seq(Unit)]
                   /\ sent' \in [Client -> Seq(Lines)]
        <4>1. l \in Seq(Word)
          BY SocketConstants
        <4>2. Append(l, "nl") \in Seq(Unit) /\ Append(l, "nl") # <<>>
          BY <4>1 DEF Unit
        <4>3. Append(sent[c], l) \in Seq(Lines)
          BY DEF CoreInv, Types
        <4> QED
          BY <2>2, <3>1, <4>2, <4>3 DEF CoreInv, Types
      <3>2. CASE line[c] # <<>> /\ Put(c, line[c]) /\ UNCHANGED sent
        <4>1. line[c] \in Seq(Unit)
          BY DEF CoreInv, Types
        <4> QED
          BY <2>2, <3>2, <4>1 DEF CoreInv, Types
      <3> QED
        BY <2>3, <3>1, <3>2 DEF Send
    <2> QED
      BY <2>1, <2>3
  <1>3. Types'
    BY <1>1, <1>2 DEF CoreInv, Types, past
  <1>4. SlotsOK'
    BY <1>1 DEF CoreInv, SlotsOK, Types, Current
  <1>5. SizesOK' /\ FreshOK' /\ AnswersInOrder'
    BY <1>1 DEF CoreInv, SizesOK, FreshOK, AnswersInOrder, past
  <1> QED
    BY <1>3, <1>4, <1>5 DEF CoreInv

(* select, the empty slots and the end of a poll. *)
LEMMA QuietCore ==
    ASSUME CoreInv, Select \/ Accepted \/ Visit \/ f2b_csocket_destroy \/ UNCHANGED vars
    PROVE  CoreInv'
  <1>0. Types /\ SizesOK /\ SlotsOK /\ FreshOK /\ AnswersInOrder
    BY DEF CoreInv
  <1>1. UNCHANGED <<line, wire, sent, conn, events, served, ran, said, heard, cause>>
    BY DEF Select, Accepted, Visit, f2b_csocket_destroy, vars, client, past
  <1>2. SizesOK' /\ AnswersInOrder'
    BY <1>0, <1>1 DEF SizesOK, AnswersInOrder
  <1>3. CASE UNCHANGED <<net, slot>>
    <2>1. FreshOK'
      BY <1>0, <1>1, <1>3 DEF FreshOK
    <2>2. CASE Select
      <3>1. Readable \subseteq Client /\ Backlogs \subseteq {Local, Remote}
        BY <1>0, SocketConstants DEF Readable, Held, Backlogs, Types
      <3>2. ready' \subseteq Client /\ pending' \subseteq {Local, Remote}
        BY <1>0, <2>2, <3>1 DEF Select, Types
      <3>3. pc' \in {"idle", "accept"} /\ cnum' = cnum
        BY <2>2 DEF Select
      <3>4. Types' /\ SlotsOK'
        BY <1>0, <1>1, <1>3, <3>2, <3>3 DEF Types, SlotsOK
      <3> QED
        BY <1>2, <2>1, <3>4 DEF CoreInv
    <2>3. CASE Accepted
      <3>1. pc' = "slot" /\ cnum' \in 0 .. Slots - 1 /\ UNCHANGED <<ready, pending>>
        BY <2>3, SocketConstants DEF Accepted
      <3>2. Types' /\ SlotsOK'
        BY <1>0, <1>1, <1>3, <3>1 DEF Types, SlotsOK
      <3> QED
        BY <1>2, <2>1, <3>2 DEF CoreInv
    <2>4. CASE Visit
      <3>1. /\ cnum' \in 0 .. Slots - 1 /\ pc' \in {"slot", "idle", "recv", "send"}
            /\ (pc' \in {"recv", "lines", "send"} => Current # Nobody /\ cnum' = cnum)
            /\ UNCHANGED <<ready, pending>>
        BY <1>0, <2>4, NextSlotType DEF Visit, Types
      <3>2. Types' /\ SlotsOK'
        BY <1>0, <1>1, <1>3, <3>1 DEF Types, SlotsOK, Current
      <3> QED
        BY <1>2, <2>1, <3>2 DEF CoreInv
    <2>5. CASE UNCHANGED vars
      <3>1. Types' /\ SlotsOK'
        BY <1>0, <2>5 DEF vars, client, past, Types, SlotsOK, Current
      <3> QED
        BY <1>2, <2>1, <3>1 DEF CoreInv
    <2>6. CASE f2b_csocket_destroy
      <3>1. pc' = "off" /\ UNCHANGED <<cnum, ready, pending>>
        BY <2>6 DEF f2b_csocket_destroy
      <3>2. Types' /\ SlotsOK'
        BY <1>0, <1>1, <1>3, <3>1 DEF Types, SlotsOK
      <3> QED
        BY <1>2, <2>1, <3>2 DEF CoreInv
    <2> QED
      BY <2>2, <2>3, <2>4, <2>5, <2>6
  <1>4. CASE f2b_csocket_destroy
    <2>1. /\ pc' = "off" /\ UNCHANGED <<cnum, ready, pending>>
          /\ slot' = [i \in 0 .. Slots - 1 |-> Nobody] /\ net' = [c \in Client |-> "closed"]
      BY <1>4 DEF f2b_csocket_destroy
    <2>2. Types' /\ SlotsOK' /\ FreshOK'
      BY <1>0, <1>1, <2>1 DEF Types, SlotsOK, FreshOK
    <2> QED
      BY <1>2, <2>2 DEF CoreInv
  <1>5. (Select \/ Accepted \/ Visit \/ UNCHANGED vars) => UNCHANGED <<net, slot>>
    BY DEF Select, Accepted, Visit, vars, client
  <1> QED
    BY <1>3, <1>4, <1>5

(* What Accept does when accept() succeeds for c. *)
Accepting(c) ==
    /\ net[c] = "backlog" /\ net' = [net EXCEPT ![c] = "open"]
    /\ conn' = [conn EXCEPT ![c] = NewConn(c \in Local)]
    /\ slot' = [slot EXCEPT ![0] = c]

LEMMA AcceptCore ==
    ASSUME CoreInv, NEW l \in {Local, Remote}, Accept(l)
    PROVE  CoreInv'
  <1>1. /\ pc = "accept" /\ pending' \subseteq pending
        /\ UNCHANGED <<line, wire, sent, pc, cnum, ready, events, past>>
        /\ (\E c \in l : Accepting(c)) \/ UNCHANGED <<net, conn, slot>>
    BY DEF Accept, Accepting
  <1>2. CASE UNCHANGED <<net, conn, slot>>
    BY <1>1, <1>2 DEF CoreInv, Types, SizesOK, SlotsOK, FreshOK, AnswersInOrder, past, Current
  <1>3. ASSUME NEW c \in l, Accepting(c) PROVE CoreInv'
    <2>1. c \in Client /\ 0 \in 0 .. Slots - 1
      BY SocketConstants
    <2>2. /\ NewConn(c \in Local) \in Connection
          /\ NewConn(c \in Local).recv = <<>> /\ NewConn(c \in Local).send = <<>>
      <3>1. (c \in Local) \in BOOLEAN
        OBVIOUS
      <3> QED
        BY <3>1, NewConnType, Zenon
    <2>3. /\ net' \in [Client -> {"away", "backlog", "open", "hungup", "closed"}]
          /\ \A d \in Client : net'[d] = IF d = c THEN "open" ELSE net[d]
          /\ slot' \in [0 .. Slots - 1 -> Client \cup {Nobody}]
          /\ \A i \in 0 .. Slots - 1 : slot'[i] = IF i = 0 THEN c ELSE slot[i]
      BY <1>3, <2>1 DEF Accepting, CoreInv, Types
    <2>4. /\ conn' \in [Client -> Connection]
          /\ conn'[c].recv = <<>> /\ conn'[c].send = <<>>
          /\ \A d \in Client : d # c => conn'[d] = conn[d]
      BY <1>3, <2>1, <2>2 DEF Accepting, CoreInv, Types
    <2>5. \A i \in 0 .. Slots - 1 : slot[i] # c
      BY <1>3, <2>1, SocketConstants DEF Accepting, CoreInv, SlotsOK
    <2>6. Types'
      BY <1>1, <2>3, <2>4 DEF CoreInv, Types, past
    <2>7. SizesOK'
      <3>1. Len(conn'[c].recv) = 0 /\ Len(conn'[c].send) = 0
        BY <2>4
      <3> QED
        BY <1>1, <2>1, <2>4, <3>1, SocketConstants DEF CoreInv, SizesOK, past
    <2>8. SlotsOK'
      <3>1. \A i \in 0 .. Slots - 1 : slot'[i] # Nobody => net'[slot'[i]] \in {"open", "hungup"}
        <4> SUFFICES ASSUME NEW i \in 0 .. Slots - 1, slot'[i] # Nobody
                     PROVE  net'[slot'[i]] \in {"open", "hungup"}
          OBVIOUS
        <4>1. CASE i = 0
          BY <2>1, <2>3, <4>1
        <4>2. CASE i # 0
          <5>1. slot'[i] = slot[i] /\ slot[i] \in Client /\ net[slot[i]] \in {"open", "hungup"}
            <6>1. slot'[i] = slot[i]
              BY <2>3, <4>2
            <6>2. slot[i] # Nobody
              BY <6>1
            <6> QED
              BY <6>1, <6>2 DEF CoreInv, SlotsOK, Types
          <5> QED
            BY <2>3, <2>5, <5>1
        <4> QED
          BY <4>1, <4>2
      <3>2. \A i, j \in 0 .. Slots - 1 : slot'[i] = slot'[j] /\ slot'[i] # Nobody => i = j
        BY <2>3, <2>5 DEF CoreInv, SlotsOK
      <3>3. pc' = "accept"
        BY <1>1
      <3> QED
        BY <3>1, <3>2, <3>3 DEF SlotsOK
    <2>9. FreshOK'
      BY <1>1, <2>3, <2>4 DEF CoreInv, FreshOK, past
    <2>10. AnswersInOrder'
      <3>1. said[c] = <<>> /\ heard[c] = <<>>
        BY <1>3, <2>1 DEF Accepting, CoreInv, FreshOK
      <3>2. <<>> \o <<>> = <<>>
        OBVIOUS
      <3>3. heard'[c] \o conn'[c].send = said'[c]
        BY <1>1, <2>4, <3>1, <3>2 DEF past
      <3> QED
        BY <1>1, <2>4, <3>3 DEF CoreInv, AnswersInOrder, past
    <2> QED
      BY <2>6, <2>7, <2>8, <2>9, <2>10 DEF CoreInv
  <1> QED
    BY <1>1, <1>2, <1>3

(* An event, or a line: only clients that hold a slot are spoken to. *)
LEMMA SpeechCore ==
    ASSUME CoreInv, JailEvent \/ HandleLine
    PROVE  CoreInv'
  <1>0. Types /\ SizesOK /\ SlotsOK /\ FreshOK /\ AnswersInOrder
    BY DEF CoreInv
  <1>1. \A d \in Client : net[d] \in {"away", "backlog"} => d \notin Held
    BY <1>0, SocketConstants DEF SlotsOK, Held
  <1>2. CASE JailEvent
    <2>1. /\ conn' \in [Client -> Connection] /\ SaysMore(conn', conn)
          /\ \A c \in Client \ Held : conn'[c] = conn[c]
          /\ \A c \in Client : conn'[c].recv = conn[c].recv
          /\ said' = Said(conn, conn')
      BY <1>0, <1>2, JailEventSays
    <2>2. /\ UNCHANGED <<client, slot, pc, cnum, ready, pending, served, ran, heard, cause>>
          /\ pc = "idle" /\ events' \in 0 .. MaxEvents
      BY <1>0, <1>2, SocketConstants DEF JailEvent, Types
    <2>3. said' \in [Client -> Seq(Reply)] /\ AnswersInOrder'
      BY <1>0, <2>1, <2>2, SaidMore
    <2>4. Types'
      BY <1>0, <2>1, <2>2, <2>3 DEF Types, client
    <2>5. SizesOK'
      BY <1>0, <2>1, <2>2 DEF SizesOK, SaysMore
    <2>6. SlotsOK'
      BY <1>0, <2>2 DEF SlotsOK, client
    <2>7. FreshOK'
      <3> SUFFICES ASSUME NEW c \in Client, net'[c] \in {"away", "backlog"}
                   PROVE  /\ conn'[c] = NewConn(FALSE) /\ served'[c] = <<>> /\ ran'[c] = {}
                          /\ said'[c] = <<>> /\ heard'[c] = <<>>
        BY DEF FreshOK
      <3>1. conn'[c] = conn[c] /\ conn[c] = NewConn(FALSE) /\ heard[c] = <<>>
        BY <1>0, <1>1, <2>1, <2>2 DEF FreshOK, client
      <3>2. heard'[c] \o conn'[c].send = said'[c] /\ conn'[c].send = <<>> /\ heard'[c] = <<>>
        BY <2>2, <2>3, <3>1, NewConnType DEF AnswersInOrder
      <3>3. said'[c] = <<>>
        BY <3>2
      <3> QED
        BY <1>0, <2>2, <3>1, <3>3 DEF FreshOK, client
    <2> QED
      BY <2>3, <2>4, <2>5, <2>6, <2>7 DEF CoreInv
  <1>3. CASE HandleLine
    <2> DEFINE c == Current
    <2>1. PICK k \in Nat : LineServed(c, k)
      BY <1>0, <1>3, HandleLineServes
    <2>2. /\ conn' \in [Client -> Connection] /\ SaysMore(conn', conn)
          /\ \A d \in Client \ Held : conn'[d] = conn[d]
          /\ \A d \in Client \ {c} : conn'[d].recv = conn[d].recv
          /\ said' = Said(conn, conn')
      BY <2>1 DEF LineServed
    <2> DEFINE l == SubSeq(conn[c].recv, 1, k - 1)
    <2>3. /\ k \in 1 .. Len(conn[c].recv)
          /\ conn'[c].recv = SubSeq(conn[c].recv, k + 1, Len(conn[c].recv))
          /\ served' = [served EXCEPT ![c] = Append(@, l)]
          /\ ran' = ran \/ ran' = [ran EXCEPT ![c] = @ \cup {Len(served[c]) + 1}]
      BY <2>1 DEF LineServed
    <2>4. /\ UNCHANGED <<client, slot, cnum, ready, pending, events, heard, cause>>
          /\ pc = "lines" /\ pc' = "lines"
      BY <1>3 DEF HandleLine, AfterLine
    <2>5. c \in Client /\ c \in Held /\ net[c] \in {"open", "hungup"}
      BY <1>0, <2>4, CurrentHeld
    <2>6. conn[c].recv \in Seq(Unit) /\ served[c] \in Seq(Seq(Unit)) /\ ran[c] \subseteq Nat
      BY <1>0, <2>5 DEF Types, Connection
    <2>7. l \in Seq(Unit) /\ Len(conn'[c].recv) <= Len(conn[c].recv)
      BY <2>3, <2>6, Cut
    <2> HIDE DEF c, l
    <2>8. said' \in [Client -> Seq(Reply)] /\ AnswersInOrder'
      BY <1>0, <2>2, <2>4, SaidMore
    <2>9. Append(served[c], l) \in Seq(Seq(Unit)) /\ Len(Append(served[c], l)) = Len(served[c]) + 1
      BY <2>6, <2>7
    <2>10. /\ served' \in [Client -> Seq(Seq(Unit))] /\ Len(served'[c]) = Len(served[c]) + 1
           /\ \A d \in Client : d # c => served'[d] = served[d]
      BY <1>0, <2>3, <2>5, <2>9 DEF Types
    <2>11. /\ ran' \in [Client -> SUBSET Nat]
           /\ ran'[c] \subseteq ran[c] \cup {Len(served[c]) + 1}
           /\ \A d \in Client : d # c => ran'[d] = ran[d]
      <3>1. ran \in [Client -> SUBSET Nat] /\ Len(served[c]) + 1 \in Nat
        BY <1>0, <2>6 DEF Types
      <3> DEFINE R == ran[c] \cup {Len(served[c]) + 1}
      <3>2. R \in SUBSET Nat /\ ran[c] \subseteq R
        BY <2>5, <3>1
      <3>3. ran' = ran \/ ran' = [ran EXCEPT ![c] = R]
        BY <2>3
      <3> HIDE DEF R
      <3>4. /\ ran' \in [Client -> SUBSET Nat] /\ ran'[c] \subseteq R
            /\ \A d \in Client : d # c => ran'[d] = ran[d]
        BY <2>5, <3>1, <3>2, <3>3
      <3> QED
        BY <3>4 DEF R
    <2>12. Types'
      BY <1>0, <2>2, <2>4, <2>8, <2>10, <2>11 DEF Types, client
    <2>13. SizesOK'
      <3> SUFFICES ASSUME NEW d \in Client
                   PROVE  /\ Len(conn'[d].recv) <= RBuf /\ Len(conn'[d].send) <= WBuf
                          /\ ran'[d] \subseteq 1 .. Len(served'[d])
        BY DEF SizesOK
      <3>1. Len(conn'[d].send) <= WBuf
        BY <2>2 DEF SaysMore
      <3>2. CASE d # c
        BY <1>0, <2>2, <2>10, <2>11, <3>1, <3>2 DEF SizesOK
      <3>3. CASE d = c
        <4>1. ran'[c] \subseteq 1 .. Len(served'[c])
          BY <1>0, <2>5, <2>6, <2>10, <2>11 DEF SizesOK
        <4>2. Len(conn[c].recv) <= RBuf /\ Len(conn[c].recv) \in Nat /\ RBuf \in Nat
          BY <1>0, <2>5, <2>6, SocketConstants DEF SizesOK
        <4>3. Len(conn'[c].recv) \in Nat
          BY <2>2, <2>5 DEF Connection
        <4> QED
          BY <2>7, <3>1, <3>3, <4>1, <4>2, <4>3
      <3> QED
        BY <3>2, <3>3
    <2>14. SlotsOK'
      BY <1>0, <2>4 DEF SlotsOK, client, Current
    <2>15. FreshOK'
      <3> SUFFICES ASSUME NEW d \in Client, net'[d] \in {"away", "backlog"}
                   PROVE  /\ conn'[d] = NewConn(FALSE) /\ served'[d] = <<>> /\ ran'[d] = {}
                          /\ said'[d] = <<>> /\ heard'[d] = <<>>
        BY DEF FreshOK
      <3>1. conn'[d] = conn[d] /\ conn[d] = NewConn(FALSE) /\ heard[d] = <<>> /\ d # c
            /\ served[d] = <<>> /\ ran[d] = {}
        BY <1>0, <1>1, <2>2, <2>4, <2>5 DEF FreshOK, client
      <3>2. heard'[d] \o conn'[d].send = said'[d] /\ conn'[d].send = <<>> /\ heard'[d] = <<>>
        BY <2>4, <2>8, <3>1, NewConnType DEF AnswersInOrder
      <3>3. said'[d] = <<>>
        BY <3>2
      <3> QED
        BY <2>4, <2>10, <2>11, <3>1, <3>3
    <2> QED
      BY <2>8, <2>12, <2>13, <2>14, <2>15 DEF CoreInv
  <1> QED
    BY <1>2, <1>3

(* What Receive takes of the wire: as much as there is room for. *)
Taken(c) ==
    LET avail == RBuf - Len(conn[c].recv)
    IN IF Len(wire[c]) < avail THEN Len(wire[c]) ELSE avail

LEMMA ReceiveTakes ==
    ASSUME Types, SizesOK, SlotsOK, Receive
    PROVE  LET c == Current
               n == Taken(c)
           IN /\ n \in 0 .. Len(wire[c])
              /\ wire' = [wire EXCEPT ![c] = SubSeq(wire[c], n + 1, Len(wire[c]))]
              /\ wire' \in [Client -> Seq(Unit)]
              /\ UNCHANGED <<line, sent, ready, pending, events, served, ran, said, heard>>
              /\ \/ (Drop("hungup") \/ Drop("binary")) /\ UNCHANGED conn
                 \/ /\ conn' = [conn EXCEPT ![c].recv = conn[c].recv \o SubSeq(wire[c], 1, n)]
                    /\ Len(conn[c].recv \o SubSeq(wire[c], 1, n)) <= RBuf
                    /\ conn[c].recv \o SubSeq(wire[c], 1, n) \in Seq(Unit)
                    /\ pc' = "lines" /\ UNCHANGED <<net, cause, slot, cnum>>
  <1> DEFINE c == Current
             n == Taken(c)
             units == SubSeq(wire[c], 1, n)
  <1>1. c \in Client
    BY CurrentHeld DEF Receive
  <1>2. /\ conn[c].recv \in Seq(Unit) /\ wire[c] \in Seq(Unit) /\ RBuf \in Nat
        /\ Len(conn[c].recv) <= RBuf
    BY <1>1, SocketConstants DEF Types, SizesOK, Connection
  <1>3. n \in 0 .. Len(wire[c]) /\ Len(conn[c].recv) + n <= RBuf
    <2> DEFINE w == Len(wire[c])
               r == Len(conn[c].recv)
    <2>1. n = IF w < RBuf - r THEN w ELSE RBuf - r
      BY DEF Taken
    <2>2. w \in Nat /\ r \in Nat /\ RBuf \in Nat /\ r <= RBuf
      BY <1>2
    <2> HIDE DEF w, r, n
    <2>3. n \in 0 .. w /\ r + n <= RBuf
      BY <2>1, <2>2
    <2> QED
      BY <2>3 DEF w, r
  <1>4. /\ wire' = [wire EXCEPT ![c] = SubSeq(wire[c], n + 1, Len(wire[c]))]
        /\ UNCHANGED <<line, sent, ready, pending, events, served, ran, said, heard>>
        /\ \/ (Drop("hungup") \/ Drop("binary")) /\ UNCHANGED conn
           \/ /\ conn' = [conn EXCEPT ![c].recv = f2b_buf_append(conn[c].recv, units, RBuf)]
              /\ pc' = "lines" /\ UNCHANGED <<net, cause, slot, cnum>>
    BY DEF Receive, Taken
  <1> HIDE DEF n
  <1>5. /\ units \in Seq(Unit) /\ Len(units) = n
        /\ SubSeq(wire[c], n + 1, Len(wire[c])) \in Seq(Unit)
    BY <1>2, <1>3, Cut
  <1>6. wire' \in [Client -> Seq(Unit)]
    BY <1>1, <1>4, <1>5 DEF Types
  <1> HIDE DEF units
  <1>7. f2b_buf_append(conn[c].recv, units, RBuf) = conn[c].recv \o units
    BY <1>2, <1>3, <1>5, AppendFits
  <1>8. conn[c].recv \o units \in Seq(Unit) /\ Len(conn[c].recv \o units) <= RBuf
    BY <1>2, <1>3, <1>5
  <1> QED
    BY <1>3, <1>4, <1>6, <1>7, <1>8 DEF n, units

(* What Answer does when send() takes n units. *)
Sending(c, n) ==
    /\ conn' = [conn EXCEPT ![c].send = f2b_buf_splice(@, n)]
    /\ heard' = [heard EXCEPT ![c] = @ \o SubSeq(conn[c].send, 1, n)]
    /\ NextSlot /\ UNCHANGED <<net, slot, cause>>

(* A connection that is dropped takes nothing else with it. *)
LEMMA DropCore ==
    ASSUME CoreInv, pc \in {"recv", "lines", "send"},
           NEW why \in {"hungup", "binary", "overflow"}, Drop(why),
           wire' \in [Client -> Seq(Unit)],
           UNCHANGED <<line, sent, conn, ready, pending, events, served, ran, said, heard>>
    PROVE  CoreInv'
  <1>1. /\ net' \in [Client -> {"away", "backlog", "open", "hungup", "closed"}]
        /\ \A d \in Client : net'[d] = IF d = Current THEN "closed" ELSE net[d]
        /\ cause' \in [Client -> {"none", "hungup", "binary", "overflow"}]
        /\ slot' \in [0 .. Slots - 1 -> Client \cup {Nobody}]
        /\ cnum' \in 0 .. Slots - 1 /\ pc' \in {"slot", "idle"} /\ SlotsOK'
    BY DropFrees DEF CoreInv
  <1>2. Types'
    BY <1>1 DEF CoreInv, Types
  <1>3. SizesOK' /\ FreshOK' /\ AnswersInOrder'
    BY <1>1 DEF CoreInv, SizesOK, FreshOK, AnswersInOrder
  <1> QED
    BY <1>1, <1>2, <1>3 DEF CoreInv

LEMMA SlotCore ==
    ASSUME CoreInv, Receive \/ LinesDone \/ Answer
    PROVE  CoreInv'
  <1> DEFINE c == Current
  <1>0. Types /\ SizesOK /\ SlotsOK /\ FreshOK /\ AnswersInOrder
    BY DEF CoreInv
  <1>1. pc \in {"recv", "lines", "send"}
    BY DEF Receive, LinesDone, Answer
  <1>2. c \in Client /\ net[c] \in {"open", "hungup"}
    BY <1>0, <1>1, CurrentHeld
  <1>3. /\ conn[c] \in Connection /\ conn[c].recv \in Seq(Unit) /\ conn[c].send \in Seq(Reply)
        /\ heard[c] \in Seq(Reply)
    BY <1>0, <1>2 DEF Types, Connection
  <1>4. CASE Receive
    <2> DEFINE n == Taken(c)
               r == conn[c].recv \o SubSeq(wire[c], 1, n)
    <2>1. /\ wire' \in [Client -> Seq(Unit)]
          /\ UNCHANGED <<line, sent, ready, pending, events, served, ran, said, heard>>
          /\ \/ (Drop("hungup") \/ Drop("binary")) /\ UNCHANGED conn
             \/ /\ conn' = [conn EXCEPT ![c].recv = r]
                /\ Len(r) <= RBuf /\ r \in Seq(Unit)
                /\ pc' = "lines" /\ UNCHANGED <<net, cause, slot, cnum>>
      BY <1>0, <1>4, ReceiveTakes
    <2>2. CASE (Drop("hungup") \/ Drop("binary")) /\ UNCHANGED conn
      BY <1>1, <2>1, <2>2, DropCore
    <2> HIDE DEF r, c
    <2>3. CASE /\ conn' = [conn EXCEPT ![c].recv = r]
               /\ Len(r) <= RBuf /\ r \in Seq(Unit)
               /\ pc' = "lines" /\ UNCHANGED <<net, cause, slot, cnum>>
      <3>1. /\ conn' \in [Client -> Connection]
            /\ \A d \in Client : d # c => conn'[d] = conn[d]
            /\ conn'[c].recv = r /\ conn'[c].send = conn[c].send
        BY <1>0, <1>2, <1>3, <2>3 DEF Types, Connection
      <3>2. \A d \in Client : conn'[d].send = conn[d].send
        BY <3>1
      <3>3. Types'
        BY <1>0, <2>1, <2>3, <3>1 DEF Types
      <3>4. SizesOK'
        BY <1>0, <2>1, <2>3, <3>1, <3>2 DEF SizesOK
      <3>5. FreshOK'
        BY <1>0, <1>2, <2>1, <2>3, <3>1 DEF FreshOK
      <3>6. AnswersInOrder'
        BY <1>0, <2>1, <3>2 DEF AnswersInOrder
      <3>7. SlotsOK'
        BY <1>0, <1>1, <2>3 DEF SlotsOK, Current
      <3> QED
        BY <3>3, <3>4, <3>5, <3>6, <3>7 DEF CoreInv
    <2> QED
      BY <2>1, <2>2, <2>3
  <1>5. CASE LinesDone
    <2>1. /\ UNCHANGED <<line, wire, sent, conn, ready, pending, events, served, ran, said, heard>>
          /\ Drop("overflow") \/ (pc' = "send" /\ UNCHANGED <<net, slot, cnum, cause>>)
      BY <1>5 DEF LinesDone
    <2>2. wire' \in [Client -> Seq(Unit)]
      BY <1>0, <2>1 DEF Types
    <2>3. CASE Drop("overflow")
      BY <1>1, <2>1, <2>2, <2>3, DropCore
    <2>4. CASE pc' = "send" /\ UNCHANGED <<net, slot, cnum, cause>>
      <3>1. Types'
        BY <1>0, <2>1, <2>4 DEF Types
      <3>2. SlotsOK'
        BY <1>0, <1>1, <2>4 DEF SlotsOK, Current
      <3>3. SizesOK' /\ FreshOK' /\ AnswersInOrder'
        BY <1>0, <2>1, <2>4 DEF SizesOK, FreshOK, AnswersInOrder
      <3> QED
        BY <3>1, <3>2, <3>3 DEF CoreInv
    <2> QED
      BY <2>1, <2>3, <2>4
  <1>6. CASE Answer
    <2>1. /\ UNCHANGED <<line, wire, sent, ready, pending, events, served, ran, said>>
          /\ \/ \E n \in 0 .. Len(conn[c].send) : Sending(c, n)
             \/ Drop("hungup") /\ UNCHANGED <<conn, heard>>
      BY <1>6 DEF Answer, Sending
    <2>2. wire' \in [Client -> Seq(Unit)]
      BY <1>0, <2>1 DEF Types
    <2>3. CASE Drop("hungup") /\ UNCHANGED <<conn, heard>>
      BY <1>1, <2>1, <2>2, <2>3, DropCore
    <2> HIDE DEF c
    <2>4. ASSUME NEW n \in 0 .. Len(conn[c].send), Sending(c, n) PROVE CoreInv'
      <3> DEFINE first == SubSeq(conn[c].send, 1, n)
                 rest == SubSeq(conn[c].send, n + 1, Len(conn[c].send))
      <3>1. /\ first \in Seq(Reply) /\ rest \in Seq(Reply) /\ first \o rest = conn[c].send
            /\ Len(rest) <= Len(conn[c].send)
        <4> DEFINE s == conn[c].send
        <4>1. s \in Seq(Reply) /\ n \in 0 .. Len(s) /\ Len(s) \in Nat
          BY <1>3
        <4> HIDE DEF s
        <4>2. /\ SubSeq(s, 1, n) \in Seq(Reply) /\ SubSeq(s, n + 1, Len(s)) \in Seq(Reply)
              /\ Len(SubSeq(s, n + 1, Len(s))) = Len(s) - n
              /\ SubSeq(s, 1, n) \o SubSeq(s, n + 1, Len(s)) = s
          BY <4>1, Cut
        <4>3. Len(s) - n <= Len(s)
          BY <4>1
        <4> QED
          BY <4>2, <4>3 DEF s
      <3>2. f2b_buf_splice(conn[c].send, n) = rest
        BY <1>3, Spliced
      <3>3. /\ conn' = [conn EXCEPT ![c].send = rest]
            /\ heard' = [heard EXCEPT ![c] = @ \o first]
            /\ UNCHANGED <<net, slot, cause>>
        BY <2>4, <3>2 DEF Sending
      <3>4. cnum' \in 0 .. Slots - 1 /\ pc' \in {"slot", "idle"}
        BY <1>0, <2>4, NextSlotType DEF Sending
      <3> HIDE DEF first, rest
      <3>5. /\ conn' \in [Client -> Connection]
            /\ \A d \in Client : d # c => conn'[d] = conn[d]
            /\ conn'[c].recv = conn[c].recv /\ conn'[c].send = rest
        BY <1>0, <1>2, <1>3, <3>1, <3>3 DEF Types, Connection
      <3>6. heard[c] \o first \in Seq(Reply)
        BY <1>3, <3>1, SpeechAssociative
      <3>7. /\ heard' \in [Client -> Seq(Reply)] /\ heard'[c] = heard[c] \o first
            /\ \A d \in Client : d # c => heard'[d] = heard[d]
        BY <1>0, <1>2, <3>3, <3>6 DEF Types
      <3>8. Types'
        BY <1>0, <2>1, <3>3, <3>4, <3>5, <3>7 DEF Types
      <3>9. SizesOK'
        <4>1. Len(rest) <= WBuf
          <5>1. Len(rest) \in Nat /\ Len(conn[c].send) \in Nat /\ WBuf \in Nat
            BY <1>3, <3>1, SocketConstants
          <5> QED
            BY <1>0, <1>2, <3>1, <5>1 DEF SizesOK
        <4> QED
          BY <1>0, <2>1, <3>5, <4>1 DEF SizesOK
      <3>10. FreshOK'
        BY <1>0, <1>2, <2>1, <3>3, <3>5, <3>7 DEF FreshOK
      <3>11. SlotsOK'
        BY <1>0, <3>3, <3>4 DEF SlotsOK
      <3>12. AnswersInOrder'
        <4>1. (heard[c] \o first) \o rest = heard[c] \o (first \o rest)
          BY <1>3, <3>1, SpeechAssociative
        <4>2. heard'[c] \o conn'[c].send = said'[c]
          BY <1>0, <1>2, <2>1, <3>1, <3>5, <3>7, <4>1 DEF AnswersInOrder
        <4> QED
          BY <1>0, <2>1, <3>5, <3>7, <4>2 DEF AnswersInOrder
      <3> QED
        BY <3>8, <3>9, <3>10, <3>11, <3>12 DEF CoreInv
    <2> QED
      BY <2>1, <2>3, <2>4 DEF c
  <1> QED
    BY <1>4, <1>5, <1>6

LEMMA CoreStep == CoreInv /\ [Next]_vars => CoreInv'
  <1> SUFFICES ASSUME CoreInv, [Next]_vars PROVE CoreInv'
    OBVIOUS
  <1>1. CASE Select \/ Accepted \/ Visit \/ f2b_csocket_destroy \/ UNCHANGED vars \/ Ended
    BY <1>1, QuietCore DEF Ended
  <1>2. CASE \E l \in {Local, Remote} : Accept(l)
    BY <1>2, AcceptCore
  <1>3. CASE Receive \/ LinesDone \/ Answer
    BY <1>3, SlotCore
  <1>4. CASE JailEvent \/ HandleLine
    BY <1>4, SpeechCore
  <1>5. CASE \E c \in Client : Connect(c) \/ Send(c) \/ HangUp(c)
    BY <1>5, ClientCore
  <1> QED
    BY <1>1, <1>2, <1>3, <1>4, <1>5 DEF Next, Poll

LEMMA CoreInvariance == Spec => []CoreInv
  BY CoreInit, CoreStep, PTL DEF Spec

---------------------------------------------------------------------------
(* The stream of a client. *)

(* Where a line of length w lies in a stream whose first unit is at p + 1:  *)
(* it begins behind q and ends at r, and the stream ends at z.              *)
LEMMA Window ==
    ASSUME NEW p \in Nat, NEW q \in Nat, NEW r \in Nat, NEW z \in Nat, NEW w \in Nat,
           p <= q, r = q + w + 1, r <= z
    PROVE  /\ r - p \in 1 .. z - p /\ \A i \in 1 .. w : q - p + i \in 1 .. z - p
           /\ q - p \in Nat /\ r - p = q - p + (w + 1)
  OBVIOUS

(* A client begins a line: it comes behind all the others. *)
LEMMA LaidGrows ==
    ASSUME NEW s \in Seq(Unit), NEW ls \in Seq(Lines), NEW m \in Nat, NEW at, Laid(s, ls, m, at),
           NEW l \in Lines
    PROVE  \E b \in [0 .. Len(Append(ls, l)) -> Nat] :
              Laid(s \o Append(l, "nl"), Append(ls, l), m, b)
  <1> DEFINE n == Len(ls)
             ms == Append(ls, l)
             t == Append(l, "nl")
             b == [j \in 0 .. n + 1 |-> IF j <= n THEN at[j] ELSE at[n] + Len(l) + 1]
             u == s \o t
  <1>1. n \in Nat /\ m \in 0 .. n /\ at \in [0 .. n -> Nat] /\ at[n] = at[m] + Len(s)
    BY DEF Laid
  <1>2. \A j, k \in 0 .. n : j <= k => at[j] <= at[k]
    BY DEF Laid
  <1>3. \A k \in 1 .. n : at[k] = at[k - 1] + Len(ls[k]) + 1
    BY DEF Laid
  <1>4. \A k \in m + 1 .. n :
           /\ s[at[k] - at[m]] = "nl"
           /\ \A i \in 1 .. Len(ls[k]) : s[at[k - 1] - at[m] + i] = ls[k][i]
    BY DEF Laid
  <1>5. l \in Seq(Word) /\ Len(l) \in Nat /\ Len(s) \in Nat
    BY SocketConstants
  <1>m. m \in Nat /\ m <= n /\ n \in 0 .. n /\ n + 1 \in 0 .. n + 1
    BY <1>1
  <1>6. /\ t \in Seq(Unit) /\ Len(t) = Len(l) + 1 /\ t[Len(l) + 1] = "nl"
        /\ \A i \in 1 .. Len(l) : t[i] = l[i]
    BY <1>5 DEF Unit
  <1>7. /\ ms \in Seq(Lines) /\ Len(ms) = n + 1 /\ ms[n + 1] = l
        /\ \A k \in 1 .. n : ms[k] = ls[k]
    BY <1>1
  <1> HIDE DEF t, ms
  <1>8. /\ u \in Seq(Unit) /\ Len(u) = Len(s) + Len(l) + 1
        /\ \A i \in 1 .. Len(s) : u[i] = s[i]
        /\ \A i \in 1 .. Len(l) + 1 : u[Len(s) + i] = t[i]
    <2> DEFINE x == Len(s)
    <2>1. /\ u \in Seq(Unit) /\ Len(u) = x + Len(t)
          /\ \A i \in 1 .. x + Len(t) : u[i] = IF i <= x THEN s[i] ELSE t[i - x]
      BY <1>6, ConcatProperties
    <2>2. x \in Nat /\ Len(t) = Len(l) + 1 /\ Len(l) \in Nat
      BY <1>5, <1>6
    <2> HIDE DEF x, u
    <2>3. \A i \in 1 .. x : u[i] = s[i]
      BY <2>1, <2>2
    <2>4. ASSUME NEW i \in 1 .. Len(l) + 1 PROVE u[x + i] = t[i]
      <3>1. x + i \in 1 .. x + Len(t) /\ ~(x + i <= x) /\ (x + i) - x = i
        BY <2>2
      <3> QED
        BY <2>1, <3>1
    <2> QED
      BY <2>1, <2>2, <2>3, <2>4 DEF x
  <1> HIDE DEF u
  <1>9. /\ b \in [0 .. n + 1 -> Nat] /\ b[n + 1] = at[n] + Len(l) + 1
        /\ \A j \in 0 .. n : b[j] = at[j]
    <2> HIDE DEF n
    <2>0. \A j \in 0 .. n : at[j] \in Nat
      BY <1>1
    <2>1. n \in Nat /\ at[n] + Len(l) + 1 \in Nat
      BY <1>1, <1>5, <1>m, <2>0
    <2>2. \A j \in 0 .. n + 1 : b[j] = IF j <= n THEN at[j] ELSE at[n] + Len(l) + 1
      OBVIOUS
    <2>3. n + 1 \in 0 .. n + 1 /\ ~(n + 1 <= n) /\ \A j \in 0 .. n : j \in 0 .. n + 1 /\ j <= n
      BY <2>1
    <2>4. \A j \in 0 .. n + 1 : (IF j <= n THEN at[j] ELSE at[n] + Len(l) + 1) \in Nat
      BY <2>0, <2>1
    <2> QED
      BY <2>2, <2>3, <2>4
  <1> HIDE DEF b, n
  <1>10. b[n + 1] = b[m] + Len(u) /\ m \in 0 .. n + 1
    BY <1>1, <1>5, <1>8, <1>9
  <1>11. \A j, k \in 0 .. n + 1 : j <= k => b[j] <= b[k]
    <2> SUFFICES ASSUME NEW j \in 0 .. n + 1, NEW k \in 0 .. n + 1, j <= k
                 PROVE  b[j] <= b[k]
      OBVIOUS
    <2>1. CASE k <= n
      <3>1. j \in 0 .. n /\ k \in 0 .. n
        BY <1>1, <2>1
      <3> QED
        BY <1>2, <1>9, <3>1
    <2>2. CASE k = n + 1 /\ j <= n
      <3>1. at[j] <= at[n] /\ at[j] \in Nat /\ at[n] \in Nat
        BY <1>1, <1>2, <2>2
      <3> QED
        BY <1>1, <1>5, <1>9, <2>2, <3>1
    <2>3. CASE k = n + 1 /\ j = n + 1
      BY <1>9, <2>3
    <2> QED
      BY <1>1, <2>1, <2>2, <2>3
  <1>12. \A k \in 1 .. n + 1 : b[k] = b[k - 1] + Len(ms[k]) + 1
    <2> SUFFICES ASSUME NEW k \in 1 .. n + 1 PROVE b[k] = b[k - 1] + Len(ms[k]) + 1
      OBVIOUS
    <2>1. CASE k \in 1 .. n
      <3>1. k \in 0 .. n /\ k - 1 \in 0 .. n
        BY <1>1, <2>1
      <3> QED
        BY <1>3, <1>7, <1>9, <2>1, <3>1
    <2>2. CASE k = n + 1
      BY <1>1, <1>7, <1>9, <2>2
    <2> QED
      BY <1>1, <2>1, <2>2
  <1>13. ASSUME NEW k \in m + 1 .. n + 1
         PROVE  /\ u[b[k] - b[m]] = "nl"
                /\ \A i \in 1 .. Len(ms[k]) : u[b[k - 1] - b[m] + i] = ms[k][i]
    <2>1. CASE k <= n
      <3>1. k \in 1 .. n /\ k - 1 \in 0 .. n /\ k \in m + 1 .. n /\ m \in 0 .. n /\ k \in 0 .. n
            /\ m <= k - 1
        BY <1>1, <2>1
      <3>2. ms[k] = ls[k] /\ ls[k] \in Seq(Word)
        BY <1>7, <3>1, SocketConstants DEF n
      <3>3. /\ at[k] \in Nat /\ at[k - 1] \in Nat /\ at[m] \in Nat /\ at[n] \in Nat
            /\ at[m] <= at[k - 1] /\ at[k] <= at[n] /\ Len(ls[k]) \in Nat
            /\ at[k] = at[k - 1] + Len(ls[k]) + 1
        BY <1>1, <1>2, <1>3, <1>m, <3>1, <3>2
      <3>6. at[n] - at[m] = Len(s)
        BY <1>1, <1>5, <3>3
      <3>4. /\ at[k] - at[m] \in 1 .. Len(s)
            /\ \A i \in 1 .. Len(ls[k]) : at[k - 1] - at[m] + i \in 1 .. Len(s)
        <4> DEFINE p == at[m]
                   q == at[k - 1]
                   r == at[k]
                   z == at[n]
                   w == Len(ls[k])
        <4>1. /\ p \in Nat /\ q \in Nat /\ r \in Nat /\ z \in Nat /\ w \in Nat
              /\ p <= q /\ r = q + w + 1 /\ r <= z
          BY <3>3
        <4> HIDE DEF p, q, r, z, w
        <4>2. r - p \in 1 .. z - p /\ \A i \in 1 .. w : q - p + i \in 1 .. z - p
          BY <4>1, Window
        <4> QED
          BY <3>6, <4>2 DEF p, q, r, z, w
      <3>5. b[k] = at[k] /\ b[k - 1] = at[k - 1] /\ b[m] = at[m]
        BY <1>9, <3>1
      <3>7. u[at[k] - at[m]] = "nl"
        BY <1>4, <1>8, <3>1, <3>4
      <3>8. \A i \in 1 .. Len(ls[k]) : u[at[k - 1] - at[m] + i] = ls[k][i]
        BY <1>4, <1>8, <3>1, <3>4
      <3> QED
        BY <3>2, <3>5, <3>7, <3>8
    <2>2. CASE k = n + 1
      <3>1. b[k] - b[m] = Len(s) + (Len(l) + 1) /\ b[k - 1] - b[m] = Len(s)
        BY <1>1, <1>5, <1>9, <2>2
      <3>2. Len(l) + 1 \in 1 .. Len(l) + 1 /\ \A i \in 1 .. Len(l) : i \in 1 .. Len(l) + 1
        BY <1>5
      <3> QED
        BY <1>6, <1>7, <1>8, <2>2, <3>1, <3>2
    <2> QED
      BY <1>1, <2>1, <2>2
  <1>14. Laid(u, ms, m, b)
    BY <1>7, <1>9, <1>10, <1>11, <1>12, <1>13 DEF Laid
  <1> QED
    BY <1>7, <1>9, <1>14 DEF u, t, ms

(* The daemon takes the first line of a stream and its delimiter: it is the *)
(* first line that was not served, and the others stay where they are.      *)
LEMMA LaidServes ==
    ASSUME NEW s \in Seq(Unit), NEW ls \in Seq(Lines), NEW m \in Nat, NEW at, Laid(s, ls, m, at),
           NEW k \in 1 .. Len(s), s[k] = "nl", \A j \in 1 .. k - 1 : s[j] # "nl"
    PROVE  /\ m + 1 \in 1 .. Len(ls) /\ SubSeq(s, 1, k - 1) = ls[m + 1]
           /\ Laid(SubSeq(s, k + 1, Len(s)), ls, m + 1, at)
  <1> DEFINE n == Len(ls)
             u == SubSeq(s, k + 1, Len(s))
  <1>1. n \in Nat /\ m \in 0 .. n /\ at \in [0 .. n -> Nat] /\ at[n] = at[m] + Len(s)
    BY DEF Laid
  <1>2. \A j, i \in 0 .. n : j <= i => at[j] <= at[i]
    BY DEF Laid
  <1>3. \A j \in 1 .. n : at[j] = at[j - 1] + Len(ls[j]) + 1
    BY DEF Laid
  <1>4. \A j \in m + 1 .. n :
           /\ s[at[j] - at[m]] = "nl"
           /\ \A i \in 1 .. Len(ls[j]) : s[at[j - 1] - at[m] + i] = ls[j][i]
    BY DEF Laid
  <1>5. Len(s) \in Nat /\ k \in Nat /\ k >= 1 /\ k <= Len(s)
    OBVIOUS
  <1> HIDE DEF n
  <1>6. m + 1 \in 1 .. n /\ m + 1 \in m + 1 .. n /\ m \in 0 .. n /\ m + 1 \in 0 .. n
    <2>1. m # n
      BY <1>1, <1>5
    <2> QED
      BY <1>1, <2>1
  <1> DEFINE l == ls[m + 1]
  <1>7. l \in Seq(Word) /\ Len(l) \in Nat
    BY <1>6, SocketConstants DEF n
  <1>8. \A i \in 1 .. Len(l) : l[i] \in Word /\ l[i] # "nl"
    BY <1>7 DEF Word
  <1> HIDE DEF l
  <1>9. at[m + 1] = at[m] + Len(l) + 1 /\ at[m] \in Nat /\ at[m + 1] \in Nat
    BY <1>1, <1>3, <1>6 DEF l
  <1>10. s[Len(l) + 1] = "nl"
    <2>1. at[m + 1] - at[m] = Len(l) + 1
      BY <1>7, <1>9
    <2> QED
      BY <1>4, <1>6, <2>1
  <1>11. \A i \in 1 .. Len(l) : s[i] = l[i]
    <2> SUFFICES ASSUME NEW i \in 1 .. Len(l) PROVE s[i] = l[i]
      OBVIOUS
    <2>1. (m + 1) - 1 = m
      BY <1>1
    <2>2. s[at[m] - at[m] + i] = l[i]
      BY <1>4, <1>6, <2>1 DEF l
    <2>3. at[m] - at[m] + i = i
      BY <1>9
    <2> QED
      BY <2>2, <2>3
  <1>12. k = Len(l) + 1
    <2>1. ~(k <= Len(l))
      BY <1>5, <1>8, <1>11
    <2>2. ~(Len(l) + 1 < k)
      BY <1>5, <1>7, <1>10
    <2> QED
      BY <1>5, <1>7, <2>1, <2>2
  <1>13. SubSeq(s, 1, k - 1) = l
    <2>1. k - 1 \in 0 .. Len(s) /\ k - 1 = Len(l)
      BY <1>5, <1>7, <1>12
    <2>2. /\ SubSeq(s, 1, k - 1) \in Seq(Unit) /\ Len(SubSeq(s, 1, k - 1)) = Len(l)
          /\ \A i \in 1 .. Len(l) : SubSeq(s, 1, k - 1)[i] = s[i]
      BY <2>1, Cut
    <2>3. l \in Seq(Unit)
      BY <1>7 DEF Unit
    <2> QED
      BY <1>11, <2>2, <2>3, SeqEqual
  <1>14. /\ u \in Seq(Unit) /\ Len(u) = Len(s) - k
         /\ \A i \in 1 .. Len(s) - k : u[i] = s[k + i]
    BY <1>5, Cut
  <1> HIDE DEF u
  <1>15. at[n] = at[m + 1] + Len(u) /\ m + 1 \in 0 .. n
    BY <1>1, <1>5, <1>6, <1>7, <1>9, <1>12, <1>14
  <1>16. ASSUME NEW j \in m + 2 .. n
         PROVE  /\ u[at[j] - at[m + 1]] = "nl"
                /\ \A i \in 1 .. Len(ls[j]) : u[at[j - 1] - at[m + 1] + i] = ls[j][i]
    <2>1. j \in m + 1 .. n /\ j \in 1 .. n /\ j \in 0 .. n /\ j - 1 \in 0 .. n /\ n \in 0 .. n
          /\ m + 1 <= j - 1 /\ j <= n
      BY <1>1
    <2>2. ls[j] \in Seq(Word) /\ Len(ls[j]) \in Nat
      BY <2>1, SocketConstants DEF n
    <2>3. /\ at[j] \in Nat /\ at[j - 1] \in Nat /\ at[n] \in Nat
          /\ at[j] = at[j - 1] + Len(ls[j]) + 1 /\ at[m + 1] <= at[j - 1] /\ at[j] <= at[n]
      BY <1>1, <1>2, <1>3, <1>6, <2>1
    <2>10. at[n] - at[m + 1] = Len(s) - k
      <3> DEFINE x == at[n]
                 y == at[m + 1]
                 z == Len(s)
      <3>1. x \in Nat /\ y \in Nat /\ z \in Nat /\ x = y + (z - k) /\ k \in Nat
        BY <1>5, <1>9, <1>14, <1>15, <2>3
      <3> HIDE DEF x, y, z
      <3>2. x - y = z - k
        BY <3>1
      <3> QED
        BY <3>2 DEF x, y, z
    <2>4. /\ at[j] - at[m + 1] \in 1 .. Len(s) - k
          /\ \A i \in 1 .. Len(ls[j]) : at[j - 1] - at[m + 1] + i \in 1 .. Len(s) - k
      <3> DEFINE p == at[m + 1]
                 q == at[j - 1]
                 r == at[j]
                 z == at[n]
                 w == Len(ls[j])
      <3>1. /\ p \in Nat /\ q \in Nat /\ r \in Nat /\ z \in Nat /\ w \in Nat
            /\ p <= q /\ r = q + w + 1 /\ r <= z
        BY <1>9, <2>2, <2>3
      <3> HIDE DEF p, q, r, z, w
      <3>2. r - p \in 1 .. z - p /\ \A i \in 1 .. w : q - p + i \in 1 .. z - p
        BY <3>1, Window
      <3> QED
        BY <2>10, <3>2 DEF p, q, r, z, w
    <2>11. k = at[m + 1] - at[m]
      BY <1>7, <1>9, <1>12
    <2>6. k + (at[j] - at[m + 1]) = at[j] - at[m]
      <3> DEFINE x == at[j]
                 y == at[m + 1]
                 z == at[m]
      <3>1. x \in Nat /\ y \in Nat /\ z \in Nat /\ k = y - z
        BY <1>9, <2>3, <2>11
      <3> HIDE DEF x, y, z
      <3>2. k + (x - y) = x - z
        BY <3>1
      <3> QED
        BY <3>2 DEF x, y, z
    <2>7. \A i \in 1 .. Len(ls[j]) : k + (at[j - 1] - at[m + 1] + i) = at[j - 1] - at[m] + i
      <3> DEFINE x == at[j - 1]
                 y == at[m + 1]
                 z == at[m]
                 w == Len(ls[j])
      <3>1. x \in Nat /\ y \in Nat /\ z \in Nat /\ k = y - z /\ w \in Nat
        BY <1>9, <2>2, <2>3, <2>11
      <3> HIDE DEF x, y, z, w
      <3>2. \A i \in 1 .. w : k + (x - y + i) = x - z + i
        BY <3>1
      <3> QED
        BY <3>2 DEF x, y, z, w
    <2>8. u[at[j] - at[m + 1]] = "nl"
      BY <1>4, <1>14, <2>1, <2>4, <2>6
    <2>9. ASSUME NEW i \in 1 .. Len(ls[j]) PROVE u[at[j - 1] - at[m + 1] + i] = ls[j][i]
      <3> DEFINE x == at[j - 1] - at[m + 1] + i
      <3>1. x \in 1 .. Len(s) - k /\ k + x = at[j - 1] - at[m] + i
        BY <2>4, <2>7
      <3>2. s[at[j - 1] - at[m] + i] = ls[j][i]
        BY <1>4, <2>1
      <3> HIDE DEF x
      <3>3. u[x] = s[k + x]
        BY <1>14, <3>1
      <3> QED
        BY <3>1, <3>2, <3>3 DEF x
    <2> QED
      BY <2>8, <2>9
  <1>17. (m + 1) + 1 = m + 2
    BY <1>1
  <1>18. Laid(u, ls, m + 1, at)
    BY <1>1, <1>2, <1>3, <1>15, <1>16, <1>17 DEF Laid, n
  <1> QED
    BY <1>6, <1>13, <1>18 DEF n, l, u

LEMMA UnitsAssociative ==
    \A s, t, u \in Seq(Unit) : s \o t \in Seq(Unit) /\ (s \o t) \o u = s \o (t \o u)
  OBVIOUS

LEMMA StreamType ==
    ASSUME Types, NEW c \in Client
    PROVE  /\ conn[c].recv \in Seq(Unit) /\ wire[c] \in Seq(Unit) /\ line[c] \in Seq(Unit)
           /\ Stream(c) \in Seq(Unit) /\ sent[c] \in Seq(Lines) /\ Len(served[c]) \in Nat
           /\ served[c] \in Seq(Seq(Unit))
  <1>1. /\ conn[c].recv \in Seq(Unit) /\ wire[c] \in Seq(Unit) /\ line[c] \in Seq(Unit)
        /\ sent[c] \in Seq(Lines) /\ served[c] \in Seq(Seq(Unit))
    BY DEF Types, Connection
  <1> QED
    BY <1>1, UnitsAssociative DEF Stream

(* What is taken from the front of a concatenation. *)
LEMMA Front ==
    ASSUME NEW r \in Seq(Unit), NEW y \in Seq(Unit), NEW k \in 1 .. Len(r)
    PROVE  /\ k \in 1 .. Len(r \o y) /\ \A j \in 1 .. k : (r \o y)[j] = r[j]
           /\ SubSeq(r \o y, 1, k - 1) = SubSeq(r, 1, k - 1)
           /\ SubSeq(r \o y, k + 1, Len(r \o y)) = SubSeq(r, k + 1, Len(r)) \o y
  <1> DEFINE s == r \o y
             a == SubSeq(r, k + 1, Len(r))
             n == Len(r)
             m == Len(y)
  <1>1. n \in Nat /\ m \in Nat /\ k \in Nat /\ 1 <= k /\ k <= n
    OBVIOUS
  <1>2. /\ s \in Seq(Unit) /\ Len(s) = n + m
        /\ \A i \in 1 .. n + m : s[i] = IF i <= n THEN r[i] ELSE y[i - n]
    BY ConcatProperties
  <1>3. /\ a \in Seq(Unit) /\ Len(a) = n - k /\ \A i \in 1 .. n - k : a[i] = r[k + i]
    BY <1>1, Cut
  <1>4. /\ a \o y \in Seq(Unit) /\ Len(a \o y) = (n - k) + m
        /\ \A i \in 1 .. (n - k) + m : (a \o y)[i] = IF i <= n - k THEN a[i] ELSE y[i - (n - k)]
    <2> HIDE DEF a
    <2>1. /\ a \o y \in Seq(Unit) /\ Len(a \o y) = Len(a) + Len(y)
          /\ \A i \in 1 .. Len(a) + Len(y) :
                (a \o y)[i] = IF i <= Len(a) THEN a[i] ELSE y[i - Len(a)]
      BY <1>3, ConcatProperties
    <2>2. Len(a) = n - k /\ Len(y) = m
      BY <1>3
    <2> HIDE DEF n, m
    <2> QED
      BY <2>1, <2>2
  <1>5. k \in 0 .. Len(s) /\ k - 1 \in 0 .. Len(s) /\ k - 1 \in 0 .. Len(r)
    BY <1>1, <1>2
  <1> HIDE DEF s
  <1>6. /\ SubSeq(s, k + 1, Len(s)) \in Seq(Unit) /\ Len(SubSeq(s, k + 1, Len(s))) = (n + m) - k
        /\ \A i \in 1 .. (n + m) - k : SubSeq(s, k + 1, Len(s))[i] = s[k + i]
    BY <1>2, <1>5, Cut
  <1>7. /\ SubSeq(s, 1, k - 1) \in Seq(Unit) /\ Len(SubSeq(s, 1, k - 1)) = k - 1
        /\ \A i \in 1 .. k - 1 : SubSeq(s, 1, k - 1)[i] = s[i]
    BY <1>2, <1>5, Cut
  <1>8. /\ SubSeq(r, 1, k - 1) \in Seq(Unit) /\ Len(SubSeq(r, 1, k - 1)) = k - 1
        /\ \A i \in 1 .. k - 1 : SubSeq(r, 1, k - 1)[i] = r[i]
    BY <1>5, Cut
  <1> HIDE DEF a, n, m
  <1>9. \A j \in 1 .. k : s[j] = r[j]
    BY <1>1, <1>2
  <1>10. SubSeq(s, 1, k - 1) = SubSeq(r, 1, k - 1)
    <2>1. \A i \in 1 .. k - 1 : SubSeq(s, 1, k - 1)[i] = SubSeq(r, 1, k - 1)[i]
      BY <1>1, <1>7, <1>8, <1>9
    <2> QED
      BY <1>7, <1>8, <2>1, SeqEqual
  <1>11. SubSeq(s, k + 1, Len(s)) = a \o y
    <2> DEFINE u == SubSeq(s, k + 1, Len(s))
               v == a \o y
    <2>1. (n + m) - k = (n - k) + m
      BY <1>1
    <2>2. ASSUME NEW i \in 1 .. (n - k) + m PROVE u[i] = v[i]
      <3>1. u[i] = s[k + i]
        BY <1>6, <2>1
      <3>2. CASE i <= n - k
        <4>1. k + i \in 1 .. n + m /\ k + i <= n /\ i \in 1 .. n - k
          BY <1>1, <3>2
        <4> QED
          BY <1>2, <1>3, <1>4, <3>1, <3>2, <4>1
      <3>3. CASE ~(i <= n - k)
        <4>1. k + i \in 1 .. n + m /\ ~(k + i <= n) /\ (k + i) - n = i - (n - k)
          BY <1>1, <3>3
        <4> QED
          BY <1>2, <1>4, <3>1, <3>3, <4>1
      <3> QED
        BY <3>2, <3>3
    <2>3. u \in Seq(Unit) /\ v \in Seq(Unit) /\ Len(u) = (n - k) + m /\ Len(v) = (n - k) + m
      BY <1>4, <1>6, <2>1
    <2> HIDE DEF u, v
    <2>4. u = v
      BY <2>2, <2>3, SeqEqual
    <2> QED
      BY <2>4 DEF u, v
  <1>12. k \in 1 .. Len(s)
    BY <1>1, <1>2
  <1> QED
    BY <1>9, <1>10, <1>11, <1>12 DEF s, a, n

(* A step leaves the stream of a client as it is, adds a line that the      *)
(* client begins, or takes the first one, which is then served.             *)
StreamKept(c) == Stream(c)' = Stream(c) /\ sent'[c] = sent[c] /\ served'[c] = served[c]
StreamGrown(c) ==
    /\ served'[c] = served[c]
    /\ \E l \in Lines : sent'[c] = Append(sent[c], l) /\ Stream(c)' = Stream(c) \o Append(l, "nl")
StreamServed(c) ==
    /\ sent'[c] = sent[c]
    /\ \E k \in 1 .. Len(Stream(c)) :
          /\ Stream(c)[k] = "nl" /\ \A j \in 1 .. k - 1 : Stream(c)[j] # "nl"
          /\ served'[c] = Append(served[c], SubSeq(Stream(c), 1, k - 1))
          /\ Stream(c)' = SubSeq(Stream(c), k + 1, Len(Stream(c)))

LEMMA PutMoves ==
    ASSUME NEW r \in Seq(Unit), NEW w \in Seq(Unit), NEW u \in Seq(Unit), u # <<>>
    PROVE  (r \o Append(w, Head(u))) \o Tail(u) = (r \o w) \o u
  <1> DEFINE h == <<Head(u)>>
             v == Tail(u)
  <1>1. h \in Seq(Unit) /\ v \in Seq(Unit) /\ h \o v = u /\ Append(w, Head(u)) = w \o h
    <2>1. Len(u) \in Nat /\ 1 \in 1 .. Len(u) /\ Len(u) \in 1 .. Len(u) /\ Head(u) = u[1] /\ u[1] \in Unit
      BY EmptySeq
    <2>2. SubSeq(u, 1, Len(u)) = <<u[1]>> \o SubSeq(u, 1 + 1, Len(u))
      BY <2>1, SubSeqRecursiveFirst
    <2>3. SubSeq(u, 1, Len(u)) = u /\ Tail(u) = SubSeq(u, 2, Len(u))
      BY SubSeqFull, TailIsSubSeq
    <2>4. Append(w, u[1]) = w \o <<u[1]>>
      BY <2>1, AppendIsConcat
    <2>5. h \in Seq(Unit) /\ v \in Seq(Unit)
      BY <2>1, HeadTailProperties
    <2> QED
      BY <2>1, <2>2, <2>3, <2>4, <2>5
  <1> HIDE DEF h, v
  <1>h. h \in Seq(Unit) /\ v \in Seq(Unit)
    BY <1>1
  <1>2. (r \o w) \o h = r \o (w \o h)
    BY <1>h, UnitsAssociative
  <1>3. r \o w \in Seq(Unit)
    BY UnitsAssociative
  <1>4. ((r \o w) \o h) \o v = (r \o w) \o (h \o v)
    BY <1>1, <1>3, UnitsAssociative
  <1> QED
    BY <1>1, <1>2, <1>4 DEF v

LEMMA ClientStream ==
    ASSUME CoreInv, NEW d \in Client, Connect(d) \/ Send(d) \/ HangUp(d), NEW c \in Client
    PROVE  StreamKept(c) \/ StreamGrown(c)
  <1>0. Types
    BY DEF CoreInv
  <1>1. /\ UNCHANGED <<conn, served>>
        /\ conn[c].recv \in Seq(Unit) /\ wire[c] \in Seq(Unit) /\ line[c] \in Seq(Unit)
    BY <1>0, StreamType DEF Connect, Send, HangUp, past
  <1>2. CASE Connect(d) \/ HangUp(d) \/ c # d
    <2>1. line'[c] = line[c] /\ wire'[c] = wire[c] /\ sent'[c] = sent[c]
      BY <1>0, <1>2 DEF Connect, HangUp, Send, Put, Types
    <2> QED
      BY <1>1, <2>1 DEF StreamKept, Stream
  <1>3. CASE Send(d) /\ c = d
    <2>1. ASSUME NEW u \in Seq(Unit), u # <<>>, Put(c, u)
          PROVE  Stream(c)' = (conn[c].recv \o wire[c]) \o u
      <3>1. wire'[c] = Append(wire[c], Head(u)) /\ line'[c] = Tail(u)
        BY <1>0, <2>1 DEF Put, Types
      <3>2. Stream(c)' = (conn[c].recv \o Append(wire[c], Head(u))) \o Tail(u)
        BY <1>1, <3>1 DEF Stream
      <3> QED
        BY <1>1, <2>1, <3>2, PutMoves
    <2>2. ASSUME NEW l \in Lines, line[c] = <<>>, Put(c, Append(l, "nl")),
                 sent' = [sent EXCEPT ![c] = Append(@, l)]
          PROVE  StreamGrown(c)
      <3>1. l \in Seq(Word)
        BY SocketConstants
      <3>2. Append(l, "nl") \in Seq(Unit) /\ Append(l, "nl") # <<>>
        BY <3>1 DEF Unit
      <3>3. Stream(c)' = (conn[c].recv \o wire[c]) \o Append(l, "nl")
        BY <2>1, <2>2, <3>2
      <3>4. conn[c].recv \o wire[c] \in Seq(Unit)
        BY <1>1, UnitsAssociative
      <3>5. Stream(c) = conn[c].recv \o wire[c]
        BY <2>2, <3>4, ConcatEmptySeq DEF Stream
      <3>6. sent'[c] = Append(sent[c], l)
        BY <1>0, <2>2 DEF Types
      <3> QED
        BY <1>1, <3>3, <3>5, <3>6 DEF StreamGrown
    <2>3. ASSUME line[c] # <<>>, Put(c, line[c]), UNCHANGED sent
          PROVE  StreamKept(c)
      <3>1. Stream(c)' = (conn[c].recv \o wire[c]) \o line[c]
        BY <1>1, <2>1, <2>3
      <3> QED
        BY <1>1, <2>3, <3>1 DEF StreamKept, Stream
    <2> QED
      BY <1>3, <2>2, <2>3 DEF Send
  <1> QED
    BY <1>2, <1>3

LEMMA ReceiveStream ==
    ASSUME CoreInv, Receive, NEW c \in Client, net'[c] # "closed"
    PROVE  net[c] # "closed" /\ StreamKept(c)
  <1> DEFINE d == Current
             n == Taken(d)
             front == SubSeq(wire[d], 1, n)
             rest == SubSeq(wire[d], n + 1, Len(wire[d]))
  <1>0. Types /\ SizesOK /\ SlotsOK /\ pc = "recv"
    BY DEF CoreInv, Receive
  <1>1. d \in Client
    BY <1>0, CurrentHeld
  <1>2. /\ n \in 0 .. Len(wire[d]) /\ wire' = [wire EXCEPT ![d] = rest]
        /\ UNCHANGED <<line, sent, served>>
        /\ \/ (Drop("hungup") \/ Drop("binary")) /\ UNCHANGED conn
           \/ conn' = [conn EXCEPT ![d].recv = conn[d].recv \o front] /\ UNCHANGED net
    BY <1>0, ReceiveTakes
  <1>3. /\ conn[d].recv \in Seq(Unit) /\ wire[d] \in Seq(Unit) /\ line[d] \in Seq(Unit)
    BY <1>0, <1>1, StreamType
  <1>4. front \in Seq(Unit) /\ rest \in Seq(Unit) /\ front \o rest = wire[d]
    BY <1>2, <1>3, Cut
  <1> HIDE DEF front, rest, n, d
  <1>5. CASE (Drop("hungup") \/ Drop("binary")) /\ UNCHANGED conn
    <2>1. \A e \in Client : net'[e] = IF e = d THEN "closed" ELSE net[e]
      BY <1>0, <1>5, DropFrees DEF d
    <2>2. c # d /\ net[c] # "closed"
      BY <2>1
    <2>3. wire'[c] = wire[c] /\ conn'[c] = conn[c] /\ line'[c] = line[c]
          /\ sent'[c] = sent[c] /\ served'[c] = served[c]
      BY <1>0, <1>2, <1>5, <2>2 DEF Types
    <2> QED
      BY <2>2, <2>3 DEF StreamKept, Stream
  <1>6. CASE conn' = [conn EXCEPT ![d].recv = conn[d].recv \o front] /\ UNCHANGED net
    <2>1. CASE c # d
      <3>1. wire'[c] = wire[c] /\ conn'[c] = conn[c] /\ line'[c] = line[c]
            /\ sent'[c] = sent[c] /\ served'[c] = served[c]
        BY <1>0, <1>2, <1>6, <2>1 DEF Types
      <3> QED
        BY <1>6, <3>1 DEF StreamKept, Stream
    <2>2. CASE c = d
      <3>1. /\ wire'[c] = rest /\ conn'[c].recv = conn[d].recv \o front
            /\ line'[c] = line[c] /\ sent'[c] = sent[c] /\ served'[c] = served[c]
        BY <1>0, <1>1, <1>2, <1>6, <2>2 DEF Types, Connection
      <3>2. (conn[d].recv \o front) \o rest = conn[d].recv \o wire[d]
        <4>1. (conn[d].recv \o front) \o rest = conn[d].recv \o (front \o rest)
          <5> DEFINE r == conn[d].recv
          <5>1. r \in Seq(Unit) /\ front \in Seq(Unit) /\ rest \in Seq(Unit)
            BY <1>3, <1>4
          <5> HIDE DEF r
          <5>2. (r \o front) \o rest = r \o (front \o rest)
            BY <5>1, UnitsAssociative
          <5> QED
            BY <5>2 DEF r
        <4> QED
          BY <1>4, <4>1
      <3> QED
        BY <1>6, <2>2, <3>1, <3>2 DEF StreamKept, Stream
    <2> QED
      BY <2>1, <2>2
  <1> QED
    BY <1>2, <1>5, <1>6

LEMMA HandleLineStream ==
    ASSUME CoreInv, HandleLine, NEW c \in Client
    PROVE  UNCHANGED net /\ (StreamKept(c) \/ (net[c] # "closed" /\ StreamServed(c)))
  <1> DEFINE d == Current
  <1>0. Types /\ SizesOK /\ SlotsOK /\ pc = "lines"
    BY DEF CoreInv, HandleLine
  <1>1. d \in Client
    BY <1>0, CurrentHeld
  <1>2. PICK k \in Nat : LineServed(d, k)
    BY <1>0, HandleLineServes
  <1>3. UNCHANGED <<net, line, wire, sent>>
    BY DEF HandleLine, client
  <1> DEFINE recv == conn[d].recv
             more == wire[d] \o line[d]
  <1>4. /\ k \in 1 .. Len(recv) /\ recv[k] = "nl" /\ \A j \in 1 .. k - 1 : recv[j] # "nl"
        /\ conn'[d].recv = SubSeq(recv, k + 1, Len(recv))
        /\ \A e \in Client \ {d} : conn'[e].recv = conn[e].recv
        /\ served' = [served EXCEPT ![d] = Append(@, SubSeq(recv, 1, k - 1))]
    BY <1>2 DEF LineServed
  <1>5. recv \in Seq(Unit) /\ wire[d] \in Seq(Unit) /\ line[d] \in Seq(Unit)
    BY <1>0, <1>1, StreamType
  <1> HIDE DEF d
  <1>6. CASE c # d
    <2>1. conn'[c].recv = conn[c].recv /\ served'[c] = served[c]
      BY <1>0, <1>4, <1>6 DEF Types
    <2> QED
      BY <1>3, <2>1 DEF StreamKept, Stream
  <1>7. CASE c = d
    <2>1. more \in Seq(Unit) /\ Stream(c) = recv \o more
      BY <1>5, <1>7, UnitsAssociative DEF Stream
    <2> HIDE DEF recv
    <2>2. SubSeq(recv, k + 1, Len(recv)) \in Seq(Unit)
      <3>1. k \in 0 .. Len(recv)
        BY <1>4, <1>5
      <3> QED
        BY <1>5, <3>1, Cut
    <2>3. Stream(c)' = SubSeq(recv, k + 1, Len(recv)) \o more
      <3> DEFINE r == SubSeq(recv, k + 1, Len(recv))
      <3>1. Stream(c)' = (r \o wire[d]) \o line[d]
        BY <1>3, <1>4, <1>7 DEF Stream
      <3>2. r \in Seq(Unit) /\ wire[d] \in Seq(Unit) /\ line[d] \in Seq(Unit)
        BY <1>5, <2>2
      <3> HIDE DEF r
      <3>3. (r \o wire[d]) \o line[d] = r \o (wire[d] \o line[d])
        BY <3>2, UnitsAssociative
      <3> QED
        BY <3>1, <3>3 DEF r
    <2> HIDE DEF more
    <2>4. /\ k \in 1 .. Len(recv \o more) /\ \A j \in 1 .. k : (recv \o more)[j] = recv[j]
          /\ SubSeq(recv \o more, 1, k - 1) = SubSeq(recv, 1, k - 1)
          /\ SubSeq(recv \o more, k + 1, Len(recv \o more))
                = SubSeq(recv, k + 1, Len(recv)) \o more
      BY <1>4, <1>5, <2>1, Front
    <2>5. served'[c] = Append(served[c], SubSeq(recv, 1, k - 1))
      BY <1>0, <1>1, <1>4, <1>7 DEF Types, d
    <2>6. \A j \in 1 .. k - 1 : j \in 1 .. k
      OBVIOUS
    <2>7. k \in 1 .. k
      BY <1>4, <1>5
    <2>8. Stream(c)[k] = "nl" /\ \A j \in 1 .. k - 1 : Stream(c)[j] # "nl"
      BY <1>4, <2>1, <2>4, <2>6, <2>7
    <2>9. StreamServed(c)
      BY <1>3, <2>1, <2>3, <2>4, <2>5, <2>8 DEF StreamServed
    <2>10. net[c] # "closed"
      BY <1>0, <1>7, CurrentHeld DEF d
    <2> QED
      BY <1>3, <2>9, <2>10
  <1> QED
    BY <1>3, <1>6, <1>7

LEMMA AnswerKeeps ==
    ASSUME CoreInv, Answer, NEW c \in Client
    PROVE  conn'[c].recv = conn[c].recv /\ conn'[c].auth = conn[c].auth
  <1> DEFINE d == Current
  <1>0. Types /\ d \in Client
    BY CurrentHeld DEF CoreInv, Answer
  <1>1. UNCHANGED conn \/ \E n \in 0 .. Len(conn[d].send) : Sending(d, n)
    BY DEF Answer, Sending
  <1> HIDE DEF d
  <1>2. ASSUME NEW n \in 0 .. Len(conn[d].send), Sending(d, n)
        PROVE  conn'[c].recv = conn[c].recv /\ conn'[c].auth = conn[c].auth
    <2> DEFINE b == f2b_buf_splice(conn[d].send, n)
    <2>1. conn' = [conn EXCEPT ![d].send = b]
      BY <1>2 DEF Sending
    <2> HIDE DEF b
    <2>2. conn[d] \in Connection
      BY <1>0 DEF Types
    <2> QED
      BY <1>0, <2>1, <2>2 DEF Types, Connection
  <1> QED
    BY <1>1, <1>2

LEMMA StreamStep ==
    ASSUME CoreInv, [Next]_vars, NEW c \in Client, net'[c] # "closed"
    PROVE  net[c] # "closed" /\ (StreamKept(c) \/ StreamGrown(c) \/ StreamServed(c))
  <1>0. Types /\ SizesOK /\ SlotsOK /\ FreshOK
    BY DEF CoreInv
  <1>1. CASE Select \/ Accepted \/ Visit \/ Ended \/ UNCHANGED vars
    BY <1>1 DEF Select, Accepted, Visit, Ended, vars, client, past, StreamKept, Stream
  <1>2. CASE f2b_csocket_destroy
    BY <1>2 DEF f2b_csocket_destroy
  <1>3. ASSUME NEW l \in {Local, Remote}, Accept(l)
        PROVE  net[c] # "closed" /\ StreamKept(c)
    <2>1. UNCHANGED <<line, wire, sent, served>> /\ pc = "accept"
      BY <1>3 DEF Accept, past
    <2>2. CASE UNCHANGED <<net, conn, slot>>
      BY <2>1, <2>2 DEF StreamKept, Stream
    <2>3. ASSUME NEW d \in l, Accepting(d)
          PROVE  net[c] # "closed" /\ StreamKept(c)
      <3>1. d \in Client
        BY SocketConstants
      <3>2. NewConn(d \in Local).recv = <<>>
        BY DEF NewConn
      <3>3. conn[d].recv = <<>>
        BY <1>0, <2>3, <3>1, NewConnType DEF Accepting, FreshOK
      <3>4. conn'[c].recv = conn[c].recv
        BY <1>0, <2>3, <3>1, <3>2, <3>3 DEF Accepting, Types
      <3>5. net[c] # "closed"
        BY <1>0, <2>3 DEF Accepting, Types
      <3> QED
        BY <2>1, <3>4, <3>5 DEF StreamKept, Stream
    <2> QED
      BY <1>3, <2>2, <2>3 DEF Accept, Accepting
  <1>4. CASE JailEvent
    <2>1. UNCHANGED client /\ UNCHANGED served /\ conn'[c].recv = conn[c].recv
      BY <1>0, <1>4, JailEventSays DEF JailEvent
    <2> QED
      BY <2>1 DEF client, StreamKept, Stream
  <1>5. CASE Receive
    BY <1>5, ReceiveStream
  <1>6. CASE HandleLine
    BY <1>6, HandleLineStream
  <1>7. ASSUME NEW why \in {"hungup", "binary", "overflow"}, Drop(why),
               pc \in {"recv", "lines", "send"}
        PROVE  net[c] # "closed"
    BY <1>0, <1>7, DropFrees
  <1>8. CASE LinesDone
    <2>1. StreamKept(c)
      BY <1>8 DEF LinesDone, StreamKept, Stream
    <2>2. net[c] # "closed"
      BY <1>7, <1>8 DEF LinesDone
    <2> QED
      BY <2>1, <2>2
  <1>9. CASE Answer
    <2>1. UNCHANGED <<line, wire, sent, served>> /\ pc = "send"
      BY <1>9 DEF Answer
    <2>2. Current \in Client
      BY <1>0, <2>1, CurrentHeld
    <2>3. conn'[c].recv = conn[c].recv
      BY <1>9, AnswerKeeps
    <2>4. net[c] # "closed"
      BY <1>7, <1>9, <2>1 DEF Answer
    <2> QED
      BY <2>1, <2>3, <2>4 DEF StreamKept, Stream
  <1>10. ASSUME NEW d \in Client, Connect(d) \/ Send(d) \/ HangUp(d)
         PROVE  net[c] # "closed" /\ (StreamKept(c) \/ StreamGrown(c))
    <2>1. net[c] # "closed"
      BY <1>0, <1>10 DEF Connect, Send, HangUp, Types
    <2> QED
      BY <1>10, <2>1, ClientStream
  <1> QED
    BY <1>1, <1>2, <1>3, <1>4, <1>5, <1>6, <1>8, <1>9, <1>10 DEF Next, Poll

(* Lines once begun and lines once served stay in the history. *)
LEMMA HistoryStep ==
    ASSUME CoreInv, [Next]_vars, NEW c \in Client
    PROVE  /\ sent'[c] = sent[c] \/ \E l \in Lines : sent'[c] = Append(sent[c], l)
           /\ served'[c] = served[c] \/ (net[c] # "closed" /\ StreamServed(c))
  <1>0. Types /\ SizesOK /\ SlotsOK
    BY DEF CoreInv
  <1>1. CASE HandleLine
    BY <1>1, HandleLineStream DEF StreamKept, StreamServed
  <1>2. ASSUME NEW d \in Client, Connect(d) \/ Send(d) \/ HangUp(d)
        PROVE  /\ sent'[c] = sent[c] \/ \E l \in Lines : sent'[c] = Append(sent[c], l)
               /\ served'[c] = served[c]
    BY <1>2, ClientStream DEF StreamKept, StreamGrown
  <1>3. CASE \/ Select \/ Accepted \/ Visit \/ Ended \/ UNCHANGED vars \/ f2b_csocket_destroy
             \/ (\E l \in {Local, Remote} : Accept(l)) \/ JailEvent \/ Receive \/ LinesDone \/ Answer
    <2>1. UNCHANGED <<sent, served>>
      BY <1>3 DEF Select, Accepted, Visit, Ended, vars, f2b_csocket_destroy, Accept, JailEvent,
                  Receive, LinesDone, Answer, client, past
    <2> QED
      BY <2>1
  <1> QED
    BY <1>1, <1>2, <1>3 DEF Next, Poll

---------------------------------------------------------------------------
(* The lines served are the lines sent. *)

LEMMA StreamInit == Init => StreamOK /\ InOrder
  <1> SUFFICES ASSUME Init PROVE StreamOK /\ InOrder
    OBVIOUS
  <1>1. ASSUME NEW c \in Client
        PROVE  \E at \in [0 .. Len(sent[c]) -> Nat] :
                  Laid(Stream(c), sent[c], Len(served[c]), at)
    <2>1. /\ sent[c] = <<>> /\ served[c] = <<>> /\ wire[c] = <<>> /\ line[c] = <<>>
          /\ conn[c].recv = <<>>
      BY NewConnType DEF Init
    <2>2. Stream(c) = <<>>
      BY <2>1 DEF Stream
    <2> DEFINE at == [j \in 0 .. 0 |-> 0]
    <2>3. at \in [0 .. 0 -> Nat] /\ at[0] = 0
      OBVIOUS
    <2> HIDE DEF at
    <2>4. Len(<<>>) = 0
      OBVIOUS
    <2>5. Laid(<<>>, <<>>, 0, at)
      BY <2>3, <2>4 DEF Laid
    <2> QED
      BY <2>1, <2>2, <2>3, <2>4, <2>5
  <1>2. InOrder
    BY DEF Init, InOrder
  <1> QED
    BY <1>1, <1>2 DEF StreamOK

LEMMA StreamOKStep ==
    ASSUME CoreInv, StreamOK, [Next]_vars
    PROVE  StreamOK'
  <1> SUFFICES ASSUME NEW c \in Client, net'[c] # "closed"
               PROVE  \E at \in [0 .. Len(sent'[c]) -> Nat] :
                         Laid(Stream(c)', sent'[c], Len(served'[c]), at)
    BY DEF StreamOK, Laid, Stream
  <1> DEFINE s == Stream(c)
             ls == sent[c]
             m == Len(served[c])
  <1>0. Types
    BY DEF CoreInv
  <1>1. net[c] # "closed" /\ (StreamKept(c) \/ StreamGrown(c) \/ StreamServed(c))
    BY StreamStep
  <1>2. s \in Seq(Unit) /\ ls \in Seq(Lines) /\ m \in Nat /\ served[c] \in Seq(Seq(Unit))
    BY <1>0, StreamType
  <1>3. PICK at \in [0 .. Len(ls) -> Nat] : Laid(s, ls, m, at)
    BY <1>1 DEF StreamOK
  <1> HIDE DEF s, ls, m
  <1>4. CASE StreamKept(c)
    BY <1>3, <1>4 DEF StreamKept, s, ls, m
  <1>5. CASE StreamGrown(c)
    <2>1. PICK l \in Lines : sent'[c] = Append(ls, l) /\ Stream(c)' = s \o Append(l, "nl")
      BY <1>5 DEF StreamGrown, s, ls
    <2>2. \E b \in [0 .. Len(Append(ls, l)) -> Nat] : Laid(s \o Append(l, "nl"), Append(ls, l), m, b)
      BY <1>2, <1>3, LaidGrows
    <2>3. Len(served'[c]) = m
      BY <1>5 DEF StreamGrown, m
    <2> QED
      BY <2>1, <2>2, <2>3
  <1>6. CASE StreamServed(c)
    <2>1. PICK k \in 1 .. Len(s) :
             /\ s[k] = "nl" /\ \A j \in 1 .. k - 1 : s[j] # "nl"
             /\ served'[c] = Append(served[c], SubSeq(s, 1, k - 1))
             /\ Stream(c)' = SubSeq(s, k + 1, Len(s))
      BY <1>6 DEF StreamServed, s
    <2>2. Laid(SubSeq(s, k + 1, Len(s)), ls, m + 1, at)
      BY <1>2, <1>3, <2>1, LaidServes
    <2>3. sent'[c] = ls /\ Len(served'[c]) = m + 1
      BY <1>2, <1>6, <2>1 DEF StreamServed, ls, m
    <2> QED
      BY <1>3, <2>1, <2>2, <2>3
  <1> QED
    BY <1>1, <1>4, <1>5, <1>6

(* A stream that holds a delimiter in front holds a line in front of it:    *)
(* the first that was not served.                                           *)
LEMMA LaidFirst ==
    ASSUME NEW s \in Seq(Unit), NEW ls \in Seq(Lines), NEW m \in Nat, NEW at, Laid(s, ls, m, at),
           Len(s) >= 1
    PROVE  m + 1 \in 1 .. Len(ls) /\ Len(ls[m + 1]) + 1 \in 1 .. Len(s) /\ s[Len(ls[m + 1]) + 1] = "nl"
           /\ \A i \in 1 .. Len(ls[m + 1]) : s[i] = ls[m + 1][i]
  <1> DEFINE n == Len(ls)
             x == at[m]
             y == at[m + 1]
             z == at[n]
             w == Len(ls[m + 1])
  <1>1. /\ n \in Nat /\ m \in 0 .. n /\ at \in [0 .. n -> Nat] /\ z = x + Len(s)
        /\ \A j, k \in 0 .. n : j <= k => at[j] <= at[k]
        /\ \A k \in 1 .. n : at[k] = at[k - 1] + Len(ls[k]) + 1
        /\ \A k \in m + 1 .. n :
              /\ s[at[k] - at[m]] = "nl"
              /\ \A i \in 1 .. Len(ls[k]) : s[at[k - 1] - at[m] + i] = ls[k][i]
    BY DEF Laid
  <1>2. m # n
    BY <1>1
  <1>3. m + 1 \in 1 .. n /\ m + 1 \in m + 1 .. n /\ m + 1 \in 0 .. n /\ n \in 0 .. n
        /\ (m + 1) - 1 = m /\ m + 1 <= n
    BY <1>1, <1>2
  <1>4. w \in Nat
    BY <1>3, SocketConstants
  <1>5. x \in Nat /\ y \in Nat /\ z \in Nat /\ y = x + w + 1 /\ y <= z
    BY <1>1, <1>3
  <1>6. s[y - x] = "nl"
    BY <1>1, <1>3
  <1>7. Len(s) \in Nat /\ z = x + Len(s)
    BY <1>1
  <1>9. \A i \in 1 .. w : s[(x - x) + i] = ls[m + 1][i]
    BY <1>1, <1>3
  <1> HIDE DEF x, y, z, w
  <1>8. y - x = w + 1 /\ w + 1 \in 1 .. Len(s)
    BY <1>4, <1>5, <1>7
  <1>10. \A i \in 1 .. w : (x - x) + i = i
    BY <1>4, <1>5
  <1>11. \A i \in 1 .. w : s[i] = ls[m + 1][i]
    BY <1>9, <1>10
  <1> QED
    BY <1>3, <1>6, <1>8, <1>11 DEF w, n

LEMMA InOrderStep ==
    ASSUME CoreInv, StreamOK, InOrder, [Next]_vars
    PROVE  InOrder'
  <1>0. Types
    BY DEF CoreInv
  <1> SUFFICES ASSUME NEW c \in Client
               PROVE  /\ Len(served'[c]) <= Len(sent'[c])
                      /\ \A i \in DOMAIN served'[c] : served'[c][i] = sent'[c][i]
    BY DEF InOrder
  <1> DEFINE s == Stream(c)
             ls == sent[c]
             vs == served[c]
             m == Len(vs)
  <1>1. /\ s \in Seq(Unit) /\ ls \in Seq(Lines) /\ m \in Nat /\ vs \in Seq(Seq(Unit))
        /\ m <= Len(ls) /\ \A i \in DOMAIN vs : vs[i] = ls[i]
    BY <1>0, StreamType DEF InOrder
  <1>2. /\ sent'[c] = ls \/ \E l \in Lines : sent'[c] = Append(ls, l)
        /\ served'[c] = vs \/ (net[c] # "closed" /\ StreamServed(c))
    BY HistoryStep
  <1>3. CASE net[c] # "closed" /\ StreamServed(c)
    <2>1. PICK k \in 1 .. Len(s) :
             /\ s[k] = "nl" /\ \A j \in 1 .. k - 1 : s[j] # "nl"
             /\ served'[c] = Append(vs, SubSeq(s, 1, k - 1))
      BY <1>3 DEF StreamServed
    <2>2. PICK at \in [0 .. Len(ls) -> Nat] : Laid(s, ls, m, at)
      BY <1>3 DEF StreamOK
    <2>3. sent'[c] = ls
      BY <1>3 DEF StreamServed
    <2> HIDE DEF s, ls, vs, m
    <2>4. m + 1 \in 1 .. Len(ls) /\ SubSeq(s, 1, k - 1) = ls[m + 1]
      BY <1>1, <2>1, <2>2, LaidServes
    <2> DEFINE l == SubSeq(s, 1, k - 1)
    <2>5. l \in Seq(Unit)
      <3>1. k - 1 \in 0 .. Len(s)
        BY <1>1
      <3> QED
        BY <1>1, <3>1, Cut
    <2> HIDE DEF l
    <2>6. /\ Len(Append(vs, l)) = m + 1 /\ DOMAIN Append(vs, l) = 1 .. m + 1 /\ DOMAIN vs = 1 .. m
          /\ \A i \in 1 .. m + 1 : Append(vs, l)[i] = IF i <= m THEN vs[i] ELSE l
      BY <1>1, <2>5 DEF m
    <2>7. Len(ls) \in Nat /\ m + 1 <= Len(ls)
      BY <1>1, <2>4
    <2>8. \A i \in 1 .. m + 1 : Append(vs, l)[i] = ls[i]
      <3> SUFFICES ASSUME NEW i \in 1 .. m + 1 PROVE Append(vs, l)[i] = ls[i]
        OBVIOUS
      <3>1. CASE i <= m
        <4>1. i \in 1 .. m
          BY <1>1, <3>1
        <4> QED
          BY <1>1, <2>6, <3>1, <4>1
      <3>2. CASE ~(i <= m)
        <4>1. i = m + 1
          BY <1>1, <3>2
        <4> QED
          BY <2>4, <2>6, <3>2, <4>1 DEF l
      <3> QED
        BY <3>1, <3>2
    <2> QED
      BY <2>1, <2>3, <2>6, <2>7, <2>8 DEF l
  <1>4. CASE served'[c] = vs
    <2>1. CASE sent'[c] = ls
      BY <1>1, <1>4, <2>1
    <2>2. ASSUME NEW l \in Lines, sent'[c] = Append(ls, l)
          PROVE  /\ Len(served'[c]) <= Len(sent'[c])
                 /\ \A i \in DOMAIN served'[c] : served'[c][i] = sent'[c][i]
      <3> HIDE DEF ls, vs
      <3>1. /\ Len(Append(ls, l)) = Len(ls) + 1 /\ Len(ls) \in Nat /\ DOMAIN vs = 1 .. m
            /\ \A i \in 1 .. Len(ls) : Append(ls, l)[i] = ls[i]
        BY <1>1
      <3>2. \A i \in 1 .. m : i \in 1 .. Len(ls)
        BY <1>1, <3>1
      <3> QED
        BY <1>1, <1>4, <2>2, <3>1, <3>2
    <2> QED
      BY <1>2, <2>1, <2>2
  <1> QED
    BY <1>2, <1>3, <1>4

---------------------------------------------------------------------------
(* Commands of the inet socket are authorized. *)

(* A line of a client is served: it may authorize the connection, and it is *)
(* run as a command only if the connection was authorized before.           *)
LineTaken(c) ==
    \E l \in Seq(Unit) :
        /\ served'[c] = Append(served[c], l)
        /\ conn'[c].auth => conn[c].auth \/ l = <<"auth">>
        /\ \/ ran'[c] = ran[c]
           \/ conn[c].auth /\ ran'[c] = ran[c] \cup {Len(served[c]) + 1}

NoLine(c) == served'[c] = served[c] /\ ran'[c] = ran[c] /\ (conn'[c].auth => conn[c].auth)

LEMMA AuthStep ==
    ASSUME CoreInv, [Next]_vars, NEW c \in Remote
    PROVE  LineTaken(c) \/ NoLine(c)
  <1>0. Types /\ SizesOK /\ SlotsOK /\ c \in Client /\ c \notin Local
    BY SocketConstants DEF CoreInv
  <1>1. CASE \/ Select \/ Accepted \/ Visit \/ Ended \/ UNCHANGED vars \/ f2b_csocket_destroy
             \/ LinesDone \/ \E d \in Client : Connect(d) \/ Send(d) \/ HangUp(d)
    <2>1. UNCHANGED <<conn, served, ran>>
      BY <1>1 DEF Select, Accepted, Visit, Ended, vars, f2b_csocket_destroy, LinesDone,
                  Connect, Send, HangUp, past
    <2> QED
      BY <2>1 DEF NoLine
  <1>2. ASSUME NEW l \in {Local, Remote}, Accept(l)
        PROVE  NoLine(c)
    <2>1. UNCHANGED <<served, ran>>
      BY <1>2 DEF Accept, past
    <2>2. ASSUME NEW d \in l, Accepting(d)
          PROVE  conn'[c].auth => conn[c].auth
      <3>1. CASE d = c
        <4> DEFINE b == c \in Local
        <4>1. b \in BOOLEAN /\ ~b
          BY <1>0
        <4>2. conn' = [conn EXCEPT ![c] = NewConn(b)] /\ conn \in [Client -> Connection]
          BY <1>0, <2>2, <3>1 DEF Accepting, Types
        <4> HIDE DEF b
        <4>3. conn'[c] = NewConn(b)
          BY <1>0, <4>2
        <4>4. NewConn(b).auth = b
          BY <4>1, NewConnType
        <4> QED
          BY <4>1, <4>3, <4>4
      <3>2. CASE d # c
        BY <1>0, <2>2, <3>2 DEF Accepting, Types
      <3> QED
        BY <3>1, <3>2
    <2> QED
      BY <1>2, <2>1, <2>2 DEF Accept, Accepting, NoLine
  <1>3. CASE JailEvent
    BY <1>0, <1>3, JailEventSays DEF JailEvent, NoLine
  <1>4. CASE Receive
    <2> DEFINE d == Current
               r == conn[d].recv \o SubSeq(wire[d], 1, Taken(d))
    <2>1. /\ UNCHANGED <<served, ran>> /\ d \in Client
          /\ UNCHANGED conn \/ (conn' = [conn EXCEPT ![d].recv = r])
      BY <1>0, <1>4, ReceiveTakes, CurrentHeld DEF Receive
    <2> HIDE DEF r, d
    <2>2. conn \in [Client -> Connection] /\ conn[d] \in Connection
      BY <1>0, <2>1 DEF Types
    <2>3. conn'[c].auth = conn[c].auth
      <3>1. CASE c = d /\ conn' = [conn EXCEPT ![d].recv = r]
        BY <2>1, <2>2, <3>1 DEF Connection
      <3>2. CASE c # d /\ conn' = [conn EXCEPT ![d].recv = r]
        BY <1>0, <2>1, <2>2, <3>2
      <3> QED
        BY <2>1, <3>1, <3>2
    <2> QED
      BY <2>1, <2>3 DEF NoLine
  <1>5. CASE Answer
    <2>1. UNCHANGED <<served, ran>>
      BY <1>5 DEF Answer
    <2> QED
      BY <1>0, <1>5, <2>1, AnswerKeeps DEF NoLine
  <1>6. CASE HandleLine
    <2> DEFINE d == Current
    <2>1. d \in Client
      BY <1>0, <1>6, CurrentHeld DEF HandleLine
    <2>2. PICK k \in Nat : LineServed(d, k)
      BY <1>0, <1>6, HandleLineServes
    <2> HIDE DEF d
    <2> DEFINE l == SubSeq(conn[d].recv, 1, k - 1)
    <2>3. /\ k \in 1 .. Len(conn[d].recv)
          /\ \A e \in Client \ {d} : conn'[e].auth = conn[e].auth
          /\ conn'[d].auth => conn[d].auth \/ l = <<"auth">>
          /\ served' = [served EXCEPT ![d] = Append(@, l)]
          /\ \/ ran' = ran
             \/ conn[d].auth /\ ran' = [ran EXCEPT ![d] = @ \cup {Len(served[d]) + 1}]
      BY <2>2 DEF LineServed
    <2>4. l \in Seq(Unit)
      <3>1. conn[d].recv \in Seq(Unit)
        BY <1>0, <2>1, StreamType
      <3>2. k - 1 \in 0 .. Len(conn[d].recv)
        BY <2>3, <3>1
      <3> QED
        BY <3>1, <3>2, Cut
    <2> HIDE DEF l
    <2>5. CASE c = d
      BY <1>0, <2>1, <2>3, <2>4, <2>5 DEF LineTaken, Types
    <2>6. CASE c # d
      BY <1>0, <2>1, <2>3, <2>6 DEF NoLine, Types
    <2> QED
      BY <2>5, <2>6
  <1> QED
    BY <1>1, <1>2, <1>3, <1>4, <1>5, <1>6 DEF Next, Poll

LEMMA AuthOKStep ==
    ASSUME CoreInv, AuthOK, [Next]_vars
    PROVE  AuthOK'
  <1> SUFFICES ASSUME NEW c \in Remote, conn'[c].auth
               PROVE  \E k \in DOMAIN served'[c] : served'[c][k] = <<"auth">>
    BY DEF AuthOK
  <1>0. c \in Client /\ served[c] \in Seq(Seq(Unit))
    BY SocketConstants DEF CoreInv, Types
  <1>1. CASE NoLine(c)
    BY <1>1 DEF AuthOK, NoLine
  <1>2. ASSUME NEW l \in Seq(Unit), served'[c] = Append(served[c], l),
               conn'[c].auth => conn[c].auth \/ l = <<"auth">>
        PROVE  \E k \in DOMAIN served'[c] : served'[c][k] = <<"auth">>
    <2> DEFINE vs == served[c]
               m == Len(vs)
    <2>1. /\ DOMAIN Append(vs, l) = 1 .. m + 1 /\ DOMAIN vs = 1 .. m /\ m \in Nat
          /\ \A i \in 1 .. m : Append(vs, l)[i] = vs[i]
          /\ Append(vs, l)[m + 1] = l
      BY <1>0
    <2>2. CASE conn[c].auth
      <3>1. PICK k \in DOMAIN vs : vs[k] = <<"auth">>
        BY <2>2 DEF AuthOK
      <3> HIDE DEF vs, m
      <3>2. k \in 1 .. m + 1
        BY <2>1
      <3> QED
        BY <1>2, <2>1, <3>1, <3>2 DEF vs
    <2>3. CASE l = <<"auth">>
      <3> HIDE DEF vs, m
      <3>1. m + 1 \in 1 .. m + 1
        BY <2>1
      <3> QED
        BY <1>2, <2>1, <2>3, <3>1 DEF vs
    <2> QED
      BY <1>2, <2>2, <2>3
  <1> QED
    BY <1>1, <1>2, AuthStep DEF LineTaken

(* What was sent stays where it is. *)
LEMMA SentKept ==
    ASSUME CoreInv, [Next]_vars, NEW c \in Client
    PROVE  /\ Len(sent'[c]) \in Nat /\ Len(sent[c]) \in Nat /\ Len(sent[c]) <= Len(sent'[c])
           /\ \A i \in 1 .. Len(sent[c]) : sent'[c][i] = sent[c][i]
  <1> DEFINE ls == sent[c]
  <1>1. ls \in Seq(Lines)
    BY DEF CoreInv, Types
  <1>2. sent'[c] = ls \/ \E l \in Lines : sent'[c] = Append(ls, l)
    BY HistoryStep
  <1> HIDE DEF ls
  <1>3. ASSUME NEW l \in Lines, sent'[c] = Append(ls, l)
        PROVE  Len(sent'[c]) = Len(ls) + 1 /\ \A i \in 1 .. Len(ls) : sent'[c][i] = ls[i]
    BY <1>1, <1>3
  <1>4. Len(ls) \in Nat
    BY <1>1
  <1> QED
    BY <1>2, <1>3, <1>4 DEF ls

LEMMA RunsAuthorizedStep ==
    ASSUME CoreInv, InOrder, AuthOK, RunsAuthorized, [Next]_vars
    PROVE  RunsAuthorized'
  <1> SUFFICES ASSUME NEW c \in Remote, NEW i \in ran'[c]
               PROVE  \E k \in 1 .. i - 1 : sent'[c][k] = <<"auth">>
    BY DEF RunsAuthorized
  <1> DEFINE ls == sent[c]
             m == Len(served[c])
  <1>0. /\ c \in Client /\ served[c] \in Seq(Seq(Unit)) /\ m \in Nat /\ DOMAIN served[c] = 1 .. m
        /\ ran[c] \subseteq 1 .. m /\ m <= Len(ls)
    <2>1. c \in Client
      BY SocketConstants
    <2> QED
      BY <2>1 DEF CoreInv, Types, SizesOK, InOrder
  <1>1. Len(ls) \in Nat /\ \A k \in 1 .. Len(ls) : sent'[c][k] = ls[k]
    BY <1>0, SentKept
  <1>2. CASE i \in ran[c]
    <2>1. PICK k \in 1 .. i - 1 : ls[k] = <<"auth">>
      BY <1>2 DEF RunsAuthorized
    <2>2. i \in 1 .. m
      BY <1>0, <1>2
    <2> HIDE DEF ls, m
    <2>3. k \in 1 .. Len(ls)
      BY <1>0, <1>1, <2>2
    <2> QED
      BY <1>1, <2>1, <2>3
  <1>3. CASE i = m + 1 /\ conn[c].auth
    <2>1. PICK k \in 1 .. m : served[c][k] = <<"auth">>
      BY <1>0, <1>3 DEF AuthOK
    <2>2. ls[k] = <<"auth">>
      BY <1>0, <2>1 DEF InOrder
    <2> HIDE DEF ls, m
    <2>3. k \in 1 .. Len(ls) /\ k \in 1 .. i - 1
      BY <1>0, <1>1, <1>3
    <2> QED
      BY <1>1, <2>2, <2>3
  <1>4. i \in ran[c] \/ (i = m + 1 /\ conn[c].auth)
    BY AuthStep DEF LineTaken, NoLine
  <1> QED
    BY <1>2, <1>3, <1>4

---------------------------------------------------------------------------
(* An overflow is a long line, or one with a NUL. *)

LEMMA DroppedStep ==
    ASSUME CoreInv, DroppedOK, [Next]_vars
    PROVE  DroppedOK'
  <1> SUFFICES ASSUME NEW c \in Client, cause'[c] # "none"
               PROVE  net'[c] = "closed"
    BY DEF DroppedOK
  <1>0. Types /\ SizesOK /\ SlotsOK
    BY DEF CoreInv
  <1>1. net \in [Client -> {"away", "backlog", "open", "hungup", "closed"}]
        /\ cause \in [Client -> {"none", "hungup", "binary", "overflow"}]
    BY <1>0 DEF Types
  <1>2. ASSUME NEW why, Drop(why), pc \in {"recv", "lines", "send"} PROVE net'[c] = "closed"
    <2>1. /\ net' = [net EXCEPT ![Current] = "closed"]
          /\ cause' = [cause EXCEPT ![Current] = why]
      BY <1>2 DEF Drop
    <2>2. CASE c = Current
      BY <1>1, <2>1, <2>2
    <2>3. CASE c # Current
      BY <1>1, <2>1, <2>3 DEF DroppedOK
    <2> QED
      BY <2>2, <2>3
  <1>3. CASE UNCHANGED <<net, cause>>
    BY <1>3 DEF DroppedOK
  <1>4. CASE Receive
    <2>1. pc = "recv" /\ ((\E why \in {"hungup", "binary"} : Drop(why)) \/ UNCHANGED <<net, cause>>)
      BY <1>4 DEF Receive
    <2> QED
      BY <1>2, <1>3, <2>1
  <1>5. CASE LinesDone
    BY <1>2, <1>3, <1>5 DEF LinesDone
  <1>6. CASE Answer
    BY <1>2, <1>3, <1>6 DEF Answer
  <1>7. ASSUME NEW d \in Client, Connect(d) \/ Send(d) \/ HangUp(d) PROVE net'[c] = "closed"
    <2>1. cause' = cause /\ net[c] = "closed"
      BY <1>7 DEF Connect, Send, HangUp, past, DroppedOK
    <2>2. net' = net \/ (net[d] # "closed" /\ \E x : net' = [net EXCEPT ![d] = x])
      BY <1>7 DEF Connect, Send, HangUp
    <2> QED
      BY <1>1, <2>1, <2>2
  <1>8. ASSUME NEW l \in {Local, Remote}, Accept(l) PROVE net'[c] = "closed"
    <2>1. cause' = cause /\ net[c] = "closed"
      BY <1>8 DEF Accept, past, DroppedOK
    <2>2. net' = net \/ \E d \in l : net[d] = "backlog" /\ net' = [net EXCEPT ![d] = "open"]
      BY <1>8 DEF Accept
    <2> QED
      BY <1>1, <2>1, <2>2
  <1>9. CASE f2b_csocket_destroy
    BY <1>9 DEF f2b_csocket_destroy
  <1>10. CASE Select \/ Accepted \/ Visit \/ JailEvent \/ HandleLine \/ Ended \/ UNCHANGED vars
    BY <1>3, <1>10 DEF Select, Accepted, Visit, JailEvent, HandleLine, Ended, vars, client, past
  <1> QED
    BY <1>4, <1>5, <1>6, <1>7, <1>8, <1>9, <1>10 DEF Next, Poll

LEMMA OverflowStep ==
    ASSUME CoreInv, StreamOK, DroppedOK, OverflowIsLongLine, [Next]_vars
    PROVE  OverflowIsLongLine'
  <1> DEFINE Stuck(ls, m) ==
        m < Len(ls) /\ (Len(ls[m + 1]) >= RBuf \/ HasNul(ls[m + 1]))
  <1>s. OverflowIsLongLine <=>
            \A c \in Client : cause[c] = "overflow" => Stuck(sent[c], Len(served[c]))
    BY DEF OverflowIsLongLine
  <1>t. OverflowIsLongLine' <=>
            \A c \in Client : cause'[c] = "overflow" => Stuck(sent'[c], Len(served'[c]))
    BY DEF OverflowIsLongLine, HasNul
  <1> SUFFICES ASSUME NEW c \in Client, cause'[c] = "overflow"
               PROVE  Stuck(sent'[c], Len(served'[c]))
    BY <1>t
  <1>0. Types /\ SizesOK /\ SlotsOK
    BY DEF CoreInv
  <1> DEFINE ls == sent[c]
             new == sent'[c]
             m == Len(served[c])
  <1>1. /\ Len(ls) \in Nat /\ Len(new) \in Nat /\ Len(ls) <= Len(new)
        /\ \A i \in 1 .. Len(ls) : new[i] = ls[i]
    BY SentKept
  <1>2. m \in Nat
    BY <1>0 DEF Types
  <1>3. ASSUME served'[c] = served[c], Stuck(ls, m) PROVE Stuck(new, Len(served'[c]))
    <2> HIDE DEF ls, new
    <2>1. m + 1 \in 1 .. Len(ls) /\ m < Len(new)
      BY <1>1, <1>2, <1>3
    <2>2. new[m + 1] = ls[m + 1] /\ Len(served'[c]) = m
      BY <1>1, <1>3, <2>1
    <2> HIDE DEF m
    <2> QED
      BY <1>3, <2>1, <2>2
  <1>4. CASE cause[c] = "overflow"
    <2>1. net[c] = "closed" /\ Stuck(ls, m)
      BY <1>s, <1>4 DEF DroppedOK
    <2>2. served'[c] = served[c]
      BY <2>1, HistoryStep
    <2> HIDE DEF Stuck
    <2> QED
      BY <1>3, <2>1, <2>2
  <1>5. CASE LinesDone /\ c = Current /\ Overflows(conn[c].recv)
    <2> DEFINE s == Stream(c)
               r == conn[c].recv
               y == wire[c] \o line[c]
    <2>0. served'[c] = served[c]
      BY <1>5 DEF LinesDone
    <2>1. net[c] # "closed" /\ ~HasLine(r) /\ Len(r) >= RBuf
      BY <1>0, <1>5, CurrentHeld DEF LinesDone, Overflows
    <2>2. PICK at \in [0 .. Len(ls) -> Nat] : Laid(s, ls, m, at)
      BY <2>1 DEF StreamOK
    <2>3. /\ r \in Seq(Unit) /\ wire[c] \in Seq(Unit) /\ line[c] \in Seq(Unit)
          /\ s \in Seq(Unit) /\ ls \in Seq(Lines) /\ m \in Nat
      BY <1>0, StreamType
    <2>4. y \in Seq(Unit) /\ s = r \o y
      <3> DEFINE v == wire[c]
                 e == line[c]
      <3>1. s = (r \o v) \o e
        BY DEF Stream
      <3>3. r \in Seq(Unit) /\ v \in Seq(Unit) /\ e \in Seq(Unit)
        BY <2>3
      <3> HIDE DEF s, r, v, e
      <3>2. (r \o v) \o e = r \o (v \o e) /\ v \o e \in Seq(Unit)
        BY <3>3, UnitsAssociative
      <3> QED
        BY <3>1, <3>2 DEF v, e
    <2>5. \A i \in 1 .. Len(r) : r[i] = "nl" => \E j \in 1 .. i - 1 : r[j] = "nul"
      <3>1. DOMAIN r = 1 .. Len(r)
        BY <2>3
      <3> HIDE DEF r
      <3>2. \A i \in DOMAIN r : ~(r[i] = "nl" /\ \A j \in 1 .. i - 1 : r[j] # "nul")
        BY <2>1 DEF HasLine
      <3> QED
        BY <3>1, <3>2
    <2> HIDE DEF s, r, y, m, ls, Stuck
    <2>6. Len(s) = Len(r) + Len(y) /\ \A i \in 1 .. Len(r) : s[i] = r[i]
      BY <2>3, <2>4
    <2>7. RBuf \in Nat /\ RBuf > 0 /\ Len(r) \in Nat /\ Len(y) \in Nat
      BY <2>3, <2>4, SocketConstants
    <2>8. Len(s) >= 1
      BY <2>1, <2>6, <2>7
    <2> DEFINE w == Len(ls[m + 1])
    <2>9. /\ m + 1 \in 1 .. Len(ls) /\ w + 1 \in 1 .. Len(s) /\ s[w + 1] = "nl"
          /\ \A i \in 1 .. w : s[i] = ls[m + 1][i]
      BY <2>2, <2>3, <2>8, LaidFirst
    <2>10. w \in Nat /\ DOMAIN ls[m + 1] = 1 .. w
      BY <2>3, <2>9, SocketConstants
    <2>11. w >= RBuf \/ HasNul(ls[m + 1])
      <3> HIDE DEF w
      <3>1. CASE w + 1 <= Len(r)
        <4>1. w + 1 \in 1 .. Len(r)
          BY <2>7, <2>10, <3>1
        <4>2. PICK j \in 1 .. (w + 1) - 1 : r[j] = "nul"
          BY <2>5, <2>6, <2>9, <4>1
        <4>3. j \in 1 .. w /\ j \in 1 .. Len(r)
          BY <2>7, <2>10, <3>1, <4>2
        <4>4. ls[m + 1][j] = "nul"
          BY <2>6, <2>9, <4>2, <4>3
        <4> QED
          BY <2>10, <4>3, <4>4 DEF HasNul
      <3>2. CASE ~(w + 1 <= Len(r))
        BY <2>1, <2>7, <2>10, <3>2
      <3> QED
        BY <3>1, <3>2
    <2>12. m < Len(ls)
      BY <1>1, <2>3, <2>9
    <2>13. Stuck(ls, m)
      BY <2>11, <2>12 DEF Stuck, w
    <2> QED
      BY <1>3, <2>0, <2>13 DEF m, ls
  <1>6. cause[c] = "overflow" \/ (LinesDone /\ c = Current /\ Overflows(conn[c].recv))
    <2>1. ASSUME NEW why \in {"hungup", "binary", "overflow"}, Drop(why),
                 pc \in {"recv", "lines", "send"}, cause[c] # "overflow"
          PROVE  why = "overflow" /\ c = Current
      BY <1>0, <2>1, DropFrees
    <2>2. CASE LinesDone
      <3>1. CASE Overflows(conn[Current].recv)
        BY <2>1, <2>2, <3>1 DEF LinesDone
      <3>2. CASE ~Overflows(conn[Current].recv)
        BY <2>2, <3>2 DEF LinesDone
      <3> QED
        BY <3>1, <3>2
    <2>3. CASE Receive
      BY <2>1, <2>3 DEF Receive
    <2>4. CASE Answer
      BY <2>1, <2>4 DEF Answer
    <2>5. CASE ~LinesDone /\ ~Receive /\ ~Answer
      <3>1. UNCHANGED cause
        BY <2>5 DEF Next, Poll, Select, Accepted, Visit, Ended, vars, f2b_csocket_destroy, Accept,
                    JailEvent, HandleLine, Connect, Send, HangUp, past
      <3> QED
        BY <3>1
    <2> QED
      BY <2>2, <2>3, <2>4, <2>5
  <1> QED
    BY <1>4, <1>5, <1>6

---------------------------------------------------------------------------
(* The theorems. *)

LEMMA SocketInit == Init => SocketInv
  <1> SUFFICES ASSUME Init PROVE SocketInv
    OBVIOUS
  <1>1. CoreInv /\ StreamOK /\ InOrder
    BY CoreInit, StreamInit
  <1>2. AuthOK
    <2> SUFFICES ASSUME NEW c \in Remote PROVE ~conn[c].auth
      BY DEF AuthOK
    <2>1. c \in Client /\ ~NewConn(FALSE).auth
      BY SocketConstants, NewConnType
    <2> QED
      BY <2>1 DEF Init
  <1>3. RunsAuthorized /\ OverflowIsLongLine
    BY SocketConstants DEF Init, RunsAuthorized, OverflowIsLongLine
  <1>4. DroppedOK
    BY DEF Init, DroppedOK
  <1> QED
    BY <1>1, <1>2, <1>3, <1>4 DEF CoreInv, SocketInv

LEMMA SocketStep == SocketInv /\ [Next]_vars => SocketInv'
  <1> SUFFICES ASSUME SocketInv, [Next]_vars PROVE SocketInv'
    OBVIOUS
  <1>1. CoreInv /\ StreamOK /\ InOrder /\ AuthOK /\ RunsAuthorized /\ OverflowIsLongLine
        /\ DroppedOK
    BY DEF SocketInv, CoreInv
  <1>2. CoreInv'
    BY <1>1, CoreStep
  <1>3. StreamOK'
    BY <1>1, StreamOKStep
  <1>4. InOrder' /\ AuthOK' /\ RunsAuthorized' /\ OverflowIsLongLine' /\ DroppedOK'
    BY <1>1, DroppedStep, InOrderStep, AuthOKStep, RunsAuthorizedStep, OverflowStep
  <1> QED
    BY <1>2, <1>3, <1>4 DEF SocketInv, CoreInv

(* f2b_csocket_poll and f2b_conn_process keep the buffers in their size,    *)
(* the slots apart, and in each stream the lines that are not served yet.   *)
THEOREM SocketInvariance == Spec => []SocketInv
  <1>1. Init => SocketInv
    BY SocketInit
  <1>2. SocketInv /\ [Next]_vars => SocketInv'
    BY SocketStep
  <1> QED
    BY <1>1, <1>2, PTL DEF Spec

(* The state of f2b_csocket_t and of its connections has its type, and what *)
(* is in the buffers never exceeds RBUF_SIZE and WBUF_SIZE (src/buf.c).     *)
THEOREM SocketTypes == Spec => []TypeOK
  <1>1. SocketInv => TypeOK
    BY DEF SocketInv, Types, SizesOK, SlotsOK, TypeOK, Connection, Unit
  <1> QED
    BY <1>1, SocketInvariance, PTL

(* Whatever pieces the lines of a client arrive in, and however often a     *)
(* read ends in the middle of one, f2b_buf_extract hands them on whole and  *)
(* in the order they were sent.                                             *)
THEOREM LinesKeepOrder == Spec => []InOrder
  <1>1. SocketInv => InOrder
    BY DEF SocketInv
  <1> QED
    BY <1>1, SocketInvariance, PTL

(* Whatever parts of its buffer send() takes, a client is sent exactly what *)
(* f2b_buf_append put there, in order.                                      *)
THEOREM AnswersKeepOrder == Spec => []AnswersInOrder
  <1>1. SocketInv => AnswersInOrder
    BY DEF SocketInv
  <1> QED
    BY <1>1, SocketInvariance, PTL

(* f2b_conn_process runs no command of a client of the inet socket that did *)
(* not give the password in an earlier line.                                *)
THEOREM CommandsAuthorized == Spec => []RunsAuthorized
  <1>1. SocketInv => RunsAuthorized
    BY DEF SocketInv
  <1> QED
    BY <1>1, SocketInvariance, PTL

(* f2b_conn_process closes a connection for an overflow of its buffer only  *)
(* if the client sent a line that does not fit into it.                     *)
THEOREM OverflowsAreLongLines == Spec => []OverflowIsLongLine
  <1>1. SocketInv => OverflowIsLongLine
    BY DEF SocketInv
  <1> QED
    BY <1>1, SocketInvariance, PTL
=============================================================================

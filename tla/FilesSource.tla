----------------------------- MODULE FilesSource -----------------------------
(***************************************************************************)
(* The source that follows log files (src/sources/files.c): the list of    *)
(* opened files, start, next and stop, while other programs append to the  *)
(* files, rotate them and truncate them. Once the source runs, these       *)
(* programs act between any two of its system calls; start() takes the     *)
(* stat() and the fopen() of a path in one step, and opens every file that *)
(* exists.                                                                 *)
(*                                                                         *)
(* What a program writes at once is a piece: a whole line, or its first or *)
(* its second half. The pieces written to a path are numbered. A busy path *)
(* gets other lines as well, without end: whenever all its pieces were     *)
(* read there may be one more line, and which it is makes no difference.   *)
(***************************************************************************)
EXTENDS Naturals, Sequences, Functions

CONSTANTS
    Paths,          \* the paths that glob() returned, in its order
    MayBeBusy,      \* the paths that lines may be written to without end
    MayVanish,      \* a rotated file may be missing for a while
    MaxPieces,      \* bound: pieces written, over all paths
    MaxRotations,   \* bound: files created in the place of others
    MaxTruncations  \* bound: files truncated, over all paths

Path == {Paths[i] : i \in DOMAIN Paths}

ASSUME FilesAssumption ==
    /\ Paths \in Seq(STRING)
    /\ \A i, j \in DOMAIN Paths : Paths[i] = Paths[j] => i = j
    /\ MayBeBusy \subseteq Path /\ MayVanish \in BOOLEAN
    /\ MaxPieces \in Nat \ {0} /\ MaxRotations \in Nat /\ MaxTruncations \in Nat

VARIABLES
    fs,         \* external: the inode at each path, 0: none
    inodes,     \* external: number of inodes handed out
    data,       \* external: the pieces in each inode
    written,    \* external: pieces written to each path
    half,       \* external: paths whose last line lacks its second half
    truncated,  \* external: number of truncations
    busy,       \* external: paths that other lines are written to
    list,       \* cfg->files, as the sequence of paths it links
    file,       \* the f2b_file_t of each path
    pc, cur,    \* where next() is, and the place in the list it looks at
    seen,       \* the struct stat file_open holds
    since,      \* history: number of the last piece when the path was opened
    read        \* history: pieces of each path that next() returned

disk == <<fs, inodes, data, written, half, truncated, busy>>
vars == <<disk, list, file, pc, cur, seen, since, read>>

Inode == 1 .. Len(Paths) + MaxRotations
Piece == [n : Nat \ {0}, head : BOOLEAN, tail : BOOLEAN]

Stat(ino) == [ino |-> ino, size |-> Len(data[ino])]
NoStat == [ino |-> 0, size |-> 0]
(* buf: what stdio read ahead; named: path[] is not empty. *)
Wiped == [fd |-> 0, pos |-> 0, buf |-> <<>>, st |-> NoStat, named |-> FALSE]

(* Every file exists; what is written before start() is in it already. *)
Init ==
    /\ \E ino \in [Path -> Inode] :
          (\A i \in DOMAIN Paths : ino[Paths[i]] = i) /\ fs = ino
    /\ inodes = Len(Paths)
    /\ data = [i \in Inode |-> <<>>]
    /\ written = [p \in Path |-> 0] /\ half = {} /\ truncated = 0
    /\ busy \in SUBSET MayBeBusy
    /\ list = <<>> /\ file = [p \in Path |-> Wiped]
    /\ pc = "start" /\ cur = 0 /\ seen = NoStat
    /\ since = [p \in Path |-> 0] /\ read = [p \in Path |-> <<>>]

---------------------------------------------------------------------------
(* Other programs. *)

Write(p) ==
    /\ fs[p] # 0 /\ FoldFunction(+, 0, written) < MaxPieces
    /\ written' = [written EXCEPT ![p] = @ + 1]
    /\ \E tail \in BOOLEAN :
          /\ data' = [data EXCEPT ![fs[p]] =
                         Append(@, [n |-> written[p] + 1, head |-> p \notin half, tail |-> tail])]
          /\ half' = IF tail THEN half \ {p} ELSE half \cup {p}
          /\ p \in half => tail
    /\ UNCHANGED <<fs, inodes, truncated, busy, list, file, pc, cur, seen, since, read>>

(* Rotation: the file is renamed and an empty one takes its place at once, *)
(* or later, if MayVanish.  Inodes are handed out in order.                *)
Rotate(p) ==
    /\ p \notin half
    /\ \/ /\ MayVanish /\ fs[p] # 0
          /\ fs' = [fs EXCEPT ![p] = 0] /\ UNCHANGED inodes
       \/ /\ inodes + 1 \in Inode
          /\ inodes' = inodes + 1 /\ fs' = [fs EXCEPT ![p] = inodes']
    /\ UNCHANGED <<data, written, half, truncated, busy, list, file, pc, cur, seen, since, read>>

Truncate(p) ==
    /\ truncated < MaxTruncations /\ fs[p] # 0 /\ p \notin half
    /\ data' = [data EXCEPT ![fs[p]] = <<>>] /\ truncated' = truncated + 1
    /\ UNCHANGED <<fs, inodes, written, half, busy, list, file, pc, cur, seen, since, read>>

(* The other lines of a path end. *)
FallSilent(p) ==
    /\ p \in busy
    /\ busy' = busy \ {p}
    /\ UNCHANGED <<fs, inodes, data, written, half, truncated>>
    /\ UNCHANGED <<list, file, pc, cur, seen, since, read>>

---------------------------------------------------------------------------
(* The source. *)

(* What file_open leaves in the struct: the file is positioned at its end.  *)
(* Mutant: it is read from its beginning.                                   *)
OpenedAtStart(p, st) == [fd |-> fs[p], pos |-> 0, buf |-> <<>>, st |-> st, named |-> TRUE]
Opened(p, st) ==
    [fd |-> fs[p], pos |-> Len(data[fs[p]]), buf |-> <<>>, st |-> st, named |-> TRUE]

(* One turn of the loop of start(): file_open for the next path, and the    *)
(* new file becomes the head of the list; one that is missing is left out.  *)
start ==
    /\ pc = "start" /\ cur < Len(Paths)
    /\ cur' = cur + 1
    /\ LET p == Paths[cur'] IN
       /\ IF fs[p] = 0 THEN UNCHANGED <<list, file>>
          ELSE /\ list' = <<p>> \o list
               /\ file' = [file EXCEPT ![p] = Opened(p, Stat(fs[p]))]
       /\ since' = [since EXCEPT ![p] = written[p]]
    /\ UNCHANGED <<disk, pc, seen, read>>

Started ==
    /\ pc = "start" /\ cur = Len(Paths)
    /\ pc' = "idle"
    /\ UNCHANGED <<disk, list, file, cur, seen, since, read>>

next ==
    /\ pc = "idle"
    /\ IF list = <<>> THEN UNCHANGED <<cur, pc>> ELSE cur' = 1 /\ pc' = "rotated"
    /\ UNCHANGED <<disk, list, file, seen, since, read>>

Current == list[cur]
Closed(f) == [f EXCEPT !.fd = 0, !.buf = <<>>, !.st = NoStat]

(* What file_rotated compares when both stat() calls succeeded. Mutant:     *)
(* a new inode is not taken for a replacement.                              *)
ReplacedIfShrunk(old, now) == old.size > now.size
Replaced(old, now) == old.ino # now.ino \/ old.size > now.size

(* file_rotated, and file_close when it says so. *)
file_rotated ==
    /\ pc = "rotated"
    /\ LET f == file[Current]  ino == fs[Current] IN
       IF f.fd = 0 \/ ino = 0 \/ Replaced(f.st, Stat(ino))
       THEN /\ file' = [file EXCEPT ![Current] = Closed(f)]
            /\ pc' = "open"
       ELSE /\ file' = [file EXCEPT ![Current].st = Stat(ino)]
            /\ pc' = "getline"
    /\ UNCHANGED <<disk, list, cur, seen, since, read>>

(* file_open asserts that it knows a path, in builds with assertions. *)
Abort ==
    /\ pc = "open" /\ ~file[Current].named
    /\ pc' = "aborted"
    /\ UNCHANGED <<disk, list, file, cur, seen, since, read>>

(* file_open up to its stat(): the struct is cleared first, path and the    *)
(* link to the rest of the list with it. After a failure next() goes on     *)
(* along that link and is at the end.                                       *)
file_open ==
    /\ pc = "open"
    /\ file' = [file EXCEPT ![Current] = Wiped]
    /\ list' = SubSeq(list, 1, cur)
    /\ IF file[Current].named /\ fs[Current] # 0
       THEN seen' = Stat(fs[Current]) /\ pc' = "fopen"
       ELSE seen' = NoStat /\ pc' = "idle"
    /\ UNCHANGED <<disk, cur, since, read>>

(* fopen, which may fail, fseek to the end and the rest of file_open; next()*)
(* goes on with the next file, which the cleared link says there is none.   *)
fopen ==
    /\ pc = "fopen"
    /\ \/ UNCHANGED file
       \/ /\ fs[Current] # 0
          /\ file' = [file EXCEPT ![Current] = Opened(Current, seen)]
    /\ pc' = "idle" /\ seen' = NoStat
    /\ UNCHANGED <<disk, list, cur, since, read>>

(* The place of the first newline in s; the end of s if there is none. *)
LineEnd(s) ==
    CHOOSE k \in 0 .. Len(s) :
        /\ \A i \in 1 .. k - 1 : ~s[i].tail
        /\ (k = Len(s) \/ (k > 0 /\ s[k].tail))
HasLine(s) == \E i \in DOMAIN s : s[i].tail

(* Mutant: what was read ahead is forgotten. *)
ReadAheadLost(f) == SubSeq(data[f.fd], f.pos + 1, Len(data[f.fd]))

(* External: what stdio has, or can get, when fgets is called. *)
ReadAhead(f) ==
    IF HasLine(f.buf) THEN f.buf
    ELSE f.buf \o SubSeq(data[f.fd], f.pos + 1, Len(data[f.fd]))

(* Where next() goes after fgets returned something, or nothing: the next   *)
(* call begins at the head of the list again, as cfg->current stays there.  *)
(* Mutant: the first file without news ends the poll.                       *)
TurnNever(found) == <<"idle", cur>>
Turn(found) == IF found \/ cur = Len(list) THEN <<"idle", cur>> ELSE <<"rotated", cur + 1>>

(* file_getline: fgets returns the pieces up to a newline, or up to the end *)
(* of the file, or one of the other lines of a busy path; with nothing to   *)
(* return, next() turns to the next file.                                   *)
file_getline ==
    /\ pc = "getline"
    /\ LET f == file[Current]
           got == ReadAhead(f)
           k == LineEnd(got)
           end == Len(data[f.fd])
       IN /\ file' = [file EXCEPT
                         ![Current].pos = IF HasLine(f.buf) \/ end < @ THEN @ ELSE end,
                         ![Current].buf = SubSeq(got, k + 1, Len(got))]
          /\ read' = [read EXCEPT ![Current] = @ \o SubSeq(got, 1, k)]
          /\ \E other \in BOOLEAN :
                /\ other => k = 0 /\ Current \in busy
                /\ pc' = Turn(k > 0 \/ other)[1] /\ cur' = Turn(k > 0 \/ other)[2]
    /\ UNCHANGED <<disk, list, seen, since>>

stop ==
    /\ pc = "idle"
    /\ list' = <<>> /\ pc' = "stopped"
    /\ file' = [p \in Path |-> Wiped]
    /\ UNCHANGED <<disk, cur, seen, since, read>>

Ended == pc \in {"stopped", "aborted"} /\ UNCHANGED vars

Source == start \/ Started \/ next \/ file_rotated \/ Abort \/ file_open \/ fopen \/ file_getline

Next ==
    \/ Source \/ stop \/ Ended
    \/ \E p \in Path : Write(p) \/ Rotate(p) \/ Truncate(p) \/ FallSilent(p)

Spec == Init /\ [][Next]_vars

(* The jail calls next() over and over. *)
FairSpec == Spec /\ WF_vars(Source)

---------------------------------------------------------------------------
File ==
    [fd : Inode \cup {0}, pos : Nat, buf : Seq(Piece),
     st : [ino : Inode \cup {0}, size : Nat], named : BOOLEAN]

TypeOK ==
    /\ fs \in [Path -> Inode \cup {0}] /\ inodes \in 0 .. Len(Paths) + MaxRotations
    /\ data \in [Inode -> Seq(Piece)]
    /\ written \in [Path -> Nat] /\ half \subseteq Path
    /\ truncated \in 0 .. MaxTruncations /\ busy \subseteq Path
    /\ list \in Seq(Path) /\ file \in [Path -> File]
    /\ \A p \in Path : file[p].fd # 0 => file[p].named /\ file[p].st.ino # 0
    /\ pc \in {"start", "idle", "rotated", "open", "fopen", "getline", "aborted", "stopped"}
    /\ cur \in Nat
    /\ (pc = "start" => cur <= Len(Paths))
    /\ (pc \in {"rotated", "open", "fopen", "getline"} => cur \in DOMAIN list)
    /\ (pc = "getline" => file[Current].fd # 0)
    /\ seen \in [ino : Inode \cup {0}, size : Nat]
    /\ (pc = "fopen" => seen.ino # 0)
    /\ since \in [Path -> Nat] /\ read \in [Path -> Seq(Piece)]

(* Nothing that was in a file before it was opened is returned, and nothing *)
(* is returned twice or out of order, whatever happens to the files: a line *)
(* is one match, and to see it again would be to count it again.            *)
InOrder ==
    \A p \in Path : \A i \in DOMAIN read[p] :
        /\ read[p][i].n > since[p]
        /\ i > 1 => read[p][i - 1].n < read[p][i].n

(* No file was rotated or truncated yet: inodes are not used again. *)
Undisturbed == truncated = 0 /\ \A i \in DOMAIN Paths : fs[Paths[i]] = i

(* From files that are only appended to, no piece is lost: those returned,  *)
(* those read ahead and those still to be read are all that was written.    *)
NothingLost ==
    Undisturbed /\ pc \notin {"start", "stopped"} => \A p \in Path :
        LET d == data[fs[p]] IN
        read[p] \o file[p].buf \o SubSeq(d, file[p].pos + 1, Len(d))
            = SubSeq(d, since[p] + 1, Len(d))

(* The files next() looks at before that of p: start() put them before it. *)
Before(p) == {q \in Path : \E i, j \in DOMAIN Paths : i < j /\ p = Paths[i] /\ q = Paths[j]}

(* The turn of p comes: each call begins at the head of the list, and goes  *)
(* on only when it finds no line.                                           *)
HasTurns(p) == <>[](busy \cap Before(p) = {})

(* What is written to any of such files is returned some time, unless the   *)
(* jail is stopped or a file before it in the list is never without a line. *)
EverythingRead ==
    \A p \in Path : HasTurns(p) =>
        \A n \in 1 .. MaxPieces :
            (pc # "start" /\ since[p] < n /\ written[p] >= n)
                ~> (~Undisturbed \/ pc = "stopped" \/ \E i \in DOMAIN read[p] : read[p][i].n = n)

(* A file that is replaced, or truncated, is followed to its new inode, even *)
(* when that happens between the stat() and the fopen() of one file_open, as *)
(* long as it has its turns, stays on the list and could always be opened    *)
(* again (nor the program aborted).                                          *)
FollowsReplacement ==
    \A p \in Path : HasTurns(p) =>
        <>[](pc # "aborted" /\ file[p].named /\ (\E i \in DOMAIN list : list[i] = p)
                => file[p].fd = fs[p])

=============================================================================

---------------------------- MODULE FilesProofs ----------------------------
(***************************************************************************)
(* Proofs about FilesSource, for any list of paths and any number of       *)
(* pieces, rotations and truncations: it is type correct, it returns the   *)
(* pieces of a path in the order they were written, each once at most, and *)
(* loses none of a file that is only appended to.                          *)
(*                                                                         *)
(* The invariant is about the stock of a path, Stream: what was returned,  *)
(* what stdio read ahead and what is still to be read.  Its numbers rise;  *)
(* a reader moves pieces within it, a writer adds to its end, and to close *)
(* a file cuts its end off.                                                *)
(***************************************************************************)
EXTENDS FilesSource, SequenceTheorems, WellFoundedInduction, TLAPS

LEMMA PathsList == Len(Paths) \in Nat /\ \A i \in 1 .. Len(Paths) : Paths[i] \in Path
  BY FilesAssumption DEF Path

LEMMA OpenedType ==
    ASSUME TypeOK, NEW p \in Path, fs[p] # 0,
           NEW st \in [ino : Inode \cup {0}, size : Nat], st.ino # 0
    PROVE  Opened(p, st) \in File /\ Opened(p, st).named /\ Opened(p, st).st.ino # 0
  <1>1. fs[p] \in Inode /\ data[fs[p]] \in Seq(Piece)
    BY DEF TypeOK
  <1>2. Len(data[fs[p]]) \in Nat /\ <<>> \in Seq(Piece)
    BY <1>1
  <1> QED
    BY <1>1, <1>2 DEF Opened, File

LEMMA StatType ==
    ASSUME TypeOK, NEW p \in Path, fs[p] # 0
    PROVE  Stat(fs[p]) \in [ino : Inode \cup {0}, size : Nat] /\ Stat(fs[p]).ino # 0
  <1>1. fs[p] \in Inode /\ data[fs[p]] \in Seq(Piece)
    BY DEF TypeOK
  <1> QED
    BY <1>1 DEF Stat

LEMMA WipedType == Wiped \in File /\ Wiped.fd = 0 /\ NoStat.size = 0 /\ NoStat.ino = 0
  BY DEF Wiped, File, NoStat

(* A set of numbers has a smallest one, because < is well-founded.          *)
LEMMA Least ==
    ASSUME NEW T \in SUBSET Nat, T # {}
    PROVE  \E k \in T : \A i \in T : k <= i
  <1> DEFINE R == OpToRel(<, Nat)
  <1>1. IsWellFoundedOn(R, Nat)
    BY NatLessThanWellFounded
  <1>2. \A x, y \in T : y < x => <<y, x>> \in R
    BY DEF OpToRel
  <1> HIDE DEF R
  <1>3. PICK x \in T : \A y \in T : <<y, x>> \notin R
    BY <1>1, WFMin
  <1>4. \A y \in T : ~(y < x) /\ x \in Nat /\ y \in Nat
    BY <1>2, <1>3
  <1> QED
    BY <1>3, <1>4

(* fgets returns a part of what it has: the place of the first newline lies *)
(* in the sequence.                                                         *)
LEMMA LineEndType ==
    ASSUME NEW s \in Seq(Piece)
    PROVE  LineEnd(s) \in 0 .. Len(s)
  <1> DEFINE Ends(k) ==
        /\ \A i \in 1 .. k - 1 : ~s[i].tail
        /\ (k = Len(s) \/ (k > 0 /\ s[k].tail))
  <1>1. Len(s) \in Nat
    OBVIOUS
  <1>2. \E k \in 0 .. Len(s) : Ends(k)
    <2>1. CASE \A i \in 1 .. Len(s) : ~s[i].tail
      BY <1>1, <2>1
    <2>2. CASE \E i \in 1 .. Len(s) : s[i].tail
      <3> DEFINE T == {i \in 1 .. Len(s) : s[i].tail}
      <3>1. T # {} /\ T \in SUBSET Nat
        BY <1>1, <2>2
      <3>2. \E k \in T : \A i \in T : k <= i
        BY <3>1, Least
      <3> QED
        BY <1>1, <3>2
    <2> QED
      BY <2>1, <2>2
  <1> QED
    BY <1>2 DEF LineEnd

(* Parts of sequences of pieces. *)
LEMMA PartType ==
    ASSUME NEW s \in Seq(Piece), NEW m \in Nat \ {0}, NEW n \in 0 .. Len(s)
    PROVE  SubSeq(s, m, n) \in Seq(Piece)
  <1>1. \A i \in m .. n : s[i] \in Piece
    OBVIOUS
  <1> QED
    BY <1>1, SubSeqProperties

LEMMA ReadAheadType ==
    ASSUME TypeOK, NEW f \in File, f.fd # 0
    PROVE  ReadAhead(f) \in Seq(Piece) /\ Len(data[f.fd]) \in Nat
  <1>1. data[f.fd] \in Seq(Piece) /\ f.buf \in Seq(Piece) /\ f.pos + 1 \in Nat \ {0}
    BY DEF TypeOK, File
  <1>2. Len(data[f.fd]) \in 0 .. Len(data[f.fd])
    BY <1>1
  <1>3. SubSeq(data[f.fd], f.pos + 1, Len(data[f.fd])) \in Seq(Piece)
    BY <1>1, <1>2, PartType
  <1>4. f.buf \o SubSeq(data[f.fd], f.pos + 1, Len(data[f.fd])) \in Seq(Piece)
    BY <1>1, <1>3
  <1> QED
    BY <1>1, <1>2, <1>4 DEF ReadAhead

---------------------------------------------------------------------------
LEMMA TypeInit == Init => TypeOK
  <1> SUFFICES ASSUME Init PROVE TypeOK
    OBVIOUS
  <1>1. fs \in [Path -> Inode \cup {0}]
    BY DEF Init
  <1>2. data \in [Inode -> Seq(Piece)] /\ read \in [Path -> Seq(Piece)] /\ list \in Seq(Path)
    <2>1. <<>> \in Seq(Piece) /\ <<>> \in Seq(Path)
      OBVIOUS
    <2> QED
      BY <2>1 DEF Init
  <1>3. file \in [Path -> File] /\ \A p \in Path : file[p].fd = 0
    BY WipedType DEF Init
  <1>4. seen \in [ino : Inode \cup {0}, size : Nat]
    BY DEF Init, NoStat
  <1>5. inodes \in 0 .. Len(Paths) + MaxRotations
    BY PathsList, FilesAssumption DEF Init
  <1>6. truncated \in 0 .. MaxTruncations
    BY FilesAssumption DEF Init
  <1>7. pc = "start" /\ cur = 0 /\ half = {} /\ busy \subseteq Path
    BY FilesAssumption DEF Init
  <1>8. written \in [Path -> Nat] /\ since \in [Path -> Nat]
    BY DEF Init
  <1> QED
    BY <1>1, <1>2, <1>3, <1>4, <1>5, <1>6, <1>7, <1>8, PathsList DEF TypeOK

(* Other programs leave the struct of the source alone. *)
LEMMA OthersType ==
    ASSUME TypeOK, NEW p \in Path, Write(p) \/ Rotate(p) \/ Truncate(p) \/ FallSilent(p)
    PROVE  TypeOK'
  <1>0. UNCHANGED <<list, file, pc, cur, seen, since, read>>
    BY DEF Write, Rotate, Truncate, FallSilent
  <1>01. busy' \subseteq Path
    BY DEF TypeOK, Write, Rotate, Truncate, FallSilent
  <1>1. CASE Write(p)
    <2>1. PICK tail \in BOOLEAN :
             /\ data' = [data EXCEPT ![fs[p]] =
                   Append(@, [n |-> written[p] + 1, head |-> p \notin half, tail |-> tail])]
             /\ half' = IF tail THEN half \ {p} ELSE half \cup {p}
      BY <1>1 DEF Write
    <2>2. written[p] \in Nat /\ fs[p] \in Inode
      BY <1>1 DEF TypeOK, Write
    <2>3. [n |-> written[p] + 1, head |-> p \notin half, tail |-> tail] \in Piece
      <3>1. written[p] + 1 \in Nat \ {0} /\ (p \notin half) \in BOOLEAN
        BY <2>2
      <3> QED
        BY <3>1 DEF Piece
    <2>4. data' \in [Inode -> Seq(Piece)]
      <3>1. data[fs[p]] \in Seq(Piece)
        BY <2>2 DEF TypeOK
      <3>2. Append(data[fs[p]], [n |-> written[p] + 1, head |-> p \notin half, tail |-> tail])
              \in Seq(Piece)
        BY <2>3, <3>1
      <3> QED
        BY <2>1, <3>2 DEF TypeOK
    <2>5. written' \in [Path -> Nat] /\ half' \subseteq Path
      <3>1. written' = [written EXCEPT ![p] = @ + 1] /\ written \in [Path -> Nat]
        BY <1>1 DEF TypeOK, Write
      <3>2. half \subseteq Path
        BY DEF TypeOK
      <3>3. half' \subseteq Path
        BY <2>1, <3>2
      <3> QED
        BY <2>2, <3>1, <3>3
    <2>6. UNCHANGED <<fs, inodes, truncated>>
      BY <1>1 DEF Write
    <2> QED
      BY <1>0, <1>01, <2>4, <2>5, <2>6 DEF TypeOK, Current
  <1>2. CASE Rotate(p)
    <2>1. UNCHANGED <<data, written, half, truncated>>
      BY <1>2 DEF Rotate
    <2>2. fs' \in [Path -> Inode \cup {0}] /\ inodes' \in 0 .. Len(Paths) + MaxRotations
      <3>1. fs \in [Path -> Inode \cup {0}] /\ inodes \in 0 .. Len(Paths) + MaxRotations
        BY DEF TypeOK
      <3>2. CASE fs' = [fs EXCEPT ![p] = 0] /\ UNCHANGED inodes
        BY <3>1, <3>2
      <3>3. CASE inodes + 1 \in Inode /\ inodes' = inodes + 1 /\ fs' = [fs EXCEPT ![p] = inodes']
        <4>1. inodes' \in 0 .. Len(Paths) + MaxRotations
          BY <3>3, PathsList, FilesAssumption DEF Inode
        <4> QED
          BY <3>1, <3>3, <4>1
      <3> QED
        BY <1>2, <3>2, <3>3 DEF Rotate
    <2> QED
      BY <1>01, <1>0, <2>1, <2>2 DEF TypeOK, Current
  <1>3. CASE Truncate(p)
    <2>1. UNCHANGED <<fs, inodes, written, half>>
      BY <1>3 DEF Truncate
    <2>2. truncated' \in 0 .. MaxTruncations
      BY <1>3, FilesAssumption DEF TypeOK, Truncate
    <2>3. data' \in [Inode -> Seq(Piece)]
      <3>1. <<>> \in Seq(Piece)
        OBVIOUS
      <3> QED
        BY <1>3, <3>1 DEF TypeOK, Truncate
    <2> QED
      BY <1>01, <1>0, <2>1, <2>2, <2>3 DEF TypeOK, Current
  <1>4. CASE FallSilent(p)
    <2>1. UNCHANGED <<fs, inodes, data, written, half, truncated>>
      BY <1>4 DEF FallSilent
    <2> QED
      BY <1>0, <1>01, <2>1 DEF TypeOK, Current
  <1> QED
    BY <1>1, <1>2, <1>3, <1>4

(* The part of TypeOK about the disk. *)
DiskOK ==
    /\ fs \in [Path -> Inode \cup {0}] /\ inodes \in 0 .. Len(Paths) + MaxRotations
    /\ data \in [Inode -> Seq(Piece)]
    /\ written \in [Path -> Nat] /\ half \subseteq Path
    /\ truncated \in 0 .. MaxTruncations /\ busy \subseteq Path

LEMMA DiskKept == ASSUME TypeOK, UNCHANGED disk PROVE DiskOK'
  BY DEF TypeOK, DiskOK, disk

(* The file next() looks at is one of the list. *)
LEMMA CurrentType ==
    ASSUME TypeOK, pc \in {"rotated", "open", "fopen", "getline"}
    PROVE  /\ cur \in 1 .. Len(list) /\ Len(list) \in Nat /\ list \in Seq(Path)
           /\ Current \in Path /\ file[Current] \in File
  BY DEF TypeOK, Current

(* When the struct of one path is replaced by a good one, all are good.     *)
LEMMA FileType ==
    ASSUME TypeOK, NEW p \in Path, NEW f \in File, f.fd # 0 => f.named /\ f.st.ino # 0,
           file' = [file EXCEPT ![p] = f]
    PROVE  /\ file' \in [Path -> File] /\ file'[p] = f
           /\ \A q \in Path : file'[q].fd # 0 => file'[q].named /\ file'[q].st.ino # 0
  BY DEF TypeOK

LEMMA StartType == ASSUME TypeOK, start PROVE TypeOK'
  <1> DEFINE p == Paths[cur + 1]
  <1>0. /\ pc = "start" /\ cur < Len(Paths) /\ cur' = cur + 1
        /\ UNCHANGED <<disk, pc, seen, read>>
        /\ since' = [since EXCEPT ![p] = written[p]]
    BY DEF start
  <1>1. cur + 1 \in 1 .. Len(Paths) /\ p \in Path /\ cur' \in Nat /\ cur' <= Len(Paths)
    BY <1>0, PathsList DEF TypeOK
  <1>2. /\ list' \in Seq(Path) /\ file' \in [Path -> File]
        /\ \A q \in Path : file'[q].fd # 0 => file'[q].named /\ file'[q].st.ino # 0
    <2>1. CASE fs[p] = 0
      BY <1>0, <2>1 DEF start, TypeOK
    <2>2. CASE fs[p] # 0
      <3>1. list' = <<p>> \o list /\ file' = [file EXCEPT ![p] = Opened(p, Stat(fs[p]))]
        BY <1>0, <2>2 DEF start
      <3>2. <<p>> \o list \in Seq(Path)
        <4>1. <<p>> \in Seq(Path) /\ list \in Seq(Path)
          BY <1>1 DEF TypeOK
        <4> QED
          BY <4>1
      <3>3. /\ Opened(p, Stat(fs[p])) \in File
            /\ Opened(p, Stat(fs[p])).named /\ Opened(p, Stat(fs[p])).st.ino # 0
        BY <1>1, <2>2, StatType, OpenedType
      <3> QED
        BY <1>1, <3>1, <3>2, <3>3, FileType
    <2> QED
      BY <2>1, <2>2
  <1>3. since' \in [Path -> Nat]
    BY <1>0, <1>1 DEF TypeOK
  <1> QED
    BY <1>0, <1>1, <1>2, <1>3, DiskKept DEF TypeOK, DiskOK

LEMMA RotatedType == ASSUME TypeOK, file_rotated PROVE TypeOK'
  <1> DEFINE f == file[Current]
             ino == fs[Current]
  <1>0. pc = "rotated" /\ UNCHANGED <<disk, list, cur, seen, since, read>>
    BY DEF file_rotated
  <1>1. /\ cur \in 1 .. Len(list) /\ Len(list) \in Nat /\ list \in Seq(Path)
        /\ Current \in Path /\ f \in File
    BY <1>0, CurrentType
  <1>2. Current' = Current
    BY <1>0 DEF Current
  <1>3. CASE f.fd = 0 \/ ino = 0 \/ Replaced(f.st, Stat(ino))
    <2>1. file' = [file EXCEPT ![Current] = Closed(f)] /\ pc' = "open"
      BY <1>3 DEF file_rotated
    <2>2. Closed(f) \in File /\ Closed(f).fd = 0
      <3>1. <<>> \in Seq(Piece) /\ NoStat \in [ino : Inode \cup {0}, size : Nat]
        BY DEF NoStat
      <3> QED
        BY <1>1, <3>1 DEF Closed, File
    <2>3. /\ file' \in [Path -> File]
          /\ \A q \in Path : file'[q].fd # 0 => file'[q].named /\ file'[q].st.ino # 0
      BY <1>1, <2>1, <2>2, FileType
    <2> QED
      BY <1>0, <1>1, <2>1, <2>3, DiskKept DEF TypeOK, DiskOK
  <1>4. CASE ~(f.fd = 0 \/ ino = 0 \/ Replaced(f.st, Stat(ino)))
    <2>1. file' = [file EXCEPT ![Current] = [f EXCEPT !.st = Stat(ino)]] /\ pc' = "getline"
      BY <1>4 DEF file_rotated
    <2>2. /\ [f EXCEPT !.st = Stat(ino)] \in File /\ [f EXCEPT !.st = Stat(ino)].fd # 0
          /\ [f EXCEPT !.st = Stat(ino)].named /\ [f EXCEPT !.st = Stat(ino)].st.ino # 0
      <3>1. Stat(ino) \in [ino : Inode \cup {0}, size : Nat] /\ Stat(ino).ino # 0
        BY <1>1, <1>4, StatType
      <3>2. f.fd # 0 /\ f.named
        BY <1>1, <1>4 DEF TypeOK
      <3> QED
        BY <1>1, <3>1, <3>2 DEF File
    <2>3. /\ file' \in [Path -> File] /\ file'[Current] = [f EXCEPT !.st = Stat(ino)]
          /\ \A q \in Path : file'[q].fd # 0 => file'[q].named /\ file'[q].st.ino # 0
      BY <1>1, <2>1, <2>2, FileType
    <2> QED
      BY <1>0, <1>1, <1>2, <2>1, <2>2, <2>3, DiskKept DEF TypeOK, DiskOK
  <1> QED
    BY <1>3, <1>4

LEMMA OpenType == ASSUME TypeOK, file_open PROVE TypeOK'
  <1>0. /\ pc = "open" /\ UNCHANGED <<disk, cur, since, read>>
        /\ file' = [file EXCEPT ![Current] = Wiped] /\ list' = SubSeq(list, 1, cur)
    BY DEF file_open
  <1>1. /\ cur \in 1 .. Len(list) /\ Len(list) \in Nat /\ list \in Seq(Path)
        /\ Current \in Path /\ file[Current] \in File
    BY <1>0, CurrentType
  <1>2. list' \in Seq(Path) /\ Len(list') = cur
    <2>1. \A i \in 1 .. cur : list[i] \in Path
      BY <1>1
    <2> QED
      BY <1>0, <1>1, <2>1, SubSeqProperties
  <1>3. /\ file' \in [Path -> File]
        /\ \A q \in Path : file'[q].fd # 0 => file'[q].named /\ file'[q].st.ino # 0
    BY <1>0, <1>1, WipedType, FileType
  <1>4. /\ seen' \in [ino : Inode \cup {0}, size : Nat] /\ pc' \in {"fopen", "idle"}
        /\ pc' = "fopen" => seen'.ino # 0
    <2>1. CASE file[Current].named /\ fs[Current] # 0
      BY <1>1, <2>1, StatType DEF file_open
    <2>2. CASE ~(file[Current].named /\ fs[Current] # 0)
      BY <2>2 DEF file_open, NoStat
    <2> QED
      BY <2>1, <2>2
  <1>5. cur \in DOMAIN list'
    BY <1>1, <1>2
  <1> QED
    BY <1>0, <1>1, <1>2, <1>3, <1>4, <1>5, DiskKept DEF TypeOK, DiskOK

LEMMA FopenType == ASSUME TypeOK, fopen PROVE TypeOK'
  <1>0. /\ pc = "fopen" /\ pc' = "idle" /\ seen' = NoStat
        /\ UNCHANGED <<disk, list, cur, since, read>>
    BY DEF fopen
  <1>1. Current \in Path /\ seen \in [ino : Inode \cup {0}, size : Nat] /\ seen.ino # 0
    BY <1>0, CurrentType DEF TypeOK
  <1>2. /\ file' \in [Path -> File]
        /\ \A q \in Path : file'[q].fd # 0 => file'[q].named /\ file'[q].st.ino # 0
    <2>1. CASE UNCHANGED file
      BY <2>1 DEF TypeOK
    <2>2. CASE fs[Current] # 0 /\ file' = [file EXCEPT ![Current] = Opened(Current, seen)]
      <3>1. file' = [file EXCEPT ![Current] = Opened(Current, seen)]
        BY <2>2
      <3>2. /\ Opened(Current, seen) \in File
            /\ Opened(Current, seen).named /\ Opened(Current, seen).st.ino # 0
        BY <1>1, <2>2, OpenedType
      <3> QED
        BY <1>1, <3>1, <3>2, FileType
    <2> QED
      BY <2>1, <2>2 DEF fopen
  <1>3. seen' \in [ino : Inode \cup {0}, size : Nat]
    BY <1>0 DEF NoStat
  <1> QED
    BY <1>0, <1>2, <1>3, DiskKept DEF TypeOK, DiskOK

LEMMA GetlineType == ASSUME TypeOK, file_getline PROVE TypeOK'
  <1> DEFINE f == file[Current]
             got == ReadAhead(f)
             k == LineEnd(got)
             end == Len(data[f.fd])
             g == [f EXCEPT !.pos = IF HasLine(f.buf) \/ end < @ THEN @ ELSE end,
                            !.buf = SubSeq(got, k + 1, Len(got))]
  <1>0. pc = "getline" /\ UNCHANGED <<disk, list, seen, since>>
    BY DEF file_getline
  <1>1. /\ cur \in 1 .. Len(list) /\ Len(list) \in Nat /\ list \in Seq(Path)
        /\ Current \in Path /\ f \in File
    BY <1>0, CurrentType
  <1>2. f.fd # 0 /\ f.named /\ f.st.ino # 0
    BY <1>0, <1>1 DEF TypeOK
  <1>3. got \in Seq(Piece) /\ end \in Nat
    BY <1>1, <1>2, ReadAheadType
  <1>4. k \in 0 .. Len(got) /\ Len(got) \in Nat
    BY <1>3, LineEndType
  <1>5. SubSeq(got, k + 1, Len(got)) \in Seq(Piece) /\ SubSeq(got, 1, k) \in Seq(Piece)
    <2>1. k + 1 \in Nat \ {0} /\ 1 \in Nat \ {0} /\ Len(got) \in 0 .. Len(got)
      BY <1>4
    <2> QED
      BY <1>3, <1>4, <2>1, PartType
  <1>6. g \in File /\ g.fd # 0 /\ g.named /\ g.st.ino # 0
    BY <1>1, <1>2, <1>3, <1>5 DEF File
  <1>7. file' = [file EXCEPT ![Current] = g]
    BY <1>1 DEF file_getline, TypeOK
  <1>8. /\ file' \in [Path -> File] /\ file'[Current] = g
        /\ \A q \in Path : file'[q].fd # 0 => file'[q].named /\ file'[q].st.ino # 0
    BY <1>1, <1>6, <1>7, FileType
  <1>9. read' \in [Path -> Seq(Piece)]
    <2>1. read' = [read EXCEPT ![Current] = @ \o SubSeq(got, 1, k)]
      BY DEF file_getline
    <2>2. read[Current] \o SubSeq(got, 1, k) \in Seq(Piece)
      <3>1. read[Current] \in Seq(Piece)
        BY <1>1 DEF TypeOK
      <3> QED
        BY <1>5, <3>1
    <2> QED
      BY <2>1, <2>2 DEF TypeOK
  <1>10. \/ pc' = "idle" /\ cur' = cur
         \/ pc' = "rotated" /\ cur' = cur + 1 /\ cur # Len(list)
    BY DEF file_getline, Turn
  <1>11. cur' \in 1 .. Len(list)
    BY <1>1, <1>10
  <1>12. DiskOK'
    BY <1>0, DiskKept
  <1>13. /\ list' \in Seq(Path) /\ seen' \in [ino : Inode \cup {0}, size : Nat]
         /\ since' \in [Path -> Nat] /\ cur' \in Nat /\ cur' \in DOMAIN list'
    <2>1. list' = list /\ seen' = seen /\ since' = since
      BY <1>0
    <2>2. cur' \in Nat /\ cur' \in DOMAIN list
      BY <1>1, <1>11
    <2>3. seen \in [ino : Inode \cup {0}, size : Nat] /\ since \in [Path -> Nat]
      BY DEF TypeOK
    <2> QED
      BY <1>1, <2>1, <2>2, <2>3
  <1>14. pc' \in {"idle", "rotated"}
    BY <1>10
  <1> QED
    BY <1>8, <1>9, <1>12, <1>13, <1>14 DEF TypeOK, DiskOK

(* Steps that only move on. *)
LEMMA MoveType == ASSUME TypeOK, Started \/ next \/ Abort \/ Ended PROVE TypeOK'
  <1>1. UNCHANGED <<disk, list, file, seen, since, read>>
    BY DEF Started, next, Abort, Ended, vars
  <1>2. \/ pc' = "idle" /\ cur' = cur
        \/ list # <<>> /\ cur' = 1 /\ pc' = "rotated"
        \/ pc' = "aborted" /\ cur' = cur
        \/ UNCHANGED <<pc, cur>>
    BY DEF Started, next, Abort, Ended, vars
  <1>3. list \in Seq(Path) /\ cur \in Nat
    BY DEF TypeOK
  <1>4. list # <<>> => 1 \in DOMAIN list
    BY <1>3
  <1>5. UNCHANGED cur => Current' = Current
    BY <1>1 DEF Current
  <1>6. DiskOK'
    BY <1>1, DiskKept
  <1>7. CASE UNCHANGED <<pc, cur>>
    BY <1>1, <1>5, <1>6, <1>7 DEF TypeOK, DiskOK
  <1>8. CASE list # <<>> /\ cur' = 1 /\ pc' = "rotated"
    BY <1>1, <1>4, <1>6, <1>8 DEF TypeOK, DiskOK
  <1>9. CASE pc' \in {"idle", "aborted"} /\ cur' = cur
    <2>1. /\ list' \in Seq(Path) /\ file' \in [Path -> File] /\ cur' \in Nat
          /\ \A p \in Path : file'[p].fd # 0 => file'[p].named /\ file'[p].st.ino # 0
      BY <1>1, <1>3, <1>9 DEF TypeOK
    <2>2. /\ seen' \in [ino : Inode \cup {0}, size : Nat]
          /\ since' \in [Path -> Nat] /\ read' \in [Path -> Seq(Piece)]
      BY <1>1 DEF TypeOK
    <2> QED
      BY <1>6, <1>9, <2>1, <2>2 DEF TypeOK, DiskOK
  <1> QED
    BY <1>2, <1>7, <1>8, <1>9

LEMMA StopType == ASSUME TypeOK, stop PROVE TypeOK'
  <1>1. list' \in Seq(Path) /\ file' \in [Path -> File] /\ \A p \in Path : file'[p].fd = 0
    BY WipedType DEF stop
  <1> QED
    BY <1>1, DiskKept DEF stop, TypeOK, DiskOK

LEMMA TypeStep == ASSUME TypeOK, [Next]_vars PROVE TypeOK'
  <1>1. CASE UNCHANGED vars
    BY <1>1, DiskKept DEF vars, TypeOK, DiskOK, Current
  <1>2. CASE Next
    BY <1>2, StartType, MoveType, RotatedType, OpenType, FopenType, GetlineType, StopType,
       OthersType DEF Next, Source
  <1> QED
    BY <1>1, <1>2

(* Every reachable state of the source is well formed: next() looks at      *)
(* files of the list only, and reads from open ones only.                   *)
THEOREM FilesTypes == Spec => []TypeOK
  <1>1. TypeOK /\ [Next]_vars => TypeOK'
    BY TypeStep
  <1> QED
    BY TypeInit, <1>1, PTL DEF Spec

---------------------------------------------------------------------------
(* What a path has in stock: the pieces next() returned, those stdio read   *)
(* ahead, and those it would still get from the file that is open.          *)
Pending(p) ==
    IF file[p].fd = 0 THEN <<>>
    ELSE SubSeq(data[file[p].fd], file[p].pos + 1, Len(data[file[p].fd]))

Stream(p) == (read[p] \o file[p].buf) \o Pending(p)

(* The numbers of the pieces of s rise, from above lo up to hi. *)
Rising(s, lo, hi) ==
    \A i \in DOMAIN s : s[i].n > lo /\ s[i].n <= hi /\ \A k \in 1 .. i - 1 : s[k].n < s[i].n

(* A path has an inode of its own, which no other path has open. *)
InodesOK ==
    /\ inodes >= Len(Paths)
    /\ \A p \in Path : fs[p] <= inodes /\ file[p].fd <= inodes
    /\ \A p, q \in Path : p # q /\ fs[p] # 0 => fs[q] # fs[p] /\ file[q].fd # fs[p]

(* Before next() is called nothing is read, and the paths start() has not   *)
(* come to are not open.                                                    *)
StartOK ==
    pc = "start" =>
        /\ \A p \in Path : read[p] = <<>> /\ file[p].buf = <<>>
        /\ \A i \in DOMAIN Paths : i > cur => file[Paths[i]].fd = 0

StreamsOK == \A p \in Path : since[p] <= written[p] /\ Rising(Stream(p), since[p], written[p])

(* Files that are only appended to stay open once they are, and all that is *)
(* written to them from then on is in stock.                                *)
Followed(i) ==
    LET p == Paths[i]  f == file[p]  d == data[i] IN
    /\ f.fd = i /\ f.st.ino = i /\ f.st.size <= Len(d) /\ f.pos <= Len(d)
    /\ Stream(p) = SubSeq(d, since[p] + 1, Len(d))

FollowedOK ==
    Undisturbed /\ pc # "stopped" =>
        /\ pc \in {"start", "idle", "rotated", "getline"}
        /\ \A i \in DOMAIN Paths : /\ Len(data[i]) = written[Paths[i]]
                                   /\ (pc # "start" \/ i <= cur) => Followed(i)

FilesInv == TypeOK /\ InodesOK /\ StartOK /\ StreamsOK /\ FollowedOK

---------------------------------------------------------------------------
(* Sequences of pieces. *)

LEMMA Joined ==
    ASSUME NEW s \in Seq(Piece), NEW k \in 0 .. Len(s)
    PROVE  SubSeq(s, 1, k) \o SubSeq(s, k + 1, Len(s)) = s
  <1>1. Len(s) \in Nat /\ 1 \in 1 .. Len(s) + 1 /\ k \in 1 - 1 .. Len(s) /\ Len(s) \in k .. Len(s)
    OBVIOUS
  <1> QED
    BY <1>1, ConcatAdjacentSubSeq, SubSeqFull

LEMMA NoRest ==
    ASSUME NEW d \in Seq(Piece), NEW pos \in Nat, Len(d) <= pos
    PROVE  SubSeq(d, pos + 1, Len(d)) = <<>>
  <1>1. Len(d) \in Int /\ pos + 1 \in Int /\ Len(d) < pos + 1
    OBVIOUS
  <1> QED
    BY <1>1, SubSeqEmpty

LEMMA RestAppended ==
    ASSUME NEW d \in Seq(Piece), NEW e \in Piece, NEW pos \in Nat, pos <= Len(d)
    PROVE  SubSeq(Append(d, e), pos + 1, Len(Append(d, e)))
              = Append(SubSeq(d, pos + 1, Len(d)), e)
  <1> DEFINE l == Len(d)
             b == Append(d, e)
             r == SubSeq(d, pos + 1, l)
             q == SubSeq(b, pos + 1, l + 1)
  <1>1. /\ l \in Nat /\ b \in Seq(Piece) /\ Len(b) = l + 1 /\ b[l + 1] = e
        /\ \A i \in 1 .. l : b[i] = d[i] /\ d[i] \in Piece
        /\ \A i \in 1 .. l + 1 : b[i] \in Piece
    BY AppendProperties
  <1> HIDE DEF b
  <1>2. r \in Seq(Piece) /\ Len(r) = l - pos /\ \A i \in 1 .. l - pos : r[i] = d[pos + i]
    <2>1. \A i \in pos + 1 .. l : d[i] \in Piece
      BY <1>1
    <2>2. /\ SubSeq(d, pos + 1, l) \in Seq(Piece)
          /\ Len(SubSeq(d, pos + 1, l)) = IF pos + 1 <= l THEN l - (pos + 1) + 1 ELSE 0
          /\ \A i \in 1 .. l - (pos + 1) + 1 : SubSeq(d, pos + 1, l)[i] = d[(pos + 1) + i - 1]
      BY <1>1, <2>1, SubSeqProperties
    <2> QED
      BY <1>1, <2>2
  <1>3. q \in Seq(Piece) /\ Len(q) = l - pos + 1 /\ \A i \in 1 .. l - pos + 1 : q[i] = b[pos + i]
    <2>1. \A i \in pos + 1 .. l + 1 : b[i] \in Piece
      BY <1>1
    <2>2. /\ SubSeq(b, pos + 1, l + 1) \in Seq(Piece)
          /\ Len(SubSeq(b, pos + 1, l + 1)) = IF pos + 1 <= l + 1 THEN l + 1 - (pos + 1) + 1 ELSE 0
          /\ \A i \in 1 .. l + 1 - (pos + 1) + 1 : SubSeq(b, pos + 1, l + 1)[i] = b[(pos + 1) + i - 1]
      BY <1>1, <2>1, SubSeqProperties
    <2> QED
      BY <1>1, <2>2
  <1> HIDE DEF r, q, l
  <1>4. /\ Append(r, e) \in Seq(Piece) /\ Len(Append(r, e)) = l - pos + 1
        /\ \A i \in 1 .. l - pos : Append(r, e)[i] = r[i]
        /\ Append(r, e)[l - pos + 1] = e
    BY <1>2, AppendProperties
  <1>5. \A i \in 1 .. Len(q) : q[i] = Append(r, e)[i]
    <2> SUFFICES ASSUME NEW i \in 1 .. Len(q) PROVE q[i] = Append(r, e)[i]
      OBVIOUS
    <2>1. CASE i = l - pos + 1
      <3>1. pos + i = l + 1
        BY <1>1, <2>1
      <3> QED
        BY <1>1, <1>3, <1>4, <2>1, <3>1
    <2>2. CASE i # l - pos + 1
      <3>1. i \in 1 .. l - pos /\ pos + i \in 1 .. l
        BY <1>1, <1>3, <2>2
      <3> QED
        BY <1>1, <1>2, <1>3, <1>4, <3>1
    <2> QED
      BY <2>1, <2>2
  <1>6. q = Append(r, e)
    BY <1>3, <1>4, <1>5, SeqEqual
  <1> QED
    BY <1>1, <1>6 DEF q, r, b, l

LEMMA PieceNumber == ASSUME NEW s \in Seq(Piece), NEW i \in 1 .. Len(s) PROVE s[i].n \in Nat
  <1>1. s[i] \in Piece
    OBVIOUS
  <1> QED
    BY <1>1 DEF Piece

LEMMA RisingPrefix ==
    ASSUME NEW s \in Seq(Piece), NEW t \in Seq(Piece), NEW lo \in Nat, NEW hi \in Nat,
           NEW top \in Nat, hi <= top, Rising(s \o t, lo, hi)
    PROVE  Rising(s, lo, top)
  <1>1. /\ Len(s) \in Nat /\ Len(t) \in Nat /\ DOMAIN s = 1 .. Len(s)
        /\ DOMAIN (s \o t) = 1 .. Len(s) + Len(t)
        /\ \A i \in 1 .. Len(s) : (s \o t)[i] = s[i]
        /\ \A i \in 1 .. Len(s) : s[i].n \in Nat
    <2>1. \A i \in 1 .. Len(s) : s[i].n \in Nat
      BY PieceNumber
    <2>2. Len(s) \in Nat /\ Len(t) \in Nat /\ s \o t \in Seq(Piece) /\ DOMAIN s = 1 .. Len(s)
      BY ConcatProperties
    <2>3. Len(s \o t) = Len(s) + Len(t) /\ DOMAIN (s \o t) = 1 .. Len(s \o t)
      BY <2>2, ConcatProperties
    <2>4. \A i \in 1 .. Len(s) : (s \o t)[i] = s[i]
      BY <2>2, ConcatProperties
    <2> QED
      BY <2>1, <2>2, <2>3, <2>4
  <1>2. \A i \in 1 .. Len(s) : i \in DOMAIN (s \o t) /\ \A k \in 1 .. i - 1 : k \in 1 .. Len(s)
    BY <1>1
  <1> QED
    BY <1>1, <1>2 DEF Rising

LEMMA RisingAppend ==
    ASSUME NEW s \in Seq(Piece), NEW e \in Piece, NEW lo \in Nat, NEW hi \in Nat,
           lo <= hi, Rising(s, lo, hi), e.n = hi + 1
    PROVE  Rising(Append(s, e), lo, hi + 1)
  <1> DEFINE a == Append(s, e)
  <1>1. /\ Len(s) \in Nat /\ DOMAIN s = 1 .. Len(s) /\ DOMAIN a = 1 .. Len(s) + 1
        /\ \A i \in 1 .. Len(s) : a[i] = s[i] /\ s[i].n \in Nat
        /\ a[Len(s) + 1] = e
    <2>1. \A i \in 1 .. Len(s) : s[i].n \in Nat
      BY PieceNumber
    <2> QED
      BY <2>1, AppendProperties
  <1>2. \A i \in 1 .. Len(s) : /\ s[i].n > lo /\ s[i].n <= hi
                               /\ \A k \in 1 .. i - 1 : s[k].n < s[i].n
    BY <1>1 DEF Rising
  <1> HIDE DEF a
  <1> SUFFICES ASSUME NEW i \in 1 .. Len(s) + 1
               PROVE  a[i].n > lo /\ a[i].n <= hi + 1 /\ \A k \in 1 .. i - 1 : a[k].n < a[i].n
    BY <1>1 DEF Rising, a
  <1>3. CASE i = Len(s) + 1
    <2>1. \A k \in 1 .. i - 1 : k \in 1 .. Len(s)
      BY <1>1, <1>3
    <2> QED
      BY <1>1, <1>2, <1>3, <2>1
  <1>4. CASE i # Len(s) + 1
    <2>1. i \in 1 .. Len(s) /\ \A k \in 1 .. i - 1 : k \in 1 .. Len(s)
      BY <1>1, <1>4
    <2> QED
      BY <1>1, <1>2, <2>1
  <1> QED
    BY <1>3, <1>4

---------------------------------------------------------------------------
(* The steps of the source and of the other programs. *)

(* The source opens for a path what is there, and keeps or closes the rest. *)
LEMMA FilesOpened ==
    ASSUME TypeOK, [Next]_vars
    PROVE  \A p \in Path : /\ file'[p].fd \in {file[p].fd, 0, fs[p]}
                           /\ file'[p].fd # 0 => file'[p].fd = file[p].fd \/ UNCHANGED fs
  <1>1. file \in [Path -> File]
    BY DEF TypeOK
  <1>2. CASE start
    <2>1. CASE UNCHANGED file
      BY <2>1
    <2>2. CASE file' = [file EXCEPT ![Paths[cur']] = Opened(Paths[cur'], Stat(fs[Paths[cur']]))]
      BY <1>1, <1>2, <2>2 DEF Opened, start, disk
    <2> QED
      BY <1>2, <2>1, <2>2 DEF start
  <1>3. CASE file_rotated
    <2>1. file' = [file EXCEPT ![Current] = Closed(@)]
             \/ file' = [file EXCEPT ![Current].st = Stat(fs[Current])]
      BY <1>3 DEF file_rotated
    <2>2. Current \in Path /\ file[Current] \in File
      BY <1>3, CurrentType DEF file_rotated
    <2>3. file'[Current].fd \in {file[Current].fd, 0}
      <3> DEFINE f == file[Current]
                 g == [f EXCEPT !.st = Stat(fs[Current])]
      <3>1. Closed(f).fd = 0 /\ g.fd = f.fd
        BY <2>2 DEF File, Closed
      <3>2. file'[Current] = Closed(f) \/ file'[Current] = g
        BY <1>1, <2>1, <2>2
      <3> QED
        BY <3>1, <3>2
    <2>4. \A p \in Path : p # Current => file'[p] = file[p]
      BY <1>1, <2>1
    <2>5. file'[Current].fd # 0 => file'[Current].fd = file[Current].fd
      BY <2>3
    <2> QED
      BY <2>3, <2>4, <2>5
  <1>4. CASE file_open \/ stop
    BY <1>1, <1>4 DEF file_open, stop, Wiped
  <1>5. CASE fopen
    BY <1>1, <1>5 DEF fopen, Opened, disk
  <1>6. CASE file_getline
    <2>1. Current \in Path => file'[Current].fd = file[Current].fd
      BY <1>1, <1>6 DEF file_getline, File
    <2>2. \A p \in Path : p # Current => file'[p] = file[p]
      BY <1>1, <1>6 DEF file_getline
    <2> QED
      BY <2>1, <2>2
  <1>7. CASE UNCHANGED file
    BY <1>7
  <1> QED
    BY <1>2, <1>3, <1>4, <1>5, <1>6, <1>7
    DEF Next, Source, Started, next, Abort, Ended, Write, Rotate, Truncate, FallSilent, vars

LEMMA InodesStep ==
    ASSUME TypeOK, InodesOK, [Next]_vars
    PROVE  InodesOK'
  <1>1. /\ \A p \in Path : fs[p] \in Nat /\ file[p].fd \in Nat /\ fs[p] <= inodes
                           /\ file[p].fd <= inodes
        /\ inodes \in Nat /\ Len(Paths) \in Nat /\ inodes >= Len(Paths)
        /\ fs \in [Path -> Inode \cup {0}]
    BY PathsList, FilesAssumption DEF TypeOK, InodesOK, Inode, File
  <1>2. CASE UNCHANGED <<fs, inodes>>
    BY <1>1, <1>2, FilesOpened DEF InodesOK
  <1>3. ASSUME NEW q \in Path, Rotate(q) PROVE InodesOK'
    <2>1. UNCHANGED file
      BY <1>3 DEF Rotate
    <2>2. CASE fs' = [fs EXCEPT ![q] = 0] /\ UNCHANGED inodes
      BY <1>1, <2>1, <2>2 DEF InodesOK
    <2>3. CASE inodes' = inodes + 1 /\ fs' = [fs EXCEPT ![q] = inodes']
      <3>1. /\ \A p \in Path : fs'[p] = IF p = q THEN inodes + 1 ELSE fs[p]
            /\ \A p \in Path : fs[p] # inodes + 1 /\ file[p].fd # inodes + 1
        BY <1>1, <2>3
      <3>2. inodes' >= Len(Paths) /\ \A p \in Path : fs'[p] <= inodes' /\ file'[p].fd <= inodes'
        BY <1>1, <2>1, <2>3, <3>1
      <3>3. \A p, r \in Path : p # r /\ fs'[p] # 0 => fs'[r] # fs'[p] /\ file'[r].fd # fs'[p]
        BY <1>1, <2>1, <3>1 DEF InodesOK
      <3> QED
        BY <3>2, <3>3 DEF InodesOK
    <2> QED
      BY <1>3, <2>2, <2>3 DEF Rotate
  <1> QED
    BY <1>2, <1>3 DEF Next, Source, start, Started, next, file_rotated, Abort, file_open, fopen,
                      file_getline, stop, Ended, Write, Truncate, FallSilent, vars, disk

LEMMA StartStep ==
    ASSUME TypeOK, StartOK, [Next]_vars
    PROVE  StartOK'
  <1>1. CASE UNCHANGED <<pc, cur, file, read>>
    BY <1>1 DEF StartOK
  <1>2. CASE start
    <2>1. /\ pc = "start" /\ cur' = cur + 1 /\ cur < Len(Paths) /\ UNCHANGED <<pc, read>>
          /\ UNCHANGED file
                \/ file' = [file EXCEPT ![Paths[cur']] = Opened(Paths[cur'], Stat(fs[Paths[cur']]))]
      BY <1>2 DEF start
    <2>2. cur \in Nat /\ Len(Paths) \in Nat /\ file \in [Path -> File]
      BY PathsList DEF TypeOK
    <2>3. \A p \in Path : read'[p] = <<>> /\ file'[p].buf = <<>>
      BY <2>1, <2>2 DEF StartOK, Opened
    <2>4. ASSUME NEW i \in DOMAIN Paths, i > cur' PROVE file'[Paths[i]].fd = 0
      <3>1. i \in 1 .. Len(Paths) /\ cur' \in 1 .. Len(Paths)
        BY <2>1, <2>2, FilesAssumption
      <3>2. Paths[i] # Paths[cur'] /\ Paths[i] \in Path /\ i > cur
        BY <2>1, <2>2, <2>4, <3>1, FilesAssumption DEF Path
      <3>3. file'[Paths[i]] = file[Paths[i]]
        BY <2>1, <2>2, <3>2
      <3> QED
        BY <2>1, <2>4, <3>2, <3>3 DEF StartOK
    <2> QED
      BY <2>3, <2>4 DEF StartOK
  <1>3. CASE pc' # "start"
    BY <1>3 DEF StartOK
  <1> QED
    BY <1>1, <1>2, <1>3 DEF Next, Source, Started, next, file_rotated, Abort, file_open, fopen,
       file_getline, Turn, stop, Ended, Write, Rotate, Truncate, FallSilent, vars

---------------------------------------------------------------------------
(* What the steps do to the stock of a path. *)

LEMMA StreamType ==
    ASSUME TypeOK, NEW p \in Path
    PROVE  /\ read[p] \in Seq(Piece) /\ file[p].buf \in Seq(Piece) /\ Pending(p) \in Seq(Piece)
           /\ read[p] \o file[p].buf \in Seq(Piece) /\ Stream(p) \in Seq(Piece)
           /\ file[p].pos \in Nat /\ file[p].fd \in Inode \cup {0}
           /\ fs[p] \in Inode \cup {0}
  <1>1. /\ read[p] \in Seq(Piece) /\ file[p].buf \in Seq(Piece) /\ file[p].pos \in Nat
        /\ file[p].fd \in Inode \cup {0} /\ fs[p] \in Inode \cup {0}
    BY DEF TypeOK, File
  <1>2. Pending(p) \in Seq(Piece)
    <2>1. CASE file[p].fd = 0
      <3>1. <<>> \in Seq(Piece)
        OBVIOUS
      <3> QED
        BY <2>1, <3>1 DEF Pending
    <2>2. CASE file[p].fd # 0
      <3>1. data[file[p].fd] \in Seq(Piece)
        BY <1>1, <2>2 DEF TypeOK
      <3>2. file[p].pos + 1 \in Nat \ {0} /\ Len(data[file[p].fd]) \in 0 .. Len(data[file[p].fd])
        BY <1>1, <3>1
      <3> QED
        BY <2>2, <3>1, <3>2, PartType DEF Pending
    <2> QED
      BY <2>1, <2>2
  <1> QED
    BY <1>1, <1>2, ConcatProperties DEF Stream

Keeps(p) ==
    /\ read'[p] = read[p] /\ file'[p].buf = file[p].buf
    /\ file'[p].fd = file[p].fd /\ file'[p].pos = file[p].pos

Drops(p) == \E t \in Seq(Piece) : Stream(p) = Stream(p)' \o t

LEMMA SameStream ==
    ASSUME TypeOK, NEW p \in Path, Keeps(p), UNCHANGED data
    PROVE  Stream(p)' = Stream(p)
  BY DEF Keeps, Stream, Pending

LEMMA SameDrops == ASSUME TypeOK, NEW p \in Path, Stream(p)' = Stream(p) PROVE Drops(p)
  <1>1. <<>> \in Seq(Piece) /\ Stream(p) \o <<>> = Stream(p)
    BY StreamType, ConcatEmptySeq
  <1> QED
    BY <1>1 DEF Drops

LEMMA PendingDrops ==
    ASSUME TypeOK, NEW p \in Path, read'[p] = read[p], file'[p].buf = file[p].buf,
           Pending(p)' = <<>>
    PROVE  Drops(p)
  <1>1. Stream(p)' = read[p] \o file[p].buf
    BY StreamType, ConcatEmptySeq DEF Stream
  <1> QED
    BY <1>1, StreamType DEF Stream, Drops

LEMMA ClosedDrops ==
    ASSUME TypeOK, NEW p \in Path, read'[p] = read[p], file'[p].buf = <<>>, Pending(p)' = <<>>
    PROVE  Stream(p)' = read[p] /\ Drops(p)
  <1>1. Stream(p)' = read[p]
    BY StreamType, ConcatEmptySeq DEF Stream
  <1>2. Stream(p) = read[p] \o (file[p].buf \o Pending(p))
    <2> DEFINE r == read[p]
               b == file[p].buf
               s == Pending(p)
    <2>1. r \in Seq(Piece) /\ b \in Seq(Piece) /\ s \in Seq(Piece)
      BY StreamType
    <2> HIDE DEF r, b, s
    <2>2. (r \o b) \o s = r \o (b \o s)
      BY <2>1, ConcatAssociative
    <2> QED
      BY <2>2 DEF r, b, s, Stream
  <1>3. file[p].buf \o Pending(p) \in Seq(Piece)
    BY StreamType, ConcatProperties
  <1> QED
    BY <1>1, <1>2, <1>3 DEF Drops

(* A file that was just opened has nothing to read. *)
LEMMA OpenedEmpty ==
    ASSUME TypeOK, NEW p \in Path, NEW st, fs[p] # 0, file'[p] = Opened(p, st), UNCHANGED data
    PROVE  file'[p].buf = <<>> /\ Pending(p)' = <<>>
  <1>1. data[fs[p]] \in Seq(Piece) /\ Len(data[fs[p]]) \in Nat
    BY DEF TypeOK
  <1>2. SubSeq(data[fs[p]], Len(data[fs[p]]) + 1, Len(data[fs[p]])) = <<>>
    BY <1>1, NoRest
  <1> QED
    BY <1>2 DEF Opened, Pending

(* A change to one file is none to what another has in stock. *)
LEMMA OtherPending ==
    ASSUME TypeOK, NEW p \in Path, NEW i \in Inode, NEW d, file[p].fd # i, UNCHANGED file,
           data' = [data EXCEPT ![i] = d]
    PROVE  Pending(p)' = Pending(p)
  <1> DEFINE f == file[p]
  <1>1. /\ Pending(p) = IF f.fd = 0 THEN <<>>
                        ELSE SubSeq(data[f.fd], f.pos + 1, Len(data[f.fd]))
        /\ Pending(p)' = IF f.fd = 0 THEN <<>>
                         ELSE SubSeq(data'[f.fd], f.pos + 1, Len(data'[f.fd]))
    BY DEF Pending
  <1>2. f.fd # 0 => data'[f.fd] = data[f.fd]
    BY StreamType DEF TypeOK
  <1> HIDE DEF f
  <1>3. CASE f.fd = 0
    BY <1>1, <1>3
  <1>4. CASE f.fd # 0
    BY <1>1, <1>2, <1>4
  <1> QED
    BY <1>3, <1>4

(* What is appended to a file comes last of all. *)
LEMMA WriteStream ==
    ASSUME TypeOK, InodesOK, NEW q \in Path, NEW e \in Piece, fs[q] # 0, UNCHANGED <<file, read>>,
           data' = [data EXCEPT ![fs[q]] = Append(@, e)]
    PROVE  /\ \A p \in Path \ {q} : Stream(p)' = Stream(p)
           /\ Stream(q)' = Stream(q) \/ Stream(q)' = Append(Stream(q), e)
           /\ file[q].fd = fs[q] /\ file[q].pos <= Len(data[fs[q]]) =>
                 Stream(q)' = Append(Stream(q), e)
  <1>1. fs[q] \in Inode /\ data[fs[q]] \in Seq(Piece) /\ data'[fs[q]] = Append(data[fs[q]], e)
    BY DEF TypeOK
  <1>2. ASSUME NEW p \in Path, file[p].fd # fs[q] PROVE Stream(p)' = Stream(p)
    <2>1. Pending(p)' = Pending(p)
      BY <1>1, <1>2, OtherPending
    <2> QED
      BY <2>1 DEF Stream
  <1>3. \A p \in Path \ {q} : Stream(p)' = Stream(p)
    BY <1>2 DEF InodesOK
  <1>4. CASE file[q].fd = fs[q] /\ file[q].pos <= Len(data[fs[q]])
    <2>1. Pending(q)' = Append(Pending(q), e)
      <3>1. file[q].pos \in Nat
        BY StreamType
      <3>2. /\ Pending(q) = SubSeq(data[fs[q]], file[q].pos + 1, Len(data[fs[q]]))
            /\ Pending(q)' = SubSeq(data'[fs[q]], file[q].pos + 1, Len(data'[fs[q]]))
        BY <1>4 DEF Pending
      <3> QED
        BY <1>1, <1>4, <3>1, <3>2, RestAppended
    <2>2. Stream(q)' = (read[q] \o file[q].buf) \o Append(Pending(q), e)
      BY <2>1 DEF Stream
    <2> DEFINE r == read[q] \o file[q].buf
               s == Pending(q)
    <2>3. r \in Seq(Piece) /\ s \in Seq(Piece)
      BY StreamType
    <2> HIDE DEF r, s
    <2>4. r \o Append(s, e) = Append(r \o s, e)
      <3>1. <<e>> \in Seq(Piece) /\ r \o s \in Seq(Piece)
        BY <2>3, ConcatProperties
      <3>2. Append(s, e) = s \o <<e>> /\ Append(r \o s, e) = (r \o s) \o <<e>>
        BY <2>3, <3>1, AppendIsConcat
      <3> QED
        BY <2>3, <3>1, <3>2, ConcatAssociative
    <2> QED
      BY <1>3, <2>2, <2>4 DEF r, s, Stream
  <1>5. CASE file[q].fd = fs[q] /\ ~(file[q].pos <= Len(data[fs[q]]))
    <2>1. file[q].pos \in Nat /\ Len(data[fs[q]]) \in Nat
      BY <1>1, StreamType
    <2>2. Append(data[fs[q]], e) \in Seq(Piece) /\ Len(Append(data[fs[q]], e)) = Len(data[fs[q]]) + 1
      BY <1>1, AppendProperties
    <2>3. Len(data[fs[q]]) <= file[q].pos /\ Len(Append(data[fs[q]], e)) <= file[q].pos
      BY <1>5, <2>1, <2>2
    <2>4. Pending(q) = <<>> /\ Pending(q)' = <<>>
      BY <1>1, <1>5, <2>1, <2>2, <2>3, NoRest DEF Pending
    <2> QED
      BY <1>3, <1>5, <2>4 DEF Stream
  <1> QED
    BY <1>2, <1>3, <1>4, <1>5

(* file_getline moves pieces from the file to stdio and from there to the   *)
(* jail; the stock stays what it was.                                       *)
LEMMA GetlineStream ==
    ASSUME TypeOK, file_getline
    PROVE  /\ \A p \in Path : Stream(p)' = Stream(p)
           /\ \A p \in Path : /\ file'[p].fd = file[p].fd /\ file'[p].st = file[p].st
                              /\ file'[p].pos \in {file[p].pos, Len(data[file[p].fd])}
  <1> DEFINE f == file[Current]
             got == ReadAhead(f)
             k == LineEnd(got)
             end == Len(data[f.fd])
             rest == SubSeq(data[f.fd], f.pos + 1, end)
             pos2 == IF HasLine(f.buf) \/ end < f.pos THEN f.pos ELSE end
             g == [f EXCEPT !.pos = pos2, !.buf = SubSeq(got, k + 1, Len(got))]
  <1>0. pc = "getline" /\ UNCHANGED <<disk, data>>
    BY DEF file_getline, disk
  <1>1. Current \in Path /\ f \in File /\ f.fd # 0
    BY <1>0, CurrentType DEF TypeOK
  <1>2. /\ got \in Seq(Piece) /\ end \in Nat /\ k \in 0 .. Len(got) /\ f.pos \in Nat
        /\ data[f.fd] \in Seq(Piece)
    BY <1>1, ReadAheadType, LineEndType DEF File, TypeOK
  <1>3. file' = [file EXCEPT ![Current] = g] /\ file \in [Path -> File]
    BY <1>1 DEF file_getline, TypeOK
  <1>4. file'[Current] = g /\ \A p \in Path : p # Current => file'[p] = file[p]
    BY <1>1, <1>3
  <1>5. g.fd = f.fd /\ g.st = f.st /\ g.pos = pos2 /\ g.buf = SubSeq(got, k + 1, Len(got))
    BY <1>1 DEF File
  <1>6. /\ read'[Current] = read[Current] \o SubSeq(got, 1, k)
        /\ \A p \in Path : p # Current => read'[p] = read[p]
    BY <1>1 DEF file_getline, TypeOK
  <1>7. \A p \in Path : p # Current => Stream(p)' = Stream(p)
    BY <1>0, <1>4, <1>6, SameStream DEF Keeps
  <1>8. Stream(Current) = (read[Current] \o f.buf) \o rest
    BY <1>1 DEF Stream, Pending
  <1>9. ASSUME NEW p \in Path, p = Current
        PROVE  Stream(p)' = (read[Current] \o got) \o SubSeq(data[f.fd], pos2 + 1, end)
    <2> DEFINE r == read[Current]
               a == SubSeq(got, 1, k)
               b == SubSeq(got, k + 1, Len(got))
    <2>1. Stream(p)' = ((r \o a) \o b) \o SubSeq(data[f.fd], pos2 + 1, end)
      <3>1. /\ file'[p] = g /\ read'[p] = r \o a /\ data' = data
        BY <1>0, <1>4, <1>6, <1>9
      <3>2. Pending(p)' = SubSeq(data[f.fd], pos2 + 1, end)
        BY <1>1, <1>5, <3>1 DEF Pending
      <3> QED
        BY <1>5, <3>1, <3>2 DEF Stream
    <2>2. r \in Seq(Piece) /\ a \in Seq(Piece) /\ b \in Seq(Piece) /\ a \o b = got
      <3>1. k + 1 \in Nat \ {0} /\ 1 \in Nat \ {0} /\ Len(got) \in 0 .. Len(got)
        BY <1>2
      <3>2. a \in Seq(Piece) /\ b \in Seq(Piece)
        BY <1>2, <3>1, PartType
      <3>3. a \o b = got
        BY <1>2, Joined
      <3> QED
        BY <1>1, <3>2, <3>3, StreamType
    <2>3. (r \o a) \o b = r \o got
      <3>0. r \in Seq(Piece) /\ a \in Seq(Piece) /\ b \in Seq(Piece)
        BY <2>2
      <3> HIDE DEF r, a, b
      <3>1. (r \o a) \o b = r \o (a \o b)
        BY <3>0, ConcatAssociative
      <3> QED
        BY <2>2, <3>1
    <2> QED
      BY <2>1, <2>3
  <1>10. CASE HasLine(f.buf)
    <2>1. got = f.buf /\ pos2 = f.pos
      BY <1>10 DEF ReadAhead
    <2>2. \A p \in Path : Stream(p)' = Stream(p)
      BY <1>7, <1>8, <1>9, <2>1
    <2> QED
      BY <1>4, <1>5, <2>1, <2>2
  <1>11. CASE ~HasLine(f.buf)
    <2>1. got = f.buf \o rest
      BY <1>11 DEF ReadAhead
    <2>2. end <= pos2 /\ pos2 \in Nat /\ pos2 \in {f.pos, end}
      BY <1>2, <1>11
    <2>3. SubSeq(data[f.fd], pos2 + 1, end) = <<>>
      <3> HIDE DEF pos2
      <3> QED
        BY <1>2, <2>2, NoRest
    <2> DEFINE r == read[Current]
               b == f.buf
    <2>4. r \in Seq(Piece) /\ b \in Seq(Piece) /\ rest \in Seq(Piece)
      <3>1. rest = Pending(Current)
        BY <1>1 DEF Pending
      <3> QED
        BY <1>1, <3>1, StreamType
    <2>5. (r \o got) \o <<>> = (r \o b) \o rest
      <3> HIDE DEF r, b, got, rest
      <3>1. b \o rest \in Seq(Piece) /\ r \o (b \o rest) \in Seq(Piece)
        BY <2>4, ConcatProperties
      <3>2. (r \o (b \o rest)) \o <<>> = r \o (b \o rest)
        BY <3>1, ConcatEmptySeq
      <3>3. got = b \o rest
        BY <2>1 DEF b
      <3> QED
        BY <2>4, <3>2, <3>3, ConcatAssociative
    <2>6. ASSUME NEW p \in Path, p = Current PROVE Stream(p)' = Stream(p)
      BY <1>8, <1>9, <2>3, <2>5, <2>6
    <2>7. \A p \in Path : Stream(p)' = Stream(p)
      BY <1>7, <2>6
    <2> HIDE DEF pos2
    <2> QED
      BY <1>4, <1>5, <2>2, <2>7
  <1> QED
    BY <1>10, <1>11

(* The other steps of the source lose what a closed file had in stock, and  *)
(* nothing else.                                                            *)
LEMMA SourceDrops ==
    ASSUME TypeOK,
           Started \/ next \/ file_rotated \/ Abort \/ file_open \/ fopen \/ file_getline \/ stop
              \/ UNCHANGED vars
    PROVE  \A p \in Path : Drops(p)
  <1>0. UNCHANGED data /\ file \in [Path -> File]
    BY DEF Started, next, file_rotated, Abort, file_open, fopen, file_getline, stop, disk, vars,
           TypeOK
  <1>1. CASE UNCHANGED <<file, read>>
    BY <1>0, <1>1, SameStream, SameDrops DEF Keeps
  <1>2. CASE file_getline
    BY <1>2, GetlineStream, SameDrops
  <1>3. CASE stop
    <2>1. \A p \in Path : file'[p] = Wiped /\ read'[p] = read[p]
      BY <1>3 DEF stop
    <2>2. \A p \in Path : file'[p].buf = <<>> /\ Pending(p)' = <<>>
      BY <2>1 DEF Wiped, Pending
    <2> QED
      BY <2>1, <2>2, ClosedDrops
  <1>4. ASSUME pc \in {"rotated", "open", "fopen"}, UNCHANGED read,
               NEW g, file' = [file EXCEPT ![Current] = g], g.buf = <<>>,
               \A p \in Path : p = Current => Pending(p)' = <<>>
        PROVE  \A p \in Path : Drops(p)
    <2>1. Current \in Path
      BY <1>4, CurrentType
    <2>2. file'[Current] = g /\ \A p \in Path : p # Current => file'[p] = file[p]
      BY <1>0, <1>4, <2>1
    <2>3. ASSUME NEW p \in Path, p # Current PROVE Drops(p)
      BY <1>0, <1>4, <2>2, <2>3, SameStream, SameDrops DEF Keeps
    <2>4. ASSUME NEW p \in Path, p = Current PROVE Drops(p)
      BY <1>4, <2>2, <2>4, ClosedDrops
    <2> QED
      BY <2>3, <2>4
  <1>5. CASE file_rotated
    <2>0. pc = "rotated" /\ UNCHANGED read /\ Current \in Path
      BY <1>5, CurrentType DEF file_rotated
    <2>1. CASE file' = [file EXCEPT ![Current] = Closed(file[Current])]
      <3> DEFINE g == Closed(file[Current])
      <3>1. g.buf = <<>> /\ g.fd = 0
        BY <1>0, <2>0 DEF Closed, File
      <3>2. \A p \in Path : p = Current => Pending(p)' = <<>>
        BY <1>0, <2>0, <2>1, <3>1 DEF Pending
      <3> HIDE DEF g
      <3> QED
        BY <1>4, <2>0, <2>1, <3>1, <3>2 DEF g
    <2>2. CASE file' = [file EXCEPT ![Current].st = Stat(fs[Current])]
      <3>1. \A p \in Path : Keeps(p)
        BY <1>0, <2>0, <2>2 DEF Keeps, File
      <3> QED
        BY <1>0, <3>1, SameStream, SameDrops
    <2> QED
      BY <1>5, <2>1, <2>2 DEF file_rotated
  <1>6. CASE file_open
    <2>1. pc = "open" /\ UNCHANGED read /\ file' = [file EXCEPT ![Current] = Wiped]
      BY <1>6 DEF file_open
    <2>2. Current \in Path
      BY <2>1, CurrentType
    <2>3. Wiped.buf = <<>> /\ \A p \in Path : p = Current => Pending(p)' = <<>>
      BY <1>0, <2>1, <2>2 DEF Pending, Wiped
    <2> QED
      BY <1>4, <2>1, <2>3
  <1>7. CASE fopen
    <2>0. pc = "fopen" /\ UNCHANGED read
      BY <1>7 DEF fopen
    <2>1. Current \in Path
      BY <2>0, CurrentType
    <2>2. CASE fs[Current] # 0 /\ file' = [file EXCEPT ![Current] = Opened(Current, seen)]
      <3> DEFINE g == Opened(Current, seen)
      <3>1. file' = [file EXCEPT ![Current] = g]
        BY <2>2
      <3>2. ASSUME NEW p \in Path, p = Current PROVE Pending(p)' = <<>>
        <4>1. file'[p] = Opened(p, seen)
          BY <1>0, <2>1, <3>1, <3>2
        <4> QED
          BY <1>0, <2>2, <3>2, <4>1, OpenedEmpty
      <3>3. g.buf = <<>>
        BY DEF Opened
      <3> HIDE DEF g
      <3> QED
        BY <1>4, <2>0, <3>1, <3>2, <3>3
    <2>3. CASE UNCHANGED file
      BY <1>1, <1>7, <2>0, <2>3 DEF fopen
    <2> QED
      BY <1>7, <2>2, <2>3 DEF fopen
  <1> QED
    BY <1>1, <1>2, <1>3, <1>5, <1>6, <1>7 DEF Started, next, Abort, vars

LEMMA StreamTypes == TypeOK => (\A p \in Path : Stream(p) \in Seq(Piece))
  BY StreamType

LEMMA StreamTypesNext == TypeOK' => (\A p \in Path : Stream(p) \in Seq(Piece))'
  BY StreamTypes, PTL

LEMMA TruncateDrops ==
    ASSUME TypeOK, NEW q \in Path, Truncate(q)
    PROVE  \A p \in Path : Drops(p)
  <1>1. /\ data' = [data EXCEPT ![fs[q]] = <<>>] /\ UNCHANGED <<file, read>>
        /\ fs[q] \in Inode /\ data \in [Inode -> Seq(Piece)]
    BY DEF Truncate, TypeOK
  <1>2. ASSUME NEW p \in Path, file[p].fd # fs[q] PROVE Drops(p)
    <2>1. Pending(p)' = Pending(p)
      BY <1>1, <1>2, OtherPending
    <2>2. Stream(p)' = Stream(p)
      BY <1>1, <2>1 DEF Stream
    <2> QED
      BY <2>2, SameDrops
  <1>3. ASSUME NEW p \in Path, file[p].fd = fs[q] PROVE Drops(p)
    <2>1. <<>> \in Seq(Piece) /\ Len(<<>>) <= file[p].pos /\ file[p].pos \in Nat
      BY StreamType
    <2>2. SubSeq(<<>>, file[p].pos + 1, Len(<<>>)) = <<>>
      BY <2>1, NoRest
    <2>3. data'[fs[q]] = <<>>
      BY <1>1
    <2>4. Pending(p)' = <<>>
      BY <1>1, <1>3, <2>2, <2>3 DEF Pending
    <2> QED
      BY <1>1, <2>4, PendingDrops
  <1> QED
    BY <1>2, <1>3

(* start() opens one more path, which has nothing in stock yet. *)
LEMMA StartStreams ==
    ASSUME TypeOK, StartOK, start
    PROVE  \E q \in Path :
           /\ cur + 1 \in DOMAIN Paths /\ q = Paths[cur + 1]
           /\ \A p \in Path \ {q} : /\ Stream(p)' = Stream(p) /\ since'[p] = since[p]
                                    /\ file'[p] = file[p]
           /\ Stream(q)' = <<>> /\ since'[q] = written[q]
           /\ fs[q] # 0 => file'[q] = Opened(q, Stat(fs[q]))
  <1>0. cur + 1 \in DOMAIN Paths /\ Paths[cur + 1] \in Path
    BY PathsList, FilesAssumption DEF TypeOK, start
  <1> PICK q \in Path : q = Paths[cur + 1]
    BY <1>0
  <1>1. /\ pc = "start" /\ cur < Len(Paths) /\ cur' = cur + 1 /\ UNCHANGED <<data, read>>
        /\ since' = [since EXCEPT ![q] = written[q]]
        /\ IF fs[q] = 0 THEN UNCHANGED file ELSE file' = [file EXCEPT ![q] = Opened(q, Stat(fs[q]))]
    BY DEF start, disk
  <1>3. \A p \in Path \ {q} : file'[p] = file[p] /\ since'[p] = since[p]
    BY <1>1 DEF TypeOK
  <1>4. \A p \in Path \ {q} : Stream(p)' = Stream(p)
    BY <1>1, <1>3, SameStream DEF Keeps
  <1>5. since'[q] = written[q]
    BY <1>1 DEF TypeOK
  <1>6. fs[q] # 0 => file'[q] = Opened(q, Stat(fs[q]))
    BY <1>1 DEF TypeOK
  <1>7. file'[q].buf = <<>> /\ Pending(q)' = <<>>
    <2>1. CASE fs[q] = 0
      <3>1. cur + 1 > cur
        BY DEF TypeOK
      <3>2. file[q].fd = 0 /\ file[q].buf = <<>> /\ UNCHANGED file
        BY <1>0, <1>1, <2>1, <3>1 DEF StartOK
      <3> QED
        BY <3>2 DEF Pending
    <2>2. CASE fs[q] # 0
      <3> DEFINE st == Stat(fs[q])
      <3>1. file'[q] = Opened(q, st) /\ UNCHANGED data
        BY <1>1, <1>6, <2>2
      <3> HIDE DEF st
      <3> QED
        BY <2>2, <3>1, OpenedEmpty
    <2> QED
      BY <2>1, <2>2
  <1>8. Stream(q)' = <<>>
    <2>1. read'[q] = <<>>
      BY <1>1 DEF StartOK
    <2> QED
      BY <1>7, <2>1 DEF Stream
  <1> QED
    BY <1>0, <1>3, <1>4, <1>5, <1>6, <1>8

LEMMA StreamsStep ==
    ASSUME TypeOK, TypeOK', InodesOK, StartOK, StreamsOK, [Next]_vars
    PROVE  StreamsOK'
  <1>1. \A p \in Path : /\ since[p] \in Nat /\ written[p] \in Nat /\ since[p] <= written[p]
                        /\ Rising(Stream(p), since[p], written[p])
                        /\ Stream(p) \in Seq(Piece) /\ Stream(p)' \in Seq(Piece)
    BY StreamTypes, StreamTypesNext DEF TypeOK, StreamsOK
  <1>2. ASSUME NEW p \in Path, Drops(p), since'[p] = since[p], written'[p] = written[p]
        PROVE  since'[p] <= written'[p] /\ Rising(Stream(p)', since'[p], written'[p])
    <2>1. PICK t \in Seq(Piece) : Stream(p) = Stream(p)' \o t
      BY <1>2 DEF Drops
    <2> DEFINE s == Stream(p)'
    <2>2. s \in Seq(Piece) /\ Rising(s \o t, since[p], written[p])
      BY <1>1, <2>1
    <2> HIDE DEF s
    <2>3. Rising(s, since[p], written[p])
      BY <1>1, <2>2, RisingPrefix
    <2> QED
      BY <1>1, <1>2, <2>3 DEF s
  <1>3. CASE /\ \A p \in Path : Drops(p)
             /\ UNCHANGED <<since, written>>
    BY <1>2, <1>3 DEF StreamsOK, Rising
  <1>4. CASE start
    <2>1. PICK q \in Path :
             /\ \A p \in Path \ {q} : Stream(p)' = Stream(p) /\ since'[p] = since[p]
             /\ Stream(q)' = <<>> /\ since'[q] = written[q]
      BY <1>4, StartStreams
    <2>2. UNCHANGED written
      BY <1>4 DEF start, disk
    <2>3. Rising(<<>>, since'[q], written'[q])
      BY DEF Rising
    <2>4. since'[q] <= written'[q] /\ Rising(Stream(q)', since'[q], written'[q])
      BY <1>1, <2>1, <2>2, <2>3
    <2>5. ASSUME NEW p \in Path, p # q
          PROVE  since'[p] <= written'[p] /\ Rising(Stream(p)', since'[p], written'[p])
      BY <1>1, <2>1, <2>2, <2>5
    <2> QED
      BY <2>4, <2>5 DEF StreamsOK, Rising
  <1>5. ASSUME NEW q \in Path, Write(q) PROVE StreamsOK'
    <2>1. PICK tail \in BOOLEAN :
             data' = [data EXCEPT ![fs[q]] =
                        Append(@, [n |-> written[q] + 1, head |-> q \notin half, tail |-> tail])]
      BY <1>5 DEF Write
    <2> DEFINE e == [n |-> written[q] + 1, head |-> q \notin half, tail |-> tail]
    <2>2. e \in Piece /\ e.n = written[q] + 1
      <3>1. written[q] + 1 \in Nat \ {0} /\ (q \notin half) \in BOOLEAN
        BY <1>1
      <3> QED
        BY <3>1 DEF Piece
    <2>3. /\ fs[q] # 0 /\ UNCHANGED <<file, read, since>>
          /\ written' = [written EXCEPT ![q] = @ + 1]
      BY <1>5 DEF Write
    <2>4. data' = [data EXCEPT ![fs[q]] = Append(@, e)]
      BY <2>1
    <2> HIDE DEF e
    <2>5. /\ \A p \in Path \ {q} : Stream(p)' = Stream(p) /\ written'[p] = written[p]
          /\ Stream(q)' = Stream(q) \/ Stream(q)' = Append(Stream(q), e)
          /\ written'[q] = written[q] + 1
      BY <2>2, <2>3, <2>4, WriteStream DEF TypeOK
    <2>6. Rising(Append(Stream(q), e), since[q], written[q] + 1)
      BY <1>1, <2>2, RisingAppend
    <2>7. Rising(Stream(q), since[q], written[q] + 1)
      <3> DEFINE s == Stream(q)
      <3>1. s \in Seq(Piece) /\ <<>> \in Seq(Piece) /\ s \o <<>> = s
        BY <1>1, ConcatEmptySeq
      <3>2. Rising(s \o <<>>, since[q], written[q])
        BY <1>1, <3>1
      <3>3. written[q] + 1 \in Nat /\ written[q] <= written[q] + 1
        BY <1>1
      <3> HIDE DEF s
      <3>4. Rising(s, since[q], written[q] + 1)
        BY <1>1, <3>1, <3>2, <3>3, RisingPrefix
      <3> QED
        BY <3>4 DEF s
    <2>8. since'[q] <= written'[q] /\ Rising(Stream(q)', since'[q], written'[q])
      <3>1. since'[q] = since[q] /\ written'[q] = written[q] + 1
        BY <2>3, <2>5
      <3>2. since[q] <= written[q] + 1
        BY <1>1
      <3>3. CASE Stream(q)' = Stream(q)
        BY <2>7, <3>1, <3>2, <3>3
      <3>4. CASE Stream(q)' = Append(Stream(q), e)
        BY <2>6, <3>1, <3>2, <3>4
      <3> QED
        BY <2>5, <3>3, <3>4
    <2>9. ASSUME NEW p \in Path, p # q
          PROVE  since'[p] <= written'[p] /\ Rising(Stream(p)', since'[p], written'[p])
      BY <1>1, <2>3, <2>5, <2>9
    <2> QED
      BY <2>8, <2>9 DEF StreamsOK, Rising
  <1>6. ASSUME NEW q \in Path, Rotate(q) PROVE StreamsOK'
    <2>1. UNCHANGED <<data, file, read, since, written>>
      BY <1>6 DEF Rotate
    <2> QED
      BY <1>3, <2>1, SameStream, SameDrops DEF Keeps
  <1>7. ASSUME NEW q \in Path, Truncate(q) PROVE StreamsOK'
    <2>1. UNCHANGED <<since, written>>
      BY <1>7 DEF Truncate
    <2> QED
      BY <1>3, <1>7, <2>1, TruncateDrops
  <1>9. ASSUME NEW q \in Path, FallSilent(q) PROVE StreamsOK'
    <2>1. UNCHANGED <<data, file, read, since, written>>
      BY <1>9 DEF FallSilent
    <2> QED
      BY <1>3, <2>1, SameStream, SameDrops DEF Keeps
  <1>8. CASE Started \/ next \/ file_rotated \/ Abort \/ file_open \/ fopen \/ file_getline
               \/ stop \/ UNCHANGED vars
    <2>1. UNCHANGED <<since, written>>
      BY <1>8 DEF Started, next, file_rotated, Abort, file_open, fopen, file_getline, stop, vars,
                  disk
    <2> QED
      BY <1>3, <1>8, <2>1, SourceDrops
  <1> QED
    BY <1>4, <1>5, <1>6, <1>7, <1>8, <1>9 DEF Next, Source, Ended

LEMMA FilesInit == Init => FilesInv
  <1> SUFFICES ASSUME Init PROVE FilesInv
    OBVIOUS
  <1>1. /\ \A i \in DOMAIN Paths : fs[Paths[i]] = i
        /\ inodes = Len(Paths) /\ data = [i \in Inode |-> <<>>]
        /\ written = [p \in Path |-> 0] /\ since = [p \in Path |-> 0]
        /\ file = [p \in Path |-> Wiped] /\ read = [p \in Path |-> <<>>]
        /\ pc = "start" /\ cur = 0
    BY DEF Init
  <1>2. /\ DOMAIN Paths = 1 .. Len(Paths) /\ Len(Paths) \in Nat
        /\ \A i \in DOMAIN Paths : Paths[i] \in Path /\ i \in Inode
        /\ \A p \in Path : \E i \in DOMAIN Paths : p = Paths[i]
    BY PathsList, FilesAssumption DEF Path, Inode
  <1>3. \A p \in Path : file[p].fd = 0 /\ file[p].buf = <<>> /\ read[p] = <<>>
    BY <1>1 DEF Wiped
  <1>4. InodesOK
    <2>1. \A p, q \in Path : fs[p] = fs[q] => p = q
      BY <1>1, <1>2
    <2>2. \A p \in Path : fs[p] \in 1 .. Len(Paths)
      BY <1>1, <1>2
    <2> QED
      BY <1>1, <1>2, <1>3, <2>1, <2>2 DEF InodesOK
  <1>5. StartOK
    BY <1>2, <1>3 DEF StartOK
  <1>6. StreamsOK
    <2>1. \A p \in Path : Stream(p) = <<>>
      BY <1>3 DEF Stream, Pending
    <2>2. Rising(<<>>, 0, 0)
      BY DEF Rising
    <2> QED
      BY <1>1, <2>1, <2>2 DEF StreamsOK
  <1>7. FollowedOK
    <2>1. \A i \in DOMAIN Paths : Len(data[i]) = written[Paths[i]]
      BY <1>1, <1>2
    <2>2. \A i \in DOMAIN Paths : ~(pc # "start" \/ i <= cur)
      BY <1>1, <1>2
    <2> QED
      BY <1>1, <2>1, <2>2 DEF FollowedOK
  <1> QED
    BY <1>4, <1>5, <1>6, <1>7, TypeInit DEF FilesInv

---------------------------------------------------------------------------
(* Files that are only appended to. *)

(* No step makes up for a rotation or a truncation. *)
LEMMA UndisturbedStep ==
    ASSUME TypeOK, InodesOK, [Next]_vars, Undisturbed'
    PROVE  Undisturbed /\ UNCHANGED fs
  <1>1. ASSUME NEW q \in Path, Rotate(q) PROVE FALSE
    <2>1. PICK j \in DOMAIN Paths : q = Paths[j]
      BY DEF Path
    <2>2. j \in 1 .. Len(Paths) /\ fs'[q] = j /\ q \in Path
      BY <2>1, FilesAssumption DEF Undisturbed
    <2>3. fs \in [Path -> Inode \cup {0}] /\ inodes \in Nat /\ Len(Paths) \in Nat
          /\ inodes >= Len(Paths)
      BY PathsList, FilesAssumption DEF TypeOK, InodesOK
    <2>4. CASE fs' = [fs EXCEPT ![q] = 0]
      BY <2>2, <2>3, <2>4
    <2>5. CASE inodes' = inodes + 1 /\ fs' = [fs EXCEPT ![q] = inodes']
      BY <2>2, <2>3, <2>5
    <2> QED
      BY <1>1, <2>4, <2>5 DEF Rotate
  <1>2. ASSUME NEW q \in Path, Truncate(q) PROVE FALSE
    BY <1>2, FilesAssumption DEF Truncate, Undisturbed, TypeOK
  <1>3. CASE UNCHANGED <<fs, truncated>>
    BY <1>3 DEF Undisturbed
  <1> QED
    BY <1>1, <1>2, <1>3 DEF Next, Source, start, Started, next, file_rotated, Abort, file_open,
       fopen, file_getline, stop, Ended, Write, FallSilent, vars, disk

(* The file of a path stays followed as long as it is left alone, but for   *)
(* what moves through stdio and a stat() that shows the same file.          *)
LEMMA StillFollowed ==
    ASSUME NEW i \in DOMAIN Paths, Followed(i), NEW p \in Path, p = Paths[i],
           Stream(p)' = Stream(p), since'[p] = since[p], data'[i] = data[i],
           file'[p].fd = file[p].fd, file'[p].st.ino = i, file'[p].st.size <= Len(data[i]),
           file'[p].pos <= Len(data[i])
    PROVE  Followed(i)'
  BY DEF Followed

LEMMA FollowedStep ==
    ASSUME FilesInv, [Next]_vars
    PROVE  FollowedOK'
  <1> USE DEF FilesInv
  <1> DEFINE Good ==
        /\ pc' \in {"start", "idle", "rotated", "getline"}
        /\ \A i \in DOMAIN Paths : /\ Len(data'[i]) = written'[Paths[i]]
                                   /\ (pc' # "start" \/ i <= cur') => Followed(i)'
  <1> SUFFICES ASSUME Undisturbed', pc' # "stopped" PROVE Good
    BY DEF FollowedOK
  <1>1. Undisturbed /\ UNCHANGED fs
    BY UndisturbedStep
  <1>2. pc # "stopped"
    BY DEF Next, Source, start, Started, next, file_rotated, Abort, file_open, fopen,
           file_getline, stop, Ended, Write, Rotate, Truncate, FallSilent, vars
  <1>3. /\ pc \in {"start", "idle", "rotated", "getline"}
        /\ \A i \in DOMAIN Paths : /\ Len(data[i]) = written[Paths[i]]
                                   /\ (pc # "start" \/ i <= cur) => Followed(i)
    BY <1>1, <1>2 DEF FollowedOK
  <1>4. \A i \in DOMAIN Paths :
           /\ Paths[i] \in Path /\ i \in Inode /\ i \in Nat /\ i # 0 /\ fs[Paths[i]] = i
           /\ i <= Len(Paths) /\ data[i] \in Seq(Piece) /\ Len(data[i]) \in Nat
    <2>1. \A i \in DOMAIN Paths : i \in 1 .. Len(Paths) /\ Paths[i] \in Path /\ i \in Inode
      BY FilesAssumption DEF Path, Inode
    <2> QED
      BY <1>1, <2>1, PathsList DEF Undisturbed, TypeOK
  <1>5. /\ file \in [Path -> File] /\ written \in [Path -> Nat] /\ since \in [Path -> Nat]
        /\ cur \in Nat /\ (pc = "start" => cur <= Len(Paths))
    BY DEF TypeOK
  <1>6. \A i \in DOMAIN Paths : Followed(i) =>
           /\ file[Paths[i]].fd = i /\ file[Paths[i]].st.ino = i
           /\ file[Paths[i]].st.size <= Len(data[i]) /\ file[Paths[i]].pos <= Len(data[i])
           /\ Stream(Paths[i]) = SubSeq(data[i], since[Paths[i]] + 1, Len(data[i]))
    BY DEF Followed
  <1> HIDE DEF Good
  <1>7. ASSUME NEW q \in Path, Write(q) PROVE Good
    <2>1. PICK j \in DOMAIN Paths : q = Paths[j]
      BY DEF Path
    <2>2. PICK tail \in BOOLEAN :
             data' = [data EXCEPT ![fs[q]] =
                        Append(@, [n |-> written[q] + 1, head |-> q \notin half, tail |-> tail])]
      BY <1>7 DEF Write
    <2> DEFINE e == [n |-> written[q] + 1, head |-> q \notin half, tail |-> tail]
    <2>3. e \in Piece
      <3>1. written[q] + 1 \in Nat \ {0} /\ (q \notin half) \in BOOLEAN
        BY <1>5
      <3> QED
        BY <3>1 DEF Piece
    <2>4. /\ fs[q] # 0 /\ fs[q] = j /\ UNCHANGED <<file, read, since, pc, cur>>
          /\ written' = [written EXCEPT ![q] = @ + 1]
      BY <1>4, <1>7, <2>1 DEF Write
    <2>5. data' = [data EXCEPT ![fs[q]] = Append(@, e)]
      BY <2>2
    <2> HIDE DEF e
    <2>6. /\ \A p \in Path \ {q} : Stream(p)' = Stream(p)
          /\ file[q].fd = fs[q] /\ file[q].pos <= Len(data[fs[q]]) =>
                Stream(q)' = Append(Stream(q), e)
      BY <2>3, <2>4, <2>5, WriteStream
    <2>7. data'[j] = Append(data[j], e) /\ \A i \in DOMAIN Paths : i # j => data'[i] = data[i]
      BY <1>4, <2>4, <2>5 DEF TypeOK
    <2>8. Append(data[j], e) \in Seq(Piece) /\ Len(Append(data[j], e)) = Len(data[j]) + 1
      BY <1>4, <2>3, AppendProperties
    <2>9. written'[q] = written[q] + 1 /\ \A p \in Path : p # q => written'[p] = written[p]
      BY <1>5, <2>4
    <2>10. ASSUME NEW i \in DOMAIN Paths, i # j
           PROVE  /\ Len(data'[i]) = written'[Paths[i]]
                  /\ (pc' # "start" \/ i <= cur') => Followed(i)'
      <3>1. Paths[i] # q
        BY <2>1, <2>10, FilesAssumption
      <3> DEFINE p == Paths[i]
      <3>2. p \in Path /\ p # q /\ data'[i] = data[i] /\ Stream(p)' = Stream(p)
        BY <1>4, <2>6, <2>7, <2>10, <3>1
      <3>3. Followed(i) => Followed(i)'
        <4> SUFFICES ASSUME Followed(i) PROVE Followed(i)'
          OBVIOUS
        <4>1. /\ file'[p].fd = file[p].fd /\ file'[p].st.ino = i /\ since'[p] = since[p]
              /\ file'[p].st.size <= Len(data[i]) /\ file'[p].pos <= Len(data[i])
          BY <1>6, <2>4
        <4> QED
          BY <3>2, <4>1, StillFollowed
      <3>4. Len(data'[i]) = written'[p]
        BY <1>3, <2>9, <3>2
      <3> QED
        BY <1>3, <2>4, <3>3, <3>4
    <2>11. Len(data'[j]) = written'[q]
      BY <1>3, <2>1, <2>7, <2>8, <2>9
    <2>12. ASSUME Followed(j) PROVE Followed(j)'
      <3> DEFINE d == data[j]
                 b == Append(d, e)
                 w == since[q]
      <3>1. /\ file[q].fd = j /\ file[q].st.ino = j /\ file[q].st.size <= Len(d)
            /\ file[q].pos <= Len(d) /\ Stream(q) = SubSeq(d, w + 1, Len(d))
        BY <1>6, <2>1, <2>12
      <3>2. w \in Nat /\ d \in Seq(Piece) /\ w <= Len(d)
        <4>1. since[q] <= written[q] /\ since[q] \in Nat
          BY <1>5 DEF StreamsOK
        <4>2. written[q] = Len(data[j]) /\ data[j] \in Seq(Piece)
          BY <1>3, <1>4, <2>1
        <4> QED
          BY <4>1, <4>2
      <3>3. Stream(q)' = SubSeq(b, w + 1, Len(b))
        <4>1. Stream(q)' = Append(SubSeq(d, w + 1, Len(d)), e)
          BY <2>4, <2>6, <3>1
        <4> HIDE DEF d, w
        <4> QED
          BY <2>3, <3>2, <4>1, RestAppended
      <3>4. file[q].st.size <= Len(b) /\ file[q].pos <= Len(b)
        <4>1. file[q].st.size \in Nat /\ file[q].pos \in Nat /\ Len(d) \in Nat
          BY <1>4, <1>5 DEF File
        <4> QED
          BY <2>8, <3>1, <4>1
      <3>5. data'[j] = b /\ file' = file /\ since' = since
        BY <2>4, <2>7
      <3> HIDE DEF d, b
      <3> QED
        BY <2>1, <3>1, <3>3, <3>4, <3>5 DEF Followed
    <2> QED
      BY <1>3, <2>1, <2>4, <2>10, <2>11, <2>12 DEF Good
  <1>8. ASSUME UNCHANGED <<data, written, since>>,
               pc' \in {"start", "idle", "rotated", "getline"},
               \A i \in DOMAIN Paths : (pc' # "start" \/ i <= cur') => Followed(i)'
        PROVE  Good
    BY <1>3, <1>8 DEF Good
  <1>9. CASE UNCHANGED <<data, file, read, written, since>> /\ (Started \/ next \/ Abort \/ Ended
                \/ UNCHANGED vars \/ \E q \in Path : Rotate(q) \/ FallSilent(q))
    <2>1. \A p \in Path : Stream(p)' = Stream(p)
      BY <1>9 DEF Stream, Pending
    <2>2. \A i \in DOMAIN Paths : Followed(i) => Followed(i)'
      BY <1>4, <1>6, <1>9, <2>1, StillFollowed
    <2>3. /\ pc' \in {"start", "idle", "rotated", "getline"}
          /\ UNCHANGED <<pc, cur>> \/ (pc = "start" /\ cur = Len(Paths)) \/ pc = "idle"
      BY <1>3, <1>9 DEF Started, next, Abort, Ended, vars, Rotate, FallSilent
    <2>4. \A i \in DOMAIN Paths : (pc' # "start" \/ i <= cur') => (pc # "start" \/ i <= cur)
      BY <1>4, <2>3
    <2> QED
      BY <1>3, <1>8, <1>9, <2>2, <2>3, <2>4
  <1>10. CASE start
    <2>1. PICK q \in Path :
             /\ cur + 1 \in DOMAIN Paths /\ q = Paths[cur + 1]
             /\ \A p \in Path \ {q} : Stream(p)' = Stream(p) /\ since'[p] = since[p] /\ file'[p] = file[p]
             /\ Stream(q)' = <<>> /\ since'[q] = written[q]
             /\ fs[q] # 0 => file'[q] = Opened(q, Stat(fs[q]))
      BY <1>10, StartStreams
    <2>2. pc = "start" /\ pc' = "start" /\ cur' = cur + 1 /\ UNCHANGED <<data, written>>
      BY <1>10 DEF start, disk
    <2>3. ASSUME NEW i \in DOMAIN Paths, i <= cur PROVE Followed(i)'
      <3> DEFINE p == Paths[i]
      <3>1. i # cur + 1 /\ Followed(i)
        BY <1>3, <1>4, <1>5, <2>3
      <3>2. p \in Path /\ p # q
        BY <1>4, <2>1, <3>1, FilesAssumption
      <3>3. /\ Stream(p)' = Stream(p) /\ since'[p] = since[p] /\ data'[i] = data[i]
            /\ file'[p] = file[p]
        BY <2>1, <2>2, <3>2
      <3> QED
        BY <1>6, <3>1, <3>2, <3>3, StillFollowed
    <2>4. ASSUME NEW i \in DOMAIN Paths, i = cur + 1 PROVE Followed(i)'
      <3>1. fs[q] = i /\ i # 0 /\ q = Paths[i] /\ Len(data[i]) \in Nat /\ data[i] \in Seq(Piece)
        BY <1>4, <2>1, <2>4
      <3>2. /\ file'[q].fd = i /\ file'[q].st.ino = i /\ file'[q].st.size = Len(data[i])
            /\ file'[q].pos = Len(data[i])
        BY <2>1, <3>1 DEF Opened, Stat
      <3>3. since'[q] = Len(data[i])
        BY <1>3, <2>1, <2>4
      <3>4. SubSeq(data[i], Len(data[i]) + 1, Len(data[i])) = <<>>
        BY <3>1, NoRest
      <3>5. Stream(q)' = SubSeq(data[i], since'[q] + 1, Len(data[i]))
        BY <2>1, <3>3, <3>4
      <3>6. data' = data /\ Len(data[i]) <= Len(data[i])
        BY <2>2, <3>1
      <3> QED
        BY <3>1, <3>2, <3>5, <3>6 DEF Followed
    <2>5. \A i \in DOMAIN Paths : i <= cur' => i <= cur \/ i = cur + 1
      BY <1>4, <1>5, <2>2
    <2> QED
      BY <1>3, <2>2, <2>3, <2>4, <2>5 DEF Good
  <1>11. ASSUME NEW j \in DOMAIN Paths, Current = Paths[j], pc # "start", UNCHANGED <<data, since, written>>,
                \A p \in Path : Stream(p)' = Stream(p),
                \A p \in Path : p # Current => file'[p] = file[p],
                NEW g, g.fd = j, g.st.ino = j, g.st.size <= Len(data[j]), g.pos <= Len(data[j]),
                file' = [file EXCEPT ![Current] = g], pc' \in {"idle", "rotated", "getline"}
         PROVE  Good
    <2>1. ASSUME NEW i \in DOMAIN Paths PROVE Followed(i)'
      <3> DEFINE p == Paths[i]
      <3>1. Followed(i) /\ p \in Path
        BY <1>3, <1>4, <1>11
      <3>2. CASE p = Current
        <4>1. i = j
          BY <1>11, <3>2, FilesAssumption
        <4>2. file'[p] = g
          BY <1>5, <1>11, <3>1, <3>2
        <4> QED
          BY <1>6, <1>11, <3>1, <4>1, <4>2, StillFollowed
      <3>3. CASE p # Current
        BY <1>6, <1>11, <3>1, <3>3, StillFollowed
      <3> QED
        BY <3>2, <3>3
    <2> QED
      BY <1>8, <1>11, <2>1
  <1>12. pc # "start" =>
            /\ \A i \in DOMAIN Paths : Followed(i)
            /\ Current \in Path => \E j \in DOMAIN Paths : Current = Paths[j]
    BY <1>3 DEF Path
  <1>13. CASE file_rotated
    <2>0. pc = "rotated" /\ UNCHANGED <<data, since, written, read>> /\ Current \in Path
      BY <1>13, CurrentType DEF file_rotated, disk
    <2>1. PICK j \in DOMAIN Paths : Current = Paths[j]
      BY <1>12, <2>0
    <2> DEFINE f == file[Current]
               g == [f EXCEPT !.st = Stat(j)]
    <2>2. /\ f \in File /\ f.fd = j /\ f.st.ino = j /\ f.st.size <= Len(data[j])
          /\ f.pos <= Len(data[j]) /\ fs[Current] = j /\ j # 0 /\ Len(data[j]) \in Nat
      BY <1>4, <1>5, <1>6, <1>12, <2>0, <2>1
    <2>3. Stat(j).ino = j /\ Stat(j).size = Len(data[j]) /\ ~Replaced(f.st, Stat(j))
      <3>1. f.st.size \in Nat
        BY <2>2 DEF File
      <3> QED
        BY <2>2, <3>1 DEF Stat, Replaced
    <2>4. file' = [file EXCEPT ![Current].st = Stat(j)] /\ pc' = "getline"
      <3> HIDE DEF f
      <3>1. ~(f.fd = 0 \/ fs[Current] = 0 \/ Replaced(f.st, Stat(fs[Current])))
        BY <2>2, <2>3
      <3> QED
        BY <1>13, <2>2, <3>1 DEF file_rotated, f
    <2>5. file' = [file EXCEPT ![Current] = g]
      BY <1>5, <2>0, <2>4
    <2>6. g.fd = j /\ g.st = Stat(j) /\ g.pos = f.pos /\ g.buf = f.buf
      BY <2>2 DEF File
    <2>7. \A p \in Path : p # Current => file'[p] = file[p]
      BY <1>5, <2>0, <2>5
    <2>8. \A p \in Path : Keeps(p)
      <3>1. file'[Current] = g
        BY <1>5, <2>0, <2>5
      <3> QED
        BY <2>0, <2>2, <2>6, <2>7, <3>1 DEF Keeps
    <2>9. \A p \in Path : Stream(p)' = Stream(p)
      BY <2>0, <2>8, SameStream
    <2>10. g.fd = j /\ g.st.ino = j /\ g.st.size <= Len(data[j]) /\ g.pos <= Len(data[j])
      BY <2>2, <2>3, <2>6
    <2> HIDE DEF g
    <2> QED
      BY <1>11, <2>0, <2>1, <2>4, <2>5, <2>7, <2>9, <2>10
  <1>14. CASE file_getline
    <2>0. /\ pc = "getline" /\ UNCHANGED <<data, since, written>> /\ Current \in Path
          /\ pc' \in {"idle", "rotated"}
      BY <1>14, CurrentType DEF file_getline, disk, Turn
    <2>1. PICK j \in DOMAIN Paths : Current = Paths[j]
      BY <1>12, <2>0
    <2>2. /\ \A p \in Path : Stream(p)' = Stream(p)
          /\ \A p \in Path : /\ file'[p].fd = file[p].fd /\ file'[p].st = file[p].st
                             /\ file'[p].pos \in {file[p].pos, Len(data[file[p].fd])}
      BY <1>14, GetlineStream
    <2>3. ASSUME NEW i \in DOMAIN Paths PROVE Followed(i)'
      <3> DEFINE p == Paths[i]
      <3>1. Followed(i) /\ p \in Path /\ Len(data[i]) \in Nat
        BY <1>4, <1>12, <2>0
      <3>2. /\ file[p].fd = i /\ file[p].st.ino = i /\ file[p].st.size <= Len(data[i])
            /\ file[p].pos <= Len(data[i])
        BY <1>6, <3>1
      <3>3. /\ file'[p].fd = i /\ file'[p].st.ino = i /\ file'[p].st.size <= Len(data[i])
            /\ file'[p].pos <= Len(data[i])
        BY <2>2, <3>1, <3>2
      <3>4. Stream(p)' = Stream(p) /\ since'[p] = since[p] /\ data'[i] = data[i]
        BY <2>0, <2>2, <3>1
      <3> QED
        BY <3>1, <3>2, <3>3, <3>4, StillFollowed
    <2> QED
      BY <1>8, <2>0, <2>3
  <1>15. CASE file_open \/ fopen \/ stop
    BY <1>3, <1>15 DEF file_open, fopen, stop
  <1>16. ASSUME NEW q \in Path, Rotate(q) PROVE Good
    BY <1>9, <1>16 DEF Rotate
  <1>17. ASSUME NEW q \in Path, Truncate(q) PROVE Good
    BY <1>1, <1>17 DEF Truncate, Undisturbed
  <1>18. ASSUME NEW q \in Path, FallSilent(q) PROVE Good
    BY <1>9, <1>18 DEF FallSilent
  <1>19. CASE Started \/ next \/ Abort \/ Ended \/ UNCHANGED vars
    BY <1>9, <1>19 DEF Started, next, Abort, Ended, vars, disk
  <1> QED
    BY <1>7, <1>10, <1>13, <1>14, <1>15, <1>16, <1>17, <1>18, <1>19 DEF Next, Source

---------------------------------------------------------------------------
(* In every reachable state the numbers of the stock of a path rise, no two *)
(* paths share an inode, and while nothing is rotated or truncated the      *)
(* stock of an open file ends with all that was written to it since start() *)
(* opened it, whatever file_rotated and file_getline did in between.        *)
THEOREM FilesInvariance == Spec => []FilesInv
  <1>1. FilesInv /\ [Next]_vars => FilesInv'
    <2> SUFFICES ASSUME FilesInv, [Next]_vars PROVE FilesInv'
      OBVIOUS
    <2>1. TypeOK'
      BY TypeStep DEF FilesInv
    <2>2. InodesOK' /\ StartOK'
      BY InodesStep, StartStep DEF FilesInv
    <2>3. StreamsOK'
      BY <2>1, StreamsStep DEF FilesInv
    <2>4. FollowedOK'
      BY FollowedStep
    <2> QED
      BY <2>1, <2>2, <2>3, <2>4 DEF FilesInv
  <1> QED
    BY FilesInit, <1>1, PTL DEF Spec

LEMMA ReturnedInOrder == FilesInv => InOrder
  <1> SUFFICES ASSUME FilesInv, NEW p \in Path, NEW i \in DOMAIN read[p]
               PROVE  /\ read[p][i].n > since[p]
                      /\ i > 1 => read[p][i - 1].n < read[p][i].n
    BY DEF InOrder
  <1> DEFINE r == read[p]
             t == file[p].buf \o Pending(p)
  <1>1. /\ r \in Seq(Piece) /\ t \in Seq(Piece) /\ Rising(r \o t, since[p], written[p])
        /\ since[p] \in Nat /\ written[p] \in Nat
    <2> DEFINE b == file[p].buf
               s == Pending(p)
    <2>1. r \in Seq(Piece) /\ b \in Seq(Piece) /\ s \in Seq(Piece)
      BY StreamType DEF FilesInv
    <2>2. Rising((r \o b) \o s, since[p], written[p])
      BY DEF FilesInv, StreamsOK, Stream
    <2>3. (r \o b) \o s = r \o (b \o s) /\ b \o s \in Seq(Piece)
      <3> HIDE DEF r, b, s
      <3> QED
        BY <2>1, ConcatAssociative, ConcatProperties
    <2>4. since[p] \in Nat /\ written[p] \in Nat
      BY DEF FilesInv, TypeOK
    <2> QED
      BY <2>1, <2>2, <2>3, <2>4
  <1> HIDE DEF t
  <1>2. Rising(r, since[p], written[p])
    <2> HIDE DEF r
    <2> QED
      BY <1>1, RisingPrefix
  <1>3. i \in 1 .. Len(r) /\ Len(r) \in Nat
    BY <1>1
  <1>4. r[i].n > since[p] /\ \A k \in 1 .. i - 1 : r[k].n < r[i].n
    BY <1>2 DEF Rising
  <1>5. i > 1 => i - 1 \in 1 .. i - 1
    BY <1>3
  <1> QED
    BY <1>4, <1>5

(* next() returns the pieces of a path in the order they were written, none *)
(* twice and none from before the file was opened, however the file is      *)
(* rotated, replaced and truncated meanwhile: no line counts for two        *)
(* matches.                                                                 *)
THEOREM LinesComeInOrder == Spec => []InOrder
  BY FilesInvariance, ReturnedInOrder, PTL

LEMMA AllInStock == FilesInv => NothingLost
  <1> SUFFICES ASSUME FilesInv, Undisturbed, pc \notin {"start", "stopped"}, NEW p \in Path
               PROVE  (read[p] \o file[p].buf)
                        \o SubSeq(data[fs[p]], file[p].pos + 1, Len(data[fs[p]]))
                         = SubSeq(data[fs[p]], since[p] + 1, Len(data[fs[p]]))
    BY DEF NothingLost
  <1>1. PICK i \in DOMAIN Paths : p = Paths[i]
    BY DEF Path
  <1>2. Followed(i) /\ fs[p] = i /\ i # 0
    BY <1>1, FilesAssumption DEF FilesInv, FollowedOK, Undisturbed
  <1>3. file[p].fd = i /\ Stream(p) = SubSeq(data[i], since[p] + 1, Len(data[i]))
    BY <1>1, <1>2 DEF Followed
  <1>4. Pending(p) = SubSeq(data[i], file[p].pos + 1, Len(data[i]))
    BY <1>2, <1>3 DEF Pending
  <1> QED
    BY <1>2, <1>3, <1>4 DEF Stream

(* From a file that is only appended to, file_rotated and file_getline lose *)
(* nothing: what was returned, what stdio holds and what is left to read    *)
(* are all that was written since start(), at every moment.                 *)
THEOREM NoLineIsLost == Spec => []NothingLost
  BY FilesInvariance, AllInStock, PTL
=============================================================================

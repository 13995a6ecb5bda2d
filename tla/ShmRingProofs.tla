---------------------------- MODULE ShmRingProofs ---------------------------
(***************************************************************************)
(* The ring of ShmRing is correct for every capacity, header size, set of  *)
(* payload sizes and number of frames, whichever language either side is   *)
(* written in and however often the reading process dies.                  *)
(*                                                                         *)
(* The argument: RingInv ties each position to a byte count that never     *)
(* wraps.  Positions that differ by less than Cap fall on different bytes  *)
(* (Inj), so the writer's stores miss every unread byte, and the           *)
(* difference of two positions modulo Cap is the number of unread bytes    *)
(* (Distance), so each side's view of the other is exact.                  *)
(***************************************************************************)
EXTENDS ShmRing, SequenceTheorems, TLAPS

\* The parts of the actions that have names of their own.
USE DEF AllCopied, NextWrite, AfterPublish, Readable, Snapshot, NextRead, RStore

(***************************************************************************)
(* Arithmetic modulo the capacity                                          *)
(***************************************************************************)

\* Quotient and remainder by Cap, as the solver can use them.
LEMMA DivMod ==
    ASSUME NEW a \in Nat
    PROVE  /\ a \div Cap \in Nat
           /\ a = Cap * (a \div Cap) + (a % Cap)
           /\ a % Cap \in 0 .. Cap - 1
BY RingAssumption

\* A remainder is determined by its equation.
LEMMA ModUnique ==
    ASSUME NEW a \in Nat, NEW q \in Nat, NEW r \in 0 .. Cap - 1,
           a = Cap * q + r
    PROVE  a % Cap = r
BY RingAssumption

\* Two byte counts less than Cap apart are different bytes of the ring.
LEMMA Inj ==
    ASSUME NEW a \in Nat, NEW b \in Nat, a < b, b < a + Cap
    PROVE  a % Cap # b % Cap
<1> DEFINE qa == a \div Cap
           qb == b \div Cap
<1> SUFFICES ASSUME a % Cap = b % Cap PROVE FALSE
  OBVIOUS
<1>1. b - a = Cap * (qb - qa) /\ qa \in Nat /\ qb \in Nat
  BY DivMod, RingAssumption
<1> HIDE DEF qa, qb
<1>2. CASE qb - qa >= 1
  BY <1>1, <1>2, RingAssumption
<1>3. CASE qb - qa <= 0
  BY <1>1, <1>3, RingAssumption
<1> QED
  BY <1>1, <1>2, <1>3

\* Moving on from a wrapped position is moving on and then wrapping.
LEMMA AddMod ==
    ASSUME NEW a \in Nat, NEW k \in Nat
    PROVE  ((a % Cap) + k) % Cap = (a + k) % Cap
<1> DEFINE qa == a \div Cap
           b  == (a % Cap) + k
           q  == qa + (b \div Cap)
<1>1. qa \in Nat /\ a % Cap \in Nat /\ a = Cap * qa + (a % Cap)
  BY DivMod, RingAssumption
<1>2. /\ b \div Cap \in Nat
      /\ b = Cap * (b \div Cap) + (b % Cap)
      /\ b % Cap \in 0 .. Cap - 1
  BY <1>1, DivMod
<1>3. a + k = Cap * q + (b % Cap)
  BY <1>1, <1>2, RingAssumption
<1> QED
  BY <1>1, <1>2, <1>3, ModUnique

\* availableReadBytes: the two wrapped positions give back the distance of
\* the byte counts behind them, as long as that is less than Cap.
LEMMA Distance ==
    ASSUME NEW r \in Nat, NEW w \in Nat, r <= w, w < r + Cap
    PROVE  Avail(w % Cap, r % Cap) = w - r
<1> DEFINE qr == r \div Cap
           qw == w \div Cap
           mr == r % Cap
           mw == w % Cap
<1>1. /\ w = Cap * qw + mw /\ qw \in Nat /\ mw \in 0 .. Cap - 1
      /\ r = Cap * qr + mr /\ qr \in Nat /\ mr \in 0 .. Cap - 1
  BY DivMod
<1> HIDE DEF qr, qw, mr, mw
<1>2. qw = qr \/ qw = qr + 1
  BY <1>1, RingAssumption
<1> SUFFICES Avail(mw, mr) = w - r
  BY DEF mr, mw
<1> QED
  BY <1>1, <1>2, RingAssumption DEF Avail

\* A wrapped offset is a byte of the ring.
LEMMA CellInRing ==
    ASSUME NEW p \in Nat, NEW k \in Nat
    PROVE  Cell(p, k) \in 0 .. Cap - 1
BY DivMod DEF Cell

(***************************************************************************)
(* Facts of a single state                                                 *)
(***************************************************************************)

\* Lengths and ends of frames are numbers.
LEMMA FrameFacts ==
    ASSUME TypeOK
    PROVE  /\ Len(frames) \in Nat
           /\ published \in Nat
           /\ \A n \in 1 .. Len(frames) :
                 /\ frames[n].start \in Nat
                 /\ frames[n].size \in Nat
                 /\ FrameLen(n) \in Nat \ {0}
                 /\ End(n) \in Nat
                 /\ End(n) = frames[n].start + FrameLen(n)
           /\ \A n \in 0 .. Len(frames) : End(n) \in Nat
<1>1. frames \in Seq([start : Nat, size : Sizes])
  BY DEF TypeOK
<1>2. 1 .. Len(frames) = 1 .. Len(frames) /\ Len(frames) \in Nat /\ published \in Nat
  BY <1>1 DEF TypeOK
<1>3. ASSUME NEW n \in 1 .. Len(frames)
      PROVE  /\ frames[n].start \in Nat
             /\ frames[n].size \in Nat
  <2>1. frames[n] \in [start : Nat, size : Sizes]
    BY <1>1, <1>2, ElementOfSeq
  <2> QED
    BY <2>1, RingAssumption
<1>4. ASSUME NEW n \in 1 .. Len(frames)
      PROVE  /\ FrameLen(n) \in Nat \ {0}
             /\ End(n) \in Nat
             /\ End(n) = frames[n].start + FrameLen(n)
  BY <1>2, <1>3, RingAssumption DEF FrameLen, End
<1>5. End(0) \in Nat
  BY DEF End
<1> QED
  BY <1>2, <1>3, <1>4, <1>5

\* A later frame ends later.
LEMMA EndsOrdered ==
    ASSUME TypeOK, Geometry,
           NEW m \in 0 .. Len(frames), NEW n \in 0 .. Len(frames), m <= n
    PROVE  /\ End(m) <= End(n)
           /\ m < n => End(m) <= frames[n].start
<1>a. ASSUME NEW i \in 0 .. Len(frames)
      PROVE  End(i) \in Nat
  BY FrameFacts
<1>b. ASSUME NEW i \in 1 .. Len(frames)
      PROVE  /\ frames[i].start \in Nat
             /\ FrameLen(i) \in Nat
             /\ End(i) = frames[i].start + FrameLen(i)
  BY FrameFacts
<1>1. CASE m = n
  BY <1>1, <1>a
<1>2. CASE m < n
  <2>1. n \in 1 .. Len(frames)
    BY <1>2
  <2>2. End(m) <= frames[n].start
    <3>1. CASE m = 0
      BY <3>1, <2>1, <1>b DEF End
    <3>2. CASE m # 0
      <4>1. m \in 1 .. Len(frames)
        BY <3>2
      <4> QED
        BY <4>1, <2>1, <1>2 DEF Geometry
    <3> QED
      BY <3>1, <3>2
  <2> QED
    BY <2>1, <2>2, <1>a, <1>b, <1>2
<1> QED
  BY <1>1, <1>2

\* The counts behind the positions, and where the unread frames are.
LEMMA Counts ==
    ASSUME TypeOK, Geometry, Positions
    PROVE  /\ taken \in Nat
           /\ published <= Len(frames)
           /\ End(taken) \in Nat
           /\ End(published) \in Nat
           /\ End(Len(frames)) \in Nat
           /\ End(taken) <= End(published)
           /\ End(published) <= End(Len(frames))
           /\ End(published) < End(taken) + Cap
           /\ \A n \in taken + 1 .. Len(frames) :
                 /\ n \in 1 .. Len(frames)
                 /\ End(taken) <= frames[n].start
           /\ \A n \in taken + 1 .. published : End(n) <= End(published)
           /\ taken < published =>
                 /\ taken + 1 \in 1 .. Len(frames)
                 /\ frames[taken + 1].start = End(taken)
           /\ wpc = "copy" =>
                 /\ Len(frames) = published + 1
                 /\ Len(frames) \in 1 .. Len(frames)
                 /\ frames[Len(frames)].start = End(published)
<1>0. /\ Len(frames) \in Nat
  BY FrameFacts
<1>a. ASSUME NEW n \in 0 .. Len(frames)
      PROVE  End(n) \in Nat
  BY FrameFacts
<1>b. ASSUME NEW n \in 1 .. Len(frames)
      PROVE  /\ frames[n].start \in Nat
             /\ FrameLen(n) \in Nat
             /\ End(n) = frames[n].start + FrameLen(n)
  BY FrameFacts
<1>1. /\ taken \in 0 .. Len(frames) /\ published \in 0 .. Len(frames)
      /\ taken <= published
      /\ wpc = "copy" => Len(frames) = published + 1
  BY <1>0 DEF TypeOK, Geometry
<1>4. /\ End(taken) \in Nat /\ End(published) \in Nat
      /\ End(Len(frames)) \in Nat
  <2>1. Len(frames) \in 0 .. Len(frames)
    BY <1>0
  <2> QED
    BY <2>1, <1>1, <1>a
<1>5. /\ End(taken) <= End(published)
      /\ End(published) <= End(Len(frames))
  BY <1>0, <1>1, EndsOrdered
<1>6. ASSUME NEW n \in taken + 1 .. Len(frames)
      PROVE  n \in 1 .. Len(frames) /\ End(taken) <= frames[n].start
  <2>1. n \in 1 .. Len(frames) /\ n \in 0 .. Len(frames) /\ taken < n
    BY <1>0, <1>1
  <2> QED
    BY <2>1, <1>1, EndsOrdered
<1>7. ASSUME NEW n \in taken + 1 .. published
      PROVE  End(n) <= End(published)
  <2>1. n \in 0 .. Len(frames) /\ n <= published
    BY <1>0, <1>1
  <2> QED
    BY <2>1, <1>1, EndsOrdered
<1>8. taken < published =>
         /\ taken + 1 \in 1 .. Len(frames)
         /\ frames[taken + 1].start = End(taken)
  <2> HAVE taken < published
  <2>1. taken + 1 \in 1 .. Len(frames) /\ (taken + 1) - 1 = taken
    BY <1>0, <1>1
  <2> QED
    BY <2>1 DEF Geometry
<1>9. wpc = "copy" =>
         /\ Len(frames) \in 1 .. Len(frames)
         /\ frames[Len(frames)].start = End(published)
  <2> HAVE wpc = "copy"
  <2>1. Len(frames) \in 1 .. Len(frames) /\ Len(frames) - 1 = published
    BY <1>0, <1>1
  <2> QED
    BY <2>1 DEF Geometry
<1>10. /\ taken \in Nat
       /\ published <= Len(frames)
       /\ End(published) < End(taken) + Cap
  BY <1>0, <1>1, <1>4, <1>5, RingAssumption DEF Positions
<1> QED
  BY <1>1, <1>4, <1>5, <1>6, <1>7, <1>8, <1>9, <1>10

\* What either side computes from two loads is the number of unread bytes.
LEMMA AvailIsUnread ==
    ASSUME TypeOK, Geometry, Positions
    PROVE  /\ Avail(writePos, readPos) = End(published) - End(taken)
           /\ Avail(writePos, readPos) \in 0 .. Cap - 1
<1>1. /\ End(taken) \in Nat /\ End(published) \in Nat
      /\ End(taken) <= End(published) /\ End(published) < End(taken) + Cap
  BY Counts
<1>2. Avail(End(published) % Cap, End(taken) % Cap) = End(published) - End(taken)
  BY <1>1, Distance
<1> QED
  BY <1>1, <1>2, RingAssumption DEF Positions

\* A wrapped position plus an offset is the byte of the unwrapped sum.
LEMMA CellOfCount ==
    ASSUME NEW a \in Nat, NEW k \in Nat
    PROVE  Cell(a % Cap, k) = Cell(a, k)
BY AddMod DEF Cell

(***************************************************************************)
(* RingInv holds at first and is preserved                                 *)
(***************************************************************************)

LEMMA InitRingInv == Init => RingInv
<1> SUFFICES ASSUME Init PROVE RingInv
  OBVIOUS
<1> USE DEF Init
<1>1. 0 % Cap = 0 /\ 0 \in 0 .. Cap - 1
  BY RingAssumption
<1>2. TypeOK
  <2>1. Zero \in Byte
    BY DEF Zero, Byte
  <2>2. mem \in [0 .. Cap - 1 -> Byte]
    BY <2>1
  <2>3. rbuf \in [DOMAIN rbuf -> Byte] /\ DOMAIN rbuf = {}
    OBVIOUS
  <2> QED
    BY <1>1, <2>2, <2>3, RingAssumption DEF TypeOK
<1>3. End(0) = 0 /\ Len(frames) = 0
  BY DEF End
<1>4. Geometry
  BY <1>3 DEF Geometry
<1>5. Positions
  BY <1>1, <1>3, RingAssumption DEF Positions
<1>6. Contents
  BY DEF Contents
<1>7. ReaderView
  BY DEF ReaderView
<1>8. Delivered
  BY DEF Delivered
<1>9. SequenceCounts
  BY DEF SequenceCounts
<1> QED
  BY <1>2, <1>4, <1>5, <1>6, <1>7, <1>8, <1>9 DEF RingInv

\* A frame is admitted: the room the writer saw is really there.
LEMMA WBeginStep ==
    ASSUME RingInv, NEW s \in Sizes, WBegin(s)
    PROVE  RingInv'
<1> USE DEF RingInv
<1>0. PICK L \in Nat : L = Len(frames)
  <2>1. Len(frames) \in Nat
    BY DEF TypeOK
  <2> QED
    BY <2>1
<1> DEFINE f == [start |-> End(L), size |-> s]
<1>1. /\ End(L) \in Nat /\ s \in Nat
      /\ frames \in Seq([start : Nat, size : Sizes])
      /\ wpc = "idle" /\ published = L /\ taken \in 0 .. L
  <2>1. /\ s \in Nat
        /\ frames \in Seq([start : Nat, size : Sizes])
    BY RingAssumption DEF TypeOK
  <2>2. wpc = "idle"
    BY DEF WBegin, Offering
  <2>3. published = L /\ taken <= published /\ taken \in Nat
    BY <1>0, <2>2 DEF Geometry, TypeOK
  <2> QED
    BY <1>0, <2>1, <2>2, <2>3, Counts
<1>2. f \in [start : Nat, size : Sizes]
  BY <1>1
<1>3. /\ frames' = Append(frames, f)
      /\ Len(frames') = L + 1
      /\ frames'[L + 1] = f
      /\ \A n \in 1 .. L : frames'[n] = frames[n]
      /\ frames' \in Seq([start : Nat, size : Sizes])
  BY <1>0, <1>1, <1>2 DEF WBegin
<1>4. /\ wpc' = "copy" /\ wdone' = {}
      /\ UNCHANGED <<mem, writePos, readPos, sequence, rpc, rpos, rsnap, rneed,
                     rbuf, crashes, published, taken, refused, got>>
  BY DEF WBegin, mapping, reader
<1>5. ASSUME NEW n \in 1 .. L
      PROVE  FrameLen(n)' = FrameLen(n) /\ End(n)' = End(n)
  BY <1>3 DEF FrameLen, End
<1>6. ASSUME NEW n \in 0 .. L
      PROVE  End(n)' = End(n)
  BY <1>1, <1>5 DEF End
<1>f. FrameLen(L + 1)' = Hdr + s /\ End(L + 1)' = End(L) + Hdr + s
  <2>1. L + 1 # 0 /\ frames'[L + 1].start = End(L) /\ frames'[L + 1].size = s
    BY <1>1, <1>3
  <2> QED
    BY <2>1, <1>1, RingAssumption DEF FrameLen, End
<1>7. TypeOK'
  BY SMTT(40), <1>1, <1>3, <1>4 DEF TypeOK
<1>8. Geometry'
  <2>1. \A n \in 1 .. Len(frames') : frames'[n].start = End(n - 1)'
    <3> TAKE n \in 1 .. Len(frames')
    <3>1. CASE n \in 1 .. L
      <4>1. frames[n].start = End(n - 1)
        BY <1>0, <3>1 DEF Geometry
      <4> QED
        BY <4>1, <3>1, <1>3, <1>6
    <3>2. CASE n = L + 1
      BY <3>2, <1>3, <1>6, <1>0
    <3> QED
      BY <3>1, <3>2, <1>3
  <2>2. \A m, n \in 1 .. Len(frames') : m < n => End(m)' <= frames'[n].start
    <3> TAKE m, n \in 1 .. Len(frames')
    <3> HAVE m < n
    <3>1. m \in 1 .. L /\ End(m)' = End(m)
      BY <1>3, <1>5
    <3>2. CASE n \in 1 .. L
      BY <3>1, <3>2, <1>0, <1>3 DEF Geometry
    <3>3. CASE n = L + 1
      <4>1. End(m) <= End(L)
        BY <3>1, <1>0, EndsOrdered
      <4> QED
        BY <4>1, <3>1, <3>3, <1>3
    <3> QED
      BY SMTT(40), <3>2, <3>3, <1>3
  <2> QED
    BY <2>1, <2>2, <1>1, <1>3, <1>4 DEF Geometry
<1>9. Positions'
  <2>1. End(published)' = End(published) /\ End(taken)' = End(taken)
    BY <1>1, <1>4, <1>6
  <2>2. Room >= Hdr + s /\ End(published) = End(L)
    BY <1>1 DEF WBegin
  <2>3. End(L) + Hdr + s < End(taken) + Cap
    BY SMTT(40), <2>2, <1>1, AvailIsUnread, Counts, RingAssumption DEF Room
  <2> QED
    BY <2>1, <2>3, <1>3, <1>4, <1>f DEF Positions
<1>10. Contents'
  <2>1. \A n \in taken + 1 .. published : FrameLen(n)' = FrameLen(n) /\ frames'[n] = frames[n]
    BY <1>1, <1>3, <1>5
  <2> QED
    BY <2>1, <1>4 DEF Contents, Cell
<1>11. ReaderView'
  <2>1. taken < published => frames'[taken + 1] = frames[taken + 1]
    BY <1>1, <1>3
  <2>2. taken # 0 => FrameLen(taken)' = FrameLen(taken)
    BY <1>1, <1>4, <1>5
  <2> QED
    BY <2>1, <2>2, <1>4 DEF ReaderView
<1>12. Delivered' /\ (Writer = "cpp" => SequenceCounts')
  BY <1>1, <1>4 DEF Delivered, SequenceCounts
<1> QED
  BY <1>7, <1>8, <1>9, <1>10, <1>11, <1>12

\* A refused frame leaves nothing behind.
LEMMA WRefuseStep ==
    ASSUME RingInv, NEW s \in Sizes, WRefuse(s)
    PROVE  RingInv'
<1> USE DEF RingInv
<1>1. /\ UNCHANGED <<mem, writePos, readPos, sequence, wpc, wdone, rpc, rpos,
                     rsnap, rneed, rbuf, crashes, frames, published, taken, got>>
      /\ refused' = Append(refused, s)
  BY DEF WRefuse, mapping, writer, reader
<1>2. TypeOK'
  BY SMTT(40), <1>1 DEF TypeOK
<1>3. Geometry' /\ Positions'
  BY <1>1 DEF Geometry, Positions, End, FrameLen
<1>4. Contents' /\ ReaderView'
  BY <1>1 DEF Contents, ReaderView, Cell, FrameLen
<1>5. Delivered' /\ (Writer = "cpp" => SequenceCounts')
  BY <1>1 DEF Delivered, SequenceCounts
<1> QED
  BY <1>2, <1>3, <1>4, <1>5

\* A byte of the frame being written goes where no unread byte is.
LEMMA WCopyStep ==
    ASSUME RingInv, wpc = "copy",
           NEW k \in 0 .. FrameLen(Len(frames)) - 1, WCopy(k)
    PROVE  RingInv'
<1> USE DEF RingInv
<1>0. PICK L \in Nat : L = Len(frames)
  <2>1. Len(frames) \in Nat
    BY DEF TypeOK
  <2> QED
    BY <2>1
<1>1. /\ UNCHANGED <<writePos, readPos, sequence, wpc, rpc, rpos, rsnap, rneed,
                     rbuf, crashes, frames, published, taken, refused, got>>
      /\ mem' = [mem EXCEPT ![Cell(writePos, k)] = [frame |-> L, off |-> k]]
      /\ wdone' = wdone \cup {k}
  BY <1>0 DEF WCopy, reader, history
<1>2. /\ L = published + 1 /\ L \in 1 .. Len(frames)
      /\ frames[L].start = End(published)
      /\ frames[L].start \in Nat /\ FrameLen(L) \in Nat
      /\ End(L) = frames[L].start + FrameLen(L)
      /\ End(taken) \in Nat
      /\ End(taken) <= End(published) /\ End(L) < End(taken) + Cap
  BY <1>0, FrameFacts, Counts DEF Positions
<1>3. k \in Nat /\ k < FrameLen(L)
  BY <1>0, <1>2
<1>4. Cell(writePos, k) = Cell(frames[L].start, k)
  BY <1>2, <1>3, CellOfCount DEF Positions
<1>5. Cell(writePos, k) \in 0 .. Cap - 1
  BY <1>2, <1>3, <1>4, CellInRing
<1>6. TypeOK'
  <2>1. [frame |-> L, off |-> k] \in Byte
    BY <1>0, <1>3 DEF Byte
  <2>2. mem' \in [0 .. Cap - 1 -> Byte] /\ wdone' \in SUBSET Nat
    BY <2>1, <1>1, <1>3 DEF TypeOK
  <2> QED
    BY <2>2, <1>1 DEF TypeOK
<1>7. Geometry' /\ Positions'
  BY <1>1 DEF Geometry, Positions, End, FrameLen
<1>8. ASSUME NEW p \in Nat, End(taken) <= p, p < End(L), p # frames[L].start + k
      PROVE  mem'[p % Cap] = mem[p % Cap]
  <2>1. frames[L].start + k < End(L) /\ End(taken) <= frames[L].start + k
    BY <1>2, <1>3
  <2>2. p % Cap # (frames[L].start + k) % Cap
    <3>1. CASE p < frames[L].start + k
      BY <3>1, <2>1, <1>2, <1>3, <1>8, Inj, RingAssumption
    <3>2. CASE p > frames[L].start + k
      BY <3>2, <2>1, <1>2, <1>3, <1>8, Inj, RingAssumption
    <3> QED
      BY <3>1, <3>2, <1>2, <1>3, <1>8
  <2> QED
    BY <2>2, <1>1, <1>4, <1>5 DEF Cell, TypeOK
<1>9. Contents'
  <2>1. ASSUME NEW n \in taken + 1 .. published, NEW j \in 0 .. FrameLen(n) - 1
        PROVE  mem'[Cell(frames[n].start, j)] = [frame |-> n, off |-> j]
    <3>1. /\ n \in 1 .. Len(frames) /\ End(taken) <= frames[n].start
          /\ End(n) <= End(published)
      <4>1. n \in taken + 1 .. Len(frames)
        BY SMTT(40), <1>0, <1>2 DEF TypeOK
      <4> QED
        BY <4>1, Counts
    <3>2. /\ frames[n].start \in Nat /\ FrameLen(n) \in Nat
          /\ End(n) = frames[n].start + FrameLen(n)
      BY <3>1, FrameFacts
    <3> DEFINE p == frames[n].start + j
    <3>3. /\ p \in Nat /\ End(taken) <= p /\ p < End(L)
          /\ p # frames[L].start + k
      BY SMTT(40), <3>1, <3>2, <1>2, <1>3
    <3>4. mem[p % Cap] = [frame |-> n, off |-> j]
      BY DEF Contents, Cell
    <3> HIDE DEF p
    <3>5. mem'[p % Cap] = [frame |-> n, off |-> j]
      BY <3>3, <3>4, <1>8
    <3> QED
      BY <3>5 DEF p, Cell
  <2>2. ASSUME NEW j \in wdone'
        PROVE  /\ j < FrameLen(L)
               /\ mem'[Cell(frames[L].start, j)] = [frame |-> L, off |-> j]
    <3>1. CASE j = k
      BY <3>1, <1>1, <1>3, <1>4, <1>5 DEF TypeOK
    <3>2. CASE j # k
      <4>1. /\ j \in wdone /\ j \in Nat /\ j < FrameLen(L)
            /\ mem[Cell(frames[L].start, j)] = [frame |-> L, off |-> j]
        BY <3>2, <1>0, <1>1 DEF Contents, TypeOK
      <4>2. /\ frames[L].start + j \in Nat /\ End(taken) <= frames[L].start + j
            /\ frames[L].start + j < End(L)
            /\ frames[L].start + j # frames[L].start + k
        BY <4>1, <3>2, <1>2, <1>3
      <4> QED
        BY <4>1, <4>2, <1>8 DEF Cell
    <3> QED
      BY <3>1, <3>2
  <2> QED
    BY <2>1, <2>2, <1>0, <1>1 DEF Contents, Cell, FrameLen
<1>10. ReaderView'
  BY <1>1 DEF ReaderView, FrameLen
<1>11. Delivered' /\ (Writer = "cpp" => SequenceCounts')
  BY <1>1 DEF Delivered, SequenceCounts
<1> QED
  BY <1>6, <1>7, <1>9, <1>10, <1>11

\* The frame becomes readable when all of it is in memory, and write_pos then
\* is where it ends.
LEMMA WPublishStep ==
    ASSUME RingInv, WPublish
    PROVE  RingInv'
<1> USE DEF RingInv
<1>0. PICK L \in Nat : L = Len(frames)
  <2>1. Len(frames) \in Nat
    BY DEF TypeOK
  <2> QED
    BY <2>1
<1>1. /\ UNCHANGED <<mem, readPos, sequence, rpc, rpos, rsnap, rneed, rbuf,
                     crashes, frames, taken, refused, got>>
      /\ wpc = "copy"
      /\ wdone = 0 .. FrameLen(L) - 1
      /\ writePos' = Cell(writePos, FrameLen(L))
      /\ published' = published + 1
      /\ wpc' = (IF Writer = "cpp" THEN "count" ELSE "idle")
      /\ wdone' = {}
  BY <1>0 DEF WPublish, reader
<1>2. /\ L = published + 1 /\ L \in 1 .. Len(frames)
      /\ frames[L].start = End(published)
      /\ frames[L].start \in Nat /\ FrameLen(L) \in Nat
      /\ End(L) = frames[L].start + FrameLen(L)
      /\ taken \in Nat /\ taken <= published /\ published \in Nat
  BY <1>0, <1>1, FrameFacts, Counts DEF Geometry
<1>3. writePos' = End(L) % Cap
  <2>1. End(published) \in Nat /\ writePos = End(published) % Cap
    BY <1>2 DEF Positions
  <2>2. writePos' = Cell(End(published), FrameLen(L))
    BY <2>1, <1>1, <1>2, CellOfCount
  <2> QED
    BY <2>2, <1>2 DEF Cell
<1>4. TypeOK'
  <2>1. writePos' \in 0 .. Cap - 1
    BY SMTT(40), <1>2, <1>3, DivMod
  <2>2. published' \in 0 .. Len(frames)
    BY <1>0, <1>1, <1>2
  <2>3. wpc' \in {"idle", "copy", "count"}
    BY <1>1
  <2> QED
    BY <2>1, <2>2, <2>3, <1>1 DEF TypeOK
<1>5. Geometry'
  <2>1. /\ \A n \in 1 .. Len(frames)' : frames'[n].start = End(n - 1)'
        /\ \A m, n \in 1 .. Len(frames)' : m < n => End(m)' <= frames'[n].start
    BY <1>1 DEF Geometry, End, FrameLen
  <2>2. Len(frames') = published' + (IF wpc' = "copy" THEN 1 ELSE 0)
    <3>1. (IF wpc' = "copy" THEN 1 ELSE 0) = 0
      BY <1>1
    <3>2. frames' = frames /\ published' = L /\ L = Len(frames)
      BY <1>0, <1>1, <1>2
    <3>3. L = L + 0
      BY <1>0
    <3> QED
      BY <3>1, <3>2, <3>3
  <2>3. taken' <= published'
    BY <1>1, <1>2
  <2> QED
    BY <2>1, <2>2, <2>3 DEF Geometry
<1>6. Positions'
  <2>1. /\ End(published)' = End(L) /\ End(taken)' = End(taken)
        /\ End(Len(frames))' = End(Len(frames))
    BY <1>1, <1>2 DEF End, FrameLen
  <2> QED
    BY <2>1, <1>1, <1>3 DEF Positions
<1>7. Contents'
  <2>1. ASSUME NEW n \in taken + 1 .. L, NEW j \in 0 .. FrameLen(n) - 1
        PROVE  mem[Cell(frames[n].start, j)] = [frame |-> n, off |-> j]
    <3>1. CASE n = L
      BY <3>1, <1>0, <1>1 DEF Contents
    <3>2. CASE n # L
      BY <3>2, <1>2 DEF Contents
    <3> QED
      BY <3>1, <3>2
  <2> QED
    BY <2>1, <1>1, <1>2 DEF Contents, Cell, FrameLen
<1>8. ReaderView'
  BY <1>1, <1>2 DEF ReaderView, FrameLen
<1>9. Delivered'
  BY <1>1 DEF Delivered
<1>10. (Writer = "cpp" => SequenceCounts')
  BY <1>1, <1>2 DEF SequenceCounts
<1> QED
  BY <1>4, <1>5, <1>6, <1>7, <1>8, <1>9, <1>10

\* Counting the frame disturbs nothing else.
LEMMA WCountStep ==
    ASSUME RingInv, WCount
    PROVE  RingInv'
<1> USE DEF RingInv
<1>1. /\ UNCHANGED <<mem, writePos, readPos, wdone, rpc, rpos, rsnap, rneed,
                     rbuf, crashes, frames, published, taken, refused, got>>
      /\ wpc = "count" /\ wpc' = "idle"
      /\ sequence' = sequence + 1
  BY DEF WCount, reader, history
<1>2. TypeOK'
  BY SMTT(40), <1>1 DEF TypeOK
<1>3. Geometry' /\ Positions'
  BY <1>1 DEF Geometry, Positions, End, FrameLen
<1>4. Contents' /\ ReaderView'
  BY <1>1 DEF Contents, ReaderView, Cell, FrameLen
<1>5. Delivered'
  BY <1>1 DEF Delivered
<1>6. (Writer = "cpp" => SequenceCounts')
  BY <1>1 DEF SequenceCounts, TypeOK
<1> QED
  BY <1>2, <1>3, <1>4, <1>5, <1>6

(* The reader's steps *)

\* What a step that leaves the two positions and the frames alone keeps.
LEMMA ReaderOnlyStep ==
    ASSUME RingInv,
           UNCHANGED <<mem, writePos, readPos, sequence, wpc, wdone, frames,
                       published, taken, refused>>
    PROVE  /\ Geometry' /\ Positions' /\ Contents'
           /\ Writer = "cpp" => SequenceCounts'
BY DEF RingInv, Geometry, Positions, Contents, SequenceCounts, End, FrameLen,
       Cell

\* A call begins only when a frame is there, whole.
LEMMA RCheckStep ==
    ASSUME RingInv, RCheck
    PROVE  RingInv'
<1> USE DEF RingInv
<1>1. /\ UNCHANGED <<mem, writePos, readPos, sequence, wpc, wdone, rpos, rsnap,
                     rneed, rbuf, crashes, frames, published, taken, refused, got>>
      /\ rpc = "idle" /\ rpc' = "load"
      /\ Avail(writePos, readPos) >= Hdr
  BY DEF RCheck, mapping, writer, history
<1>2. TypeOK'
  BY <1>1 DEF TypeOK
<1>3. Geometry' /\ Positions' /\ Contents' /\ (Writer = "cpp" => SequenceCounts')
  BY <1>1, ReaderOnlyStep
<1>4. taken < published
  <2>1. Avail(writePos, readPos) = End(published) - End(taken)
    BY AvailIsUnread
  <2>2. End(taken) \in Nat /\ taken \in Nat /\ taken <= published
    BY Counts DEF Geometry
  <2>3. taken # published
    BY <2>1, <2>2, <1>1, RingAssumption
  <2> QED
    BY <2>2, <2>3 DEF TypeOK
<1>5. ReaderView'
  BY <1>1, <1>4 DEF ReaderView
<1>6. Delivered'
  BY <1>1 DEF Delivered
<1> QED
  BY <1>2, <1>3, <1>5, <1>6

LEMMA RLoadStep ==
    ASSUME RingInv, RLoad
    PROVE  RingInv'
<1> USE DEF RingInv
<1>1. /\ UNCHANGED <<mem, writePos, readPos, sequence, wpc, wdone, rneed, rbuf,
                     crashes, frames, published, taken, refused, got>>
      /\ rpc = "load" /\ rpc' = "header" /\ rpos' = readPos
      /\ rsnap' = IF Reader = "py" THEN writePos ELSE rsnap
  BY DEF RLoad, mapping, writer, history
<1>2. TypeOK'
  BY <1>1 DEF TypeOK
<1>3. Geometry' /\ Positions' /\ Contents' /\ (Writer = "cpp" => SequenceCounts')
  BY <1>1, ReaderOnlyStep
<1>4. ReaderView'
  BY <1>1 DEF ReaderView
<1>5. Delivered'
  BY <1>1 DEF Delivered
<1> QED
  BY <1>2, <1>3, <1>4, <1>5

\* A byte fetched at the position of a reader inside a call is a byte of the
\* oldest unread frame.
LEMMA FetchedByte ==
    ASSUME TypeOK, Geometry, Positions, Contents, ReaderView,
           rpc \in {"header", "payload"},
           NEW k \in 0 .. FrameLen(taken + 1) - 1
    PROVE  mem[Cell(rpos, k)] = [frame |-> taken + 1, off |-> k]
<1>1. /\ taken \in Nat /\ published \in Nat /\ taken < published
      /\ rpos = End(taken) % Cap
  BY DEF ReaderView, TypeOK, Positions
<1>2. frames[taken + 1].start = End(taken) /\ End(taken) \in Nat
  BY <1>1, Counts
<1>3. k \in Nat
  BY <1>1, <1>2, Counts, FrameFacts
<1>4. Cell(rpos, k) = Cell(frames[taken + 1].start, k)
  BY <1>1, <1>2, <1>3, CellOfCount
<1>5. taken + 1 \in taken + 1 .. published
  BY <1>1
<1> QED
  BY <1>4, <1>5 DEF Contents

\* The header of the oldest unread frame fits in it, and so does its payload.
LEMMA UnreadFrame ==
    ASSUME TypeOK, Geometry, Positions, taken < published
    PROVE  /\ frames[taken + 1].size \in Nat
           /\ FrameLen(taken + 1) = Hdr + frames[taken + 1].size
           /\ End(taken + 1) = End(taken) + FrameLen(taken + 1)
           /\ End(taken) \in Nat
           /\ taken \in Nat
           /\ taken + 1 \in 1 .. Len(frames)
           /\ End(taken + 1) <= End(published)
           /\ FrameLen(taken + 1) <= Avail(writePos, readPos)
           /\ FrameLen(taken + 1) < Cap
<1>1. /\ taken \in Nat /\ published \in Nat /\ End(taken) \in Nat
      /\ End(published) \in Nat
      /\ taken + 1 \in 1 .. Len(frames)
      /\ frames[taken + 1].start = End(taken)
      /\ End(published) < End(taken) + Cap
  BY SMTT(40), Counts DEF TypeOK
<1>2. PICK n \in Nat : n = taken + 1
  BY <1>1
<1>3. /\ frames[n].size \in Nat /\ FrameLen(n) \in Nat
      /\ End(n) = frames[n].start + FrameLen(n)
  BY <1>1, <1>2, FrameFacts
<1>4. FrameLen(n) = Hdr + frames[n].size
  BY DEF FrameLen
<1>5. End(n) <= End(published)
  BY <1>1, <1>2, Counts
<1>6. Avail(writePos, readPos) = End(published) - End(taken)
  BY AvailIsUnread
<1>7. End(n) = End(taken) + FrameLen(n)
  BY <1>1, <1>2, <1>3
<1>8. FrameLen(n) <= End(published) - End(taken)
  BY <1>1, <1>3, <1>5, <1>7
<1>9. End(published) - End(taken) < Cap
  BY <1>1, RingAssumption
<1>10. FrameLen(n) < Cap
  BY <1>1, <1>3, <1>8, <1>9, RingAssumption
<1> QED
  BY <1>1, <1>2, <1>3, <1>4, <1>5, <1>6, <1>7, <1>8, <1>10

\* Fetching a byte of the oldest unread frame extends the local copy of it.
LEMMA FetchStep ==
    ASSUME RingInv, rpc \in {"header", "payload"},
           NEW k \in 0 .. FrameLen(taken + 1) - 1, FetchByte(k)
    PROVE  /\ DOMAIN rbuf' = DOMAIN rbuf \cup {k}
           /\ DOMAIN rbuf' \in SUBSET Nat
           /\ rbuf' \in [DOMAIN rbuf' -> Byte]
           /\ \A i \in DOMAIN rbuf' : rbuf'[i] = [frame |-> taken + 1, off |-> i]
<1> USE DEF RingInv
<1>1. rbuf' = [i \in DOMAIN rbuf \cup {k} |->
                  IF i = k THEN mem[Cell(rpos, k)] ELSE rbuf[i]]
  BY DEF FetchByte
<1>2. DOMAIN rbuf' = DOMAIN rbuf \cup {k}
  BY <1>1
<1>3. k \in Nat
  <2>1. taken < published
    BY DEF ReaderView
  <2> QED
    BY <2>1, UnreadFrame
<1>4. \A i \in DOMAIN rbuf' : rbuf'[i] = [frame |-> taken + 1, off |-> i]
  <2>1. mem[Cell(rpos, k)] = [frame |-> taken + 1, off |-> k]
    BY FetchedByte
  <2>2. \A i \in DOMAIN rbuf : rbuf[i] = [frame |-> taken + 1, off |-> i]
    BY DEF ReaderView
  <2> QED
    BY <1>1, <1>2, <2>1, <2>2
<1>5. DOMAIN rbuf' \in SUBSET Nat
  BY <1>2, <1>3 DEF TypeOK
<1>6. \A i \in DOMAIN rbuf' : rbuf'[i] \in Byte
  <2>1. taken + 1 \in Nat
    BY DEF TypeOK
  <2>2. \A i \in Nat : [frame |-> taken + 1, off |-> i] \in Byte
    BY <2>1 DEF Byte
  <2> QED
    BY <2>2, <1>4, <1>5
<1>7. rbuf' = [i \in DOMAIN rbuf' |-> rbuf'[i]]
  BY <1>1, <1>2
<1> QED
  BY <1>2, <1>4, <1>5, <1>6, <1>7

LEMMA RHeaderStep ==
    ASSUME RingInv, NEW k \in 0 .. Hdr - 1, RHeader(k)
    PROVE  RingInv'
<1> USE DEF RingInv
<1>1. /\ UNCHANGED <<mem, writePos, readPos, sequence, wpc, wdone, rpc, rpos,
                     rsnap, rneed, crashes, frames, published, taken, refused, got>>
      /\ rpc = "header" /\ FetchByte(k)
  BY DEF RHeader, mapping, writer, history
<1>2. k \in 0 .. FrameLen(taken + 1) - 1
  <2>1. taken < published
    BY <1>1 DEF ReaderView
  <2> QED
    BY <2>1, UnreadFrame, RingAssumption
<1>3. /\ DOMAIN rbuf' = DOMAIN rbuf \cup {k}
      /\ DOMAIN rbuf' \in SUBSET Nat
      /\ rbuf' \in [DOMAIN rbuf' -> Byte]
      /\ \A i \in DOMAIN rbuf' : rbuf'[i] = [frame |-> taken + 1, off |-> i]
  BY <1>1, <1>2, FetchStep
<1>4. TypeOK'
  BY <1>1, <1>3 DEF TypeOK
<1>5. Geometry' /\ Positions' /\ Contents' /\ (Writer = "cpp" => SequenceCounts')
  BY <1>1, ReaderOnlyStep
<1>6. ReaderView'
  BY <1>1, <1>3 DEF ReaderView
<1>7. Delivered'
  BY <1>1 DEF Delivered
<1> QED
  BY <1>4, <1>5, <1>6, <1>7

\* The header a reader has copied is the header of the oldest unread frame,
\* and all of that frame is there.
LEMMA HeaderIsGood ==
    ASSUME RingInv, HeaderRead
    PROVE  /\ MagicOk
           /\ taken < published
           /\ ClaimedSizes = {frames[taken + 1].size}
           /\ frames[taken + 1].size <= MaxPayload
           /\ Avail(writePos, readPos) >= Hdr + frames[taken + 1].size
<1> USE DEF RingInv
<1>1. rpc = "header" /\ DOMAIN rbuf = 0 .. Hdr - 1
  BY DEF HeaderRead
<1>2. taken < published /\ taken \in Nat
  BY <1>1 DEF ReaderView, TypeOK
<1>3. /\ 0 \in DOMAIN rbuf /\ Hdr - 1 \in DOMAIN rbuf
      /\ \A k \in DOMAIN rbuf : rbuf[k] = [frame |-> taken + 1, off |-> k]
  BY <1>1, RingAssumption DEF ReaderView
<1>4. /\ rbuf[0] = [frame |-> taken + 1, off |-> 0]
      /\ rbuf[Hdr - 1] = [frame |-> taken + 1, off |-> Hdr - 1]
  BY <1>3
<1>5. /\ frames[taken + 1].size \in Nat
      /\ FrameLen(taken + 1) = Hdr + frames[taken + 1].size
      /\ FrameLen(taken + 1) <= Avail(writePos, readPos)
      /\ FrameLen(taken + 1) < Cap
  BY <1>2, UnreadFrame
<1>6. taken + 1 # 0
  BY <1>2
<1>7. MagicOk
  BY <1>4, <1>6 DEF MagicOk
<1>8. ClaimedSizes = {frames[taken + 1].size}
  BY <1>4, <1>6 DEF ClaimedSizes
<1>9. frames[taken + 1].size <= MaxPayload
  BY <1>5, RingAssumption
<1>10. Avail(writePos, readPos) >= Hdr + frames[taken + 1].size
  <2>1. Avail(writePos, readPos) \in 0 .. Cap - 1
    BY AvailIsUnread
  <2> QED
    BY <2>1, <1>5, RingAssumption
<1> QED
  BY <1>2, <1>7, <1>8, <1>9, <1>10

\* So the branches of readFrame for a damaged ring are not taken.
LEMMA NoRecovery ==
    ASSUME RingInv, HeaderRead, NEW s \in ClaimedSizes
    PROVE  ~RDesync(s) /\ ~RPartial(s)
<1>1. /\ MagicOk /\ s = frames[taken + 1].size /\ s <= MaxPayload
      /\ Avail(writePos, readPos) >= Hdr + s
  BY HeaderIsGood
<1>2. s \in Nat /\ Avail(writePos, readPos) \in Nat
  <2>1. taken < published
    BY HeaderIsGood
  <2> QED
    BY <2>1, <1>1, UnreadFrame, AvailIsUnread, RingAssumption DEF RingInv
<1>3. ~RDesync(s)
  BY <1>1, <1>2, RingAssumption DEF RDesync
<1>4. Needed(s) <= Hdr + s
  BY <1>2, RingAssumption DEF Needed
<1>5. ~(Avail(writePos, readPos) < Needed(s))
  BY <1>1, <1>2, <1>4, RingAssumption DEF Needed
<1> QED
  BY <1>3, <1>5 DEF RPartial

LEMMA RAcceptStep ==
    ASSUME RingInv, HeaderRead, NEW s \in ClaimedSizes, RAccept(s)
    PROVE  RingInv'
<1> USE DEF RingInv
<1>1. /\ UNCHANGED <<mem, writePos, readPos, sequence, wpc, wdone, rpos, rsnap,
                     rbuf, crashes, frames, published, taken, refused, got>>
      /\ rpc = "header" /\ DOMAIN rbuf = 0 .. Hdr - 1
      /\ rpc' = "payload" /\ rneed' = s
  BY DEF RAccept, HeaderRead, mapping, writer, history
<1>2. s = frames[taken + 1].size /\ s \in Nat /\ taken < published
  BY HeaderIsGood, UnreadFrame
<1>3. TypeOK'
  BY <1>1, <1>2 DEF TypeOK
<1>4. Geometry' /\ Positions' /\ Contents' /\ (Writer = "cpp" => SequenceCounts')
  BY <1>1, ReaderOnlyStep
<1>5. 0 .. Hdr - 1 \subseteq 0 .. Hdr + s - 1
  BY <1>2, RingAssumption
<1>6. ReaderView'
  BY <1>1, <1>2, <1>5 DEF ReaderView
<1>7. Delivered'
  BY <1>1 DEF Delivered
<1> QED
  BY <1>3, <1>4, <1>6, <1>7

LEMMA RPayloadStep ==
    ASSUME RingInv, NEW k \in Hdr .. Hdr + rneed - 1, RPayload(k)
    PROVE  RingInv'
<1> USE DEF RingInv
<1>1. /\ UNCHANGED <<mem, writePos, readPos, sequence, wpc, wdone, rpc, rpos,
                     rsnap, rneed, crashes, frames, published, taken, refused, got>>
      /\ rpc = "payload" /\ FetchByte(k)
  BY DEF RPayload, mapping, writer, history
<1>2. k \in 0 .. FrameLen(taken + 1) - 1 /\ k \in 0 .. Hdr + rneed - 1
  <2>1. taken < published /\ rneed = frames[taken + 1].size
    BY <1>1 DEF ReaderView
  <2> QED
    BY <2>1, UnreadFrame, RingAssumption
<1>3. /\ DOMAIN rbuf' = DOMAIN rbuf \cup {k}
      /\ DOMAIN rbuf' \in SUBSET Nat
      /\ rbuf' \in [DOMAIN rbuf' -> Byte]
      /\ \A i \in DOMAIN rbuf' : rbuf'[i] = [frame |-> taken + 1, off |-> i]
  BY <1>1, <1>2, FetchStep
<1>4. TypeOK'
  BY <1>1, <1>3 DEF TypeOK
<1>5. Geometry' /\ Positions' /\ Contents' /\ (Writer = "cpp" => SequenceCounts')
  BY <1>1, ReaderOnlyStep
<1>6. ReaderView'
  BY <1>1, <1>2, <1>3 DEF ReaderView
<1>7. Delivered'
  BY <1>1 DEF Delivered
<1> QED
  BY <1>4, <1>5, <1>6, <1>7

\* The frame leaves the ring: read_pos is where the next one starts.
LEMMA RCommitStep ==
    ASSUME RingInv, RCommit
    PROVE  RingInv'
<1> USE DEF RingInv
<1>0. PICK T \in Nat : T = taken + 1
  <2>1. taken + 1 \in Nat
    BY DEF TypeOK
  <2> QED
    BY <2>1
<1>1. /\ UNCHANGED <<mem, writePos, sequence, wpc, wdone, rpos, rsnap, rneed,
                     rbuf, crashes, frames, published, refused, got>>
      /\ rpc = "payload" /\ rpc' = "deliver"
      /\ DOMAIN rbuf = 0 .. Hdr + rneed - 1
      /\ readPos' = Cell(rpos, Hdr + rneed)
      /\ taken' = T
  BY <1>0 DEF RCommit, writer
<1>2. /\ taken < published /\ rpos = End(taken) % Cap
      /\ rneed = frames[T].size
      /\ \A k \in DOMAIN rbuf : rbuf[k] = [frame |-> T, off |-> k]
  BY <1>0, <1>1 DEF ReaderView, Positions
<1>3. /\ frames[T].size \in Nat
      /\ FrameLen(T) = Hdr + frames[T].size
      /\ End(T) = End(taken) + FrameLen(T)
      /\ End(taken) \in Nat /\ taken \in Nat /\ T \in 1 .. Len(frames)
  BY <1>0, <1>2, UnreadFrame
<1>4. FrameLen(T) \in Nat /\ FrameLen(T) = Hdr + rneed
  BY <1>2, <1>3, RingAssumption
<1>5. readPos' = End(T) % Cap
  <2>1. readPos' = Cell(End(taken), FrameLen(T))
    BY <1>1, <1>2, <1>3, <1>4, CellOfCount
  <2> QED
    BY <2>1, <1>3 DEF Cell
<1>6. TypeOK'
  <2>1. readPos' \in 0 .. Cap - 1
    <3>1. End(T) \in Nat
      BY <1>3, <1>4
    <3> QED
      BY <3>1, <1>5, DivMod
  <2> QED
    BY <2>1, <1>1 DEF TypeOK
<1>7. /\ \A n \in Nat : FrameLen(n)' = FrameLen(n) /\ End(n)' = End(n)
      /\ End(Len(frames))' = End(Len(frames))
      /\ End(published)' = End(published)
      /\ End(taken)' = End(T)
  BY <1>1 DEF FrameLen, End
<1>8. Geometry'
  <2>1. taken' <= published'
    BY <1>0, <1>1, <1>2, <1>3 DEF TypeOK
  <2>2. /\ \A n \in 1 .. Len(frames)' : frames'[n].start = End(n - 1)'
        /\ \A m, n \in 1 .. Len(frames)' : m < n => End(m)' <= frames'[n].start
        /\ Len(frames)' = published' + (IF wpc' = "copy" THEN 1 ELSE 0)
    BY <1>1 DEF Geometry, End, FrameLen
  <2> QED
    BY <2>1, <2>2 DEF Geometry
<1>9. Positions'
  <2>1. End(Len(frames)) < End(T) + Cap
    <3>1. End(Len(frames)) \in Nat /\ End(Len(frames)) < End(taken) + Cap
      BY Counts DEF Positions
    <3> QED
      BY SMTT(40), <3>1, <1>3, <1>4, RingAssumption
  <2> QED
    BY <2>1, <1>1, <1>5, <1>7 DEF Positions
<1>10. Contents'
  <2>1. \A n \in T + 1 .. published : n \in taken + 1 .. published
    BY <1>0, <1>3
  <2> QED
    BY <2>1, <1>1 DEF Contents, Cell, FrameLen
<1>11. ReaderView'
  <2>1. T # 0
    BY <1>0, <1>3
  <2>2. DOMAIN rbuf = 0 .. FrameLen(T) - 1
    <3>1. Hdr + rneed - 1 = FrameLen(T) - 1
      BY <1>2, <1>3, <1>4, RingAssumption
    <3> QED
      BY <3>1, <1>1
  <2>3. FrameLen(taken)' = FrameLen(T)
    BY <1>1 DEF FrameLen
  <2> QED
    BY <2>1, <2>2, <2>3, <1>1, <1>2 DEF ReaderView
<1>12. Delivered'
  <2>1. /\ \A i \in 1 .. Len(got) : got[i] \in 1 .. taken
        /\ \A i, j \in 1 .. Len(got) : i < j => got[i] < got[j]
        /\ Len(got) <= taken
        /\ taken <= Len(got) + crashes
    BY <1>1, <1>3 DEF Delivered
  <2>2. Len(got) \in Nat /\ crashes \in Nat
    BY RingAssumption DEF TypeOK
  <2> QED
    BY <2>1, <2>2, <1>0, <1>1, <1>3 DEF Delivered
<1>13. (Writer = "cpp" => SequenceCounts')
  BY <1>1 DEF SequenceCounts
<1> QED
  BY <1>6, <1>8, <1>9, <1>10, <1>11, <1>12, <1>13

\* What the caller gets decodes as the frame that left the ring last.
LEMMA DecodesAsTaken ==
    ASSUME RingInv, rpc = "deliver"
    PROVE  Decode(rbuf) = taken /\ taken \in 1 .. Len(frames)
<1> USE DEF RingInv
<1>1. /\ taken # 0 /\ taken \in Nat /\ taken <= published
      /\ published <= Len(frames) /\ Len(frames) \in Nat /\ published \in Nat
      /\ DOMAIN rbuf = 0 .. FrameLen(taken) - 1
      /\ \A k \in DOMAIN rbuf : rbuf[k] = [frame |-> taken, off |-> k]
  BY DEF ReaderView, TypeOK, Geometry
<1>2. taken \in 1 .. Len(frames)
  BY <1>1
<1>3. FrameLen(taken) \in Nat \ {0}
  BY <1>2, FrameFacts
<1>4. 0 \in DOMAIN rbuf
  BY <1>1, <1>3
<1>5. rbuf[0].frame = taken
  BY <1>1, <1>4
<1> QED
  BY <1>1, <1>2, <1>5 DEF Decode

LEMMA RDeliverStep ==
    ASSUME RingInv, RDeliver
    PROVE  RingInv'
<1> USE DEF RingInv
<1>1. /\ UNCHANGED <<mem, writePos, readPos, sequence, wpc, wdone, crashes,
                     frames, published, taken, refused>>
      /\ rpc = "deliver" /\ rpc' = "idle" /\ rpos' = 0 /\ rsnap' = 0
      /\ rneed' = 0 /\ rbuf' = <<>>
      /\ got' = Append(got, Decode(rbuf))
  BY DEF RDeliver, Return, mapping, writer
<1>2. Decode(rbuf) = taken /\ taken \in 1 .. Len(frames)
  BY <1>1, DecodesAsTaken
<1>3. got \in Seq(Nat) /\ taken \in Nat
  BY DEF TypeOK
<1>4. /\ got' = Append(got, taken) /\ got' \in Seq(Nat)
      /\ Len(got') = Len(got) + 1
      /\ got'[Len(got) + 1] = taken
      /\ \A i \in 1 .. Len(got) : got'[i] = got[i]
  BY <1>1, <1>2, <1>3
<1>5. TypeOK'
  <2>1. DOMAIN rbuf' \in SUBSET Nat /\ rbuf' \in [DOMAIN rbuf' -> Byte]
    BY <1>1
  <2>2. /\ mem' \in [0 .. Cap - 1 -> Byte] /\ writePos' \in 0 .. Cap - 1
        /\ readPos' \in 0 .. Cap - 1 /\ sequence' \in Nat
        /\ wpc' \in {"idle", "copy", "count"} /\ wdone' \in SUBSET Nat
    BY <1>1 DEF TypeOK
  <2>3. /\ crashes' \in 0 .. MaxCrashes
        /\ frames' \in Seq([start : Nat, size : Sizes])
        /\ published' \in 0 .. Len(frames)' /\ taken' \in Nat
        /\ refused' \in Seq(Sizes)
    BY <1>1 DEF TypeOK
  <2>4. rpos' \in 0 .. Cap - 1 /\ rsnap' \in 0 .. Cap - 1 /\ rneed' \in Nat
    BY <1>1, RingAssumption
  <2> HIDE DEF RingInv
  <2> QED
    BY <2>1, <2>2, <2>3, <2>4, <1>1, <1>4 DEF TypeOK
<1>6. Geometry' /\ Positions' /\ Contents' /\ (Writer = "cpp" => SequenceCounts')
  BY <1>1, ReaderOnlyStep
<1>7. ReaderView'
  BY <1>1 DEF ReaderView
<1>8. Delivered'
  <2>1. /\ \A i \in 1 .. Len(got) : got[i] \in 1 .. taken - 1
        /\ \A i, j \in 1 .. Len(got) : i < j => got[i] < got[j]
        /\ Len(got) + 1 <= taken
        /\ taken <= Len(got) + 1 + crashes
    BY <1>1 DEF Delivered
  <2>2. Len(got) \in Nat /\ crashes \in Nat
    BY <1>3, RingAssumption DEF TypeOK
  <2>3. \A i \in 1 .. Len(got') : got'[i] \in 1 .. taken
    BY <2>1, <2>2, <1>2, <1>3, <1>4
  <2>4. ASSUME NEW i \in 1 .. Len(got'), NEW j \in 1 .. Len(got'), i < j
        PROVE  got'[i] < got'[j]
    <3>1. i \in 1 .. Len(got) /\ got'[i] = got[i] /\ got[i] \in 1 .. taken - 1
      BY <2>1, <2>2, <2>4, <1>4
    <3>2. CASE j \in 1 .. Len(got)
      BY <3>1, <3>2, <2>1, <2>4, <1>4
    <3>3. CASE j = Len(got) + 1
      BY <3>1, <3>3, <1>3, <1>4
    <3> QED
      BY <3>2, <3>3, <2>2, <1>4
  <2> QED
    BY SMTT(40), <2>1, <2>2, <2>3, <2>4, <1>1, <1>3, <1>4 DEF Delivered
<1> QED
  BY <1>5, <1>6, <1>7, <1>8

\* A reader that dies leaves the ring as it was before the call, or past the
\* one frame in its hand.
LEMMA RCrashStep ==
    ASSUME RingInv, RCrash
    PROVE  RingInv'
<1> USE DEF RingInv
<1>1. /\ UNCHANGED <<mem, writePos, readPos, sequence, wpc, wdone, frames,
                     published, taken, refused, got>>
      /\ rpc' = "idle" /\ rpos' = 0 /\ rsnap' = 0 /\ rneed' = 0 /\ rbuf' = <<>>
      /\ crashes < MaxCrashes /\ crashes' = crashes + 1
  BY DEF RCrash, Return, mapping, writer, history
<1>2. TypeOK'
  <2>1. DOMAIN rbuf' \in SUBSET Nat /\ rbuf' \in [DOMAIN rbuf' -> Byte]
    BY <1>1
  <2>2. crashes' \in 0 .. MaxCrashes
    <3>1. crashes \in 0 .. MaxCrashes
      BY DEF TypeOK
    <3> QED
      BY <3>1, <1>1, RingAssumption
  <2>3. /\ mem' \in [0 .. Cap - 1 -> Byte] /\ writePos' \in 0 .. Cap - 1
        /\ readPos' \in 0 .. Cap - 1 /\ sequence' \in Nat
        /\ wpc' \in {"idle", "copy", "count"} /\ wdone' \in SUBSET Nat
    BY <1>1 DEF TypeOK
  <2>4. /\ frames' \in Seq([start : Nat, size : Sizes])
        /\ published' \in 0 .. Len(frames)' /\ taken' \in Nat
        /\ refused' \in Seq(Sizes) /\ got' \in Seq(Nat)
    BY <1>1 DEF TypeOK
  <2>5. rpos' \in 0 .. Cap - 1 /\ rsnap' \in 0 .. Cap - 1 /\ rneed' \in Nat
    BY <1>1, RingAssumption
  <2> HIDE DEF RingInv
  <2> QED
    BY <2>1, <2>2, <2>3, <2>4, <2>5, <1>1 DEF TypeOK
<1>3. Geometry' /\ Positions' /\ Contents' /\ (Writer = "cpp" => SequenceCounts')
  BY <1>1, ReaderOnlyStep
<1>4. ReaderView'
  BY <1>1 DEF ReaderView
<1>5. Delivered'
  <2>1. Len(got) \in Nat /\ crashes \in Nat /\ taken \in Nat
    BY RingAssumption DEF TypeOK
  <2>2. \A i \in 1 .. Len(got) : got[i] \in 1 .. taken
    BY <2>1 DEF Delivered
  <2> QED
    BY <2>1, <2>2, <1>1 DEF Delivered
<1> QED
  BY <1>2, <1>3, <1>4, <1>5

\* Every step of the specification preserves the invariant.
LEMMA NextRingInv == RingInv /\ [Next]_vars => RingInv'
<1> SUFFICES ASSUME RingInv, [Next]_vars PROVE RingInv'
  OBVIOUS
<1>1. ASSUME NEW s \in Sizes, WBegin(s) PROVE RingInv'
  BY <1>1, WBeginStep
<1>2. ASSUME NEW s \in Sizes, WRefuse(s) PROVE RingInv'
  BY <1>2, WRefuseStep
<1>3. CASE WriterProgress
  BY <1>3, WCopyStep, WPublishStep, WCountStep DEF WriterProgress
<1>4. CASE ReaderProgress
  <2>1. ASSUME HeaderRead, NEW s \in ClaimedSizes,
               RDesync(s) \/ RPartial(s) \/ RAccept(s)
        PROVE  RingInv'
    BY <2>1, NoRecovery, RAcceptStep
  <2>2. ~RFlush
    BY DEF RFlush, RingInv, ReaderView
  <2> QED
    BY <1>4, <2>1, <2>2, RCheckStep, RLoadStep, RHeaderStep, RPayloadStep,
       RCommitStep, RDeliverStep DEF ReaderProgress
<1>5. CASE RCrash
  BY <1>5, RCrashStep
<1>6. CASE UNCHANGED vars
  <2>1. UNCHANGED <<mem, writePos, readPos, sequence, wpc, wdone, rpc, rpos,
                    rsnap, rneed, rbuf, crashes, frames, published, taken,
                    refused, got>>
    BY <1>6 DEF vars, mapping, writer, reader, history
  <2> QED
    BY <2>1, ReaderOnlyStep DEF RingInv, TypeOK, ReaderView, Delivered, FrameLen
<1>7. CASE REmpty
  BY <1>6, <1>7 DEF REmpty
<1> QED
  BY <1>1, <1>2, <1>3, <1>4, <1>5, <1>6, <1>7 DEF Next

(***************************************************************************)
(* What the runs check, for every value of the constants                   *)
(***************************************************************************)

\* The inductive invariant of writeFrame, readFrame and their Python twins.
THEOREM RingInvariant == Spec => []RingInv
BY InitRingInv, NextRingInv, PTL DEF Spec

\* The state always has its type; both positions stay inside the buffer.
THEOREM TypeCorrect == Spec => []TypeOK
<1>1. RingInv => TypeOK
  BY DEF RingInv
<1> QED
  BY <1>1, RingInvariant, PTL

\* The two positions each side loads tell it exactly what is unread.
THEOREM PositionsExact == Spec => []AvailExact
<1>1. RingInv => AvailExact
  <2> SUFFICES ASSUME RingInv PROVE AvailExact
    OBVIOUS
  <2>1. /\ Avail(writePos, readPos) = End(published) - End(taken)
        /\ Avail(writePos, readPos) \in 0 .. Cap - 1
    BY AvailIsUnread DEF RingInv
  <2> QED
    BY <2>1, RingAssumption DEF AvailExact
<1> QED
  BY <1>1, RingInvariant, PTL

\* The writer's bytes start where the unread ones end and stop short of the
\* oldest of them one turn later.
LEMMA BytesApart == RingInv => NoDataRace
<1> SUFFICES ASSUME RingInv,
                    NEW b \in WriterBytes, b \in ReaderBytes
             PROVE  FALSE
  BY DEF NoDataRace
<1> USE DEF RingInv
<1>0. PICK L \in Nat : L = Len(frames)
  <2>1. Len(frames) \in Nat
    BY DEF TypeOK
  <2> QED
    BY <2>1
<1>1. wpc = "copy" /\ rpc \in {"header", "payload"}
  BY DEF WriterBytes, ReaderBytes
<1>2. /\ L \in 1 .. Len(frames) /\ L = published + 1
      /\ frames[L].start = End(published)
      /\ FrameLen(L) \in Nat /\ End(L) = frames[L].start + FrameLen(L)
      /\ End(published) \in Nat
      /\ writePos = End(published) % Cap
  BY <1>0, <1>1, Counts, FrameFacts DEF Positions
<1>3. PICK k \in 0 .. FrameLen(L) - 1 : b = Cell(writePos, k)
  BY <1>0, <1>1 DEF WriterBytes
<1>4. /\ taken < published /\ rpos = End(taken) % Cap
      /\ rpc = "payload" => rneed = frames[taken + 1].size
  BY <1>1 DEF ReaderView, Positions
<1>5. /\ frames[taken + 1].size \in Nat
      /\ FrameLen(taken + 1) = Hdr + frames[taken + 1].size
      /\ End(taken + 1) = End(taken) + FrameLen(taken + 1)
      /\ End(taken) \in Nat
      /\ End(taken + 1) <= End(published)
  BY <1>4, UnreadFrame
<1>6. PICK j \in 0 .. FrameLen(taken + 1) - 1 : b = Cell(rpos, j)
  <2>1. CASE rpc = "header"
    <3>1. PICK j \in 0 .. Hdr - 1 : b = Cell(rpos, j)
      BY <2>1 DEF ReaderBytes
    <3>2. j \in 0 .. FrameLen(taken + 1) - 1
      BY <1>5, RingAssumption
    <3> QED
      BY <3>1, <3>2
  <2>2. CASE rpc = "payload"
    <3>1. PICK j \in 0 .. Hdr + rneed - 1 : b = Cell(rpos, j)
      BY <2>2 DEF ReaderBytes
    <3>2. j \in 0 .. FrameLen(taken + 1) - 1
      BY <2>2, <1>4, <1>5, RingAssumption
    <3> QED
      BY <3>1, <3>2
  <2> QED
    BY <1>1, <2>1, <2>2
<1> DEFINE p == End(published) + k
           q == End(taken) + j
<1>7. k \in Nat /\ j \in Nat
  BY <1>2, <1>5, RingAssumption
<1>8. b = p % Cap /\ b = q % Cap
  BY <1>2, <1>3, <1>4, <1>5, <1>6, <1>7, CellOfCount DEF Cell
<1>9. p \in Nat /\ q \in Nat /\ q < p /\ p < q + Cap
  <2>1. End(L) < End(taken) + Cap
    BY <1>0 DEF Positions
  <2>2. p < End(L) /\ End(published) <= p /\ p \in Nat /\ End(L) \in Nat
    BY <1>2, <1>3, <1>7
  <2>3. FrameLen(taken + 1) \in Nat
    BY <1>5, RingAssumption
  <2>4. q < End(published) /\ End(taken) <= q /\ q \in Nat
    BY SMTT(40), <2>3, <1>2, <1>5, <1>6, <1>7
  <2> HIDE DEF p, q
  <2> QED
    BY SMTT(40), <2>1, <2>2, <2>4, <1>2, <1>5, RingAssumption
<1> QED
  <2> HIDE DEF p, q
  <2> QED
    BY <1>8, <1>9, Inj

\* The unlocked copies of the two processes never touch the same byte.
THEOREM RaceFree == Spec => []NoDataRace
BY BytesApart, RingInvariant, PTL

\* readFrame never flushes the ring and never waits for half a frame.
THEOREM AlwaysInSync == Spec => []InSync
<1>1. RingInv => InSync
  <2> SUFFICES ASSUME RingInv PROVE InSync
    OBVIOUS
  <2>1. rpc # "flush"
    BY DEF RingInv, ReaderView
  <2> QED
    BY <2>1, HeaderIsGood DEF InSync
<1> QED
  BY <1>1, RingInvariant, PTL

\* Whole frames, in order, at most once, and at most one lost per death of
\* the reading process.
THEOREM DeliveryCorrect == Spec => []DeliveredIntact
<1>1. RingInv => DeliveredIntact
  <2> SUFFICES ASSUME RingInv PROVE DeliveredIntact
    OBVIOUS
  <2>1. rpc = "deliver" => Decode(rbuf) = taken
    BY DecodesAsTaken
  <2>a. got \in Seq(Nat) /\ taken \in Nat /\ crashes \in Nat
    BY RingAssumption DEF RingInv, TypeOK
  <2>2. /\ Len(got) \in Nat /\ taken \in Nat /\ crashes \in Nat
        /\ \A i \in 1 .. Len(got) : got[i] \in Nat
    BY <2>a, ElementOfSeq
  <2>3. CASE rpc = "deliver"
    BY <2>1, <2>2, <2>3 DEF DeliveredIntact, RingInv, Delivered
  <2>4. CASE rpc # "deliver"
    BY <2>2, <2>4 DEF DeliveredIntact, RingInv, Delivered
  <2> QED
    BY <2>3, <2>4
<1> QED
  BY <1>1, RingInvariant, PTL

\* The frame counter in the header is right when writeFrame keeps it.
THEOREM SequenceCorrect ==
    ASSUME Writer = "cpp"
    PROVE  Spec => []SequenceCounts
<1>1. RingInv => SequenceCounts
  BY DEF RingInv
<1> QED
  BY <1>1, RingInvariant, PTL
=============================================================================

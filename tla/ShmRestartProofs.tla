-------------------------- MODULE ShmRestartProofs --------------------------
(***************************************************************************)
(* What survives a restart of the transmission engine under an attached    *)
(* reader, for every capacity, header size, set of payload sizes, number   *)
(* of frames and number of restarts.                                       *)
(*                                                                         *)
(* RingInv does not survive: a call left over from an earlier life may     *)
(* store any read_pos, and the reader's counts of frames mean nothing any  *)
(* more.  What remains is the writer's side.  Counted from Base, where the *)
(* present life began, write_pos is still exact (Placed) and the last Cap  *)
(* bytes written are still in memory (Recent).  The rest follows from the  *)
(* one thing a reader checks for itself: a call of this life only moves    *)
(* read_pos forward, by no more than it found available, so it never takes *)
(* away room the writer has seen (Fresh).  Whether read_pos lies on a      *)
(* frame is then decided when such a call begins, and stays decided.       *)
(***************************************************************************)
EXTENDS ShmRestart, ShmRingProofs, FiniteSetTheorems

\* A byte count of this life, wrapped.
Spot(n) == (n - Base) % Cap

\* The unread bytes are the frames after the m-th.
At(m) ==
    /\ readPos = Spot(End(m))
    /\ Avail(writePos, readPos) = End(Written) - End(m)

AlignedFrom(k) == ~Overrun /\ \E m \in k .. Written : At(m)

\* A call that began in this life.
ThisLife == call \in {"clean", "astray"}

-----------------------------------------------------------------------------
(* The inductive invariant *)

\* Frames lie one behind the other, over all lives; the present one's are the
\* last, and each is smaller than the ring.
Lives ==
    /\ \A n \in 1 .. Len(frames) : frames[n].start = End(n - 1)
    /\ \A m, n \in 0 .. Len(frames) : m <= n => End(m) <= End(n)
    /\ published <= Written /\ birth <= Written
    /\ wpc = "copy" => FrameLen(Len(frames)) < Cap
    /\ unset # {} => life = "init"
    /\ life = "init" => unset # {}

\* A call's locals, and what may be in the bytes it has read.
Locals ==
    /\ call = "none" <=> rpc = "idle"
    /\ rpc # "idle" => Hdr < Cap
    /\ rpc \in {"idle", "load"} => DOMAIN rbuf = {}
    /\ rpc \in {"header", "flush"} => DOMAIN rbuf \subseteq 0 .. Hdr - 1
    /\ rpc \in {"payload", "deliver"} =>
           Hdr + rneed < Cap /\ DOMAIN rbuf \subseteq 0 .. Hdr + rneed - 1
    /\ \A c \in 0 .. Cap - 1 : mem[c].frame \in 0 .. Len(frames)
    /\ \A k \in DOMAIN rbuf : rbuf[k].frame \in 0 .. Len(frames)

\* write_pos is where the frames of this life end, and 0 as soon as it is
\* stored.
Placed ==
    /\ life # "init" \/ ThisLife => writePos = Spot(End(Written))
    /\ life = "init" /\ "write_pos" \notin unset => writePos = 0 /\ birth = Written

\* Every byte of this life is in memory unless one a whole ring later has
\* been begun.
Recent ==
    /\ \A n \in birth + 1 .. Written : \A k \in 0 .. FrameLen(n) - 1 :
           End(Len(frames)) <= frames[n].start + k + Cap =>
               mem[Spot(frames[n].start + k)] = [frame |-> n, off |-> k]
    /\ wpc = "copy" =>
           \A k \in wdone :
               /\ k < FrameLen(Len(frames))
               /\ mem[Spot(frames[Len(frames)].start + k)] =
                      [frame |-> Len(frames), off |-> k]

\* What a call of this life has found available is still there, and the
\* write_pos it may flush to is the end of a frame, not before read_pos.
Fresh ==
    ThisLife =>
        /\ ~Overrun
        /\ rpc \in {"load", "header", "payload"} => Avail(writePos, readPos) >= Hdr
        /\ rpc \in {"header", "payload"} => rpos = readPos
        /\ rpc = "payload" => Avail(writePos, readPos) >= Hdr + rneed
        /\ rpc \in {"header", "flush", "payload"} =>
               \E j \in birth .. Written :
                   /\ rsnap = Spot(End(j))
                   /\ Avail(writePos, rsnap) = End(Written) - End(j)
                   /\ Avail(writePos, rsnap) <= Avail(writePos, readPos)

\* A call that began between frames stays between frames until it stores.
StillAstray == call = "astray" /\ rpc # "deliver" => ~Aligned

\* A call that began after the m-th frame holds a part of the next one, which
\* is the m-th itself once its read_pos is stored.
Holding(m) ==
    /\ newest <= m /\ At(m)
    /\ rpc \in {"load", "header", "payload"} =>
           m < Written
           /\ \A k \in DOMAIN rbuf : rbuf[k] = [frame |-> m + 1, off |-> k]
    /\ rpc = "payload" => rneed = frames[m + 1].size
    /\ rpc = "deliver" =>
           /\ birth < m /\ newest < m
           /\ DOMAIN rbuf = 0 .. FrameLen(m) - 1
           /\ \A k \in DOMAIN rbuf : rbuf[k] = [frame |-> m, off |-> k]

OnFrame == call = "clean" => rpc # "flush" /\ \E m \in birth .. Written : Holding(m)

\* Nothing a clean call has delivered will be met again.
Onward ==
    \/ newest <= birth
    \/ call # "stale" /\ AlignedFrom(newest)
    \/ life = "init" /\ ~ThisLife

TypedInv   == RestartTypeOK /\ Lives /\ Locals
PlacedInv  == TypedInv /\ Placed /\ Recent
RestartInv == PlacedInv /\ Fresh /\ StillAstray /\ OnFrame /\ Onward

USE DEF AllCopied, NextWrite, AfterPublish, Readable, Snapshot, NextRead, RStore

-----------------------------------------------------------------------------
(* Arithmetic on positions *)

\* One turn of the ring at most.
LEMMA Wrap ==
    ASSUME NEW p \in 0 .. Cap - 1, NEW n \in Nat, n < Cap
    PROVE  Cell(p, n) = (IF p + n < Cap THEN p + n ELSE (p + n) - Cap)
<1>0. p + n \in Nat /\ p + n < 2 * Cap /\ Cap \in Nat
  BY RingAssumption
<1>1. CASE p + n < Cap
  <2>1. p + n = Cap * 0 + (p + n) /\ p + n \in 0 .. Cap - 1
    BY <1>0, <1>1
  <2> QED
    BY <2>1, <1>0, <1>1, ModUnique DEF Cell
<1>2. CASE p + n >= Cap
  <2>1. p + n = Cap * 1 + ((p + n) - Cap) /\ (p + n) - Cap \in 0 .. Cap - 1
    BY <1>0, <1>2
  <2>2. (p + n) % Cap = (p + n) - Cap
    BY <2>1, <1>0, ModUnique
  <2> QED
    BY <2>2, <1>0, <1>2 DEF Cell
<1> QED
  BY <1>0, <1>1, <1>2

\* One byte always stays free.
LEMMA AvailRange ==
    ASSUME NEW w \in 0 .. Cap - 1, NEW r \in 0 .. Cap - 1
    PROVE  Avail(w, r) \in 0 .. Cap - 1 /\ Avail(w, w) = 0
BY RingAssumption DEF Avail

\* A writer that has room moves away from the reader.
LEMMA Forward ==
    ASSUME NEW w \in 0 .. Cap - 1, NEW r \in 0 .. Cap - 1, NEW n \in Nat,
           Avail(w, r) + n < Cap
    PROVE  /\ Cell(w, n) \in 0 .. Cap - 1
           /\ Avail(Cell(w, n), r) = Avail(w, r) + n
<1>1. n < Cap /\ Cap \in Nat \ {0}
  BY AvailRange, RingAssumption
<1> DEFINE c == Cell(w, n)
<1>2. c = (IF w + n < Cap THEN w + n ELSE (w + n) - Cap)
  BY <1>1, Wrap
<1> HIDE DEF c
<1>3. c \in 0 .. Cap - 1
  BY <1>1, <1>2
<1>4. Avail(c, r) = Avail(w, r) + n
  BY <1>1, <1>2, <1>3 DEF Avail
<1> QED
  BY <1>3, <1>4 DEF c

\* A reader that takes what is available comes closer to the writer.
LEMMA Closer ==
    ASSUME NEW w \in 0 .. Cap - 1, NEW r \in 0 .. Cap - 1, NEW n \in Nat,
           n <= Avail(w, r)
    PROVE  /\ Cell(r, n) \in 0 .. Cap - 1
           /\ Avail(w, Cell(r, n)) = Avail(w, r) - n
<1>1. n < Cap /\ Cap \in Nat \ {0}
  BY AvailRange, RingAssumption
<1> DEFINE c == Cell(r, n)
<1>2. c = (IF r + n < Cap THEN r + n ELSE (r + n) - Cap)
  BY <1>1, Wrap
<1> HIDE DEF c
<1>3. c \in 0 .. Cap - 1
  BY <1>1, <1>2
<1>4. Avail(w, c) = Avail(w, r) - n
  BY <1>1, <1>2, <1>3 DEF Avail
<1> QED
  BY <1>3, <1>4 DEF c

\* Room and unread bytes do not overlap.
LEMMA Apart ==
    ASSUME NEW w \in 0 .. Cap - 1, NEW r \in 0 .. Cap - 1,
           NEW i \in Nat, NEW j \in Nat,
           Avail(w, r) + i < Cap, j < Avail(w, r)
    PROVE  Cell(w, i) # Cell(r, j)
<1>1. i < Cap /\ j < Cap /\ Cap \in Nat \ {0}
  BY AvailRange, RingAssumption
<1> DEFINE c == Cell(w, i)
           d == Cell(r, j)
<1>2. /\ c = (IF w + i < Cap THEN w + i ELSE (w + i) - Cap)
      /\ d = (IF r + j < Cap THEN r + j ELSE (r + j) - Cap)
  BY <1>1, Wrap
<1> HIDE DEF c, d
<1>3. c # d
  BY <1>1, <1>2 DEF Avail
<1> QED
  BY <1>3 DEF c, d

-----------------------------------------------------------------------------
(* Facts of a single state *)

Typed == RestartTypeOK /\ Lives

\* The frames of this life and their ends.
LEMMA LifeFacts ==
    ASSUME Typed
    PROVE  /\ TypeOK
           /\ Len(frames) \in Nat /\ Written \in 0 .. Len(frames)
           /\ birth \in 0 .. Written
           /\ Base \in Nat
           /\ \A n \in 0 .. Len(frames) : End(n) \in Nat
           /\ \A n \in birth .. Len(frames) : Base <= End(n)
           /\ \A m, n \in 0 .. Len(frames) : m <= n => End(m) <= End(n)
           /\ \A n \in 1 .. Len(frames) :
                 /\ frames[n].size \in Nat /\ FrameLen(n) = Hdr + frames[n].size
                 /\ FrameLen(n) \in Nat \ {0} /\ Hdr <= FrameLen(n)
                 /\ frames[n].start \in Nat
                 /\ frames[n].start = End(n - 1)
                 /\ End(n) = End(n - 1) + FrameLen(n)
           /\ wpc = "copy" =>
                 /\ Len(frames) \in 1 .. Len(frames) /\ Written = Len(frames) - 1
                 /\ End(Len(frames)) = End(Written) + FrameLen(Len(frames))
           /\ wpc # "copy" => Written = Len(frames)
<1>1. TypeOK /\ birth \in 0 .. Len(frames) /\ birth <= Written
  BY DEF Typed, RestartTypeOK, Lives
<1>2. Len(frames) \in Nat
  BY <1>1 DEF TypeOK
<1>3. Written \in 0 .. Len(frames) /\ birth \in 0 .. Written
  BY <1>1, <1>2 DEF Written
<1>4. \A n \in 0 .. Len(frames) : End(n) \in Nat
  BY <1>1, FrameFacts
<1>5. \A m, n \in 0 .. Len(frames) : m <= n => End(m) <= End(n)
  BY DEF Typed, Lives
<1>6. Base \in Nat /\ \A n \in birth .. Len(frames) : Base <= End(n)
  BY <1>1, <1>2, <1>4, <1>5 DEF Base
<1>7. \A n \in 1 .. Len(frames) :
         /\ frames[n].size \in Nat /\ FrameLen(n) = Hdr + frames[n].size
         /\ FrameLen(n) \in Nat \ {0} /\ Hdr <= FrameLen(n)
         /\ frames[n].start \in Nat
         /\ frames[n].start = End(n - 1)
         /\ End(n) = End(n - 1) + FrameLen(n)
  <2> TAKE n \in 1 .. Len(frames)
  <2>1. /\ frames[n].start \in Nat /\ frames[n].size \in Nat
        /\ FrameLen(n) \in Nat \ {0} /\ End(n) = frames[n].start + FrameLen(n)
    BY <1>1, FrameFacts
  <2>2. frames[n].start = End(n - 1)
    BY DEF Typed, Lives
  <2> QED
    BY <2>1, <2>2, RingAssumption DEF FrameLen
<1>8. wpc = "copy" =>
         /\ Len(frames) \in 1 .. Len(frames) /\ Written = Len(frames) - 1
         /\ End(Len(frames)) = End(Written) + FrameLen(Len(frames))
  <2> HAVE wpc = "copy"
  <2>1. Written = Len(frames) - 1
    BY DEF Written
  <2> QED
    BY <2>1, <1>2, <1>3, <1>7
<1>9. wpc # "copy" => Written = Len(frames)
  BY <1>2 DEF Written
<1> QED
  BY <1>1, <1>2, <1>3, <1>4, <1>5, <1>6, <1>7, <1>8, <1>9

\* The reader never holds more bytes than the ring has.
LEMMA FewBytes ==
    ASSUME NEW S, NEW n \in Nat, n <= Cap, S \subseteq 0 .. n - 1
    PROVE  Cardinality(S) <= Cap
<1>1. IsFiniteSet(0 .. n - 1) /\ Cardinality(0 .. n - 1) = n
  <2>1. CASE n = 0
    BY <2>1, FS_Interval
  <2>2. CASE n # 0
    <3>1. 0 \in Int /\ n - 1 \in Int /\ 0 <= n - 1
      BY <2>2
    <3>2. Cardinality(0 .. n - 1) = (n - 1) - 0 + 1
      BY <3>1, FS_Interval
    <3> QED
      BY <3>1, <3>2, FS_Interval
  <2> QED
    BY <2>1, <2>2
<1>2. IsFiniteSet(S) /\ Cardinality(S) <= Cardinality(0 .. n - 1)
  BY <1>1, FS_Subset
<1>3. Cardinality(S) \in Nat
  BY <1>2, FS_CardinalityType
<1> QED
  BY <1>1, <1>2, <1>3, RingAssumption

-----------------------------------------------------------------------------
(* Types *)

\* RestartTypeOK without the bound Locals implies.
Types ==
    /\ TypeOK
    /\ life \in {"up", "down", "init"}
    /\ unset \in SUBSET {"write_pos", "read_pos", "sequence"}
    /\ restarts \in 0 .. MaxRestarts
    /\ birth \in 0 .. Len(frames)
    /\ call \in {"none", "clean", "astray", "stale"}
    /\ newest \in 0 .. Len(frames)

LEMMA TypesSuffice == ASSUME Types, Locals PROVE RestartTypeOK
<1>1. Cap \in Nat \ {0} /\ Hdr \in Nat /\ rneed \in Nat
  BY RingAssumption DEF Types, TypeOK
<1>2. Cardinality(DOMAIN rbuf) <= Cap
  <2>1. CASE rpc \in {"idle", "load"}
    <3>1. DOMAIN rbuf \subseteq 0 .. 0 - 1
      BY <2>1 DEF Locals
    <3> QED
      BY <3>1, <1>1, FewBytes
  <2>2. CASE rpc \in {"header", "flush"}
    BY <2>2, <1>1, FewBytes DEF Locals
  <2>3. CASE rpc \in {"payload", "deliver"}
    BY <2>3, <1>1, FewBytes DEF Locals
  <2> QED
    BY <2>1, <2>2, <2>3 DEF Types, TypeOK
<1> QED
  BY <1>2 DEF Types, RestartTypeOK

LEMMA InitTyped == RestartInit => TypedInv
<1> SUFFICES ASSUME RestartInit PROVE TypedInv
  OBVIOUS
<1>1. /\ RingInv /\ life = "up" /\ unset = {} /\ restarts = 0 /\ birth = 0
      /\ call = "none" /\ newest = 0
  BY InitRingInv DEF RestartInit
<1>2. /\ frames = <<>> /\ rpc = "idle" /\ wpc = "idle" /\ published = 0
      /\ DOMAIN rbuf = {} /\ Len(frames) = 0
      /\ \A c \in 0 .. Cap - 1 : mem[c].frame = 0
  BY DEF RestartInit, Init, Zero
<1>3. Types
  BY <1>1, <1>2, RestartAssumption DEF Types, RingInv
<1>4. Lives
  <2>1. \A m, n \in 0 .. Len(frames) : m = 0 /\ n = 0
    BY <1>2
  <2>2. End(0) = 0 /\ Written = 0
    BY <1>2 DEF End, Written
  <2> QED
    BY <1>1, <1>2, <2>1, <2>2 DEF Lives
<1>5. Locals
  BY <1>1, <1>2 DEF Locals
<1> QED
  BY <1>3, <1>4, <1>5, TypesSuffice DEF TypedInv

\* Steps that begin and end no frame, and those that leave the writer's side
\* of the ring alone altogether.
SameFrames == UNCHANGED <<wpc, frames, published, engine>>
Still      == SameFrames /\ UNCHANGED <<mem, writePos, wdone>>

LEMMA SameEnds ==
    ASSUME SameFrames
    PROVE  /\ Written' = Written /\ Base' = Base
           /\ \A n : End(n)' = End(n) /\ FrameLen(n)' = FrameLen(n)
           /\ \A n : Spot(n)' = Spot(n)
BY DEF SameFrames, engine, Written, Base, End, FrameLen, Spot

LEMMA SameLives ==
    ASSUME Lives, SameFrames
    PROVE  Lives'
<1>1. /\ UNCHANGED <<frames, published, birth, wpc, unset, life>>
      /\ Written' = Written
      /\ \A n : End(n)' = End(n) /\ FrameLen(n)' = FrameLen(n)
  BY SameEnds DEF SameFrames, engine
<1>2. FrameLen(Len(frames))' = FrameLen(Len(frames))
  BY <1>1 DEF FrameLen
<1> QED
  BY <1>1, <1>2 DEF Lives

\* How a reader's step marks its call.
LEMMA CallOf ==
    ASSUME PRead
    PROVE  /\ rpc' = "idle" => call' = "none"
           /\ rpc' # "idle" /\ rpc = "idle" => call' = Began
           /\ rpc' # "idle" /\ rpc # "idle" => call' = call
           /\ Began \in {"stale", "clean", "astray"}
           /\ Began \in {"clean", "astray"} => life # "init" /\ ~Overrun
           /\ Began = "clean" => Aligned
           /\ Began = "astray" => ~Aligned
<1>1. call' = IF rpc' = "idle" THEN "none" ELSE IF rpc = "idle" THEN Began ELSE call
  BY DEF PRead
<1>2. CASE life = "init" \/ Overrun
  <2>1. Began = "stale"
    BY <1>2 DEF Began
  <2> HIDE DEF Began
  <2> QED
    BY <1>1, <2>1
<1>3. CASE ~(life = "init" \/ Overrun) /\ Aligned
  <2>1. Began = "clean"
    BY <1>3 DEF Began
  <2> HIDE DEF Began
  <2> QED
    BY <1>1, <1>3, <2>1
<1>4. CASE ~(life = "init" \/ Overrun) /\ ~Aligned
  <2>1. Began = "astray"
    BY <1>4 DEF Began
  <2> HIDE DEF Began
  <2> QED
    BY <1>1, <1>4, <2>1
<1> QED
  BY <1>2, <1>3, <1>4

LEMMA ReaderIsStill ==
    ASSUME PRead
    PROVE  /\ Still /\ (ThisLife' /\ life = "init" => ThisLife)
           /\ UNCHANGED <<sequence, crashes, refused, restarts>>
<1>1. UNCHANGED <<mem, writePos, sequence, wpc, wdone, crashes, frames,
                  published, refused>>
  BY DEF PRead, ReaderProgress, RCheck, RLoad, RHeader, RDesync, RPartial,
         RAccept, RPayload, RCommit, RFlush, RDeliver, Return, mapping, writer,
         history
<1>2. UNCHANGED engine
  BY DEF PRead
<1>3. ThisLife' /\ life = "init" => ThisLife
  <2> HAVE ThisLife' /\ life = "init"
  <2> QED
    BY CallOf DEF ThisLife
<1> QED
  BY <1>1, <1>2, <1>3 DEF Still, SameFrames, engine

LEMMA FetchTyped ==
    ASSUME TypedInv, NEW k \in Nat, FetchByte(k)
    PROVE  /\ DOMAIN rbuf' = DOMAIN rbuf \cup {k}
           /\ rbuf' \in [DOMAIN rbuf' -> Byte]
           /\ DOMAIN rbuf' \in SUBSET Nat
           /\ \A i \in DOMAIN rbuf' : rbuf'[i].frame \in 0 .. Len(frames)
           /\ rbuf'[k] = mem[Cell(rpos, k)]
           /\ \A i \in DOMAIN rbuf : rbuf'[i] = rbuf[i]
<1>1. TypeOK /\ Locals
  BY DEF TypedInv, RestartTypeOK
<1>2. Cell(rpos, k) \in 0 .. Cap - 1
  <2>1. rpos \in Nat
    BY <1>1, RingAssumption DEF TypeOK
  <2> QED
    BY <2>1, CellInRing
<1> DEFINE b == mem[Cell(rpos, k)]
<1>3. b \in Byte /\ b.frame \in 0 .. Len(frames)
  BY <1>1, <1>2 DEF TypeOK, Locals
<1>4. \A i \in DOMAIN rbuf : rbuf[i] \in Byte /\ rbuf[i].frame \in 0 .. Len(frames)
  BY <1>1 DEF TypeOK, Locals
<1>5. rbuf' = [i \in DOMAIN rbuf \cup {k} |-> IF i = k THEN b ELSE rbuf[i]]
      /\ k \notin DOMAIN rbuf
  BY DEF FetchByte
<1> HIDE DEF b
<1>6. DOMAIN rbuf' = DOMAIN rbuf \cup {k}
  BY <1>5
<1>7. \A i \in DOMAIN rbuf' : rbuf'[i] = IF i = k THEN b ELSE rbuf[i]
  BY <1>5, <1>6
<1>8. \A i \in DOMAIN rbuf' : rbuf'[i] \in Byte /\ rbuf'[i].frame \in 0 .. Len(frames)
  BY <1>3, <1>4, <1>6, <1>7
<1>9. rbuf' = [i \in DOMAIN rbuf' |-> rbuf'[i]]
  BY <1>5, <1>6
<1>10. DOMAIN rbuf' \in SUBSET Nat
  BY <1>1, <1>6 DEF TypeOK
<1>11. rbuf'[k] = b /\ \A i \in DOMAIN rbuf : rbuf'[i] = rbuf[i]
  BY <1>5, <1>6, <1>7
<1> QED
  BY <1>6, <1>8, <1>9, <1>10, <1>11 DEF b

\* What a header read from anywhere in the ring may claim.
LEMMA ClaimIsNat ==
    ASSUME TypedInv, HeaderRead, NEW s \in ClaimedSizes
    PROVE  s \in Nat
<1>0. TypeOK /\ Locals
  BY DEF TypedInv, RestartTypeOK
<1>1. TypeOK /\ Locals /\ Len(frames) \in Nat
  BY <1>0, FrameFacts
<1> DEFINE b == rbuf[Hdr - 1]
<1>2. b.frame \in 0 .. Len(frames)
  <2>1. Hdr - 1 \in DOMAIN rbuf
    BY RingAssumption DEF HeaderRead
  <2> QED
    BY <2>1, <1>1 DEF Locals
<1> HIDE DEF b
<1>3. CASE b.frame = 0
  BY <1>3 DEF ClaimedSizes, b
<1>4. CASE b.frame # 0
  <2>1. b.frame \in 1 .. Len(frames)
    BY <1>1, <1>2, <1>4
  <2>2. frames[b.frame].size \in Nat
    BY <2>1, <1>1, FrameFacts
  <2>3. MaxPayload \in Nat
    BY RingAssumption
  <2> QED
    BY <1>4, <2>2, <2>3 DEF ClaimedSizes, b
<1> QED
  BY <1>3, <1>4

LEMMA DecodeType ==
    ASSUME Len(frames) \in Nat, NEW buf
    PROVE  Decode(buf) \in 0 .. Len(frames)
BY DEF Decode

\* The parts of the type that no reader's step changes.
LEMMA ReaderTypes ==
    ASSUME TypedInv, PRead,
           readPos' \in 0 .. Cap - 1, taken' \in Nat, got' \in Seq(Nat),
           rpc' \in {"idle", "load", "header", "flush", "payload", "deliver"},
           rpos' \in 0 .. Cap - 1, rsnap' \in 0 .. Cap - 1, rneed' \in Nat,
           DOMAIN rbuf' \in SUBSET Nat, rbuf' \in [DOMAIN rbuf' -> Byte],
           Locals'
    PROVE  TypedInv'
<1>0. /\ RestartTypeOK /\ TypeOK /\ Lives /\ Locals
  BY DEF TypedInv, RestartTypeOK
<1>1. /\ RestartTypeOK /\ TypeOK /\ Lives /\ Locals /\ Len(frames) \in Nat
  BY <1>0, FrameFacts
<1>2. Still /\ UNCHANGED <<sequence, crashes, refused, restarts>>
  BY ReaderIsStill
<1>3. TypeOK'
  BY <1>1, <1>2 DEF TypeOK, Still, SameFrames, engine
<1>4. call' \in {"none", "clean", "astray", "stale"}
  BY <1>1, CallOf DEF RestartTypeOK
<1>5. newest' \in 0 .. Len(frames)
  <2>1. newest' = Decode(rbuf) \/ newest' = newest
    BY DEF PRead
  <2> QED
    BY <2>1, <1>1, DecodeType DEF RestartTypeOK
<1>6. Types'
  BY <1>1, <1>2, <1>3, <1>4, <1>5 DEF Types, RestartTypeOK, Still, SameFrames, engine
<1>7. Lives'
  BY <1>1, <1>2, SameLives DEF Still
<1>8. RestartTypeOK'
  BY <1>6, TypesSuffice, PTL
<1> QED
  BY <1>7, <1>8 DEF TypedInv

\* A call's locals, action by action.
LEMMA ReaderTyped ==
    ASSUME TypedInv, PRead
    PROVE  TypedInv'
<1>0. TypeOK /\ Locals
  BY DEF TypedInv, RestartTypeOK
<1>1. /\ Len(frames) \in Nat /\ Cap \in Nat \ {0} /\ Hdr \in Nat \ {0}
      /\ 0 \in 0 .. Cap - 1
      /\ readPos \in 0 .. Cap - 1 /\ writePos \in 0 .. Cap - 1
      /\ rpos \in 0 .. Cap - 1 /\ rsnap \in 0 .. Cap - 1 /\ rneed \in Nat
      /\ Reader = "py"
  <2>1. Cap \in Nat \ {0} /\ Hdr \in Nat \ {0} /\ Reader = "py"
    BY RingAssumption, RestartAssumption
  <2>2. 0 \in 0 .. Cap - 1
    BY <2>1
  <2>3. /\ readPos \in 0 .. Cap - 1 /\ writePos \in 0 .. Cap - 1
        /\ rpos \in 0 .. Cap - 1 /\ rsnap \in 0 .. Cap - 1 /\ rneed \in Nat
    BY <1>0 DEF TypeOK
  <2>4. Len(frames) \in Nat
    BY <1>0, FrameFacts
  <2> QED
    BY <2>1, <2>2, <2>3, <2>4
<1>2. /\ call' = "none" <=> rpc' = "idle"
      /\ \A c \in 0 .. Cap - 1 : mem'[c].frame \in 0 .. Len(frames')
  <2>1. call' = "none" <=> rpc' = "idle"
    BY <1>0, CallOf DEF Locals
  <2>2. mem' = mem /\ frames' = frames
    BY ReaderIsStill DEF Still, SameFrames
  <2> QED
    BY <2>1, <2>2, <1>0 DEF Locals
<1>3. frames' = frames
  BY ReaderIsStill DEF Still, SameFrames
<1>r. ASSUME Return, readPos' \in 0 .. Cap - 1, taken' \in Nat, got' \in Seq(Nat)
      PROVE  TypedInv'
  <2>1. /\ rpc' = "idle" /\ rpos' = 0 /\ rsnap' = 0 /\ rneed' = 0 /\ rbuf' = <<>>
    BY <1>r DEF Return
  <2>2. DOMAIN rbuf' = {} /\ rbuf' \in [DOMAIN rbuf' -> Byte]
    BY <2>1
  <2>3. Locals'
    BY <2>1, <2>2, <1>2 DEF Locals
  <2> QED
    BY <2>1, <2>2, <2>3, <1>r, <1>1, ReaderTypes
<1>4. CASE RCheck
  <2>1. /\ rpc = "idle" /\ rpc' = "load"
        /\ UNCHANGED <<readPos, rpos, rsnap, rneed, rbuf, taken, got>>
    BY <1>4 DEF RCheck, mapping, history
  <2>2. Hdr < Cap
    BY <1>4, <1>1, AvailRange DEF RCheck
  <2>3. Locals'
    BY <2>1, <2>2, <1>0, <1>2 DEF Locals
  <2> QED
    BY <2>1, <2>3, <1>0, ReaderTypes DEF TypeOK
<1>5. CASE RLoad
  <2>1. /\ rpc = "load" /\ rpc' = "header" /\ rpos' = readPos /\ rsnap' = writePos
        /\ UNCHANGED <<readPos, rneed, rbuf, taken, got>>
    BY <1>5, <1>1 DEF RLoad, mapping, history
  <2>2. Locals'
    BY <2>1, <1>0, <1>2 DEF Locals
  <2> QED
    BY <2>1, <2>2, <1>0, ReaderTypes DEF TypeOK
<1>6. ASSUME NEW k \in 0 .. Hdr - 1, RHeader(k) PROVE TypedInv'
  <2>1. /\ rpc = "header" /\ rpc' = "header" /\ FetchByte(k)
        /\ UNCHANGED <<readPos, rpos, rsnap, rneed, taken, got>>
    BY <1>6 DEF RHeader, mapping, history
  <2>0. k \in Nat
    BY <1>1
  <2>2. /\ DOMAIN rbuf' = DOMAIN rbuf \cup {k}
        /\ rbuf' \in [DOMAIN rbuf' -> Byte]
        /\ DOMAIN rbuf' \in SUBSET Nat
        /\ \A i \in DOMAIN rbuf' : rbuf'[i].frame \in 0 .. Len(frames)
    BY <2>0, <2>1, FetchTyped
  <2>3. Locals'
    BY <2>1, <2>2, <1>0, <1>2, <1>3 DEF Locals
  <2> QED
    BY <2>1, <2>2, <2>3, <1>0, ReaderTypes DEF TypeOK
<1>7. ASSUME HeaderRead, NEW s \in ClaimedSizes, RDesync(s) PROVE TypedInv'
  <2>1. /\ rpc = "header" /\ rpc' = "flush" /\ rsnap' = rsnap
        /\ UNCHANGED <<readPos, rpos, rneed, rbuf, taken, got>>
    BY <1>7, <1>1 DEF RDesync, HeaderRead, mapping, history
  <2>2. Locals'
    BY <2>1, <1>0, <1>2, <1>3 DEF Locals
  <2> QED
    BY <2>1, <2>2, <1>0, ReaderTypes DEF TypeOK
<1>8. ASSUME HeaderRead, NEW s \in ClaimedSizes, RPartial(s) PROVE TypedInv'
  BY <1>8, <1>r, <1>0 DEF RPartial, mapping, history, TypeOK
<1>9. ASSUME HeaderRead, NEW s \in ClaimedSizes, RAccept(s) PROVE TypedInv'
  <2>1. s \in Nat
    BY <1>9, ClaimIsNat
  <2>2. /\ rpc = "header" /\ rpc' = "payload" /\ rneed' = s
        /\ Avail(writePos, readPos) >= Hdr + s
        /\ UNCHANGED <<readPos, rpos, rsnap, rbuf, taken, got>>
    BY <1>9, <1>1 DEF RAccept, HeaderRead, Needed, mapping, history
  <2>3. Hdr + s < Cap /\ 0 .. Hdr - 1 \subseteq 0 .. Hdr + s - 1
    BY <2>1, <2>2, <1>1, AvailRange
  <2>4. Locals'
    BY <2>2, <2>3, <1>0, <1>2, <1>3 DEF Locals
  <2> QED
    BY <2>1, <2>2, <2>4, <1>0, ReaderTypes DEF TypeOK
<1>10. ASSUME NEW k \in Hdr .. Hdr + rneed - 1, RPayload(k) PROVE TypedInv'
  <2>1. /\ rpc = "payload" /\ rpc' = "payload" /\ FetchByte(k)
        /\ UNCHANGED <<readPos, rpos, rsnap, rneed, taken, got>>
    BY <1>10 DEF RPayload, mapping, history
  <2>0. k \in Nat /\ k \in 0 .. Hdr + rneed - 1
    BY <1>1
  <2>2. /\ DOMAIN rbuf' = DOMAIN rbuf \cup {k}
        /\ rbuf' \in [DOMAIN rbuf' -> Byte]
        /\ DOMAIN rbuf' \in SUBSET Nat
        /\ \A i \in DOMAIN rbuf' : rbuf'[i].frame \in 0 .. Len(frames)
    BY <2>0, <2>1, FetchTyped
  <2>3. Locals'
    BY <2>0, <2>1, <2>2, <1>0, <1>2, <1>3 DEF Locals
  <2> QED
    BY <2>1, <2>2, <2>3, <1>0, ReaderTypes DEF TypeOK
<1>11. CASE rpc = "payload" /\ RCommit
  <2>1. /\ rpc' = "deliver" /\ readPos' = Cell(rpos, Hdr + rneed)
        /\ taken' = taken + 1
        /\ UNCHANGED <<rpos, rsnap, rneed, rbuf, got>>
    BY <1>11 DEF RCommit
  <2>2. readPos' \in 0 .. Cap - 1
    BY <2>1, <1>1, CellInRing
  <2>3. Locals'
    BY <2>1, <1>11, <1>0, <1>2, <1>3 DEF Locals
  <2> QED
    BY <2>1, <2>2, <2>3, <1>0, ReaderTypes DEF TypeOK
<1>12. CASE RFlush
  BY <1>12, <1>r, <1>0 DEF RFlush, history, TypeOK
<1>13. CASE RDeliver
  <2>1. Decode(rbuf) \in Nat
    BY <1>1, DecodeType
  <2>2. got' = Append(got, Decode(rbuf)) /\ got \in Seq(Nat)
    BY <1>13, <1>0 DEF RDeliver, TypeOK
  <2> HIDE DEF Decode
  <2>3. got' \in Seq(Nat)
    BY <2>1, <2>2
  <2> QED
    BY <2>3, <1>13, <1>r, <1>0 DEF RDeliver, mapping, TypeOK
<1> QED
  <2>1. ReaderProgress
    BY DEF PRead
  <2>2. \/ RCheck \/ RLoad \/ (\E k \in 0 .. Hdr - 1 : RHeader(k))
        \/ HeaderRead /\ \E s \in ClaimedSizes : RDesync(s) \/ RPartial(s) \/ RAccept(s)
        \/ (\E k \in Hdr .. Hdr + rneed - 1 : RPayload(k))
        \/ rpc = "payload" /\ RCommit
        \/ RFlush \/ RDeliver
    BY <2>1 DEF ReaderProgress, RCommit
  <2> QED
    BY <2>2, <1>4, <1>5, <1>6, <1>7, <1>8, <1>9, <1>10, <1>11, <1>12, <1>13

-----------------------------------------------------------------------------
(* The writer's steps and those of its process *)

\* A new frame lies behind all others and changes none of them.
LEMMA NewFrame ==
    ASSUME TypedInv, NEW s \in Sizes, WBegin(s), NEW L \in Nat, L = Len(frames)
    PROVE  /\ wpc = "idle" /\ wpc' = "copy" /\ wdone' = {}
           /\ frames' \in Seq([start : Nat, size : Sizes])
           /\ Len(frames') = L + 1
           /\ \A n \in 1 .. L : frames'[n] = frames[n]
           /\ \A n \in 0 .. L : End(n)' = End(n)
           /\ \A n \in 1 .. L : FrameLen(n)' = FrameLen(n)
           /\ frames'[L + 1] = [start |-> End(L), size |-> s]
           /\ FrameLen(L + 1)' = Hdr + s /\ s \in Nat
           /\ End(L + 1)' = End(L) + Hdr + s
           /\ Avail(writePos, readPos) + Hdr + s < Cap
           /\ Written = L /\ Written' = Written
<1> DEFINE f == [start |-> End(L), size |-> s]
<1>1. TypeOK /\ End(L) \in Nat /\ s \in Nat
      /\ frames \in Seq([start : Nat, size : Sizes])
  <2>1. TypeOK /\ \A n \in 0 .. Len(frames) : End(n) \in Nat
    BY LifeFacts DEF TypedInv, Typed
  <2>2. L \in 0 .. Len(frames)
    OBVIOUS
  <2> QED
    BY <2>1, <2>2, RingAssumption DEF TypeOK
<1>2. f \in [start : Nat, size : Sizes]
  BY <1>1
<1>3. /\ wpc = "idle" /\ wpc' = "copy" /\ wdone' = {}
      /\ Room >= Hdr + s
      /\ frames' = Append(frames, f)
  BY DEF WBegin, Offering
<1>4. /\ Len(frames') = L + 1
      /\ frames'[L + 1] = f
      /\ \A n \in 1 .. L : frames'[n] = frames[n]
      /\ frames' \in Seq([start : Nat, size : Sizes])
  BY <1>1, <1>2, <1>3
<1>5. \A n \in 1 .. L : FrameLen(n)' = FrameLen(n) /\ End(n)' = End(n)
  BY <1>4 DEF FrameLen, End
<1>6. \A n \in 0 .. L : End(n)' = End(n)
  BY <1>1, <1>5 DEF End
<1>7. FrameLen(L + 1)' = Hdr + s /\ End(L + 1)' = End(L) + Hdr + s
  <2>1. L + 1 # 0 /\ frames'[L + 1].start = End(L) /\ frames'[L + 1].size = s
    BY <1>4
  <2> QED
    BY <2>1, <1>1, RingAssumption DEF FrameLen, End
<1>8. Avail(writePos, readPos) + Hdr + s < Cap
  <2>1. Avail(writePos, readPos) \in Nat
    BY <1>1, AvailRange DEF TypeOK
  <2> QED
    BY <2>1, <1>1, <1>3, RingAssumption DEF Room
<1>9. Written = L /\ Written' = L
  BY <1>3, <1>4 DEF Written
<1> QED
  BY <1>1, <1>3, <1>4, <1>5, <1>6, <1>7, <1>8, <1>9

\* The writer and the engine never touch the reader's locals.
LEMMA WriterLocals ==
    ASSUME TypedInv, UNCHANGED reader,
           call' = "none" <=> rpc' = "idle",
           Len(frames') \in Nat, Len(frames) <= Len(frames'),
           \A c \in 0 .. Cap - 1 : mem'[c].frame \in 0 .. Len(frames')
    PROVE  Locals'
<1>1. Locals /\ Len(frames) \in Nat
  BY LifeFacts DEF TypedInv, Typed
<1>2. UNCHANGED <<rpc, rpos, rsnap, rneed, rbuf>>
  BY DEF reader
<1>3. \A k \in DOMAIN rbuf' : rbuf'[k].frame \in 0 .. Len(frames')
  BY <1>1, <1>2 DEF Locals
<1> QED
  BY <1>1, <1>2, <1>3 DEF Locals

LEMMA TypesSufficeNext == ASSUME Types', Locals', Lives' PROVE TypedInv'
<1>1. RestartTypeOK'
  BY TypesSuffice, PTL
<1> QED
  BY <1>1 DEF TypedInv

LEMMA WBeginTyped ==
    ASSUME TypedInv, NEW s \in Sizes, WBegin(s), life = "up",
           UNCHANGED <<engine, call, newest>>
    PROVE  TypedInv'
<1>0. PICK L \in Nat : L = Len(frames)
  <2>1. Len(frames) \in Nat
    BY LifeFacts DEF TypedInv, Typed
  <2> QED
    BY <2>1
<1>1. /\ RestartTypeOK /\ TypeOK /\ Lives /\ Locals
  BY DEF TypedInv, RestartTypeOK
<1>2. /\ wpc' = "copy" /\ wdone' = {}
      /\ frames' \in Seq([start : Nat, size : Sizes])
      /\ Len(frames') = L + 1
      /\ \A n \in 1 .. L : frames'[n] = frames[n]
      /\ \A n \in 0 .. L : End(n)' = End(n)
      /\ frames'[L + 1] = [start |-> End(L), size |-> s]
      /\ FrameLen(L + 1)' = Hdr + s /\ s \in Nat
      /\ End(L + 1)' = End(L) + Hdr + s
      /\ Avail(writePos, readPos) + Hdr + s < Cap
      /\ Written' = Written
  BY <1>0, NewFrame
<1>3. /\ UNCHANGED <<mem, writePos, readPos, sequence, rpc, rpos, rsnap, rneed,
                     rbuf, crashes, published, taken, refused, got>>
      /\ UNCHANGED <<life, unset, restarts, birth, call, newest>>
      /\ UNCHANGED reader
  BY DEF WBegin, mapping, reader, engine
<1>4. TypeOK'
  BY SMTT(40), <1>0, <1>1, <1>2, <1>3 DEF TypeOK
<1>9. frames'[L + 1].start = End(L)
  BY <1>2
<1>5. Types'
  BY <1>0, <1>1, <1>2, <1>3, <1>4 DEF Types, RestartTypeOK
<1>6. /\ \A n \in 0 .. L : End(n) \in Nat
      /\ \A m, n \in 0 .. L : m <= n => End(m) <= End(n)
      /\ \A n \in 1 .. L : frames[n].start = End(n - 1)
      /\ published <= Written /\ birth <= Written
      /\ unset # {} => life = "init"
      /\ life = "init" => unset # {}
  BY <1>0, <1>1, LifeFacts DEF TypedInv, Typed, Lives
<1>7. Lives'
  <2>1. \A n \in 1 .. L + 1 : frames'[n].start = End(n - 1)'
    <3> TAKE n \in 1 .. L + 1
    <3>1. CASE n \in 1 .. L
      BY <3>1, <1>2, <1>6
    <3>2. CASE n = L + 1
      BY <3>2, <1>2, <1>9
    <3> QED
      BY <3>1, <3>2
  <2>2. \A m, n \in 0 .. L + 1 : m <= n => End(m)' <= End(n)'
    <3> TAKE m, n \in 0 .. L + 1
    <3> HAVE m <= n
    <3>1. CASE n \in 0 .. L
      BY <3>1, <1>2, <1>6
    <3>2. CASE m \in 0 .. L /\ n = L + 1
      <4>1. End(m) <= End(L) /\ End(m) \in Nat /\ End(L) \in Nat
        BY <3>2, <1>6
      <4> QED
        BY <4>1, <3>2, <1>2, RingAssumption
    <3>3. CASE m = L + 1 /\ n = L + 1
      <4>1. End(L + 1)' \in Nat
        BY <1>2, <1>6, RingAssumption
      <4> QED
        BY <4>1, <3>3
    <3> QED
      BY <3>1, <3>2, <3>3
  <2>3. FrameLen(Len(frames))' < Cap
    <3>1. Avail(writePos, readPos) \in Nat
      BY <1>1, AvailRange DEF TypeOK
    <3>2. Hdr + s < Cap
      BY <3>1, <1>2, RingAssumption
    <3> QED
      BY <3>2, <1>2
  <2> QED
    BY <2>1, <2>2, <2>3, <1>2, <1>3, <1>6 DEF Lives
<1>8. Locals'
  <2>1. call' = "none" <=> rpc' = "idle"
    BY <1>1, <1>3 DEF Locals
  <2>2. \A c \in 0 .. Cap - 1 : mem'[c].frame \in 0 .. Len(frames')
    BY <1>0, <1>1, <1>2, <1>3 DEF Locals
  <2> QED
    BY <2>1, <2>2, <1>0, <1>2, <1>3, WriterLocals
<1> QED
  BY <1>5, <1>7, <1>8, TypesSufficeNext

\* A writer's step under way begins no frame.
LEMMA WriterTyped ==
    ASSUME TypedInv, WriterProgress, UNCHANGED <<engine, call, newest>>
    PROVE  TypedInv'
<1>1. /\ RestartTypeOK /\ TypeOK /\ Lives /\ Locals
      /\ Len(frames) \in Nat /\ Cap \in Nat \ {0}
  BY FrameFacts, RingAssumption DEF TypedInv, RestartTypeOK
<1>2. /\ UNCHANGED <<readPos, reader, frames, taken, refused, got>>
      /\ UNCHANGED <<life, unset, restarts, birth, call, newest>>
      /\ UNCHANGED <<rpc, rpos, rsnap, rneed, rbuf, crashes>>
  BY DEF WriterProgress, WCopy, WPublish, WCount, history, reader, engine
<1>3. ASSUME TypeOK', Lives',
             \A c \in 0 .. Cap - 1 : mem'[c].frame \in 0 .. Len(frames)
      PROVE  TypedInv'
  <2>1. Types'
    BY <1>1, <1>2, <1>3 DEF Types, RestartTypeOK
  <2>2. call' = "none" <=> rpc' = "idle"
    BY <1>1, <1>2 DEF Locals
  <2>3. Locals'
    BY <2>2, <1>1, <1>2, <1>3, WriterLocals
  <2> QED
    BY <2>1, <2>3, <1>3, TypesSufficeNext
<1>4. ASSUME wpc = "copy", NEW k \in 0 .. FrameLen(Len(frames)) - 1, WCopy(k)
      PROVE  TypedInv'
  <2>1. /\ mem' = [mem EXCEPT ![Cell(writePos, k)] = [frame |-> Len(frames), off |-> k]]
        /\ wdone' = wdone \cup {k}
        /\ UNCHANGED <<writePos, sequence, wpc, published>>
    BY <1>4 DEF WCopy, history
  <2>2. k \in Nat
    BY <1>1, <1>4, LifeFacts DEF TypedInv, Typed
  <2>3. [frame |-> Len(frames), off |-> k] \in Byte
    BY <2>2, <1>1 DEF Byte
  <2>4. TypeOK'
    <3>1. mem' \in [0 .. Cap - 1 -> Byte] /\ wdone' \in SUBSET Nat
      BY <2>1, <2>2, <2>3, <1>1 DEF TypeOK
    <3> QED
      BY SMTT(40), <3>1, <2>1, <1>1, <1>2 DEF TypeOK
  <2>5. \A c \in 0 .. Cap - 1 : mem'[c].frame \in 0 .. Len(frames)
    BY <2>1, <1>1 DEF TypeOK, Locals
  <2>6. Lives'
    BY <2>1, <1>1, <1>2, SameLives DEF SameFrames, engine
  <2> QED
    BY <2>4, <2>5, <2>6, <1>3
<1>5. CASE WPublish
  <2>1. /\ wpc = "copy" /\ wpc' = "count" /\ wdone' = {}
        /\ writePos' = Cell(writePos, FrameLen(Len(frames)))
        /\ published' = published + 1
        /\ UNCHANGED <<mem, sequence>>
    BY <1>5, RestartAssumption DEF WPublish
  <2>2. /\ FrameLen(Len(frames)) \in Nat /\ Written = Len(frames) - 1
        /\ Written' = Len(frames) /\ published \in Nat
    <3>1. /\ \A n \in 1 .. Len(frames) : FrameLen(n) \in Nat
          /\ Len(frames) \in 1 .. Len(frames)
      BY <2>1, LifeFacts DEF TypedInv, Typed
    <3>2. Written = Len(frames) - 1 /\ Written' = Len(frames)
      BY <2>1, <1>1, <1>2 DEF Written
    <3>3. published \in Nat
      BY <1>1, FrameFacts
    <3> QED
      BY <3>1, <3>2, <3>3
  <2>3. writePos' \in 0 .. Cap - 1
    BY <2>1, <2>2, <1>1, CellInRing DEF TypeOK
  <2>4. /\ published <= Written /\ birth <= Written
        /\ birth \in Nat
    BY <1>1 DEF Lives, RestartTypeOK
  <2>5. TypeOK'
    <3>1. published' \in 0 .. Len(frames')
      BY <2>1, <2>2, <2>4, <1>1, <1>2
    <3> QED
      BY SMTT(40), <3>1, <2>1, <2>3, <1>1, <1>2 DEF TypeOK
  <2>6. Lives'
    <3>1. \A n : End(n)' = End(n)
      BY <1>2 DEF End, FrameLen
    <3>2. published' <= Written' /\ birth' <= Written'
      BY <2>1, <2>2, <2>4, <1>1, <1>2
    <3> QED
      BY <3>1, <3>2, <2>1, <1>1, <1>2 DEF Lives
  <2>7. \A c \in 0 .. Cap - 1 : mem'[c].frame \in 0 .. Len(frames)
    BY <2>1, <1>1 DEF Locals
  <2> QED
    BY <2>5, <2>6, <2>7, <1>3
<1>6. CASE WCount
  <2>1. /\ wpc = "count" /\ wpc' = "idle" /\ sequence' = sequence + 1
        /\ UNCHANGED <<mem, writePos, wdone, published>>
    BY <1>6 DEF WCount, history
  <2>2. TypeOK'
    BY SMTT(40), <2>1, <1>1, <1>2 DEF TypeOK
  <2>3. Lives'
    <3>1. (\A n : End(n)' = End(n)) /\ Written' = Written
      BY <2>1, <1>2 DEF End, FrameLen, Written
    <3> QED
      BY <3>1, <2>1, <1>1, <1>2 DEF Lives
  <2>4. \A c \in 0 .. Cap - 1 : mem'[c].frame \in 0 .. Len(frames)
    BY <2>1, <1>1 DEF Locals
  <2> QED
    BY <2>2, <2>3, <2>4, <1>3
<1> QED
  BY <1>4, <1>5, <1>6 DEF WriterProgress

\* The death of the engine, its next start, and a frame refused.
LEMMA EngineTyped ==
    ASSUME TypedInv,
           \/ TDie \/ TCreate \/ \E f \in unset : TStore(f)
           \/ \E s \in Sizes : WRefuse(s) /\ UNCHANGED <<engine, call, newest>>
    PROVE  TypedInv'
<1>1. /\ RestartTypeOK /\ TypeOK /\ Lives /\ Locals
      /\ Len(frames) \in Nat /\ Cap \in Nat \ {0}
      /\ 0 \in 0 .. Cap - 1
  BY FrameFacts, RingAssumption DEF TypedInv, RestartTypeOK
<1>2. ASSUME UNCHANGED <<mem, reader, frames, published>>,
             Types', Lives', call' = "none" <=> rpc' = "idle"
      PROVE  TypedInv'
  <2>1. \A c \in 0 .. Cap - 1 : mem'[c].frame \in 0 .. Len(frames')
    BY <1>1, <1>2 DEF Locals
  <2>2. Locals'
    BY <2>1, <1>1, <1>2, WriterLocals
  <2> QED
    BY <2>2, <1>2, TypesSufficeNext
<1>3. CASE TDie \/ TCreate
  <2>1. /\ UNCHANGED <<mapping, writer, reader, history, birth, call, newest>>
        /\ life' \in {"down", "init"}
        /\ unset' \in SUBSET {"write_pos", "read_pos", "sequence"}
        /\ unset' # {} => life' = "init"
        /\ life' = "init" => unset' # {}
        /\ restarts' \in 0 .. MaxRestarts
    <3>1. CASE TDie
      BY <3>1, <1>1, RestartAssumption DEF TDie, vars, Lives, RestartTypeOK
    <3>2. CASE TCreate
      BY <3>2, <1>1 DEF TCreate, vars, RestartTypeOK
    <3> QED
      BY <1>3, <3>1, <3>2
  <2>2. UNCHANGED <<mem, writePos, readPos, sequence, wpc, wdone, rpc, rpos,
                    rsnap, rneed, rbuf, crashes, frames, published, taken,
                    refused, got>>
    BY <2>1 DEF mapping, writer, reader, history
  <2>3. Types'
    <3>1. TypeOK'
      BY SMTT(40), <2>2, <1>1 DEF TypeOK
    <3> QED
      BY <3>1, <2>1, <2>2, <1>1 DEF Types, RestartTypeOK
  <2>4. Lives'
    <3>1. (\A n : End(n)' = End(n) /\ FrameLen(n)' = FrameLen(n)) /\ Written' = Written
      BY <2>2 DEF End, FrameLen, Written
    <3>2. FrameLen(Len(frames))' = FrameLen(Len(frames))
      BY <2>2 DEF FrameLen
    <3> QED
      BY <3>1, <3>2, <2>1, <2>2, <1>1 DEF Lives
  <2>5. call' = "none" <=> rpc' = "idle"
    BY <2>1, <2>2, <1>1 DEF Locals
  <2> QED
    BY <2>1, <2>2, <2>3, <2>4, <2>5, <1>2
<1>4. ASSUME NEW f \in unset, TStore(f) PROVE TypedInv'
  <2>1. /\ UNCHANGED <<mem, reader, history, restarts, newest>>
        /\ wpc' = "idle" /\ wdone' = {}
        /\ unset' = unset \ {f}
        /\ life' = IF unset = {f} THEN "up" ELSE "init"
        /\ birth' = Len(frames)
        /\ call' = IF rpc = "idle" THEN "none" ELSE "stale"
        /\ writePos' \in {0, writePos} /\ readPos' \in {0, readPos}
        /\ sequence' \in {0, sequence}
    BY <1>4 DEF TStore
  <2>2. UNCHANGED <<mem, rpc, rpos, rsnap, rneed, rbuf, crashes, frames, published,
                    taken, refused, got>>
    BY <2>1 DEF reader, history
  <2>3. Types'
    <3>1. TypeOK'
      BY SMTT(40), <2>1, <2>2, <1>1 DEF TypeOK
    <3>2. call' \in {"none", "stale"} /\ life' \in {"up", "init"}
      BY <2>1
    <3>3. birth' \in 0 .. Len(frames')
      BY <2>1, <2>2, <1>1
    <3>4. unset' \in SUBSET {"write_pos", "read_pos", "sequence"}
      BY <2>1, <1>1 DEF RestartTypeOK
    <3> QED
      BY <3>1, <3>2, <3>3, <3>4, <2>1, <2>2, <1>1 DEF Types, RestartTypeOK
  <2>4. Lives'
    <3>1. (\A n : End(n)' = End(n)) /\ Written' = Len(frames) /\ published <= Len(frames)
      BY <2>1, <2>2, <1>1 DEF End, FrameLen, Written, TypeOK
    <3>2. unset' # {} <=> life' = "init"
      BY <2>1, <1>4
    <3> QED
      BY <3>1, <3>2, <2>1, <2>2, <1>1 DEF Lives
  <2>5. call' = "none" <=> rpc' = "idle"
    BY <2>1, <2>2
  <2> QED
    BY <2>1, <2>2, <2>3, <2>4, <2>5, <1>2
<1>5. ASSUME NEW s \in Sizes, WRefuse(s), UNCHANGED <<engine, call, newest>>
      PROVE  TypedInv'
  <2>1. /\ UNCHANGED <<mapping, writer, reader, frames, published, taken, got>>
        /\ refused' = Append(refused, s)
        /\ UNCHANGED <<life, unset, restarts, birth, call, newest>>
    BY <1>5 DEF WRefuse, engine
  <2>2. UNCHANGED <<mem, writePos, readPos, sequence, wpc, wdone, rpc, rpos,
                    rsnap, rneed, rbuf, crashes>>
    BY <2>1 DEF mapping, writer, reader
  <2>3. Types'
    <3>1. TypeOK'
      BY SMTT(40), <2>1, <2>2, <1>1 DEF TypeOK
    <3> QED
      BY <3>1, <2>1, <2>2, <1>1 DEF Types, RestartTypeOK
  <2>4. Lives'
    BY <2>1, <2>2, <1>1, SameLives DEF SameFrames, engine
  <2>5. call' = "none" <=> rpc' = "idle"
    BY <2>1, <2>2, <1>1 DEF Locals
  <2> QED
    BY <2>1, <2>2, <2>3, <2>4, <2>5, <1>2
<1> QED
  BY <1>3, <1>4, <1>5

\* The steps of RestartNext that are not the reader's.
LEMMA OtherSteps ==
    ASSUME [RestartNext]_rvars
    PROVE  \/ PRead
           \/ life = "up" /\ UNCHANGED <<engine, call, newest>>
              /\ \E s \in Sizes : WBegin(s)
           \/ life = "up" /\ WriterProgress /\ UNCHANGED <<engine, call, newest>>
           \/ TDie
           \/ TCreate
           \/ \E f \in unset : TStore(f)
           \/ \E s \in Sizes : WRefuse(s) /\ UNCHANGED <<engine, call, newest>>
           \/ UNCHANGED rvars
BY DEF RestartNext, TWrite, PIdle

LEMMA TypedStep ==
    ASSUME TypedInv, [RestartNext]_rvars
    PROVE  TypedInv'
<1>1. CASE UNCHANGED rvars
  <2>1. UNCHANGED <<mem, writePos, readPos, sequence, wpc, wdone, rpc, rpos,
                    rsnap, rneed, rbuf, crashes, frames, published, taken,
                    refused, got, life, unset, restarts, birth, call, newest>>
    BY <1>1 DEF rvars, vars, engine, mapping, writer, reader, history
  <2>2. Lives'
    BY <2>1, SameLives DEF SameFrames, engine, TypedInv
  <2>3. Locals'
    BY <2>1 DEF TypedInv, Locals
  <2>4. RestartTypeOK'
    BY <2>1 DEF TypedInv, RestartTypeOK, TypeOK
  <2> QED
    BY <2>2, <2>3, <2>4 DEF TypedInv
<1> QED
  BY <1>1, OtherSteps, ReaderTyped, WBeginTyped, WriterTyped, EngineTyped

\* Whatever a call left over from an earlier life stores, both positions stay
\* in the buffer, no frame is longer than the ring, and a reader never holds
\* more bytes than the ring has: property RestartTypeOK of mapMemory, writeFrame
\* and read_frame.
THEOREM RestartTypes == RestartSpec => []RestartTypeOK
<1>1. TypedInv /\ [RestartNext]_rvars => TypedInv'
  BY TypedStep
<1>2. TypedInv => RestartTypeOK
  BY DEF TypedInv
<1> QED
  BY InitTyped, <1>1, <1>2, PTL DEF RestartSpec

-----------------------------------------------------------------------------
(* The writer's side: Placed and Recent *)

\* Moving on from a wrapped count of this life.
LEMMA SpotMoves ==
    ASSUME Base \in Nat, NEW a \in Nat, NEW k \in Nat, Base <= a
    PROVE  /\ Cell(Spot(a), k) = Spot(a + k)
           /\ Spot(a) \in 0 .. Cap - 1
<1> DEFINE b == a - Base
<1>1. b \in Nat /\ (a + k) - Base = b + k
  OBVIOUS
<1> HIDE DEF b
<1>2. ((b % Cap) + k) % Cap = (b + k) % Cap /\ b % Cap \in 0 .. Cap - 1
  BY <1>1, AddMod, DivMod
<1> QED
  BY <1>1, <1>2 DEF Spot, Cell, b

\* Bytes of this life less than a ring apart are in different cells.
LEMMA SpotsDiffer ==
    ASSUME Base \in Nat, NEW a \in Nat, NEW b \in Nat, Base <= a,
           a < b, b < a + Cap
    PROVE  Spot(a) # Spot(b)
<1> DEFINE x == a - Base
           y == b - Base
<1>1. x \in Nat /\ y \in Nat /\ x < y /\ y < x + Cap
  BY RingAssumption
<1> HIDE DEF x, y
<1>2. x % Cap # y % Cap
  BY <1>1, Inj
<1> QED
  BY <1>2 DEF Spot, x, y

\* Where a frame of this life is, as seen from the writer.
LEMMA CopyAt ==
    ASSUME TypedInv, Placed, life = "up", wpc = "copy", NEW k \in Nat
    PROVE  Cell(writePos, k) = Spot(frames[Len(frames)].start + k)
<1>a. /\ Base \in Nat /\ Written \in birth .. Len(frames) /\ birth \in Nat
      /\ Len(frames) \in 1 .. Len(frames) /\ Written = Len(frames) - 1
  BY LifeFacts DEF TypedInv, Typed
<1>b. /\ \A n \in 0 .. Len(frames) : End(n) \in Nat
      /\ \A n \in birth .. Len(frames) : Base <= End(n)
      /\ \A n \in 1 .. Len(frames) : frames[n].start = End(n - 1)
  BY LifeFacts DEF TypedInv, Typed
<1>2. End(Written) \in Nat /\ Base <= End(Written)
  BY <1>a, <1>b
<1>3. frames[Len(frames)].start = End(Written)
  BY <1>a, <1>b
<1>4. writePos = Spot(End(Written))
  BY DEF Placed
<1> QED
  BY <1>a, <1>2, <1>3, <1>4, SpotMoves

LEMMA InitPlaced == RestartInit => Placed /\ Recent
<1> SUFFICES ASSUME RestartInit PROVE Placed /\ Recent
  OBVIOUS
<1>1. /\ frames = <<>> /\ wpc = "idle" /\ writePos = 0 /\ birth = 0
      /\ life = "up" /\ Len(frames) = 0
  BY DEF RestartInit, Init
<1>2. Written = 0 /\ End(0) = 0 /\ Base = 0
  BY <1>1 DEF Written, End, Base
<1>3. 0 % Cap = 0
  BY RingAssumption
<1> QED
  BY <1>1, <1>2, <1>3 DEF Placed, Recent, Spot

LEMMA PlacedStep ==
    ASSUME TypedInv, Placed, [RestartNext]_rvars
    PROVE  Placed'
<1>1. /\ Len(frames) \in Nat /\ Base \in Nat
      /\ Written \in birth .. Len(frames) /\ birth \in Nat
      /\ \A n \in 0 .. Len(frames) : End(n) \in Nat
      /\ \A n \in birth .. Len(frames) : Base <= End(n)
      /\ unset # {} => life = "init"
      /\ life = "init" => unset # {}
  BY LifeFacts DEF TypedInv, Typed, Lives
<1>2. PICK L \in Nat : L = Len(frames)
  BY <1>1
<1>3. CASE PRead
  <2>1. /\ SameFrames /\ UNCHANGED writePos
        /\ ThisLife' /\ life = "init" => ThisLife
    BY <1>3, ReaderIsStill DEF Still
  <2>2. Written' = Written /\ Spot(End(Written))' = Spot(End(Written))
    BY <2>1, SameEnds
  <2> QED
    BY <2>1, <2>2 DEF Placed, SameFrames, engine
<1>4. ASSUME NEW s \in Sizes, WBegin(s), life = "up", UNCHANGED <<engine, call, newest>>
      PROVE  Placed'
  <2>1. /\ Written = L /\ Written' = Written
        /\ \A n \in 0 .. L : End(n)' = End(n)
    BY <1>2, <1>4, NewFrame
  <2>2. UNCHANGED <<writePos, birth, call, life, unset>>
    BY <1>4 DEF WBegin, mapping, engine
  <2>3. Spot(End(Written))' = Spot(End(Written))
    BY <1>1, <1>2, <2>1, <2>2 DEF Spot, Base
  <2> QED
    BY <2>1, <2>2, <2>3 DEF Placed, ThisLife
<1>5. ASSUME life = "up", WriterProgress, UNCHANGED <<engine, call, newest>>
      PROVE  Placed'
  <2>1. /\ \A n : End(n)' = End(n)
        /\ Base' = Base /\ \A n : Spot(n)' = Spot(n)
        /\ life' = "up"
    BY <1>5 DEF WriterProgress, WCopy, WPublish, WCount, history, End, FrameLen,
                engine, Base, Spot
  <2>2. CASE UNCHANGED writePos /\ Written' = Written
    BY <2>1, <2>2, <1>5 DEF Placed
  <2>3. CASE WPublish
    <3>1. /\ wpc = "copy" /\ wpc' = "count" /\ frames' = frames
          /\ writePos' = Cell(writePos, FrameLen(L))
      BY <2>3, <1>2, RestartAssumption DEF WPublish
    <3>2. /\ L \in 1 .. L /\ Written = L - 1 /\ FrameLen(L) \in Nat
          /\ End(L) = End(Written) + FrameLen(L)
      BY <3>1, <1>2, LifeFacts DEF TypedInv, Typed
    <3>3. Written' = L
      BY <3>1, <1>2 DEF Written
    <3>4. End(Written) \in Nat /\ Base <= End(Written) /\ writePos = Spot(End(Written))
      BY <1>1, <1>5 DEF Placed
    <3>5. writePos' = Spot(End(L))
      BY <3>1, <3>2, <3>4, <1>1, SpotMoves
    <3>6. Spot(End(Written))' = Spot(End(L))
      BY <3>3, <2>1
    <3> QED
      BY <3>5, <3>6, <2>1 DEF Placed
  <2> QED
    <3>1. (\E k : WCopy(k)) \/ WCount \/ WPublish
      BY <1>5 DEF WriterProgress
    <3>2. ASSUME NEW k, WCopy(k) PROVE UNCHANGED writePos /\ Written' = Written
      BY <3>2 DEF WCopy, history, Written
    <3>3. WCount => UNCHANGED writePos /\ Written' = Written
      BY DEF WCount, history, Written
    <3> QED
      BY <3>1, <3>2, <3>3, <2>2, <2>3
<1>6. CASE TDie \/ TCreate
  <2>1. /\ UNCHANGED <<writePos, wpc, frames, birth, call>>
        /\ life # "init"
        /\ life' = "init" => "write_pos" \in unset'
    BY <1>6 DEF TDie, TCreate, vars, mapping, writer, history
  <2>2. Spot(End(Written))' = Spot(End(Written))
    BY <2>1 DEF Spot, End, Written, Base, FrameLen
  <2> QED
    BY <2>1, <2>2 DEF Placed, ThisLife
<1>7. ASSUME NEW f \in unset, TStore(f) PROVE Placed'
  <2>1. /\ life' = IF unset = {f} THEN "up" ELSE "init"
        /\ unset' = unset \ {f}
        /\ writePos' = IF f = "write_pos" THEN 0 ELSE writePos
        /\ birth' = L /\ frames' = frames /\ wpc' = "idle"
        /\ call' \in {"none", "stale"}
        /\ life = "init"
    BY <1>1, <1>2, <1>7 DEF TStore, history
  <2>2. Written' = L /\ Base' = End(L)' /\ birth' = Written'
    BY <2>1, <1>2 DEF Written, Base
  <2>3. Spot(End(Written))' = 0
    <3>1. End(L)' \in Nat
      <4>1. End(L)' = End(L)
        BY <2>1 DEF End, FrameLen
      <4> QED
        BY <4>1, <1>1, <1>2
    <3>2. Spot(End(Written))' = (End(L)' - End(L)') % Cap
      BY <2>2 DEF Spot
    <3> QED
      BY <3>1, <3>2, RingAssumption
  <2>4. "write_pos" \notin unset' => writePos' = 0
    BY <2>1 DEF Placed
  <2>5. life' # "init" => "write_pos" \notin unset'
    BY <2>1
  <2>6. ~ThisLife'
    BY <2>1 DEF ThisLife
  <2> QED
    BY <2>2, <2>3, <2>4, <2>5, <2>6 DEF Placed
<1>8. ASSUME NEW s \in Sizes, WRefuse(s), UNCHANGED <<engine, call, newest>>
      PROVE  Placed'
  <2>1. SameFrames /\ UNCHANGED <<writePos, call>>
    BY <1>8 DEF WRefuse, SameFrames, mapping, writer
  <2>2. Spot(End(Written))' = Spot(End(Written)) /\ Written' = Written
    BY <2>1, SameEnds
  <2> QED
    BY <2>1, <2>2 DEF Placed, SameFrames, engine, ThisLife
<1>9. CASE UNCHANGED rvars
  <2>1. SameFrames /\ UNCHANGED <<writePos, call>>
    BY <1>9 DEF rvars, vars, SameFrames, mapping, writer, history
  <2>2. Spot(End(Written))' = Spot(End(Written)) /\ Written' = Written
    BY <2>1, SameEnds
  <2> QED
    BY <2>1, <2>2 DEF Placed, SameFrames, engine, ThisLife
<1> QED
  BY <1>3, <1>4, <1>5, <1>6, <1>7, <1>8, <1>9, OtherSteps

\* The frame being copied, byte by byte, and the others as they were.
LEMMA RecentCopy ==
    ASSUME TypedInv, Placed, Recent, life = "up", wpc = "copy",
           NEW k \in 0 .. FrameLen(Len(frames)) - 1, WCopy(k),
           UNCHANGED <<engine, call, newest>>
    PROVE  Recent'
<1>0. PICK L \in Nat : L = Len(frames)
  BY LifeFacts DEF TypedInv, Typed
<1>1. /\ TypeOK /\ Base \in Nat /\ birth \in Nat /\ Cap \in Nat
      /\ L \in 1 .. L /\ Written = L - 1 /\ birth <= L - 1
      /\ \A n \in 0 .. L : End(n) \in Nat
      /\ \A n \in birth .. L : Base <= End(n)
      /\ \A m, n \in 0 .. L : m <= n => End(m) <= End(n)
      /\ \A n \in 1 .. L : /\ frames[n].start = End(n - 1)
                           /\ FrameLen(n) \in Nat
                           /\ End(n) = End(n - 1) + FrameLen(n)
      /\ FrameLen(L) < Cap
  BY <1>0, LifeFacts, RingAssumption DEF TypedInv, Typed, Lives
<1>2. /\ mem' = [mem EXCEPT ![Cell(writePos, k)] = [frame |-> L, off |-> k]]
      /\ wdone' = wdone \cup {k} /\ UNCHANGED <<wpc, frames, birth>>
      /\ SameFrames
  BY <1>0 DEF WCopy, history, engine, SameFrames
<1>3. k \in Nat /\ k < FrameLen(L)
  BY <1>0, <1>1
<1> DEFINE q == End(L - 1) + k
<1>4. /\ q \in Nat /\ Base <= q /\ End(L - 1) <= q /\ q < End(L)
      /\ End(L - 1) \in Nat /\ frames[L].start = End(L - 1)
      /\ End(L) \in Nat /\ FrameLen(L) \in Nat /\ FrameLen(L) < Cap /\ Cap \in Nat
      /\ Base \in Nat /\ Base <= End(L - 1)
  <2>1. L \in 1 .. L /\ L \in 0 .. L /\ L - 1 \in 0 .. L /\ L - 1 \in birth .. L
    BY <1>1
  <2>2. /\ End(L - 1) \in Nat /\ End(L) \in Nat /\ FrameLen(L) \in Nat
        /\ frames[L].start = End(L - 1) /\ End(L) = End(L - 1) + FrameLen(L)
        /\ Base <= End(L - 1) /\ Base \in Nat /\ FrameLen(L) < Cap /\ Cap \in Nat
    BY <1>1, <2>1
  <2>3. ASSUME NEW b \in Nat, NEW e \in Nat, NEW l \in Nat, b <= e, k \in Nat, k < l
        PROVE  e + k \in Nat /\ b <= e + k /\ e <= e + k /\ e + k < e + l
    BY <2>3
  <2> QED
    BY <1>3, <2>2, <2>3
<1>5. Cell(writePos, k) = Spot(q) /\ Spot(q) \in 0 .. Cap - 1
  BY <1>0, <1>1, <1>3, <1>4, CopyAt, SpotMoves
<1> HIDE DEF q
<1>6. mem'[Spot(q)] = [frame |-> L, off |-> k]
  BY <1>1, <1>2, <1>5 DEF TypeOK
<1>7. ASSUME NEW p \in Nat, Base <= p, p # q, p < q + Cap, q < p + Cap
      PROVE  mem'[Spot(p)] = mem[Spot(p)]
  <2>1. Spot(p) # Spot(q)
    <3>1. CASE p < q
      BY <3>1, <1>1, <1>4, <1>7, SpotsDiffer
    <3>2. CASE q < p
      BY <3>2, <1>1, <1>4, <1>7, SpotsDiffer
    <3> QED
      BY <3>1, <3>2, <1>4, <1>7
  <2>2. Spot(p) \in 0 .. Cap - 1
    <3>1. Spot(p) = Spot(p)
      OBVIOUS
    <3> QED
      BY <1>1, <1>7, SpotMoves
  <2> QED
    BY <2>1, <2>2, <1>1, <1>2, <1>5 DEF TypeOK
<1>8. /\ Written' = L - 1 /\ (\A n : Spot(n)' = Spot(n))
      /\ \A n : End(n)' = End(n) /\ FrameLen(n)' = FrameLen(n)
  BY <1>1, <1>2, SameEnds
<1>9. ASSUME NEW n \in birth + 1 .. L - 1, NEW j \in 0 .. FrameLen(n) - 1,
             End(L) <= frames[n].start + j + Cap
      PROVE  mem'[Spot(frames[n].start + j)] = [frame |-> n, off |-> j]
  <2>1. /\ n \in 1 .. L /\ n - 1 \in birth .. L /\ n - 1 \in 0 .. L /\ n \in 0 .. L
        /\ n <= L - 1 /\ L - 1 \in 0 .. L
    BY <1>1
  <2>2. /\ End(n - 1) \in Nat /\ Base <= End(n - 1) /\ FrameLen(n) \in Nat
        /\ frames[n].start = End(n - 1)
        /\ End(n) = End(n - 1) + FrameLen(n) /\ End(n) <= End(L - 1)
    BY <2>1, <1>1
  <2> DEFINE p == frames[n].start + j
  <2>3. p \in Nat /\ Base <= p /\ p < q /\ q < p + Cap
    <3>1. p = End(n - 1) + j /\ j \in Nat /\ j < FrameLen(n) /\ p \in Nat
      BY <2>2
    <3>2. End(L) <= p + Cap
      BY <1>9
    <3> HIDE DEF p
    <3>3. End(n) <= End(L - 1) /\ End(n) \in Nat
      BY <2>2
    <3>4. p < q
      <4>1. End(n - 1) \in Nat /\ FrameLen(n) \in Nat /\ End(n) = End(n - 1) + FrameLen(n)
        BY <2>2
      <4>2. p < End(n)
        BY <3>1, <4>1
      <4> QED
        BY <4>2, <3>1, <3>3, <1>4
    <3>5. Base <= p
      <4>1. /\ Base \in Nat /\ End(n - 1) \in Nat /\ Base <= End(n - 1)
            /\ p = End(n - 1) + j /\ j \in Nat
        BY <3>1, <2>2, <1>4
      <4>2. ASSUME NEW b \in Nat, NEW e \in Nat, NEW i \in Nat, b <= e PROVE b <= e + i
        BY <4>2
      <4> QED
        BY <4>1, <4>2
    <3>6. q < p + Cap
      <4>1. /\ q \in Nat /\ End(L) \in Nat /\ p + Cap \in Nat
            /\ q < End(L) /\ End(L) <= p + Cap
        BY <3>1, <3>2, <1>4
      <4> QED
        BY <4>1
    <3> QED
      BY <3>1, <3>4, <3>5, <3>6
  <2>4. mem[Spot(p)] = [frame |-> n, off |-> j]
    <3>1. n \in birth + 1 .. Written /\ End(Len(frames)) <= p + Cap
      BY <1>0, <1>1, <1>9
    <3> HIDE DEF p
    <3> QED
      BY <3>1 DEF Recent, p
  <2> HIDE DEF p
  <2>5. mem'[Spot(p)] = mem[Spot(p)]
    BY <2>3, <1>1, <1>4, <1>7
  <2> QED
    BY <2>4, <2>5 DEF p
<1>10. ASSUME NEW j \in wdone'
       PROVE  /\ j < FrameLen(L)
              /\ mem'[Spot(frames[L].start + j)] = [frame |-> L, off |-> j]
  <2>1. CASE j = k
    BY <2>1, <1>3, <1>4, <1>6 DEF q
  <2>2. CASE j # k
    <3>1. j \in wdone /\ j \in Nat
      BY <2>2, <1>1, <1>2, <1>10 DEF TypeOK
    <3>2. j < FrameLen(L) /\ mem[Spot(frames[L].start + j)] = [frame |-> L, off |-> j]
      BY <3>1, <1>0 DEF Recent
    <3> DEFINE p == frames[L].start + j
    <3>3. p \in Nat /\ Base <= p /\ p # q /\ p < q + Cap /\ q < p + Cap
      <4>1. ASSUME NEW e \in Nat, NEW l \in Nat, NEW c \in Nat, NEW b \in Nat,
                   b <= e, l < c, j < l, k < l
            PROVE  /\ e + j \in Nat /\ b <= e + j /\ e + j # e + k
                   /\ e + j < (e + k) + c /\ e + k < (e + j) + c
        BY <3>1, <2>2, <1>3, <4>1
      <4>2. /\ End(L - 1) \in Nat /\ FrameLen(L) \in Nat /\ Cap \in Nat /\ Base \in Nat
            /\ Base <= End(L - 1) /\ FrameLen(L) < Cap /\ p = End(L - 1) + j
        BY <1>4
      <4> HIDE DEF p
      <4> QED
        BY <4>1, <4>2, <3>2, <1>3 DEF q
    <3> HIDE DEF p
    <3>4. mem'[Spot(p)] = mem[Spot(p)]
      BY <3>3, <1>7
    <3> QED
      BY <3>2, <3>4 DEF p
  <2> QED
    BY <2>1, <2>2
<1> QED
  BY <1>0, <1>2, <1>8, <1>9, <1>10 DEF Recent

LEMMA RecentStep ==
    ASSUME TypedInv, Placed, Recent, [RestartNext]_rvars
    PROVE  Recent'
<1>1. /\ TypeOK /\ Len(frames) \in Nat /\ Base \in Nat /\ Cap \in Nat
      /\ Written \in birth .. Len(frames) /\ birth \in Nat
      /\ \A n \in 0 .. Len(frames) : End(n) \in Nat
      /\ \A n \in 1 .. Len(frames) : frames[n].start \in Nat /\ FrameLen(n) \in Nat
  <2>1. Typed
    BY DEF TypedInv, Typed
  <2>2. /\ TypeOK /\ Len(frames) \in Nat /\ Base \in Nat
        /\ Written \in 0 .. Len(frames) /\ birth \in 0 .. Written
        /\ \A n \in 0 .. Len(frames) : End(n) \in Nat
    BY <2>1, LifeFacts
  <2>3. \A n \in 1 .. Len(frames) : frames[n].start \in Nat /\ FrameLen(n) \in Nat
    BY <2>1, LifeFacts
  <2>4. Written \in birth .. Len(frames) /\ birth \in Nat
    BY <2>2
  <2>5. Cap \in Nat
    BY RingAssumption
  <2> QED
    BY <2>2, <2>3, <2>4, <2>5
<1>2. PICK L \in Nat : L = Len(frames)
  BY <1>1
<1>3. ASSUME Still PROVE Recent'
  <2>1. /\ Written' = Written /\ (\A n : Spot(n)' = Spot(n))
        /\ \A n : End(n)' = End(n) /\ FrameLen(n)' = FrameLen(n)
    BY <1>3, SameEnds DEF Still
  <2>2. UNCHANGED <<mem, wpc, wdone, frames, birth>>
    BY <1>3 DEF Still, SameFrames, engine
  <2> QED
    BY <2>1, <2>2 DEF Recent
<1>4. ASSUME NEW s \in Sizes, WBegin(s), UNCHANGED <<engine, call, newest>>
      PROVE  Recent'
  <2>1. /\ Written = L /\ Written' = Written /\ wdone' = {} /\ Len(frames') = L + 1
        /\ \A n \in 0 .. L : End(n)' = End(n)
        /\ \A n \in 1 .. L : FrameLen(n)' = FrameLen(n) /\ frames'[n] = frames[n]
        /\ End(L + 1)' = End(L) + Hdr + s /\ s \in Nat
    BY <1>2, <1>4, NewFrame
  <2>2. UNCHANGED <<mem, birth>>
    BY <1>4 DEF WBegin, mapping, engine
  <2>3. \A n : Spot(n)' = Spot(n)
    BY <1>1, <1>2, <2>1, <2>2 DEF Spot, Base
  <2>4. End(L) <= End(Len(frames))' /\ End(Len(frames))' \in Nat /\ End(L) \in Nat
    <3>1. End(Len(frames))' = End(L + 1)'
      BY <2>1
    <3>2. End(L) \in Nat
      BY <1>1, <1>2
    <3> QED
      BY <3>1, <3>2, <2>1, RingAssumption
  <2>5. ASSUME NEW n \in birth + 1 .. L, NEW k \in 0 .. FrameLen(n) - 1,
               End(Len(frames))' <= frames[n].start + k + Cap
        PROVE  mem[Spot(frames[n].start + k)] = [frame |-> n, off |-> k]
    <3>1. n \in 1 .. L /\ frames[n].start \in Nat /\ k \in Nat
      BY <1>1, <1>2
    <3>2. End(L) <= frames[n].start + k + Cap
      BY <3>1, <2>4, <2>5, <1>1
    <3> QED
      BY <3>2, <1>2, <2>1 DEF Recent
  <2>6. \A n \in birth + 1 .. L : n \in 1 .. L
    BY <1>1
  <2> QED
    BY <2>1, <2>2, <2>3, <2>5, <2>6 DEF Recent
<1>5. ASSUME life = "up", WriterProgress, UNCHANGED <<engine, call, newest>>
      PROVE  Recent'
  <2>1. CASE wpc = "copy" /\ \E k \in 0 .. FrameLen(Len(frames)) - 1 : WCopy(k)
    BY <2>1, <1>5, RecentCopy
  <2>2. CASE WPublish \/ WCount
    <3>1. /\ UNCHANGED <<mem, frames, birth>> /\ wpc' # "copy"
      BY <2>2, <1>5, RestartAssumption DEF WPublish, WCount, history, engine
    <3>2. /\ (\A n : Spot(n)' = Spot(n))
          /\ \A n : End(n)' = End(n) /\ FrameLen(n)' = FrameLen(n)
      BY <3>1 DEF Spot, End, FrameLen, Base
    <3>3. CASE WPublish
      <4>1. /\ wpc = "copy" /\ wdone = 0 .. FrameLen(L) - 1 /\ Written = L - 1
            /\ Written' = L
        BY <3>1, <3>3, <1>2 DEF WPublish, Written
      <4>2. /\ L \in 1 .. L
            /\ \A k \in 0 .. FrameLen(L) - 1 :
                  mem[Spot(frames[L].start + k)] = [frame |-> L, off |-> k]
        BY <4>1, <1>2, LifeFacts DEF Recent, TypedInv, Typed
      <4>3. ASSUME NEW n \in birth + 1 .. L, NEW k \in 0 .. FrameLen(n) - 1,
                   End(L) <= frames[n].start + k + Cap
            PROVE  mem[Spot(frames[n].start + k)] = [frame |-> n, off |-> k]
        <5>1. CASE n = L
          BY <5>1, <4>2
        <5>2. CASE n # L
          <6>1. n \in birth + 1 .. L - 1
            BY <5>2, <1>1, <1>2
          <6> QED
            BY <6>1, <4>1, <4>3, <1>2 DEF Recent
        <5> QED
          BY <5>1, <5>2
      <4> QED
        BY <3>1, <3>2, <4>1, <4>3, <1>2 DEF Recent
    <3>4. CASE WCount
      <4>1. Written' = Written
        BY <3>1, <3>4 DEF WCount, Written
      <4> QED
        BY <4>1, <3>1, <3>2 DEF Recent
    <3> QED
      BY <2>2, <3>3, <3>4
  <2> QED
    BY <2>1, <2>2, <1>5 DEF WriterProgress
<1>6. CASE TDie \/ TCreate
  <2>1. UNCHANGED <<mem, wpc, wdone, frames, birth>>
    BY <1>6 DEF TDie, TCreate, vars, mapping, writer, history
  <2>2. /\ Written' = Written /\ (\A n : Spot(n)' = Spot(n))
        /\ \A n : End(n)' = End(n) /\ FrameLen(n)' = FrameLen(n)
    BY <2>1 DEF Written, Spot, End, FrameLen, Base
  <2> QED
    BY <2>1, <2>2 DEF Recent
<1>7. ASSUME NEW f \in unset, TStore(f) PROVE Recent'
  <2>1. wpc' = "idle" /\ birth' = L /\ frames' = frames
    BY <1>2, <1>7 DEF TStore, history
  <2>2. Written' = L
    BY <2>1, <1>2 DEF Written
  <2>3. birth' + 1 .. Written' = {}
    BY <2>1, <2>2
  <2> QED
    BY <2>1, <2>3 DEF Recent
<1>8. ASSUME NEW s \in Sizes, WRefuse(s), UNCHANGED <<engine, call, newest>>
      PROVE  Recent'
  BY <1>8, <1>3 DEF WRefuse, Still, SameFrames, mapping, writer
<1>9. CASE UNCHANGED rvars
  BY <1>9, <1>3 DEF rvars, vars, Still, SameFrames, mapping, writer, history
<1>10. CASE PRead
  BY <1>10, <1>3, ReaderIsStill
<1> QED
  BY <1>4, <1>5, <1>6, <1>7, <1>8, <1>9, <1>10, OtherSteps

-----------------------------------------------------------------------------
(* The reader's side: Fresh *)

\* The positions, and the writer's room for the frame it copies.
LEMMA PosFacts ==
    ASSUME TypedInv
    PROVE  /\ writePos \in 0 .. Cap - 1 /\ readPos \in 0 .. Cap - 1
           /\ rpos \in 0 .. Cap - 1 /\ rsnap \in 0 .. Cap - 1 /\ rneed \in Nat
           /\ Cap \in Nat \ {0} /\ Hdr \in Nat \ {0} /\ Reader = "py"
           /\ Avail(writePos, readPos) \in 0 .. Cap - 1
           /\ Avail(writePos, rsnap) \in 0 .. Cap - 1
           /\ wpc = "copy" =>
                 /\ FrameLen(Len(frames)) \in Nat \ {0}
                 /\ ~Overrun => Avail(writePos, readPos) + FrameLen(Len(frames)) < Cap
<1>1. TypeOK /\ Cap \in Nat \ {0} /\ Hdr \in Nat \ {0} /\ Reader = "py"
  BY RingAssumption, RestartAssumption DEF TypedInv, RestartTypeOK
<1>2. /\ writePos \in 0 .. Cap - 1 /\ readPos \in 0 .. Cap - 1
      /\ rpos \in 0 .. Cap - 1 /\ rsnap \in 0 .. Cap - 1 /\ rneed \in Nat
  BY <1>1 DEF TypeOK
<1>3. /\ Avail(writePos, readPos) \in 0 .. Cap - 1
      /\ Avail(writePos, rsnap) \in 0 .. Cap - 1
  BY <1>2, AvailRange
<1>4. wpc = "copy" =>
         /\ FrameLen(Len(frames)) \in Nat \ {0}
         /\ ~Overrun => Avail(writePos, readPos) + FrameLen(Len(frames)) < Cap
  <2> HAVE wpc = "copy"
  <2>1. FrameLen(Len(frames)) \in Nat \ {0}
    BY LifeFacts DEF TypedInv, Typed
  <2> QED
    BY <2>1, <1>1, <1>3 DEF Overrun, Room
<1> QED
  BY <1>1, <1>2, <1>3, <1>4

\* Steps that move nothing the reader's call depends on.
LEMMA FreshSame ==
    ASSUME Fresh, UNCHANGED <<writePos, readPos, rpc, rpos, rsnap, rneed, birth, call>>,
           Written' = Written, Overrun' => Overrun,
           \A n \in birth .. Written : Spot(End(n))' = Spot(End(n)) /\ End(n)' = End(n),
           Written \in birth .. Written
    PROVE  Fresh'
<1>1. Avail(writePos, readPos)' = Avail(writePos, readPos)
      /\ Avail(writePos, rsnap)' = Avail(writePos, rsnap)
  BY DEF Avail
<1>2. ThisLife' = ThisLife
  BY DEF ThisLife
<1>3. End(Written)' = End(Written)
  OBVIOUS
<1> QED
  BY <1>1, <1>2, <1>3 DEF Fresh

LEMMA FreshReader ==
    ASSUME PlacedInv, Fresh, PRead
    PROVE  Fresh'
<1>0. TypedInv /\ Placed
  BY DEF PlacedInv
<1>1. /\ Written \in birth .. Written /\ End(Written) \in Nat
      /\ wpc = "copy" => FrameLen(Len(frames)) \in Nat
  BY <1>0, LifeFacts DEF TypedInv, Typed
<1>2. /\ Still /\ Written' = Written
      /\ \A n : End(n)' = End(n) /\ FrameLen(n)' = FrameLen(n)
      /\ \A n : Spot(n)' = Spot(n)
      /\ UNCHANGED <<wpc, frames, writePos, birth>>
  BY ReaderIsStill, SameEnds DEF Still, SameFrames, engine
<1>3. readPos' = readPos => (Overrun' <=> Overrun)
  BY <1>2 DEF Overrun, Room, Avail
<1>4. /\ rpc' = "idle" => ~ThisLife'
      /\ rpc' # "idle" /\ rpc # "idle" /\ ThisLife' => ThisLife
      /\ rpc' # "idle" /\ rpc = "idle" /\ ThisLife' => life # "init" /\ ~Overrun
  BY CallOf DEF ThisLife
<1>5. readPos' = readPos /\ rsnap' = rsnap =>
        /\ Avail(writePos, readPos)' = Avail(writePos, readPos)
        /\ Avail(writePos, rsnap)' = Avail(writePos, rsnap)
  BY <1>2 DEF Avail
<1> SUFFICES ASSUME ThisLife', rpc' # "idle" PROVE Fresh'
  BY <1>4 DEF Fresh
<1>6. CASE RCheck
  <2>1. /\ rpc = "idle" /\ rpc' = "load" /\ UNCHANGED <<readPos, rsnap>>
        /\ Avail(writePos, readPos) >= Hdr
    BY <1>6 DEF RCheck, mapping
  <2> QED
    BY <2>1, <1>3, <1>4, <1>5 DEF Fresh
<1>7. CASE RLoad
  <2>1. /\ rpc = "load" /\ rpc' = "header" /\ rpos' = readPos /\ rsnap' = writePos
        /\ UNCHANGED readPos
    BY <1>7, <1>0, PosFacts DEF RLoad, mapping
  <2>2. ThisLife /\ ~Overrun /\ Avail(writePos, readPos) >= Hdr
    BY <2>1, <1>4 DEF Fresh
  <2>3. writePos = Spot(End(Written))
    BY <2>2, <1>0 DEF Placed
  <2>4. Avail(writePos, writePos) = 0 /\ Avail(writePos, readPos) \in Nat
    BY <1>0, PosFacts, AvailRange
  <2>5. /\ Avail(writePos, readPos)' = Avail(writePos, readPos)
        /\ Avail(writePos, rsnap)' = Avail(writePos, writePos)
        /\ (rsnap = Spot(End(Written)))'
        /\ End(Written)' = End(Written)
    BY <2>1, <2>3, <1>2 DEF Avail
  <2>6. \E j \in birth .. Written :
            /\ (rsnap = Spot(End(j)))'
            /\ Avail(writePos, rsnap)' = End(Written)' - End(j)'
            /\ Avail(writePos, rsnap)' <= Avail(writePos, readPos)'
    <3>1. Avail(writePos, rsnap)' = End(Written)' - End(Written)'
      BY <2>4, <2>5, <1>1
    <3>2. Avail(writePos, rsnap)' <= Avail(writePos, readPos)'
      BY <2>4, <2>5
    <3>3. (rsnap = Spot(End(Written)))' <=> rsnap' = Spot(End(Written))
      BY <1>2
    <3>4. /\ rsnap' = Spot(End(Written))
          /\ Avail(writePos, rsnap)' = End(Written)' - End(Written)
      BY <3>1, <3>3, <2>5, <1>2
    <3> QED
      BY <3>2, <3>4, <1>1, <1>2
  <2> QED
    BY <2>1, <2>2, <2>5, <2>6, <1>2, <1>3 DEF Fresh
<1>8. CASE (\E k : RHeader(k)) \/ \E k : RPayload(k)
  <2>1. UNCHANGED <<rpc, readPos, rpos, rsnap, rneed>> /\ rpc # "idle"
    BY <1>8 DEF RHeader, RPayload, mapping
  <2>2. ThisLife
    BY <2>1, <1>4
  <2> QED
    BY <2>1, <2>2, <1>2, <1>3, <1>5 DEF Fresh
<1>9. CASE \E s : RDesync(s)
  <2>1. rpc = "header" /\ rpc' = "flush" /\ UNCHANGED <<readPos, rsnap>>
    BY <1>9, <1>0, PosFacts DEF RDesync, HeaderRead, mapping
  <2>2. ThisLife
    BY <2>1, <1>4
  <2> QED
    BY <2>1, <2>2, <1>2, <1>3, <1>5 DEF Fresh
<1>10. CASE \E s : RAccept(s)
  <2>1. PICK s : RAccept(s)
    BY <1>10
  <2>2. /\ rpc = "header" /\ rpc' = "payload" /\ UNCHANGED <<readPos, rsnap, rpos>>
        /\ rneed' = s /\ Avail(writePos, readPos) >= Hdr + s
    BY <2>1, <1>0, PosFacts DEF RAccept, HeaderRead, Needed, mapping
  <2>3. ThisLife
    BY <2>2, <1>4
  <2> QED
    BY <2>2, <2>3, <1>2, <1>3, <1>5 DEF Fresh
<1>11. CASE rpc = "payload" /\ RCommit
  <2>1. rpc' = "deliver" /\ readPos' = Cell(rpos, Hdr + rneed)
    BY <1>11 DEF RCommit
  <2>2. /\ ThisLife /\ ~Overrun /\ rpos = readPos
        /\ Hdr + rneed <= Avail(writePos, readPos)
    <3>1. ThisLife
      BY <2>1, <1>4, <1>11
    <3> QED
      BY <3>1, <1>0, <1>11, PosFacts DEF Fresh
  <2>3. Avail(writePos, readPos)' = Avail(writePos, readPos) - (Hdr + rneed)
    <3>1. /\ writePos \in 0 .. Cap - 1 /\ readPos \in 0 .. Cap - 1 /\ Hdr + rneed \in Nat
      BY <1>0, PosFacts
    <3>2. Avail(writePos, Cell(readPos, Hdr + rneed)) = Avail(writePos, readPos) - (Hdr + rneed)
      BY <3>1, <2>2, Closer
    <3> QED
      BY <3>2, <2>1, <2>2, <1>2 DEF Avail
  <2>4. ~Overrun'
    <3>1. Room <= Room'
      BY <2>3, <1>0, PosFacts DEF Room
    <3>2. Room \in Int /\ Room' \in Int
      BY <2>3, <1>0, PosFacts DEF Room
    <3>3. FrameLen(Len(frames))' = FrameLen(Len(frames))
      BY <1>2 DEF FrameLen
    <3> QED
      BY <3>1, <3>2, <3>3, <2>2, <1>1, <1>2 DEF Overrun
  <2> QED
    BY <2>1, <2>4 DEF Fresh
<1>12. (\E s : RPartial(s)) \/ RFlush \/ RDeliver => FALSE
  BY DEF RPartial, RFlush, RDeliver, Return
<1> QED
  BY <1>6, <1>7, <1>8, <1>9, <1>10, <1>11, <1>12 DEF PRead, ReaderProgress, RCommit

\* Steps that leave the positions and the frames of this life alone, and those
\* that leave the reader's call alone as well.
RingQuiet ==
    /\ UNCHANGED <<writePos, readPos, birth>>
    /\ Written' = Written
    /\ \A n \in 0 .. Written : End(n)' = End(n)
    /\ \A n \in 1 .. Written : frames'[n] = frames[n] /\ FrameLen(n)' = FrameLen(n)
    /\ Overrun' <=> Overrun

Quiet ==
    /\ RingQuiet
    /\ UNCHANGED <<rpc, rpos, rsnap, rneed, rbuf, call, newest>>
    /\ life = "init" => life' = "init"

LEMMA Kinds ==
    ASSUME TypedInv, [RestartNext]_rvars
    PROVE  \/ PRead
           \/ Quiet
           \/ life = "up" /\ WPublish /\ UNCHANGED <<engine, call, newest>>
           \/ \E f \in unset : TStore(f)
<1>1. /\ Len(frames) \in Nat /\ Written \in 0 .. Len(frames)
  BY LifeFacts DEF TypedInv, Typed
<1>2. PICK L \in Nat : L = Len(frames)
  BY <1>1
<1>3. ASSUME UNCHANGED <<writePos, readPos, rpc, rpos, rsnap, rneed, rbuf, frames,
                         birth, call, newest>>,
             wpc' = wpc \/ (wpc = "count" /\ wpc' = "idle"),
             life = "init" => life' = "init"
      PROVE  Quiet
  <2>1. Written' = Written /\ \A n : End(n)' = End(n) /\ FrameLen(n)' = FrameLen(n)
    BY <1>3 DEF Written, End, FrameLen
  <2>2. Overrun' <=> Overrun
    BY <1>3 DEF Overrun, Room, Avail, FrameLen
  <2> QED
    BY <2>1, <2>2, <1>3 DEF Quiet, RingQuiet
<1>4. ASSUME NEW s \in Sizes, WBegin(s), UNCHANGED <<engine, call, newest>>
      PROVE  Quiet
  <2>1. /\ wpc = "idle" /\ Written = L /\ Written' = Written /\ Len(frames') = L + 1
        /\ \A n \in 0 .. L : End(n)' = End(n)
        /\ \A n \in 1 .. L : frames'[n] = frames[n] /\ FrameLen(n)' = FrameLen(n)
        /\ FrameLen(L + 1)' = Hdr + s /\ s \in Nat
        /\ Avail(writePos, readPos) + Hdr + s < Cap
    BY <1>2, <1>4, NewFrame
  <2>2. /\ UNCHANGED <<writePos, readPos, rpc, rpos, rsnap, rneed, rbuf, birth, call, newest>>
        /\ life' = life
    BY <1>4 DEF WBegin, mapping, reader, engine
  <2>3. ~Overrun'
    <3>1. FrameLen(Len(frames))' = Hdr + s
      BY <2>1
    <3>2. Avail(writePos, readPos)' = Avail(writePos, readPos)
      BY <2>2
    <3>3. Room' >= Hdr + s /\ Room' \in Int /\ Hdr + s \in Int
      <4>1. Avail(writePos, readPos) \in Nat /\ Cap \in Nat /\ Hdr \in Nat
        BY PosFacts
      <4>2. Room' = Cap - Avail(writePos, readPos)' - 1
        BY DEF Room
      <4> QED
        BY <2>1, <3>2, <4>1, <4>2
    <3> QED
      BY <3>1, <3>3 DEF Overrun
  <2>4. ~Overrun
    BY <2>1 DEF Overrun
  <2> QED
    BY <2>1, <2>2, <2>3, <2>4 DEF Quiet, RingQuiet
<1>5. CASE (\E k : WCopy(k)) /\ UNCHANGED <<engine, call, newest>>
  BY <1>5, <1>3 DEF WCopy, reader, history, engine
<1>6. CASE WCount /\ UNCHANGED <<engine, call, newest>>
  BY <1>6, <1>3 DEF WCount, reader, history, engine
<1>7. CASE TDie \/ TCreate
  BY <1>7, <1>3 DEF TDie, TCreate, vars, mapping, writer, reader, history
<1>8. ASSUME NEW s \in Sizes, WRefuse(s), UNCHANGED <<engine, call, newest>>
      PROVE  Quiet
  BY <1>8, <1>3 DEF WRefuse, mapping, writer, reader, engine
<1>9. CASE UNCHANGED rvars
  BY <1>9, <1>3 DEF rvars, vars, mapping, writer, reader, history, engine
<1> QED
  BY <1>4, <1>5, <1>6, <1>7, <1>8, <1>9, OtherSteps DEF WriterProgress

LEMMA FreshStep ==
    ASSUME PlacedInv, Fresh, [RestartNext]_rvars
    PROVE  Fresh'
<1>0. TypedInv /\ Placed
  BY DEF PlacedInv
<1>1. /\ TypeOK /\ Len(frames) \in Nat /\ Base \in Nat /\ birth \in Nat
      /\ Written \in birth .. Len(frames)
      /\ Written \in birth .. Written
      /\ \A n \in 0 .. Len(frames) : End(n) \in Nat
  BY <1>0, LifeFacts DEF TypedInv, Typed
<1>2. PICK L \in Nat : L = Len(frames)
  BY <1>1
<1>3. CASE Quiet
  <2>1. /\ UNCHANGED <<writePos, readPos, rpc, rpos, rsnap, rneed, birth, call>>
        /\ Written' = Written /\ (Overrun' => Overrun)
        /\ \A n \in birth .. Written : End(n)' = End(n)
    BY <1>1, <1>3 DEF Quiet, RingQuiet
  <2>2. \A n \in birth .. Written : Spot(End(n))' = Spot(End(n))
    <3>1. Base' = Base
      BY <2>1, <1>1 DEF Base
    <3> QED
      BY <2>1, <3>1 DEF Spot
  <2> QED
    BY <2>1, <2>2, <1>1, FreshSame
<1>4. ASSUME WPublish, UNCHANGED <<engine, call, newest>> PROVE Fresh'
  <2>1. /\ wpc = "copy" /\ wpc' = "count" /\ writePos' = Cell(writePos, FrameLen(L))
        /\ UNCHANGED <<readPos, rpc, rpos, rsnap, rneed, frames, birth, call>>
    BY <1>2, <1>4, RestartAssumption DEF WPublish, reader, engine
  <2>2. /\ L \in 1 .. L /\ Written = L - 1 /\ End(L) = End(Written) + FrameLen(L)
        /\ FrameLen(L) \in Nat
    BY <2>1, <1>0, <1>2, LifeFacts DEF TypedInv, Typed
  <2>3. /\ Written' = L /\ ~Overrun' /\ ThisLife' = ThisLife
        /\ \A n : Spot(End(n))' = Spot(End(n)) /\ End(n)' = End(n)
    BY <2>1, <1>2 DEF Written, Overrun, ThisLife, Spot, Base, End, FrameLen
  <2> SUFFICES ASSUME ThisLife PROVE Fresh'
    BY <2>3 DEF Fresh
  <2>4. Avail(writePos, readPos) + FrameLen(L) < Cap
    BY <2>1, <1>0, <1>2, PosFacts DEF Fresh
  <2>5. /\ writePos \in 0 .. Cap - 1 /\ readPos \in 0 .. Cap - 1 /\ rsnap \in 0 .. Cap - 1
        /\ Avail(writePos, readPos) \in Nat /\ Avail(writePos, rsnap) \in Nat
        /\ Hdr \in Nat /\ rneed \in Nat /\ Cap \in Nat
    BY <1>0, PosFacts
  <2>6. Avail(writePos, readPos)' = Avail(writePos, readPos) + FrameLen(L)
    <3>1. Avail(Cell(writePos, FrameLen(L)), readPos) = Avail(writePos, readPos) + FrameLen(L)
      BY <2>2, <2>4, <2>5, Forward
    <3> QED
      BY <3>1, <2>1
  <2>7. ASSUME rpc \in {"header", "flush", "payload"}
        PROVE  \E j \in birth .. L :
                   /\ (rsnap = Spot(End(j)))'
                   /\ Avail(writePos, rsnap)' = End(L) - End(j)
                   /\ Avail(writePos, rsnap)' <= Avail(writePos, readPos)'
    <3>1. PICK j \in birth .. Written :
               /\ rsnap = Spot(End(j))
               /\ Avail(writePos, rsnap) = End(Written) - End(j)
               /\ Avail(writePos, rsnap) <= Avail(writePos, readPos)
      BY <2>7 DEF Fresh
    <3>2. Avail(writePos, rsnap)' = Avail(writePos, rsnap) + FrameLen(L)
      <4>1. Avail(writePos, rsnap) + FrameLen(L) < Cap
        BY <3>1, <2>2, <2>4, <2>5
      <4>2. Avail(Cell(writePos, FrameLen(L)), rsnap) = Avail(writePos, rsnap) + FrameLen(L)
        BY <4>1, <2>2, <2>5, Forward
      <4> QED
        BY <4>2, <2>1
    <3>3. j \in birth .. L /\ End(j) \in Nat /\ End(Written) \in Nat
      BY <1>1, <1>2, <2>2
    <3>4. (rsnap = Spot(End(j)))'
      BY <3>1, <2>1, <2>3
    <3>5. Avail(writePos, rsnap)' = End(L) - End(j)
      BY <3>1, <3>2, <3>3, <2>2
    <3>6. Avail(writePos, rsnap)' <= Avail(writePos, readPos)'
      BY <3>1, <3>2, <2>2, <2>5, <2>6
    <3> QED
      BY <3>3, <3>4, <3>5, <3>6
  <2>8. rpc' \in {"load", "header", "payload"} => Avail(writePos, readPos)' >= Hdr
    BY <2>1, <2>2, <2>5, <2>6 DEF Fresh
  <2>9. rpc' = "payload" => Avail(writePos, readPos)' >= Hdr + rneed
    BY <2>1, <2>2, <2>5, <2>6 DEF Fresh
  <2>10. rpc' \in {"header", "payload"} => rpos' = readPos'
    BY <2>1 DEF Fresh
  <2>11. rpc' \in {"header", "flush", "payload"} =>
            \E j \in birth' .. Written' :
                   /\ (rsnap = Spot(End(j)))'
                   /\ Avail(writePos, rsnap)' = End(Written)' - End(j)'
                   /\ Avail(writePos, rsnap)' <= Avail(writePos, readPos)'
    BY <2>1, <2>3, <2>7
  <2> QED
    BY <2>1, <2>3, <2>8, <2>9, <2>10, <2>11 DEF Fresh
<1>5. ASSUME NEW f \in unset, TStore(f) PROVE Fresh'
  <2>1. ~ThisLife'
    BY <1>5 DEF TStore, ThisLife
  <2> QED
    BY <2>1 DEF Fresh
<1>6. CASE PRead
  BY <1>6, FreshReader
<1> QED
  BY <1>0, <1>3, <1>4, <1>5, <1>6, Kinds

\* The bytes the writer may store and those a call of this life may load are
\* apart: the room is beyond what is available.
LEMMA FreshNoRace == ASSUME TypedInv, Fresh PROVE NoRaceInOneLife
<1> SUFFICES ASSUME ThisLife PROVE WriterBytes \cap ReaderBytes = {}
  BY DEF NoRaceInOneLife, ThisLife
<1>1. /\ Hdr \in Nat /\ Hdr + rneed \in Nat
      /\ writePos \in 0 .. Cap - 1 /\ readPos \in 0 .. Cap - 1
      /\ Avail(writePos, readPos) \in Nat /\ Cap \in Nat
  BY PosFacts
<1>2. ASSUME wpc = "copy", rpos = readPos,
             NEW n \in Nat, n <= Avail(writePos, readPos),
             NEW i \in 0 .. FrameLen(Len(frames)) - 1, NEW j \in 0 .. n - 1
      PROVE  Cell(writePos, i) # Cell(rpos, j)
  <2>1. /\ Avail(writePos, readPos) + FrameLen(Len(frames)) < Cap
        /\ FrameLen(Len(frames)) \in Nat
    BY <1>2, PosFacts DEF Fresh
  <2>2. i \in Nat /\ j \in Nat /\ Avail(writePos, readPos) + i < Cap
        /\ j < Avail(writePos, readPos)
    BY <2>1, <1>1, <1>2
  <2> QED
    BY <2>2, <1>1, <1>2, Apart
<1>3. CASE wpc = "copy" /\ rpc = "header"
  <2>1. rpos = readPos /\ Hdr <= Avail(writePos, readPos)
    BY <1>1, <1>3 DEF Fresh
  <2>2. \A i \in 0 .. FrameLen(Len(frames)) - 1, j \in 0 .. Hdr - 1 :
           Cell(writePos, i) # Cell(rpos, j)
    BY <2>1, <1>1, <1>2, <1>3
  <2>3. /\ WriterBytes = {Cell(writePos, k) : k \in 0 .. FrameLen(Len(frames)) - 1}
        /\ ReaderBytes = {Cell(rpos, k) : k \in 0 .. Hdr - 1}
    BY <1>3 DEF WriterBytes, ReaderBytes
  <2> QED
    BY <2>2, <2>3
<1>4. CASE wpc = "copy" /\ rpc = "payload"
  <2>0. PICK n \in Nat : n = Hdr + rneed
    BY <1>1
  <2>1. rpos = readPos /\ n <= Avail(writePos, readPos)
    BY <2>0, <1>1, <1>4 DEF Fresh
  <2>2. \A i \in 0 .. FrameLen(Len(frames)) - 1, j \in 0 .. n - 1 :
           Cell(writePos, i) # Cell(rpos, j)
    BY <2>1, <1>1, <1>2, <1>4
  <2>3. /\ WriterBytes = {Cell(writePos, k) : k \in 0 .. FrameLen(Len(frames)) - 1}
        /\ ReaderBytes = {Cell(rpos, k) : k \in 0 .. n - 1}
    <3>1. 0 .. n - 1 = 0 .. Hdr + rneed - 1
      BY <2>0, PosFacts
    <3>2. ReaderBytes = {Cell(rpos, k) : k \in 0 .. Hdr + rneed - 1}
      BY <1>4 DEF ReaderBytes
    <3> QED
      BY <3>1, <3>2, <1>4 DEF WriterBytes
  <2> QED
    BY <2>2, <2>3
<1>5. CASE wpc # "copy" \/ rpc \notin {"header", "payload"}
  BY <1>5 DEF WriterBytes, ReaderBytes
<1> QED
  BY <1>3, <1>4, <1>5

LEMMA FreshAlways == RestartSpec => [](PlacedInv /\ Fresh)
<1>1. RestartInit => PlacedInv /\ Fresh
  <2>1. RestartInit => Fresh
    BY DEF RestartInit, Fresh, ThisLife
  <2> QED
    BY <2>1, InitTyped, InitPlaced DEF PlacedInv
<1>2. PlacedInv /\ Fresh /\ [RestartNext]_rvars => (PlacedInv /\ Fresh)'
  BY TypedStep, PlacedStep, RecentStep, FreshStep DEF PlacedInv
<1> QED
  BY <1>1, <1>2, PTL DEF RestartSpec

\* After any number of restarts, a call of read_frame that began in the
\* present life, on a frame or between two, never loads a byte that writeFrame
\* may be storing: property NoRaceInOneLife.
THEOREM OneLifeNoRace == RestartSpec => []NoRaceInOneLife
<1>1. PlacedInv /\ Fresh => NoRaceInOneLife
  BY FreshNoRace DEF PlacedInv
<1> QED
  BY FreshAlways, <1>1, PTL

-----------------------------------------------------------------------------
(* On a frame, or between two *)

LEMMA AlignedIs == Aligned <=> AlignedFrom(birth)
BY DEF Aligned, AlignedFrom, At, Spot

LEMMA AlignedWeaker ==
    ASSUME TypedInv, NEW k \in Nat, birth <= k, AlignedFrom(k)
    PROVE  Aligned
<1>1. birth \in Nat /\ Written \in Nat
  BY LifeFacts DEF TypedInv, Typed
<1>2. k .. Written \subseteq birth .. Written
  BY <1>1
<1> QED
  BY <1>2, AlignedIs DEF AlignedFrom

\* What no step but a store of a position changes.
LEMMA QuietAt ==
    ASSUME TypedInv, RingQuiet
    PROVE  /\ \A m \in birth .. Written : At(m)' <=> At(m)
           /\ \A k \in Nat : birth <= k => (AlignedFrom(k)' <=> AlignedFrom(k))
           /\ Aligned' <=> Aligned
<1>1. birth \in Nat /\ Written \in birth .. Len(frames) /\ Len(frames) \in Nat
  BY LifeFacts DEF TypedInv, Typed
<1>2. /\ UNCHANGED <<writePos, readPos, birth>>
      /\ Written' = Written /\ (Overrun' <=> Overrun)
      /\ \A n \in birth .. Written : End(n)' = End(n)
  BY <1>1 DEF RingQuiet
<1>3. Base' = Base /\ End(Written)' = End(Written)
  BY <1>1, <1>2 DEF Base
<1>4. \A m \in birth .. Written : At(m)' <=> At(m)
  BY <1>2, <1>3 DEF At, Spot, Avail
<1>5. ASSUME NEW k \in Nat, birth <= k
      PROVE  AlignedFrom(k)' <=> AlignedFrom(k)
  <2>1. \A m \in k .. Written : m \in birth .. Written
    BY <1>1, <1>5
  <2> QED
    BY <2>1, <1>2, <1>4 DEF AlignedFrom
<1>6. AlignedFrom(birth)' <=> AlignedFrom(birth)
  BY <1>1, <1>2, <1>4 DEF AlignedFrom
<1>7. Aligned' <=> Aligned
  BY <1>6, AlignedIs, PTL
<1> QED
  BY <1>4, <1>5, <1>7

\* A frame published where there was room for it leaves the reader where it
\* was, and is itself not yet behind the reader.
LEMMA PublishAt ==
    ASSUME TypedInv, WPublish, UNCHANGED <<engine, call, newest>>, ~Overrun,
           NEW L \in Nat, L = Len(frames)
    PROVE  /\ Written = L - 1 /\ Written' = L /\ ~Overrun' /\ birth' = birth
           /\ \A n : End(n)' = End(n) /\ FrameLen(n)' = FrameLen(n)
           /\ frames' = frames
           /\ \A m \in birth .. L - 1 : At(m)' <=> At(m)
           /\ ~At(L)'
           /\ Avail(writePos, readPos)' >= Avail(writePos, readPos)
           /\ UNCHANGED <<readPos, rpc, rpos, rsnap, rneed, rbuf>>
<1>1. /\ wpc = "copy" /\ wpc' = "count" /\ writePos' = Cell(writePos, FrameLen(L))
      /\ UNCHANGED <<readPos, rpc, rpos, rsnap, rneed, rbuf, frames, birth>>
  BY RestartAssumption DEF WPublish, reader, engine
<1>2. /\ L \in 1 .. L /\ Written = L - 1 /\ End(L) = End(Written) + FrameLen(L)
      /\ FrameLen(L) \in Nat \ {0} /\ birth \in Nat
      /\ \A n \in 0 .. L : End(n) \in Nat
  BY <1>1, LifeFacts DEF TypedInv, Typed
<1>3. /\ Written' = L /\ ~Overrun'
      /\ \A n : End(n)' = End(n) /\ FrameLen(n)' = FrameLen(n)
      /\ \A n : Spot(n)' = Spot(n)
  BY <1>1 DEF Written, Overrun, Spot, Base, End, FrameLen
<1>4. /\ writePos \in 0 .. Cap - 1 /\ readPos \in 0 .. Cap - 1
      /\ Avail(writePos, readPos) \in Nat
      /\ Avail(writePos, readPos) + FrameLen(L) < Cap
  BY <1>1, PosFacts
<1>5. Avail(writePos, readPos)' = Avail(writePos, readPos) + FrameLen(L)
  <2>1. Avail(Cell(writePos, FrameLen(L)), readPos) = Avail(writePos, readPos) + FrameLen(L)
    BY <1>2, <1>4, Forward
  <2> QED
    BY <2>1, <1>1
<1>6. \A m : At(m)' <=> /\ readPos = Spot(End(m))
                        /\ Avail(writePos, readPos) + FrameLen(L) = End(L) - End(m)
  BY <1>1, <1>3, <1>5 DEF At
<1>7. ASSUME NEW m \in birth .. L - 1 PROVE At(m)' <=> At(m)
  <2>1. End(m) \in Nat /\ End(Written) \in Nat
    BY <1>2
  <2>2. Avail(writePos, readPos) + FrameLen(L) = End(L) - End(m)
           <=> Avail(writePos, readPos) = End(Written) - End(m)
    <3>1. ASSUME NEW a \in Nat, NEW l \in Nat, NEW e \in Nat, NEW d \in Nat
          PROVE  a + l = (d + l) - e <=> a = d - e
      OBVIOUS
    <3>2. FrameLen(L) \in Nat /\ Avail(writePos, readPos) \in Nat
      BY <1>2, <1>4
    <3>3. End(L) = End(Written) + FrameLen(L)
      BY <1>2
    <3> QED
      BY <2>1, <3>1, <3>2, <3>3
  <2> QED
    BY <2>2, <1>6 DEF At
<1>8. ~At(L)'
  <2>1. End(L) - End(L) = 0
    BY <1>2
  <2> QED
    BY <2>1, <1>2, <1>4, <1>6
<1> QED
  BY <1>1, <1>2, <1>3, <1>4, <1>5, <1>7, <1>8

\* The reader's steps that store no read_pos.
LEMMA ReaderQuiet ==
    ASSUME PRead, readPos' = readPos
    PROVE  RingQuiet
<1>1. /\ SameFrames /\ UNCHANGED <<wpc, frames, writePos, birth>>
  BY ReaderIsStill DEF Still, SameFrames, engine
<1>2. /\ Written' = Written
      /\ \A n : End(n)' = End(n) /\ FrameLen(n)' = FrameLen(n)
  BY <1>1, SameEnds
<1>3. Overrun' <=> Overrun
  BY <1>1 DEF Overrun, Room, Avail, FrameLen
<1> QED
  BY <1>1, <1>2, <1>3 DEF RingQuiet

LEMMA ReaderStores ==
    ASSUME TypedInv, PRead
    PROVE  \/ readPos' = readPos
           \/ /\ rpc = "payload" /\ rpc' = "deliver" /\ RCommit
              /\ readPos' = Cell(rpos, Hdr + rneed)
              /\ rbuf' = rbuf
           \/ rpc = "flush" /\ rpc' = "idle" /\ readPos' = rsnap
<1>1. RCommit => /\ rpc = "payload" /\ rpc' = "deliver"
                 /\ readPos' = Cell(rpos, Hdr + rneed) /\ rbuf' = rbuf
  BY DEF RCommit
<1>2. RFlush => rpc = "flush" /\ rpc' = "idle" /\ readPos' = rsnap
  BY DEF RFlush, Return
<1>3. \/ RCheck \/ RLoad \/ (\E k : RHeader(k))
      \/ (\E s : RDesync(s) \/ RPartial(s) \/ RAccept(s))
      \/ (\E k : RPayload(k)) \/ RDeliver
      => readPos' = readPos
  BY DEF RCheck, RLoad, RHeader, RDesync, RPartial, RAccept, RPayload, RDeliver,
         mapping
<1> QED
  BY <1>1, <1>2, <1>3 DEF PRead, ReaderProgress

\* Counts and lengths of the frame after the m-th.
LEMMA NextFrame ==
    ASSUME TypedInv, ~Overrun, NEW m \in birth .. Written, At(m),
           Avail(writePos, readPos) # 0
    PROVE  /\ m \in Nat /\ m < Written /\ m + 1 \in birth + 1 .. Written
           /\ m + 1 \in 1 .. Len(frames)
           /\ End(m) \in Nat /\ Base <= End(m) /\ Base \in Nat
           /\ frames[m + 1].size \in Nat
           /\ FrameLen(m + 1) = Hdr + frames[m + 1].size
           /\ FrameLen(m + 1) \in Nat
           /\ frames[m + 1].start = End(m)
           /\ End(m + 1) = End(m) + FrameLen(m + 1)
           /\ FrameLen(m + 1) <= Avail(writePos, readPos)
           /\ Avail(writePos, readPos) = End(Written) - End(m)
           /\ End(Written) \in Nat
           /\ End(Len(frames)) < End(m) + Cap
<1>a. /\ Len(frames) \in Nat /\ birth \in Nat /\ Written \in birth .. Len(frames)
      /\ Base \in Nat
  BY LifeFacts DEF TypedInv, Typed
<1>b. /\ \A n \in 0 .. Len(frames) : End(n) \in Nat
      /\ \A n \in birth .. Len(frames) : Base <= End(n)
      /\ \A a, n \in 0 .. Len(frames) : a <= n => End(a) <= End(n)
      /\ \A n \in 1 .. Len(frames) :
            /\ frames[n].size \in Nat /\ FrameLen(n) = Hdr + frames[n].size
            /\ FrameLen(n) \in Nat
            /\ frames[n].start = End(n - 1)
            /\ End(n) = End(n - 1) + FrameLen(n)
  BY LifeFacts DEF TypedInv, Typed
<1>2. /\ m \in Nat /\ m \in 0 .. Len(frames) /\ m \in birth .. Len(frames)
      /\ Written \in 0 .. Len(frames)
  BY <1>a
<1>3. /\ End(m) \in Nat /\ End(Written) \in Nat /\ Base <= End(m)
      /\ Avail(writePos, readPos) = End(Written) - End(m)
  BY <1>a, <1>b, <1>2 DEF At
<1>4. m < Written
  <2>1. m # Written
    BY <1>3
  <2> QED
    BY <2>1, <1>a, <1>2
<1>5. m + 1 \in birth + 1 .. Written /\ m + 1 \in 1 .. Len(frames) /\ (m + 1) - 1 = m
      /\ m + 1 \in 0 .. Len(frames) /\ m + 1 <= Written
  BY <1>a, <1>2, <1>4
<1>6. /\ frames[m + 1].size \in Nat
      /\ FrameLen(m + 1) = Hdr + frames[m + 1].size
      /\ FrameLen(m + 1) \in Nat
      /\ frames[m + 1].start = End(m)
      /\ End(m + 1) = End(m) + FrameLen(m + 1)
      /\ End(m + 1) <= End(Written)
  BY <1>a, <1>b, <1>2, <1>5
<1>7. FrameLen(m + 1) <= Avail(writePos, readPos)
  BY <1>3, <1>6
<1>8. End(Len(frames)) < End(m) + Cap
  <2>1. Avail(writePos, readPos) < Cap /\ Cap \in Nat
    BY PosFacts
  <2>2. CASE wpc = "copy"
    <3>1. /\ Avail(writePos, readPos) + FrameLen(Len(frames)) < Cap
          /\ End(Len(frames)) = End(Written) + FrameLen(Len(frames))
          /\ FrameLen(Len(frames)) \in Nat
      BY <2>2, PosFacts, LifeFacts DEF TypedInv, Typed
    <3> QED
      BY <3>1, <2>1, <1>3
  <2>3. CASE wpc # "copy"
    <3>1. Written = Len(frames)
      BY <2>3, LifeFacts DEF TypedInv, Typed
    <3> QED
      BY <3>1, <2>1, <1>3
  <2> QED
    BY <2>2, <2>3
<1> QED
  BY <1>a, <1>2, <1>3, <1>4, <1>5, <1>6, <1>7, <1>8

\* A call of this life that has read a whole frame stores the position after it.
LEMMA CommitAt ==
    ASSUME TypedInv, ~Overrun, NEW m \in birth .. Written, At(m),
           PRead, RCommit, Avail(writePos, readPos) # 0,
           rpos = readPos, rneed = frames[m + 1].size
    PROVE  /\ At(m + 1)' /\ ~Overrun'
<1>1. /\ m + 1 \in 1 .. Len(frames)
      /\ End(m) \in Nat /\ Base <= End(m) /\ Base \in Nat
      /\ FrameLen(m + 1) = Hdr + rneed /\ FrameLen(m + 1) \in Nat
      /\ End(m + 1) = End(m) + FrameLen(m + 1)
      /\ FrameLen(m + 1) <= Avail(writePos, readPos)
      /\ Avail(writePos, readPos) = End(Written) - End(m)
      /\ End(Written) \in Nat
  BY NextFrame
<1>2. /\ readPos' = Cell(readPos, FrameLen(m + 1)) /\ readPos = Spot(End(m))
  BY <1>1 DEF RCommit, At
<1>3. readPos' = Spot(End(m + 1))
  BY <1>1, <1>2, SpotMoves
<1>4. /\ writePos \in 0 .. Cap - 1 /\ readPos \in 0 .. Cap - 1
      /\ Avail(writePos, readPos) \in Nat /\ Cap \in Nat
  BY PosFacts
<1>5. /\ Written' = Written /\ UNCHANGED <<writePos, wpc, frames>>
      /\ \A n : End(n)' = End(n) /\ FrameLen(n)' = FrameLen(n)
      /\ \A n : Spot(n)' = Spot(n)
  BY ReaderIsStill, SameEnds DEF Still, SameFrames
<1>6. Avail(writePos, readPos)' = Avail(writePos, readPos) - FrameLen(m + 1)
  <2>1. Avail(writePos, Cell(readPos, FrameLen(m + 1)))
            = Avail(writePos, readPos) - FrameLen(m + 1)
    BY <1>1, <1>4, Closer
  <2> QED
    BY <2>1, <1>2, <1>5
<1>7. At(m + 1)'
  <2>1. Avail(writePos, readPos)' = End(Written) - End(m + 1)
    BY <1>1, <1>4, <1>6
  <2> QED
    BY <2>1, <1>3, <1>5 DEF At
<1>8. ~Overrun'
  <2>1. CASE wpc = "copy"
    <3>1. /\ Avail(writePos, readPos) + FrameLen(Len(frames)) < Cap
          /\ FrameLen(Len(frames)) \in Nat
      BY <2>1, PosFacts
    <3>2. Avail(writePos, readPos)' <= Avail(writePos, readPos)
          /\ Avail(writePos, readPos)' \in Int
      BY <1>1, <1>4, <1>6
    <3>3. Room' >= FrameLen(Len(frames))
      BY <3>1, <3>2, <1>4 DEF Room
    <3>4. FrameLen(Len(frames))' = FrameLen(Len(frames)) /\ Room' \in Int
      BY <3>2, <1>4, <1>5 DEF Room, FrameLen
    <3> QED
      BY <3>1, <3>3, <3>4 DEF Overrun
  <2>2. CASE wpc # "copy"
    BY <2>2, <1>5 DEF Overrun
  <2> QED
    BY <2>1, <2>2
<1> QED
  BY <1>7, <1>8

\* The byte a call on a frame loads next is a byte of that frame.
LEMMA FetchOnFrame ==
    ASSUME PlacedInv, ~Overrun, NEW m \in birth .. Written, At(m),
           Avail(writePos, readPos) # 0, rpos = readPos,
           NEW k \in 0 .. FrameLen(m + 1) - 1, FetchByte(k),
           \A i \in DOMAIN rbuf : rbuf[i] = [frame |-> m + 1, off |-> i]
    PROVE  \A i \in DOMAIN rbuf' : rbuf'[i] = [frame |-> m + 1, off |-> i]
<1>0. TypedInv /\ Recent
  BY DEF PlacedInv
<1>1. /\ m + 1 \in birth + 1 .. Written /\ End(m) \in Nat /\ Base <= End(m) /\ Base \in Nat
      /\ FrameLen(m + 1) \in Nat /\ frames[m + 1].start = End(m)
      /\ End(Len(frames)) < End(m) + Cap /\ Len(frames) \in Nat
      /\ End(Len(frames)) \in Nat /\ Cap \in Nat
  <2>1. Len(frames) \in Nat /\ \A n \in 0 .. Len(frames) : End(n) \in Nat
    BY <1>0, LifeFacts DEF TypedInv, Typed
  <2>2. Cap \in Nat
    BY RingAssumption
  <2> QED
    BY <2>1, <2>2, <1>0, NextFrame
<1>2. k \in Nat /\ k < FrameLen(m + 1)
  BY <1>1
<1>3. Cell(rpos, k) = Spot(End(m) + k)
  BY <1>1, <1>2, SpotMoves DEF At
<1>4. mem[Spot(End(m) + k)] = [frame |-> m + 1, off |-> k]
  <2>1. End(Len(frames)) <= frames[m + 1].start + k + Cap
    BY <1>1, <1>2
  <2>2. mem[Spot(frames[m + 1].start + k)] = [frame |-> m + 1, off |-> k]
    BY <2>1, <1>0, <1>1 DEF Recent
  <2> QED
    BY <2>2, <1>1
<1>5. /\ DOMAIN rbuf' = DOMAIN rbuf \cup {k}
      /\ rbuf'[k] = mem[Cell(rpos, k)]
      /\ \A i \in DOMAIN rbuf : rbuf'[i] = rbuf[i]
  BY <1>0, <1>2, FetchTyped
<1>6. rbuf'[k] = [frame |-> m + 1, off |-> k]
  BY <1>3, <1>4, <1>5
<1> QED
  BY <1>5, <1>6

\* It reads a header that is one, and claims what it should.
LEMMA CleanHeader ==
    ASSUME PlacedInv, ~Overrun, NEW m \in birth .. Written, At(m),
           Avail(writePos, readPos) # 0, HeaderRead,
           \A i \in DOMAIN rbuf : rbuf[i] = [frame |-> m + 1, off |-> i],
           NEW s \in ClaimedSizes
    PROVE  MagicOk /\ s = frames[m + 1].size /\ s <= MaxPayload
<1>0. TypedInv
  BY DEF PlacedInv
<1>1. /\ m + 1 \in 1 .. Len(frames) /\ frames[m + 1].size \in Nat
      /\ FrameLen(m + 1) = Hdr + frames[m + 1].size
      /\ FrameLen(m + 1) <= Avail(writePos, readPos)
  BY <1>0, NextFrame
<1>2. 0 \in DOMAIN rbuf /\ Hdr - 1 \in DOMAIN rbuf
  BY RingAssumption DEF HeaderRead
<1>3. MagicOk
  BY <1>1, <1>2 DEF MagicOk
<1>4. rbuf[Hdr - 1].frame = m + 1 /\ rbuf[Hdr - 1].off = Hdr - 1 /\ m + 1 # 0
  BY <1>1, <1>2
<1>5. s = frames[m + 1].size
  BY <1>4 DEF ClaimedSizes
<1>6. s <= MaxPayload
  BY <1>0, <1>1, <1>5, PosFacts, RingAssumption
<1> QED
  BY <1>3, <1>5, <1>6

\* It delivers that frame.
LEMMA DecodeWhole ==
    ASSUME NEW n \in 1 .. Len(frames), FrameLen(n) \in Nat \ {0},
           DOMAIN rbuf = 0 .. FrameLen(n) - 1,
           \A k \in DOMAIN rbuf : rbuf[k] = [frame |-> n, off |-> k]
    PROVE  Decode(rbuf) = n
<1>1. 0 \in DOMAIN rbuf
  OBVIOUS
<1>2. rbuf[0].frame = n
  BY <1>1
<1> QED
  BY <1>2 DEF Decode

LEMMA HoldingDecodes ==
    ASSUME TypedInv, NEW m \in birth .. Written, Holding(m), rpc = "deliver"
    PROVE  Decode(rbuf) = m
<1>1. /\ Len(frames) \in Nat /\ birth \in Nat /\ Written \in birth .. Len(frames)
      /\ \A n \in 1 .. Len(frames) : FrameLen(n) \in Nat \ {0}
  BY LifeFacts DEF TypedInv, Typed
<1>2. m \in 1 .. Len(frames)
  BY <1>1 DEF Holding
<1> QED
  BY <1>1, <1>2, DecodeWhole DEF Holding

LEMMA AstrayStep ==
    ASSUME TypedInv, Fresh, StillAstray, [RestartNext]_rvars
    PROVE  StillAstray'
<1> SUFFICES ASSUME call' = "astray", rpc' # "deliver" PROVE ~Aligned'
  BY DEF StillAstray
<1>1. CASE PRead
  <2>1. rpc' # "idle"
    BY <1>1, CallOf
  <2>2. readPos' = readPos
    BY <2>1, <1>1, ReaderStores
  <2>3. Aligned' <=> Aligned
    BY <2>2, <1>1, ReaderQuiet, QuietAt
  <2>4. CASE rpc = "idle"
    <3>1. Began = "astray"
      BY <2>1, <2>4, <1>1, CallOf
    <3> QED
      BY <3>1, <2>3, <1>1, CallOf
  <2>5. CASE rpc # "idle"
    <3>1. call = "astray"
      BY <2>1, <2>5, <1>1, CallOf
    <3>2. rpc # "deliver"
      <4>1. rpc = "deliver" => RDeliver
        BY <1>1 DEF PRead, ReaderProgress, RCheck, RLoad, RHeader, HeaderRead,
                    RPayload, RCommit, RFlush
      <4> QED
        BY <4>1, <2>1 DEF RDeliver, Return
    <3> QED
      BY <3>1, <3>2, <2>3 DEF StillAstray
  <2> QED
    BY <2>4, <2>5
<1>2. CASE Quiet
  BY <1>2, QuietAt DEF Quiet, StillAstray
<1>3. CASE WPublish /\ UNCHANGED <<engine, call, newest>>
  <2>0. PICK L \in Nat : L = Len(frames)
    BY LifeFacts DEF TypedInv, Typed
  <2>1. ThisLife /\ call = "astray"
    BY <1>3 DEF ThisLife
  <2>2. /\ Written = L - 1 /\ Written' = L /\ birth' = birth
        /\ \A m \in birth .. L - 1 : At(m)' <=> At(m)
        /\ ~At(L)' /\ rpc' = rpc
    BY <2>0, <2>1, <1>3, PublishAt DEF Fresh
  <2>3. ~Aligned /\ ~Overrun
    BY <2>1, <2>2 DEF StillAstray, Fresh
  <2>4. \A m \in birth .. Written : ~At(m)
    BY <2>3, AlignedIs DEF AlignedFrom
  <2>5. birth \in Nat
    BY LifeFacts DEF TypedInv, Typed
  <2>6. \A m \in birth' .. Written' : ~At(m)'
    <3> TAKE m \in birth' .. Written'
    <3>1. m \in birth .. L - 1 \/ m = L
      BY <2>0, <2>2, <2>5
    <3> QED
      BY <3>1, <2>2, <2>4
  <2>7. ~AlignedFrom(birth)'
    BY <2>6 DEF AlignedFrom
  <2> QED
    BY <2>7, AlignedIs, PTL
<1>4. CASE \E f \in unset : TStore(f)
  BY <1>4 DEF TStore
<1> QED
  BY <1>1, <1>2, <1>3, <1>4, Kinds

\* Where a call that begins on a frame begins: after the newest one delivered.
LEMMA BeginsOnFrame ==
    ASSUME RestartInv, PRead, RCheck, call' = "clean"
    PROVE  \E m \in birth .. Written : newest <= m /\ At(m) /\ m < Written
<1>1. TypedInv /\ rpc = "idle" /\ rpc' = "load" /\ Onward
  BY DEF RestartInv, PlacedInv, RCheck
<1>2. Began = "clean"
  BY <1>1, CallOf
<1>3. Aligned /\ ~Overrun /\ life # "init"
  BY <1>2, CallOf DEF Aligned
<1>4. /\ birth \in Nat /\ Written \in Nat /\ newest \in Nat
  <2>1. birth \in Nat /\ Written \in Nat
    BY <1>1, LifeFacts DEF TypedInv, Typed
  <2> QED
    BY <2>1, <1>1 DEF TypedInv, RestartTypeOK
<1>5. \E m \in birth .. Written : newest <= m /\ At(m)
  <2>1. CASE newest <= birth
    <3>1. PICK m \in birth .. Written : At(m)
      BY <1>3, AlignedIs DEF AlignedFrom
    <3>2. newest <= m
      BY <3>1, <2>1, <1>4
    <3> QED
      BY <3>1, <3>2
  <2>2. CASE ~(newest <= birth)
    <3>1. PICK m \in newest .. Written : At(m)
      BY <2>2, <1>1, <1>3 DEF Onward, AlignedFrom
    <3>2. m \in birth .. Written /\ newest <= m
      BY <3>1, <2>2, <1>4
    <3> QED
      BY <3>1, <3>2
  <2> QED
    BY <2>1, <2>2
<1>6. Avail(writePos, readPos) # 0
  BY <1>1, PosFacts DEF RCheck
<1> QED
  BY <1>1, <1>3, <1>5, <1>6, NextFrame

\* A clean call inside read_frame: what it is sure of.
LEMMA CleanFacts ==
    ASSUME RestartInv, call = "clean"
    PROVE  /\ TypedInv /\ PlacedInv /\ ~Overrun /\ rpc # "flush"
           /\ birth \in Nat /\ Written \in Nat /\ newest \in Nat
           /\ rpc \in {"load", "header", "payload"} => Avail(writePos, readPos) # 0
           /\ rpc \in {"header", "payload"} => rpos = readPos
<1>1. /\ TypedInv /\ PlacedInv /\ Fresh /\ ThisLife /\ rpc # "flush"
  BY DEF RestartInv, PlacedInv, ThisLife, OnFrame
<1>2. birth \in Nat /\ Written \in Nat
  BY <1>1, LifeFacts DEF TypedInv, Typed
<1>3. newest \in Nat
  BY <1>1 DEF TypedInv, RestartTypeOK
<1>4. rpc \in {"load", "header", "payload"} => Avail(writePos, readPos) # 0
  BY <1>1, PosFacts DEF Fresh
<1> QED
  BY <1>1, <1>2, <1>3, <1>4 DEF Fresh

LEMMA OnFrameReader ==
    ASSUME RestartInv, PRead, call' = "clean"
    PROVE  rpc' # "flush" /\ \E m \in birth .. Written : Holding(m)'
<1>0. TypedInv /\ Locals
  BY DEF RestartInv, PlacedInv, TypedInv
<1>1. rpc' # "idle"
  BY CallOf
<1>2. /\ Written' = Written /\ birth' = birth /\ frames' = frames
      /\ \A n : FrameLen(n)' = FrameLen(n)
  BY ReaderIsStill, SameEnds DEF Still, SameFrames, engine
<1>3. readPos' = readPos => \A m \in birth .. Written : At(m)' <=> At(m)
  BY <1>0, ReaderQuiet, QuietAt
<1>4. rpc # "deliver" => newest' = newest
  BY DEF PRead
<1>5. CASE RCheck
  <2>1. PICK m \in birth .. Written : newest <= m /\ At(m) /\ m < Written
    BY <1>5, BeginsOnFrame
  <2>2. rpc = "idle" /\ rpc' = "load" /\ readPos' = readPos /\ rbuf' = rbuf
        /\ DOMAIN rbuf = {}
    BY <1>5, <1>0 DEF RCheck, mapping, Locals
  <2>3. Holding(m)'
    BY <2>1, <2>2, <1>2, <1>3, <1>4 DEF Holding
  <2> QED
    BY <2>2, <2>3
<1>6. ASSUME rpc # "idle", call = "clean",
             NEW m \in birth .. Written, Holding(m)
      PROVE  rpc' # "flush" /\ \E i \in birth .. Written : Holding(i)'
  <2>1. /\ TypedInv /\ PlacedInv /\ ~Overrun /\ rpc # "flush" /\ At(m) /\ newest <= m
        /\ rpc \in {"load", "header", "payload"} => Avail(writePos, readPos) # 0
        /\ rpc \in {"header", "payload"} => rpos = readPos
        /\ birth \in Nat /\ Written \in Nat /\ newest \in Nat
    BY <1>6, CleanFacts DEF Holding
  <2>2. CASE RLoad
    <3>1. /\ rpc = "load" /\ rpc' = "header" /\ UNCHANGED <<readPos, rneed, rbuf>>
      BY <2>2 DEF RLoad, mapping
    <3>2. Holding(m)'
      BY <3>1, <1>2, <1>3, <1>4, <1>6 DEF Holding
    <3> QED
      BY <3>1, <3>2
  <2>3. ASSUME NEW k \in Nat, rpc \in {"header", "payload"}, k < FrameLen(m + 1),
               FetchByte(k), UNCHANGED <<rpc, readPos, rneed>>
        PROVE  Holding(m)'
    <3>1. k \in 0 .. FrameLen(m + 1) - 1
      BY <2>1, <2>3, NextFrame
    <3>2. \A i \in DOMAIN rbuf : rbuf[i] = [frame |-> m + 1, off |-> i]
      BY <2>3, <1>6 DEF Holding
    <3>3. \A i \in DOMAIN rbuf' : rbuf'[i] = [frame |-> m + 1, off |-> i]
      BY <3>1, <3>2, <2>1, <2>3, FetchOnFrame
    <3> QED
      BY <3>3, <2>3, <1>2, <1>3, <1>4, <1>6 DEF Holding
  <2>4. ASSUME NEW k \in 0 .. Hdr - 1, RHeader(k) PROVE Holding(m)' /\ rpc' # "flush"
    <3>1. /\ rpc = "header" /\ FetchByte(k) /\ UNCHANGED <<rpc, readPos, rneed>>
      BY <2>4 DEF RHeader, mapping
    <3>2. k \in Nat /\ k < FrameLen(m + 1)
      <4>1. /\ FrameLen(m + 1) = Hdr + frames[m + 1].size /\ frames[m + 1].size \in Nat
        BY <3>1, <2>1, NextFrame
      <4> QED
        BY <4>1, <2>4, RingAssumption
    <3> QED
      BY <3>1, <3>2, <2>3
  <2>5. ASSUME NEW k \in Hdr .. Hdr + rneed - 1, RPayload(k)
        PROVE  Holding(m)' /\ rpc' # "flush"
    <3>1. /\ rpc = "payload" /\ FetchByte(k) /\ UNCHANGED <<rpc, readPos, rneed>>
      BY <2>5 DEF RPayload, mapping
    <3>2. k \in Nat /\ k < FrameLen(m + 1)
      <4>1. /\ FrameLen(m + 1) = Hdr + frames[m + 1].size /\ frames[m + 1].size \in Nat
            /\ rneed = frames[m + 1].size
        BY <3>1, <2>1, <1>6, NextFrame DEF Holding
      <4> QED
        BY <4>1, <2>5, RingAssumption
    <3> QED
      BY <3>1, <3>2, <2>3
  <2>6. ASSUME HeaderRead, NEW s \in ClaimedSizes
        PROVE  /\ rpc = "header" /\ MagicOk /\ s = frames[m + 1].size /\ s <= MaxPayload
    <3>1. rpc = "header"
      BY <2>6 DEF HeaderRead
    <3>2. \A i \in DOMAIN rbuf : rbuf[i] = [frame |-> m + 1, off |-> i]
      BY <3>1, <1>6 DEF Holding
    <3> QED
      BY <3>1, <3>2, <2>1, <2>6, CleanHeader
  <2>7. ASSUME HeaderRead, NEW s \in ClaimedSizes, RDesync(s) PROVE FALSE
    <3>1. frames[m + 1].size \in Nat /\ MaxPayload \in Nat
      BY <2>1, <2>6, <2>7, NextFrame, RingAssumption
    <3> QED
      BY <3>1, <2>6, <2>7 DEF RDesync
  <2>8. ASSUME HeaderRead, NEW s \in ClaimedSizes, RAccept(s)
        PROVE  Holding(m)' /\ rpc' # "flush"
    <3>1. /\ rpc = "header" /\ rpc' = "payload" /\ rneed' = s
          /\ UNCHANGED <<readPos, rbuf>> /\ s = frames[m + 1].size
      BY <2>6, <2>8 DEF RAccept, mapping
    <3> QED
      BY <3>1, <1>2, <1>3, <1>4, <1>6 DEF Holding
  <2>9. CASE rpc = "payload" /\ RCommit
    <3>1. /\ rpc' = "deliver" /\ rbuf' = rbuf /\ DOMAIN rbuf = 0 .. Hdr + rneed - 1
      BY <2>9 DEF RCommit
    <3>2. rneed = frames[m + 1].size
      BY <2>9, <1>6 DEF Holding
    <3>3. At(m + 1)'
      BY <3>2, <2>1, <2>9, CommitAt
    <3>4. /\ m + 1 \in birth .. Written /\ birth < m + 1 /\ newest < m + 1
          /\ FrameLen(m + 1) = Hdr + rneed
      <4>1. m \in Nat /\ m < Written /\ FrameLen(m + 1) = Hdr + rneed
        BY <3>2, <2>1, <2>9, NextFrame
      <4> QED
        BY <4>1, <2>1
    <3>5. \A i \in DOMAIN rbuf : rbuf[i] = [frame |-> m + 1, off |-> i]
      BY <2>9, <1>6 DEF Holding
    <3>6. Holding(m + 1)'
      <4>1. newest' = newest /\ newest <= m + 1
        BY <2>1, <2>9, <1>4
      <4>2. DOMAIN rbuf' = 0 .. FrameLen(m + 1)' - 1
        <5>1. FrameLen(m + 1)' = Hdr + rneed
          BY <3>4, <1>2
        <5> QED
          BY <5>1, <3>1, <1>0, PosFacts
      <4>3. rpc' \notin {"load", "header", "payload"}
        BY <3>1
      <4> QED
        BY <4>1, <4>2, <4>3, <3>1, <3>3, <3>4, <3>5, <1>2 DEF Holding
    <3> QED
      BY <3>1, <3>4, <3>6
  <2>10. (\E s : RPartial(s)) \/ RFlush \/ RDeliver => FALSE
    BY <1>1 DEF RPartial, RFlush, RDeliver, Return
  <2> QED
    BY <2>2, <2>4, <2>5, <2>7, <2>8, <2>9, <2>10, <1>6
       DEF PRead, ReaderProgress, RCommit, RCheck
<1>7. CASE rpc = "idle"
  BY <1>7, <1>5 DEF PRead, ReaderProgress, RCheck, RLoad, RHeader, HeaderRead,
                    RPayload, RCommit, RFlush, RDeliver
<1>8. CASE rpc # "idle"
  <2>1. call = "clean"
    BY <1>8, <1>1, CallOf
  <2>2. PICK m \in birth .. Written : Holding(m)
    BY <2>1 DEF RestartInv, OnFrame
  <2> QED
    BY <2>1, <2>2, <1>6, <1>8
<1> QED
  BY <1>7, <1>8

LEMMA OnFrameStep ==
    ASSUME RestartInv, [RestartNext]_rvars
    PROVE  OnFrame'
<1> SUFFICES ASSUME call' = "clean" PROVE OnFrame'
  BY DEF OnFrame
<1>0. TypedInv
  BY DEF RestartInv, PlacedInv
<1>1. CASE PRead
  <2>1. rpc' # "flush" /\ \E m \in birth .. Written : Holding(m)'
    BY <1>1, OnFrameReader
  <2>2. Written' = Written /\ birth' = birth
    BY <1>1, ReaderIsStill, SameEnds DEF Still, SameFrames, engine
  <2> QED
    BY <2>1, <2>2 DEF OnFrame
<1>2. CASE Quiet
  <2>1. /\ UNCHANGED <<rpc, rneed, rbuf, call, newest, birth>> /\ Written' = Written
        /\ \A n \in 1 .. Written : frames'[n] = frames[n] /\ FrameLen(n)' = FrameLen(n)
        /\ \A m \in birth .. Written : At(m)' <=> At(m)
    BY <1>0, <1>2, QuietAt DEF Quiet, RingQuiet
  <2>2. PICK m \in birth .. Written : Holding(m) /\ rpc # "flush"
    BY <2>1 DEF RestartInv, OnFrame
  <2>3. birth \in Nat /\ Written \in Nat
    BY <1>0, LifeFacts DEF TypedInv, Typed
  <2>4. /\ m < Written => frames'[m + 1] = frames[m + 1]
        /\ birth < m => FrameLen(m)' = FrameLen(m)
    BY <2>1, <2>3
  <2>5. Holding(m)'
    BY <2>1, <2>2, <2>4 DEF Holding
  <2> QED
    BY <2>1, <2>2, <2>5 DEF OnFrame
<1>3. CASE WPublish /\ UNCHANGED <<engine, call, newest>>
  <2>0. PICK L \in Nat : L = Len(frames)
    BY <1>0, LifeFacts DEF TypedInv, Typed
  <2>1. call = "clean" /\ ~Overrun /\ birth \in Nat
    BY <1>3, CleanFacts
  <2>2. /\ Written = L - 1 /\ Written' = L /\ birth' = birth /\ frames' = frames
        /\ \A n : FrameLen(n)' = FrameLen(n)
        /\ \A m \in birth .. L - 1 : At(m)' <=> At(m)
        /\ UNCHANGED <<rpc, rneed, rbuf>>
    BY <2>0, <2>1, <1>0, <1>3, PublishAt
  <2>3. PICK m \in birth .. Written : Holding(m) /\ rpc # "flush"
    BY <2>1 DEF RestartInv, OnFrame
  <2>4. m \in birth .. L /\ (m < Written => m < L)
    BY <2>0, <2>1, <2>2
  <2>5. Holding(m)'
    BY <2>2, <2>3, <2>4, <1>3 DEF Holding
  <2> QED
    BY <2>2, <2>3, <2>4, <2>5 DEF OnFrame
<1>4. CASE \E f \in unset : TStore(f)
  BY <1>4 DEF TStore
<1> QED
  BY <1>0, <1>1, <1>2, <1>3, <1>4, Kinds

\* The store of a call that found the reader on a frame leaves it on one.
LEMMA StoreKeeps ==
    ASSUME RestartInv, PRead, call # "stale", NEW k \in {birth, newest}, birth <= k,
           AlignedFrom(k)
    PROVE  AlignedFrom(k)'
<1>0. TypedInv /\ Locals /\ birth \in Nat /\ newest \in Nat /\ k \in Nat /\ Written \in Nat
  <2>1. TypedInv
    BY DEF RestartInv, PlacedInv
  <2>2. birth \in Nat /\ Written \in Nat
    BY <2>1, LifeFacts DEF TypedInv, Typed
  <2> QED
    BY <2>1, <2>2 DEF TypedInv, RestartTypeOK
<1>1. CASE readPos' = readPos
  BY <1>0, <1>1, ReaderQuiet, QuietAt
<1>2. CASE rpc \in {"payload", "flush"}
  <2>1. Aligned
    BY <1>0, AlignedWeaker
  <2>2. call = "clean"
    BY <2>1, <1>0, <1>2 DEF RestartInv, StillAstray, TypedInv, RestartTypeOK, Locals
  <2>3. PICK m \in birth .. Written : Holding(m) /\ rpc # "flush"
    BY <2>2 DEF RestartInv, OnFrame
  <2>4. /\ rpc = "payload" /\ ~Overrun /\ rpos = readPos /\ At(m)
        /\ Avail(writePos, readPos) # 0 /\ rneed = frames[m + 1].size
        /\ m < Written /\ newest <= m
    BY <2>2, <2>3, <1>2, CleanFacts DEF Holding
  <2>5. CASE RCommit
    <3>1. At(m + 1)' /\ ~Overrun'
      BY <2>4, <2>5, <1>0, CommitAt
    <3>2. m + 1 \in k .. Written
      BY <2>4, <1>0
    <3>3. Written' = Written
      BY ReaderIsStill, SameEnds DEF Still
    <3> QED
      BY <3>1, <3>2, <3>3 DEF AlignedFrom
  <2> QED
    BY <2>4, <2>5, <1>0, <1>1, ReaderStores
<1> QED
  BY <1>0, <1>1, <1>2, ReaderStores

LEMMA OnwardStep ==
    ASSUME RestartInv, [RestartNext]_rvars
    PROVE  Onward'
<1>0. TypedInv /\ Onward /\ birth \in Nat /\ newest \in Nat /\ Written \in Nat
  <2>1. TypedInv /\ Onward
    BY DEF RestartInv, PlacedInv
  <2>2. birth \in Nat /\ Written \in Nat
    BY <2>1, LifeFacts DEF TypedInv, Typed
  <2> QED
    BY <2>1, <2>2 DEF TypedInv, RestartTypeOK
<1>1. CASE PRead
  <2>1. /\ birth' = birth /\ life' = life
        /\ (ThisLife' /\ life = "init" => ThisLife)
    BY <1>1, ReaderIsStill DEF Still, SameFrames, engine
  <2>2. CASE rpc = "deliver" /\ call = "clean"
    <3>1. PICK m \in birth .. Written : Holding(m)
      BY <2>2 DEF RestartInv, OnFrame
    <3>2. newest' = m
      BY <3>1, <2>2, <1>0, <1>1, HoldingDecodes DEF PRead
    <3>3. rpc' = "idle" /\ readPos' = readPos
      BY <2>2, <1>1 DEF PRead, ReaderProgress, RCheck, RLoad, RHeader, HeaderRead,
                        RPayload, RCommit, RFlush, RDeliver, Return, mapping
    <3>4. AlignedFrom(m)
      <4>1. At(m) /\ ~Overrun
        BY <3>1, <2>2, CleanFacts DEF Holding
      <4> QED
        BY <4>1, <1>0 DEF AlignedFrom
    <3>5. AlignedFrom(m)'
      BY <3>3, <3>4, <1>0, <1>1, ReaderQuiet, QuietAt
    <3>6. call' = "none" /\ AlignedFrom(newest)'
      BY <3>2, <3>3, <3>5, <1>1, CallOf DEF AlignedFrom
    <3> QED
      BY <3>6 DEF Onward
  <2>3. CASE ~(rpc = "deliver" /\ call = "clean")
    <3>1. newest' = newest
      BY <2>3, <1>1 DEF PRead
    <3>2. CASE newest <= birth
      BY <3>1, <3>2, <2>1 DEF Onward
    <3>3. CASE life = "init" /\ ~ThisLife
      BY <3>3, <2>1 DEF Onward
    <3>4. CASE ~(newest <= birth) /\ call # "stale" /\ AlignedFrom(newest)
      <4>1. birth <= newest
        BY <3>4, <1>0
      <4>2. AlignedFrom(newest)'
        <5>1. PICK n \in Nat : n = newest
          BY <1>0
        <5>2. AlignedFrom(n)'
          BY <5>1, <4>1, <3>4, <1>1, StoreKeeps DEF AlignedFrom
        <5> QED
          BY <5>1, <5>2, <3>1 DEF AlignedFrom
      <4>3. CASE call' # "stale"
        BY <4>2, <4>3 DEF Onward
      <4>4. CASE call' = "stale"
        <5>1. rpc = "idle" /\ Began = "stale"
          BY <4>4, <3>4, <1>1, CallOf
        <5>2. life = "init" /\ ~ThisLife'
          BY <5>1, <3>4, <4>4 DEF Began, AlignedFrom, ThisLife
        <5> QED
          BY <5>2, <2>1 DEF Onward
      <4> QED
        BY <4>3, <4>4
    <3> QED
      BY <3>2, <3>3, <3>4, <1>0 DEF Onward
  <2> QED
    BY <2>2, <2>3
<1>2. CASE Quiet
  <2>1. /\ birth' = birth /\ newest' = newest /\ call' = call
        /\ (life = "init" => life' = "init")
    BY <1>2 DEF Quiet, RingQuiet
  <2>2. CASE ~(newest <= birth) /\ call # "stale" /\ AlignedFrom(newest)
    <3>1. birth <= newest
      BY <2>2, <1>0
    <3>2. PICK n \in Nat : n = newest
      BY <1>0
    <3>3. AlignedFrom(n)'
      BY <3>1, <3>2, <2>2, <1>0, <1>2, QuietAt DEF Quiet
    <3>4. AlignedFrom(newest)'
      BY <3>2, <3>3, <2>1 DEF AlignedFrom
    <3> QED
      BY <3>4, <2>1, <2>2 DEF Onward
  <2> QED
    BY <2>1, <2>2, <1>0 DEF Onward, ThisLife
<1>3. CASE life = "up" /\ WPublish /\ UNCHANGED <<engine, call, newest>>
  <2>0. PICK L \in Nat : L = Len(frames)
    BY <1>0, LifeFacts DEF TypedInv, Typed
  <2>1. birth' = birth /\ newest' = newest /\ call' = call
    BY <1>3 DEF engine
  <2>2. CASE ~(newest <= birth) /\ call # "stale" /\ AlignedFrom(newest)
    <3>1. PICK m \in newest .. Written : At(m)
      BY <2>2 DEF AlignedFrom
    <3>2. /\ Written = L - 1 /\ Written' = L /\ ~Overrun'
          /\ \A i \in birth .. L - 1 : At(i)' <=> At(i)
      BY <2>0, <2>2, <1>0, <1>3, PublishAt DEF AlignedFrom
    <3>3. m \in birth .. L - 1 /\ m \in newest .. L
      BY <2>2, <3>1, <3>2, <1>0
    <3>4. AlignedFrom(newest)'
      BY <3>1, <3>2, <3>3, <2>1 DEF AlignedFrom
    <3> QED
      BY <3>4, <2>1, <2>2 DEF Onward
  <2> QED
    BY <2>1, <2>2, <1>0, <1>3 DEF Onward
<1>4. ASSUME NEW f \in unset, TStore(f) PROVE Onward'
  <2>1. birth' = Len(frames) /\ newest' = newest /\ newest \in 0 .. Len(frames)
    BY <1>0, <1>4 DEF TStore, TypedInv, RestartTypeOK
  <2>2. newest' <= birth'
    BY <2>1
  <2> QED
    BY <2>2 DEF Onward
<1> QED
  BY <1>0, <1>1, <1>2, <1>3, <1>4, Kinds

-----------------------------------------------------------------------------
(* The theorems *)

LEMMA RestartInvAlways == RestartSpec => []RestartInv
<1>1. RestartInit => RestartInv
  <2> SUFFICES ASSUME RestartInit PROVE RestartInv
    OBVIOUS
  <2>1. call = "none" /\ newest = 0 /\ birth = 0
    BY DEF RestartInit
  <2>2. Fresh /\ StillAstray /\ OnFrame /\ Onward
    BY <2>1 DEF Fresh, ThisLife, StillAstray, OnFrame, Onward
  <2> QED
    BY <2>2, InitTyped, InitPlaced DEF RestartInv, PlacedInv
<1>2. RestartInv /\ [RestartNext]_rvars => RestartInv'
  <2> SUFFICES ASSUME RestartInv, [RestartNext]_rvars PROVE RestartInv'
    OBVIOUS
  <2>1. PlacedInv'
    BY TypedStep, PlacedStep, RecentStep DEF RestartInv, PlacedInv
  <2>2. Fresh' /\ StillAstray'
    BY FreshStep, AstrayStep DEF RestartInv, PlacedInv
  <2>3. OnFrame' /\ Onward'
    BY OnFrameStep, OnwardStep
  <2> QED
    BY <2>1, <2>2, <2>3 DEF RestartInv
<1> QED
  BY <1>1, <1>2, PTL DEF RestartSpec

\* A call of read_frame that begins on a frame of the present life takes no
\* recovery branch and brings its caller one whole frame of this life, newer
\* than all such a call has brought before: property CleanCallsSound.
THEOREM CleanCalls == RestartSpec => []CleanCallsSound
<1>1. RestartInv => CleanCallsSound
  <2> SUFFICES ASSUME RestartInv, call = "clean" PROVE CleanCallsSound
    BY DEF CleanCallsSound
  <2>1. PICK m \in birth .. Written : Holding(m) /\ rpc # "flush"
    BY DEF RestartInv, OnFrame
  <2>2. TypedInv
    BY DEF RestartInv, PlacedInv
  <2>3. rpc = "deliver" => Decode(rbuf) > birth /\ Decode(rbuf) > newest
    <3> HAVE rpc = "deliver"
    <3>1. Decode(rbuf) = m /\ birth < m /\ newest < m
      BY <2>1, <2>2, HoldingDecodes DEF Holding
    <3> QED
      BY <3>1
  <2> QED
    BY <2>1, <2>3 DEF CleanCallsSound
<1> QED
  BY RestartInvAlways, <1>1, PTL

\* Once the reader is on a frame of the present life, no step of the writer and
\* no call of this life takes it off: property StaysAligned.
THEOREM Alignment == RestartSpec => StaysAligned
<1>1. RestartInv /\ [RestartNext]_rvars =>
         [Aligned /\ call # "stale" /\ life = "up" => Aligned' \/ life' = "down"]_rvars
  <2> SUFFICES ASSUME RestartInv, [RestartNext]_rvars, Aligned, call # "stale",
                      life = "up"
               PROVE  Aligned' \/ life' = "down"
    OBVIOUS
  <2>0. TypedInv /\ birth \in Nat /\ ~Overrun /\ unset = {}
    BY LifeFacts DEF RestartInv, PlacedInv, TypedInv, Typed, Lives, Aligned
  <2>1. CASE PRead
    <3>1. PICK n \in Nat : n = birth
      BY <2>0
    <3>2. AlignedFrom(n)'
      BY <3>1, <2>1, AlignedIs, StoreKeeps DEF AlignedFrom
    <3>3. birth' = birth
      BY <2>1, ReaderIsStill DEF Still, SameFrames, engine
    <3>4. AlignedFrom(birth)'
      BY <3>1, <3>2, <3>3 DEF AlignedFrom
    <3> QED
      BY <3>4, AlignedIs, PTL
  <2>2. CASE Quiet
    BY <2>0, <2>2, QuietAt DEF Quiet
  <2>3. CASE WPublish /\ UNCHANGED <<engine, call, newest>>
    <3>0. PICK L \in Nat : L = Len(frames)
      BY <2>0, LifeFacts DEF TypedInv, Typed
    <3>1. PICK m \in birth .. Written : At(m)
      BY AlignedIs DEF AlignedFrom
    <3>2. /\ Written = L - 1 /\ Written' = L /\ ~Overrun' /\ birth' = birth
          /\ \A i \in birth .. L - 1 : At(i)' <=> At(i)
      BY <3>0, <2>0, <2>3, PublishAt
    <3>3. m \in birth .. L - 1 /\ m \in birth .. L
      BY <3>0, <3>1, <3>2, <2>0
    <3>4. AlignedFrom(birth)'
      BY <3>1, <3>2, <3>3 DEF AlignedFrom
    <3> QED
      BY <3>4, AlignedIs, PTL
  <2> QED
    BY <2>0, <2>1, <2>2, <2>3, Kinds
<1> QED
  BY <1>1, RestartInvAlways, PTL DEF RestartSpec, StaysAligned

\* The flush of a call that began between two frames of the present life puts
\* the reader on a frame again: property FlushRealigns of the desync branch.
THEOREM Realignment == RestartSpec => FlushRealigns
<1>1. RestartInv /\ [RestartNext]_rvars =>
         [rpc = "flush" /\ rpc' = "idle" /\ call = "astray" => Aligned']_rvars
  <2> SUFFICES ASSUME RestartInv, [RestartNext]_rvars, rpc = "flush", rpc' = "idle",
                      call = "astray"
               PROVE  Aligned'
    OBVIOUS
  <2>0. TypedInv /\ Fresh /\ ThisLife
    BY DEF RestartInv, PlacedInv, ThisLife
  <2>1. PRead
    BY <2>0, Kinds DEF Quiet, WPublish, TStore, reader
  <2>2. readPos' = rsnap
    BY <2>1 DEF PRead, ReaderProgress, RCheck, RLoad, RHeader, HeaderRead, RPayload,
                RCommit, RDeliver, RFlush, Return
  <2>3. PICK j \in birth .. Written :
            /\ rsnap = Spot(End(j))
            /\ Avail(writePos, rsnap) = End(Written) - End(j)
            /\ Avail(writePos, rsnap) <= Avail(writePos, readPos)
    BY <2>0 DEF Fresh
  <2>4. /\ Written' = Written /\ birth' = birth /\ UNCHANGED <<writePos, wpc, frames>>
        /\ \A n : End(n)' = End(n) /\ FrameLen(n)' = FrameLen(n)
        /\ \A n : Spot(n)' = Spot(n)
    BY <2>1, ReaderIsStill, SameEnds DEF Still, SameFrames, engine
  <2>5. Avail(writePos, readPos)' = Avail(writePos, rsnap)
    BY <2>2, <2>4
  <2>6. At(j)'
    BY <2>2, <2>3, <2>4, <2>5 DEF At
  <2>7. ~Overrun'
    <3>1. CASE wpc = "copy"
      <4>1. /\ Avail(writePos, readPos) + FrameLen(Len(frames)) < Cap
            /\ FrameLen(Len(frames)) \in Nat /\ Cap \in Nat
            /\ Avail(writePos, readPos) \in Nat /\ Avail(writePos, rsnap) \in Nat
        BY <3>1, <2>0, PosFacts DEF Fresh
      <4>2. FrameLen(Len(frames))' = FrameLen(Len(frames))
        BY <2>4 DEF FrameLen
      <4>3. Room' >= FrameLen(Len(frames)) /\ Room' \in Int
        BY <4>1, <2>3, <2>5 DEF Room
      <4> QED
        BY <4>1, <4>2, <4>3 DEF Overrun
    <3>2. CASE wpc # "copy"
      BY <3>2, <2>4 DEF Overrun
    <3> QED
      BY <3>1, <3>2
  <2>8. AlignedFrom(birth)'
    BY <2>3, <2>4, <2>6, <2>7 DEF AlignedFrom
  <2> QED
    BY <2>8, AlignedIs, PTL
<1> QED
  BY <1>1, RestartInvAlways, PTL DEF RestartSpec, FlushRealigns
=============================================================================

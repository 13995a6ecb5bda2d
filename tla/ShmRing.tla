------------------------------- MODULE ShmRing ------------------------------
(***************************************************************************)
(* The single-producer single-consumer ring of audio frames in shared      *)
(* memory: `ShmRingBuffer' of transmission/src/ipc/shm_ring_buffer.cpp     *)
(* (C++) and of processing/src/ipc/shm_ring_buffer.py (Python), which map  *)
(* the same bytes from two processes and take no lock.                     *)
(*                                                                         *)
(* One step is one access to the shared memory: a load or a store of a     *)
(* position, or the copy of one byte.  The bytes of a memcpy are copied in *)
(* any order, since neither the compiler nor the machine promises one; the *)
(* release store of the position that ends an operation comes after them.  *)
(* With no two conflicting accesses ever enabled together (NoDataRace),    *)
(* this interleaving of single accesses is all the C++ memory model can    *)
(* show.                                                                   *)
(*                                                                         *)
(* The same module describes both sides written in either language; the    *)
(* constants Writer and Reader say which one runs.                         *)
(***************************************************************************)
EXTENDS Integers, Sequences

CONSTANTS
    Cap,         \* bytes in the ring (the header field `capacity')
    Hdr,         \* bytes of an AudioFrameHeader
    Sizes,       \* the payload sizes the writer offers
    MaxPayload,  \* a header that claims more than this is taken for garbage
    Writer,      \* "cpp" or "py": whose writeFrame / write_frame runs
    Reader,      \* "cpp" or "py": whose readFrame / read_frame runs
    MaxOffers,   \* BOUND: frames offered to the writer in a behaviour
    MaxCrashes   \* BOUND: deaths of the reading process in a behaviour

\* DEFAULT_SHM_CAPACITY and the payload limit of readFrame are both 1 MiB.
ASSUME RingAssumption ==
    /\ Cap \in Nat \ {0}
    /\ Hdr \in Nat \ {0}
    /\ Sizes \subseteq Nat
    /\ MaxPayload \in Nat
    /\ Cap <= MaxPayload
    /\ Writer \in {"cpp", "py"}
    /\ Reader \in {"cpp", "py"}
    /\ MaxOffers \in Nat
    /\ MaxCrashes \in Nat

VARIABLES
    \* the shared mapping
    mem,         \* the data bytes
    writePos,    \* header field write_pos
    readPos,     \* header field read_pos
    sequence,    \* header field sequence
    \* the writing thread
    wpc,         \* where it is in writeFrame
    wdone,       \* the byte offsets of the frame it has copied so far
    \* the reading thread
    rpc,         \* where it is in readFrame
    rpos,        \* its local copy of read_pos
    rsnap,       \* the write_pos it will flush to
    rneed,       \* payload_size as it read it
    rbuf,        \* the bytes it has copied out so far, by offset
    crashes,     \* deaths of the reading process so far
    \* history, for the properties
    frames,      \* every frame the writer began to copy: its absolute start
                 \* (the number of bytes written before it) and payload size
    published,   \* frames 1..published have had their write_pos stored
    taken,       \* frames 1..taken have had their read_pos stored
    refused,     \* payload sizes of the frames refused as the ring was full
    got          \* what the reader's caller got: frame numbers, 0 if torn

mapping == <<mem, writePos, readPos, sequence>>
writer  == <<wpc, wdone>>
reader  == <<rpc, rpos, rsnap, rneed, rbuf, crashes>>
history == <<frames, published, taken, refused, got>>
vars    == <<mapping, writer, reader, history>>

\* Byte `off' of frame number `frame', header first; frame 0 is the zeros
\* that shm_open and ftruncate leave.
Byte == [frame : Nat, off : Nat]
Zero == [frame |-> 0, off |-> 0]

-----------------------------------------------------------------------------
\* availableReadBytes on one load of each position.
Avail(w, r) == IF w >= r THEN w - r ELSE Cap - (r - w)

\* Mutant: a ring that wastes a byte.
Room_Wasted == Cap - Avail(writePos, readPos) - 2

\* availableWriteBytes: one byte stays free, or full would look like empty.
Room == Cap - Avail(writePos, readPos) - 1

\* Bytes of frame n, and where it ends if the positions never wrapped.
FrameLen(n) == Hdr + frames[n].size
End(n)      == IF n = 0 THEN 0 ELSE frames[n].start + FrameLen(n)

\* The cell of the byte `k' beyond position p: readContiguous and
\* writeContiguous split a copy in two where it wraps.
Cell(p, k) == (p + k) % Cap

\* The frame number the bytes in buf are, or 0 if they are not one frame.
Decode(buf) ==
    LET n == buf[0].frame
    IN  IF /\ n \in 1 .. Len(frames)
           /\ DOMAIN buf = 0 .. FrameLen(n) - 1
           /\ \A k \in DOMAIN buf : buf[k] = [frame |-> n, off |-> k]
        THEN n ELSE 0

\* The Mode::Create constructor on a fresh segment, and nobody inside yet.
Init ==
    /\ mem = [c \in 0 .. Cap - 1 |-> Zero]
    /\ writePos = 0
    /\ readPos = 0
    /\ sequence = 0
    /\ wpc = "idle"
    /\ wdone = {}
    /\ rpc = "idle"
    /\ rpos = 0
    /\ rsnap = 0
    /\ rneed = 0
    /\ rbuf = <<>>
    /\ crashes = 0
    /\ frames = <<>>
    /\ published = 0
    /\ taken = 0
    /\ refused = <<>>
    /\ got = <<>>

-----------------------------------------------------------------------------
(* writeFrame / write_frame *)

Offering == wpc = "idle" /\ Len(frames) + Len(refused) < MaxOffers

\* The frame fits: the copy begins at the unpublished write position.
WBegin(s) ==
    /\ Offering
    /\ Room >= Hdr + s
    /\ wpc' = "copy"
    /\ wdone' = {}
    /\ frames' = Append(frames, [start |-> End(Len(frames)), size |-> s])
    /\ UNCHANGED <<mapping, reader, published, taken, refused, got>>

\* "Ring full": false is returned and every caller drops the frame.
WRefuse(s) ==
    /\ Offering
    /\ Room < Hdr + s
    /\ refused' = Append(refused, s)
    /\ UNCHANGED <<mapping, writer, reader, frames, published, taken, got>>

WCopy(k) ==
    /\ wpc = "copy"
    /\ k \notin wdone
    /\ mem' = [mem EXCEPT ![Cell(writePos, k)] =
                   [frame |-> Len(frames), off |-> k]]
    /\ wdone' = wdone \cup {k}
    /\ UNCHANGED <<writePos, readPos, sequence, wpc, reader, history>>

\* Mutant: write_pos is stored before the copy is complete.
AllCopied_Unchecked == TRUE

AllCopied == wdone = 0 .. FrameLen(Len(frames)) - 1
NextWrite == Cell(writePos, FrameLen(Len(frames)))

\* Only writeFrame counts the frame in the header; write_frame returns.
AfterPublish == IF Writer = "cpp" THEN "count" ELSE "idle"

\* The release store of write_pos, after the last byte.
WPublish ==
    /\ wpc = "copy"
    /\ AllCopied
    /\ writePos' = NextWrite
    /\ published' = published + 1
    /\ wpc' = AfterPublish
    /\ wdone' = {}
    /\ UNCHANGED <<mem, readPos, sequence, reader, frames, taken, refused, got>>

WCount ==
    /\ wpc = "count"
    /\ sequence' = sequence + 1
    /\ wpc' = "idle"
    /\ UNCHANGED <<mem, writePos, readPos, wdone, reader, history>>

WriterProgress ==
    \/ wpc = "copy" /\ \E k \in 0 .. FrameLen(Len(frames)) - 1 : WCopy(k)
    \/ WPublish
    \/ WCount

-----------------------------------------------------------------------------
(* readFrame / read_frame *)

\* The locals of a call go out of scope when it returns.
Return ==
    /\ rpc' = "idle"
    /\ rpos' = 0
    /\ rsnap' = 0
    /\ rneed' = 0
    /\ rbuf' = <<>>

\* Mutant: `<=' for `<', so that a frame without payload is not seen.
Readable_OffByOne == Avail(writePos, readPos) > Hdr

Readable == Avail(writePos, readPos) >= Hdr

\* The first availability check: less than a header, and the call returns
\* with nothing; its caller sleeps and calls again.
REmpty ==
    /\ rpc = "idle"
    /\ ~Readable
    /\ UNCHANGED vars

RCheck ==
    /\ rpc = "idle"
    /\ Readable
    /\ rpc' = "load"
    /\ UNCHANGED <<mapping, writer, rpos, rsnap, rneed, rbuf, crashes, history>>

\* Mutant: the flush goes back to where the call began.
Snapshot_ReadPos == readPos

\* The loads the rest of the call works from.  read_frame takes one snapshot
\* of the whole header here, write_pos included.
Snapshot == writePos

RLoad ==
    /\ rpc = "load"
    /\ rpos' = readPos
    /\ rsnap' = IF Reader = "py" THEN Snapshot ELSE rsnap
    /\ rpc' = "header"
    /\ UNCHANGED <<mapping, writer, rneed, rbuf, crashes, history>>

FetchByte(k) ==
    /\ k \notin DOMAIN rbuf
    /\ rbuf' = [i \in DOMAIN rbuf \cup {k} |->
                   IF i = k THEN mem[Cell(rpos, k)] ELSE rbuf[i]]

RHeader(k) ==
    /\ rpc = "header"
    /\ FetchByte(k)
    /\ UNCHANGED <<mapping, writer, rpc, rpos, rsnap, rneed, crashes, history>>

\* The header is in the local copy and is examined next.
HeaderRead == rpc = "header" /\ DOMAIN rbuf = 0 .. Hdr - 1

\* The magic is in the first byte of a header, payload_size in the last.
MagicOk == rbuf[0].frame # 0 /\ rbuf[0].off = 0

\* What payload_size can read as: the frame's size, zero in memory never
\* written, and any number at all in the middle of a frame.
ClaimedSizes ==
    LET b == rbuf[Hdr - 1]
    IN  CASE b.frame = 0 -> {0}
          [] b.frame # 0 /\ b.off = Hdr - 1 -> {frames[b.frame].size}
          [] OTHER -> 0 .. MaxPayload + 1

\* "Corrupted frame or desync": readFrame loads write_pos now, read_frame
\* has it from its snapshot.
RDesync(s) ==
    /\ HeaderRead
    /\ ~MagicOk \/ s > MaxPayload
    /\ rsnap' = IF Reader = "cpp" THEN writePos ELSE rsnap
    /\ rpc' = "flush"
    /\ UNCHANGED <<mapping, writer, rpos, rneed, rbuf, crashes, history>>

RFlush ==
    /\ rpc = "flush"
    /\ readPos' = rsnap
    /\ Return
    /\ UNCHANGED <<mem, writePos, sequence, writer, crashes, history>>

\* Mutant: read_frame compares the payload alone, as readFrame does.
Needed_Payload(s) == s

\* The second availability check: readFrame forgets the header it has read.
Needed(s) == IF Reader = "py" THEN Hdr + s ELSE s

RPartial(s) ==
    /\ HeaderRead
    /\ MagicOk /\ s <= MaxPayload
    /\ Avail(writePos, readPos) < Needed(s)
    /\ Return
    /\ UNCHANGED <<mapping, writer, crashes, history>>

\* Mutant: read_pos is stored before the payload is copied out.
RAccept_FreesFirst(s) ==
    /\ HeaderRead
    /\ MagicOk /\ s <= MaxPayload
    /\ Avail(writePos, readPos) >= Needed(s)
    /\ rneed' = s
    /\ readPos' = Cell(rpos, Hdr + s)
    /\ rpc' = "payload"
    /\ UNCHANGED <<mem, writePos, sequence, writer, rpos, rsnap, rbuf, crashes,
                   history>>

RAccept(s) ==
    /\ HeaderRead
    /\ MagicOk /\ s <= MaxPayload
    /\ Avail(writePos, readPos) >= Needed(s)
    /\ rneed' = s
    /\ rpc' = "payload"
    /\ UNCHANGED <<mapping, writer, rpos, rsnap, rbuf, crashes, history>>

RPayload(k) ==
    /\ rpc = "payload"
    /\ FetchByte(k)
    /\ UNCHANGED <<mapping, writer, rpc, rpos, rsnap, rneed, crashes, history>>

\* Mutants: read_pos moves on without the wrap; without the header's length;
\* and not at all.
NextRead_NoWrap      == rpos + Hdr + rneed
NextRead_PayloadOnly == Cell(rpos, rneed)
NextRead_Same        == readPos

NextRead == Cell(rpos, Hdr + rneed)

\* The release store of read_pos: the bytes belong to the writer again.
RCommit ==
    /\ rpc = "payload"
    /\ DOMAIN rbuf = 0 .. Hdr + rneed - 1
    /\ readPos' = NextRead
    /\ taken' = taken + 1
    /\ rpc' = "deliver"
    /\ UNCHANGED <<mem, writePos, sequence, writer, rpos, rsnap, rneed, rbuf,
                   crashes, frames, published, refused, got>>

\* Either way a call ends its work on the ring with one store of read_pos.
\* (Without ShmRestart the flush never happens: see InSync.)
RStore == rpc \in {"payload", "flush"} /\ (RCommit \/ RFlush)

\* readFrame has returned and its caller uses the frame.
RDeliver ==
    /\ rpc = "deliver"
    /\ got' = Append(got, Decode(rbuf))
    /\ Return
    /\ UNCHANGED <<mapping, writer, crashes, frames, published, taken, refused>>

ReaderProgress ==
    \/ RCheck
    \/ RLoad
    \/ \E k \in 0 .. Hdr - 1 : RHeader(k)
    \/ HeaderRead /\ \E s \in ClaimedSizes : RDesync(s) \/ RPartial(s) \/ RAccept(s)
    \/ \E k \in Hdr .. Hdr + rneed - 1 : RPayload(k)
    \/ RStore
    \/ RDeliver

\* The processing engine dies inside a call and is started again: it attaches
\* to the same mapping and changes nothing in it.
RCrash ==
    /\ Reader = "py"
    /\ rpc # "idle"
    /\ crashes < MaxCrashes
    /\ crashes' = crashes + 1
    /\ Return
    /\ UNCHANGED <<mapping, writer, history>>

-----------------------------------------------------------------------------
Next ==
    \/ \E s \in Sizes : WBegin(s) \/ WRefuse(s)
    \/ WriterProgress
    \/ REmpty
    \/ ReaderProgress
    \/ RCrash

Spec == Init /\ [][Next]_vars

\* A call to writeFrame that began goes on, and the reading loop polls for
\* ever (Sender::workerLoop, the loop of main.py): neither waits for the other.
FairSpec == Spec /\ WF_vars(WriterProgress) /\ WF_vars(ReaderProgress)

-----------------------------------------------------------------------------
(* The type invariant *)
TypeOK ==
    /\ mem \in [0 .. Cap - 1 -> Byte]
    /\ writePos \in 0 .. Cap - 1
    /\ readPos \in 0 .. Cap - 1
    /\ sequence \in Nat
    /\ wpc \in {"idle", "copy", "count"}
    /\ wdone \in SUBSET Nat
    /\ rpc \in {"idle", "load", "header", "flush", "payload", "deliver"}
    /\ rpos \in 0 .. Cap - 1
    /\ rsnap \in 0 .. Cap - 1
    /\ rneed \in Nat
    /\ DOMAIN rbuf \in SUBSET Nat
    /\ rbuf \in [DOMAIN rbuf -> Byte]
    /\ crashes \in 0 .. MaxCrashes
    /\ frames \in Seq([start : Nat, size : Sizes])
    /\ published \in 0 .. Len(frames)
    /\ taken \in Nat
    /\ refused \in Seq(Sizes)
    /\ got \in Seq(Nat)

(***************************************************************************)
(* Safety                                                                  *)
(***************************************************************************)

\* What either side computes from the two positions it loads, whenever it
\* loads them, is exactly the number of unread bytes: the ring is never taken
\* for empty when it is full, nor a stale load for more than there is.
AvailExact ==
    /\ Avail(writePos, readPos) = End(published) - End(taken)
    /\ End(published) - End(taken) < Cap

\* The bytes each side may touch now without looking at a position again.
WriterBytes ==
    IF wpc = "copy"
    THEN {Cell(writePos, k) : k \in 0 .. FrameLen(Len(frames)) - 1}
    ELSE {}
ReaderBytes ==
    CASE rpc = "header"  -> {Cell(rpos, k) : k \in 0 .. Hdr - 1}
      [] rpc = "payload" -> {Cell(rpos, k) : k \in 0 .. Hdr + rneed - 1}
      [] OTHER -> {}

\* No lock, and no byte that the writer may be storing while the reader may
\* be loading it: the two memcpys of the two processes never race.
NoDataRace == WriterBytes \cap ReaderBytes = {}

\* The frame in the reader's hand: the positions moved past it, its caller
\* has not had it.
InHand == IF rpc = "deliver" THEN taken ELSE 0

\* The reader never meets a header it takes for garbage nor one whose payload
\* is missing: while nobody re-creates the ring, the two recovery branches of
\* readFrame (flush the ring, wait for the rest) are dead code.
InSync ==
    /\ rpc # "flush"
    /\ HeaderRead =>
           /\ MagicOk
           /\ taken < published
           /\ ClaimedSizes = {frames[taken + 1].size}
           /\ frames[taken + 1].size <= MaxPayload
           /\ Avail(writePos, readPos) >= Hdr + frames[taken + 1].size

\* Every frame the reader's caller gets is one whole frame as it was offered,
\* no frame twice, none before an older one; and each frame the reader missed
\* was in the hand of a reading process that died, at most one per death.
DeliveredIntact ==
    /\ \A i \in 1 .. Len(got) : got[i] # 0
    /\ \A i, j \in 1 .. Len(got) : i < j => got[i] < got[j]
    /\ rpc = "deliver" => Decode(rbuf) = taken
    /\ LET held == IF rpc = "deliver" THEN 1 ELSE 0
       IN  taken - (Len(got) + held) \in 0 .. crashes

\* The header's `sequence' is the number of frames published, give or take
\* the one whose writer stands between the two stores.
SequenceCounts == sequence = published - (IF wpc = "count" THEN 1 ELSE 0)

(***************************************************************************)
(* The inductive invariant.  Every position is an absolute byte count that *)
(* never wraps, taken modulo Cap; the bytes between the two counts are     *)
(* the unread frames, whole and in order.                                  *)
(***************************************************************************)

\* Frames lie one behind the other.
Geometry ==
    /\ \A n \in 1 .. Len(frames) : frames[n].start = End(n - 1)
    /\ \A m, n \in 1 .. Len(frames) : m < n => End(m) <= frames[n].start
    /\ Len(frames) = published + (IF wpc = "copy" THEN 1 ELSE 0)
    /\ taken <= published

\* The positions are where the frames end, and the frame being copied
\* leaves at least one byte free before the oldest unread one.
Positions ==
    /\ writePos = End(published) % Cap
    /\ readPos = End(taken) % Cap
    /\ End(Len(frames)) < End(taken) + Cap

\* Unread frames are in memory as they were offered, and so is the part of
\* the next one that is already copied.
Contents ==
    /\ \A n \in taken + 1 .. published : \A k \in 0 .. FrameLen(n) - 1 :
           mem[Cell(frames[n].start, k)] = [frame |-> n, off |-> k]
    /\ wpc = "copy" =>
           \A k \in wdone :
               /\ k < FrameLen(Len(frames))
               /\ mem[Cell(frames[Len(frames)].start, k)] =
                      [frame |-> Len(frames), off |-> k]

\* What a reader inside a call has is a part of the oldest unread frame.
ReaderView ==
    /\ rpc # "flush"
    /\ rpc \in {"load", "header", "payload"} => taken < published
    /\ rpc \in {"idle", "load"} => DOMAIN rbuf = {}
    /\ rpc \in {"header", "payload"} =>
           /\ rpos = readPos
           /\ \A k \in DOMAIN rbuf : rbuf[k] = [frame |-> taken + 1, off |-> k]
    /\ rpc = "header" => DOMAIN rbuf \subseteq 0 .. Hdr - 1
    /\ rpc = "payload" =>
           /\ rneed = frames[taken + 1].size
           /\ 0 .. Hdr - 1 \subseteq DOMAIN rbuf
           /\ DOMAIN rbuf \subseteq 0 .. Hdr + rneed - 1
    /\ rpc = "deliver" =>
           /\ taken # 0
           /\ DOMAIN rbuf = 0 .. FrameLen(taken) - 1
           /\ \A k \in DOMAIN rbuf : rbuf[k] = [frame |-> taken, off |-> k]

\* What was delivered is older than what is still to come.
Delivered ==
    LET held == IF rpc = "deliver" THEN 1 ELSE 0
    IN  /\ \A i \in 1 .. Len(got) : got[i] \in 1 .. taken - held
        /\ \A i, j \in 1 .. Len(got) : i < j => got[i] < got[j]
        /\ Len(got) + held <= taken
        /\ taken <= Len(got) + held + crashes

RingInv ==
    /\ TypeOK
    /\ Geometry
    /\ Positions
    /\ Contents
    /\ ReaderView
    /\ Delivered
    /\ Writer = "cpp" => SequenceCounts

(***************************************************************************)
(* The ring implements the queue of FrameQueue.                            *)
(***************************************************************************)
FQ == INSTANCE FrameQueue WITH
          MayCrash <- MaxCrashes # 0,
          log      <- [n \in 1 .. published |-> frames[n].size],
          bytesIn  <- End(published),
          bytesOut <- End(taken),
          hand     <- InHand

\* Every step of the two processes is a step of the queue or changes nothing
\* its users can see.
ImplementsFrameQueue == FQ!Spec

\* The same under a writer that ends its call and a reader that polls, for the
\* queue with a fair user: each frame that was put is got, and used; the
\* lock-free sides never wait for each other, and a full ring drains.
ImplementsFairQueue == FQ!FairSpec
=============================================================================

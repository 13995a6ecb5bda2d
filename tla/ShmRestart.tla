----------------------------- MODULE ShmRestart -----------------------------
(***************************************************************************)
(* The RX ring when the transmission engine dies and is started again      *)
(* while the processing engine stays attached.                             *)
(*                                                                         *)
(* A killed process does not reach shm_unlink, so the new one's            *)
(* `shm_open(O_CREAT)' (no O_EXCL, no O_TRUNC) finds the old segment, and  *)
(* mapMemory stores 0 into its positions, relaxed and one by one, under a  *)
(* reader that may be anywhere in read_frame.  Reader and writer are those *)
(* of ShmRing; this module adds the death, the second Create, and the      *)
(* recovery branches of read_frame, which ShmRing proves dead without it.  *)
(***************************************************************************)
EXTENDS ShmRing, FiniteSets

CONSTANT MaxRestarts    \* BOUND: deaths of the transmission engine

ASSUME RestartAssumption ==
    /\ MaxRestarts \in Nat
    /\ Writer = "cpp"
    /\ Reader = "py"

VARIABLES
    life,       \* the engine that owns the ring: "up", "down" or "init"
    unset,      \* header fields mapMemory has still to store
    restarts,   \* deaths so far
    birth,      \* history: frames 1..birth are of earlier lives
    call,       \* history: how the reader's present call began, see Began
    newest      \* history: the newest frame a clean call has delivered

engine == <<life, unset, restarts, birth>>
rvars  == <<vars, engine, call, newest>>

-----------------------------------------------------------------------------
\* Frames birth+1..Written are the ones this life has published, and Base is
\* the byte count at which it stored 0 into write_pos.
Written == Len(frames) - (IF wpc = "copy" THEN 1 ELSE 0)
Base    == End(birth)

\* The writer found room for the frame it is copying, and then a call left
\* over from the last life stored a read_pos that takes the room away.
Overrun == wpc = "copy" /\ Room < FrameLen(Len(frames))

\* The unread bytes are exactly the last few frames of this life: a reader
\* that starts here meets headers where it looks for them.
Aligned ==
    ~Overrun /\ \E m \in birth .. Written :
        /\ readPos = (End(m) - Base) % Cap
        /\ Avail(writePos, readPos) = End(Written) - End(m)

\* "clean" and "astray" calls began in this life, the clean ones on a frame;
\* a "stale" call was under way when a field was stored, or began while the
\* writer works on a check that such a call has made void.
Began ==
    IF life = "init" \/ Overrun THEN "stale"
    ELSE IF Aligned THEN "clean" ELSE "astray"

RestartInit ==
    /\ Init
    /\ life = "up"
    /\ unset = {}
    /\ restarts = 0
    /\ birth = 0
    /\ call = "none"
    /\ newest = 0

\* The process is killed, maybe in the middle of writeFrame: wpc says where.
TDie ==
    /\ life = "up"
    /\ restarts < MaxRestarts
    /\ life' = "down"
    /\ restarts' = restarts + 1
    /\ UNCHANGED <<vars, unset, birth, call, newest>>

\* It is started again and maps the segment that is still there.
TCreate ==
    /\ life = "down"
    /\ life' = "init"
    /\ unset' = {"write_pos", "read_pos", "sequence"}
    /\ UNCHANGED <<vars, restarts, birth, call, newest>>

\* One of mapMemory's stores; nothing orders relaxed stores for a reader.  From
\* the first one on the frame the dead writer left half copied is history.
TStore(f) ==
    /\ f \in unset
    /\ unset' = unset \ {f}
    /\ life' = IF unset = {f} THEN "up" ELSE "init"
    /\ birth' = Len(frames)
    /\ wpc' = "idle" /\ wdone' = {}
    /\ call' = IF rpc = "idle" THEN "none" ELSE "stale"
    /\ writePos' = IF f = "write_pos" THEN 0 ELSE writePos
    /\ readPos'  = IF f = "read_pos"  THEN 0 ELSE readPos
    /\ sequence' = IF f = "sequence"  THEN 0 ELSE sequence
    /\ UNCHANGED <<mem, reader, history, restarts, newest>>

\* The writing thread only runs after Create.
TWrite ==
    /\ life = "up"
    /\ WriterProgress \/ \E s \in Sizes : WBegin(s) \/ WRefuse(s)
    /\ UNCHANGED <<engine, call, newest>>

\* The processing engine neither sees the death nor the new Create.
PRead ==
    /\ ReaderProgress
    /\ call' = IF rpc' = "idle" THEN "none" ELSE IF rpc = "idle" THEN Began ELSE call
    /\ newest' = IF rpc = "deliver" /\ call = "clean" THEN Decode(rbuf) ELSE newest
    /\ UNCHANGED engine

PIdle ==
    /\ REmpty
    /\ UNCHANGED rvars

RestartNext ==
    \/ TDie
    \/ TCreate
    \/ \E f \in unset : TStore(f)
    \/ TWrite
    \/ PRead
    \/ PIdle

RestartSpec == RestartInit /\ [][RestartNext]_rvars

-----------------------------------------------------------------------------
\* The type invariant: whatever a stale call stores, both positions stay in
\* the buffer and a reader never holds more bytes than the ring has.
RestartTypeOK ==
    /\ TypeOK
    /\ Cardinality(DOMAIN rbuf) <= Cap
    /\ life \in {"up", "down", "init"}
    /\ unset \in SUBSET {"write_pos", "read_pos", "sequence"}
    /\ restarts \in 0 .. MaxRestarts
    /\ birth \in 0 .. Len(frames)
    /\ call \in {"none", "clean", "astray", "stale"}
    /\ newest \in 0 .. Len(frames)

\* A call that began in this life never loads a byte the new writer may be
\* storing, not even one that goes astray on garbage: its second check counts
\* the header it has read as well as the payload it is about to.
NoRaceInOneLife ==
    life = "up" /\ call \in {"clean", "astray"}
        => WriterBytes \cap ReaderBytes = {}

\* A call that begins on a frame of this life ends well: it takes no recovery
\* branch, and its caller gets one whole frame of this life, newer than any
\* such a call has brought before.
CleanCallsSound ==
    call = "clean" =>
        /\ rpc # "flush"
        /\ rpc = "deliver" =>
               /\ Decode(rbuf) > birth
               /\ Decode(rbuf) > newest

\* Once the reader is on a frame of this life it stays on one: only another
\* restart, or a call left over from the last one, can put it astray.
StaysAligned ==
    [][Aligned /\ call # "stale" /\ life = "up" => Aligned' \/ life' = "down"]_rvars

\* The flush of a call that began in this life puts it back on a frame.
FlushRealigns ==
    [][rpc = "flush" /\ rpc' = "idle" /\ call = "astray" => Aligned']_rvars

\* What "Create and initialize new shared memory" says: a call that begins
\* after Create has returned gets no frame from before it, nor a torn one.
CreatedNew ==
    rpc = "deliver" /\ call \in {"clean", "astray"} => Decode(rbuf) > birth
=============================================================================

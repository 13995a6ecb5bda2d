----------------------------- MODULE FrameQueue -----------------------------
(***************************************************************************)
(* What a shared-memory audio ring promises to its two users, with no      *)
(* shared memory in it: a first-in first-out queue of frames, bounded in   *)
(* BYTES, that accepts or refuses a whole frame, hands each accepted frame *)
(* over at most once and in order, and knows when it is empty.             *)
(*                                                                         *)
(* This is the contract of `writeFrame' and `readFrame' as their callers   *)
(* (Receiver::workerLoop, Sender::workerLoop and main.py) rely on it.      *)
(* Module ShmRing is the code; it is shown to implement this module.       *)
(***************************************************************************)
EXTENDS Integers, Sequences

CONSTANTS
    Cap,        \* bytes in the ring (the header field `capacity')
    Hdr,        \* bytes of an AudioFrameHeader
    Sizes,      \* the payload sizes a writer offers
    MaxOffers,  \* BOUND: how many frames the writer offers in a behaviour
    MayCrash    \* TRUE when the reading process may die with a frame in hand

VARIABLES
    log,        \* payload size of every frame accepted so far
    refused,    \* payload size of every frame refused so far
    taken,      \* frames 1..taken of the log have left the queue
    bytesIn,    \* bytes the accepted frames occupied
    bytesOut,   \* bytes the taken frames occupied
    hand,       \* the frame the reader holds and has not used yet, 0 for none
    got         \* the frames the reader used, in the order it used them

vars == <<log, refused, taken, bytesIn, bytesOut, hand, got>>

Init ==
    /\ log = <<>>
    /\ refused = <<>>
    /\ taken = 0
    /\ bytesIn = 0
    /\ bytesOut = 0
    /\ hand = 0
    /\ got = <<>>

-----------------------------------------------------------------------------
\* One byte of the ring always stays free: a full ring must not look empty.
Fits(s) == (bytesIn - bytesOut) + Hdr + s < Cap

Offering == Len(log) + Len(refused) < MaxOffers

\* writeFrame returns true: the whole frame is in the queue.
Put(s) ==
    /\ Offering
    /\ Fits(s)
    /\ log' = Append(log, s)
    /\ bytesIn' = bytesIn + Hdr + s
    /\ UNCHANGED <<refused, taken, bytesOut, hand, got>>

\* writeFrame returns false: nothing of the frame is in the queue.
Refuse(s) ==
    /\ Offering
    /\ ~Fits(s)
    /\ refused' = Append(refused, s)
    /\ UNCHANGED <<log, taken, bytesIn, bytesOut, hand, got>>

Takeable == taken < Len(log)
Oldest   == taken + 1

\* readFrame returns false: nothing to read.
Empty ==
    /\ hand = 0
    /\ ~Takeable
    /\ UNCHANGED vars

\* readFrame returns the oldest frame and gives its bytes back to the writer.
Get ==
    /\ hand = 0
    /\ Takeable
    /\ taken' = Oldest
    /\ hand' = Oldest
    /\ bytesOut' = bytesOut + Hdr + log[taken + 1]
    /\ UNCHANGED <<log, refused, bytesIn, got>>

\* The caller of readFrame uses the frame: sends it, or feeds the pipeline.
Use ==
    /\ hand # 0
    /\ got' = Append(got, hand)
    /\ hand' = 0
    /\ UNCHANGED <<log, refused, taken, bytesIn, bytesOut>>

\* The reading process dies with the frame in hand; nobody has it any more.
Lose ==
    /\ MayCrash
    /\ hand # 0
    /\ hand' = 0
    /\ UNCHANGED <<log, refused, taken, bytesIn, bytesOut, got>>

Next ==
    \/ \E s \in Sizes : Put(s) \/ Refuse(s)
    \/ Empty
    \/ Get
    \/ Use
    \/ Lose

Spec == Init /\ [][Next]_vars

\* The reader polls for ever: it takes a frame that is there, and uses it.
FairSpec == Spec /\ WF_vars(Get) /\ WF_vars(Use)

-----------------------------------------------------------------------------
\* Frames are used at most once and never out of order, also when the reader
\* dies and comes back in between (readFrame moves read_pos past a frame
\* before its caller uses the frame).
InOrder ==
    /\ \A i, j \in DOMAIN got : i < j => got[i] < got[j]
    /\ \A i \in DOMAIN got : got[i] <= taken /\ (hand # 0 => got[i] < hand)
    /\ hand # 0 => hand = taken
=============================================================================

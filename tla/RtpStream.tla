------------------------------ MODULE RtpStream -----------------------------
(***************************************************************************)
(* The way of audio from one desktop to another: Sender::workerLoop        *)
(* (transmission/src/network/sender.cpp) puts the frames of the TX ring    *)
(* into RTP packets, the network loses, duplicates and reorders them, and  *)
(* Receiver::workerLoop (receiver.cpp) counts losses and offers what comes *)
(* to the RX ring.                                                         *)
(*                                                                         *)
(* Each worker is the only thread that touches its state; the metrics they *)
(* share with main are single atomic variables.  So an iteration of either *)
(* loop is one step.                                                       *)
(***************************************************************************)
EXTENDS Integers, Sequences, FiniteSets

CONSTANTS
    SeqMod,      \* 2^16, the range of sequence_num
    TsMod,       \* 2^32, the range of the RTP timestamp
    RtpHdr,      \* bytes of an RtpHeader
    RxBuf,       \* bytes of the receiver's packet buffer
    Payloads,    \* payload sizes of frames, in bytes
    Unit,        \* the loss rate is a double; here it is in units of 1 / Unit
    Window,      \* how far apart two packets received in a row may have been sent
    Seq0,        \* numbers the sender may have reached when the receiver starts
    MaxFrames,   \* BOUND: frames sent from then on
    MaxReceived, \* BOUND: packets received
    MaxCopies    \* BOUND: copies the network makes

\* A packet is never late by half the range of sequence numbers (ten minutes).
ASSUME RtpAssumption ==
    /\ SeqMod \in Nat /\ SeqMod >= 4 /\ SeqMod % 2 = 0
    /\ TsMod \in Nat \ {0} /\ RtpHdr \in Nat \ {0}
    /\ RxBuf \in Nat /\ RxBuf >= RtpHdr
    /\ Payloads \subseteq Nat
    /\ Unit \in Nat \ {0} /\ Unit % 10 = 0
    /\ Window \in Nat /\ 2 * Window < SeqMod
    /\ Seq0 \subseteq 0 .. SeqMod - 1
    /\ MaxFrames \in Nat /\ MaxReceived \in Nat /\ MaxCopies \in Nat

VARIABLES
    \* Sender
    sequenceNum, rtpTimestamp,
    packetsSent, bytesSent,
    \* network: the packet of frame n is wire[n]; of the datagrams on their way
    \* <<n, 0>> is the one sent and <<n, k>> the copy of it made k-th
    wire, flying,
    \* Receiver
    firstPacket, lastSeqNum,
    packetsReceived, bytesReceived,
    lossRate,
    \* history
    samples,     \* samples in the frames sent so far
    lost,        \* copies the network lost
    copied,      \* copies it made
    counted,     \* packets the receiver took for lost
    got          \* the frames it offered to the RX ring, in that order

sender   == <<sequenceNum, rtpTimestamp, packetsSent, bytesSent, wire, samples>>
network  == <<flying, lost, copied>>
receiver == <<firstPacket, lastSeqNum, packetsReceived, bytesReceived, lossRate,
              counted, got>>
vars     == <<sender, network, receiver>>

Init ==
    /\ sequenceNum \in Seq0 /\ rtpTimestamp = 0
    /\ packetsSent = 0 /\ bytesSent = 0
    /\ wire = <<>>
    /\ flying = {}
    /\ firstPacket = TRUE /\ lastSeqNum = 0
    /\ packetsReceived = 0 /\ bytesReceived = 0
    /\ lossRate = 0
    /\ samples = 0 /\ lost = 0 /\ copied = 0 /\ counted = 0
    /\ got = <<>>

-----------------------------------------------------------------------------
(* Sender::workerLoop *)

\* Mutants: the number never wraps, or stays when a packet could not be sent;
\* and a packet is counted before it is known to be sent.
NextSeq_NoWrap(sent) == sequenceNum + 1
NextSeq_IfSent(sent) == IF sent THEN (sequenceNum + 1) % SeqMod ELSE sequenceNum
CountSent_Always(sent) == 1

NextSeq(sent)   == (sequenceNum + 1) % SeqMod
CountSent(sent) == IF sent THEN 1 ELSE 0

\* Mutant: the packet carries the time of its last sample.
Stamp_End(size) == (rtpTimestamp + size \div 2) % TsMod

Stamp(size) == rtpTimestamp

\* readFrame gave a frame; the frame has left the ring whether or not sendto
\* succeeds.
Send(size, sent) ==
    /\ Len(wire) < MaxFrames
    /\ wire' = Append(wire, [seq |-> sequenceNum, timestamp |-> Stamp(size),
                             start |-> samples, bytes |-> RtpHdr + size])
    /\ sequenceNum' = NextSeq(sent)
    /\ rtpTimestamp' = (rtpTimestamp + size \div 2) % TsMod
    /\ samples' = samples + size \div 2
    /\ packetsSent' = packetsSent + CountSent(sent)
    /\ bytesSent' = bytesSent + CountSent(sent) * (RtpHdr + size)
    /\ flying' = IF sent THEN flying \cup {<<Len(wire) + 1, 0>>} ELSE flying
    /\ UNCHANGED <<lost, copied, receiver>>

-----------------------------------------------------------------------------
(* UDP *)

Lose(n, k) ==
    /\ <<n, k>> \in flying
    /\ flying' = flying \ {<<n, k>>}
    /\ lost' = lost + 1
    /\ UNCHANGED <<sender, copied, receiver>>

Copy(n, k) ==
    /\ <<n, k>> \in flying
    /\ copied < MaxCopies
    /\ flying' = flying \cup {<<n, copied + 1>>}
    /\ copied' = copied + 1
    /\ UNCHANGED <<sender, lost, receiver>>

\* The network may hand packet n over next.
Arrives(n) ==
    /\ Len(got) < MaxReceived
    /\ got # <<>> => n - got[Len(got)] \in -Window .. Window

-----------------------------------------------------------------------------
(* Receiver::workerLoop *)

\* static_cast<int16_t>: the residue of x nearest to zero.
Signed(x) == LET r == x % SeqMod IN IF r < SeqMod \div 2 THEN r ELSE r - SeqMod

\* Mutant: the difference is taken as it is.
Diff_Plain(seq) == seq - lastSeqNum

Diff(seq) == Signed(seq - lastSeqNum)

\* Packets taken for lost on the arrival of number seq.
Missed(seq) == IF ~firstPacket /\ Diff(seq) > 1 THEN Diff(seq) - 1 ELSE 0

\* The rate decays only when something was lost.
NewRate(m) ==
    IF m = 0 THEN lossRate ELSE (lossRate * 9) \div 10 + m * (Unit \div 10)

\* recvfrom cuts what the buffer has no room for; the sender's buffer grows.
BytesRead(n) == IF wire[n].bytes < RxBuf THEN wire[n].bytes ELSE RxBuf

\* Whatever arrives is counted and offered to the RX ring, late or twice; when
\* the ring is full it is dropped there.
Receive(n, k) ==
    LET seq == wire[n].seq
    IN  /\ <<n, k>> \in flying /\ Arrives(n)
        /\ flying' = flying \ {<<n, k>>}
        /\ lossRate' = NewRate(Missed(seq))
        /\ counted' = counted + Missed(seq)
        /\ firstPacket' = FALSE
        /\ lastSeqNum' = seq
        /\ packetsReceived' = packetsReceived + 1
        /\ bytesReceived' = bytesReceived + BytesRead(n)
        /\ got' = Append(got, n)
        /\ UNCHANGED <<sender, lost, copied>>

\* poll timed out, or a datagram shorter than an RtpHeader came.
ReceiveNothing == UNCHANGED vars

Next ==
    \/ \E size \in Payloads, sent \in BOOLEAN : Send(size, sent)
    \/ \E n \in 1 .. Len(wire), k \in 0 .. MaxCopies :
           Lose(n, k) \/ Copy(n, k) \/ Receive(n, k)
    \/ ReceiveNothing

Spec == Init /\ [][Next]_vars

-----------------------------------------------------------------------------
TypeOK ==
    /\ sequenceNum \in 0 .. SeqMod - 1 /\ lastSeqNum \in 0 .. SeqMod - 1
    /\ rtpTimestamp \in 0 .. TsMod - 1
    /\ packetsSent \in Nat /\ bytesSent \in Nat
    /\ packetsReceived \in Nat /\ bytesReceived \in Nat
    /\ wire \in Seq([seq : 0 .. SeqMod - 1, timestamp : 0 .. TsMod - 1,
                     start : Nat, bytes : Nat])
    /\ flying \subseteq (1 .. Len(wire)) \X (0 .. copied)
    /\ firstPacket \in BOOLEAN
    /\ lossRate \in Nat /\ samples \in Nat
    /\ lost \in Nat /\ copied \in Nat /\ counted \in Nat
    /\ got \in Seq(1 .. Len(wire))

\* What was received, and what was not between the oldest and the newest.
Got     == {got[i] : i \in DOMAIN got}
Missing == {n \in 1 .. Len(wire) :
               n \notin Got /\ (\E g \in Got : g < n) /\ (\E g \in Got : n < g)}

\* The packets received so far came in the order they were sent, each once.
InOrder == \A i, j \in DOMAIN got : i < j => got[i] < got[j]

\* As long as they did, what the receiver counts as lost is what is missing,
\* to the packet: those the network lost and those whose sendto failed, also
\* where the numbers wrap.
LossExact ==
    InOrder => counted = Cardinality({n \in Missing : n > got[1]})

\* Over any network whose packets are not late by half the range of numbers,
\* no loss goes unnoticed: each missing packet has been counted, though what
\* comes late or twice makes the receiver count packets that are not lost.
LossCovered ==
    got # <<>> => counted >= Cardinality({n \in Missing : n > got[1]})

\* The counters of the two ends account for each other: what was sent and
\* copied was received, lost, or is on its way; a failed send is nobody's.
CountersAgree ==
    packetsSent + copied = packetsReceived + lost + Cardinality(flying)

\* A receiver can place each packet from its numbers alone: the timestamp is
\* the number of samples before it, those of packets that failed included,
\* and the packets of consecutive numbers leave no gap.
PacketsPlaced ==
    \A n \in 1 .. Len(wire) :
        /\ wire[n].timestamp = wire[n].start % TsMod
        /\ n > 1 => Signed(wire[n].seq - wire[n - 1].seq) = 1
=============================================================================

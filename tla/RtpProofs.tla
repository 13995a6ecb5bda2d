------------------------------ MODULE RtpProofs ------------------------------
(***************************************************************************)
(* What the receiver of RtpStream knows of losses, for every width of the  *)
(* numbers, window of the network and number of packets.                   *)
(*                                                                         *)
(* The argument: packets carry consecutive numbers modulo SeqMod (WireInv),*)
(* so for packets less than half the range apart the 16-bit difference is  *)
(* the true one (SignedDiff).  A packet that comes d after the last one    *)
(* then adds at most the d - 1 packets between the two to what is missing, *)
(* and the receiver counts d - 1; while the order is kept it adds exactly  *)
(* those.  The counters of the two ends are the account of one finite set, *)
(* the datagrams on their way.                                             *)
(***************************************************************************)
EXTENDS RtpStream, FiniteSetTheorems, SequenceTheorems, TLAPS

(***************************************************************************)
(* Arithmetic modulo the range of a number                                 *)
(***************************************************************************)

\* Quotient and remainder, as the solver can use them.
LEMMA DivMod ==
    ASSUME NEW M \in Nat \ {0}, NEW a \in Nat
    PROVE  /\ a \div M \in Nat
           /\ a = M * (a \div M) + (a % M)
           /\ a % M \in 0 .. M - 1
OBVIOUS

\* A remainder is determined by its equation.
LEMMA ModUnique ==
    ASSUME NEW M \in Nat \ {0}, NEW a \in Int, NEW q \in Int, NEW r \in 0 .. M - 1,
           a = M * q + r
    PROVE  a % M = r
OBVIOUS

LEMMA Distribute ==
    ASSUME NEW M \in Int, NEW p \in Int, NEW q \in Int
    PROVE  /\ M * p \in Int /\ M * q \in Int
           /\ M * (p + q) = M * p + M * q
           /\ M * (p - q) = M * p - M * q
OBVIOUS

\* Moving on from a wrapped number is moving on and then wrapping.
LEMMA AddMod ==
    ASSUME NEW M \in Nat \ {0}, NEW a \in Nat, NEW k \in Nat
    PROVE  ((a % M) + k) % M = (a + k) % M
<1>1. /\ a \div M \in Nat /\ a % M \in 0 .. M - 1
      /\ a = M * (a \div M) + (a % M)
  BY DivMod
<1> DEFINE r == a % M
           qa == a \div M
           b  == r + k
<1> HIDE DEF r, qa
<1>2. r \in Nat /\ qa \in Nat /\ a = M * qa + r /\ b \in Nat /\ b = r + k
  BY <1>1 DEF r, qa
<1> HIDE DEF b
<1>3. /\ b \div M \in Nat /\ b % M \in 0 .. M - 1
      /\ b = M * (b \div M) + (b % M)
  BY <1>2, DivMod
<1> DEFINE qb == b \div M
           rb == b % M
<1> HIDE DEF qb, rb
<1>4. qb \in Nat /\ rb \in 0 .. M - 1 /\ b = M * qb + rb
  BY <1>3 DEF qb, rb
<1>5. a + k = M * (qa + qb) + rb
  <2>1. M * (qa + qb) = M * qa + M * qb
    BY <1>2, <1>4, Distribute
  <2>2. M * qa \in Int /\ M * qb \in Int
    BY <1>2, <1>4
  <2> QED
    BY <1>2, <1>4, <2>1, <2>2
<1>6. (a + k) % M = rb
  <2>1. a + k \in Int /\ qa + qb \in Int
    BY <1>2, <1>4
  <2> QED
    BY <1>4, <1>5, <2>1, ModUnique
<1> QED
  BY <1>6 DEF rb, b, r

\* Two quantities less than half the range apart: the difference of the
\* wrapped numbers, cast to a signed integer, is the true one.
LEMMA SignedDiff ==
    ASSUME NEW a \in Nat, NEW b \in Nat,
           2 * (a - b) < SeqMod, 2 * (b - a) < SeqMod
    PROVE  Signed((a % SeqMod) - (b % SeqMod)) = a - b
<1> DEFINE qa == a \div SeqMod
           qb == b \div SeqMod
           ra == a % SeqMod
           rb == b % SeqMod
           h  == SeqMod \div 2
<1>0. SeqMod \in Nat \ {0} /\ h \in Nat /\ SeqMod = 2 * h
  BY RtpAssumption
<1>1. /\ a = SeqMod * qa + ra /\ qa \in Nat /\ ra \in 0 .. SeqMod - 1
      /\ b = SeqMod * qb + rb /\ qb \in Nat /\ rb \in 0 .. SeqMod - 1
  BY <1>0, DivMod
<1> SUFFICES Signed(ra - rb) = a - b
  OBVIOUS
<1> HIDE DEF qa, qb, ra, rb
<1>2. ra - rb = (a - b) + SeqMod * (qb - qa)
  <2>1. /\ SeqMod * (qb - qa) = SeqMod * qb - SeqMod * qa
        /\ SeqMod * qb \in Int /\ SeqMod * qa \in Int
    BY <1>0, <1>1, Distribute
  <2> QED
    BY <1>0, <1>1, <2>1
<1>3. CASE a >= b
  <2>1. a - b \in 0 .. SeqMod - 1 /\ a - b < h
    BY <1>0, <1>3
  <2>2. (ra - rb) % SeqMod = a - b
    <3>1. ra - rb = SeqMod * (qb - qa) + (a - b) /\ ra - rb \in Int /\ qb - qa \in Int
      <4>1. SeqMod * (qb - qa) \in Int
        BY <1>0, <1>1, Distribute
      <4> QED
        BY <1>1, <1>2, <4>1
    <3> QED
      BY <1>0, <2>1, <3>1, ModUnique
  <2> QED
    BY <1>0, <2>1, <2>2 DEF Signed
<1>4. CASE a < b
  <2>1. a - b + SeqMod \in 0 .. SeqMod - 1 /\ ~(a - b + SeqMod < h)
    BY <1>0, <1>4
  <2>2. ra - rb = SeqMod * ((qb - qa) - 1) + (a - b + SeqMod)
    <3>1. /\ SeqMod * ((qb - qa) - 1) = SeqMod * (qb - qa) - SeqMod * 1
          /\ SeqMod * (qb - qa) \in Int
      BY <1>0, <1>1, Distribute
    <3> QED
      BY <1>0, <1>1, <1>2, <3>1
  <2>3. (ra - rb) % SeqMod = a - b + SeqMod
    <3>1. ra - rb \in Int /\ (qb - qa) - 1 \in Int
      BY <1>1
    <3> QED
      BY <1>0, <2>1, <2>2, <3>1, ModUnique
  <2> QED
    BY <1>0, <1>1, <2>1, <2>3 DEF Signed
<1> QED
  BY <1>3, <1>4

(***************************************************************************)
(* Types                                                                   *)
(***************************************************************************)

Packet == [seq : 0 .. SeqMod - 1, timestamp : 0 .. TsMod - 1, start : Nat, bytes : Nat]

TypedInv ==
    /\ TypeOK
    /\ Len(wire) <= MaxFrames /\ copied <= MaxCopies

LEMMA Numbers ==
    /\ SeqMod \in Nat \ {0} /\ TsMod \in Nat \ {0} /\ RtpHdr \in Nat
    /\ \A size \in Payloads : size \in Nat /\ size \div 2 \in Nat
<1>1. SeqMod \in Nat \ {0} /\ TsMod \in Nat \ {0} /\ RtpHdr \in Nat
  BY RtpAssumption
<1>2. ASSUME NEW size \in Payloads PROVE size \in Nat /\ size \div 2 \in Nat
  <2>1. size \in Nat
    BY RtpAssumption
  <2> QED
    BY <2>1
<1> QED
  BY <1>1, <1>2

LEMMA InitTyped == Init => TypedInv
<1> SUFFICES ASSUME Init PROVE TypedInv
  OBVIOUS
<1> USE RtpAssumption DEF Init
<1>1. wire \in Seq(Packet) /\ got \in Seq(1 .. Len(wire)) /\ Len(wire) = 0
  OBVIOUS
<1>2. /\ sequenceNum \in 0 .. SeqMod - 1 /\ lastSeqNum \in 0 .. SeqMod - 1
      /\ rtpTimestamp \in 0 .. TsMod - 1
  OBVIOUS
<1> QED
  BY <1>1, <1>2 DEF TypedInv, TypeOK, Packet

\* What a Send does to the packets.
LEMMA SendEffect ==
    ASSUME TypedInv, NEW size \in Payloads, NEW sent \in BOOLEAN, Send(size, sent)
    PROVE  /\ Len(wire) \in Nat /\ Len(wire') = Len(wire) + 1
           /\ wire' \in Seq(Packet)
           /\ \A n \in 1 .. Len(wire) : wire'[n] = wire[n]
           /\ wire'[Len(wire) + 1].seq = sequenceNum
           /\ wire'[Len(wire) + 1].timestamp = rtpTimestamp
           /\ wire'[Len(wire) + 1].start = samples
           /\ sequenceNum' = (sequenceNum + 1) % SeqMod
           /\ rtpTimestamp' = (rtpTimestamp + size \div 2) % TsMod
           /\ samples' = samples + size \div 2
<1> DEFINE p == [seq |-> sequenceNum, timestamp |-> rtpTimestamp, start |-> samples,
                 bytes |-> RtpHdr + size]
<1>1. p \in Packet
  BY Numbers DEF TypedInv, TypeOK, Packet
<1>2. wire \in Seq(Packet)
  BY DEF TypedInv, TypeOK, Packet
<1>3. wire' = Append(wire, p)
  BY DEF Send, Stamp
<1>4. p.seq = sequenceNum /\ p.timestamp = rtpTimestamp /\ p.start = samples
  OBVIOUS
<1> HIDE DEF p
<1>5. /\ Len(wire') = Len(wire) + 1 /\ wire' \in Seq(Packet)
      /\ \A n \in 1 .. Len(wire) : wire'[n] = wire[n]
      /\ wire'[Len(wire) + 1] = p /\ Len(wire) \in Nat
  BY <1>1, <1>2, <1>3, AppendProperties, LenProperties
<1>6. /\ sequenceNum' = (sequenceNum + 1) % SeqMod
      /\ rtpTimestamp' = (rtpTimestamp + size \div 2) % TsMod
      /\ samples' = samples + size \div 2
  BY DEF Send, NextSeq
<1> QED
  BY <1>4, <1>5, <1>6

\* What a Receive does to what was received.
LEMMA ReceiveEffect ==
    ASSUME TypedInv, NEW n \in 1 .. Len(wire), NEW k \in 0 .. MaxCopies, Receive(n, k)
    PROVE  /\ Len(got) \in Nat /\ Len(got') = Len(got) + 1
           /\ got' \in Seq(1 .. Len(wire)) /\ got' # <<>>
           /\ \A i \in 1 .. Len(got) : got'[i] = got[i]
           /\ got'[Len(got) + 1] = n
           /\ wire' = wire /\ lastSeqNum' = wire[n].seq /\ ~firstPacket'
           /\ counted' = counted + Missed(wire[n].seq)
<1>1. got \in Seq(1 .. Len(wire))
  BY DEF TypedInv, TypeOK
<1>2. got' = Append(got, n)
  BY DEF Receive
<1>3. /\ Len(got') = Len(got) + 1 /\ got' \in Seq(1 .. Len(wire)) /\ got' # <<>>
      /\ \A i \in 1 .. Len(got) : got'[i] = got[i]
      /\ got'[Len(got) + 1] = n /\ Len(got) \in Nat
  BY <1>1, <1>2, AppendProperties, LenProperties
<1> QED
  BY <1>3 DEF Receive, sender

LEMMA MissedType ==
    ASSUME TypedInv, NEW seq \in 0 .. SeqMod - 1
    PROVE  Missed(seq) \in Nat
<1>1. seq - lastSeqNum \in Int
  BY DEF TypedInv, TypeOK
<1>2. Signed(seq - lastSeqNum) \in Int
  BY <1>1, RtpAssumption DEF Signed
<1> QED
  BY <1>2 DEF Missed, Diff

LEMMA RateType ==
    ASSUME NEW m \in Nat, lossRate \in Nat
    PROVE  NewRate(m) \in Nat
<1>1. Unit \div 10 \in Nat
  BY RtpAssumption
<1> DEFINE u == Unit \div 10
<1>2. u \in Nat
  BY <1>1
<1> HIDE DEF u
<1>3. m * u \in Nat
  BY <1>2
<1>4. (lossRate * 9) \div 10 \in Nat
  OBVIOUS
<1> QED
  BY <1>3, <1>4 DEF NewRate, u

LEMMA TypedStep == TypedInv /\ [Next]_vars => TypedInv'
<1> SUFFICES ASSUME TypedInv, [Next]_vars PROVE TypedInv'
  OBVIOUS
<1>0. /\ MaxFrames \in Nat /\ MaxReceived \in Nat /\ MaxCopies \in Nat
      /\ wire \in Seq(Packet) /\ got \in Seq(1 .. Len(wire)) /\ Len(wire) \in Nat
      /\ flying \subseteq (1 .. Len(wire)) \X (0 .. copied) /\ copied \in Nat
  BY RtpAssumption, LenProperties DEF TypedInv, TypeOK, Packet
<1>1. ASSUME NEW size \in Payloads, NEW sent \in BOOLEAN, Send(size, sent)
      PROVE  TypedInv'
  <2>1. /\ sequenceNum' \in 0 .. SeqMod - 1 /\ rtpTimestamp' \in 0 .. TsMod - 1
        /\ samples' \in Nat
    <3>1. sequenceNum + 1 \in Nat /\ rtpTimestamp + size \div 2 \in Nat /\ samples \in Nat
      BY Numbers DEF TypedInv, TypeOK
    <3>2. /\ sequenceNum' = (sequenceNum + 1) % SeqMod
          /\ rtpTimestamp' = (rtpTimestamp + size \div 2) % TsMod
          /\ samples' = samples + size \div 2
      BY <1>1, SendEffect
    <3>3. (sequenceNum + 1) % SeqMod \in 0 .. SeqMod - 1
      BY <3>1, Numbers, DivMod
    <3>4. (rtpTimestamp + size \div 2) % TsMod \in 0 .. TsMod - 1
      BY <3>1, Numbers, DivMod
    <3> QED
      BY <3>1, <3>2, <3>3, <3>4, Numbers
  <2>2. packetsSent' \in Nat /\ bytesSent' \in Nat
    <3>1. CountSent(sent) \in {0, 1} /\ RtpHdr + size \in Nat
      BY Numbers DEF CountSent
    <3>2. packetsSent' = packetsSent + CountSent(sent)
          /\ bytesSent' = bytesSent + CountSent(sent) * (RtpHdr + size)
      BY <1>1 DEF Send
    <3>3. packetsSent \in Nat /\ bytesSent \in Nat
      BY DEF TypedInv, TypeOK
    <3>4. CASE CountSent(sent) = 0
      BY <3>1, <3>2, <3>3, <3>4
    <3>5. CASE CountSent(sent) = 1
      BY <3>1, <3>2, <3>3, <3>5
    <3> QED
      BY <3>1, <3>4, <3>5
  <2>3. /\ wire' \in Seq(Packet) /\ got' \in Seq(1 .. Len(wire'))
        /\ Len(wire') <= MaxFrames
    <3>1. Len(wire') = Len(wire) + 1 /\ wire' \in Seq(Packet) /\ Len(wire) < MaxFrames
      BY <1>1, SendEffect DEF Send
    <3>2. got \in Seq(1 .. Len(wire'))
      <4>1. 1 .. Len(wire) \subseteq 1 .. Len(wire')
        BY <1>0, <3>1
      <4> QED
        BY <1>0, <4>1, SeqMonotonic
    <3>3. got' = got
      BY <1>1 DEF Send, receiver
    <3> QED
      BY <1>0, <3>1, <3>2, <3>3
  <2>4. flying' \subseteq (1 .. Len(wire')) \X (0 .. copied')
    <3>1. Len(wire') = Len(wire) + 1 /\ copied' = copied
      BY <1>1, SendEffect DEF Send
    <3>2. flying' \subseteq flying \cup {<<Len(wire) + 1, 0>>}
      BY <1>1 DEF Send
    <3>3. 1 .. Len(wire) \subseteq 1 .. Len(wire') /\ Len(wire) + 1 \in 1 .. Len(wire')
      BY <1>0, <3>1
    <3> QED
      BY <1>0, <3>1, <3>2, <3>3
  <2> QED
    BY <1>1, <2>1, <2>2, <2>3, <2>4 DEF TypedInv, TypeOK, Packet, Send, receiver
<1>2. ASSUME NEW n \in 1 .. Len(wire), NEW k \in 0 .. MaxCopies, Lose(n, k) PROVE TypedInv'
  <2>1. flying' \subseteq flying /\ UNCHANGED <<sender, copied, receiver>>
    BY <1>2 DEF Lose
  <2>2. lost' \in Nat
    BY <1>2 DEF TypedInv, TypeOK, Lose
  <2> QED
    BY <2>1, <2>2 DEF TypedInv, TypeOK, sender, receiver
<1>3. ASSUME NEW n \in 1 .. Len(wire), NEW k \in 0 .. MaxCopies, Copy(n, k) PROVE TypedInv'
  <2>1. copied' = copied + 1 /\ copied' <= MaxCopies
    BY <1>0, <1>3 DEF Copy
  <2>2. flying' \subseteq (1 .. Len(wire')) \X (0 .. copied')
    <3>1. flying' = flying \cup {<<n, copied + 1>>} /\ wire' = wire
      BY <1>3 DEF Copy, sender
    <3>2. 0 .. copied \subseteq 0 .. copied' /\ copied + 1 \in 0 .. copied'
      BY <1>0, <2>1
    <3> QED
      BY <1>0, <3>1, <3>2
  <2>3. copied' \in Nat
    BY <1>0, <2>1
  <2>4. UNCHANGED <<sender, lost, receiver>>
    BY <1>3 DEF Copy
  <2> QED
    BY <2>1, <2>2, <2>3, <2>4 DEF TypedInv, TypeOK, sender, receiver
<1>4. ASSUME NEW n \in 1 .. Len(wire), NEW k \in 0 .. MaxCopies, Receive(n, k) PROVE TypedInv'
  <2>1. n \in 1 .. MaxFrames /\ wire[n] \in Packet
    BY <1>0, ElementOfSeq DEF TypedInv
  <2>2. flying' \subseteq flying
    BY <1>4 DEF Receive
  <2>3. wire[n].seq \in 0 .. SeqMod - 1 /\ wire[n].bytes \in Nat
    BY <2>1 DEF Packet
  <2>4. Missed(wire[n].seq) \in Nat
    BY <2>3, MissedType
  <2>5. lossRate' \in Nat /\ counted' \in Nat
    <3>1. /\ lossRate' = NewRate(Missed(wire[n].seq))
          /\ counted' = counted + Missed(wire[n].seq)
      BY <1>4 DEF Receive
    <3>2. lossRate \in Nat /\ counted \in Nat
      BY DEF TypedInv, TypeOK
    <3>3. NewRate(Missed(wire[n].seq)) \in Nat
      BY <2>4, <3>2, RateType
    <3> QED
      BY <2>4, <3>1, <3>2, <3>3
  <2>6. packetsReceived' \in Nat /\ bytesReceived' \in Nat
    <3>1. /\ packetsReceived' = packetsReceived + 1
          /\ bytesReceived' = bytesReceived + BytesRead(n)
      BY <1>4 DEF Receive
    <3>2. BytesRead(n) \in Nat
      BY <2>3, RtpAssumption DEF BytesRead
    <3>3. packetsReceived \in Nat /\ bytesReceived \in Nat
      BY DEF TypedInv, TypeOK
    <3> HIDE DEF BytesRead
    <3> QED
      BY <3>1, <3>2, <3>3
  <2>7. got' \in Seq(1 .. Len(wire')) /\ lastSeqNum' \in 0 .. SeqMod - 1
        /\ firstPacket' \in BOOLEAN
    <3>1. got' \in Seq(1 .. Len(wire)) /\ wire' = wire /\ lastSeqNum' = wire[n].seq
      BY <1>4, ReceiveEffect
    <3>2. firstPacket' = FALSE
      BY <1>4 DEF Receive
    <3>3. got' \in Seq(1 .. Len(wire'))
      BY <3>1
    <3> QED
      BY <2>3, <3>1, <3>2, <3>3
  <2> QED
    BY <1>4, <2>2, <2>5, <2>6, <2>7 DEF TypedInv, TypeOK, Receive, sender
<1>5. CASE UNCHANGED vars
  BY <1>5 DEF TypedInv, TypeOK, vars, sender, network, receiver
<1> QED
  BY <1>1, <1>2, <1>3, <1>4, <1>5 DEF Next, ReceiveNothing

LEMMA TypedAlways == Spec => []TypedInv
BY InitTyped, TypedStep, PTL DEF Spec

\* Type correctness of Sender, Receiver and the network between them.
THEOREM StreamTyped == Spec => []TypeOK
<1>1. TypedInv => TypeOK
  BY DEF TypedInv
<1> QED
  BY <1>1, TypedAlways, PTL

(***************************************************************************)
(* Numbers and timestamps                                                  *)
(***************************************************************************)

Numbered(s) ==
    /\ sequenceNum = (s + Len(wire)) % SeqMod
    /\ \A n \in 1 .. Len(wire) : wire[n].seq = (s + (n - 1)) % SeqMod

\* From the first number on, packets count up and wrap; timestamps count the
\* samples and wrap.
WireInv ==
    /\ rtpTimestamp = samples % TsMod
    /\ \A n \in 1 .. Len(wire) : wire[n].timestamp = wire[n].start % TsMod
    /\ \E s \in Seq0 : Numbered(s)

LEMMA WireAlways == Spec => []WireInv
<1>1. Init => WireInv
  <2> SUFFICES ASSUME Init PROVE WireInv
    OBVIOUS
  <2>1. sequenceNum \in Seq0 /\ sequenceNum \in 0 .. SeqMod - 1 /\ Len(wire) = 0
    BY RtpAssumption DEF Init
  <2>2. sequenceNum % SeqMod = sequenceNum
    BY <2>1, Numbers, ModUnique
  <2>3. 0 % TsMod = 0
    BY Numbers, ModUnique
  <2>4. Numbered(sequenceNum)
    BY <2>1, <2>2 DEF Numbered
  <2> QED
    BY <2>1, <2>3, <2>4 DEF WireInv, Init
<1>2. TypedInv /\ WireInv /\ [Next]_vars => WireInv'
  <2> SUFFICES ASSUME TypedInv, WireInv, [Next]_vars PROVE WireInv'
    OBVIOUS
  <2>1. ASSUME NEW size \in Payloads, NEW sent \in BOOLEAN, Send(size, sent)
        PROVE  WireInv'
    <3> DEFINE L == Len(wire)
    <3>1. /\ L \in Nat /\ Len(wire') = L + 1
          /\ \A n \in 1 .. L : wire'[n] = wire[n]
          /\ wire'[L + 1].seq = sequenceNum
          /\ wire'[L + 1].timestamp = rtpTimestamp
          /\ wire'[L + 1].start = samples
          /\ sequenceNum' = (sequenceNum + 1) % SeqMod
          /\ rtpTimestamp' = (rtpTimestamp + size \div 2) % TsMod
          /\ samples' = samples + size \div 2
      BY <2>1, SendEffect
    <3>2. rtpTimestamp' = samples' % TsMod
      <4>1. samples \in Nat /\ size \div 2 \in Nat /\ TsMod \in Nat \ {0}
        BY Numbers DEF TypedInv, TypeOK
      <4>2. ((samples % TsMod) + size \div 2) % TsMod = (samples + size \div 2) % TsMod
        BY <4>1, AddMod
      <4> QED
        BY <3>1, <4>2 DEF WireInv
    <3>3. ASSUME NEW n \in 1 .. L + 1
          PROVE  wire'[n].timestamp = wire'[n].start % TsMod
      <4>1. CASE n = L + 1
        BY <3>1, <4>1 DEF WireInv
      <4>2. CASE n \in 1 .. L
        BY <3>1, <4>2 DEF WireInv
      <4> QED
        BY <3>1, <4>1, <4>2
    <3>4. PICK s \in Seq0 : Numbered(s)
      BY DEF WireInv
    <3>5. sequenceNum' = (s + (L + 1)) % SeqMod
      <4>1. s \in Nat /\ s + L \in Nat /\ SeqMod \in Nat \ {0} /\ (s + L) + 1 = s + (L + 1)
        BY <3>1, RtpAssumption
      <4>2. (((s + L) % SeqMod) + 1) % SeqMod = ((s + L) + 1) % SeqMod
        BY <4>1, AddMod
      <4> QED
        BY <3>1, <3>4, <4>1, <4>2 DEF Numbered
    <3>6. ASSUME NEW n \in 1 .. L + 1
          PROVE  wire'[n].seq = (s + (n - 1)) % SeqMod
      <4>1. CASE n = L + 1
        <5>1. n - 1 = L
          BY <3>1, <4>1
        <5> QED
          BY <3>1, <3>4, <4>1, <5>1 DEF Numbered
      <4>2. CASE n \in 1 .. L
        BY <3>1, <3>4, <4>2 DEF Numbered
      <4> QED
        BY <3>1, <4>1, <4>2
    <3>7. Numbered(s)'
      BY <3>1, <3>5, <3>6 DEF Numbered
    <3> QED
      BY <3>1, <3>2, <3>3, <3>7 DEF WireInv
  <2>2. CASE UNCHANGED sender
    BY <2>2 DEF WireInv, Numbered, sender
  <2> QED
    BY <2>1, <2>2 DEF Next, Lose, Copy, Receive, ReceiveNothing, vars
<1> QED
  BY <1>1, <1>2, TypedAlways, PTL DEF Spec

\* A receiver can place every packet from its numbers alone, also where the
\* numbers and the timestamps wrap and where sendto failed.
THEOREM PacketsPlacedAlways == Spec => []PacketsPlaced
<1>1. TypedInv /\ WireInv => PacketsPlaced
  <2> SUFFICES ASSUME TypedInv, WireInv,
                      NEW n \in 1 .. Len(wire), n > 1
               PROVE  Signed(wire[n].seq - wire[n - 1].seq) = 1
    BY DEF PacketsPlaced, WireInv
  <2>1. PICK s \in Seq0 : Numbered(s)
    BY DEF WireInv
  <2>2. Len(wire) \in Nat
    BY LenProperties DEF TypedInv, TypeOK
  <2> DEFINE a == s + (n - 1)
             b == s + ((n - 1) - 1)
  <2>3. wire[n].seq = a % SeqMod /\ wire[n - 1].seq = b % SeqMod
    BY <2>1, <2>2 DEF Numbered
  <2>4. a \in Nat /\ b \in Nat /\ a - b = 1 /\ b - a = -1
    BY <2>2, RtpAssumption
  <2> HIDE DEF a, b
  <2>5. 2 * (a - b) < SeqMod /\ 2 * (b - a) < SeqMod
    BY <2>4, RtpAssumption
  <2> QED
    BY <2>3, <2>4, <2>5, SignedDiff
<1> QED
  BY <1>1, TypedAlways, WireAlways, PTL

(***************************************************************************)
(* Losses                                                                  *)
(***************************************************************************)

\* The receiver remembers the number of the packet that came last.
LastInv ==
    /\ firstPacket <=> got = <<>>
    /\ got # <<>> => lastSeqNum = wire[got[Len(got)]].seq

LEMMA LastAlways == Spec => []LastInv
<1>1. Init => LastInv
  BY DEF Init, LastInv
<1>2. TypedInv /\ LastInv /\ [Next]_vars => LastInv'
  <2> SUFFICES ASSUME TypedInv, LastInv, [Next]_vars PROVE LastInv'
    OBVIOUS
  <2>1. ASSUME NEW size \in Payloads, NEW sent \in BOOLEAN, Send(size, sent)
        PROVE  LastInv'
    <3>1. UNCHANGED <<got, firstPacket, lastSeqNum>>
      BY <2>1 DEF Send, receiver
    <3>2. ASSUME got # <<>>
          PROVE  wire'[got[Len(got)]] = wire[got[Len(got)]]
      <4>1. got \in Seq(1 .. Len(wire))
        BY DEF TypedInv, TypeOK
      <4>2. Len(got) \in 1 .. Len(got)
        BY <3>2, <4>1, EmptySeq
      <4>3. got[Len(got)] \in 1 .. Len(wire)
        BY <4>1, <4>2, ElementOfSeq
      <4> QED
        BY <2>1, <4>3, SendEffect
    <3> QED
      BY <3>1, <3>2 DEF LastInv
  <2>2. ASSUME NEW n \in 1 .. Len(wire), NEW k \in 0 .. MaxCopies, Receive(n, k) PROVE LastInv'
    <3>1. /\ Len(got) \in Nat /\ Len(got') = Len(got) + 1 /\ got' # <<>>
          /\ got'[Len(got) + 1] = n
          /\ wire' = wire /\ lastSeqNum' = wire[n].seq /\ ~firstPacket'
      BY <2>2, ReceiveEffect
    <3> QED
      BY <3>1 DEF LastInv
  <2>3. CASE UNCHANGED <<sender, receiver>>
    BY <2>3 DEF LastInv, sender, receiver
  <2> QED
    BY <2>1, <2>2, <2>3 DEF Next, Lose, Copy, ReceiveNothing, vars
<1> QED
  BY <1>1, <1>2, TypedAlways, PTL DEF Spec

\* What the receiver counts on an arrival are the packets sent between it and
\* the last arrival.
LEMMA MissedExact ==
    ASSUME TypedInv, WireInv, LastInv, NEW n \in 1 .. Len(wire), Arrives(n)
    PROVE  /\ got = <<>> => Missed(wire[n].seq) = 0
           /\ got # <<>> =>
                  /\ got[Len(got)] \in 1 .. Len(wire)
                  /\ Missed(wire[n].seq) = IF n > got[Len(got)] + 1
                                             THEN n - got[Len(got)] - 1 ELSE 0
<1>1. CASE got = <<>>
  BY <1>1 DEF LastInv, Missed
<1>2. CASE got # <<>>
  <2> DEFINE l == got[Len(got)]
  <2>1. l \in 1 .. Len(wire) /\ Len(wire) \in Nat
    <3>1. got \in Seq(1 .. Len(wire)) /\ Len(wire) \in Nat
      BY LenProperties DEF TypedInv, TypeOK
    <3>2. Len(got) \in 1 .. Len(got)
      BY <1>2, <3>1, EmptySeq
    <3> QED
      BY <3>1, <3>2, ElementOfSeq
  <2>2. PICK s \in Seq0 : Numbered(s)
    BY DEF WireInv
  <2>3. lastSeqNum = wire[l].seq /\ ~firstPacket
    BY <1>2 DEF LastInv
  <2>4. n - l \in -Window .. Window
    BY <1>2 DEF Arrives
  <2> HIDE DEF l
  <2> DEFINE a == s + (n - 1)
             b == s + (l - 1)
  <2>5. wire[n].seq = a % SeqMod /\ lastSeqNum = b % SeqMod
    BY <2>1, <2>2, <2>3 DEF Numbered
  <2>6. a \in Nat /\ b \in Nat /\ a - b = n - l /\ b - a = l - n
    BY <2>1, RtpAssumption
  <2> HIDE DEF a, b
  <2>7. 2 * (a - b) < SeqMod /\ 2 * (b - a) < SeqMod
    BY <2>1, <2>4, <2>6, RtpAssumption
  <2>8. Diff(wire[n].seq) = n - l
    BY <2>5, <2>6, <2>7, SignedDiff DEF Diff
  <2>9. Missed(wire[n].seq) = IF n > l + 1 THEN n - l - 1 ELSE 0
    BY <2>1, <2>3, <2>8 DEF Missed
  <2> QED
    BY <1>2, <2>1, <2>9 DEF l
<1> QED
  BY <1>1, <1>2

\* The numbers above f that G leaves out below one of its own.
HolesOf(f, G) == {n \in Nat : n > f /\ n \notin G /\ (\E g \in G : n < g)}

Holes == HolesOf(got[1], Got)

\* What one more packet n adds to the holes, l being one that was there.
LEMMA HolesGrow ==
    ASSUME NEW f \in Nat, NEW G \in SUBSET Nat, NEW l \in G, f \in G, NEW n \in Nat
    PROVE  /\ HolesOf(f, G \cup {n}) \subseteq HolesOf(f, G) \cup (l + 1 .. n - 1)
           /\ (l < n /\ \A g \in G : g <= l) =>
                  /\ HolesOf(f, G \cup {n}) = HolesOf(f, G) \cup (l + 1 .. n - 1)
                  /\ HolesOf(f, G) \cap (l + 1 .. n - 1) = {}
<1>1. ASSUME NEW m \in HolesOf(f, G \cup {n}), m \notin HolesOf(f, G)
      PROVE  m \in l + 1 .. n - 1
  <2>1. m \in Nat /\ m > f /\ m \notin G /\ m # n
    BY <1>1 DEF HolesOf
  <2>2. PICK g \in G \cup {n} : m < g
    BY <1>1 DEF HolesOf
  <2>3. ~(\E x \in G : m < x)
    BY <1>1, <2>1 DEF HolesOf
  <2>4. m < n /\ ~(m < l) /\ m # l
    BY <2>1, <2>2, <2>3
  <2>5. l \in Nat
    OBVIOUS
  <2> QED
    BY <2>1, <2>4, <2>5
<1>2. ASSUME l < n, \A g \in G : g <= l
      PROVE  /\ HolesOf(f, G) \cup (l + 1 .. n - 1) \subseteq HolesOf(f, G \cup {n})
             /\ HolesOf(f, G) \cap (l + 1 .. n - 1) = {}
  <2>1. ASSUME NEW m \in HolesOf(f, G)
        PROVE  m < l /\ m \in Nat /\ m \in HolesOf(f, G \cup {n})
    <3>1. m \in Nat /\ m > f /\ m \notin G
      BY DEF HolesOf
    <3>2. PICK g \in G : m < g
      BY DEF HolesOf
    <3>3. m < l
      BY <1>2, <3>1, <3>2
    <3> QED
      BY <1>2, <3>1, <3>2, <3>3 DEF HolesOf
  <2>2. ASSUME NEW m \in l + 1 .. n - 1
        PROVE  m \in HolesOf(f, G \cup {n})
    <3>0. f <= l /\ f \in Nat /\ l \in Nat /\ n \in Nat
      BY <1>2
    <3>1. m \in Nat /\ m > f /\ m > l /\ m < n
      BY <2>2, <3>0
    <3>2. m \notin G
      BY <1>2, <3>1
    <3>3. n \in G \cup {n} /\ m \notin G \cup {n}
      BY <3>1, <3>2
    <3> QED
      BY <3>1, <3>3 DEF HolesOf
  <2> QED
    BY <2>1, <2>2
<1> QED
  BY <1>1, <1>2

\* Between packets the holes are what LossExact and LossCovered count.
LEMMA HolesMissing ==
    ASSUME TypedInv, got # <<>>
    PROVE  /\ Holes = {n \in Missing : n > got[1]}
           /\ IsFiniteSet(Holes) /\ Cardinality(Holes) \in Nat
           /\ Got \in SUBSET Nat /\ got[1] \in Got /\ got[Len(got)] \in Got
           /\ got[1] \in Nat /\ got[Len(got)] \in Nat
<1>1. /\ got \in Seq(1 .. Len(wire)) /\ Len(wire) \in Nat /\ Len(got) \in Nat \ {0}
      /\ DOMAIN got = 1 .. Len(got)
  BY EmptySeq, LenProperties DEF TypedInv, TypeOK
<1>2. \A i \in 1 .. Len(got) : got[i] \in 1 .. Len(wire)
  BY <1>1, ElementOfSeq
<1>3. /\ Got \in SUBSET (1 .. Len(wire)) /\ got[1] \in Got /\ got[Len(got)] \in Got
  BY <1>1, <1>2 DEF Got
<1>4. Got \in SUBSET Nat /\ got[1] \in Nat /\ got[Len(got)] \in Nat
  BY <1>1, <1>3
<1>5. ASSUME NEW n \in Holes PROVE n \in Missing /\ n > got[1]
  <2>1. n \in Nat /\ n > got[1] /\ n \notin Got
    BY DEF Holes, HolesOf
  <2>2. PICK g \in Got : n < g
    BY DEF Holes, HolesOf
  <2>3. n \in 1 .. Len(wire)
    BY <1>1, <1>3, <1>4, <2>1, <2>2
  <2>4. \E h \in Got : h < n
    BY <1>3, <1>4, <2>1
  <2> QED
    BY <2>1, <2>2, <2>3, <2>4 DEF Missing
<1>6. ASSUME NEW n \in Missing, n > got[1] PROVE n \in Holes
  BY <1>6, <1>1 DEF Holes, HolesOf, Missing
<1>7. Holes = {n \in Missing : n > got[1]}
  BY <1>5, <1>6
<1>8. IsFiniteSet(1 .. Len(wire))
  BY <1>1, FS_Interval
<1>9. Holes \in SUBSET (1 .. Len(wire))
  BY <1>5 DEF Missing
<1>10. IsFiniteSet(Holes)
  BY <1>8, <1>9, FS_Subset
<1> QED
  BY <1>3, <1>4, <1>7, <1>10, FS_CardinalityType

\* No hole goes uncounted, and while the order is kept nothing else is counted.
LossInv ==
    /\ got = <<>> => counted = 0
    /\ got # <<>> => counted >= Cardinality(Holes)
    /\ got # <<>> /\ InOrder => counted = Cardinality(Holes)

LEMMA FirstReceived ==
    ASSUME TypedInv, WireInv, LastInv, LossInv, NEW n \in 1 .. Len(wire),
           NEW k \in 0 .. MaxCopies, Receive(n, k), got = <<>>
    PROVE  LossInv'
<1>1. Missed(wire[n].seq) = 0
  BY MissedExact DEF Receive
<1>2. /\ counted' = counted + Missed(wire[n].seq) /\ got' # <<>>
      /\ Len(got) = 0 /\ Len(got') = Len(got) + 1 /\ got'[Len(got) + 1] = n
      /\ got' \in Seq(1 .. Len(wire))
  BY ReceiveEffect
<1>3. counted' = 0
  BY <1>1, <1>2 DEF LossInv
<1>4. Len(got') = 1 /\ got'[1] = n /\ DOMAIN got' = 1 .. 1
  BY <1>2, LenProperties
<1>5. Got' = {n} /\ n \in Nat
  <2>1. Got' = {got'[i] : i \in 1 .. 1}
    BY <1>4 DEF Got
  <2>2. Len(wire) \in Nat
    BY LenProperties DEF TypedInv, TypeOK
  <2> QED
    BY <1>4, <2>1, <2>2
<1>6. HolesOf(n, {n}) = {}
  BY <1>5 DEF HolesOf
<1>7. Holes' = {}
  BY <1>4, <1>5, <1>6 DEF Holes
<1>8. Cardinality(Holes') = 0
  BY <1>7, FS_EmptySet
<1> QED
  BY <1>2, <1>3, <1>8 DEF LossInv

LEMMA NextReceived ==
    ASSUME TypedInv, WireInv, LastInv, LossInv, NEW n \in 1 .. Len(wire),
           NEW k \in 0 .. MaxCopies, Receive(n, k), got # <<>>
    PROVE  LossInv'
<1> DEFINE l == got[Len(got)]
           f == got[1]
           d == l + 1 .. n - 1
           H == Holes
           L == Len(got)
<1>1. /\ l \in Nat /\ f \in Nat /\ Got \in SUBSET Nat /\ l \in Got /\ f \in Got
      /\ IsFiniteSet(H) /\ Cardinality(H) \in Nat
  BY HolesMissing
<1>2. /\ counted' = counted + Missed(wire[n].seq) /\ got' # <<>>
      /\ L \in Nat \ {0} /\ Len(got') = L + 1 /\ got'[L + 1] = n
      /\ \A i \in 1 .. L : got'[i] = got[i]
      /\ DOMAIN got' = 1 .. L + 1 /\ DOMAIN got = 1 .. L
  <2>1. got \in Seq(1 .. Len(wire)) /\ got' \in Seq(1 .. Len(wire))
    BY ReceiveEffect DEF TypedInv, TypeOK
  <2> QED
    BY <2>1, ReceiveEffect, EmptySeq, LenProperties
<1>3. n \in Nat /\ counted \in Nat
  <2>1. Len(wire) \in Nat
    BY LenProperties DEF TypedInv, TypeOK
  <2> QED
    BY <2>1 DEF TypedInv, TypeOK
<1>4. got'[1] = f /\ Got' = Got \cup {n}
  BY <1>2 DEF Got
<1>5. Holes' = HolesOf(f, Got \cup {n}) /\ H = HolesOf(f, Got)
  BY <1>4 DEF Holes
<1>6. IsFiniteSet(d) /\ Cardinality(d) = Missed(wire[n].seq)
  <2>1. Missed(wire[n].seq) = IF n > l + 1 THEN n - l - 1 ELSE 0
    BY MissedExact DEF Receive
  <2>2. IsFiniteSet(d) /\ Cardinality(d) = IF l + 1 > n - 1 THEN 0 ELSE (n - 1) - (l + 1) + 1
    <3>1. l + 1 \in Int /\ n - 1 \in Int
      BY <1>1, <1>3
    <3> QED
      BY <3>1, FS_Interval
  <2> HIDE DEF l
  <2> QED
    BY <1>1, <1>3, <2>1, <2>2
<1> HIDE DEF d, l, f, H
<1>7. InOrder' => InOrder /\ l < n /\ \A g \in Got : g <= l
  <2> SUFFICES ASSUME InOrder' PROVE InOrder /\ l < n /\ \A g \in Got : g <= l
    OBVIOUS
  <2>1. \A i, j \in 1 .. L + 1 : i < j => got'[i] < got'[j]
    BY <1>2 DEF InOrder
  <2>2. \A i, j \in 1 .. L : i < j => got[i] < got[j]
    BY <1>2, <2>1
  <2>3. l < n
    BY <1>2, <2>1 DEF l
  <2>4. ASSUME NEW g \in Got PROVE g <= l
    <3>1. PICK i \in 1 .. L : g = got[i]
      BY <1>2 DEF Got
    <3>2. CASE i = L
      BY <1>1, <3>1, <3>2 DEF l
    <3>3. CASE i < L
      <4>1. L \in 1 .. L
        BY <1>2
      <4>2. g < l
        BY <2>2, <3>1, <3>3, <4>1 DEF l
      <4>3. g \in Nat
        BY <1>1
      <4> QED
        BY <1>1, <4>2, <4>3
    <3>4. i = L \/ i < L
      <4>1. L \in Nat /\ i \in 1 .. L
        BY <1>2
      <4> HIDE DEF L
      <4> QED
        BY <4>1
    <3> QED
      BY <3>2, <3>3, <3>4
  <2> QED
    BY <1>2, <2>2, <2>3, <2>4 DEF InOrder
<1>8. IsFiniteSet(H \cup d) /\ Cardinality(H \cup d) = Cardinality(H) + Cardinality(d)
                                                       - Cardinality(H \cap d)
  BY <1>1, <1>6, FS_Union
<1>9. Cardinality(H \cap d) \in Nat /\ Cardinality(d) \in Nat /\ Cardinality(H \cup d) \in Nat
  <2>1. IsFiniteSet(H \cap d)
    BY <1>1, FS_Intersection
  <2> QED
    BY <1>6, <1>8, <2>1, FS_CardinalityType
<1>10. counted' >= Cardinality(Holes')
  <2>1. Holes' \in SUBSET (H \cup d)
    BY <1>1, <1>3, <1>5, HolesGrow DEF d
  <2>2. IsFiniteSet(Holes') /\ Cardinality(Holes') <= Cardinality(H \cup d)
    BY <1>8, <2>1, FS_Subset
  <2>3. Cardinality(Holes') \in Nat
    BY <2>2, FS_CardinalityType
  <2>4. counted >= Cardinality(H)
    BY DEF LossInv, H
  <2>5. counted' = counted + Cardinality(d)
    BY <1>2, <1>6
  <2> QED
    BY <1>1, <1>3, <1>8, <1>9, <2>2, <2>3, <2>4, <2>5
<1>11. ASSUME InOrder' PROVE counted' = Cardinality(Holes')
  <2>1. Holes' = H \cup d /\ H \cap d = {}
    BY <1>1, <1>3, <1>5, <1>7, <1>11, HolesGrow DEF d
  <2>2. Cardinality(H \cap d) = 0
    BY <2>1, FS_EmptySet
  <2>3. counted = Cardinality(H)
    BY <1>7, <1>11 DEF LossInv, H
  <2>4. counted' = counted + Cardinality(d)
    BY <1>2, <1>6
  <2> QED
    BY <1>1, <1>3, <1>8, <1>9, <2>1, <2>2, <2>3, <2>4
<1> QED
  BY <1>2, <1>10, <1>11 DEF LossInv

LEMMA LossAlways == Spec => []LossInv
<1>1. Init => LossInv
  BY DEF Init, LossInv
<1>2. TypedInv /\ WireInv /\ LastInv /\ LossInv /\ [Next]_vars => LossInv'
  <2> SUFFICES ASSUME TypedInv, WireInv, LastInv, LossInv, [Next]_vars PROVE LossInv'
    OBVIOUS
  <2>1. ASSUME NEW n \in 1 .. Len(wire), NEW k \in 0 .. MaxCopies, Receive(n, k) PROVE LossInv'
    BY <2>1, FirstReceived, NextReceived
  <2>2. CASE UNCHANGED receiver
    <3>1. UNCHANGED <<got, counted>>
      BY <2>2 DEF receiver
    <3> QED
      BY <3>1 DEF LossInv, Holes, Got, InOrder
  <2> QED
    BY <2>1, <2>2 DEF Next, Send, Lose, Copy, ReceiveNothing, vars
<1> QED
  BY <1>1, <1>2, TypedAlways, WireAlways, LastAlways, PTL DEF Spec

\* Whatever the network loses, copies and delays, no missing packet goes
\* uncounted.
THEOREM NoLossUnnoticed == Spec => []LossCovered
<1>1. TypedInv /\ LossInv => LossCovered
  BY HolesMissing DEF LossInv, LossCovered
<1> QED
  BY <1>1, TypedAlways, LossAlways, PTL

\* As long as packets come in the order they were sent, the receiver counts
\* the missing ones to the packet.
THEOREM LossesExact == Spec => []LossExact
<1>1. TypedInv /\ LossInv => LossExact
  <2> SUFFICES ASSUME TypedInv, LossInv, InOrder
               PROVE  counted = Cardinality({n \in Missing : n > got[1]})
    BY DEF LossExact
  <2>1. CASE got = <<>>
    <3>1. Got = {}
      BY <2>1 DEF Got
    <3>2. {n \in Missing : n > got[1]} = {}
      BY <3>1 DEF Missing
    <3>3. Cardinality({n \in Missing : n > got[1]}) = 0
      BY <3>2, FS_EmptySet
    <3> QED
      BY <2>1, <3>3 DEF LossInv
  <2>2. CASE got # <<>>
    BY <2>2, HolesMissing DEF LossInv
  <2> QED
    BY <2>1, <2>2
<1> QED
  BY <1>1, TypedAlways, LossAlways, PTL

(***************************************************************************)
(* Accounts                                                                *)
(***************************************************************************)

\* A copy of a number not used before is a datagram more.
CountInv ==
    /\ IsFiniteSet(flying)
    /\ CountersAgree

\* The counters of the two ends and the network's account for each other,
\* also when sendto fails, for every number of frames and copies.
THEOREM CountersAgreeAlways == Spec => []CountersAgree
<1>1. Init => CountInv
  <2> SUFFICES ASSUME Init PROVE CountInv
    OBVIOUS
  <2>1. flying = {} /\ packetsSent = 0 /\ copied = 0 /\ packetsReceived = 0 /\ lost = 0
    BY DEF Init
  <2>2. IsFiniteSet(flying) /\ Cardinality(flying) = 0
    BY <2>1, FS_EmptySet
  <2> QED
    BY <2>1, <2>2 DEF CountInv, CountersAgree
<1>2. TypedInv /\ CountInv /\ [Next]_vars => CountInv'
  <2> SUFFICES ASSUME TypedInv, CountInv, [Next]_vars PROVE CountInv'
    OBVIOUS
  <2>1. /\ packetsSent \in Nat /\ copied \in Nat /\ packetsReceived \in Nat /\ lost \in Nat
        /\ IsFiniteSet(flying) /\ Cardinality(flying) \in Nat
        /\ flying \subseteq (1 .. Len(wire)) \X (0 .. copied)
        /\ packetsSent + copied = packetsReceived + lost + Cardinality(flying)
        /\ Len(wire) \in Nat
    BY FS_CardinalityType, LenProperties DEF TypedInv, TypeOK, CountInv, CountersAgree
  <2>2. ASSUME NEW size \in Payloads, NEW sent \in BOOLEAN, Send(size, sent)
        PROVE  CountInv'
    <3>1. UNCHANGED <<copied, packetsReceived, lost>>
      BY <2>2 DEF Send, receiver
    <3>2. CASE sent
      <4>1. flying' = flying \cup {<<Len(wire) + 1, 0>>} /\ packetsSent' = packetsSent + 1
        BY <2>2, <3>2 DEF Send, CountSent
      <4>2. <<Len(wire) + 1, 0>> \notin flying
        BY <2>1
      <4>3. IsFiniteSet(flying') /\ Cardinality(flying') = Cardinality(flying) + 1
        BY <2>1, <4>1, <4>2, FS_AddElement
      <4> QED
        BY <2>1, <3>1, <4>1, <4>3 DEF CountInv, CountersAgree
    <3>3. CASE ~sent
      <4>1. flying' = flying /\ packetsSent' = packetsSent
        BY <2>1, <2>2, <3>3 DEF Send, CountSent
      <4> QED
        BY <2>1, <3>1, <4>1 DEF CountInv, CountersAgree
    <3> QED
      BY <3>2, <3>3
  <2>3. ASSUME NEW n \in 1 .. Len(wire), NEW k \in 0 .. MaxCopies,
               Lose(n, k) \/ Receive(n, k)
        PROVE  CountInv'
    <3>1. <<n, k>> \in flying /\ flying' = flying \ {<<n, k>>}
      BY <2>3 DEF Lose, Receive
    <3>2. IsFiniteSet(flying') /\ Cardinality(flying') = Cardinality(flying) - 1
      BY <2>1, <3>1, FS_RemoveElement
    <3>3. /\ packetsSent' = packetsSent /\ copied' = copied
          /\ packetsReceived' + lost' = packetsReceived + lost + 1
      BY <2>1, <2>3 DEF Lose, Receive, sender, receiver
    <3> QED
      BY <2>1, <3>2, <3>3 DEF CountInv, CountersAgree
  <2>4. ASSUME NEW n \in 1 .. Len(wire), NEW k \in 0 .. MaxCopies, Copy(n, k)
        PROVE  CountInv'
    <3>1. /\ flying' = flying \cup {<<n, copied + 1>>} /\ copied' = copied + 1
          /\ UNCHANGED <<packetsSent, packetsReceived, lost>>
      BY <2>4 DEF Copy, sender, receiver
    <3>2. <<n, copied + 1>> \notin flying
      BY <2>1
    <3>3. IsFiniteSet(flying') /\ Cardinality(flying') = Cardinality(flying) + 1
      BY <2>1, <3>1, <3>2, FS_AddElement
    <3> QED
      BY <2>1, <3>1, <3>3 DEF CountInv, CountersAgree
  <2>5. CASE UNCHANGED vars
    BY <2>5 DEF CountInv, CountersAgree, vars, sender, network, receiver
  <2> QED
    BY <2>2, <2>3, <2>4, <2>5 DEF Next, ReceiveNothing
<1>3. CountInv => CountersAgree
  BY DEF CountInv
<1> QED
  BY <1>1, <1>2, <1>3, TypedAlways, PTL DEF Spec
=============================================================================

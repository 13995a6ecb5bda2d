--------------------------- MODULE ShmRingRefines ---------------------------
(***************************************************************************)
(* The ring of ShmRing implements the queue of FrameQueue, for every value *)
(* of the constants.                                                       *)
(*                                                                         *)
(* A frame enters the queue when its write_pos is stored and leaves it     *)
(* when its read_pos is stored; every other step is a stutter.  The one    *)
(* delicate point is that the room was checked long before write_pos is    *)
(* stored: RingInv keeps that room (Positions), since a reader only adds   *)
(* to it.                                                                  *)
(***************************************************************************)
EXTENDS ShmRingProofs

\* The parts of the actions that have names of their own.
USE DEF AllCopied, NextWrite, AfterPublish, Readable, Snapshot, NextRead, RStore,
        FQ!Takeable, FQ!Oldest

\* The queue's log: the payload sizes of the published frames.
PublishedLog == [n \in 1 .. published |-> frames[n].size]

\* A frame that was admitted is one of the MaxOffers.
OffersBounded == Len(frames) + Len(refused) <= MaxOffers

LEMMA OffersInvariant == Spec => []OffersBounded
<1>1. Init => OffersBounded
  BY RingAssumption DEF Init, OffersBounded
<1>2. RingInv /\ OffersBounded /\ [Next]_vars => OffersBounded'
  <2> SUFFICES ASSUME RingInv, OffersBounded, [Next]_vars
               PROVE  OffersBounded'
    OBVIOUS
  <2>1. /\ frames \in Seq([start : Nat, size : Sizes])
        /\ Len(frames) \in Nat /\ refused \in Seq(Sizes)
    BY DEF RingInv, TypeOK
  <2>2. ASSUME NEW s \in Sizes, WBegin(s) PROVE OffersBounded'
    <3>1. /\ refused' = refused
          /\ Len(frames) + Len(refused) < MaxOffers
          /\ frames' = Append(frames, [start |-> End(Len(frames)), size |-> s])
      BY <2>2 DEF WBegin, Offering
    <3>2. Len(frames') = Len(frames) + 1
      BY <3>1, <2>1
    <3> QED
      BY <3>1, <3>2, <2>1, RingAssumption DEF OffersBounded
  <2>3. ASSUME NEW s \in Sizes, WRefuse(s) PROVE OffersBounded'
    BY <2>1, <2>3, RingAssumption DEF WRefuse, Offering, OffersBounded
  <2>4. CASE UNCHANGED <<frames, refused>>
    BY <2>4 DEF OffersBounded
  <2>5. CASE WriterProgress
    BY <2>4, <2>5 DEF WriterProgress, WCopy, WPublish, WCount, history
  <2>6. CASE ReaderProgress
    BY <2>4, <2>6 DEF ReaderProgress, RCheck, RLoad, RHeader, RDesync, RFlush,
       RPartial, RAccept, RPayload, RCommit, RDeliver, history
  <2>7. CASE RCrash
    BY <2>4, <2>7 DEF RCrash, history
  <2>8. CASE REmpty \/ UNCHANGED vars
    BY <2>4, <2>8 DEF REmpty, vars, history
  <2> QED
    BY <2>2, <2>3, <2>5, <2>6, <2>7, <2>8 DEF Next
<1> QED
  BY <1>1, <1>2, RingInvariant, PTL DEF Spec

(***************************************************************************)
(* One lemma per kind of step                                              *)
(***************************************************************************)

\* The log is a sequence as long as the number of published frames.
LEMMA LogIsSeq ==
    ASSUME RingInv
    PROVE  /\ PublishedLog \in Seq(Sizes)
           /\ Len(PublishedLog) = published
           /\ \A n \in 1 .. published : PublishedLog[n] = frames[n].size
           /\ published \in Nat
<1>1. /\ published \in Nat /\ published <= Len(frames)
      /\ frames \in Seq([start : Nat, size : Sizes])
  BY Counts DEF RingInv, TypeOK
<1>2. \A n \in 1 .. published : frames[n].size \in Sizes
  <2> TAKE n \in 1 .. published
  <2>1. n \in 1 .. Len(frames)
    BY <1>1
  <2>2. frames[n] \in [start : Nat, size : Sizes]
    BY <2>1, <1>1, ElementOfSeq
  <2> QED
    BY <2>2
<1>3. PublishedLog \in [1 .. published -> Sizes]
  BY <1>2 DEF PublishedLog
<1>4. PublishedLog \in Seq(Sizes)
  BY <1>1, <1>3, SeqDef
<1>5. Len(PublishedLog) = published
  BY <1>1, <1>3
<1> QED
  BY <1>1, <1>4, <1>5 DEF PublishedLog

\* A step that publishes, takes, delivers and refuses nothing is a stutter.
LEMMA StutterStep ==
    ASSUME RingInv,
           published' = published, taken' = taken, refused' = refused,
           got' = got, InHand' = InHand,
           \A n \in 1 .. published : frames'[n] = frames[n]
    PROVE  UNCHANGED FQ!vars
<1>1. /\ published \in Nat /\ taken \in Nat /\ taken <= published
  BY DEF RingInv, TypeOK, Geometry
<1>2. PublishedLog' = PublishedLog
  BY DEF PublishedLog
<1>3. End(published)' = End(published) /\ End(taken)' = End(taken)
  BY <1>1 DEF End, FrameLen
<1> QED
  BY <1>2, <1>3 DEF FQ!vars, PublishedLog

\* The store of write_pos puts the frame into the queue.
LEMMA PublishIsPut ==
    ASSUME RingInv, OffersBounded, WPublish
    PROVE  \E s \in Sizes : FQ!Put(s)
<1> USE DEF RingInv
<1>0. PICK L \in Nat : L = Len(frames)
  <2>1. Len(frames) \in Nat
    BY DEF TypeOK
  <2> QED
    BY <2>1
<1>1. /\ UNCHANGED <<rpc, frames, taken, refused, got>>
      /\ wpc = "copy" /\ published' = published + 1
  BY DEF WPublish, reader
<1>2. /\ L \in 1 .. Len(frames) /\ L = published + 1 /\ published \in Nat
      /\ frames[L].start = End(published) /\ frames[L].size \in Nat
      /\ FrameLen(L) = Hdr + frames[L].size
      /\ End(L) = frames[L].start + FrameLen(L)
      /\ End(published) \in Nat /\ End(taken) \in Nat /\ refused \in Seq(Sizes)
  BY <1>0, <1>1, Counts, FrameFacts DEF FrameLen, TypeOK
<1> DEFINE s == frames[L].size
<1>3. s \in Sizes
  <2>1. frames \in Seq([start : Nat, size : Sizes])
    BY DEF TypeOK
  <2>2. frames[L] \in [start : Nat, size : Sizes]
    BY <2>1, <1>2, ElementOfSeq
  <2> QED
    BY <2>2
<1>4. /\ PublishedLog \in Seq(Sizes) /\ Len(PublishedLog) = published
      /\ PublishedLog = [n \in 1 .. published |-> frames[n].size]
  BY LogIsSeq DEF PublishedLog
<1>5. PublishedLog' = Append(PublishedLog, s)
  <2>1. PublishedLog' = [n \in 1 .. L |-> frames[n].size]
    BY <1>1, <1>2 DEF PublishedLog
  <2>2. /\ Append(PublishedLog, s) \in Seq(Sizes)
        /\ Len(Append(PublishedLog, s)) = L
        /\ \A n \in 1 .. L :
              Append(PublishedLog, s)[n] =
                 IF n = L THEN s ELSE PublishedLog[n]
    BY <1>2, <1>3, <1>4, AppendProperties
  <2>3. \A n \in 1 .. L :
           frames[n].size = IF n = L THEN s ELSE PublishedLog[n]
    BY <1>2, <1>4
  <2>4. \A n \in 1 .. L : frames[n].size \in Sizes
    BY <2>3, <1>2, <1>3, <1>4, ElementOfSeq
  <2>5. PublishedLog' \in Seq(Sizes) /\ Len(PublishedLog') = L
    <3>1. PublishedLog' \in [1 .. L -> Sizes]
      BY <2>1, <2>4
    <3> QED
      BY <3>1, SeqDef
  <2>6. \A n \in 1 .. L : PublishedLog'[n] = Append(PublishedLog, s)[n]
    BY <2>1, <2>2, <2>3
  <2> QED
    BY <2>2, <2>5, <2>6, SeqEqual
<1>6. End(published)' = End(published) + Hdr + s /\ End(taken)' = End(taken)
  <2>1. End(published)' = End(L)
    BY <1>1, <1>2 DEF End, FrameLen
  <2>2. End(taken)' = End(taken)
    BY <1>1 DEF End, FrameLen
  <2> QED
    BY <2>1, <2>2, <1>2, RingAssumption
<1>7. FQ!Offering
  BY <1>0, <1>2, <1>4, RingAssumption DEF FQ!Offering, OffersBounded, PublishedLog
<1>8. FQ!Fits(s)
  <2>1. End(L) < End(taken) + Cap
    BY <1>0 DEF Positions
  <2> QED
    BY <2>1, <1>2, RingAssumption DEF FQ!Fits
<1>9. InHand' = InHand
  BY <1>1 DEF InHand
<1> QED
  BY <1>1, <1>3, <1>5, <1>6, <1>7, <1>8, <1>9 DEF FQ!Put, PublishedLog

\* A refusal: the ring has no room for the frame, nor has the queue.
LEMMA RefuseIsRefuse ==
    ASSUME RingInv, NEW s \in Sizes, WRefuse(s)
    PROVE  FQ!Refuse(s)
<1> USE DEF RingInv
<1>1. /\ UNCHANGED <<rpc, frames, published, taken, got>>
      /\ refused' = Append(refused, s)
      /\ wpc = "idle" /\ Len(frames) + Len(refused) < MaxOffers
      /\ Room < Hdr + s
  BY DEF WRefuse, Offering, reader
<1>2. /\ published = Len(frames) /\ published \in Nat /\ s \in Nat
      /\ End(published) \in Nat /\ End(taken) \in Nat
  <2>1. published = Len(frames)
    <3>1. published \in Nat /\ Len(frames) \in Nat
      BY DEF TypeOK
    <3> QED
      BY <3>1, <1>1 DEF Geometry
  <2>2. published \in Nat /\ s \in Nat
    BY RingAssumption DEF TypeOK
  <2> QED
    BY <2>1, <2>2, Counts
<1>3. ~FQ!Fits(s)
  <2>1. Avail(writePos, readPos) = End(published) - End(taken)
    BY AvailIsUnread
  <2> QED
    BY <2>1, <1>1, <1>2, RingAssumption DEF Room, FQ!Fits
<1>4. FQ!Offering
  <2>1. Len(PublishedLog) = published
    BY LogIsSeq
  <2> QED
    BY <2>1, <1>1, <1>2 DEF FQ!Offering, PublishedLog
<1>5. PublishedLog' = PublishedLog /\ InHand' = InHand
  BY <1>1 DEF PublishedLog, InHand
<1>6. End(published)' = End(published) /\ End(taken)' = End(taken)
  BY <1>1 DEF End, FrameLen
<1> QED
  BY <1>1, <1>3, <1>4, <1>5, <1>6 DEF FQ!Refuse, PublishedLog

\* The store of read_pos takes the oldest frame out.
LEMMA CommitIsGet ==
    ASSUME RingInv, RCommit
    PROVE  FQ!Get
<1> USE DEF RingInv
<1>1. /\ UNCHANGED <<frames, published, refused, got>>
      /\ rpc = "payload" /\ rpc' = "deliver" /\ taken' = taken + 1
  BY DEF RCommit
<1>2. taken < published
  BY <1>1 DEF ReaderView
<1>3. /\ frames[taken + 1].size \in Nat
      /\ FrameLen(taken + 1) = Hdr + frames[taken + 1].size
      /\ End(taken + 1) = End(taken) + FrameLen(taken + 1)
      /\ End(taken) \in Nat /\ taken \in Nat
  BY <1>2, UnreadFrame
<1>4. /\ Len(PublishedLog) = published
      /\ PublishedLog[taken + 1] = frames[taken + 1].size
  <2>1. taken + 1 \in 1 .. published
    BY <1>2, <1>3, LogIsSeq
  <2> QED
    BY <2>1, LogIsSeq
<1>5. InHand = 0 /\ InHand' = taken + 1
  BY <1>1 DEF InHand
<1>6. PublishedLog' = PublishedLog /\ End(published)' = End(published)
  BY <1>1 DEF PublishedLog, End, FrameLen
<1>7. End(taken)' = End(taken) + Hdr + PublishedLog[taken + 1]
  <2>1. End(taken)' = End(taken + 1)
    BY <1>1 DEF End, FrameLen
  <2> QED
    BY <2>1, <1>3, <1>4, RingAssumption
<1> QED
  BY <1>1, <1>2, <1>4, <1>5, <1>6, <1>7 DEF FQ!Get, PublishedLog

\* The caller of readFrame uses the frame that was taken last.
LEMMA DeliverIsUse ==
    ASSUME RingInv, RDeliver
    PROVE  FQ!Use
<1>1. /\ UNCHANGED <<frames, published, taken, refused>>
      /\ rpc = "deliver" /\ rpc' = "idle" /\ got' = Append(got, Decode(rbuf))
  BY DEF RDeliver, Return
<1>2. Decode(rbuf) = taken /\ taken # 0
  BY <1>1, DecodesAsTaken DEF RingInv, ReaderView
<1>3. InHand = taken /\ InHand' = 0
  BY <1>1 DEF InHand
<1>4. PublishedLog' = PublishedLog
  BY <1>1 DEF PublishedLog
<1>5. End(published)' = End(published) /\ End(taken)' = End(taken)
  BY <1>1 DEF End, FrameLen
<1> QED
  BY <1>1, <1>2, <1>3, <1>4, <1>5 DEF FQ!Use, PublishedLog

\* A reader that dies loses the frame in its hand, or nothing.
LEMMA CrashIsLose ==
    ASSUME RingInv, RCrash
    PROVE  FQ!Lose \/ UNCHANGED FQ!vars
<1>1. /\ UNCHANGED <<frames, published, taken, refused, got>>
      /\ rpc' = "idle" /\ crashes < MaxCrashes
  BY DEF RCrash, Return, history
<1>2. MaxCrashes # 0
  BY <1>1, RingAssumption DEF RingInv, TypeOK
<1>3. CASE rpc = "deliver"
  <2>1. InHand # 0 /\ InHand' = 0
    BY <1>1, <1>3 DEF InHand, RingInv, ReaderView
  <2>2. PublishedLog' = PublishedLog
    BY <1>1 DEF PublishedLog
  <2>3. End(published)' = End(published) /\ End(taken)' = End(taken)
    BY <1>1 DEF End, FrameLen
  <2> QED
    BY <2>1, <2>2, <2>3, <1>1, <1>2 DEF FQ!Lose, PublishedLog
<1>4. CASE rpc # "deliver"
  <2>1. InHand' = InHand
    BY <1>1, <1>4 DEF InHand
  <2> QED
    BY <2>1, <1>1, StutterStep
<1> QED
  BY <1>3, <1>4

(***************************************************************************)
(* The refinement                                                          *)
(***************************************************************************)

LEMMA InitRefines == Init => FQ!Init
<1> SUFFICES ASSUME Init PROVE FQ!Init
  OBVIOUS
<1>1. [n \in 1 .. published |-> frames[n].size] = <<>>
  BY DEF Init
<1>2. End(published) = 0 /\ End(taken) = 0 /\ InHand = 0
  BY DEF Init, End, InHand
<1> QED
  BY <1>1, <1>2 DEF Init, FQ!Init

LEMMA NextRefines ==
    RingInv /\ OffersBounded /\ [Next]_vars => [FQ!Next]_(FQ!vars)
<1> SUFFICES ASSUME RingInv, OffersBounded, [Next]_vars
             PROVE  FQ!Next \/ UNCHANGED FQ!vars
  OBVIOUS
<1>1. ASSUME NEW s \in Sizes, WBegin(s) PROVE UNCHANGED FQ!vars
  <2>1. /\ UNCHANGED <<rpc, published, taken, refused, got>>
        /\ frames' = Append(frames, [start |-> End(Len(frames)), size |-> s])
    BY <1>1 DEF WBegin, reader
  <2>2. /\ frames \in Seq([start : Nat, size : Sizes])
        /\ Len(frames) \in Nat /\ published \in 0 .. Len(frames)
    BY DEF RingInv, TypeOK
  <2>3. \A n \in 1 .. published : frames'[n] = frames[n]
    BY <2>1, <2>2
  <2>4. InHand' = InHand
    BY <2>1 DEF InHand
  <2> QED
    BY <2>1, <2>3, <2>4, StutterStep
<1>2. ASSUME NEW s \in Sizes, WRefuse(s) PROVE FQ!Next
  BY <1>2, RefuseIsRefuse DEF FQ!Next
<1>3. CASE WPublish
  BY <1>3, PublishIsPut DEF FQ!Next
<1>4. CASE RCommit
  BY <1>4, CommitIsGet DEF FQ!Next
<1>5. CASE RDeliver
  BY <1>5, DeliverIsUse DEF FQ!Next
<1>6. CASE RCrash
  BY <1>6, CrashIsLose DEF FQ!Next
<1>7. ASSUME UNCHANGED <<frames, published, taken, refused, got>>, InHand' = InHand
      PROVE  UNCHANGED FQ!vars
  BY <1>7, StutterStep
<1>8. CASE WriterProgress
  <2>1. ASSUME NEW k, WCopy(k) PROVE UNCHANGED FQ!vars
    BY <2>1, <1>7 DEF WCopy, reader, history, InHand
  <2>2. CASE WCount
    BY <2>2, <1>7 DEF WCount, reader, history, InHand
  <2> QED
    BY <1>3, <1>8, <2>1, <2>2 DEF WriterProgress
<1>9. CASE ReaderProgress
  <2>1. CASE RCheck \/ RLoad
    BY <2>1, <1>7 DEF RCheck, RLoad, history, InHand
  <2>2. ASSUME NEW k, RHeader(k) \/ RPayload(k) PROVE UNCHANGED FQ!vars
    BY <2>2, <1>7 DEF RHeader, RPayload, history, InHand
  <2>3. ASSUME NEW s, RDesync(s) \/ RPartial(s) \/ RAccept(s)
        PROVE  UNCHANGED FQ!vars
    BY <2>3, <1>7 DEF RDesync, RPartial, RAccept, HeaderRead, Return, history, InHand
  <2>4. ~RFlush
    BY DEF RFlush, RingInv, ReaderView
  <2> QED
    BY <1>4, <1>5, <1>9, <2>1, <2>2, <2>3, <2>4 DEF ReaderProgress
<1>10. CASE REmpty \/ UNCHANGED vars
  BY <1>7, <1>10 DEF REmpty, vars, history, reader, InHand
<1> QED
  BY <1>1, <1>2, <1>6, <1>8, <1>9, <1>10 DEF Next

\* writeFrame and readFrame keep the promise their callers rely on.
THEOREM RefinesFrameQueue == Spec => ImplementsFrameQueue
BY InitRefines, NextRefines, RingInvariant, OffersInvariant, PTL
   DEF Spec, ImplementsFrameQueue, FQ!Spec

(***************************************************************************)
(* What the queue promises of its frames, whoever implements it            *)
(***************************************************************************)

\* The numbers in play, and the order of the frames used so far.
QueueInv ==
    /\ taken \in Nat /\ InHand \in Nat
    /\ got \in Seq(Nat)
    /\ FQ!InOrder

\* Frames are used at most once and never out of order, whatever the writer
\* offers and whenever the reading process dies with a frame in hand: shown of
\* the queue alone, without the ring.
THEOREM UsedInOrder == FQ!Spec => []FQ!InOrder
<1>1. FQ!Init => QueueInv
  BY DEF FQ!Init, QueueInv, FQ!InOrder
<1>2. QueueInv /\ [FQ!Next]_FQ!vars => QueueInv'
  <2> SUFFICES ASSUME QueueInv, [FQ!Next]_FQ!vars PROVE QueueInv'
    OBVIOUS
  <2> USE DEF QueueInv, FQ!InOrder
  <2>1. ASSUME NEW s \in Sizes, FQ!Put(s) \/ FQ!Refuse(s) PROVE QueueInv'
    BY <2>1 DEF FQ!Put, FQ!Refuse
  <2>2. CASE FQ!Empty \/ UNCHANGED FQ!vars
    BY <2>2 DEF FQ!Empty, FQ!vars
  <2>3. CASE FQ!Get
    BY <2>3 DEF FQ!Get
  <2>4. CASE FQ!Use
    <3>1. got' \in Seq(Nat) /\ DOMAIN got' = 1 .. Len(got) + 1
      BY <2>4 DEF FQ!Use
    <3>2. /\ \A i \in 1 .. Len(got) : got'[i] = got[i]
          /\ got'[Len(got) + 1] = InHand
          /\ DOMAIN got = 1 .. Len(got)
      BY <2>4 DEF FQ!Use
    <3> QED
      BY <2>4, <3>1, <3>2 DEF FQ!Use
  <2>5. CASE FQ!Lose
    BY <2>5 DEF FQ!Lose
  <2> QED
    BY <2>1, <2>2, <2>3, <2>4, <2>5 DEF FQ!Next
<1>3. QueueInv => FQ!InOrder
  BY DEF QueueInv
<1> QED
  BY <1>1, <1>2, <1>3, PTL DEF FQ!Spec

\* Through the refinement the callers of readFrame get frames in that order.
COROLLARY RingInOrder == Spec => []FQ!InOrder
BY RefinesFrameQueue, UsedInOrder, PTL DEF ImplementsFrameQueue
=============================================================================

---------------------------- MODULE PipelineProofs --------------------------
(***************************************************************************)
(* Proofs about Pipeline, for any number of client threads, languages,     *)
(* messages, frame and chunk sizes: chunks are unbroken, in order and of   *)
(* the right length, what is lost is bounded, is_final marks the ends of   *)
(* utterances, events are labelled right unless an update came in between, *)
(* and updates part the size and the chunker in one way only.              *)
(*                                                                         *)
(* What makes it work: only the main thread touches a chunker, it takes    *)
(* the newest for each frame and each chunk, and never goes back to one.   *)
(***************************************************************************)
EXTENDS Pipeline, SequenceTheorems, TLAPS

-----------------------------------------------------------------------------
(* Type correctness *)

HandType ==
    [samples : Seq(1 .. fed), speech : BOOLEAN, is_final : BOOLEAN, by : Nat,
     english : BOOLEAN, text : Langs \cup {None}, heard : Langs \cup {None},
     label : Langs \cup {None}]

\* The frame that is being added keeps the samples within their bound, and a
\* thread that makes a chunker has a size to make it with.
TypedInv ==
    /\ TypeOK
    /\ hand \in HandType
    /\ pc = "add" => payload \in Payloads /\ fed + payload \div 2 <= MaxSamples
    /\ \A u \in Updaters : upc[u] \in {"size", "chunker"} => umsg[u].size \in Sizes

LEMMA InitTyped == Init => TypedInv
<1> SUFFICES ASSUME Init PROVE TypedInv
  OBVIOUS
<1> USE PipelineAssumption DEF Init
<1>1. NewChunker(Samples[Config0.size]) \in Chunker
  BY DEF NewChunker, Chunker
<1>2. objects \in Seq(Chunker) /\ Len(objects) = 1
  BY <1>1
<1>3. hand \in HandType /\ hand.samples \in Seq(1 .. fed)
  BY DEF NoChunk, HandType
<1>4. chunk_size \in Sizes /\ source_lang \in Langs /\ target_lang \in Langs
  OBVIOUS
<1>5. fed \in 0 .. MaxSamples
  OBVIOUS
<1>6. /\ upc \in [Updaters -> {"idle", "source", "target", "compare", "size", "chunker"}]
      /\ umsg \in [Updaters -> Messages \cup {NoMessage}]
      /\ \A u \in Updaters : upc[u] = "idle"
  OBVIOUS
<1>7. /\ chunker = 1 /\ held = 1 /\ pc = "idle" /\ payload = 0
      /\ {stirred, torn} \subseteq BOOLEAN
  OBVIOUS
<1>8. TypeOK
  <2> USE ONLY DEF TypeOK
  <2> QED
    BY <1>2, <1>3, <1>4, <1>5, <1>6, <1>7
<1> QED
  BY <1>3, <1>6, <1>7, <1>8 DEF TypedInv

LEMMA MessageTyped ==
    ASSUME NEW m \in Messages \cup {NoMessage}
    PROVE  /\ m.source \in Langs \cup {None} /\ m.target \in Langs \cup {None}
           /\ m.size \in Sizes \cup {None}
BY PipelineAssumption DEF NoMessage

LEMMA UpdateTyped ==
    ASSUME TypedInv, NEW u \in Updaters,
           (\E m \in Messages : UMessage(u, m)) \/ Updating(u)
    PROVE  TypedInv'
<1> USE PipelineAssumption
<1>0. UNCHANGED <<fed, main>> => UNCHANGED <<Chunker, HandType, hand, payload, pc, held, fed>>
  BY DEF Chunker, HandType, main
<1>1. ASSUME NEW m \in Messages, UMessage(u, m) PROVE TypedInv'
  BY <1>0, <1>1 DEF TypedInv, TypeOK, UMessage, UStep, config
<1>2. CASE USource(u)
  BY <1>0, <1>2, MessageTyped DEF TypedInv, TypeOK, USource, UStep
<1>3. CASE UTarget(u)
  BY <1>0, <1>3, MessageTyped DEF TypedInv, TypeOK, UTarget, UStep
<1>4. CASE UCompare(u)
  <2>1. /\ UNCHANGED <<source_lang, target_lang, chunk_size, chunker, objects, fed,
                       main, stirred, torn>>
        /\ \/ upc' = [upc EXCEPT ![u] = "size"] /\ umsg' = umsg
              /\ umsg[u].size # None
           \/ upc' = [upc EXCEPT ![u] = "idle"] /\ umsg' = [umsg EXCEPT ![u] = NoMessage]
    BY <1>4 DEF UCompare, UStep, UForget, Resizes, config
  <2>2. umsg[u].size \in Sizes \cup {None}
    BY MessageTyped DEF TypedInv, TypeOK
  <2>3. /\ upc' \in [Updaters -> {"idle", "source", "target", "compare", "size",
                                   "chunker"}]
        /\ umsg' \in [Updaters -> Messages \cup {NoMessage}]
    BY <2>1 DEF TypedInv, TypeOK
  <2>4. \A v \in Updaters : upc'[v] \in {"size", "chunker"} => umsg'[v].size \in Sizes
    BY <2>1, <2>2 DEF TypedInv, TypeOK
  <2> QED
    BY <1>0, <2>1, <2>3, <2>4 DEF TypedInv, TypeOK
<1>5. CASE USize(u)
  BY <1>0, <1>5 DEF TypedInv, TypeOK, USize, UStep
<1>6. CASE UChunker(u)
  <2>1. NewChunker(Samples[umsg[u].size]) \in Chunker
    <3>1. umsg[u].size \in Sizes /\ Samples[umsg[u].size] # None
      BY <1>6 DEF TypedInv, UChunker, UStep
    <3>2. Samples[umsg[u].size] \in Int
      BY <3>1
    <3> QED
      BY <3>2 DEF NewChunker, Chunker
  <2>2. objects' \in Seq(Chunker) /\ Len(objects') = Len(objects) + 1
    BY <1>6, <2>1, AppendProperties DEF TypedInv, TypeOK, UChunker, SizeMade
  <2> QED
    BY <1>0, <1>6, <2>2 DEF TypedInv, TypeOK, UChunker, UStep, UForget
<1>7. CASE URaise(u)
  BY <1>0, <1>7 DEF TypedInv, TypeOK, URaise, UStep, UForget, config
<1> QED
  BY <1>1, <1>2, <1>3, <1>4, <1>5, <1>6, <1>7 DEF Updating

\* What MAdd does: the chunker in hand gets the samples after fed.
New == [i \in 1 .. payload \div 2 |-> fed + i]

LEMMA NewSamples ==
    ASSUME TypedInv, MAdd
    PROVE  /\ payload \div 2 \in Nat /\ fed' = fed + payload \div 2
           /\ fed \in Nat /\ fed' \in 0 .. MaxSamples
           /\ New \in Seq(1 .. fed') /\ Len(New) = payload \div 2
           /\ \A i \in 1 .. payload \div 2 : New[i] = fed + i
<1>1. payload \in Nat /\ fed \in Nat /\ fed' = fed + payload \div 2
  BY PipelineAssumption DEF TypedInv, TypeOK, MAdd
<1>2. payload \div 2 \in Nat
  BY <1>1
<1>3. fed' \in 0 .. MaxSamples
  <2>1. fed + payload \div 2 <= MaxSamples
    BY DEF TypedInv, MAdd
  <2>2. MaxSamples \in Nat
    BY PipelineAssumption
  <2> QED
    BY <1>1, <1>2, <2>1, <2>2
<1> DEFINE h == payload \div 2
<1>4. New \in Seq(1 .. fed') /\ Len(New) = h
  <2>1. New = [i \in 1 .. h |-> fed + i]
    BY DEF New
  <2>2. h \in Nat /\ fed \in Nat /\ fed' = fed + h
    BY <1>1, <1>2
  <2> HIDE DEF h
  <2>3. \A i \in 1 .. h : fed + i \in 1 .. fed'
    BY <2>2
  <2> QED
    BY <2>1, <2>2, <2>3
<1>5. \A i \in 1 .. h : New[i] = fed + i
  BY DEF New
<1> QED
  BY <1>1, <1>2, <1>3, <1>4, <1>5

LEMMA AddEffect ==
    ASSUME TypedInv, MAdd
    PROVE  /\ objects' \in Seq(Chunker') /\ Len(objects') = Len(objects)
           /\ objects'[held].buffer = objects[held].buffer \o New
           /\ objects'[held].size = objects[held].size
           /\ objects'[held].speech_frames = objects[held].speech_frames
           /\ objects'[held].silence_frames = objects[held].silence_frames
           /\ objects[held].buffer \in Seq(1 .. fed')
           /\ \A c \in 1 .. Len(objects) \ {held} : objects'[c] = objects[c]
<1> USE DEF TypedInv, TypeOK
<1>1. ASSUME NEW c \in 1 .. Len(objects)
      PROVE  objects[c] \in Chunker' /\ objects[c] \in Chunker
  <2>1. objects[c] \in Chunker /\ 1 .. fed \subseteq 1 .. fed'
    BY NewSamples
  <2>2. objects[c].buffer \in Seq(1 .. fed')
    BY <2>1, SeqMonotonic DEF Chunker
  <2> QED
    BY <2>1, <2>2 DEF Chunker
<1> DEFINE new == [objects[held] EXCEPT !.buffer = @ \o New]
<1>2. objects[held].buffer \o New \in Seq(1 .. fed')
  BY <1>1, NewSamples, ConcatProperties DEF Chunker
<1>3. new \in Chunker'
  BY <1>1, <1>2 DEF Chunker
<1>4. objects' = [objects EXCEPT ![held] = new]
  BY DEF MAdd, Joined, New
<1>5. objects \in Seq(Chunker')
  <2>1. objects = [i \in 1 .. Len(objects) |-> objects[i]] /\ Len(objects) \in Nat
    BY LenProperties
  <2>2. objects \in [1 .. Len(objects) -> Chunker']
    BY <1>1, <2>1
  <2> QED
    BY <2>1, <2>2
<1> HIDE DEF new
<1>6. objects' \in Seq(Chunker') /\ Len(objects') = Len(objects) /\ objects'[held] = new
  BY <1>3, <1>4, <1>5
<1>7. ASSUME NEW c \in 1 .. Len(objects) \ {held} PROVE objects'[c] = objects[c]
  BY <1>4
<1>8. objects[held].buffer \in Seq(1 .. fed')
  BY <1>1 DEF Chunker
<1>9. /\ new.buffer = objects[held].buffer \o New /\ new.size = objects[held].size
      /\ new.speech_frames = objects[held].speech_frames
      /\ new.silence_frames = objects[held].silence_frames
  BY <1>1 DEF new, Chunker
<1> QED
  BY <1>6, <1>7, <1>8, <1>9

\* A chunk is cut within the buffer, and as long as the size if that is positive.
LEMMA CutBounds ==
    ASSUME NEW c, c.size \in Int, Len(c.buffer) \in Nat, ~Short(c)
    PROVE  Cut(c) \in Nat /\ Cut(c) <= Len(c.buffer) /\ (c.size > 0 => Cut(c) = c.size)
BY DEF Cut, Short

\* What MNext does: the first samples of the chunker in hand become the chunk.
LEMMA NextEffect ==
    ASSUME TypedInv, NEW speech \in BOOLEAN, MNext(speech)
    PROVE  LET b == objects[held].buffer
               n == Cut(objects[held])
           IN  /\ n \in Nat /\ b \in Seq(1 .. fed) /\ n <= Len(b)
               /\ objects[held].size > 0 => n = objects[held].size
               /\ hand' \in HandType /\ hand'.by = held
               /\ hand'.samples = SubSeq(b, 1, n)
               /\ objects' \in Seq(Chunker) /\ Len(objects') = Len(objects)
               /\ objects'[held].size = objects[held].size
               /\ objects'[held].buffer = SubSeq(b, n + 1, Len(b))
               /\ \A c \in 1 .. Len(objects) \ {held} : objects'[c] = objects[c]
<1> USE DEF TypedInv, TypeOK
<1> DEFINE o  == objects[held]
           sp == o.speech_frames + (IF speech THEN 1 ELSE 0)
           si == SilenceNow(o, speech)
           fin == Ends(sp, si)
           new == [size           |-> o.size,
                   buffer         |-> Rest(o),
                   speech_frames  |-> IF fin THEN 0 ELSE sp,
                   silence_frames |-> IF fin THEN 0 ELSE si]
<1>1. /\ o.size \in Int /\ o.buffer \in Seq(1 .. fed)
      /\ o.speech_frames \in Nat /\ o.silence_frames \in Nat
  <2>1. o \in Chunker
    OBVIOUS
  <2> QED
    BY <2>1 DEF Chunker
<1>2. /\ ~Short(o)
      /\ objects' = [objects EXCEPT ![held] = new]
      /\ hand' = [NoChunk EXCEPT !.samples = SubSeq(o.buffer, 1, Cut(o)),
                                 !.speech = speech, !.is_final = fin, !.by = held]
  BY DEF MNext
<1>10. /\ Cut(o) \in Nat /\ Cut(o) <= Len(o.buffer)
       /\ o.size > 0 => Cut(o) = o.size
  BY <1>1, <1>2, CutBounds
<1>3. SubSeq(o.buffer, 1, Cut(o)) \in Seq(1 .. fed) /\ Rest(o) \in Seq(1 .. fed)
  <2>1. \A i \in 1 .. Len(o.buffer) : o.buffer[i] \in 1 .. fed
    <3> HIDE DEF o
    <3> QED
      BY <1>1, ElementOfSeq
  <2>2. Len(o.buffer) \in Nat
    BY <1>1
  <2> HIDE DEF o
  <2> DEFINE n == Cut(o)
  <2>5. n \in Int /\ n \in Nat /\ n <= Len(o.buffer)
    BY <1>10
  <2> HIDE DEF n
  <2>6. /\ \A i \in 1 .. n : o.buffer[i] \in 1 .. fed
        /\ \A i \in n + 1 .. Len(o.buffer) : o.buffer[i] \in 1 .. fed
    BY <2>1, <2>2, <2>5
  <2>3. SubSeq(o.buffer, 1, n) \in Seq(1 .. fed)
    BY <2>2, <2>5, <2>6, SubSeqProperties
  <2>4. SubSeq(o.buffer, n + 1, Len(o.buffer)) \in Seq(1 .. fed)
    BY <2>2, <2>5, <2>6, SubSeqProperties
  <2> QED
    BY <2>3, <2>4 DEF Rest, n
<1>4. sp \in Nat /\ si \in Nat /\ fin \in BOOLEAN
  BY <1>1 DEF SilenceNow, Ends
<1> HIDE DEF sp, si, fin
<1>5. new \in Chunker
  BY <1>1, <1>3, <1>4 DEF Chunker
<1>6. hand' \in HandType
  <2>1. hand' = [samples |-> SubSeq(o.buffer, 1, Cut(o)), speech |-> speech,
                 is_final |-> fin, by |-> held, english |-> FALSE, text |-> None,
                 heard |-> None, label |-> None]
    BY <1>2 DEF NoChunk
  <2> HIDE DEF o
  <2> QED
    BY <1>3, <1>4, <2>1 DEF HandType
<1>7. hand'.by = held /\ hand'.samples = SubSeq(o.buffer, 1, Cut(o))
  BY <1>2 DEF NoChunk
<1>8. new.size = o.size /\ new.buffer = SubSeq(o.buffer, Cut(o) + 1, Len(o.buffer))
  BY DEF Rest
<1> HIDE DEF new
<1>9. /\ objects' \in Seq(Chunker) /\ Len(objects') = Len(objects)
      /\ objects'[held] = new
      /\ \A c \in 1 .. Len(objects) \ {held} : objects'[c] = objects[c]
  BY <1>2, <1>5
<1> QED
  BY <1>1, <1>6, <1>7, <1>8, <1>9, <1>10

LEMMA MainTyped ==
    ASSUME TypedInv, Processing \/ (\E n \in Payloads : MFrame(n)) \/ MIdle
    PROVE  TypedInv'
<1> USE PipelineAssumption
<1>0. fed' = fed => UNCHANGED <<Chunker>> /\ HandType' = HandType
  BY DEF Chunker, HandType
<1>1. ASSUME NEW n \in Payloads, MFrame(n) PROVE TypedInv'
  BY <1>0, <1>1 DEF TypedInv, TypeOK, MFrame, config, threads
<1>2. CASE MIdle
  BY <1>0, <1>2 DEF TypedInv, TypeOK, MIdle, vars, config, threads, main
<1>3. CASE MOdd
  BY <1>0, <1>3 DEF TypedInv, TypeOK, MOdd, config, threads
<1>4. CASE MAdd
  <2>1. hand' = hand /\ hand.samples \in Seq(1 .. fed') /\ hand \in HandType
    <3>1. hand' = hand /\ hand \in HandType /\ hand.samples \in Seq(1 .. fed)
      BY <1>4 DEF TypedInv, HandType, MAdd
    <3>2. 1 .. fed \subseteq 1 .. fed'
      <4>1. fed \in Nat /\ payload \div 2 \in Nat /\ fed' = fed + payload \div 2
        BY <1>4, NewSamples
      <4> QED
        BY <4>1
    <3>3. hand.samples \in Seq(1 .. fed')
      BY <3>1, <3>2, SeqMonotonic
    <3> QED
      BY <3>1, <3>3
  <2>2. hand' \in HandType'
    BY <2>1 DEF HandType
  <2> QED
    BY <1>4, <2>1, <2>2, NewSamples, AddEffect DEF TypedInv, TypeOK, MAdd, config, threads
<1>5. CASE MFetch \/ MNone \/ MSpin
  BY <1>0, <1>5 DEF TypedInv, TypeOK, MFetch, MNone, MSpin, config, threads
<1>6. ASSUME NEW speech \in BOOLEAN, MNext(speech) PROVE TypedInv'
  <2>1. hand'.samples \in Seq(1 .. fed)
    BY <1>6, NextEffect DEF HandType
  <2> QED
    BY <1>0, <1>6, <2>1, NextEffect DEF TypedInv, TypeOK, MNext, config, threads
<1>7. CASE MBranch \/ MAsr \/ MMt \/ MLabel
  <2>1. hand' \in HandType
    <3>1. (target_lang \in English) \in BOOLEAN
      OBVIOUS
    <3>2. source_lang \in Langs /\ target_lang \in Langs /\ hand \in HandType
      BY DEF TypedInv, TypeOK
    <3>3. CASE MBranch
      BY <3>1, <3>2, <3>3 DEF MBranch, HandType
    <3>4. CASE MAsr \/ MMt \/ MLabel
      BY <3>2, <3>4 DEF MAsr, MMt, MLabel, HandType
    <3> QED
      BY <1>7, <3>3, <3>4
  <2>2. CASE MBranch
    BY <1>0, <2>1, <2>2 DEF TypedInv, TypeOK, HandType, MBranch, config, threads
  <2>3. CASE MAsr
    BY <1>0, <2>1, <2>3 DEF TypedInv, TypeOK, HandType, MAsr, config, threads
  <2>4. CASE MMt
    BY <1>0, <2>1, <2>4 DEF TypedInv, TypeOK, HandType, MMt, config, threads
  <2>5. CASE MLabel
    BY <1>0, <2>1, <2>5 DEF TypedInv, TypeOK, HandType, MLabel, config, threads
  <2> QED
    BY <1>7, <2>2, <2>3, <2>4, <2>5
<1>8. CASE MEmit
  <2>1. hand' \in HandType
    BY <1>8 DEF MEmit, NoChunk, HandType
  <2> QED
    BY <1>0, <1>8, <2>1 DEF TypedInv, TypeOK, HandType, MEmit, config, threads
<1> QED
  BY <1>1, <1>2, <1>3, <1>4, <1>5, <1>6, <1>7, <1>8 DEF Processing

LEMMA TypedAlways == Spec => []TypedInv
<1>1. TypedInv /\ [Next]_vars => TypedInv'
  <2> SUFFICES ASSUME TypedInv, [Next]_vars PROVE TypedInv'
    OBVIOUS
  <2>1. CASE UNCHANGED vars
    BY <2>1 DEF TypedInv, TypeOK, HandType, Chunker, vars, config, threads, main
  <2> QED
    BY <2>1, UpdateTyped, MainTyped DEF Next
<1> QED
  BY <1>1, InitTyped, PTL DEF Spec

\* The variables have the values TypeOK names, in every state.
THEOREM PipelineTyped == Spec => []TypeOK
<1>1. TypedInv => TypeOK
  BY DEF TypedInv
<1> QED
  BY <1>1, TypedAlways, PTL

-----------------------------------------------------------------------------
(* Labels *)

\* While no update has stored target_lang, what the chunk in hand says about
\* its text agrees with it.
LabelInv ==
    /\ LabelFitsText
    /\ pc \in {"asr", "mt", "label", "emit"} /\ ~stirred =>
           (hand.english <=> target_lang \in English)
    /\ pc \in {"label", "emit"} \/ (pc = "asr" /\ hand.english) =>
           stirred \/ hand.text = target_lang

\* An event's target_language is the language of its text, and Mayura was left
\* out exactly for English, unless an update stored target_lang meanwhile.
THEOREM LabelTrue == Spec => []LabelFitsText
<1>1. Init => LabelInv
  <2> SUFFICES ASSUME Init PROVE LabelInv
    OBVIOUS
  <2>1. /\ last.english = FALSE /\ last.text = None /\ last.target_language = None
    BY DEF Init, NoEvent
  <2>2. FALSE = (None \in English)
    BY PipelineAssumption
  <2> QED
    BY <2>1, <2>2 DEF Init, LabelInv, LabelFitsText
<1>2. TypedInv /\ LabelInv /\ [Next]_vars => LabelInv'
  <2> SUFFICES ASSUME TypedInv, LabelInv, [Next]_vars PROVE LabelInv'
    OBVIOUS
  <2>0. hand \in HandType
    BY DEF TypedInv
  <2> USE DEF LabelInv, LabelFitsText
  <2>1. CASE UNCHANGED vars
    BY <2>1 DEF vars, config, main
  <2>2. ASSUME NEW u \in Updaters, NEW m \in Messages, UMessage(u, m)
        PROVE  LabelInv'
    BY <2>2 DEF UMessage, config, main
  <2>3. ASSUME NEW u \in Updaters, Updating(u) PROVE LabelInv'
    <3>1. CASE UTarget(u)
      <4>1. last' = last
        BY <3>1 DEF UTarget
      <4>2. /\ stirred => stirred'
            /\ pc \in {"asr", "mt", "label", "emit"} =>
                   stirred' \/ target_lang' = target_lang
            /\ UNCHANGED <<pc, hand>>
        BY <3>1 DEF UTarget, main
      <4> QED
        BY <4>1, <4>2
    <3>2. CASE USource(u) \/ UCompare(u) \/ USize(u) \/ UChunker(u) \/ URaise(u)
      BY <3>2 DEF USource, UCompare, USize, UChunker, URaise, config, main
    <3> QED
      BY <2>3, <3>1, <3>2 DEF Updating
  <2>4. ASSUME NEW n \in Payloads, MFrame(n) PROVE LabelInv'
    BY <2>4 DEF MFrame
  <2>5. CASE MIdle \/ MOdd \/ MAdd \/ MFetch \/ MNone \/ MSpin
    BY <2>5 DEF MIdle, MOdd, MAdd, MFetch, MNone, MSpin, vars, config, main
  <2>6. ASSUME NEW speech \in BOOLEAN, MNext(speech) PROVE LabelInv'
    BY <2>6 DEF MNext
  <2>7. CASE MBranch
    <3>1. hand'.english <=> target_lang \in English
      BY <2>0, <2>7 DEF MBranch, HandType
    <3>2. hand'.english => hand'.text = target_lang
      BY <2>0, <2>7 DEF MBranch, HandType
    <3> QED
      BY <2>7, <3>1, <3>2 DEF MBranch, config
  <2>8. CASE MAsr
    <3>1. (hand'.english <=> hand.english) /\ hand'.text = hand.text
      BY <2>0, <2>8 DEF MAsr, HandType
    <3> QED
      BY <2>8, <3>1 DEF MAsr, config
  <2>9. CASE MMt
    <3>1. (hand'.english <=> hand.english) /\ hand'.text = target_lang
      BY <2>0, <2>9 DEF MMt, HandType
    <3> QED
      BY <2>9, <3>1 DEF MMt, config
  <2>10. CASE MLabel
    <3>1. (hand'.english <=> hand.english) /\ hand'.text = hand.text
      BY <2>0, <2>10 DEF MLabel, HandType
    <3> QED
      BY <2>10, <3>1 DEF MLabel, config
  <2>11. CASE MEmit
    <3>1. /\ last'.english = hand.english /\ last'.text = hand.text
          /\ last'.target_language = target_lang /\ last'.stirred = stirred
      BY <2>11 DEF MEmit, Target
    <3>2. hand.english \in BOOLEAN
      BY <2>0 DEF HandType
    <3>3. ASSUME ~last'.stirred
          PROVE  /\ last'.text = last'.target_language
                 /\ last'.english = (last'.text \in English)
      <4>1. ~stirred
        BY <3>1, <3>3
      <4>2. hand.text = target_lang /\ (hand.english <=> target_lang \in English)
        BY <2>11, <4>1 DEF MEmit
      <4>3. hand.english = (hand.text \in English)
        BY <3>2, <4>2
      <4> QED
        BY <3>1, <4>2, <4>3
    <3> QED
      BY <2>11, <3>3 DEF MEmit
  <2> QED
    BY <2>1, <2>2, <2>3, <2>4, <2>5, <2>6, <2>7, <2>8, <2>9, <2>10, <2>11
       DEF Next, Processing
<1>3. LabelInv => LabelFitsText
  BY DEF LabelInv
<1> QED
  BY <1>1, <1>2, <1>3, TypedAlways, PTL DEF Spec

-----------------------------------------------------------------------------
(* The size of chunks *)

Between(u) == upc[u] = "chunker"

\* Unless torn, one thread at most is between the two stores, the one that has
\* stored chunk_size; and if there is none, the chunker has that size.
SizeInv ==
    ~torn =>
        /\ \A u \in Updaters : Between(u) => umsg[u].size = chunk_size
        /\ \A u, v \in Updaters : Between(u) /\ Between(v) => u = v
        /\ \/ \E u \in Updaters : Between(u)
           \/ objects[chunker].size = Samples[chunk_size]

\* However many clients send updates at once: when nobody is between the two
\* stores the chunker in use has the configured size, unless the newest store of
\* the size came between another client's two stores, or no chunker was made.
THEOREM SizeSettled == Spec => []SizeSettles
<1>1. Init => SizeInv
  <2> SUFFICES ASSUME Init PROVE SizeInv
    OBVIOUS
  <2>1. objects[chunker].size = Samples[chunk_size]
    BY DEF Init, NewChunker
  <2>2. \A u \in Updaters : ~Between(u)
    BY DEF Init, Between
  <2> QED
    BY <2>1, <2>2 DEF SizeInv
<1>2. TypedInv /\ SizeInv /\ [Next]_vars => SizeInv'
  <2> SUFFICES ASSUME TypedInv, SizeInv, [Next]_vars PROVE SizeInv'
    OBVIOUS
  <2>1. ASSUME UNCHANGED <<config, objects, threads>> PROVE SizeInv'
    BY <2>1 DEF SizeInv, Between, config, threads
  <2>2. ASSUME NEW u \in Updaters,
               \/ \E m \in Messages : UMessage(u, m)
               \/ USource(u) \/ UTarget(u) \/ UCompare(u)
        PROVE  SizeInv'
    <3>1. /\ UNCHANGED <<chunk_size, chunker, objects, torn>>
          /\ \A v \in Updaters : Between(v)' <=> Between(v)
          /\ \A v \in Updaters : Between(v) => umsg'[v] = umsg[v]
      BY <2>2 DEF UMessage, USource, UTarget, UCompare, UStep, UForget, config, Between,
                  TypedInv, TypeOK
    <3> QED
      BY <3>1 DEF SizeInv
  <2>3. ASSUME NEW u \in Updaters, USize(u) PROVE SizeInv'
    <3>1. /\ chunk_size' = umsg[u].size /\ umsg' = umsg
          /\ torn' <=> \E v \in Updaters \ {u} : Between(v)
          /\ \A v \in Updaters : Between(v)' <=> (v = u \/ Between(v))
      BY <2>3 DEF USize, UStep, Between, TypedInv, TypeOK
    <3> QED
      BY <3>1 DEF SizeInv
  <2>4. ASSUME NEW u \in Updaters, UChunker(u) PROVE SizeInv'
    <3>1. /\ objects' = Append(objects, NewChunker(Samples[umsg[u].size]))
          /\ chunker' = Len(objects) + 1
          /\ UNCHANGED <<chunk_size, torn>>
          /\ Between(u) /\ \A v \in Updaters : Between(v)' <=> (v # u /\ Between(v))
      BY <2>4 DEF UChunker, UStep, SizeMade, Between, TypedInv, TypeOK
    <3>2. objects'[chunker'].size = Samples[umsg[u].size]
      <4>1. objects'[chunker'] = NewChunker(Samples[umsg[u].size])
        BY <3>1, AppendProperties DEF TypedInv, TypeOK
      <4> QED
        BY <4>1 DEF NewChunker
    <3> QED
      BY <3>1, <3>2 DEF SizeInv
  <2>10. ASSUME NEW u \in Updaters, URaise(u) PROVE SizeInv'
    BY <2>10 DEF URaise, SizeInv
  <2>11. ASSUME UNCHANGED <<chunk_size, chunker, upc, umsg, torn>>,
                \A c \in 1 .. Len(objects) : objects'[c].size = objects[c].size
         PROVE  SizeInv'
    <3>1. objects'[chunker'].size = objects[chunker].size
      BY <2>11 DEF TypedInv, TypeOK
    <3>2. \A u \in Updaters : Between(u)' <=> Between(u)
      BY <2>11 DEF Between
    <3> QED
      BY <2>11, <3>1, <3>2 DEF SizeInv
  <2>5. CASE MAdd
    <3>1. \A c \in 1 .. Len(objects) : objects'[c].size = objects[c].size
      BY <2>5, AddEffect
    <3> QED
      BY <2>5, <2>11, <3>1 DEF MAdd, config, threads
  <2>6. ASSUME NEW speech \in BOOLEAN, MNext(speech) PROVE SizeInv'
    <3>1. \A c \in 1 .. Len(objects) : objects'[c].size = objects[c].size
      BY <2>6, NextEffect
    <3> QED
      BY <2>6, <2>11, <3>1 DEF MNext, config, threads
  <2>7. ASSUME NEW n \in Payloads, MFrame(n) PROVE SizeInv'
    BY <2>1, <2>7 DEF MFrame
  <2>8. CASE MIdle \/ MOdd \/ MFetch \/ MNone \/ MSpin \/ UNCHANGED vars
    BY <2>1, <2>8 DEF MIdle, MOdd, MFetch, MNone, MSpin, vars
  <2>9. CASE MBranch \/ MAsr \/ MMt \/ MLabel \/ MEmit
    BY <2>1, <2>9 DEF MBranch, MAsr, MMt, MLabel, MEmit
  <2> QED
    BY <2>2, <2>3, <2>4, <2>5, <2>6, <2>7, <2>8, <2>9, <2>10
       DEF Next, Processing, Updating
<1>3. SizeInv => SizeSettles
  BY DEF SizeInv, SizeSettles, Between
<1> QED
  BY <1>1, <1>2, <1>3, TypedAlways, PTL DEF Spec

-----------------------------------------------------------------------------
(* Where the samples are *)

Holding == pc \in {"branch", "asr", "mt", "label", "emit"}

EventType == [samples : Seq(Nat \ {0}), speech : BOOLEAN, is_final : BOOLEAN, by : Nat]

\* The samples s are a chunk of chunker c.
Whole(s, c) == objects[c].size > 0 => Len(s) = objects[c].size

\* Only the chunker in hand and older ones hold samples; what is in it when
\* the main thread asks for no chunk is less than one.
DrainInv ==
    /\ chunker = Len(objects)
    /\ \A c \in 1 .. Len(objects) : c > held => objects[c].buffer = <<>>
    /\ pc \in {"idle", "add"} => Len(objects[held].buffer) < Limit(objects[held])
    /\ IF Holding THEN hand.by = held /\ Whole(hand.samples, held)
                  ELSE hand.samples = <<>>
    /\ events \in Seq(EventType)
    /\ \A i \in 1 .. Len(events) :
           /\ events[i].by \in 1 .. Len(objects)
           /\ Whole(events[i].samples, events[i].by)

\* The samples of s are those up to sample k.
Stretch(s, k) == \A i \in 1 .. Len(s) : s[i] = (k - Len(s)) + i

\* The samples no event can be about any more.
Gone == (fed - Len(objects[held].buffer)) - Len(hand.samples)

\* The buffer in hand is the newest audio, the chunk in hand comes right before
\* it, and the events are about what is older still.
OrderInv ==
    /\ Stretch(objects[held].buffer, fed)
    /\ Stretch(hand.samples, fed - Len(objects[held].buffer))
    /\ Gone >= 0
    /\ \A i \in 1 .. Len(events) :
           /\ Consecutive(events[i].samples)
           /\ \A k \in 1 .. Len(events[i].samples) : events[i].samples[k] <= Gone
           /\ \A j \in 1 .. Len(events) :
                  i < j => Before(events[i].samples, events[j].samples)

In(k, s) == \E i \in 1 .. Len(s) : s[i] = k

\* Sample k is in an event, in hand, or in a chunker.
Kept(k) ==
    \/ \E i \in 1 .. Len(events) : In(k, events[i].samples)
    \/ In(k, hand.samples)
    \/ \E c \in 1 .. Len(objects) : In(k, objects[c].buffer)

\* A frame at most on top of less than a chunk.
Limited(c) == \E n \in Payloads : Len(objects[c].buffer) < Limit(objects[c]) + n \div 2

\* No sample disappears, and no chunker holds more than one frame too much.
KeepInv ==
    /\ \A k \in 1 .. fed : Kept(k)
    /\ \A c \in 1 .. Len(objects) : Limited(c)

(* The kinds of step, by what they do to the samples *)

Still ==
    /\ UNCHANGED <<objects, chunker, held, events, fed>>
    /\ hand'.samples = hand.samples /\ hand'.by = hand.by
    /\ hand'.speech = hand.speech /\ hand'.is_final = hand.is_final
    /\ Holding' <=> Holding
    /\ pc' \in {"idle", "add"} =>
           pc \in {"idle", "add"} \/ Len(objects[held].buffer) < Limit(objects[held])

\* The main thread takes up the newest chunker.
Turn ==
    /\ UNCHANGED <<objects, chunker, events, fed, hand>>
    /\ ~Holding /\ ~Holding'
    /\ held' = chunker
    /\ pc' \in {"idle", "add"} => pc = "idle"

\* update_config makes a chunker.
Made ==
    /\ \E o \in Chunker : /\ o.buffer = <<>> /\ o.speech_frames = 0
                          /\ objects' = Append(objects, o)
    /\ chunker' = Len(objects) + 1
    /\ UNCHANGED <<main, events, fed>>

\* TypeOK, chunker by chunker.
LEMMA Bounds ==
    ASSUME TypedInv
    PROVE  /\ held \in 1 .. Len(objects) /\ chunker \in 1 .. Len(objects)
           /\ Len(objects) \in Nat /\ fed \in Nat
           /\ \A c \in 1 .. Len(objects) :
                  /\ objects[c].size \in Int /\ objects[c].buffer \in Seq(1 .. fed)
                  /\ Limit(objects[c]) \in Nat \ {0}
<1>1. objects \in Seq(Chunker)
  BY DEF TypedInv, TypeOK
<1>2. ASSUME NEW c \in 1 .. Len(objects)
      PROVE  /\ objects[c].size \in Int /\ objects[c].buffer \in Seq(1 .. fed)
             /\ Limit(objects[c]) \in Nat \ {0}
  <2>1. objects[c] \in Chunker
    BY <1>1
  <2>2. objects[c].size \in Int /\ objects[c].buffer \in Seq(1 .. fed)
    BY <2>1 DEF Chunker
  <2> QED
    BY <2>2 DEF Limit
<1>3. /\ held \in 1 .. Len(objects) /\ chunker \in 1 .. Len(objects)
      /\ Len(objects) \in Nat /\ fed \in Nat
  BY <1>1, PipelineAssumption DEF TypedInv, TypeOK
<1> QED
  BY <1>2, <1>3

LEMMA Flow ==
    ASSUME TypedInv, [Next]_vars
    PROVE  Still \/ Turn \/ Made \/ MAdd \/ (\E speech \in BOOLEAN : MNext(speech)) \/ MEmit
<1> USE DEF Still, Turn, Made, Holding
<1>1. ASSUME NEW u \in Updaters, NEW m \in Messages, UMessage(u, m) PROVE Still
  BY <1>1 DEF UMessage, config, main
<1>2. ASSUME NEW u \in Updaters, Updating(u) PROVE Still \/ Made
  <2>1. CASE USource(u) \/ UTarget(u) \/ UCompare(u) \/ USize(u) \/ URaise(u)
    BY <2>1 DEF USource, UTarget, UCompare, USize, URaise, config, main
  <2>2. CASE UChunker(u)
    <3>1. umsg[u].size \in Sizes /\ Samples[umsg[u].size] # None
      BY <2>2 DEF TypedInv, UChunker, UStep
    <3>2. Samples[umsg[u].size] \in Int
      BY <3>1, PipelineAssumption
    <3> DEFINE o == NewChunker(Samples[umsg[u].size])
    <3>3. o \in Chunker /\ o.buffer = <<>> /\ o.speech_frames = 0
      BY <3>2 DEF NewChunker, Chunker
    <3>4. objects' = Append(objects, o)
      BY <2>2 DEF UChunker, SizeMade
    <3> HIDE DEF o
    <3> QED
      BY <2>2, <3>3, <3>4 DEF UChunker
  <2> QED
    BY <1>2, <2>1, <2>2 DEF Updating
<1>3. ASSUME NEW n \in Payloads, MFrame(n) PROVE Turn
  BY <1>3 DEF MFrame, config
<1>4. CASE MIdle \/ MOdd \/ UNCHANGED vars
  BY <1>4 DEF MIdle, MOdd, vars, config, main
<1>5. CASE MFetch
  BY <1>5 DEF MFetch, config
<1>6. CASE MNone
  <2>1. /\ objects[held].size \in Int /\ Len(objects[held].buffer) \in Nat
        /\ Len(objects[held].buffer) < objects[held].size
    BY <1>6, Bounds, LenProperties DEF MNone, Short
  <2>2. Len(objects[held].buffer) < Limit(objects[held])
    BY <2>1 DEF Limit
  <2> QED
    BY <1>6, <2>2 DEF MNone, config
<1>8. CASE MSpin
  BY <1>8 DEF MSpin, config
<1>7. CASE MBranch \/ MAsr \/ MMt \/ MLabel
  <2>1. /\ hand'.samples = hand.samples /\ hand'.by = hand.by
        /\ hand'.speech = hand.speech /\ hand'.is_final = hand.is_final
    BY <1>7 DEF MBranch, MAsr, MMt, MLabel, TypedInv, HandType
  <2> QED
    BY <1>7, <2>1 DEF MBranch, MAsr, MMt, MLabel, config
<1> QED
  BY <1>1, <1>2, <1>3, <1>4, <1>5, <1>6, <1>7, <1>8 DEF Next, Processing

\* What a new chunker changes.
LEMMA MadeEffect ==
    ASSUME TypedInv, DrainInv, Made
    PROVE  /\ Len(objects') = Len(objects) + 1 /\ chunker' = Len(objects')
           /\ objects'[Len(objects) + 1].buffer = <<>>
           /\ objects'[Len(objects) + 1].speech_frames = 0
           /\ Limit(objects'[Len(objects) + 1]) \in Nat \ {0}
           /\ \A c \in 1 .. Len(objects) : objects'[c] = objects[c]
           /\ held \in 1 .. Len(objects) /\ Len(objects) \in Nat
           /\ UNCHANGED <<pc, held, hand, events, fed>>
<1> PICK o \in Chunker : /\ o.buffer = <<>> /\ o.speech_frames = 0
                         /\ objects' = Append(objects, o)
  BY DEF Made
<1>1. objects \in Seq(Chunker) /\ held \in 1 .. Len(objects)
  BY DEF TypedInv, TypeOK
<1>2. /\ Len(objects') = Len(objects) + 1 /\ objects'[Len(objects) + 1] = o
      /\ \A c \in 1 .. Len(objects) : objects'[c] = objects[c]
  BY <1>1, AppendProperties
<1>3. Limit(o) \in Nat \ {0}
  BY DEF Limit, Chunker
<1> QED
  BY <1>1, <1>2, <1>3 DEF Made, main

\* What the end of _process_chunk changes.
LEMMA EmitEffect ==
    ASSUME TypedInv, DrainInv, MEmit
    PROVE  /\ Holding /\ ~Holding' /\ pc' = "fetch"
           /\ UNCHANGED <<objects, chunker, held, fed>>
           /\ hand'.samples = <<>>
           /\ events' \in Seq(EventType) /\ Len(events') = Len(events) + 1
           /\ Len(events) \in Nat
           /\ events'[Len(events) + 1].samples = hand.samples
           /\ events'[Len(events) + 1].by = held
           /\ events'[Len(events) + 1].speech = hand.speech
           /\ events'[Len(events) + 1].is_final = hand.is_final
           /\ \A i \in 1 .. Len(events) : events'[i] = events[i]
<1> DEFINE e == [samples |-> hand.samples, speech |-> hand.speech,
                 is_final |-> hand.is_final, by |-> hand.by]
<1>1. hand.samples \in Seq(Nat \ {0})
  <2>1. hand.samples \in Seq(1 .. fed) /\ 1 .. fed \subseteq Nat \ {0}
    BY DEF TypedInv, HandType
  <2> QED
    BY <2>1, SeqMonotonic
<1>2. e \in EventType
  BY <1>1 DEF TypedInv, HandType, EventType
<1>3. events' = Append(events, e) /\ events \in Seq(EventType) /\ hand.by = held
  BY DEF MEmit, DrainInv, Holding
<1> HIDE DEF e
<1>4. /\ events' \in Seq(EventType) /\ Len(events') = Len(events) + 1
      /\ Len(events) \in Nat
      /\ events'[Len(events) + 1] = e
      /\ \A i \in 1 .. Len(events) : events'[i] = events[i]
  BY <1>2, <1>3, AppendProperties
<1>5. hand'.samples = <<>>
  BY DEF MEmit, NoChunk
<1> QED
  BY <1>3, <1>4, <1>5 DEF e, MEmit, Holding, config

\* NextEffect, sample by sample.
LEMMA NextSamples ==
    ASSUME TypedInv, NEW speech \in BOOLEAN, MNext(speech)
    PROVE  LET b == objects[held].buffer
               n == Cut(objects[held])
           IN  /\ n \in Nat /\ Len(b) \in Nat /\ n <= Len(b)
               /\ objects[held].size > 0 => n = objects[held].size
               /\ Len(hand'.samples) = n
               /\ \A i \in 1 .. n : hand'.samples[i] = b[i]
               /\ Len(objects'[held].buffer) = Len(b) - n
               /\ \A i \in 1 .. Len(b) - n : objects'[held].buffer[i] = b[n + i]
<1> DEFINE b == objects[held].buffer
           n == Cut(objects[held])
<1>1. /\ n \in Nat /\ b \in Seq(1 .. fed) /\ n <= Len(b)
      /\ objects[held].size > 0 => n = objects[held].size
      /\ hand'.samples = SubSeq(b, 1, n)
      /\ objects'[held].buffer = SubSeq(b, n + 1, Len(b))
  BY NextEffect
<1> HIDE DEF b, n
<1>5. Len(b) \in Nat /\ \A i \in 1 .. Len(b) : b[i] \in 1 .. fed
  BY <1>1, LenProperties, ElementOfSeq
<1>2. /\ Len(b) \in Nat
      /\ \A i \in 1 .. n : b[i] \in 1 .. fed
      /\ \A i \in n + 1 .. Len(b) : b[i] \in 1 .. fed
  BY <1>1, <1>5
<1>3. /\ Len(SubSeq(b, 1, n)) = n
      /\ \A i \in 1 .. n : SubSeq(b, 1, n)[i] = b[i]
  <2>1. \A i \in 1 .. (n - 1) + 1 : SubSeq(b, 1, n)[i] = b[(1 + i) - 1]
    BY <1>1, <1>2, SubSeqProperties
  <2> QED
    BY <1>1, <1>2, <2>1, SubSeqProperties
<1>4. /\ Len(SubSeq(b, n + 1, Len(b))) = Len(b) - n
      /\ \A i \in 1 .. Len(b) - n : SubSeq(b, n + 1, Len(b))[i] = b[n + i]
  <2>1. \A i \in 1 .. (Len(b) - (n + 1)) + 1 :
            SubSeq(b, n + 1, Len(b))[i] = b[((n + 1) + i) - 1]
    BY <1>1, <1>2, SubSeqProperties
  <2> QED
    BY <1>1, <1>2, <2>1, SubSeqProperties
<1> QED
  BY <1>1, <1>2, <1>3, <1>4 DEF b, n

LEMMA DrainStep ==
    ASSUME TypedInv, DrainInv, [Next]_vars
    PROVE  DrainInv'
<1>0. /\ held \in 1 .. Len(objects) /\ chunker \in 1 .. Len(objects)
      /\ \A c \in 1 .. Len(objects) : Limit(objects[c]) \in Nat \ {0}
      /\ Len(objects) \in Nat
  BY Bounds
<1>1. CASE Still
  <2>1. pc' \in {"idle", "add"} => Len(objects'[held'].buffer) < Limit(objects'[held'])
    BY <1>1 DEF Still, DrainInv
  <2>2. IF Holding' THEN hand'.by = held' /\ Whole(hand.samples, held)'
                    ELSE hand'.samples = <<>>
    BY <1>1 DEF Still, DrainInv, Whole
  <2> QED
    BY <1>0, <1>1, <2>1, <2>2 DEF Still, DrainInv, Whole
<1>2. CASE Turn
  <2>1. Len(<<>>) = 0
    OBVIOUS
  <2> QED
    BY <1>0, <1>2, <2>1 DEF Turn, DrainInv, Holding, Whole
<1>3. CASE Made
  <2>1. /\ Len(objects') = Len(objects) + 1 /\ chunker' = Len(objects')
        /\ objects'[Len(objects) + 1].buffer = <<>>
        /\ \A c \in 1 .. Len(objects) : objects'[c] = objects[c]
        /\ UNCHANGED <<pc, held, hand, events>>
    BY <1>3, MadeEffect
  <2>2. \A c \in 1 .. Len(objects') : c > held => objects'[c].buffer = <<>>
    BY <1>0, <2>1 DEF DrainInv
  <2>3. \A i \in 1 .. Len(events) :
            /\ events[i].by \in 1 .. Len(objects')
            /\ objects'[events[i].by].size > 0 =>
                   Len(events[i].samples) = objects'[events[i].by].size
    BY <1>0, <2>1 DEF DrainInv, Whole
  <2> QED
    BY <1>0, <2>1, <2>2, <2>3 DEF DrainInv, Holding, Whole
<1>4. CASE MAdd
  BY <1>0, <1>4, AddEffect DEF MAdd, DrainInv, Holding, Whole, config
<1>5. ASSUME NEW speech \in BOOLEAN, MNext(speech) PROVE DrainInv'
  <2>1. \A c \in 1 .. Len(objects) : objects'[c].size = objects[c].size
    BY <1>5, NextEffect
  <2>2. /\ pc' = "branch" /\ UNCHANGED <<chunker, held, events>>
        /\ Len(objects') = Len(objects) /\ hand'.by = held
        /\ objects[held].size > 0 => Len(hand'.samples) = objects[held].size
        /\ \A c \in 1 .. Len(objects) : c > held => objects'[c] = objects[c]
    <3>1. pc' = "branch" /\ UNCHANGED <<chunker, held, events>>
      BY <1>5 DEF MNext, config
    <3>2. objects[held].size > 0 => Len(hand'.samples) = objects[held].size
      BY <1>5, NextSamples
    <3> QED
      BY <1>0, <1>5, <3>1, <3>2, NextEffect
  <2> QED
    BY <1>0, <2>1, <2>2 DEF DrainInv, Holding, Whole
<1>6. CASE MEmit
  <2>1. UNCHANGED <<objects, chunker, held>> /\ Holding /\ ~Holding' /\ pc' = "fetch"
    BY <1>6, EmitEffect
  <2>2. /\ hand'.samples = <<>> /\ events' \in Seq(EventType)
        /\ Whole(hand.samples, held)
    BY <1>6, <2>1, EmitEffect DEF DrainInv
  <2>3. ASSUME NEW i \in 1 .. Len(events')
        PROVE  /\ events'[i].by \in 1 .. Len(objects)
               /\ Whole(events'[i].samples, events'[i].by)
    <3>1. CASE i = Len(events) + 1
      BY <1>0, <1>6, <2>2, <3>1, EmitEffect
    <3>2. CASE i \in 1 .. Len(events)
      BY <1>6, <3>2, EmitEffect DEF DrainInv
    <3> QED
      BY <1>6, <3>1, <3>2, EmitEffect
  <2> QED
    BY <2>1, <2>2, <2>3 DEF DrainInv, Whole
<1> QED
  BY <1>1, <1>2, <1>3, <1>4, <1>5, <1>6, Flow

LEMMA DrainAlways == Spec => []DrainInv
<1>1. Init => DrainInv
  <2> SUFFICES ASSUME Init PROVE DrainInv
    OBVIOUS
  <2>1. /\ chunker = 1 /\ held = 1 /\ Len(objects) = 1 /\ objects[1].buffer = <<>>
        /\ events = <<>> /\ hand.samples = <<>> /\ pc = "idle"
    BY DEF Init, NewChunker, NoChunk
  <2>2. Limit(objects[1]) > 0
    <3>1. TypedInv
      BY InitTyped
    <3> QED
      BY <2>1, <3>1, Bounds
  <2> QED
    BY <2>1, <2>2 DEF DrainInv, Holding
<1> QED
  BY <1>1, DrainStep, TypedAlways, PTL DEF Spec

\* The buffer is bounded though max_buffer_ms is enforced nowhere: less than a
\* chunk remains when process_audio_bytes returns, and chunks are whole.
THEOREM DrainedAlways == Spec => []BufferDrained
<1>1. TypedInv /\ DrainInv => BufferDrained
  <2> SUFFICES ASSUME TypedInv, DrainInv PROVE BufferDrained
    OBVIOUS
  <2>1. Len(<<>>) = 0 /\ DOMAIN events = 1 .. Len(events)
    BY DEF DrainInv
  <2>2. /\ held \in 1 .. Len(objects) /\ chunker \in 1 .. Len(objects)
        /\ Limit(objects[chunker]) \in Nat \ {0} /\ Len(objects) \in Nat
    BY Bounds
  <2>3. CASE chunker = held
    BY <2>1, <2>3 DEF DrainInv, BufferDrained, Whole
  <2>4. CASE chunker > held
    BY <2>1, <2>2, <2>4 DEF DrainInv, BufferDrained, Whole
  <2> QED
    BY <2>2, <2>3, <2>4 DEF DrainInv
<1> QED
  BY <1>1, TypedAlways, DrainAlways, PTL

-----------------------------------------------------------------------------
(* Order *)

\* A stretch goes on with what comes right after it.
LEMMA StretchGrows ==
    ASSUME NEW f \in Nat, NEW S, NEW b \in Seq(S), NEW new \in Seq(S), Stretch(b, f),
           Stretch(new, f + Len(new))
    PROVE  /\ Len(b \o new) = Len(b) + Len(new) /\ Len(b) \in Nat /\ Len(new) \in Nat
           /\ Stretch(b \o new, f + Len(new))
<1>1. /\ Len(b) \in Nat /\ Len(new) \in Nat
      /\ Len(b \o new) = Len(b) + Len(new)
      /\ \A i \in 1 .. Len(b) + Len(new) :
             (b \o new)[i] = IF i <= Len(b) THEN b[i] ELSE new[i - Len(b)]
  BY ConcatProperties, LenProperties
<1> DEFINE m == Len(b)
           n == Len(new)
<1>2. ASSUME NEW i \in 1 .. m + n PROVE (b \o new)[i] = ((f + n) - (m + n)) + i
  <2>1. CASE i <= m
    <3>1. i \in 1 .. m /\ (b \o new)[i] = b[i]
      BY <1>1, <1>2, <2>1
    <3>2. b[i] = (f - m) + i
      BY <3>1 DEF Stretch
    <3> QED
      BY <1>1, <3>1, <3>2
  <2>2. CASE i > m
    <3>1. i - m \in 1 .. n /\ (b \o new)[i] = new[i - m]
      BY <1>1, <1>2, <2>2
    <3>2. new[i - m] = ((f + n) - n) + (i - m)
      BY <3>1 DEF Stretch
    <3> QED
      BY <1>1, <3>1, <3>2
  <2> QED
    BY <1>1, <2>1, <2>2
<1> QED
  BY <1>1, <1>2 DEF Stretch

\* The two parts of a stretch are stretches.
LEMMA StretchCut ==
    ASSUME NEW f \in Nat, NEW b, NEW h, NEW r, NEW n \in Nat,
           Len(b) \in Nat, n <= Len(b), Stretch(b, f),
           Len(h) = n, \A i \in 1 .. n : h[i] = b[i],
           Len(r) = Len(b) - n, \A i \in 1 .. Len(b) - n : r[i] = b[n + i]
    PROVE  Stretch(h, f - Len(r)) /\ Stretch(r, f)
<1>1. ASSUME NEW i \in 1 .. n PROVE h[i] = ((f - Len(r)) - n) + i
  BY DEF Stretch
<1>2. ASSUME NEW i \in 1 .. Len(b) - n PROVE r[i] = (f - Len(r)) + i
  <2>1. n + i \in 1 .. Len(b)
    OBVIOUS
  <2>2. b[n + i] = (f - Len(b)) + (n + i)
    BY <2>1 DEF Stretch
  <2> QED
    BY <2>2
<1> QED
  BY <1>1, <1>2 DEF Stretch

\* A stretch is unbroken, and between its bounds.
LEMMA StretchOrder ==
    ASSUME NEW k \in Int, NEW s, Len(s) \in Nat, Stretch(s, k)
    PROVE  Consecutive(s) /\ \A i \in 1 .. Len(s) : s[i] <= k /\ s[i] > k - Len(s)
<1>1. \A i \in 1 .. Len(s) : s[i] = (k - Len(s)) + i
  BY DEF Stretch
<1>2. ASSUME NEW i \in 1 .. Len(s) - 1 PROVE s[i + 1] = s[i] + 1
  <2>1. i \in 1 .. Len(s) /\ i + 1 \in 1 .. Len(s)
    OBVIOUS
  <2> QED
    BY <1>1, <2>1
<1> QED
  BY <1>1, <1>2 DEF Consecutive

\* A step that keeps the events, and takes no sample back from what is gone.
LEMMA EventsKept ==
    ASSUME OrderInv, UNCHANGED events, Gone \in Int, Gone' \in Int, Gone <= Gone',
           events \in Seq(EventType),
           Stretch(objects[held].buffer, fed)',
           Stretch(hand.samples, fed - Len(objects[held].buffer))'
    PROVE  OrderInv'
<1>1. ASSUME NEW i \in 1 .. Len(events), NEW k \in 1 .. Len(events[i].samples)
      PROVE  events[i].samples[k] <= Gone'
  <2>1. events[i] \in EventType
    OBVIOUS
  <2>2. events[i].samples[k] \in Nat
    BY <2>1 DEF EventType
  <2> QED
    BY <2>2 DEF OrderInv
<1> QED
  BY <1>1 DEF OrderInv

\* Lengths, and what is in hand when nothing is.
LEMMA Lengths ==
    ASSUME TypedInv, DrainInv
    PROVE  /\ \A c \in 1 .. Len(objects) : Len(objects[c].buffer) \in Nat
           /\ Len(hand.samples) \in Nat
           /\ ~Holding => Len(hand.samples) = 0
           /\ Gone \in Int
<1>1. \A c \in 1 .. Len(objects) : Len(objects[c].buffer) \in Nat
  BY Bounds, LenProperties
<1>2. Len(hand.samples) \in Nat
  BY LenProperties DEF TypedInv, HandType
<1>3. ~Holding => Len(hand.samples) = 0
  BY DEF DrainInv
<1> QED
  BY <1>1, <1>2, <1>3, Bounds DEF Gone

LEMMA OrderStep ==
    ASSUME TypedInv, DrainInv, OrderInv, [Next]_vars, TypedInv', DrainInv'
    PROVE  OrderInv'
<1> DEFINE b == objects[held].buffer
<1>0. /\ Len(b) \in Nat /\ fed \in Nat /\ Len(hand.samples) \in Nat
      /\ held \in 1 .. Len(objects)
      /\ Gone \in Int /\ events \in Seq(EventType)
  BY Bounds, Lengths DEF DrainInv
<1>1. CASE Still
  BY <1>1 DEF Still, OrderInv, Stretch, Gone, Before
<1>2. CASE Turn
  <2>1. Len(hand.samples) = 0 /\ hand' = hand /\ fed' = fed /\ events' = events
    BY <1>2, Lengths DEF Turn
  <2>2. b' = b \/ b' = <<>>
    BY <1>2, Bounds DEF Turn, DrainInv
  <2>3. Len(<<>>) = 0
    OBVIOUS
  <2>4. Stretch(objects[held].buffer, fed)'
    BY <2>1, <2>2, <2>3 DEF OrderInv, Stretch
  <2>6. Gone' = fed - Len(b') /\ Gone = fed - Len(b) /\ Len(b') \in Nat /\ Len(b') <= Len(b)
    BY <1>0, <2>1, <2>2, <2>3 DEF Gone
  <2>5. Stretch(hand.samples, fed - Len(objects[held].buffer))'
    BY <2>1 DEF Stretch
  <2> HIDE DEF b
  <2>7. Gone' \in Int /\ Gone <= Gone'
    BY <1>0, <2>6
  <2> QED
    BY <1>0, <2>1, <2>4, <2>5, <2>7, EventsKept
<1>3. CASE Made
  <2>1. b' = b /\ UNCHANGED <<fed, hand, events>>
    BY <1>3, MadeEffect
  <2> QED
    BY <2>1 DEF OrderInv, Stretch, Gone, Before
<1>4. CASE MAdd
  <2>1. Len(hand.samples) = 0 /\ UNCHANGED <<held, hand, events>>
    BY <1>4, Lengths DEF MAdd, Holding
  <2>2. /\ b' = b \o New /\ b \in Seq(1 .. fed') /\ New \in Seq(1 .. fed')
        /\ fed' = fed + Len(New) /\ Len(New) \in Nat
        /\ \A i \in 1 .. Len(New) : New[i] = fed + i
    BY <1>4, <2>1, AddEffect, NewSamples
  <2>3. Stretch(b, fed)
    BY DEF OrderInv
  <2>7. Stretch(New, fed + Len(New))
    BY <1>0, <2>2 DEF Stretch
  <2>8. /\ Gone = (fed - Len(b)) - Len(hand.samples)
        /\ Gone' = (fed' - Len(b')) - Len(hand.samples)
    BY <2>1 DEF Gone
  <2> HIDE DEF b
  <2>4. Len(b') = Len(b) + Len(New) /\ Stretch(b', fed')
    BY <1>0, <2>2, <2>3, <2>7, StretchGrows
  <2>5. Gone' = Gone
    BY <1>0, <2>1, <2>2, <2>4, <2>8
  <2>6. Stretch(hand.samples, fed - Len(objects[held].buffer))'
    BY <2>1 DEF Stretch
  <2> QED
    BY <1>0, <2>1, <2>4, <2>5, <2>6, EventsKept DEF b
<1>5. ASSUME NEW speech \in BOOLEAN, MNext(speech) PROVE OrderInv'
  <2>1. Len(hand.samples) = 0 /\ UNCHANGED <<held, fed, events>>
    BY <1>5, Lengths DEF MNext, Holding
  <2> DEFINE n == Cut(objects[held])
  <2>2. /\ n \in Nat /\ n <= Len(b)
        /\ Len(hand'.samples) = n
        /\ \A i \in 1 .. n : hand'.samples[i] = b[i]
        /\ Len(b') = Len(b) - n
        /\ \A i \in 1 .. Len(b) - n : b'[i] = b[n + i]
    BY <1>5, <2>1, NextSamples
  <2>3. Stretch(b, fed)
    BY DEF OrderInv
  <2>4. Stretch(hand'.samples, fed - Len(b')) /\ Stretch(b', fed)
    <3> DEFINE c == b'
               s == hand'.samples
    <3>1. /\ n \in Nat /\ n <= Len(b) /\ Len(b) \in Nat /\ fed \in Nat
          /\ Len(s) = n /\ (\A i \in 1 .. n : s[i] = b[i])
          /\ Len(c) = Len(b) - n /\ (\A i \in 1 .. Len(b) - n : c[i] = b[n + i])
      BY <1>0, <2>2
    <3> HIDE DEF n, b, c, s
    <3>2. Stretch(s, fed - Len(c)) /\ Stretch(c, fed)
      BY <2>3, <3>1, StretchCut
    <3> QED
      BY <3>2 DEF c, s
  <2> HIDE DEF n, b
  <2>6. Gone' = Gone
    BY <1>0, <2>1, <2>2 DEF Gone, b
  <2> QED
    BY <1>0, <2>1, <2>4, <2>6, EventsKept DEF b
<1>6. CASE MEmit
  <2> DEFINE N == Len(events)
  <2>1. /\ UNCHANGED <<objects, held, fed>>
        /\ hand'.samples = <<>>
        /\ Len(events') = N + 1 /\ N \in Nat
        /\ events'[N + 1].samples = hand.samples
        /\ \A i \in 1 .. N : events'[i] = events[i]
    BY <1>6, EmitEffect
  <2>2. Gone' = fed - Len(b) /\ Gone = (fed - Len(b)) - Len(hand.samples)
    BY <1>0, <2>1 DEF Gone
  <2>3. /\ Consecutive(hand.samples)
        /\ \A i \in 1 .. Len(hand.samples) :
               hand.samples[i] <= Gone' /\ hand.samples[i] > Gone
    <3>1. Stretch(hand.samples, fed - Len(b))
      BY DEF OrderInv
    <3> HIDE DEF b
    <3> DEFINE k == fed - Len(b)
    <3>2. k \in Int /\ Stretch(hand.samples, k)
      BY <1>0, <3>1
    <3> HIDE DEF k
    <3>3. /\ Consecutive(hand.samples)
          /\ \A i \in 1 .. Len(hand.samples) :
                 hand.samples[i] <= k /\ hand.samples[i] > k - Len(hand.samples)
      BY <1>0, <3>2, StretchOrder
    <3>4. Gone' = k /\ Gone = k - Len(hand.samples)
      BY <2>2 DEF k
    <3> QED
      BY <3>3, <3>4
  <2> HIDE DEF b
  <2>4. ASSUME NEW i \in 1 .. N, NEW k \in 1 .. Len(events[i].samples)
        PROVE  events[i].samples[k] \in Nat /\ events[i].samples[k] <= Gone
    <3>1. events[i] \in EventType
      BY <1>0
    <3> QED
      BY <3>1 DEF EventType, OrderInv
  <2>5. ASSUME NEW i \in 1 .. N + 1
        PROVE  /\ Consecutive(events'[i].samples)
               /\ \A k \in 1 .. Len(events'[i].samples) : events'[i].samples[k] <= Gone'
    <3>1. CASE i = N + 1
      BY <2>1, <2>3, <3>1
    <3>2. CASE i \in 1 .. N
      <4>1. Gone <= Gone' /\ Gone' \in Int
        BY <1>0, <2>2
      <4>2. \A k \in 1 .. Len(events[i].samples) : events[i].samples[k] <= Gone'
        BY <1>0, <2>4, <3>2, <4>1
      <4> QED
        BY <2>1, <3>2, <4>2 DEF OrderInv
    <3> QED
      BY <2>1, <3>1, <3>2
  <2>6. ASSUME NEW i \in 1 .. N + 1, NEW j \in 1 .. N + 1, i < j
        PROVE  Before(events'[i].samples, events'[j].samples)
    <3>1. i \in 1 .. N
      BY <2>1, <2>6
    <3>2. CASE j = N + 1
      <4>1. /\ DOMAIN hand.samples = 1 .. Len(hand.samples)
            /\ DOMAIN events[i].samples = 1 .. Len(events[i].samples)
        <5>1. events[i] \in EventType
          BY <1>0, <3>1
        <5> QED
          BY <5>1 DEF EventType, TypedInv, HandType
      <4> QED
        <5>1. ASSUME NEW k \in 1 .. Len(events[i].samples),
                     NEW l \in 1 .. Len(hand.samples)
              PROVE  events[i].samples[k] < hand.samples[l]
          <6>1. hand.samples \in Seq(1 .. fed)
            BY DEF TypedInv, HandType
          <6>2. hand.samples[l] \in Nat
            <7>1. hand.samples[l] \in 1 .. fed
              BY <6>1, ElementOfSeq
            <7> QED
              BY <7>1
          <6>3. events[i].samples[k] \in Nat /\ events[i].samples[k] <= Gone
            BY <2>4, <3>1
          <6>4. hand.samples[l] > Gone
            BY <2>3
          <6>5. Gone \in Int
            BY <1>0
          <6> QED
            BY <6>2, <6>3, <6>4, <6>5
        <5> QED
          BY <2>1, <3>1, <3>2, <4>1, <5>1 DEF Before
    <3>3. CASE j \in 1 .. N
      BY <2>1, <2>6, <3>1, <3>3 DEF OrderInv
    <3> QED
      BY <2>1, <3>2, <3>3
  <2>7. Gone' >= 0
    BY <1>0, <2>2 DEF OrderInv
  <2>8. Stretch(objects[held].buffer, fed)'
    BY <2>1 DEF OrderInv, Stretch
  <2>9. Stretch(hand.samples, fed - Len(objects[held].buffer))'
    BY <2>1 DEF Stretch
  <2> HIDE DEF N
  <2> QED
    BY <2>1, <2>5, <2>6, <2>7, <2>8, <2>9 DEF OrderInv
<1> QED
  BY <1>1, <1>2, <1>3, <1>4, <1>5, <1>6, Flow

LEMMA OrderAlways == Spec => []OrderInv
<1>1. Init => OrderInv
  <2> SUFFICES ASSUME Init PROVE OrderInv
    OBVIOUS
  <2>1. /\ objects[held].buffer = <<>> /\ hand.samples = <<>> /\ events = <<>> /\ fed = 0
        /\ Len(<<>>) = 0
    BY DEF Init, NewChunker, NoChunk
  <2> QED
    BY <2>1 DEF OrderInv, Stretch, Gone
<1> QED
  BY <1>1, OrderStep, TypedAlways, DrainAlways, PTL DEF Spec

\* Each chunk is one unbroken stretch of audio, and chunks leave the pipeline in
\* the order they were spoken, however often update_config replaces the chunker.
THEOREM OrderKept == Spec => []ChunksInOrder
<1>1. TypedInv /\ DrainInv /\ OrderInv => ChunksInOrder
  <2> SUFFICES ASSUME TypedInv, DrainInv, OrderInv PROVE ChunksInOrder
    OBVIOUS
  <2> DEFINE b == objects[held].buffer
             n == objects[chunker].buffer
             h == hand.samples
  <2>1. /\ Len(b) \in Nat /\ fed \in Nat /\ Len(h) \in Nat
        /\ Gone = (fed - Len(b)) - Len(h) /\ Gone \in Int
        /\ DOMAIN events = 1 .. Len(events)
        /\ b \in Seq(1 .. fed) /\ h \in Seq(1 .. fed)
        /\ \A i \in 1 .. Len(events) : events[i] \in EventType
    BY Bounds, Lengths DEF DrainInv, Gone, TypedInv, HandType
  <2>2. n = b \/ n = <<>>
    BY Bounds DEF DrainInv
  <2>3. n \in Seq(1 .. fed) /\ Len(<<>>) = 0
    BY Bounds
  <2>4. Stretch(b, fed) /\ Stretch(h, fed - Len(b))
    BY DEF OrderInv
  <2> HIDE DEF b, n, h
  <2>5. Consecutive(h) /\ \A i \in 1 .. Len(h) : h[i] <= fed - Len(b) /\ h[i] > Gone
    <3> DEFINE k == fed - Len(b)
    <3>1. k \in Int /\ Stretch(h, k) /\ Gone = k - Len(h)
      BY <2>1, <2>4
    <3> HIDE DEF k
    <3>2. Consecutive(h) /\ \A i \in 1 .. Len(h) : h[i] <= k /\ h[i] > Gone
      BY <2>1, <3>1, StretchOrder
    <3> QED
      BY <3>2 DEF k
  <2>6. \A i \in 1 .. Len(n) : n[i] > fed - Len(b)
    BY <2>1, <2>2, <2>3, <2>4, StretchOrder
  <2>7. /\ DOMAIN h = 1 .. Len(h) /\ DOMAIN n = 1 .. Len(n) /\ Len(n) \in Nat
        /\ \A i \in 1 .. Len(h) : h[i] \in Nat
        /\ \A i \in 1 .. Len(n) : n[i] \in Nat
    <3>1. /\ \A i \in 1 .. Len(h) : h[i] \in 1 .. fed
          /\ \A i \in 1 .. Len(n) : n[i] \in 1 .. fed
      BY <2>1, <2>3, ElementOfSeq
    <3> QED
      BY <2>1, <2>3, <3>1, LenProperties
  <2>8. Before(h, n)
    <3>1. ASSUME NEW i \in 1 .. Len(h), NEW j \in 1 .. Len(n) PROVE h[i] < n[j]
      <4>1. /\ h[i] \in Nat /\ n[j] \in Nat
            /\ h[i] <= fed - Len(b) /\ n[j] > fed - Len(b)
        BY <2>5, <2>6, <2>7
      <4> QED
        BY <2>1, <4>1
    <3> QED
      BY <2>7, <3>1 DEF Before
  <2>9. /\ DOMAIN (h \o n) = 1 .. Len(h) + Len(n)
        /\ \A j \in 1 .. Len(h) + Len(n) :
               (h \o n)[j] = IF j <= Len(h) THEN h[j] ELSE n[j - Len(h)]
    BY <2>1, <2>3, ConcatProperties, LenProperties
  <2>10. ASSUME NEW j \in 1 .. Len(h) + Len(n)
         PROVE  (h \o n)[j] \in Nat /\ (h \o n)[j] > Gone
    <3>1. CASE j <= Len(h)
      <4>1. j \in 1 .. Len(h)
        BY <2>1, <2>7, <3>1
      <4> QED
        BY <2>5, <2>7, <2>9, <3>1, <4>1
    <3>2. CASE j > Len(h)
      <4>1. j - Len(h) \in 1 .. Len(n) /\ (h \o n)[j] = n[j - Len(h)]
        BY <2>1, <2>7, <2>9, <3>2
      <4>2. /\ n[j - Len(h)] \in Nat /\ n[j - Len(h)] > fed - Len(b)
        BY <2>6, <2>7, <4>1
      <4> QED
        BY <2>1, <4>1, <4>2
    <3> QED
      BY <2>1, <2>7, <3>1, <3>2
  <2>11. ASSUME NEW i \in 1 .. Len(events) PROVE Before(events[i].samples, h \o n)
    <3>1. events[i].samples \in Seq(Nat \ {0})
      BY <2>1 DEF EventType
    <3>2. /\ DOMAIN events[i].samples = 1 .. Len(events[i].samples)
          /\ \A k \in 1 .. Len(events[i].samples) :
                 events[i].samples[k] \in Nat /\ events[i].samples[k] <= Gone
      BY <3>1 DEF OrderInv
    <3>3. ASSUME NEW k \in 1 .. Len(events[i].samples), NEW j \in 1 .. Len(h) + Len(n)
          PROVE  events[i].samples[k] < (h \o n)[j]
      <4>1. events[i].samples[k] \in Nat /\ events[i].samples[k] <= Gone
        BY <3>2
      <4>2. (h \o n)[j] \in Nat /\ (h \o n)[j] > Gone
        BY <2>10
      <4>3. Gone \in Int
        BY <2>1
      <4> QED
        BY <4>1, <4>2, <4>3
    <3> QED
      BY <2>9, <3>2, <3>3 DEF Before
  <2> QED
    BY <2>1, <2>5, <2>8, <2>11 DEF ChunksInOrder, OrderInv, h, n
<1> QED
  BY <1>1, TypedAlways, DrainAlways, OrderAlways, PTL

-----------------------------------------------------------------------------
(* What is lost *)

\* Audio that was kept is kept when two sequences are joined or one is cut.
LEMMA InJoined ==
    ASSUME NEW S, NEW s \in Seq(S), NEW t \in Seq(S), NEW k, In(k, s) \/ In(k, t)
    PROVE  In(k, s \o t)
<1>1. /\ Len(s) \in Nat /\ Len(t) \in Nat
      /\ Len(s \o t) = Len(s) + Len(t)
      /\ \A i \in 1 .. Len(s) + Len(t) :
             (s \o t)[i] = IF i <= Len(s) THEN s[i] ELSE t[i - Len(s)]
  BY ConcatProperties, LenProperties
<1>2. ASSUME NEW i \in 1 .. Len(s), s[i] = k PROVE In(k, s \o t)
  BY <1>1, <1>2 DEF In
<1>3. ASSUME NEW i \in 1 .. Len(t), t[i] = k PROVE In(k, s \o t)
  <2>1. /\ Len(s) + i \in 1 .. Len(s) + Len(t) /\ ~(Len(s) + i <= Len(s))
        /\ (Len(s) + i) - Len(s) = i
    BY <1>1
  <2>2. (s \o t)[Len(s) + i] = k
    BY <1>1, <1>3, <2>1
  <2> QED
    BY <1>1, <2>1, <2>2 DEF In
<1> QED
  BY <1>2, <1>3 DEF In

LEMMA InCut ==
    ASSUME NEW b, NEW h, NEW r, NEW k, NEW n \in Nat, Len(b) \in Nat, n <= Len(b),
           Len(h) = n, \A i \in 1 .. n : h[i] = b[i],
           Len(r) = Len(b) - n, \A i \in 1 .. Len(b) - n : r[i] = b[n + i],
           In(k, b)
    PROVE  In(k, h) \/ In(k, r)
<1> PICK i \in 1 .. Len(b) : b[i] = k
  BY DEF In
<1>1. CASE i <= n
  BY <1>1 DEF In
<1>2. CASE i > n
  <2>1. i - n \in 1 .. Len(b) - n /\ n + (i - n) = i
    BY <1>2
  <2>2. r[i - n] = k
    BY <2>1
  <2> QED
    BY <2>1, <2>2 DEF In
<1> QED
  BY <1>1, <1>2

\* Every sample fed so far is still in an event, in hand or in a chunker.
LEMMA KeptStep ==
    ASSUME TypedInv, DrainInv, [Next]_vars, \A k \in 1 .. fed : Kept(k),
           NEW k \in 1 .. fed'
    PROVE  Kept(k)'
<1>1. CASE Still
  BY <1>1 DEF Still, Kept
<1>2. CASE Turn
  BY <1>2 DEF Turn, Kept
<1>3. CASE Made
  <2>1. Kept(k) /\ UNCHANGED <<hand, events>>
    BY <1>3, MadeEffect
  <2>2. /\ Len(objects) \in Nat /\ Len(objects') = Len(objects) + 1
        /\ \A c \in 1 .. Len(objects) : objects'[c] = objects[c]
    BY <1>3, MadeEffect
  <2>3. ASSUME NEW c \in 1 .. Len(objects), In(k, objects[c].buffer)
        PROVE  c \in 1 .. Len(objects') /\ In(k, objects'[c].buffer)
    BY <2>2, <2>3
  <2> QED
    BY <2>1, <2>3 DEF Kept
<1>4. CASE MAdd
  <2> DEFINE b == objects[held].buffer
  <2>1. /\ UNCHANGED <<held, hand, events>> /\ Len(objects') = Len(objects)
        /\ objects'[held].buffer = b \o New /\ held \in 1 .. Len(objects)
        /\ b \in Seq(1 .. fed') /\ New \in Seq(1 .. fed')
        /\ \A c \in 1 .. Len(objects) \ {held} : objects'[c] = objects[c]
    <3>1. UNCHANGED <<held, hand, events>>
      BY <1>4 DEF MAdd
    <3>2. /\ Len(objects') = Len(objects) /\ objects'[held].buffer = b \o New
          /\ b \in Seq(1 .. fed')
          /\ \A c \in 1 .. Len(objects) \ {held} : objects'[c] = objects[c]
      BY <1>4, AddEffect
    <3>3. held \in 1 .. Len(objects)
      BY Bounds
    <3>4. New \in Seq(1 .. fed')
      BY <1>4, NewSamples
    <3> HIDE DEF b
    <3> QED
      BY <3>1, <3>2, <3>3, <3>4
  <2>2. CASE k \in 1 .. fed
    <3>1. Kept(k)
      BY <2>2
    <3>2. ASSUME NEW c \in 1 .. Len(objects), In(k, objects[c].buffer)
          PROVE  In(k, objects'[c].buffer)
      <4>1. CASE c = held
        BY <2>1, <3>2, <4>1, InJoined
      <4> QED
        BY <2>1, <3>2, <4>1
    <3> QED
      BY <2>1, <3>1, <3>2 DEF Kept
  <2>3. CASE k \notin 1 .. fed
    <3>1. /\ fed \in Nat /\ payload \div 2 \in Nat /\ fed' = fed + payload \div 2
          /\ Len(New) = payload \div 2
          /\ \A i \in 1 .. payload \div 2 : New[i] = fed + i
      BY <1>4, NewSamples
    <3>2. k - fed \in 1 .. Len(New) /\ New[k - fed] = k
      <4>1. k - fed \in 1 .. payload \div 2 /\ fed + (k - fed) = k
        BY <2>3, <3>1
      <4> QED
        BY <3>1, <4>1
    <3>4. In(k, New)
      BY <3>2 DEF In
    <3>3. In(k, b \o New)
      <4> HIDE DEF b
      <4> QED
        BY <2>1, <3>4, InJoined
    <3> QED
      BY <2>1, <3>3 DEF Kept
  <2> QED
    BY <2>2, <2>3
<1>5. ASSUME NEW speech \in BOOLEAN, MNext(speech) PROVE Kept(k)'
  <2> DEFINE b == objects[held].buffer
             n == Cut(objects[held])
             r == objects'[held].buffer
  <2>1. /\ UNCHANGED <<held, fed, events>> /\ Len(hand.samples) = 0
        /\ Len(objects') = Len(objects) /\ held \in 1 .. Len(objects)
        /\ \A c \in 1 .. Len(objects) \ {held} : objects'[c] = objects[c]
    BY <1>5, NextEffect, Bounds, Lengths DEF MNext, Holding
  <2>2. Kept(k) /\ ~In(k, hand.samples)
    BY <2>1 DEF In
  <2>3. ASSUME In(k, b) PROVE In(k, hand'.samples) \/ In(k, r)
    <3>1. /\ n \in Nat /\ Len(b) \in Nat /\ n <= Len(b)
          /\ Len(hand'.samples) = n
          /\ \A i \in 1 .. n : hand'.samples[i] = b[i]
          /\ Len(r) = Len(b) - n
          /\ \A i \in 1 .. Len(b) - n : r[i] = b[n + i]
      BY <1>5, NextSamples
    <3> HIDE DEF b, n, r
    <3> QED
      BY <2>3, <3>1, InCut
  <2>4. ASSUME NEW c \in 1 .. Len(objects), In(k, objects[c].buffer)
        PROVE  In(k, hand'.samples) \/ In(k, objects'[c].buffer)
    <3>1. CASE c = held
      BY <2>3, <2>4, <3>1
    <3> QED
      BY <2>1, <2>4, <3>1
  <2> QED
    BY <2>1, <2>2, <2>4 DEF Kept
<1>6. CASE MEmit
  <2>1. /\ UNCHANGED <<objects, fed>> /\ Len(events) \in Nat
        /\ Len(events') = Len(events) + 1
        /\ events'[Len(events) + 1].samples = hand.samples
        /\ \A i \in 1 .. Len(events) : events'[i] = events[i]
    BY <1>6, EmitEffect
  <2>2. Kept(k)
    BY <2>1
  <2>3. ASSUME In(k, hand.samples) PROVE Kept(k)'
    <3>1. Len(events) + 1 \in 1 .. Len(events')
      BY <2>1
    <3> QED
      BY <2>1, <2>3, <3>1 DEF Kept
  <2>4. ASSUME NEW i \in 1 .. Len(events), In(k, events[i].samples)
        PROVE  Kept(k)'
    <3>1. i \in 1 .. Len(events') /\ events'[i] = events[i]
      BY <2>1
    <3> QED
      BY <2>4, <3>1 DEF Kept
  <2> QED
    BY <2>1, <2>2, <2>3, <2>4 DEF Kept
<1> QED
  BY <1>1, <1>2, <1>3, <1>4, <1>5, <1>6, Flow

LEMMA LimitedStep ==
    ASSUME TypedInv, DrainInv, [Next]_vars, \A c \in 1 .. Len(objects) : Limited(c),
           NEW c \in 1 .. Len(objects')
    PROVE  Limited(c)'
<1>0. /\ held \in 1 .. Len(objects)
      /\ \A d \in 1 .. Len(objects) :
             Limit(objects[d]) \in Nat \ {0} /\ Len(objects[d].buffer) \in Nat
      /\ \A n \in Payloads : n \div 2 \in Nat
  BY Bounds, Lengths, PipelineAssumption
<1>1. CASE Still \/ Turn
  BY <1>1 DEF Still, Turn, Limited
<1>2. CASE Made
  <2>1. /\ Len(objects) \in Nat /\ Len(objects') = Len(objects) + 1
        /\ objects'[Len(objects) + 1].buffer = <<>>
        /\ Limit(objects'[Len(objects) + 1]) \in Nat \ {0}
        /\ \A d \in 1 .. Len(objects) : objects'[d] = objects[d]
    BY <1>2, MadeEffect
  <2>2. CASE c \in 1 .. Len(objects)
    BY <2>1, <2>2 DEF Limited
  <2>3. CASE c = Len(objects) + 1
    <3>1. Len(objects'[c].buffer) = 0 /\ Limit(objects'[c]) \in Nat \ {0}
      BY <2>1, <2>3
    <3> QED
      BY <1>0, <3>1, PipelineAssumption DEF Limited
  <2> QED
    BY <2>1, <2>2, <2>3
<1>3. CASE MAdd
  <2>1. /\ Len(objects') = Len(objects)
        /\ \A d \in 1 .. Len(objects) \ {held} : objects'[d] = objects[d]
        /\ objects'[held].size = objects[held].size
        /\ objects'[held].buffer = objects[held].buffer \o New
        /\ objects[held].buffer \in Seq(1 .. fed') /\ New \in Seq(1 .. fed')
        /\ Len(New) = payload \div 2
    BY <1>3, AddEffect, NewSamples
  <2> DEFINE b == objects[held].buffer
  <2>2. Len(objects'[held].buffer) = Len(b) + payload \div 2
    <3>1. b \in Seq(1 .. fed') /\ objects'[held].buffer = b \o New
      BY <2>1
    <3> HIDE DEF b
    <3>2. Len(b \o New) = Len(b) + Len(New)
      BY <2>1, <3>1, ConcatProperties
    <3> QED
      BY <2>1, <3>1, <3>2
  <2>3. payload \in Payloads /\ Len(objects[held].buffer) < Limit(objects[held])
    BY <1>3 DEF MAdd, TypedInv, DrainInv
  <2>5. Limit(objects'[held]) = Limit(objects[held])
    BY <2>1 DEF Limit
  <2>4. CASE c = held
    <3>1. Len(objects'[held].buffer) < Limit(objects'[held]) + payload \div 2
      BY <1>0, <2>2, <2>3, <2>5
    <3> QED
      BY <2>3, <2>4, <3>1 DEF Limited
  <2> QED
    BY <2>1, <2>4 DEF Limited
<1>4. ASSUME NEW speech \in BOOLEAN, MNext(speech) PROVE Limited(c)'
  <2>1. /\ Len(objects') = Len(objects)
        /\ \A d \in 1 .. Len(objects) \ {held} : objects'[d] = objects[d]
        /\ objects'[held].size = objects[held].size
    BY <1>4, NextEffect
  <2>2. /\ Cut(objects[held]) \in Nat
        /\ Len(objects'[held].buffer) = Len(objects[held].buffer) - Cut(objects[held])
    BY <1>4, NextSamples
  <2>4. Limit(objects'[held]) = Limit(objects[held])
    BY <2>1 DEF Limit
  <2>3. CASE c = held
    <3>1. PICK n \in Payloads : Len(objects[c].buffer) < Limit(objects[c]) + n \div 2
      BY <1>0, <2>3 DEF Limited
    <3>2. Len(objects'[c].buffer) < Limit(objects'[c]) + n \div 2
      BY <1>0, <2>2, <2>3, <2>4, <3>1
    <3> QED
      BY <3>2 DEF Limited
  <2> QED
    BY <2>1, <2>3 DEF Limited
<1>5. CASE MEmit
  BY <1>5, EmitEffect DEF Limited
<1> QED
  BY <1>1, <1>2, <1>3, <1>4, <1>5, Flow

LEMMA KeepAlways == Spec => []KeepInv
<1>1. Init => KeepInv
  <2> SUFFICES ASSUME Init PROVE KeepInv
    OBVIOUS
  <2>1. fed = 0 /\ Len(objects) = 1 /\ objects[1].buffer = <<>>
    BY DEF Init, NewChunker
  <2>2. Len(objects[1].buffer) = 0 /\ Limit(objects[1]) \in Nat \ {0}
    BY <2>1, InitTyped, Bounds
  <2>3. PICK n \in Payloads : n \div 2 \in Nat
    <3>1. PICK m \in Payloads : TRUE
      BY PipelineAssumption
    <3>2. m \in Nat
      BY PipelineAssumption
    <3> QED
      BY <3>2
  <2>4. Limited(1)
    BY <2>2, <2>3 DEF Limited
  <2> QED
    BY <2>1, <2>4 DEF KeepInv
<1>2. TypedInv /\ DrainInv /\ KeepInv /\ [Next]_vars => KeepInv'
  <2> SUFFICES ASSUME TypedInv, DrainInv, KeepInv, [Next]_vars PROVE KeepInv'
    OBVIOUS
  <2>1. \A k \in 1 .. fed' : Kept(k)'
    BY KeptStep DEF KeepInv
  <2>2. \A c \in 1 .. Len(objects') : Limited(c)'
    BY LimitedStep DEF KeepInv
  <2> QED
    BY <2>1, <2>2 DEF KeepInv
<1> QED
  BY <1>1, <1>2, TypedAlways, DrainAlways, PTL DEF Spec

\* No audio is lost but what a replaced chunker still held: less than one of
\* its chunks, and the frame the main thread was about to add to it.
THEOREM LossBounded == Spec => []LostOnlyByResize
<1>1. TypedInv /\ DrainInv /\ OrderInv /\ KeepInv => LostOnlyByResize
  <2> SUFFICES ASSUME TypedInv, DrainInv, OrderInv, KeepInv PROVE LostOnlyByResize
    OBVIOUS
  <2>1. /\ DOMAIN events = 1 .. Len(events) /\ DOMAIN objects = 1 .. Len(objects)
        /\ Len(objects) \in Nat /\ fed \in Nat
    BY Bounds DEF DrainInv, TypedInv, TypeOK
  <2>2. /\ hand.samples \in Seq(1 .. fed)
        /\ DOMAIN hand.samples = 1 .. Len(hand.samples)
    BY DEF TypedInv, HandType
  <2>3. ASSUME NEW c \in 1 .. Len(objects)
        PROVE  /\ objects[c].buffer \in Seq(1 .. fed)
               /\ DOMAIN objects[c].buffer = 1 .. Len(objects[c].buffer)
    BY Bounds, LenProperties
  <2>4. ASSUME NEW i \in 1 .. Len(events)
        PROVE  /\ events[i].samples \in Seq(Nat \ {0})
               /\ DOMAIN events[i].samples = 1 .. Len(events[i].samples)
    <3>1. events[i] \in EventType
      BY DEF DrainInv
    <3>2. events[i].samples \in Seq(Nat \ {0})
      BY <3>1 DEF EventType
    <3> QED
      BY <3>2, LenProperties
  <2>5. ASSUME NEW i \in 1 .. Len(events), NEW k \in 1 .. Len(events[i].samples)
        PROVE  events[i].samples[k] \in 1 .. fed
    <3>1. events[i].samples[k] \in Nat \ {0}
      BY <2>4, ElementOfSeq
    <3>2. events[i].samples[k] <= Gone
      BY DEF OrderInv
    <3>3. Gone \in Int /\ Gone <= fed
      <4>1. Len(objects[held].buffer) \in Nat /\ Len(hand.samples) \in Nat
        BY Bounds, Lengths
      <4>2. ASSUME NEW x \in Nat, NEW y \in Nat, NEW z \in Nat
            PROVE  x - y - z \in Int /\ x - y - z <= x
        OBVIOUS
      <4> QED
        BY <2>1, <4>1, <4>2 DEF Gone
    <3> QED
      BY <2>1, <3>1, <3>2, <3>3
  <2>6. ASSUME NEW k \in 1 .. fed
        PROVE  \/ \E i \in DOMAIN events : k \in ToSet(events[i].samples)
               \/ k \in ToSet(hand.samples)
               \/ \E c \in DOMAIN objects : k \in ToSet(objects[c].buffer)
    <3>1. Kept(k)
      BY DEF KeepInv
    <3>2. CASE \E i \in 1 .. Len(events) : In(k, events[i].samples)
      <4>1. PICK i \in 1 .. Len(events) : In(k, events[i].samples)
        BY <3>2
      <4>2. k \in ToSet(events[i].samples)
        BY <2>4, <4>1 DEF In, ToSet
      <4> QED
        BY <2>1, <4>2
    <3>3. CASE In(k, hand.samples)
      BY <2>2, <3>3 DEF In, ToSet
    <3>4. CASE \E c \in 1 .. Len(objects) : In(k, objects[c].buffer)
      <4>1. PICK c \in 1 .. Len(objects) : In(k, objects[c].buffer)
        BY <3>4
      <4>2. k \in ToSet(objects[c].buffer)
        BY <2>3, <4>1 DEF In, ToSet
      <4> QED
        BY <2>1, <4>2
    <3> QED
      BY <3>1, <3>2, <3>3, <3>4 DEF Kept
  <2>7. \A i \in DOMAIN events : ToSet(events[i].samples) \subseteq 1 .. fed
    BY <2>1, <2>4, <2>5 DEF ToSet
  <2>8. ToSet(hand.samples) \subseteq 1 .. fed
    BY <2>2, ElementOfSeq DEF ToSet
  <2>9. \A c \in DOMAIN objects : ToSet(objects[c].buffer) \subseteq 1 .. fed
    BY <2>1, <2>3, ElementOfSeq DEF ToSet
  <2>10. 1 .. fed = (UNION {ToSet(events[i].samples) : i \in DOMAIN events})
                       \cup ToSet(hand.samples)
                       \cup (UNION {ToSet(objects[c].buffer) : c \in DOMAIN objects})
    BY <2>6, <2>7, <2>8, <2>9
  <2>11. \A c \in DOMAIN objects :
             \E n \in Payloads : Len(objects[c].buffer) < Limit(objects[c]) + n \div 2
    BY <2>1 DEF KeepInv, Limited
  <2> QED
    BY <2>10, <2>11 DEF LostOnlyByResize
<1> QED
  BY <1>1, TypedAlways, DrainAlways, OrderAlways, KeepAlways, PTL
-----------------------------------------------------------------------------
(* Where utterances end *)

\* Event w is the newest speech from chunker c, and c has not closed it.
Word(c, w) ==
    /\ events[w].by = c /\ events[w].speech
    /\ \A j \in 1 .. Len(events) :
           events[j].by = c => /\ j >= w => ~events[j].is_final
                               /\ j > w => ~events[j].speech

\* Chunker c is in an utterance; and something silent has followed in it.
Spoken(c) == \E w \in 1 .. Len(events) : Word(c, w)

Paused(c) ==
    \E w, q \in 1 .. Len(events) : w < q /\ Word(c, w) /\ events[q].by = c

\* The counters of a chunker none of whose chunks is in hand say so ...
Counted(c) ==
    /\ objects[c].speech_frames > 0 <=> Spoken(c)
    /\ Spoken(c) => (objects[c].silence_frames > 0 <=> Paused(c))

\* ... and those of the one in hand are a chunk ahead of its events.
Ahead ==
    /\ hand.is_final <=> ~hand.speech /\ Paused(held)
    /\ objects[held].speech_frames > 0 <=>
           ~hand.is_final /\ (Spoken(held) \/ hand.speech)
    /\ objects[held].speech_frames > 0 =>
           (objects[held].silence_frames > 0 <=> ~hand.speech)

EndInv ==
    /\ \A c \in 1 .. Len(objects) : ~(Holding /\ c = held) => Counted(c)
    /\ Holding => Ahead
    /\ FinalIsEndOfUtterance

\* What MNext decides, and leaves in the counters.
LEMMA NextCounters ==
    ASSUME TypedInv, NEW speech \in BOOLEAN, MNext(speech)
    PROVE  LET o == objects[held]
               n == objects'[held]
           IN  /\ hand'.speech = speech
               /\ hand'.is_final <=>
                      ~speech /\ o.speech_frames > 0 /\ o.silence_frames > 0
               /\ n.speech_frames > 0 <=>
                      ~hand'.is_final /\ (speech \/ o.speech_frames > 0)
               /\ n.speech_frames > 0 => (n.silence_frames > 0 <=> ~speech)
<1> DEFINE o  == objects[held]
           sp == o.speech_frames + (IF speech THEN 1 ELSE 0)
           si == SilenceNow(o, speech)
           new == [size           |-> o.size,
                   buffer         |-> Rest(o),
                   speech_frames  |-> IF Ends(sp, si) THEN 0 ELSE sp,
                   silence_frames |-> IF Ends(sp, si) THEN 0 ELSE si]
<1>1. o.speech_frames \in Nat /\ o.silence_frames \in Nat /\ held \in DOMAIN objects
  <2>1. objects \in Seq(Chunker) /\ held \in 1 .. Len(objects)
    BY DEF TypedInv, TypeOK
  <2>2. o \in Chunker
    BY <2>1
  <2> HIDE DEF o
  <2> QED
    BY <2>1, <2>2 DEF Chunker
<1>2. /\ objects' = [objects EXCEPT ![held] = new]
      /\ hand' = [NoChunk EXCEPT !.samples = SubSeq(o.buffer, 1, Cut(o)),
                                 !.speech = speech, !.is_final = Ends(sp, si),
                                 !.by = held]
  BY DEF MNext
<1>3. /\ hand'.speech = speech /\ hand'.is_final = Ends(sp, si)
      /\ objects'[held].speech_frames = (IF Ends(sp, si) THEN 0 ELSE sp)
      /\ objects'[held].silence_frames = (IF Ends(sp, si) THEN 0 ELSE si)
  <2> HIDE DEF o, sp, si
  <2> QED
    BY <1>1, <1>2 DEF NoChunk
<1> DEFINE f == o.speech_frames
           q == o.silence_frames
<1>4. /\ sp = f + (IF speech THEN 1 ELSE 0) /\ si = (IF speech THEN 0 ELSE q + 1)
      /\ Ends(sp, si) <=> sp > 0 /\ si >= 2
  BY DEF SilenceNow, Ends
<1>5. f \in Nat /\ q \in Nat
  BY <1>1
<1>6. /\ Ends(sp, si) <=> ~speech /\ f > 0 /\ q > 0
      /\ ~Ends(sp, si) => (sp > 0 <=> speech \/ f > 0) /\ (si > 0 <=> ~speech)
  <2> HIDE DEF f, q, sp, si
  <2>1. CASE speech
    BY <1>4, <1>5, <2>1
  <2>2. CASE ~speech
    BY <1>4, <1>5, <2>2
  <2> QED
    BY <2>1, <2>2
<1> HIDE DEF sp, si
<1> QED
  BY <1>3, <1>6

LEMMA SameEvents ==
    ASSUME UNCHANGED events, NEW c
    PROVE  /\ Spoken(c)' <=> Spoken(c)
           /\ Paused(c)' <=> Paused(c)
BY DEF Spoken, Paused, Word

\* A chunk that joins the events is a word, ends one, or prolongs the pause.
LEMMA EventJoins ==
    ASSUME TypedInv, DrainInv, MEmit, NEW c
    PROVE  /\ c # held => (Spoken(c)' <=> Spoken(c)) /\ (Paused(c)' <=> Paused(c))
           /\ c = held =>
                  /\ hand.speech /\ ~hand.is_final => Spoken(c)' /\ ~Paused(c)'
                  /\ ~hand.speech /\ hand.is_final => ~Spoken(c)'
                  /\ ~hand.speech /\ ~hand.is_final =>
                         (Spoken(c)' <=> Spoken(c)) /\ (Paused(c)' <=> Spoken(c))
<1>0. PICK n : n = Len(events) + 1
  OBVIOUS
<1>1. /\ Len(events) \in Nat /\ Len(events') = n
      /\ events'[n].by = held /\ events'[n].speech = hand.speech
      /\ events'[n].is_final = hand.is_final
      /\ \A i \in 1 .. Len(events) : events'[i] = events[i]
  BY <1>0, EmitEffect
<1>2. /\ n \in 1 .. n /\ 1 .. Len(events) \subseteq 1 .. n
      /\ \A i \in 1 .. n : i # n => i \in 1 .. Len(events)
      /\ \A i \in 1 .. Len(events) : n > i /\ ~(i >= n)
      /\ ~(n > n)
  BY <1>0, <1>1
<1>3. ASSUME c # held, NEW w \in 1 .. Len(events)
      PROVE  Word(c, w)' <=> Word(c, w)
  BY <1>1, <1>2, <1>3 DEF Word
<1>4. ASSUME c = held, ~hand.speech, ~hand.is_final, NEW w \in 1 .. Len(events)
      PROVE  Word(c, w)' <=> Word(c, w)
  BY <1>1, <1>2, <1>4 DEF Word
<1>5. ASSUME c # held \/ ~hand.speech
      PROVE  ~Word(c, n)'
  BY <1>1, <1>5 DEF Word
<1>6. ASSUME c = held, hand.speech \/ hand.is_final, NEW w \in 1 .. Len(events)
      PROVE  ~Word(c, w)'
  <2>1. n \in 1 .. Len(events') /\ n >= w /\ n > w
    BY <1>0, <1>1, <1>2
  <2> QED
    BY <1>1, <1>6, <2>1 DEF Word
<1>7. CASE c # held
  BY <1>1, <1>2, <1>3, <1>5, <1>7 DEF Spoken, Paused
<1>8. ASSUME c = held, hand.speech, ~hand.is_final
      PROVE  Spoken(c)' /\ ~Paused(c)'
  <2>1. Word(c, n)'
    <3>1. \A j \in 1 .. n : j >= n => j = n
      BY <1>0, <1>1
    <3>2. \A j \in 1 .. n : ~(j > n)
      BY <1>0, <1>1
    <3> QED
      BY <1>1, <1>8, <3>1, <3>2 DEF Word
  <2>2. ~Paused(c)'
    <3> SUFFICES ASSUME NEW w \in 1 .. n, NEW q \in 1 .. n, w < q, Word(c, w)'
                 PROVE  FALSE
      BY <1>1 DEF Paused
    <3>1. w = n
      BY <1>2, <1>6, <1>8
    <3> QED
      BY <1>0, <1>1, <3>1
  <2> QED
    BY <1>1, <1>2, <2>1, <2>2 DEF Spoken
<1>9. ASSUME c = held, ~hand.speech, hand.is_final
      PROVE  ~Spoken(c)'
  BY <1>1, <1>2, <1>5, <1>6, <1>9 DEF Spoken
<1>10. ASSUME c = held, ~hand.speech, ~hand.is_final
       PROVE  (Spoken(c)' <=> Spoken(c)) /\ (Paused(c)' <=> Spoken(c))
  <2>1. Spoken(c)' <=> Spoken(c)
    BY <1>1, <1>2, <1>4, <1>5, <1>10 DEF Spoken
  <2>2. Paused(c)' => Spoken(c)'
    BY DEF Paused, Spoken
  <2>3. ASSUME Spoken(c) PROVE Paused(c)'
    <3>1. PICK w \in 1 .. Len(events) : Word(c, w)
      BY <2>3 DEF Spoken
    <3>2. Word(c, w)' /\ w \in 1 .. n /\ w < n /\ events'[n].by = c
      BY <1>1, <1>2, <1>4, <1>10, <3>1, <1>0
    <3> QED
      BY <1>1, <1>2, <3>2 DEF Paused
  <2> QED
    BY <2>1, <2>2, <2>3
<1> QED
  BY <1>7, <1>8, <1>9, <1>10

\* The promise of is_final for the one event i.
Closes(i) ==
    events[i].is_final <=>
        \E w, q \in 1 .. i - 1 :
            /\ w < q /\ events[w].by = events[i].by /\ events[q].by = events[i].by
            /\ events[w].speech
            /\ \A j \in w + 1 .. i : events[j].by = events[i].by => ~events[j].speech
            /\ \A j \in w .. i - 1 : events[j].by = events[i].by => ~events[j].is_final

LEMMA EventCloses ==
    ASSUME TypedInv, DrainInv, MEmit, hand.is_final <=> ~hand.speech /\ Paused(held),
           NEW L, L = Len(events), NEW n, n = L + 1
    PROVE  Closes(n)'
<1>1. /\ L \in Nat /\ Len(events') = n
      /\ events'[n].by = held /\ events'[n].speech = hand.speech
      /\ events'[n].is_final = hand.is_final
      /\ \A i \in 1 .. L : events'[i] = events[i]
      /\ hand.speech \in BOOLEAN /\ hand.is_final \in BOOLEAN
  BY EmitEffect DEF TypedInv, HandType
<1> SUFFICES events'[n].is_final <=>
        \E w, q \in 1 .. n - 1 :
            /\ w < q /\ events'[w].by = events'[n].by /\ events'[q].by = events'[n].by
            /\ events'[w].speech
            /\ \A j \in w + 1 .. n : events'[j].by = events'[n].by => ~events'[j].speech
            /\ \A j \in w .. n - 1 : events'[j].by = events'[n].by => ~events'[j].is_final
  BY <1>1 DEF Closes
<1>2. n - 1 = L /\ n \in Nat
  BY <1>1
<1>3. ASSUME ~hand.speech, Paused(held)
      PROVE  \E w, q \in 1 .. L :
                 /\ w < q /\ events'[w].by = held /\ events'[q].by = held
                 /\ events'[w].speech
                 /\ \A j \in w + 1 .. n : events'[j].by = held => ~events'[j].speech
                 /\ \A j \in w .. L : events'[j].by = held => ~events'[j].is_final
  <2>1. PICK w \in 1 .. L, q \in 1 .. L : w < q /\ Word(held, w) /\ events[q].by = held
    BY <1>3 DEF Paused
  <2>2. /\ events[w].by = held /\ events[w].speech
        /\ \A j \in 1 .. L :
               events[j].by = held => /\ j >= w => ~events[j].is_final
                                      /\ j > w => ~events[j].speech
    BY <2>1 DEF Word
  <2>3. ASSUME NEW j \in w + 1 .. n, events'[j].by = held PROVE ~events'[j].speech
    <3>1. CASE j = n
      BY <1>1, <1>3, <3>1
    <3>2. CASE j # n
      <4>1. j \in 1 .. L /\ j > w
        BY <1>1, <1>2, <3>2
      <4> QED
        BY <1>1, <2>2, <2>3, <4>1
    <3> QED
      BY <3>1, <3>2
  <2>4. ASSUME NEW j \in w .. L, events'[j].by = held PROVE ~events'[j].is_final
    <3>1. j \in 1 .. L /\ j >= w
      BY <1>1
    <3> QED
      BY <1>1, <2>2, <2>4, <3>1
  <2> QED
    BY <1>1, <2>1, <2>2, <2>3, <2>4
<1>4. ASSUME NEW w \in 1 .. L, NEW q \in 1 .. L,
             w < q, events'[w].by = held, events'[q].by = held, events'[w].speech,
             \A j \in w + 1 .. n : events'[j].by = held => ~events'[j].speech,
             \A j \in w .. L : events'[j].by = held => ~events'[j].is_final
      PROVE  ~hand.speech /\ Paused(held)
  <2>1. n \in w + 1 .. n
    BY <1>1, <1>2
  <2>2. ~hand.speech
    BY <1>1, <1>4, <2>1
  <2>3. ASSUME NEW j \in 1 .. L, events[j].by = held
        PROVE  /\ j >= w => ~events[j].is_final
               /\ j > w => ~events[j].speech
    <3>1. /\ j >= w => j \in w .. L
          /\ j > w => j \in w + 1 .. n
      BY <1>1, <1>2
    <3> QED
      BY <1>1, <1>4, <2>3, <3>1
  <2>4. Word(held, w)
    BY <1>1, <1>4, <2>3 DEF Word
  <2> QED
    BY <1>1, <1>4, <2>2, <2>4 DEF Paused
<1> QED
  BY <1>1, <1>2, <1>3, <1>4

\* Only what came before an event decides about it.
LEMMA ClosesKept ==
    ASSUME NEW L \in Nat, NEW i \in 1 .. L,
           \A k \in 1 .. L : events'[k] = events[k], Closes(i)
    PROVE  Closes(i)'
<1>1. \A k \in 1 .. i : events'[k] = events[k]
  OBVIOUS
<1>2. \A w \in 1 .. i - 1 : /\ w + 1 .. i \subseteq 1 .. i /\ w .. i - 1 \subseteq 1 .. i
                            /\ w \in 1 .. i
  OBVIOUS
<1>3. i \in 1 .. i
  OBVIOUS
<1> QED
  BY <1>1, <1>2, <1>3 DEF Closes

LEMMA EndStep ==
    ASSUME TypedInv, DrainInv, EndInv, [Next]_vars
    PROVE  EndInv'
<1>0. /\ held \in 1 .. Len(objects) /\ chunker \in 1 .. Len(objects)
      /\ Len(objects) \in Nat
  BY Bounds
<1>1. ASSUME Still \/ Turn \/ Made \/ MAdd \/ (\E speech \in BOOLEAN : MNext(speech))
      PROVE  FinalIsEndOfUtterance'
  <2>1. UNCHANGED events
    BY <1>1 DEF Still, Turn, Made, MAdd, MNext
  <2> QED
    BY <2>1 DEF EndInv, FinalIsEndOfUtterance
<1>2. CASE Still
  <2>1. UNCHANGED <<events, objects, held>> /\ (Holding' <=> Holding)
        /\ hand'.speech = hand.speech /\ hand'.is_final = hand.is_final
    BY <1>2 DEF Still
  <2>2. \A c \in 1 .. Len(objects) : Counted(c) => Counted(c)'
    BY <2>1, SameEvents DEF Counted
  <2>3. Ahead => Ahead'
    <3>1. /\ Spoken(held)' <=> Spoken(held)
          /\ Paused(held)' <=> Paused(held)
      BY <2>1 DEF Spoken, Paused, Word
    <3> QED
      BY <2>1, <3>1 DEF Ahead
  <2> QED
    BY <1>1, <1>2, <2>1, <2>2, <2>3 DEF EndInv
<1>3. CASE Turn
  <2>1. UNCHANGED <<events, objects>> /\ ~Holding /\ ~Holding'
    BY <1>3 DEF Turn
  <2>2. \A c \in 1 .. Len(objects) : Counted(c) => Counted(c)'
    BY <2>1, SameEvents DEF Counted
  <2> QED
    BY <1>1, <1>3, <2>1, <2>2 DEF EndInv
<1>4. CASE Made
  <2>1. /\ Len(objects') = Len(objects) + 1
        /\ objects'[Len(objects) + 1].speech_frames = 0
        /\ \A c \in 1 .. Len(objects) : objects'[c] = objects[c]
        /\ UNCHANGED <<pc, held, hand, events>>
    BY <1>4, MadeEffect
  <2>2. \A c \in 1 .. Len(objects) : Counted(c) => Counted(c)'
    BY <2>1, SameEvents DEF Counted
  <2>0. PICK n : n = Len(objects) + 1
    OBVIOUS
  <2>3. Counted(n)'
    <3>1. \A i \in 1 .. Len(events) : events[i].by # n
      BY <1>0, <2>0 DEF DrainInv
    <3>2. objects'[n].speech_frames = 0
      BY <2>0, <2>1
    <3>3. ~Spoken(n)
      BY <3>1 DEF Spoken, Word
    <3>4. ~Spoken(n)'
      BY <2>1, <3>3, SameEvents
    <3>5. /\ objects'[n].speech_frames > 0 <=> Spoken(n)'
          /\ Spoken(n)' => (objects'[n].silence_frames > 0 <=> Paused(n)')
      BY <3>2, <3>4
    <3> QED
      BY <3>5 DEF Counted
  <2>4. Ahead => Ahead'
    <3>1. /\ Spoken(held)' <=> Spoken(held)
          /\ Paused(held)' <=> Paused(held)
      BY <2>1 DEF Spoken, Paused, Word
    <3> QED
      BY <1>0, <2>1, <3>1 DEF Ahead
  <2> QED
    <3>1. \A c \in 1 .. Len(objects') : c \in 1 .. Len(objects) \/ c = n
      BY <1>0, <2>0, <2>1
    <3>2. \A c \in 1 .. Len(objects') : ~(Holding /\ c = held) => Counted(c)'
      BY <2>2, <2>3, <3>1 DEF EndInv
    <3>3. Holding => Ahead'
      BY <2>4 DEF EndInv
    <3>4. (Holding' <=> Holding) /\ held' = held
      BY <2>1 DEF Holding
    <3> QED
      BY <1>1, <1>4, <3>2, <3>3, <3>4 DEF EndInv
<1>5. CASE MAdd
  <2>1. /\ Len(objects') = Len(objects)
        /\ objects'[held].speech_frames = objects[held].speech_frames
        /\ objects'[held].silence_frames = objects[held].silence_frames
        /\ \A c \in 1 .. Len(objects) \ {held} : objects'[c] = objects[c]
        /\ UNCHANGED events /\ ~Holding /\ ~Holding'
    BY <1>5, AddEffect DEF MAdd, Holding
  <2>2. \A c \in 1 .. Len(objects) : Counted(c) => Counted(c)'
    BY <2>1, SameEvents DEF Counted
  <2> QED
    BY <1>1, <1>5, <2>1, <2>2 DEF EndInv
<1>6. ASSUME NEW speech \in BOOLEAN, MNext(speech) PROVE EndInv'
  <2>1. /\ Len(objects') = Len(objects)
        /\ \A c \in 1 .. Len(objects) \ {held} : objects'[c] = objects[c]
    BY <1>6, NextEffect
  <2>2. UNCHANGED <<events, held>> /\ ~Holding /\ Holding'
    BY <1>6 DEF MNext, Holding
  <2>3. \A c \in 1 .. Len(objects) \ {held} : Counted(c) => Counted(c)'
    BY <2>1, <2>2, SameEvents DEF Counted
  <2>4. Counted(held)
    BY <1>0, <2>2 DEF EndInv
  <2>5. /\ Spoken(held)' <=> Spoken(held)
        /\ Paused(held)' <=> Paused(held)
        /\ Paused(held) => Spoken(held)
    BY <2>2 DEF Spoken, Paused, Word
  <2>6. Ahead'
    BY <1>6, <2>2, <2>4, <2>5, NextCounters DEF Counted, Ahead
  <2> QED
    BY <1>1, <1>6, <2>1, <2>2, <2>3, <2>6 DEF EndInv
<1>7. CASE MEmit
  <2>1. /\ UNCHANGED <<objects, held>> /\ Holding /\ ~Holding'
        /\ Len(events) \in Nat /\ Len(events') = Len(events) + 1
        /\ \A i \in 1 .. Len(events) : events'[i] = events[i]
    BY <1>7, EmitEffect
  <2>2. Ahead /\ hand.speech \in BOOLEAN /\ hand.is_final \in BOOLEAN
    BY <2>1 DEF EndInv, TypedInv, HandType
  <2>3. ASSUME NEW c \in 1 .. Len(objects), c # held PROVE Counted(c)'
    BY <1>7, <2>1, <2>3, EventJoins DEF EndInv, Counted
  <2>4. Counted(held)'
    <3> DEFINE sf == objects[held].speech_frames
               qf == objects[held].silence_frames
    <3>1. /\ sf > 0 <=> ~hand.is_final /\ (Spoken(held) \/ hand.speech)
          /\ sf > 0 => (qf > 0 <=> ~hand.speech)
          /\ ~(hand.speech /\ hand.is_final)
      BY <2>2 DEF Ahead
    <3> SUFFICES /\ sf > 0 <=> Spoken(held)'
                 /\ Spoken(held)' => (qf > 0 <=> Paused(held)')
      BY <2>1 DEF Counted
    <3> HIDE DEF sf, qf
    <3>2. /\ hand.speech /\ ~hand.is_final => Spoken(held)' /\ ~Paused(held)'
          /\ ~hand.speech /\ hand.is_final => ~Spoken(held)'
          /\ ~hand.speech /\ ~hand.is_final =>
                 (Spoken(held)' <=> Spoken(held)) /\ (Paused(held)' <=> Spoken(held))
      <4>1. PICK c : c = held
        OBVIOUS
      <4>2. /\ hand.speech /\ ~hand.is_final => Spoken(c)' /\ ~Paused(c)'
            /\ ~hand.speech /\ hand.is_final => ~Spoken(c)'
            /\ ~hand.speech /\ ~hand.is_final =>
                   (Spoken(c)' <=> Spoken(c)) /\ (Paused(c)' <=> Spoken(c))
        BY <1>7, <4>1, EventJoins
      <4>3. /\ Spoken(c)' <=> Spoken(held)'
            /\ Paused(c)' <=> Paused(held)'
            /\ Spoken(c) <=> Spoken(held)
        BY <2>1, <4>1 DEF Spoken, Paused, Word
      <4> QED
        BY <4>2, <4>3
    <3> QED
      BY <3>1, <3>2
  <2>5. FinalIsEndOfUtterance'
    <3>1. DOMAIN events = 1 .. Len(events) /\ DOMAIN events' = 1 .. Len(events) + 1
      BY <1>7, <2>1, EmitEffect, LenProperties DEF DrainInv
    <3>2. \A i \in 1 .. Len(events) : Closes(i)
      BY <3>1 DEF EndInv, FinalIsEndOfUtterance, Closes
    <3>3. \A i \in 1 .. Len(events) : Closes(i)'
      BY <2>1, <3>2, ClosesKept
    <3>4. PICK L, n : L = Len(events) /\ n = L + 1
      OBVIOUS
    <3>5. Closes(n)'
      BY <1>7, <2>2, <3>4, EventCloses DEF Ahead
    <3>6. \A i \in 1 .. n : i \in 1 .. Len(events) \/ i = n
      BY <2>1, <3>4
    <3>7. \A i \in DOMAIN events' : Closes(i)'
      BY <3>1, <3>3, <3>4, <3>5, <3>6
    <3> QED
      BY <3>7 DEF FinalIsEndOfUtterance, Closes
  <2> QED
    BY <1>0, <2>1, <2>3, <2>4, <2>5 DEF EndInv
<1> QED
  BY <1>2, <1>3, <1>4, <1>5, <1>6, <1>7, Flow

\* is_final is what chunker.py says of it, "speech followed by silence", for
\* every length of chunk and run of chunks, and whoever replaces the chunker.
THEOREM FinalMeansEnd == Spec => []FinalIsEndOfUtterance
<1>1. Init => EndInv
  <2> SUFFICES ASSUME Init PROVE EndInv
    OBVIOUS
  <2>1. /\ events = <<>> /\ Len(events) = 0 /\ DOMAIN events = {} /\ ~Holding
        /\ Len(objects) = 1 /\ objects[1].speech_frames = 0
    BY DEF Init, Holding, NewChunker
  <2> QED
    BY <2>1 DEF EndInv, Counted, Spoken, FinalIsEndOfUtterance
<1>2. EndInv => FinalIsEndOfUtterance
  BY DEF EndInv
<1> QED
  BY <1>1, <1>2, EndStep, TypedAlways, DrainAlways, PTL DEF Spec
=============================================================================

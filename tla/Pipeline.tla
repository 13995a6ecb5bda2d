------------------------------ MODULE Pipeline ------------------------------
(***************************************************************************)
(* `TranslationPipeline' (processing/src/pipeline.py) and its              *)
(* `AudioChunker' (processing/src/audio/chunker.py).                       *)
(*                                                                         *)
(* The main thread feeds frames from the RX ring to process_audio_bytes;   *)
(* the control server's client threads call update_config whenever a       *)
(* CONFIG_UPDATE arrives.  They share the pipeline's attributes without a  *)
(* lock: one step is one load or store of an attribute, which is what the  *)
(* interpreter makes atomic.  A chunker is an object that only the main    *)
(* thread calls, so a call of one of its methods is one step.              *)
(***************************************************************************)
EXTENDS Integers, Sequences, SequencesExt

CONSTANTS
    Updaters,    \* the client threads of the control server
    Langs,       \* language codes
    English,     \* those that begin with "en"
    Sizes,       \* values of chunk_size_ms, numbers or not
    Samples,     \* int(16 * chunk_ms) of each, None where that raises
    Messages,    \* the CONFIG_UPDATE messages that arrive
    None,        \* a field a message leaves out or has empty, or a size of 0
    Payloads,    \* the payload sizes of frames, in bytes
    Config0,     \* the arguments the engine was started with
    MaxSamples,  \* BOUND: samples fed in a behaviour
    MaxFrames,   \* BOUND: frames read in a behaviour
    MaxUpdates,  \* BOUND: messages handled in a behaviour
    MaxEvents    \* BOUND: events after which empty chunks are not recorded

ASSUME PipelineAssumption ==
    /\ English \subseteq Langs
    /\ None \notin Langs \cup Sizes \cup Int
    /\ Samples \in [Sizes -> Int \cup {None}]
    /\ Messages \subseteq [source : Langs \cup {None}, target : Langs \cup {None},
                           size : Sizes \cup {None}]
    /\ Config0 \in [source : Langs, target : Langs, size : Sizes]
    /\ Samples[Config0.size] # None
    /\ Payloads \subseteq Nat /\ Payloads # {}
    /\ MaxSamples \in Nat /\ MaxFrames \in Nat /\ MaxUpdates \in Nat
    /\ MaxEvents \in Nat

VARIABLES
    \* attributes of the pipeline
    source_lang, target_lang,
    chunk_size,  \* chunk_size_ms
    chunker,     \* the chunker object in use, an index of objects
    objects,     \* every AudioChunker made so far
    \* client threads
    upc, umsg,   \* where each is in update_config, and its message
    updates,     \* messages handled so far
    \* main thread
    pc,
    held,        \* the chunker whose method it has loaded
    payload,     \* bytes of the frame it feeds
    hand,        \* the chunk in _process_chunk: samples, is_final, ...
    frames,      \* frames read so far
    \* history
    fed,         \* samples given to a chunker so far; they are numbered
    stirred,     \* another target_lang was stored since _process_chunk read it
    torn,        \* the newest store of chunk_size came between another thread's
                 \* two stores, or no chunker could be made for it
    events,      \* what on_result was called with, but for the languages
    last         \* the languages of the newest event

config  == <<source_lang, target_lang, chunk_size, chunker>>
threads == <<upc, umsg, updates, torn>>
main    == <<pc, held, payload, hand, frames>>
vars    == <<config, objects, threads, main, fed, stirred, events, last>>

\* AudioChunker.__init__
NewChunker(size) ==
    [size |-> size, buffer |-> <<>>, speech_frames |-> 0, silence_frames |-> 0]

NoChunk == [samples |-> <<>>, speech |-> FALSE, is_final |-> FALSE, by |-> 0,
            english |-> FALSE, text |-> None, heard |-> None, label |-> None]

NoEvent == [english |-> FALSE, heard |-> None, text |-> None,
            source_language |-> None, target_language |-> None, stirred |-> FALSE]

NoMessage == [source |-> None, target |-> None, size |-> None]

Init ==
    /\ source_lang = Config0.source
    /\ target_lang = Config0.target
    /\ chunk_size = Config0.size
    /\ chunker = 1
    /\ objects = <<NewChunker(Samples[Config0.size])>>
    /\ upc = [u \in Updaters |-> "idle"]
    /\ umsg = [u \in Updaters |-> NoMessage]
    /\ updates = 0
    /\ pc = "idle"
    /\ held = 1
    /\ payload = 0
    /\ hand = NoChunk
    /\ frames = 0
    /\ fed = 0
    /\ stirred = FALSE
    /\ torn = FALSE
    /\ events = <<>>
    /\ last = NoEvent

-----------------------------------------------------------------------------
(* update_config, on a client thread *)

UStep(u, from, to) ==
    /\ upc[u] = from
    /\ upc' = [upc EXCEPT ![u] = to]

UForget(u) == umsg' = [umsg EXCEPT ![u] = NoMessage]

\* handle_control_msg calls update_config.
UMessage(u, m) ==
    /\ UStep(u, "idle", "source")
    /\ updates < MaxUpdates
    /\ updates' = updates + 1
    /\ umsg' = [umsg EXCEPT ![u] = m]
    /\ UNCHANGED <<config, objects, main, fed, stirred, torn, events, last>>

USource(u) ==
    /\ UStep(u, "source", "target")
    /\ source_lang' = IF umsg[u].source = None THEN source_lang ELSE umsg[u].source
    /\ UNCHANGED <<target_lang, chunk_size, chunker, objects, umsg, updates, main,
                   fed, stirred, torn, events, last>>

UTarget(u) ==
    /\ UStep(u, "target", "compare")
    /\ target_lang' = IF umsg[u].target = None THEN target_lang ELSE umsg[u].target
    /\ stirred' = \/ stirred
                  \/ target_lang' # target_lang /\ pc \in {"asr", "mt", "label", "emit"}
    /\ UNCHANGED <<source_lang, chunk_size, chunker, objects, umsg, updates, main,
                   fed, torn, events, last>>

\* Mutant: a message without a size makes a new chunker too.
Resizes_NoCheck(m) == m.size # chunk_size

Resizes(m) == m.size # None /\ m.size # chunk_size

UCompare(u) ==
    /\ IF Resizes(umsg[u]) THEN UStep(u, "compare", "size") /\ UNCHANGED umsg
                           ELSE UStep(u, "compare", "idle") /\ UForget(u)
    /\ UNCHANGED <<config, objects, updates, main, fed, stirred, torn, events, last>>

USize(u) ==
    /\ UStep(u, "size", "chunker")
    /\ chunk_size' = umsg[u].size
    /\ torn' = \E v \in Updaters \ {u} : upc[v] = "chunker"
    /\ UNCHANGED <<source_lang, target_lang, chunker, objects, umsg, updates, main,
                   fed, stirred, events, last>>

\* Mutant: the new chunker has the size the engine was started with.
SizeMade_Default(m) == Samples[Config0.size]

SizeMade(m) == Samples[m.size]

\* The samples in the old chunker's buffer stay behind with it.
UChunker(u) ==
    /\ UStep(u, "chunker", "idle")
    /\ Samples[umsg[u].size] # None
    /\ objects' = Append(objects, NewChunker(SizeMade(umsg[u])))
    /\ chunker' = Len(objects) + 1
    /\ UForget(u)
    /\ UNCHANGED <<source_lang, target_lang, chunk_size, updates, main, fed,
                   stirred, torn, events, last>>

\* A size that is no number: AudioChunker raises, after chunk_size_ms has been
\* stored.  The thread ends with its connection; u is a later one's by then.
URaise(u) ==
    /\ UStep(u, "chunker", "idle")
    /\ Samples[umsg[u].size] = None
    /\ torn' = TRUE
    /\ UForget(u)
    /\ UNCHANGED <<config, objects, updates, main, fed, stirred, events, last>>

Updating(u) ==
    USource(u) \/ UTarget(u) \/ UCompare(u) \/ USize(u) \/ UChunker(u) \/ URaise(u)

-----------------------------------------------------------------------------
(* process_audio_bytes, on the main thread *)

\* read_frame returned a frame of n payload bytes, and the chunker to add
\* them to is loaded.
MFrame(n) ==
    /\ pc = "idle"
    /\ frames < MaxFrames
    /\ frames' = frames + 1
    /\ fed + n \div 2 <= MaxSamples
    /\ payload' = n
    /\ held' = chunker
    /\ pc' = "add"
    /\ UNCHANGED <<config, objects, threads, hand, fed, stirred, events, last>>

\* read_frame returned nothing: the main loop sleeps and asks again.
MIdle ==
    /\ pc = "idle"
    /\ UNCHANGED vars

\* Mutant: the frame is kept and tried again.
MOdd_Retried ==
    /\ pc = "add"
    /\ payload % 2 = 1
    /\ UNCHANGED vars

\* np.frombuffer raises on half a sample: main.py catches it and goes on with
\* the next frame.
MOdd ==
    /\ pc = "add"
    /\ payload % 2 = 1
    /\ payload' = 0
    /\ pc' = "idle"
    /\ UNCHANGED <<config, objects, threads, held, hand, frames, fed, stirred,
                   events, last>>

\* Mutant: the frame goes in front of what is buffered.
Joined_Front(buffer, new) == new \o buffer

Joined(buffer, new) == buffer \o new

MAdd ==
    /\ pc = "add"
    /\ payload % 2 = 0
    /\ objects' = [objects EXCEPT ![held].buffer =
                       Joined(@, [i \in 1 .. payload \div 2 |-> fed + i])]
    /\ fed' = fed + payload \div 2
    /\ payload' = 0
    /\ pc' = "fetch"
    /\ UNCHANGED <<config, threads, held, hand, frames, stirred, events, last>>

\* The chunker is loaded anew for each chunk.
MFetch ==
    /\ pc = "fetch"
    /\ held' = chunker
    /\ pc' = "next"
    /\ UNCHANGED <<config, objects, threads, payload, hand, frames, fed, stirred,
                   events, last>>

\* Mutant: a chunk is only cut when there is more than one.
Short_OrExact(c) == Len(c.buffer) <= c.size

Short(c) == Len(c.buffer) < c.size

MNone ==
    /\ pc = "next"
    /\ Short(objects[held])
    /\ pc' = "idle"
    /\ UNCHANGED <<config, objects, threads, held, payload, hand, frames, fed,
                   stirred, events, last>>

\* Where buffer[:size] and buffer[size:] part.  Nothing keeps a size from being
\* 0 or negative, which then counts from the end.
Cut(c) ==
    IF c.size >= 0 THEN c.size
                   ELSE IF Len(c.buffer) + c.size > 0 THEN Len(c.buffer) + c.size ELSE 0

\* Mutants: the window slides one too far; and the silence before a word
\* counts as the silence after it.
Rest_OneMore(c)        == SubSeq(c.buffer, Cut(c) + 2, Len(c.buffer))
SilenceNow_Kept(c, sp) == IF sp THEN c.silence_frames ELSE c.silence_frames + 1

Rest(c)           == SubSeq(c.buffer, Cut(c) + 1, Len(c.buffer))
Ends(sp, si)      == sp > 0 /\ si >= 2
SilenceNow(c, sp) == IF sp THEN 0 ELSE c.silence_frames + 1

\* get_next_chunk; whether the samples are speech is up to is_speech, and none
\* are not.
MNext(speech) ==
    /\ pc = "next"
    /\ LET c  == objects[held]
           sp == c.speech_frames + (IF speech THEN 1 ELSE 0)
           si == SilenceNow(c, speech)
           is_final == Ends(sp, si)
       IN  /\ ~Short(c)
           /\ Cut(c) > 0 \/ (~speech /\ Len(events) < MaxEvents)
           /\ objects' = [objects EXCEPT ![held] =
                  [size           |-> c.size,
                   buffer         |-> Rest(c),
                   speech_frames  |-> IF is_final THEN 0 ELSE sp,
                   silence_frames |-> IF is_final THEN 0 ELSE si]]
           /\ hand' = [NoChunk EXCEPT !.samples = SubSeq(c.buffer, 1, Cut(c)),
                                      !.speech = speech,
                                      !.is_final = is_final,
                                      !.by = held]
    /\ pc' = "branch"
    /\ UNCHANGED <<config, threads, held, payload, frames, fed, stirred, events, last>>

\* A chunker of no positive size gives one empty chunk after the other.
MSpin ==
    /\ pc = "next"
    /\ ~Short(objects[held])
    /\ Cut(objects[held]) = 0 /\ Len(events) >= MaxEvents
    /\ pc' = "fetch"
    /\ UNCHANGED <<config, objects, threads, held, payload, hand, frames, fed,
                   stirred, events, last>>

\* _process_chunk: is the target English?  Saaras then answers in it.
MBranch ==
    /\ pc = "branch"
    /\ hand' = [hand EXCEPT !.english = target_lang \in English,
                            !.text = IF target_lang \in English THEN target_lang ELSE None]
    /\ pc' = "asr"
    /\ UNCHANGED <<config, objects, threads, held, payload, frames, fed, stirred,
                   events, last>>

\* Saaras is told which language it hears.
MAsr ==
    /\ pc = "asr"
    /\ hand' = [hand EXCEPT !.heard = source_lang]
    /\ pc' = IF hand.english THEN "label" ELSE "mt"
    /\ UNCHANGED <<config, objects, threads, held, payload, frames, fed, stirred,
                   events, last>>

\* Mayura translates into what target_lang is by now.
MMt ==
    /\ pc = "mt"
    /\ hand' = [hand EXCEPT !.text = target_lang]
    /\ pc' = "label"
    /\ UNCHANGED <<config, objects, threads, held, payload, frames, fed, stirred,
                   events, last>>

\* The event's source_language is read, and then its target_language.
MLabel ==
    /\ pc = "label"
    /\ hand' = [hand EXCEPT !.label = source_lang]
    /\ pc' = "emit"
    /\ UNCHANGED <<config, objects, threads, held, payload, frames, fed, stirred,
                   events, last>>

\* Mutant: the event is labelled with the language heard.
Target_Swapped == source_lang

Target == target_lang

MEmit ==
    /\ pc = "emit"
    /\ events' = Append(events,
           [samples |-> hand.samples, speech |-> hand.speech,
            is_final |-> hand.is_final, by |-> hand.by])
    /\ last' = [english |-> hand.english, heard |-> hand.heard, text |-> hand.text,
                source_language |-> hand.label, target_language |-> Target,
                stirred |-> stirred]
    /\ hand' = NoChunk
    /\ stirred' = FALSE
    /\ pc' = "fetch"
    /\ UNCHANGED <<config, objects, threads, held, payload, frames, fed>>

Processing ==
    \/ MOdd \/ MAdd \/ MFetch \/ MNone \/ MSpin
    \/ \E speech \in BOOLEAN : MNext(speech)
    \/ MBranch \/ MAsr \/ MMt \/ MLabel \/ MEmit

-----------------------------------------------------------------------------
Next ==
    \/ \E u \in Updaters, m \in Messages : UMessage(u, m)
    \/ \E u \in Updaters : Updating(u)
    \/ \E n \in Payloads : MFrame(n)
    \/ MIdle
    \/ Processing

Spec == Init /\ [][Next]_vars

\* The interpreter lets every thread that is inside a call go on.
FairSpec ==
    Spec /\ WF_vars(Processing) /\ \A u \in Updaters : WF_vars(Updating(u))

-----------------------------------------------------------------------------
(* The type invariant *)
Chunker == [size : Int, buffer : Seq(1 .. fed), speech_frames : Nat,
            silence_frames : Nat]

TypeOK ==
    /\ source_lang \in Langs /\ target_lang \in Langs
    /\ chunk_size \in Sizes
    /\ objects \in Seq(Chunker)
    /\ chunker \in 1 .. Len(objects) /\ held \in 1 .. Len(objects)
    /\ upc \in [Updaters -> {"idle", "source", "target", "compare", "size",
                              "chunker"}]
    /\ umsg \in [Updaters -> Messages \cup {NoMessage}]
    /\ pc \in {"idle", "add", "fetch", "next", "branch", "asr", "mt", "label",
               "emit"}
    /\ payload \in Payloads \cup {0}
    /\ hand.samples \in Seq(1 .. fed)
    /\ fed \in 0 .. MaxSamples
    /\ {stirred, torn} \subseteq BOOLEAN

(***************************************************************************)
(* Safety                                                                  *)
(***************************************************************************)

\* The samples s are consecutive.
Consecutive(s) == \A i \in 1 .. Len(s) - 1 : s[i + 1] = s[i] + 1

\* All samples of s are older than all of t.
Before(s, t) == \A i \in DOMAIN s, j \in DOMAIN t : s[i] < t[j]

\* Whatever update_config does meanwhile, each chunk is one unbroken stretch
\* of audio, and chunks leave the pipeline in the order they were spoken: no
\* sample is transcribed twice, and none after a later one.
ChunksInOrder ==
    /\ \A i \in DOMAIN events : Consecutive(events[i].samples)
    /\ \A i, j \in DOMAIN events :
           i < j => Before(events[i].samples, events[j].samples)
    /\ \A i \in DOMAIN events :
           Before(events[i].samples, hand.samples \o objects[chunker].buffer)
    /\ Consecutive(hand.samples)
    /\ Before(hand.samples, objects[chunker].buffer)

\* What a chunker may hold when process_audio_bytes returns or begins: less than
\* a chunk, and nothing when its size is not positive, since the loop ends for
\* such a one only by its replacement.
Limit(c) == IF c.size > 0 THEN c.size ELSE 1

\* The audio that is lost is what a replaced chunker still held: less than one
\* of its chunks, and the frame the main thread was about to add to it.
LostOnlyByResize ==
    /\ 1 .. fed = (UNION {ToSet(events[i].samples) : i \in DOMAIN events})
                     \cup ToSet(hand.samples)
                     \cup (UNION {ToSet(objects[c].buffer) : c \in DOMAIN objects})
    /\ \A c \in DOMAIN objects :
           \E n \in Payloads : Len(objects[c].buffer) < Limit(objects[c]) + n \div 2

\* max_buffer_ms is enforced nowhere; the loop of process_audio_bytes bounds
\* the buffer all the same: less than a chunk remains when it returns.
BufferDrained ==
    /\ pc \in {"idle", "add"} =>
           Len(objects[chunker].buffer) < Limit(objects[chunker])
    /\ \A i \in DOMAIN events :
           objects[events[i].by].size > 0 =>
               Len(events[i].samples) = objects[events[i].by].size

\* is_final as chunker.py describes it ("Speech followed by silence indicates
\* end of utterance"), read off the chunks themselves: two silent ones in a
\* row after some speech that no earlier final one has closed.
FinalIsEndOfUtterance ==
    \A i \in DOMAIN events :
        LET mine(j) == events[j].by = events[i].by
        IN  events[i].is_final <=>
                \E w, q \in 1 .. i - 1 :
                    /\ w < q /\ mine(w) /\ mine(q)
                    /\ events[w].speech
                    /\ \A j \in w + 1 .. i : mine(j) => ~events[j].speech
                    /\ \A j \in w .. i - 1 : mine(j) => ~events[j].is_final

\* An event says which language its text is in, unless an update stored another
\* target_lang while the chunk was being worked on.
LabelFitsText ==
    ~last.stirred =>
        /\ last.text = last.target_language
        /\ last.english = (last.text \in English)

\* However many clients send updates, the chunker in use has the configured
\* size whenever nobody is between the two stores, but for one case: the newest
\* store of the size came between another client's two stores, or raised.  It
\* lasts until a store that comes alone; but update_config takes no message
\* with the size that is stored already, the one that would correct it.
SizeSettles ==
    ~torn /\ (\A u \in Updaters : upc[u] # "chunker") =>
        objects[chunker].size = Samples[chunk_size]

\* "Target is non-English: Step 1 = Saaras transcribe -> Step 2 = Mayura
\* translate" (pipeline.py): Mayura is not asked for English.
MayuraNeverToEnglish == ~last.english => last.text \notin English

(***************************************************************************)
(* Liveness                                                                *)
(***************************************************************************)

\* The loop of process_audio_bytes ends, also when the chunker is replaced
\* under it: every whole chunk that is buffered is transcribed.  (With a size
\* that is not positive it goes round until an update brings another.)
EveryFrameFinishes ==
    (pc # "idle") ~> (pc = "idle" \/ objects[chunker].size <= 0)
=============================================================================

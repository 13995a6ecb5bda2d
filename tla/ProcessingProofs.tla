--------------------------- MODULE ProcessingProofs -------------------------
(***************************************************************************)
(* Proofs about ProcessingApp, for any number of frontends, transmission   *)
(* engines and segments: the list of clients agrees with the handlers, and *)
(* the engines share their memory unless a name was taken away.            *)
(*                                                                         *)
(* The list is replaced as a whole by broadcast, from a copy it made under *)
(* the lock; the invariant says what the copy may lack: closed peers only. *)
(***************************************************************************)
EXTENDS ProcessingApp, TLAPS

\* The lock is broadcast's, and broadcast leaves nothing behind.
LockIsSend ==
    /\ lock = (ppc = "send")
    /\ ppc # "send" => todo = {} /\ active = {}

\* What broadcast has still to do and what it keeps are on the list; whatever
\* else is on it has closed.
Rebuilding ==
    /\ todo \cup active \subseteq clients
    /\ \A c \in clients : ppc = "send" /\ c \notin todo \cup active => peer[c] = "closed"

\* The connection being accepted has no handler yet, and is soon on the list.
Accepting ==
    /\ apc \in {"append", "spawn"} =>
           aconn \in Conns /\ hpc[aconn] = "none" /\ peer[aconn] # "new"
    /\ apc = "spawn" => aconn \in clients \/ peer[aconn] = "closed"

\* Handlers are for connections that have been made.
Handled == \A c \in Conns : hpc[c] # "none" => peer[c] # "new"

ListInv == LockIsSend /\ Rebuilding /\ Accepting /\ Handled /\ ServedIsListed

\* The segment that has the name is the only one that has not lost it.
SegmentInv ==
    /\ \A e \in Engines : epc[e] # "down" => maps[e] # 0
    /\ \A s \in 1 .. segments : s = name \/ s \in unlinked

\* Between accept and the start of its handler a connection is in hand.
ConnInHand == apc \in {"append", "spawn"} => aconn \in Conns

TypedInv == TypeOK /\ SegmentInv /\ ConnInHand

-----------------------------------------------------------------------------
(* Type correctness, with what it needs of the segments *)

LEMMA InitTyped == Init => TypedInv
<1> SUFFICES ASSUME Init PROVE TypedInv
  OBVIOUS
<1>1. segments \in 0 .. MaxSegments /\ inbox \in [Conns -> 0 .. Buf]
  BY ProcessingAssumption DEF Init
<1>2. {running, serving, callback, lock} \subseteq BOOLEAN
  BY DEF Init
<1>3. SegmentInv
  BY DEF Init, SegmentInv
<1> QED
  BY <1>1, <1>2, <1>3 DEF Init, TypeOK, TypedInv, ConnInHand

EngineStep(e) ==
    EOpen(e) \/ ECreate(e) \/ ENoSize(e) \/ ENoMap(e) \/ EKill(e) \/ EStop(e)

LEMMA EngineKeeps ==
    ASSUME NEW e \in Engines, EngineStep(e)
    PROVE  UNCHANGED <<main, server, network>>
BY DEF EngineStep, EOpen, ECreate, ENoSize, ENoMap, EKill, EStop, Vanish

LEMMA SegmentSteps ==
    ASSUME TypeOK, SegmentInv, NEW e \in Engines, EngineStep(e)
    PROVE  TypeOK' /\ SegmentInv'
<1> DEFINE Others == /\ name' \in 0 .. segments' /\ segments' \in 0 .. MaxSegments
                     /\ maps' \in [Engines -> 0 .. segments']
                     /\ epc' \in [Engines -> {"down", "open", "up"}]
                     /\ sized' \subseteq 1 .. segments'
                     /\ unlinked' \subseteq 1 .. segments'
                     /\ attached' \in 0 .. segments'
<1>1. epc[e] # "down" => maps[e] \in 1 .. segments
  BY DEF TypeOK, SegmentInv
<1>2. SUFFICES Others /\ SegmentInv'
  BY EngineKeeps DEF TypeOK, main, server, network
<1>3. attached' = attached
  BY EngineKeeps DEF main
<1> USE ProcessingAssumption DEF TypeOK, SegmentInv, EStep
<1>4. CASE EOpen(e)
  <2>1. name' \in 1 .. segments' /\ segments' \in {segments, segments + 1}
    BY <1>4 DEF EOpen, MustMake
  <2>2. maps' = [maps EXCEPT ![e] = name'] /\ epc' = [epc EXCEPT ![e] = "open"]
    BY <1>4 DEF EOpen
  <2>3. segments' \in 0 .. MaxSegments /\ 0 .. segments \subseteq 0 .. segments'
    BY <1>4, <2>1 DEF EOpen
  <2>4. maps' \in [Engines -> 0 .. segments']
    BY <2>1, <2>2, <2>3
  <2>5. Others
    BY <1>3, <1>4, <2>1, <2>2, <2>3, <2>4 DEF EOpen
  <2>6. \A d \in Engines : epc'[d] # "down" => maps'[d] # 0
    BY <2>1, <2>2
  <2>7. \A s \in 1 .. segments' : s = name' \/ s \in unlinked'
    BY <1>4 DEF EOpen, MustMake
  <2> QED
    BY <2>5, <2>6, <2>7
<1>5. CASE ECreate(e)
  BY <1>1, <1>3, <1>5 DEF ECreate
<1>6. ASSUME Vanish(e), sized' \subseteq 1 .. segments PROVE Others /\ SegmentInv'
  <2>1. /\ maps' = [maps EXCEPT ![e] = 0] /\ epc' = [epc EXCEPT ![e] = "down"]
        /\ name' = name /\ segments' = segments /\ unlinked' = unlinked
    BY <1>6 DEF Vanish
  <2>2. /\ maps' \in [Engines -> 0 .. segments]
        /\ epc' \in [Engines -> {"down", "open", "up"}]
    BY <2>1
  <2>3. Others
    BY <1>3, <1>6, <2>1, <2>2
  <2>4. \A d \in Engines : epc'[d] # "down" => maps'[d] # 0
    BY <2>1
  <2> QED
    BY <2>1, <2>3, <2>4
<1>7. CASE ENoSize(e) \/ EKill(e) \/ ENoMap(e)
  <2>1. Vanish(e) /\ sized' \subseteq 1 .. segments
    BY <1>1, <1>7 DEF ENoSize, EKill, ENoMap
  <2> QED
    BY <1>6, <2>1
<1>8. CASE EStop(e)
  BY <1>3, <1>8 DEF EStop
<1> QED BY <1>4, <1>5, <1>7, <1>8 DEF EngineStep

LEMMA MainTyped ==
    ASSUME TypeOK, MainStep \/ PEvent \/ PIdle \/ Signal
    PROVE  TypeOK' /\ UNCHANGED shm
<1> USE ProcessingAssumption DEF TypeOK, shm, server, network
<1>1. ASSUME NEW ok \in BOOLEAN, PServe(ok) PROVE TypeOK' /\ UNCHANGED shm
  BY <1>1 DEF PServe, PStep
<1>2. CASE PCallback \/ PRetry \/ PStop \/ Signal
  BY <1>2 DEF PCallback, PRetry, PStop, Signal, PStep, AfterFailure
<1>7. CASE PCleanup
  BY <1>7 DEF PCleanup
<1>8. CASE PIdle
  BY <1>8 DEF PIdle, vars, main
<1>3. CASE PAttach
  BY <1>3 DEF PAttach, PStep, CanAttach
<1>4. CASE PUnlock \/ PEvent
  BY <1>4 DEF PUnlock, PEvent, PStep
<1>5. ASSUME NEW c \in Conns, PSent(c) PROVE TypeOK' /\ UNCHANGED shm
  BY <1>5 DEF PSent, Takes
<1>6. ASSUME NEW c \in Conns, PNotSent(c) PROVE TypeOK' /\ UNCHANGED shm
  BY <1>6 DEF PNotSent
<1> QED BY <1>1, <1>2, <1>3, <1>4, <1>5, <1>6, <1>7, <1>8 DEF MainStep

\* The accepting thread, a handler or the start of one, and a frontend.
AcceptStep == AAppend \/ ASpawn \/ AFail
ServerStep(c) ==
    \/ AAccept(c)
    \/ HMessage(c) \/ HBreak(c) \/ HRemove(c) \/ HClose(c)
FrontendStep(c) == FConnect(c) \/ FRead(c) \/ FClose(c)

LEMMA AcceptTyped ==
    ASSUME TypeOK, ConnInHand, AcceptStep
    PROVE  TypeOK' /\ UNCHANGED shm
<1> USE DEF TypeOK, ConnInHand, shm, main, network
<1>1. CASE AAppend
  BY <1>1 DEF AAppend
<1>2. CASE ASpawn
  BY <1>2 DEF ASpawn
<1>3. CASE AFail
  BY <1>3 DEF AFail
<1> QED
  BY <1>1, <1>2, <1>3 DEF AcceptStep

LEMMA ServerTyped ==
    ASSUME TypeOK, NEW c \in Conns, ServerStep(c) \/ FrontendStep(c)
    PROVE  TypeOK' /\ UNCHANGED shm
<1> USE ProcessingAssumption DEF TypeOK, shm, main
<1>1. CASE AAccept(c)
  BY <1>1 DEF AAccept, network
<1>2. CASE HMessage(c) \/ HBreak(c)
  BY <1>2 DEF HMessage, HBreak, HStep, network
<1>3. CASE HRemove(c) \/ HClose(c)
  BY <1>3 DEF HRemove, HClose, HStep, network
<1>4. CASE FConnect(c)
  BY <1>4 DEF FConnect, server
<1>5. CASE FRead(c)
  BY <1>5 DEF FRead, server
<1>6. CASE FClose(c)
  BY <1>6 DEF FClose, server
<1> QED
  BY <1>1, <1>2, <1>3, <1>4, <1>5, <1>6 DEF ServerStep, FrontendStep

\* Every step of Next is of one of four kinds.
LEMMA Kinds ==
    ASSUME [Next]_vars
    PROVE  \/ \E e \in Engines : EngineStep(e)
           \/ MainStep \/ PEvent \/ PIdle \/ Signal
           \/ \E c \in Conns : ServerStep(c) \/ FrontendStep(c)
           \/ AcceptStep
           \/ UNCHANGED vars
BY DEF Next, Ended, EngineStep, AcceptStep, ServerStep, FrontendStep

LEMMA HandKept ==
    ASSUME TypeOK, ConnInHand, [Next]_vars
    PROVE  ConnInHand'
<1>1. CASE UNCHANGED <<apc, aconn>>
  BY <1>1 DEF ConnInHand
<1>2. CASE AcceptStep
  BY <1>2 DEF ConnInHand, AcceptStep, AAppend, ASpawn, AFail
<1>3. ASSUME NEW c \in Conns, ServerStep(c) \/ FrontendStep(c)
      PROVE  ConnInHand'
  BY <1>1, <1>3 DEF ConnInHand, ServerStep, FrontendStep, AAccept, HMessage, HBreak,
         HRemove, HClose, HStep, FConnect, FRead, FClose, server
<1>4. ASSUME NEW e \in Engines, EngineStep(e) PROVE ConnInHand'
  BY <1>1, <1>4, EngineKeeps DEF server
<1>5. CASE MainStep \/ PEvent \/ PIdle \/ Signal
  <2>1. ASSUME NEW ok \in BOOLEAN, PServe(ok) PROVE ConnInHand'
    BY <2>1 DEF PServe, ConnInHand
  <2>2. ASSUME NEW c \in Conns, PSent(c) \/ PNotSent(c) PROVE ConnInHand'
    BY <1>1, <2>2 DEF PSent, PNotSent, server
  <2> QED
    BY <1>1, <1>5, <2>1, <2>2 DEF MainStep, PCallback, PAttach, PRetry, PUnlock,
           PCleanup, PStop, PEvent, PIdle, Signal, vars, server
<1> QED
  BY <1>1, <1>2, <1>3, <1>4, <1>5, Kinds DEF vars, server

LEMMA TypedAlways == Spec => []TypedInv
<1>1. TypedInv /\ [Next]_vars => TypedInv'
  <2> SUFFICES ASSUME TypeOK, SegmentInv, ConnInHand, [Next]_vars
                PROVE  TypeOK' /\ SegmentInv'
    BY HandKept DEF TypedInv
  <2>1. ASSUME UNCHANGED shm PROVE SegmentInv'
    BY <2>1 DEF SegmentInv, shm
  <2>2. CASE UNCHANGED vars
    BY <2>1, <2>2 DEF TypeOK, vars, shm, main, server, network
  <2>3. ASSUME NEW e \in Engines, EngineStep(e) PROVE TypeOK' /\ SegmentInv'
    BY <2>3, SegmentSteps
  <2>4. CASE MainStep \/ PEvent \/ PIdle \/ Signal
    BY <2>1, <2>4, MainTyped
  <2>5. CASE AcceptStep
    BY <2>1, <2>5, AcceptTyped
  <2>6. ASSUME NEW c \in Conns, ServerStep(c) \/ FrontendStep(c)
        PROVE  TypeOK' /\ SegmentInv'
    BY <2>1, <2>6, ServerTyped
  <2> QED
    BY <2>2, <2>3, <2>4, <2>5, <2>6, Kinds
<1> QED
  BY <1>1, InitTyped, PTL DEF Spec

\* The values of the variables are of the kinds TypeOK names, in every state.
THEOREM ProcessingTyped == Spec => []TypeOK
<1>1. TypedInv => TypeOK
  BY DEF TypedInv
<1> QED
  BY <1>1, TypedAlways, PTL

\* All engines use the same memory unless a name was taken away from one, however
\* many of them and of their segments there have been.
THEOREM MemoryShared == Spec => []SplitOnlyByUnlink
<1>1. TypedInv => SplitOnlyByUnlink
  <2> SUFFICES ASSUME TypeOK, SegmentInv, NEW s \in InUse
               PROVE  s \in 1 .. segments
    BY DEF TypedInv, SegmentInv, SplitOnlyByUnlink
  <2> QED
    BY DEF TypeOK, SegmentInv, InUse
<1> QED
  BY <1>1, TypedAlways, PTL

-----------------------------------------------------------------------------
(* The list of clients *)

LEMMA InitList == Init => ListInv
BY DEF Init, ListInv, LockIsSend, Rebuilding, Accepting, Handled, ServedIsListed

\* Where nothing of the server and of the frontends changes, nor broadcast.
LEMMA ListKept ==
    ASSUME ListInv, UNCHANGED <<clients, lock, apc, aconn, hpc, peer, todo, active>>,
           lock = (ppc' = "send")
    PROVE  ListInv'
BY DEF ListInv, LockIsSend, Rebuilding, Accepting, Handled, ServedIsListed

LEMMA EngineList ==
    ASSUME ListInv, NEW e \in Engines, EngineStep(e)
    PROVE  ListInv'
BY ListKept, EngineKeeps DEF main, server, network, ListInv, LockIsSend

LEMMA MainList ==
    ASSUME TypeOK, ListInv, MainStep \/ PEvent \/ PIdle \/ Signal
    PROVE  ListInv'
<1>1. ASSUME NEW ok \in BOOLEAN, PServe(ok) PROVE ListInv'
  BY <1>1 DEF PServe, PStep, network, ListInv, LockIsSend, Rebuilding, Accepting,
         Handled, ServedIsListed
<1>2. CASE PCallback \/ PAttach \/ PRetry \/ PCleanup \/ PStop \/ Signal
  BY <1>2, ListKept DEF PCallback, PAttach, PRetry, PCleanup, PStop, Signal, PStep,
         AfterFailure, Leaving, server, network, ListInv, LockIsSend
<1>3. CASE PIdle
  BY <1>3, ListKept DEF PIdle, vars, main, server, network, ListInv, LockIsSend
<1>4. CASE PEvent
  BY <1>4 DEF PEvent, PStep, network, ListInv, LockIsSend, Rebuilding, Accepting,
         Handled, ServedIsListed
<1>5. CASE PUnlock
  BY <1>5 DEF PUnlock, PStep, network, TypeOK, ListInv, LockIsSend, Rebuilding,
         Accepting, Handled, ServedIsListed
<1>6. ASSUME NEW c \in Conns, PSent(c) PROVE ListInv'
  BY <1>6 DEF PSent, server, ListInv, LockIsSend, Rebuilding, Accepting, Handled,
         ServedIsListed
<1>7. ASSUME NEW c \in Conns, PNotSent(c) PROVE ListInv'
  BY <1>7 DEF PNotSent, Fails, server, network, ListInv, LockIsSend, Rebuilding,
         Accepting, Handled, ServedIsListed
<1> QED
  BY <1>1, <1>2, <1>3, <1>4, <1>5, <1>6, <1>7 DEF MainStep

LEMMA AcceptList ==
    ASSUME TypeOK, ListInv, AcceptStep
    PROVE  ListInv'
<1> USE DEF TypeOK, main, network, ListInv, LockIsSend, Rebuilding, Accepting,
            Handled, ServedIsListed
<1>1. CASE AAppend
  BY <1>1 DEF AAppend
<1>2. CASE ASpawn
  BY <1>2 DEF ASpawn
<1>3. CASE AFail
  BY <1>3 DEF AFail
<1> QED
  BY <1>1, <1>2, <1>3 DEF AcceptStep

LEMMA ServerList ==
    ASSUME TypeOK, ListInv, NEW c \in Conns, ServerStep(c) \/ FrontendStep(c)
    PROVE  ListInv'
<1> USE DEF TypeOK, main, ListInv, LockIsSend, Rebuilding, Accepting, Handled,
            ServedIsListed
<1>1. CASE AAccept(c)
  BY <1>1 DEF AAccept, network
<1>2. CASE HMessage(c)
  BY <1>2 DEF HMessage, HStep, network
<1>3. CASE HBreak(c)
  BY <1>3 DEF HBreak, HStep, network
<1>4. CASE HRemove(c)
  BY <1>4 DEF HRemove, HStep, MayRemove, network
<1>5. CASE HClose(c)
  BY <1>5 DEF HClose, HStep, network
<1>6. CASE FConnect(c)
  BY <1>6 DEF FConnect, server
<1>7. CASE FRead(c)
  BY <1>7 DEF FRead, server
<1>8. CASE FClose(c)
  BY <1>8 DEF FClose, server
<1> QED
  BY <1>1, <1>2, <1>3, <1>4, <1>5, <1>6, <1>7, <1>8 DEF ServerStep, FrontendStep

\* A frontend that is being heard is on the list, and a closed socket is not,
\* nor on the copy broadcast puts in its place.
THEOREM ListCorrect == Spec => []ServedIsListed
<1>1. TypeOK /\ ListInv /\ [Next]_vars => ListInv'
  <2> SUFFICES ASSUME TypeOK, ListInv, [Next]_vars PROVE ListInv'
    OBVIOUS
  <2>1. CASE UNCHANGED vars
    BY <2>1, ListKept DEF vars, main, server, network, ListInv, LockIsSend
  <2> QED
    BY <2>1, EngineList, MainList, AcceptList, ServerList, Kinds
<1>2. ListInv => ServedIsListed
  BY DEF ListInv
<1> QED
  BY <1>1, <1>2, InitList, ProcessingTyped, PTL DEF Spec
=============================================================================

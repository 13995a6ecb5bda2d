-------------------------- MODULE TransmissionProofs ------------------------
(***************************************************************************)
(* Proofs about TransmissionApp, for any number of frontends, descriptor   *)
(* numbers and unread messages: main takes nothing from under a thread,    *)
(* telemetry reaches every frontend whose number is its own, and a number  *)
(* that nobody else had in hand at accept stays with its connection.       *)
(*                                                                         *)
(* The steps that matter are those on the descriptors; the mutex keeps a   *)
(* connection from being registered while the list is being replaced.      *)
(***************************************************************************)
EXTENDS TransmissionApp, SequenceTheorems, TLAPS

-----------------------------------------------------------------------------
(* Sequences as sets *)

LEMMA HeadAndTail ==
    ASSUME NEW S, NEW s \in Seq(S), s # <<>>
    PROVE  /\ Head(s) \in S /\ Tail(s) \in Seq(S)
           /\ ToSet(s) = {Head(s)} \cup ToSet(Tail(s))
<1>1. Head(s) = s[1] /\ Len(s) \in Nat \ {0} /\ DOMAIN s = 1 .. Len(s)
  OBVIOUS
<1>2. /\ Head(s) \in S /\ Tail(s) \in Seq(S)
      /\ DOMAIN Tail(s) = 1 .. Len(s) - 1
      /\ \A i \in 1 .. Len(s) - 1 : Tail(s)[i] = s[i + 1]
  BY HeadTailProperties
<1>3. ASSUME NEW i \in 1 .. Len(s), i # 1
      PROVE  i - 1 \in 1 .. Len(s) - 1 /\ s[i] = Tail(s)[i - 1]
  <2>1. i - 1 \in 1 .. Len(s) - 1 /\ (i - 1) + 1 = i
    BY <1>1, <1>3
  <2> QED
    BY <1>2, <2>1
<1>4. ASSUME NEW i \in 1 .. Len(s)
      PROVE  s[i] \in {Head(s)} \cup ToSet(Tail(s))
  BY <1>1, <1>2, <1>3 DEF ToSet
<1>6. ToSet(s) \subseteq {Head(s)} \cup ToSet(Tail(s))
  BY <1>1, <1>4 DEF ToSet
<1>5. ToSet(Tail(s)) \subseteq ToSet(s) /\ Head(s) \in ToSet(s)
  BY <1>1, <1>2 DEF ToSet
<1> QED
  BY <1>2, <1>5, <1>6

LEMMA Appended ==
    ASSUME NEW S, NEW s \in Seq(S), NEW e \in S
    PROVE  /\ Append(s, e) \in Seq(S)
           /\ ToSet(Append(s, e)) = ToSet(s) \cup {e}
BY AppendProperties DEF ToSet

LEMMA NothingInEmpty == ToSet(<<>>) = {}
BY DEF ToSet

-----------------------------------------------------------------------------
(* The kinds of step *)

\* A step of the owner inside broadcast or stop.
OwnerStep ==
    \/ BLock \/ BSend \/ BSent \/ BFailed \/ BDrop \/ BEnd
    \/ SFlag \/ SLock \/ SClose \/ SEnd

\* A step of the listening thread on connection c.
ListenerStep(c) == LAccept(c) \/ LPush \/ LSpawn

\* A step of the worker of connection c, or of its frontend.
WorkerStep(c) == Receiving(c) \/ WClose(c)
PeerStep(c) == FConnect(c) \/ FRead(c) \/ FClose(c)

\* A recv and what comes of it.
LEMMA ReceivingEffect ==
    ASSUME NEW c \in Conns, Receiving(c)
    PROVE  /\ alive /\ wpc[c] \in {"recv", "length", "body", "payload"}
           /\ \E to \in {"recv", "length", "body", "payload", "close"} :
                  wpc' = [wpc EXCEPT ![c] = to]
           /\ reads' = reads \/ reads' = [reads EXCEPT ![c] = number[sock[c]]]
           /\ UNCHANGED <<alive, running, clients, lock, joinable, number, owner,
                          listener, network>>
<1>1. CASE WRecv(c)
  BY <1>1 DEF WRecv, WStep
<1>2. CASE WBody(c)
  BY <1>2 DEF WBody, WStep
<1>3. CASE WMessage(c) \/ WEnd(c) \/ \E fits \in BOOLEAN : WLength(c, fits)
  BY <1>3 DEF WMessage, WEnd, WLength, WStep
<1> QED
  BY <1>1, <1>2, <1>3 DEF Receiving

Bind == \E ok \in BOOLEAN : LBind(ok)

\* The server goes with main, or with SIGPIPE.
Gone ==
    /\ alive' = FALSE
    /\ UNCHANGED <<running, clients, lock, joinable, number, owner, listener, workers,
                   network>>

LEMMA Kinds ==
    ASSUME [Next]_vars
    PROVE  \/ UNCHANGED svars
           \/ OwnerStep \/ Bind \/ Gone
           \/ Start /\ MStep("server", "loop")
           \/ LPush \/ LSpawn
           \/ \E c \in Conns : ListenerStep(c) \/ WorkerStep(c) \/ PeerStep(c)
<1> USE DEF OwnerStep, ListenerStep, WorkerStep, PeerStep, Bind, Gone
<1>1. CASE MainStep
  <2>1. ASSUME NEW ok \in BOOLEAN, MCreate(ok) \/ MConnect(ok)
        PROVE  UNCHANGED svars
    BY <2>1 DEF MCreate, MConnect
  <2>2. ASSUME NEW t \in Threads, MStartWorker(t) \/ MStopWorker(t) \/ MJoinWorker(t)
        PROVE  UNCHANGED svars
    BY <2>2 DEF MStartWorker, MStopWorker, MJoinWorker
  <2>3. CASE MStartServer
    BY <2>3 DEF MStartServer
  <2>4. CASE MTelemetry \/ MBroadcast
    BY <2>4 DEF MTelemetry, MBroadcast, Broadcasting
  <2>5. CASE MStopServer \/ MServerStopped
    BY <2>5 DEF MStopServer, MServerStopped, SReturn
  <2>6. CASE MLeave \/ MClose \/ MUnmap
    BY <2>6 DEF MLeave, MClose, MUnmap
  <2>7. CASE MDestroyServer
    BY <2>7 DEF MDestroyServer
  <2> QED
    BY <1>1, <2>1, <2>2, <2>3, <2>4, <2>5, <2>6, <2>7 DEF MainStep
<1>2. CASE MKilled
  BY <1>2 DEF MKilled, BKilled
<1>3. CASE Signal \/ Ended \/ UNCHANGED vars
  BY <1>3 DEF Signal, Ended, vars
<1>4. ASSUME NEW t \in Threads, TEnd(t) PROVE UNCHANGED svars
  BY <1>4 DEF TEnd
<1>5. CASE ListenStep
  BY <1>5 DEF ListenStep, Listening
<1> QED
  BY <1>1, <1>2, <1>3, <1>4, <1>5 DEF Next, Working

-----------------------------------------------------------------------------
(* Main takes nothing from under a thread *)

\* Where main is, the UDP socket is open, and so are the rings.
SocketOpen == {"receiver", "sender", "server", "loop", "killed", "stop sender",
             "stop receiver"}

Running(t) == worker[t] \in {"runs", "told"}

\* The sender is joined first, then the receiver.
PhaseInv ==
    /\ mpc \in SocketOpen => udp = "open"
    /\ mpc \in SocketOpen \cup {"connect"} => rings = "mapped"
    /\ Running("sender") => mpc \in {"server", "loop", "killed", "stop sender"}
    /\ Running("receiver") => mpc \in SocketOpen \ {"receiver"}
    /\ worker \in [Threads -> {"none", "runs", "told", "over"}]
    /\ mpc \in {"unmap", "exited"} => ~alive

LEMMA InitPhase == Init => PhaseInv
BY DEF Init, PhaseInv, SocketOpen, Running, Threads

LEMMA ServerPhase ==
    ASSUME PhaseInv, UNCHANGED app, alive' => alive
    PROVE  PhaseInv'
BY DEF PhaseInv, Running, app

LEMMA WorkersPhase ==
    ASSUME PhaseInv, NEW t \in Threads,
           MStartWorker(t) \/ MStopWorker(t) \/ MJoinWorker(t) \/ TEnd(t)
    PROVE  PhaseInv'
<1> USE DEF PhaseInv, SocketOpen, Running, Threads, svars
<1>1. CASE MStartWorker(t)
  BY <1>1 DEF MStartWorker, MStep
<1>2. CASE MStopWorker(t)
  BY <1>2 DEF MStopWorker
<1>3. CASE MJoinWorker(t)
  BY <1>3 DEF MJoinWorker, MStep, Joined
<1>4. CASE TEnd(t)
  BY <1>4 DEF TEnd
<1> QED
  BY <1>1, <1>2, <1>3, <1>4

LEMMA MainPhase ==
    ASSUME PhaseInv, MainStep \/ MKilled \/ Signal
    PROVE  PhaseInv'
<1> USE DEF PhaseInv, SocketOpen, Running, svars, MStep
<1>1. ASSUME NEW ok \in BOOLEAN, MCreate(ok) \/ MConnect(ok)
      PROVE  PhaseInv'
  BY <1>1 DEF MCreate, MConnect
<1>2. CASE MStartServer
  BY <1>2 DEF MStartServer, Start
<1>3. CASE MTelemetry \/ MBroadcast \/ MStopServer
  <2>1. UNCHANGED <<app, alive>>
    BY <1>3 DEF MTelemetry, MBroadcast, MStopServer, Broadcasting, BLock, BSend, BSent,
           BFailed, BDrop, BEnd, SFlag, SLock, SClose
  <2> QED
    BY <2>1, ServerPhase
<1>4. CASE MLeave \/ MClose
  BY <1>4 DEF MLeave, MClose
<1>8. CASE MUnmap
  <2>1. alive' => alive
    BY <1>8, Zenon DEF MUnmap
  <2> QED
    BY <1>8, <2>1 DEF MUnmap
<1>9. CASE Signal
  BY <1>9 DEF Signal
<1>5. CASE MServerStopped
  BY <1>5 DEF MServerStopped, SReturn, SEnd
<1>6. CASE MDestroyServer
  BY <1>6 DEF MDestroyServer
<1>7. CASE MKilled
  BY <1>7 DEF MKilled, BKilled
<1> QED
  BY <1>1, <1>2, <1>3, <1>4, <1>5, <1>6, <1>7, <1>8, <1>9, WorkersPhase DEF MainStep

LEMMA OthersPhase ==
    ASSUME PhaseInv,
           \/ ListenStep
           \/ \E c \in Conns : (WorkerStep(c) \/ PeerStep(c)) /\ UNCHANGED app
    PROVE  PhaseInv'
<1>1. CASE ListenStep
  BY <1>1, ServerPhase DEF ListenStep, Listening, LBind, LAccept, LPush, LSpawn
<1>2. ASSUME NEW c \in Conns, WorkerStep(c) /\ UNCHANGED app PROVE PhaseInv'
  BY <1>2, ServerPhase, ReceivingEffect DEF WorkerStep, WClose, WStep
<1>3. ASSUME NEW c \in Conns, PeerStep(c) /\ UNCHANGED app PROVE PhaseInv'
  BY <1>3, ServerPhase DEF PeerStep, FConnect, FRead, FClose
<1> QED
  BY <1>1, <1>2, <1>3

\* The sender and the receiver run only while the socket is open and the rings
\* are mapped, and the rings go after the server.
THEOREM TakenDownInOrder == Spec => []ThreadsGoneFirst
<1>1. PhaseInv /\ [Next]_vars => PhaseInv'
  <2> SUFFICES ASSUME PhaseInv, [Next]_vars PROVE PhaseInv'
    OBVIOUS
  <2>1. CASE UNCHANGED vars
    BY <2>1, ServerPhase DEF vars, svars
  <2>2. CASE MainStep \/ MKilled \/ Signal
    BY <2>2, MainPhase
  <2> QED
    BY <2>1, <2>2, WorkersPhase, OthersPhase DEF Next, Ended, Working, WorkerStep, PeerStep
<1>2. PhaseInv => ThreadsGoneFirst
  BY DEF PhaseInv, ThreadsGoneFirst, SocketOpen, Running, Threads
<1> QED
  BY <1>1, <1>2, InitPhase, PTL DEF Spec

-----------------------------------------------------------------------------
(* Type correctness, and what the threads know of one another *)

\* The server is started once, on a fresh object.
BeforeStart ==
    mpc \in {"create", "connect", "receiver", "sender", "server"} =>
        ~alive /\ api = "out" /\ lpc = "none" /\ \A c \in Conns : ~fresh[c]

\* The connection being accepted has a number and no worker yet, and a worker
\* is for a connection that has a number.
ListenInv ==
    /\ lpc \in {"push", "spawn"} =>
           lconn \in Conns /\ wpc[lconn] = "none" /\ sock[lconn] # 0
    /\ \A c \in Conns : wpc[c] # "none" => sock[c] # 0

\* The owner has the mutex from the time it has locked it until it has done
\* with the list, and stop has cleared m_running before.
OwnerInv ==
    /\ lock <=> api \in {"next", "send", "drop", "shut"}
    /\ api \in {"send", "drop"} => todo # <<>>
    /\ api \in {"lock", "shut"} => ~running

\* The kernel's table agrees with what accept has returned.
NumberInv ==
    /\ \A n \in Numbers : number[n] # None => sock[number[n]] = n
    /\ \A c \in Conns : /\ sock[c] # 0 => peer[c] # "new"
                        /\ fresh[c] => sock[c] # 0

TypedInv == TypeOK /\ BeforeStart /\ ListenInv /\ OwnerInv /\ NumberInv

LEMMA InitTyped == Init => TypedInv
<1> SUFFICES ASSUME Init PROVE TypedInv
  OBVIOUS
<1> USE ServerAssumption DEF Init, ServerInit
<1>1. inbox \in [Conns -> 0 .. Buf]
  OBVIOUS
<1>2. {alive, running, lock, joinable} \subseteq BOOLEAN
  OBVIOUS
<1>3. clients \in Seq(Numbers) /\ todo \in Seq(Numbers) /\ active \in Seq(Numbers)
  OBVIOUS
<1>4. fresh \in [Conns -> BOOLEAN] /\ \A c \in Conns : ~fresh[c]
  OBVIOUS
<1>5. TypeOK
  BY <1>1, <1>2, <1>3, <1>4 DEF TypeOK
<1>6. OwnerInv
  BY DEF OwnerInv
<1>7. BeforeStart /\ ListenInv /\ NumberInv
  BY <1>4 DEF BeforeStart, ListenInv, NumberInv
<1> QED
  BY <1>5, <1>6, <1>7 DEF TypedInv

\* The facts TypedInv adds about a server step, apart from main's place.
ServerTyped == TypeOK /\ ListenInv /\ OwnerInv /\ NumberInv

\* A number is closed: the table stays true of what accept has returned.
LEMMA Closing ==
    ASSUME TypeOK, NumberInv, NEW n, CloseNumber(n)
    PROVE  /\ number' \in [Numbers -> Conns \cup {None}]
           /\ \A m \in Numbers : number'[m] # None => number'[m] = number[m] /\ m # n
BY DEF TypeOK, CloseNumber

LEMMA OwnerTyped ==
    ASSUME ServerTyped, OwnerStep
    PROVE  ServerTyped'
<1> USE ServerAssumption DEF ServerTyped, TypeOK, ListenInv, OwnerInv, NumberInv,
        listener, workers, network
<1>0. todo # <<>> => Head(todo) \in Numbers /\ Tail(todo) \in Seq(Numbers)
  BY HeadAndTail
<1>1. CASE BLock
  BY <1>1 DEF BLock
<1>9. CASE SFlag
  BY <1>9 DEF SFlag
<1>10. CASE SLock
  BY <1>10 DEF SLock
<1>2. CASE BSend
  BY <1>0, <1>2 DEF BSend
<1>3. CASE BSent
  <2>1. Append(active, Head(todo)) \in Seq(Numbers)
    BY <1>0, <1>3, Appended DEF BSent
  <2>2. inbox' \in [Conns -> 0 .. Buf]
    BY <1>3 DEF BSent, Takes
  <2> QED
    BY <1>0, <1>3, <2>1, <2>2 DEF BSent, Takes
<1>4. CASE BFailed
  BY <1>4 DEF BFailed
<1>5. CASE BDrop
  BY <1>0, <1>5, Closing DEF BDrop, AfterDrop
<1>6. CASE BEnd
  BY <1>6 DEF BEnd, LockAfter
<1>7. CASE SClose
  BY <1>0, <1>7, Closing DEF SClose
<1>8. CASE SEnd
  BY <1>8 DEF SEnd
<1> QED
  BY <1>1, <1>2, <1>3, <1>4, <1>5, <1>6, <1>7, <1>8, <1>9,
     <1>10 DEF OwnerStep

LEMMA ListenTyped ==
    ASSUME ServerTyped, NEW c \in Conns, ListenerStep(c)
    PROVE  ServerTyped'
<1> USE ServerAssumption DEF ServerTyped, TypeOK, ListenInv, OwnerInv, NumberInv,
        owner, workers, network
<1>1. CASE LAccept(c)
  BY <1>1 DEF LAccept, Free
<1>2. CASE LPush
  <2>1. Append(clients, sock[lconn]) \in Seq(Numbers)
    BY <1>2, Appended DEF LPush
  <2> QED
    BY <1>2, <2>1 DEF LPush
<1>3. CASE LSpawn
  BY <1>3 DEF LSpawn
<1> QED
  BY <1>1, <1>2, <1>3 DEF ListenerStep

LEMMA WorkerTyped ==
    ASSUME ServerTyped, NEW c \in Conns, WorkerStep(c) \/ PeerStep(c)
    PROVE  ServerTyped'
<1> USE ServerAssumption DEF ServerTyped, TypeOK, ListenInv, OwnerInv, NumberInv,
        owner, listener
<1>1. CASE Receiving(c)
  <2>1. sock[c] \in Numbers /\ number[sock[c]] \in Conns \cup {None}
    <3>1. wpc[c] # "none"
      BY <1>1, ReceivingEffect
    <3> QED
      BY <3>1
  <2>2. reads' \in [Conns -> Conns \cup {None}]
    <3>1. reads' = reads \/ reads' = [reads EXCEPT ![c] = number[sock[c]]]
      BY <1>1, ReceivingEffect
    <3>2. reads \in [Conns -> Conns \cup {None}]
      OBVIOUS
    <3> USE ONLY <2>1, <3>1, <3>2
    <3> QED
      OBVIOUS
  <2>3. PICK to \in {"recv", "length", "body", "payload", "close"} :
            wpc' = [wpc EXCEPT ![c] = to]
    BY <1>1, ReceivingEffect
  <2>4. wpc[c] # "none"
    BY <1>1, ReceivingEffect
  <2>5. wpc' \in [Conns -> {"none", "recv", "length", "body", "payload", "close", "over"}]
    BY <2>3
  <2>6. \A d \in Conns : (wpc'[d] = "none") <=> (wpc[d] = "none")
    BY <2>3, <2>4
  <2>7. UNCHANGED <<alive, running, clients, lock, joinable, number, owner, listener,
                    network>>
    BY <1>1, ReceivingEffect
  <2>8. TypeOK'
    BY <2>2, <2>5, <2>7 DEF network
  <2>9. ListenInv'
    BY <2>6, <2>7
  <2> QED
    BY <2>7, <2>8, <2>9 DEF network
<1>3. CASE WClose(c)
  BY <1>3, Closing DEF WClose, WStep, network
<1>5. CASE FConnect(c)
  BY <1>5 DEF FConnect, workers
<1>6. CASE FRead(c)
  BY <1>6 DEF FRead, workers
<1>7. CASE FClose(c)
  BY <1>7 DEF FClose, workers
<1> QED
  BY <1>1, <1>3, <1>5, <1>6, <1>7 DEF WorkerStep, PeerStep

LEMMA LifeTyped ==
    ASSUME TypedInv, Bind \/ Gone \/ (Start /\ MStep("server", "loop"))
    PROVE  ServerTyped'
<1> USE DEF TypedInv, ServerTyped, TypeOK, ListenInv, OwnerInv, NumberInv, owner, listener,
        workers, network
<1>1. ASSUME NEW ok \in BOOLEAN, LBind(ok) PROVE ServerTyped'
  BY <1>1 DEF LBind
<1>2. CASE Gone
  BY <1>2 DEF Gone
<1>3. CASE Start /\ MStep("server", "loop")
  BY <1>3 DEF Start, MStep, BeforeStart
<1> QED
  BY <1>1, <1>2, <1>3 DEF Bind

LEMMA BeforeKept ==
    ASSUME TypedInv, [Next]_vars
    PROVE  BeforeStart'
<1> USE DEF BeforeStart, TypedInv, MStep, svars, owner, listener
<1>1. CASE MainStep
  <2>1. ASSUME NEW ok \in BOOLEAN, MCreate(ok) \/ MConnect(ok)
        PROVE  BeforeStart'
    BY <2>1 DEF MCreate, MConnect
  <2>2. ASSUME NEW t \in Threads, MStartWorker(t) \/ MStopWorker(t) \/ MJoinWorker(t)
        PROVE  BeforeStart'
    BY <2>2 DEF MStartWorker, MStopWorker, MJoinWorker, Threads
  <2>3. CASE \/ MStartServer \/ MLeave \/ MServerStopped \/ MClose \/ MDestroyServer
             \/ MUnmap
    BY <2>3 DEF MStartServer, MLeave, MServerStopped, MClose, MDestroyServer, MUnmap
  <2>4. CASE MTelemetry \/ MBroadcast \/ MStopServer
    BY <2>4 DEF MTelemetry, MBroadcast, MStopServer, app
  <2> QED
    BY <1>1, <2>1, <2>2, <2>3, <2>4 DEF MainStep
<1>2. CASE MKilled
  BY <1>2 DEF MKilled
<1>3. CASE Signal \/ Ended \/ UNCHANGED vars
  BY <1>3 DEF Signal, Ended, vars, app
<1>4. ASSUME NEW t \in Threads, TEnd(t) PROVE BeforeStart'
  BY <1>4 DEF TEnd
<1>5. ASSUME alive, UNCHANGED app PROVE BeforeStart'
  BY <1>5 DEF app
<1>6. CASE ListenStep
  BY <1>5, <1>6 DEF ListenStep, Listening, LBind, LAccept, LPush, LSpawn
<1>7. ASSUME NEW c \in Conns, WorkerStep(c) \/ PeerStep(c) PROVE alive
  BY <1>7, ReceivingEffect DEF WorkerStep, PeerStep, WClose, WStep, FConnect, FRead, FClose
<1> QED
  BY <1>1, <1>2, <1>3, <1>4, <1>5, <1>6, <1>7 DEF Next, Working, WorkerStep, PeerStep

LEMMA TypedAlways == Spec => []TypedInv
<1>1. TypedInv /\ [Next]_vars => TypedInv'
  <2> SUFFICES ASSUME TypedInv, [Next]_vars PROVE ServerTyped'
    BY BeforeKept DEF TypedInv, ServerTyped
  <2>1. ServerTyped
    BY DEF TypedInv, ServerTyped
  <2>2. CASE UNCHANGED svars
    BY <2>1, <2>2 DEF ServerTyped, TypeOK, ListenInv, OwnerInv, NumberInv, svars, owner,
           listener, workers, network
  <2>3. CASE LPush \/ LSpawn
    <3>1. lconn \in Conns
      BY <2>1, <2>3 DEF ServerTyped, ListenInv, LPush, LSpawn
    <3> QED
      BY <2>1, <2>3, <3>1, ListenTyped DEF ListenerStep
  <2>4. ASSUME NEW c \in Conns, ListenerStep(c) PROVE ServerTyped'
    BY <2>1, <2>4, ListenTyped
  <2> QED
    BY <2>1, <2>2, <2>3, <2>4, OwnerTyped, WorkerTyped, LifeTyped, Kinds
<1> QED
  BY <1>1, InitTyped, PTL DEF Spec

\* The variables of the server have the values TypeOK names, in every state of
\* the engine.
THEOREM TransmissionTyped == Spec => []TypeOK
<1>1. TypedInv => TypeOK
  BY DEF TypedInv
<1> QED
  BY <1>1, TypedAlways, PTL

-----------------------------------------------------------------------------
(* A number that is fresh stays with its connection *)

Guarded(c) ==
    running /\ fresh[c] /\ peer[c] = "open" /\ wpc[c] \notin {"close", "over"}

\* Nobody else closes the number: no worker of an earlier connection is left,
\* and a broadcast that has it in hand found the connection it stands for.
FreshInv ==
    \A c \in Conns : Guarded(c) =>
        /\ HasOwn(c)
        /\ \A d \in Conns \ {c} : sock[d] = sock[c] => wpc[d] = "over"
        /\ api \in {"send", "drop"} /\ Head(todo) = sock[c] => api = "send" /\ sending = c

LEMMA OwnerFresh ==
    ASSUME ServerTyped, FreshInv, OwnerStep
    PROVE  FreshInv'
<1> USE DEF ServerTyped, TypeOK, OwnerInv, FreshInv, Guarded, HasOwn, listener, workers,
        network
<1>1. CASE BLock
  BY <1>1 DEF BLock
<1>8. CASE SFlag \/ SLock
  <2>1. ~running'
    BY <1>8 DEF SFlag, SLock
  <2> QED
    BY <2>1
<1>2. CASE BSend
  BY <1>2 DEF BSend
<1>3. CASE BSent
  BY <1>3 DEF BSent
<1>4. CASE BFailed
  BY <1>4, ServerAssumption DEF BFailed, Fails
<1>5. CASE BDrop
  BY <1>5 DEF BDrop, CloseNumber
<1>6. CASE BEnd
  BY <1>6 DEF BEnd
<1>9. CASE SEnd
  <2>1. ~running'
    BY <1>9 DEF SEnd
  <2> QED
    BY <2>1
<1>7. CASE SClose
  BY <1>7 DEF SClose
<1> QED
  BY <1>1, <1>2, <1>3, <1>4, <1>5, <1>6, <1>7, <1>8, <1>9 DEF OwnerStep

\* The connection just accepted is guarded only if its number was in no hand.
LEMMA AcceptFresh ==
    ASSUME ServerTyped, FreshInv, NEW c \in Conns, LAccept(c)
    PROVE  FreshInv'
<1> USE DEF ServerTyped, TypeOK, OwnerInv
<1> PICK n \in Free : /\ number' = [number EXCEPT ![n] = c]
                      /\ sock' = [sock EXCEPT ![c] = n]
                      /\ fresh' = [fresh EXCEPT ![c] = ~InHand(n)]
  BY DEF LAccept
<1>1. ASSUME Guarded(c)'
      PROVE  /\ HasOwn(c)'
             /\ \A d \in Conns \ {c} : sock'[d] = sock'[c] => wpc'[d] = "over"
             /\ ~(api' \in {"send", "drop"} /\ Head(todo') = sock'[c])
  <2>1. ~InHand(n)
    BY <1>1 DEF Guarded
  <2>2. todo # <<>> => Head(todo) # n
    BY <2>1, HeadAndTail DEF InHand
  <2>3. sock'[c] = n /\ number'[n] = c
    BY DEF Free
  <2>4. HasOwn(c)'
    BY <2>3, ServerAssumption DEF HasOwn, Free
  <2>5. \A d \in Conns \ {c} : sock'[d] = sock'[c] => wpc'[d] = "over"
    BY <2>1, <2>3 DEF LAccept, InHand, workers
  <2> QED
    BY <2>2, <2>3, <2>4, <2>5 DEF LAccept, owner
<1>2. ASSUME NEW e \in Conns \ {c}, Guarded(e)'
      PROVE  /\ HasOwn(e)'
             /\ \A d \in Conns \ {e} : sock'[d] = sock'[e] => wpc'[d] = "over"
             /\ api' \in {"send", "drop"} /\ Head(todo') = sock'[e] =>
                    api' = "send" /\ sending' = e
  <2>1. Guarded(e) /\ sock'[e] = sock[e]
    BY <1>2 DEF Guarded, LAccept, workers, network
  <2>2. HasOwn(e) /\ n # sock[e]
    BY <2>1, ServerAssumption DEF FreshInv, HasOwn, Free
  <2> QED
    BY <2>1, <2>2 DEF FreshInv, LAccept, HasOwn, owner, workers, Free
<1> QED
  BY <1>1, <1>2 DEF FreshInv

LEMMA ListenFresh ==
    ASSUME ServerTyped, FreshInv, NEW c \in Conns, ListenerStep(c)
    PROVE  FreshInv'
<1> USE DEF ServerTyped, TypeOK, ListenInv, FreshInv, Guarded, HasOwn, owner, workers,
        network
<1>1. CASE LPush
  BY <1>1 DEF LPush
<1>2. CASE LSpawn
  BY <1>2 DEF LSpawn
<1> QED
  BY <1>1, <1>2, AcceptFresh DEF ListenerStep

LEMMA WorkerFresh ==
    ASSUME ServerTyped, FreshInv, NEW c \in Conns, WorkerStep(c) \/ PeerStep(c)
    PROVE  FreshInv'
<1> USE DEF ServerTyped, TypeOK, ListenInv, FreshInv, Guarded, HasOwn, owner, listener
<1>1. CASE Receiving(c)
  <2>1. PICK to \in {"recv", "length", "body", "payload", "close"} :
            wpc' = [wpc EXCEPT ![c] = to]
    BY <1>1, ReceivingEffect
  <2>2. /\ wpc[c] \notin {"close", "over"}
        /\ UNCHANGED <<running, number, owner, listener, network>>
    BY <1>1, ReceivingEffect
  <2> QED
    BY <2>1, <2>2 DEF network
<1>3. CASE WClose(c)
  BY <1>3 DEF WClose, WStep, CloseNumber, network
<1>5. CASE FConnect(c)
  BY <1>5 DEF FConnect, workers, NumberInv
<1>6. CASE FRead(c)
  BY <1>6 DEF FRead, workers
<1>7. CASE FClose(c)
  BY <1>7 DEF FClose, workers
<1> QED
  BY <1>1, <1>3, <1>5, <1>6, <1>7 DEF WorkerStep, PeerStep

LEMMA LifeFresh ==
    ASSUME TypedInv, FreshInv, Bind \/ Gone \/ (Start /\ MStep("server", "loop"))
    PROVE  FreshInv'
<1> USE DEF TypedInv, FreshInv, Guarded, HasOwn, owner, listener, workers, network
<1>1. ASSUME NEW ok \in BOOLEAN, LBind(ok) PROVE FreshInv'
  BY <1>1 DEF LBind
<1>2. CASE Gone
  BY <1>2 DEF Gone
<1>3. CASE Start /\ MStep("server", "loop")
  BY <1>3 DEF Start, MStep, BeforeStart
<1> QED
  BY <1>1, <1>2, <1>3 DEF Bind


LEMMA FreshAlways == Spec => []FreshInv
<1>1. Init => FreshInv
  BY DEF Init, ServerInit, FreshInv, Guarded
<1>2. TypedInv /\ FreshInv /\ [Next]_vars => FreshInv'
  <2> SUFFICES ASSUME TypedInv, FreshInv, [Next]_vars PROVE FreshInv'
    OBVIOUS
  <2>1. ServerTyped
    BY DEF TypedInv, ServerTyped
  <2>2. CASE UNCHANGED svars
    BY <2>2 DEF FreshInv, Guarded, HasOwn, svars, owner, listener, workers, network
  <2>3. CASE LPush \/ LSpawn
    <3>1. lconn \in Conns
      BY <2>1, <2>3 DEF ServerTyped, ListenInv, LPush, LSpawn
    <3> QED
      BY <2>1, <2>3, <3>1, ListenFresh DEF ListenerStep
  <2>4. ASSUME NEW c \in Conns, ListenerStep(c) PROVE FreshInv'
    BY <2>1, <2>4, ListenFresh
  <2> QED
    BY <2>1, <2>2, <2>3, <2>4, OwnerFresh, WorkerFresh, LifeFresh, Kinds
<1> QED
  BY <1>1, <1>2, TypedAlways, PTL DEF Spec

\* A connection whose number nobody else had in hand at accept keeps it until
\* its frontend closes, its worker ends or the server stops, for any number of
\* frontends and of descriptor numbers.
THEOREM FreshNumberKept == Spec => []FreshKept
<1>1. FreshInv => FreshKept
  BY DEF FreshInv, FreshKept, Guarded
<1> QED
  BY <1>1, FreshAlways, PTL

-----------------------------------------------------------------------------
(* Telemetry reaches every frontend it should *)

Owed(c) == Registered(c) /\ HasOwn(c) /\ peer[c] = "open"

\* Where the number of a connection that is owed telemetry is found, according
\* to what the owner is doing.
Heard(c) ==
    /\ api \in {"out", "lock"} => sock[c] \in ToSet(clients)
    /\ api \in {"next", "send", "drop"} =>
           sock[c] \in ToSet(todo) \/ (sock[c] \in ToSet(active) /\ c \in reached)
    /\ api = "send" /\ sock[c] = Head(todo) => sending = c
    /\ api = "drop" => sock[c] # Head(todo)
    /\ api = "shut" => sock[c] \in ToSet(todo)

HeardInv == \A c \in Conns : Owed(c) => Heard(c)

\* What the owner holds, and what a step that leaves it alone keeps.
LEMMA HeardKept ==
    ASSUME HeardInv, UNCHANGED <<owner, clients, sock>>,
           \A c \in Conns : Owed(c)' => Owed(c)
    PROVE  HeardInv'
BY DEF HeardInv, Heard, owner

LEMMA OwnerHeard ==
    ASSUME ServerTyped, HeardInv, OwnerStep
    PROVE  HeardInv'
<1> USE DEF ServerTyped, TypeOK, OwnerInv, HeardInv, Heard, listener, workers, network
<1>0. /\ ToSet(<<>>) = {}
      /\ todo # <<>> =>
             /\ Head(todo) \in Numbers /\ Tail(todo) \in Seq(Numbers)
             /\ ToSet(todo) = {Head(todo)} \cup ToSet(Tail(todo))
  BY HeadAndTail, NothingInEmpty
<1>1. ASSUME UNCHANGED <<number, listener, peer>>
      PROVE  \A c \in Conns : Owed(c)' <=> Owed(c)
  BY <1>1 DEF Owed, Registered, HasOwn
<1>2. CASE BLock \/ SFlag \/ SLock
  BY <1>1, <1>2 DEF BLock, SFlag, SLock
<1>3. CASE BSend
  BY <1>0, <1>1, <1>3 DEF BSend, Owed, HasOwn
<1>4. CASE BSent
  <2>1. ToSet(active') = ToSet(active) \cup {Head(todo)}
    BY <1>0, <1>4, Appended DEF BSent
  <2>2. ASSUME NEW c \in Conns, Owed(c) PROVE Heard(c)'
    BY <1>0, <1>4, <2>1, <2>2 DEF BSent
  <2> QED
    BY <1>1, <1>4, <2>2 DEF BSent
<1>5. CASE BFailed
  BY <1>1, <1>5, ServerAssumption DEF BFailed, Fails, Owed
<1>6. CASE BDrop \/ SClose
  <2>1. /\ CloseNumber(Head(todo)) /\ Head(todo) \in Numbers
        /\ UNCHANGED <<sock, lconn, lpc, peer>>
    BY <1>0, <1>6 DEF BDrop, SClose
  <2>2. ASSUME NEW c \in Conns, Owed(c)'
        PROVE  Owed(c) /\ sock[c] # Head(todo)
    <3>1. sock[c] \in Numbers /\ number'[sock[c]] = c
      BY <2>1, <2>2 DEF Owed, Registered, HasOwn
    <3>2. sock[c] # Head(todo)
      BY <2>1, <3>1, ServerAssumption DEF CloseNumber
    <3> QED
      BY <2>1, <2>2, <3>1, <3>2 DEF CloseNumber, Owed, Registered, HasOwn
  <2> QED
    BY <1>0, <1>6, <2>2 DEF BDrop, SClose, AfterDrop
<1>7. CASE BEnd
  BY <1>0, <1>1, <1>7 DEF BEnd
<1>8. CASE SEnd
  BY <1>0, <1>1, <1>8 DEF SEnd
<1> QED
  BY <1>2, <1>3, <1>4, <1>5, <1>6, <1>7, <1>8 DEF OwnerStep

LEMMA ListenHeard ==
    ASSUME ServerTyped, HeardInv, NEW c \in Conns, ListenerStep(c)
    PROVE  HeardInv'
<1> USE DEF ServerTyped, TypeOK, OwnerInv, ListenInv, workers, network
<1>1. CASE LAccept(c)
  <2> PICK n \in Free : /\ number' = [number EXCEPT ![n] = c]
                        /\ sock' = [sock EXCEPT ![c] = n]
    BY <1>1 DEF LAccept
  <2>1. ASSUME NEW d \in Conns, Owed(d)'
        PROVE  Owed(d) /\ sock'[d] = sock[d]
    <3>1. d # c
      BY <1>1, <2>1 DEF LAccept, Owed, Registered
    <3>2. sock'[d] = sock[d]
      BY <3>1
    <3>3. sock[d] # n
      BY <2>1, <3>1, <3>2 DEF Owed, HasOwn, Free
    <3> QED
      BY <1>1, <2>1, <3>1, <3>2, <3>3 DEF LAccept, Owed, Registered, HasOwn, Free
  <2> QED
    BY <1>1, <2>1 DEF LAccept, HeardInv, Heard, owner
<1>2. CASE LPush
  <2>1. ToSet(clients') = ToSet(clients) \cup {sock[lconn]} /\ api \in {"out", "lock"}
    BY <1>2, Appended DEF LPush
  <2>2. \A d \in Conns : Owed(d)' => Owed(d) \/ d = lconn
    BY <1>2 DEF LPush, Owed, Registered, HasOwn
  <2> QED
    BY <1>2, <2>1, <2>2 DEF LPush, HeardInv, Heard, owner
<1>3. CASE LSpawn
  <2>1. \A d \in Conns : Owed(d)' => Owed(d)
    BY <1>3 DEF LSpawn, Owed, Registered, HasOwn
  <2> QED
    BY <1>3, <2>1, HeardKept DEF LSpawn
<1> QED
  BY <1>1, <1>2, <1>3 DEF ListenerStep

LEMMA WorkerHeard ==
    ASSUME ServerTyped, HeardInv, NEW c \in Conns, WorkerStep(c) \/ PeerStep(c)
    PROVE  HeardInv'
<1>1. UNCHANGED <<owner, clients, sock, lconn, lpc>>
  BY ReceivingEffect DEF WorkerStep, PeerStep, WClose, FConnect, FRead, FClose, listener
<1>2. ASSUME UNCHANGED <<number, peer>> PROVE HeardInv'
  BY <1>1, <1>2, HeardKept DEF Owed, Registered, HasOwn
<1>3. CASE Receiving(c) \/ FRead(c)
  BY <1>2, <1>3, ReceivingEffect DEF FRead, network
<1>5. CASE WClose(c)
  BY <1>1, <1>5, HeardKept, ServerAssumption DEF WClose, CloseNumber, network, Owed,
         Registered, HasOwn, ServerTyped, TypeOK
<1>6. CASE FConnect(c)
  BY <1>1, <1>6, HeardKept DEF FConnect, Owed, Registered, HasOwn, ServerTyped, TypeOK,
         NumberInv
<1>7. CASE FClose(c)
  BY <1>1, <1>7, HeardKept DEF FClose, Owed, Registered, HasOwn, ServerTyped, TypeOK
<1> QED
  BY <1>3, <1>5, <1>6, <1>7 DEF WorkerStep, PeerStep

LEMMA LifeHeard ==
    ASSUME TypedInv, HeardInv, Bind \/ Gone \/ (Start /\ MStep("server", "loop"))
    PROVE  HeardInv'
<1>1. UNCHANGED <<owner, clients, sock, lconn, number, peer>>
  BY DEF Bind, LBind, Gone, Start, listener, network
<1>2. lpc' = lpc \/ (lpc # "push" /\ lpc' # "push")
  <2>1. CASE Start /\ MStep("server", "loop")
    BY <2>1 DEF Start, MStep, TypedInv, BeforeStart
  <2> QED
    BY <2>1 DEF Bind, LBind, Gone, listener
<1> QED
  BY <1>1, <1>2, HeardKept DEF Owed, Registered, HasOwn

LEMMA HeardAlways == Spec => []HeardInv
<1>1. Init => HeardInv
  BY DEF Init, ServerInit, HeardInv, Owed, Registered
<1>2. TypedInv /\ HeardInv /\ [Next]_vars => HeardInv'
  <2> SUFFICES ASSUME TypedInv, HeardInv, [Next]_vars PROVE HeardInv'
    OBVIOUS
  <2>1. ServerTyped
    BY DEF TypedInv, ServerTyped
  <2>2. CASE UNCHANGED svars
    BY <2>2, HeardKept DEF Owed, Registered, HasOwn, svars, listener, network
  <2>3. CASE LPush \/ LSpawn
    <3>1. lconn \in Conns
      BY <2>1, <2>3 DEF ServerTyped, ListenInv, LPush, LSpawn
    <3> QED
      BY <2>1, <2>3, <3>1, ListenHeard DEF ListenerStep
  <2>4. ASSUME NEW c \in Conns, ListenerStep(c) PROVE HeardInv'
    BY <2>1, <2>4, ListenHeard
  <2> QED
    BY <2>1, <2>2, <2>3, <2>4, OwnerHeard, WorkerHeard, LifeHeard, Kinds
<1> QED
  BY <1>1, <1>2, TypedAlways, PTL DEF Spec

\* A broadcast reaches every registered connection that is up and has its
\* number, whatever was closed, dropped, given out again or listed twice.
THEOREM TelemetryDelivered == Spec => []TelemetryReachesAll
<1>1. HeardInv => TelemetryReachesAll
  BY NothingInEmpty DEF HeardInv, Heard, Owed, TelemetryReachesAll
<1> QED
  BY <1>1, HeardAlways, PTL
=============================================================================

---------------------------- MODULE ProcessingApp ---------------------------
(***************************************************************************)
(* The processing engine as a process (processing/src/main.py): its main   *)
(* thread, its control server (processing/src/ipc/control_socket.py) with  *)
(* the frontends that connect to it, and the shared segment it attaches to *)
(* while transmission engines come and go.                                 *)
(*                                                                         *)
(* What happens to the bytes of the ring and of the audio is left to       *)
(* ShmRestart and Pipeline: here a frame may or may not be there, and may  *)
(* or may not complete a chunk whose event is broadcast.                   *)
(***************************************************************************)
EXTENDS Integers

CONSTANTS
    Engines,     \* transmission engines, each started as often as it likes
    Conns,       \* the connections frontends open; each is opened once
    None,
    Buf,         \* messages a frontend may leave unread before sendall blocks
    MaxSegments  \* BOUND: segments made in a behaviour

ASSUME ProcessingAssumption ==
    /\ None \notin Conns
    /\ Buf \in Nat \ {0}
    /\ MaxSegments \in Nat

VARIABLES
    \* /dev/shm, and the transmission engines
    name,        \* the segment voip_audio_rx_shm stands for, 0 for none
    segments,    \* segments made so far; they are numbered
    sized,       \* those ftruncate has given their size
    unlinked,    \* those that have lost their name
    epc,         \* how far an engine has come: "down", "open" or "up"
    maps,        \* the segment an engine has opened, 0 for none
    \* the main thread
    ppc,
    running,     \* the module's `running', cleared by a signal
    attached,    \* the segment it has mapped, 0 for none
    todo, active,   \* the clients it has still to send to, and those that took it
    \* the control server
    serving,     \* its `running'
    callback,    \* on_message_callback is set
    clients, lock,
    apc, aconn,  \* the accepting thread
    hpc,         \* the handler thread of a connection
    \* frontends
    peer, inbox

shm      == <<name, segments, sized, unlinked, epc, maps>>
main     == <<ppc, running, attached, todo, active>>
server   == <<serving, callback, clients, lock, apc, aconn, hpc>>
network  == <<peer, inbox>>
vars     == <<shm, main, server, network>>

Init ==
    /\ name = 0 /\ segments = 0 /\ sized = {} /\ unlinked = {}
    /\ epc = [e \in Engines |-> "down"] /\ maps = [e \in Engines |-> 0]
    /\ ppc = "start" /\ running = TRUE /\ attached = 0
    /\ todo = {} /\ active = {}
    /\ serving = FALSE /\ callback = FALSE
    /\ clients = {} /\ lock = FALSE
    /\ apc = "none" /\ aconn = None
    /\ hpc = [c \in Conns |-> "none"]
    /\ peer = [c \in Conns |-> "new"]
    /\ inbox = [c \in Conns |-> 0]

-----------------------------------------------------------------------------
(* Transmission engines: ShmRingBuffer's Create and destructor. More than   *)
(* one may be started; only those that find their UDP port free stay up.   *)

EStep(e, from, to) == epc[e] = from /\ epc' = [epc EXCEPT ![e] = to]

\* Mutant: Create does not take what a killed engine has left behind.
MustMake_Always == TRUE

MustMake == name = 0

\* shm_open(O_CREAT): the segment that has the name, or a new one.
EOpen(e) ==
    /\ EStep(e, "down", "open")
    /\ IF MustMake
       THEN /\ segments < MaxSegments
            /\ segments' = segments + 1
            /\ name' = segments + 1
       ELSE UNCHANGED <<segments, name>>
    /\ maps' = [maps EXCEPT ![e] = name']
    /\ UNCHANGED <<sized, unlinked, main, server, network>>

\* The engine is gone and the name is still there.
Vanish(e) ==
    /\ epc' = [epc EXCEPT ![e] = "down"]
    /\ maps' = [maps EXCEPT ![e] = 0]
    /\ UNCHANGED <<name, segments, unlinked, main, server, network>>

\* ftruncate, then mmap and the header, which nobody here can see apart: an
\* engine that stops between them leaves what ENoMap leaves.
ECreate(e) ==
    /\ EStep(e, "open", "up")
    /\ sized' = sized \cup {maps[e]}
    /\ UNCHANGED <<name, segments, unlinked, maps, main, server, network>>

\* A buffer that was not mapped unlinks nothing, when ftruncate has failed
\* or mmap after it.
ENoSize(e) == epc[e] = "open" /\ Vanish(e) /\ UNCHANGED sized

ENoMap(e) == epc[e] = "open" /\ Vanish(e) /\ sized' = sized \cup {maps[e]}

\* A kill or an abort reaches no destructor.
EKill(e) == epc[e] # "down" /\ Vanish(e) /\ UNCHANGED sized

\* The destructor, at a shutdown or when the UDP port was taken: it unlinks
\* whatever has the name by then.
EStop(e) ==
    /\ EStep(e, "up", "down")
    /\ name' = 0
    /\ unlinked' = unlinked \cup ({name} \ {0})
    /\ maps' = [maps EXCEPT ![e] = 0]
    /\ UNCHANGED <<segments, sized, main, server, network>>

-----------------------------------------------------------------------------
(* main, on the main thread *)

PStep(from, to) == ppc = from /\ ppc' = to

\* control_server.start(): clients can connect from here on, or bind has raised
\* and nothing catches it.
PServe(ok) ==
    /\ PStep("start", IF ok THEN "callback" ELSE "exited")
    /\ serving' = ok
    /\ apc' = IF ok THEN "accept" ELSE "none"
    /\ UNCHANGED <<shm, running, attached, todo, active, callback, clients, lock,
                   aconn, hpc, network>>

\* The pipeline is made, and then the callback is set.
PCallback ==
    /\ PStep("callback", "attach")
    /\ callback' = TRUE
    /\ UNCHANGED <<shm, running, attached, todo, active, serving, clients, lock, apc,
                   aconn, hpc, network>>

\* The name is there and the file behind it has its full size: mmap of a
\* shorter one raises.
CanAttach == name \in sized

PAttach ==
    /\ PStep("attach", "read")
    /\ running /\ CanAttach
    /\ attached' = name
    /\ UNCHANGED <<shm, running, todo, active, server, network>>

AfterFailure == "attach"

\* The exception is caught, and after a second it tries again.
PRetry ==
    /\ running /\ ~CanAttach
    /\ PStep("attach", AfterFailure)
    /\ UNCHANGED <<shm, running, attached, todo, active, server, network>>

\* A frame has completed a chunk: on_transcript_result broadcasts its event.
PEvent ==
    /\ PStep("read", "send")
    /\ running /\ attached # 0
    /\ ~lock /\ lock' = TRUE
    /\ todo' = clients
    /\ UNCHANGED <<shm, running, attached, active, serving, callback, clients, apc,
                   aconn, hpc, network>>

\* No frame, or one that completes no chunk.
PIdle ==
    /\ ppc = "read" /\ running /\ attached # 0
    /\ UNCHANGED vars

\* Mutant: a send that never waits, however much is unread.
Takes_Always(c) == TRUE

\* sendall waits while the frontend leaves Buf messages unread; what is sent to
\* one that has just closed may be taken too.
Takes(c) == peer[c] = "open" => inbox[c] < Buf

PSent(c) ==
    /\ ppc = "send" /\ c \in todo
    /\ Takes(c)
    /\ inbox' = IF peer[c] = "open" THEN [inbox EXCEPT ![c] = @ + 1] ELSE inbox
    /\ active' = active \cup {c}
    /\ todo' = todo \ {c}
    /\ UNCHANGED <<shm, ppc, running, attached, server, peer>>

Fails(c) == peer[c] = "closed"

PNotSent(c) ==
    /\ ppc = "send" /\ c \in todo
    /\ Fails(c)
    /\ todo' = todo \ {c}
    /\ UNCHANGED <<shm, ppc, running, attached, active, server, network>>

PUnlock ==
    /\ PStep("send", "read")
    /\ todo = {}
    /\ clients' = active /\ active' = {}
    /\ lock' = FALSE
    /\ UNCHANGED <<shm, running, attached, todo, serving, callback, apc, aconn, hpc,
                   network>>

\* Mutant: only the reading loop looks at running.
Leaving_Read == ppc = "read"

Leaving == ppc \in {"attach", "read"}

\* close unmaps, and stop closes the socket that listens.
PCleanup ==
    /\ Leaving /\ ~running
    /\ ppc' = "close"
    /\ attached' = 0
    /\ UNCHANGED <<shm, running, todo, active, server, network>>

PStop ==
    /\ PStep("close", "exited")
    /\ serving' = FALSE
    /\ UNCHANGED <<shm, running, attached, todo, active, callback, clients, lock, apc,
                   aconn, hpc, network>>

Signal ==
    /\ ppc # "exited" /\ running
    /\ running' = FALSE
    /\ UNCHANGED <<shm, ppc, attached, todo, active, server, network>>

MainStep ==
    \/ \E ok \in BOOLEAN : PServe(ok)
    \/ PCallback \/ PAttach \/ PRetry \/ PUnlock \/ PCleanup \/ PStop
    \/ \E c \in Conns : PSent(c) \/ PNotSent(c)

-----------------------------------------------------------------------------
(* _accept_loop and _client_handler; threads end with the process *)

Alive == ppc # "exited"

AAccept(c) ==
    /\ Alive /\ apc = "accept"
    /\ peer[c] # "new" /\ hpc[c] = "none"
    /\ aconn' = c
    /\ apc' = "append"
    /\ UNCHANGED <<shm, main, serving, callback, clients, lock, hpc, network>>

AAppend ==
    /\ Alive /\ apc = "append" /\ ~lock
    /\ clients' = clients \cup {aconn}
    /\ apc' = "spawn"
    /\ UNCHANGED <<shm, main, serving, callback, lock, aconn, hpc, network>>

ASpawn ==
    /\ Alive /\ apc = "spawn"
    /\ hpc' = [hpc EXCEPT ![aconn] = "recv"]
    /\ aconn' = None
    /\ apc' = "accept"
    /\ UNCHANGED <<shm, main, serving, callback, clients, lock, network>>

\* Any exception ends the loop: accept may have no descriptor left, or the
\* system no thread.
AFail ==
    /\ Alive /\ apc \in {"accept", "spawn"}
    /\ apc' = "over"
    /\ UNCHANGED <<shm, main, serving, callback, clients, lock, aconn, hpc, network>>

HStep(c, from, to) ==
    /\ Alive /\ hpc[c] = from
    /\ hpc' = [hpc EXCEPT ![c] = to]
    /\ UNCHANGED <<shm, main, serving, callback, lock, apc, aconn, network>>

\* A message: handle_control_msg takes it once callback is set, and before
\* that it is dropped.
HMessage(c) == peer[c] = "open" /\ HStep(c, "recv", "recv") /\ UNCHANGED clients

\* The connection has ended, or recv has given a part of a length prefix, or
\* the payload is no JSON.
HBreak(c) == HStep(c, "recv", "remove") /\ UNCHANGED clients

\* Mutant: the list is changed without the lock.
MayRemove_Any == TRUE

MayRemove == ~lock

HRemove(c) ==
    /\ HStep(c, "remove", "close")
    /\ MayRemove
    /\ clients' = clients \ {c}

HClose(c) == HStep(c, "close", "over") /\ UNCHANGED clients

-----------------------------------------------------------------------------
(* Frontends *)

FConnect(c) ==
    /\ Alive /\ serving
    /\ peer[c] = "new"
    /\ peer' = [peer EXCEPT ![c] = "open"]
    /\ UNCHANGED <<shm, main, server, inbox>>

FRead(c) ==
    /\ peer[c] = "open" /\ inbox[c] > 0
    /\ inbox' = [inbox EXCEPT ![c] = @ - 1]
    /\ UNCHANGED <<shm, main, server, peer>>

FClose(c) ==
    /\ peer[c] = "open"
    /\ peer' = [peer EXCEPT ![c] = "closed"]
    /\ inbox' = [inbox EXCEPT ![c] = 0]
    /\ UNCHANGED <<shm, main, server>>

Ended == ppc = "exited" /\ UNCHANGED vars

Next ==
    \/ \E e \in Engines :
           EOpen(e) \/ ECreate(e) \/ ENoSize(e) \/ ENoMap(e) \/ EKill(e) \/ EStop(e)
    \/ MainStep \/ PEvent \/ PIdle \/ Signal
    \/ AAppend \/ ASpawn \/ AFail
    \/ \E c \in Conns :
           \/ AAccept(c)
           \/ HMessage(c) \/ HBreak(c) \/ HRemove(c) \/ HClose(c)
           \/ FConnect(c) \/ FRead(c) \/ FClose(c)
    \/ Ended

Spec == Init /\ [][Next]_vars

\* The system runs the main thread, and a frontend's event loop reads what has
\* come for it.
FairSpec == Spec /\ WF_vars(MainStep) /\ \A c \in Conns : WF_vars(FRead(c))

-----------------------------------------------------------------------------
TypeOK ==
    /\ name \in 0 .. segments /\ maps \in [Engines -> 0 .. segments] /\ attached \in 0 .. segments
    /\ segments \in 0 .. MaxSegments
    /\ sized \subseteq 1 .. segments /\ unlinked \subseteq 1 .. segments
    /\ epc \in [Engines -> {"down", "open", "up"}]
    /\ ppc \in {"start", "callback", "attach", "read", "send", "close", "exited"}
    /\ {running, serving, callback, lock} \subseteq BOOLEAN
    /\ clients \subseteq Conns /\ todo \subseteq Conns /\ active \subseteq Conns
    /\ apc \in {"none", "accept", "append", "spawn", "over"}
    /\ aconn \in Conns \cup {None}
    /\ hpc \in [Conns -> {"none", "recv", "remove", "close", "over"}]
    /\ peer \in [Conns -> {"new", "open", "closed"}]
    /\ inbox \in [Conns -> 0 .. Buf]

\* The list and the handlers agree, though handlers leave on their own and
\* broadcast puts a new list in the place of the old one: a frontend that is
\* being heard is also told, and no event goes to a socket that is closed.
ServedIsListed ==
    \A c \in Conns :
        /\ hpc[c] = "recv" /\ peer[c] = "open" => c \in clients
        /\ hpc[c] \in {"close", "over"} => c \notin clients \cup todo \cup active

\* The segments that are read and written.
InUse == {maps[e] : e \in {d \in Engines : epc[d] = "up"}} \cup ({attached} \ {0})

\* However often engines are killed and started again, side by side too, and
\* wherever the processing engine attached in between, all of them use the same
\* memory unless a destructor has taken the name away from one.
SplitOnlyByUnlink ==
    \A s, t \in InUse : s = t \/ s \in unlinked \/ t \in unlinked

\* The main thread gets on: it attaches when the ring stays there, gets each
\* event out, and ends when it is told to, in the middle of a broadcast or of
\* the wait for the ring too.
MainProgresses ==
    /\ CanAttach ~> attached # 0 \/ ~CanAttach \/ ppc = "exited"
    /\ ppc = "send" ~> ppc # "send"
    /\ ~running ~> ppc = "exited"
=============================================================================

--------------------------- MODULE TransmissionApp --------------------------
(***************************************************************************)
(* The transmission engine as a process: main (transmission/src/main.cpp)  *)
(* creates the rings, opens the UDP connection, starts the receiver's and  *)
(* the sender's threads and the control server, broadcasts telemetry until *)
(* a signal comes, and takes everything down again.                        *)
(*                                                                         *)
(* The control server is that of ControlServer; main is its owner.         *)
(***************************************************************************)
EXTENDS ControlServer

VARIABLES
    mpc,        \* where main is
    gRunning,   \* g_running
    worker,     \* the sender's and the receiver's threads
    udp,        \* m_socketHandle: "none", "open" or "closed"
    rings,      \* both segments: "none", "mapped", or "gone" (unlinked)
    printed     \* "Clean shutdown complete." has been printed

app  == <<mpc, gRunning, worker, udp, rings, printed>>
vars == <<svars, app>>

Threads == {"sender", "receiver"}

Init ==
    /\ ServerInit
    /\ mpc = "create"
    /\ gRunning = TRUE
    /\ worker = [t \in Threads |-> "none"]
    /\ udp = "none"
    /\ rings = "none"
    /\ printed = FALSE

Final == {"exited", "aborted", "killed"}

MStep(from, to) == mpc = from /\ mpc' = to

-----------------------------------------------------------------------------
(* Start *)

\* Both rings are mapped, or main returns 1 and unmaps the one that was.
MCreate(ok) ==
    /\ MStep("create", IF ok THEN "connect" ELSE "unwind")
    /\ rings' = "mapped"
    /\ UNCHANGED <<svars, gRunning, worker, udp, printed>>

\* NetworkConnection::initialize; without a UDP socket main returns 1.
MConnect(ok) ==
    /\ MStep("connect", IF ok THEN "receiver" ELSE "unwind")
    /\ udp' = IF ok THEN "open" ELSE "none"
    /\ UNCHANGED <<svars, gRunning, worker, rings, printed>>

\* Receiver::start and Sender::start.
MStartWorker(t) ==
    /\ MStep(t, IF t = "receiver" THEN "sender" ELSE "server")
    /\ worker' = [worker EXCEPT ![t] = "runs"]
    /\ UNCHANGED <<svars, gRunning, udp, rings, printed>>

MStartServer ==
    /\ MStep("server", "loop")
    /\ Start
    /\ UNCHANGED <<gRunning, worker, udp, rings, printed>>

-----------------------------------------------------------------------------
(* The telemetry loop *)

\* Mutant: the engine stays for the frontends that are connected.
Loops_Served == gRunning \/ clients # <<>>

Loops == gRunning

\* Once a second, and once more when the signal comes during the sleep.
MTelemetry ==
    /\ mpc = "loop" /\ Loops
    /\ BLock
    /\ UNCHANGED app

MBroadcast ==
    /\ mpc = "loop"
    /\ Broadcasting
    /\ UNCHANGED app

MKilled ==
    /\ MStep("loop", "killed")
    /\ BKilled
    /\ UNCHANGED <<gRunning, worker, udp, rings, printed>>

\* SIGINT or SIGTERM.
Signal ==
    /\ mpc \notin Final /\ gRunning
    /\ gRunning' = FALSE
    /\ UNCHANGED <<svars, mpc, worker, udp, rings, printed>>

MLeave ==
    /\ MStep("loop", "stop sender")
    /\ api = "out" /\ ~Loops
    /\ UNCHANGED <<svars, gRunning, worker, udp, rings, printed>>

-----------------------------------------------------------------------------
(* Shutdown *)

\* stop clears the thread's flag and then joins it.
MStopWorker(t) ==
    /\ mpc = (IF t = "sender" THEN "stop sender" ELSE "stop receiver")
    /\ worker[t] = "runs"
    /\ worker' = [worker EXCEPT ![t] = "told"]
    /\ UNCHANGED <<svars, mpc, gRunning, udp, rings, printed>>

\* Mutant: the threads are told to stop and not waited for.
Joined_Told(t) == worker[t] \in {"told", "over"}

Joined(t) == worker[t] = "over"

MJoinWorker(t) ==
    /\ IF t = "sender" THEN MStep("stop sender", "stop receiver")
                       ELSE MStep("stop receiver", "stop server")
    /\ Joined(t)
    /\ UNCHANGED <<svars, gRunning, worker, udp, rings, printed>>

\* The thread finds its flag cleared at the head of its loop; the 50 ms of poll
\* and the 2 ms of an idle sender bound an iteration.
TEnd(t) ==
    /\ mpc \notin Final
    /\ worker[t] = "told"
    /\ worker' = [worker EXCEPT ![t] = "over"]
    /\ UNCHANGED <<svars, mpc, gRunning, udp, rings, printed>>

MStopServer ==
    /\ mpc = "stop server"
    /\ SFlag \/ SLock \/ SClose
    /\ UNCHANGED app

MServerStopped ==
    /\ MStep("stop server", "close")
    /\ SReturn \/ SEnd
    /\ UNCHANGED <<gRunning, worker, udp, rings, printed>>

\* closeConnection, and the last message.
MClose ==
    /\ MStep("close", "unwind")
    /\ udp' = "closed"
    /\ printed' = TRUE
    /\ UNCHANGED <<svars, gRunning, worker, rings>>

\* The server is destroyed first.  Its stop has nothing left to do, and to
\* destroy a std::thread that was neither joined nor detached is to abort.
MDestroyServer ==
    /\ MStep("unwind", IF joinable THEN "aborted" ELSE "unmap")
    /\ alive' = FALSE
    /\ UNCHANGED <<running, clients, lock, joinable, number, owner, listener,
                   workers, network, gRunning, worker, udp, rings, printed>>

\* The sender's, the receiver's and the connection's destructors find their
\* work done; those of the rings unmap and shm_unlink them.
MUnmap ==
    /\ MStep("unmap", "exited")
    /\ rings' = "gone"
    /\ UNCHANGED <<svars, gRunning, worker, udp, printed>>

Ended == mpc \in Final /\ UNCHANGED vars

-----------------------------------------------------------------------------
MainStep ==
    \/ \E ok \in BOOLEAN : MCreate(ok) \/ MConnect(ok)
    \/ \E t \in Threads : MStartWorker(t) \/ MStopWorker(t) \/ MJoinWorker(t)
    \/ MStartServer
    \/ MTelemetry \/ MBroadcast \/ MLeave
    \/ MStopServer \/ MServerStopped \/ MClose
    \/ MDestroyServer \/ MUnmap

ListenStep == (Listening \/ \E ok \in BOOLEAN : LBind(ok)) /\ UNCHANGED app

Next ==
    \/ MainStep
    \/ MKilled
    \/ Signal
    \/ \E t \in Threads : TEnd(t)
    \/ ListenStep
    \/ \E c \in Conns :
           /\ Working(c) \/ FConnect(c) \/ FRead(c) \/ FClose(c)
           /\ UNCHANGED app
    \/ Ended

Spec == Init /\ [][Next]_vars

\* The system runs every thread that can run, and a frontend's event loop
\* reads what has come for it.  Between two broadcasts main sleeps for a second
\* with the mutex free, so a thread that waits for it gets it: strong fairness.
FairSpec ==
    /\ Spec
    /\ WF_vars(MainStep)
    /\ SF_vars(ListenStep)
    /\ \A t \in Threads : WF_vars(TEnd(t))
    /\ \A c \in Conns : WF_vars(FRead(c) /\ UNCHANGED app)

-----------------------------------------------------------------------------
\* No thread uses a resource that main has taken away: the sender and the
\* receiver run only while the UDP socket is open and the rings are mapped,
\* and main unmaps the rings with the server gone.
ThreadsGoneFirst ==
    /\ \A t \in Threads :
           worker[t] \in {"runs", "told"} => udp = "open" /\ rings = "mapped"
    /\ mpc \in {"unmap", "exited"} => ~alive

\* A signal ends the engine, whatever the frontends, the mutex and the threads
\* are doing, as long as frontends read what they are sent.
ShutdownCompletes == ~gRunning ~> mpc \in Final

\* "Clean shutdown complete." (main.cpp) is followed by a clean exit.
CleanIsClean == printed => mpc # "aborted"
=============================================================================

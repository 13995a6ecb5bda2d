---------------------------- MODULE ControlServer ---------------------------
(***************************************************************************)
(* `ControlSocketServer' of the transmission engine                        *)
(* (transmission/src/ipc/control_socket.cpp), its descriptors and the      *)
(* frontends that connect to it.                                           *)
(*                                                                         *)
(* Three kinds of thread use the server: the one that owns it calls        *)
(* broadcast and stop, one listens, and each accepted connection has a     *)
(* worker.  m_clientsMutex guards the LIST of descriptors and not the      *)
(* descriptors: a worker closes its own without taking it off the list,    *)
(* broadcast closes those it cannot send to, and the kernel gives a number *)
(* that was closed to the next connection it accepts.                      *)
(***************************************************************************)
EXTENDS Integers, Sequences, SequencesExt

CONSTANTS
    Conns,      \* the connections frontends open; each is opened once
    Numbers,    \* descriptor numbers the kernel may give to them
    None,
    Buf         \* messages a frontend may leave unread before send blocks

ASSUME ServerAssumption ==
    /\ Numbers \subseteq Nat \ {0}
    /\ None \notin Conns
    /\ Buf \in Nat \ {0}

VARIABLES
    alive,      \* the server object exists
    running,    \* m_running
    clients,    \* m_clientSockets
    lock,       \* the owner of the server holds m_clientsMutex
    joinable,   \* m_listenThread is a thread, not yet joined or detached
    number,     \* the kernel's table: the connection a number stands for
    api, todo, active, sending,   \* the owner, inside broadcast or stop
    lpc, lconn, \* the listening thread, and the connection it has accepted
    sock,       \* the number accept gave for a connection, 0 before
    wpc, reads, \* its worker, and the connection its recv is waiting on
    peer,       \* a connection as its frontend sees it
    inbox,      \* messages sent to it and not read
    fresh,      \* history: nobody else had its number in hand at accept
    reached     \* history: connections this broadcast has sent to

owner    == <<api, todo, active, sending, reached>>
listener == <<lpc, lconn, sock, fresh>>
workers  == <<wpc, reads>>
network  == <<peer, inbox>>
svars    == <<alive, running, clients, lock, joinable, number, owner, listener,
              workers, network>>

ServerInit ==
    /\ alive = FALSE /\ running = FALSE /\ joinable = FALSE
    /\ clients = <<>> /\ lock = FALSE
    /\ number = [n \in Numbers |-> None]
    /\ api = "out" /\ todo = <<>> /\ active = <<>> /\ sending = None
    /\ lpc = "none" /\ lconn = None
    /\ sock = [c \in Conns |-> 0]
    /\ wpc = [c \in Conns |-> "none"]
    /\ reads = [c \in Conns |-> None]
    /\ peer = [c \in Conns |-> "new"]
    /\ inbox = [c \in Conns |-> 0]
    /\ fresh = [c \in Conns |-> FALSE]
    /\ reached = {}

CloseNumber(n) == number' = [number EXCEPT ![n] = None]

-----------------------------------------------------------------------------
(* start, broadcast and stop, called by the owner *)

Start ==
    /\ ~alive
    /\ alive' = TRUE /\ running' = TRUE /\ joinable' = TRUE
    /\ lpc' = "bind"
    /\ UNCHANGED <<clients, lock, number, owner, lconn, sock, fresh, workers, network>>

\* broadcast locks the mutex and goes through the list.
BLock ==
    /\ api = "out" /\ ~lock
    /\ lock' = TRUE
    /\ api' = "next"
    /\ todo' = clients
    /\ UNCHANGED <<alive, running, clients, joinable, number, active, sending,
                   reached, listener, workers, network>>

\* send looks its number up.
BSend ==
    /\ api = "next" /\ todo # <<>>
    /\ sending' = number[Head(todo)]
    /\ api' = "send"
    /\ UNCHANGED <<alive, running, clients, lock, joinable, number, todo, active,
                   reached, listener, workers, network>>

\* Mutant: a frontend that is slow to read counts as gone.
Fails_WhenFull(c) == c # None => peer[c] = "closed" \/ inbox[c] = Buf

\* A number without a connection, or a connection whose frontend is gone.
Fails(c) == c # None => peer[c] = "closed"

\* Mutant: a send that never waits, however much is unread.
Takes_Always(c) == c # None

\* send waits while the frontend leaves Buf messages unread; what is sent to
\* one that has just closed is taken too.
Takes(c) == c # None /\ (peer[c] = "open" => inbox[c] < Buf)

\* The message is on its way; the mutex has been locked all the while.
BSent ==
    /\ api = "send" /\ Takes(sending)
    /\ inbox' = IF peer[sending] = "open" THEN [inbox EXCEPT ![sending] = @ + 1]
                                          ELSE inbox
    /\ active' = Append(active, Head(todo))
    /\ reached' = reached \cup {sending}
    /\ todo' = Tail(todo)
    /\ sending' = None
    /\ api' = "next"
    /\ UNCHANGED <<alive, running, clients, lock, joinable, number, listener, workers,
                   peer>>

BFailed ==
    /\ api = "send" /\ Fails(sending)
    /\ api' = "drop"
    /\ sending' = None
    /\ UNCHANGED <<alive, running, clients, lock, joinable, number, todo, active,
                   reached, listener, workers, network>>

\* send is called without MSG_NOSIGNAL: when the reset of a connection has been
\* reported already, the next send raises SIGPIPE, which nothing handles.
BKilled ==
    /\ api = "send" /\ sending # None /\ peer[sending] = "closed"
    /\ alive' = FALSE
    /\ UNCHANGED <<running, clients, lock, joinable, number, owner, listener, workers,
                   network>>

\* Mutant: the first frontend that is gone ends the broadcast.
AfterDrop_Return == <<>>

AfterDrop == Tail(todo)

\* The number that failed is closed, whatever it stands for by now.
BDrop ==
    /\ api = "drop"
    /\ CloseNumber(Head(todo))
    /\ todo' = AfterDrop
    /\ api' = "next"
    /\ UNCHANGED <<alive, running, clients, lock, joinable, active, sending, reached,
                   listener, workers, network>>

\* Mutant: the mutex stays locked when a frontend was dropped.
LockAfter_Kept == clients # active

LockAfter == FALSE

BEnd ==
    /\ api = "next" /\ todo = <<>>
    /\ clients' = active
    /\ lock' = LockAfter
    /\ api' = "out"
    /\ active' = <<>> /\ reached' = {}
    /\ UNCHANGED <<alive, running, joinable, number, todo, sending, listener, workers,
                   network>>

Broadcasting == BSend \/ BSent \/ BFailed \/ BDrop \/ BEnd

\* stop does nothing when m_running is false already, not even detach.
SReturn ==
    /\ api = "out" /\ ~running
    /\ UNCHANGED svars

SFlag ==
    /\ api = "out" /\ running
    /\ running' = FALSE
    /\ api' = "lock"
    /\ UNCHANGED <<alive, clients, lock, joinable, number, todo, active, sending,
                   reached, listener, workers, network>>

SLock ==
    /\ api = "lock" /\ ~lock
    /\ lock' = TRUE
    /\ todo' = clients
    /\ api' = "shut"
    /\ UNCHANGED <<alive, running, clients, joinable, number, active, sending,
                   reached, listener, workers, network>>

SClose ==
    /\ api = "shut" /\ todo # <<>>
    /\ CloseNumber(Head(todo))
    /\ todo' = Tail(todo)
    /\ UNCHANGED <<alive, running, clients, lock, joinable, api, active, sending,
                   reached, listener, workers, network>>

SEnd ==
    /\ api = "shut" /\ todo = <<>>
    /\ clients' = <<>>
    /\ lock' = FALSE
    /\ joinable' = FALSE
    /\ api' = "out"
    /\ UNCHANGED <<alive, running, number, todo, active, sending, reached, listener,
                   workers, network>>

-----------------------------------------------------------------------------
(* listenLoop, on its own thread *)

\* socket, bind and listen; when one fails nobody is told but m_running, which
\* is looked at before the first accept.
LBind(ok) ==
    /\ alive /\ lpc = "bind"
    /\ lpc' = IF ok /\ running THEN "accept" ELSE "over"
    /\ running' = (ok /\ running)
    /\ UNCHANGED <<alive, clients, lock, joinable, number, owner, lconn, sock, fresh,
                   workers, network>>

Free == {n \in Numbers : number[n] = None}

\* Who else may still use number n: the list, and earlier owners' workers.
InHand(n) ==
    \/ n \in ToSet(clients) \cup ToSet(todo)
    \/ \E d \in Conns : sock[d] = n /\ wpc[d] # "over"

\* accept gives the lowest free number.
LAccept(c) ==
    /\ alive /\ lpc = "accept"
    /\ peer[c] # "new" /\ sock[c] = 0
    /\ \E n \in Free :
           /\ \A k \in Free : n <= k
           /\ number' = [number EXCEPT ![n] = c]
           /\ sock' = [sock EXCEPT ![c] = n]
           /\ fresh' = [fresh EXCEPT ![c] = ~InHand(n)]
    /\ lconn' = c
    /\ lpc' = "push"
    /\ UNCHANGED <<alive, running, clients, lock, joinable, owner, workers, network>>

LPush ==
    /\ alive /\ lpc = "push" /\ ~lock
    /\ clients' = Append(clients, sock[lconn])
    /\ lpc' = "spawn"
    /\ UNCHANGED <<alive, running, lock, joinable, number, owner, lconn, sock, fresh,
                   workers, network>>

\* The worker runs detached, and m_running is looked at before the next accept.
LSpawn ==
    /\ alive /\ lpc = "spawn"
    /\ wpc' = [wpc EXCEPT ![lconn] = "recv"]
    /\ lconn' = None
    /\ lpc' = IF running THEN "accept" ELSE "over"
    /\ UNCHANGED <<alive, running, clients, lock, joinable, number, owner, sock,
                   fresh, reads, network>>

Listening == (\E c \in Conns : LAccept(c)) \/ LPush \/ LSpawn

-----------------------------------------------------------------------------
(* clientWorker of connection c, on a thread of its own *)

WStep(c, from, to) ==
    /\ alive /\ wpc[c] = from
    /\ wpc' = [wpc EXCEPT ![c] = to]

\* The first recv of a message looks its number up.
WRecv(c) ==
    /\ WStep(c, "recv", IF running /\ number[sock[c]] # None THEN "length" ELSE "close")
    /\ reads' = [reads EXCEPT ![c] = number[sock[c]]]
    /\ UNCHANGED <<alive, running, clients, lock, joinable, number, owner, listener,
                   network>>

\* A length has come, maybe before its sender closed.  One over 10 MiB ends the
\* worker, and so does zero, for which the second recv returns 0.
WLength(c, fits) ==
    /\ WStep(c, "length", IF fits THEN "body" ELSE "close")
    /\ UNCHANGED <<alive, running, clients, lock, joinable, number, owner, listener,
                   reads, network>>

\* The second recv looks the number up once more.
WBody(c) ==
    /\ WStep(c, "body", IF number[sock[c]] # None THEN "payload" ELSE "close")
    /\ reads' = [reads EXCEPT ![c] = number[sock[c]]]
    /\ UNCHANGED <<alive, running, clients, lock, joinable, number, owner, listener,
                   network>>

\* The payload has come, or the part of it that did before its sender closed,
\* and m_callback has been called.
WMessage(c) ==
    /\ WStep(c, "payload", "recv")
    /\ UNCHANGED <<alive, running, clients, lock, joinable, number, owner, listener,
                   reads, network>>

\* Either recv returns at the end of the connection it waits on.
WEnd(c) ==
    /\ WStep(c, "length", "close") \/ WStep(c, "payload", "close")
    /\ peer[reads[c]] = "closed"
    /\ UNCHANGED <<alive, running, clients, lock, joinable, number, owner, listener,
                   reads, network>>

\* The number is closed and stays on the list.
WClose(c) ==
    /\ WStep(c, "close", "over")
    /\ CloseNumber(sock[c])
    /\ reads' = [reads EXCEPT ![c] = None]
    /\ UNCHANGED <<alive, running, clients, lock, joinable, owner, listener, network>>

Receiving(c) ==
    \/ WRecv(c) \/ WBody(c) \/ WMessage(c) \/ WEnd(c)
    \/ \E fits \in BOOLEAN : WLength(c, fits)

Working(c) == Receiving(c) \/ WClose(c)

-----------------------------------------------------------------------------
(* Frontends *)

\* The kernel completes a connection whether or not accept is being called.
FConnect(c) ==
    /\ alive /\ lpc \in {"accept", "push", "spawn"}
    /\ peer[c] = "new"
    /\ peer' = [peer EXCEPT ![c] = "open"]
    /\ UNCHANGED <<alive, running, clients, lock, joinable, number, owner, listener,
                   workers, inbox>>

FRead(c) ==
    /\ alive /\ peer[c] = "open" /\ inbox[c] > 0
    /\ inbox' = [inbox EXCEPT ![c] = @ - 1]
    /\ UNCHANGED <<alive, running, clients, lock, joinable, number, owner, listener,
                   workers, peer>>

FClose(c) ==
    /\ alive /\ peer[c] = "open"
    /\ peer' = [peer EXCEPT ![c] = "closed"]
    /\ inbox' = [inbox EXCEPT ![c] = 0]
    /\ UNCHANGED <<alive, running, clients, lock, joinable, number, owner, listener,
                   workers>>

-----------------------------------------------------------------------------
Registered(c) == sock[c] # 0 /\ ~(lconn = c /\ lpc = "push")
HasOwn(c)     == sock[c] # 0 /\ number[sock[c]] = c

TypeOK ==
    /\ {alive, running, lock, joinable} \subseteq BOOLEAN
    /\ clients \in Seq(Numbers) /\ todo \in Seq(Numbers) /\ active \in Seq(Numbers)
    /\ number \in [Numbers -> Conns \cup {None}]
    /\ api \in {"out", "next", "send", "drop", "lock", "shut"}
    /\ lpc \in {"none", "bind", "accept", "push", "spawn", "over"}
    /\ sending \in Conns \cup {None} /\ lconn \in Conns \cup {None}
    /\ sock \in [Conns -> Numbers \cup {0}]
    /\ wpc \in [Conns -> {"none", "recv", "length", "body", "payload", "close",
                         "over"}]
    /\ reads \in [Conns -> Conns \cup {None}]
    /\ peer \in [Conns -> {"new", "open", "closed"}]
    /\ inbox \in [Conns -> 0 .. Buf]
    /\ fresh \in [Conns -> BOOLEAN] /\ reached \subseteq Conns

\* "Broadcast message to all connected clients" (control_socket.h): when a
\* broadcast ends, every registered connection that is still up and still has
\* its number has been sent the message, whatever was closed, dropped, given
\* out again or listed twice meanwhile.
TelemetryReachesAll ==
    api = "next" /\ todo = <<>> =>
        \A c \in Conns :
            Registered(c) /\ HasOwn(c) /\ peer[c] = "open" => c \in reached

\* Only the second life of a number can harm a frontend: a connection whose
\* number nobody else had in hand when it was accepted stays up until its
\* frontend closes it, its own worker refuses a message, or the server stops.
FreshKept ==
    running => \A c \in Conns :
        fresh[c] /\ peer[c] = "open" /\ wpc[c] \notin {"close", "over"} => HasOwn(c)

\* Every frontend that connects gets a worker, or closes, or the server stops:
\* broadcast holds the mutex over a blocking send, but gives it back.
EveryClientServed ==
    \A c \in Conns :
        peer[c] = "open" ~> wpc[c] # "none" \/ peer[c] = "closed" \/ ~running \/ ~alive
=============================================================================

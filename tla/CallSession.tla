----------------------------- MODULE CallSession ----------------------------
(***************************************************************************)
(* The frontend's side of a call: the button, timer and status of          *)
(* call_screen.dart, the two sockets of ipc_client.dart and the capture of *)
(* audio_service.dart.                                                     *)
(*                                                                         *)
(* All of it runs on one thread, one callback after the other; a step is a *)
(* callback with the continuations it completes.  What makes it hard is    *)
(* the order of the callbacks: a connect that is under way is never        *)
(* cancelled, neither is the timer of a hang-up, and a socket that has     *)
(* been replaced stays open and still reports its end.                     *)
(***************************************************************************)
EXTENDS Integers, Sequences

CONSTANTS
    Pairs,      \* language pairs of the settings screen
    Pair0,      \* the one the screen starts with
    MaxCalls,   \* BOUND: calls started in a behaviour
    MaxSaves    \* BOUND: settings saved in a behaviour

ASSUME CallAssumption ==
    /\ Pair0 \in Pairs
    /\ MaxCalls \in Nat /\ MaxSaves \in Nat

Engine == {"trans", "proc"}    \* the servers on ports 9200 and 9201
Call   == 1 .. MaxCalls

VARIABLES
    \* _CallScreenState
    status,     \* CallStatus; `error' is never set
    timers,     \* 500 ms timers that have not fired
    pair,       \* the languages of CallSessionConfig, as the screen shows them
    saves,      \* settings saved so far
    \* IpcClient
    connects,   \* per call of connect(): the await it is in, or "done"
    sock,       \* _transSocket and _procSocket: the call they are of, 0 for null
    connected,  \* _isTransConnected, _isProcConnected
    open,       \* the sockets that are open, per engine
    closing,    \* those whose end is there to be reported
    erring,     \* those of them that have an error to report before
    told,       \* per call: languages last sent on its processing socket, if any
    \* AudioService
    capturing,
    \* history
    hurried     \* the user has tapped before a connect or a timer was over

screen == <<status, timers, pair, saves>>
client == <<connects, sock, connected, open, closing, erring, told>>
vars   == <<screen, client, capturing, hurried>>

Pending == {c \in DOMAIN connects : connects[c] # "done"}

Init ==
    /\ status = "idle"
    /\ timers = 0
    /\ pair = Pair0
    /\ saves = 0
    /\ connects = <<>>
    /\ sock = [e \in Engine |-> 0]
    /\ connected = [e \in Engine |-> FALSE]
    /\ open = [e \in Engine |-> {}]
    /\ closing = [e \in Engine |-> {}]
    /\ erring = [e \in Engine |-> {}]
    /\ told = [c \in Call |-> {}]
    /\ capturing = FALSE
    /\ hurried = FALSE

-----------------------------------------------------------------------------
(* The button: _toggleCall *)

InCall == status \in {"connected", "connecting"}

\* Nothing the user began is still to come to its end.
Settled == timers = 0 /\ Pending = {}

Tap == hurried' = IF Settled THEN hurried ELSE TRUE

\* Mutant: the capture goes on until the timer fires.
CaptureAfterHangUp_Kept == capturing

CaptureAfterHangUp == FALSE

HangUp ==
    /\ InCall
    /\ Tap
    /\ status' = "ended"
    /\ capturing' = CaptureAfterHangUp
    /\ timers' = timers + 1
    /\ UNCHANGED <<pair, saves, client>>

\* connect() runs up to its first await.
Dial ==
    /\ ~InCall
    /\ Tap
    /\ Len(connects) < MaxCalls
    /\ status' = "connecting"
    /\ connects' = Append(connects, "trans")
    /\ UNCHANGED <<timers, pair, saves, sock, connected, open, closing, erring, told,
                   capturing>>

\* Mutant: the timer leaves the status alone.
StatusAfterTimer_Kept == status

StatusAfterTimer == "idle"

\* Whatever the status has become in the meantime.
TimerFires ==
    /\ timers > 0
    /\ timers' = timers - 1
    /\ status' = StatusAfterTimer
    /\ UNCHANGED <<pair, saves, client, capturing, hurried>>

-----------------------------------------------------------------------------
(* connect(): each Socket.connect answers or fails within two seconds *)

\* The socket of call c replaces the one before, which stays open.
Installs(c, e) ==
    /\ sock' = [sock EXCEPT ![e] = c]
    /\ connected' = [connected EXCEPT ![e] = TRUE]
    /\ open' = [open EXCEPT ![e] = @ \cup {c}]

Fails == UNCHANGED <<sock, connected, open>>

TransAnswers(c, ok) ==
    /\ c \in Pending
    /\ connects[c] = "trans"
    /\ IF ok THEN Installs(c, "trans") ELSE Fails
    /\ connects' = [connects EXCEPT ![c] = "proc"]
    /\ UNCHANGED <<screen, closing, erring, told, capturing, hurried>>

\* Mutant: the session's languages go to the socket before.
InitSocket_Before(c, ok) == sock["proc"]

\* sendSessionInit writes to what _procSocket is by then, null or of an
\* earlier call when this one has failed.
InitSocket(c, ok) == IF ok THEN c ELSE sock["proc"]

\* A message with languages p is sent on the processing socket of call c.
Tells(c, p) == told' = IF c = 0 THEN told ELSE [told EXCEPT ![c] = {p}]

\* Mutants: a call that reached no engine is not shown as connected, or is
\* shown as an error; only one that reached the engine captures.
StatusAnswered_Ok(ok)    == IF ok THEN "connected" ELSE status
StatusAnswered_Error(ok) == IF ok THEN "connected" ELSE "error"
CaptureAnswered_Ok(ok) == IF ok THEN TRUE ELSE capturing

StatusAnswered(ok)  == "connected"
CaptureAnswered(ok) == TRUE

\* The second answer completes connect(), and _toggleCall goes on: the
\* session's languages are sent and the capture started, whatever the
\* status is by then and whether or not an engine was reached.
ProcAnswers(c, ok) ==
    /\ c \in Pending
    /\ connects[c] = "proc"
    /\ IF ok THEN Installs(c, "proc") ELSE Fails
    /\ connects' = [connects EXCEPT ![c] = "done"]
    /\ Tells(InitSocket(c, ok), pair)
    /\ capturing' = CaptureAnswered(ok)
    /\ status' = StatusAnswered(ok)
    /\ UNCHANGED <<timers, pair, saves, closing, erring, hurried>>

Answers(c) == \E ok \in BOOLEAN : TransAnswers(c, ok) \/ ProcAnswers(c, ok)

-----------------------------------------------------------------------------
(* The ends of sockets *)

\* The connection ends at the engine's side, with a reset (error) or without.
PeerCloses(e, c, error) ==
    /\ c \in open[e] \ closing[e]
    /\ closing' = [closing EXCEPT ![e] = @ \cup {c}]
    /\ erring' = IF error THEN [erring EXCEPT ![e] = @ \cup {c}] ELSE erring
    /\ UNCHANGED <<screen, connects, sock, connected, open, told, capturing, hurried>>

\* The transmission engine's worker or its stop closes the connection.
TransCloses(c, error) == PeerCloses("trans", c, error)

\* The processing engine's handler does.
ProcCloses(c, error) == PeerCloses("proc", c, error)

\* Mutant: the end of a socket is not noticed.
ConnectedAfterDone_Kept(e) == connected[e]

ConnectedAfterDone(e) == FALSE

\* onError and onDone ask for the engine, not for the socket.
Reported(e, c) ==
    /\ open' = [open EXCEPT ![e] = @ \ {c}]
    /\ connected' = [connected EXCEPT ![e] = ConnectedAfterDone(e)]
    /\ UNCHANGED <<screen, connects, sock, told, capturing, hurried>>

OnError(e, c) ==
    /\ c \in erring[e]
    /\ erring' = [erring EXCEPT ![e] = @ \ {c}]
    /\ Reported(e, c)
    /\ UNCHANGED closing

\* It is called after an error too, maybe with a new socket in use by then.
OnDone(e, c) ==
    /\ c \in closing[e] \ erring[e]
    /\ closing' = [closing EXCEPT ![e] = @ \ {c}]
    /\ Reported(e, c)
    /\ UNCHANGED erring

-----------------------------------------------------------------------------
(* The settings screen *)

\* onConfigChanged: shown at once, and sent on the processing socket there is.
SaveSettings(new) ==
    /\ saves < MaxSaves
    /\ new # pair
    /\ saves' = saves + 1
    /\ pair' = new
    /\ Tells(sock["proc"], new)
    /\ UNCHANGED <<status, timers, connects, sock, connected, open, closing,
                   erring, capturing, hurried>>

-----------------------------------------------------------------------------
Next ==
    \/ HangUp
    \/ Dial
    \/ TimerFires
    \/ \E c \in Call : Answers(c)
    \/ \E c \in Call, error \in BOOLEAN : TransCloses(c, error) \/ ProcCloses(c, error)
    \/ \E e \in Engine, c \in Call : OnError(e, c) \/ OnDone(e, c)
    \/ \E new \in Pairs : SaveSettings(new)

Spec == Init /\ [][Next]_vars

\* Timers fire, and Socket.connect has a timeout: the event loop gets to them.
FairSpec ==
    Spec /\ WF_vars(TimerFires) /\ \A c \in Call : WF_vars(Answers(c))

-----------------------------------------------------------------------------
(* The type invariant *)
TypeOK ==
    /\ status \in {"idle", "connecting", "connected", "ended"}
    /\ timers \in Nat
    /\ pair \in Pairs
    /\ connects \in Seq({"trans", "proc", "done"})
    /\ Len(connects) <= MaxCalls
    /\ sock \in [Engine -> 0 .. Len(connects)]
    /\ connected \in [Engine -> BOOLEAN]
    /\ open \in [Engine -> SUBSET DOMAIN connects]
    /\ closing \in [Engine -> SUBSET DOMAIN connects]
    /\ erring \in [Engine -> SUBSET DOMAIN connects]
    /\ \A e \in Engine : erring[e] \subseteq closing[e] \cap open[e]
    /\ told \in [Call -> SUBSET Pairs]
    /\ capturing \in BOOLEAN /\ hurried \in BOOLEAN

(***************************************************************************)
(* Safety                                                                  *)
(***************************************************************************)

\* However the user taps, "connecting" is never shown with nothing to wait
\* for: the newest connect() is still to complete.  (It may be completed on
\* screen by an older one, and interrupted by a timer of an older call.)
ConnectingIsPending ==
    status = "connecting" => Len(connects) \in Pending

\* A call that is shown as live is captured, in whatever order hang-ups, late
\* connects and timers come.  The converse fails: see StandbyIsQuiet.
LiveIsCaptured == status = "connected" => capturing

\* A connection that is shown as up is the one messages are written to, and
\* nobody has reported its end: an end that is reported late, for a socket
\* that has been replaced, can only make a flag too pessimistic.
ConnectedIsOpen ==
    \A e \in Engine : connected[e] => sock[e] \in open[e]

\* The processing engine has been told the languages the screen shows, on the
\* socket in use, however connects and saved settings overlap.
LanguagesTold ==
    connected["proc"] => told[sock["proc"]] = {pair}

\* As long as the user waits for the connect and for the timer, capture is on
\* exactly while the call is shown as live.
CaptureFollowsCall == ~hurried => (capturing <=> status = "connected")

\* "STANDBY" in the metrics bar (call_screen.dart): after everything the user
\* began has come to its end, an idle screen does not record.
StandbyIsQuiet == status = "idle" /\ Settled => ~capturing

(***************************************************************************)
(* Liveness                                                                *)
(***************************************************************************)

\* The two passing states pass: no hang-up stays "ended" and no call stays
\* "connecting", whether or not an engine answers.
StatusSettles == status \in {"ended", "connecting"} ~> status \in {"idle", "connected"}
=============================================================================

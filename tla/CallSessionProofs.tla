-------------------------- MODULE CallSessionProofs -------------------------
(***************************************************************************)
(* What the call screen and the IPC client may be trusted for, for any     *)
(* number of calls, language pairs and saved settings.                     *)
(*                                                                         *)
(* Three of the invariants need nothing but the types.  That capture       *)
(* follows the call of a user who waits needs more: such a user never has  *)
(* two things pending at a time, and the status tells which (Unhurried).   *)
(***************************************************************************)
EXTENDS CallSession, SequenceTheorems, TLAPS

USE DEF StatusAnswered, CaptureAnswered, CaptureAfterHangUp, StatusAfterTimer,
        ConnectedAfterDone, InitSocket

\* A user who waits has at most one timer or one connect pending.
Unhurried ==
    ~hurried =>
        /\ capturing <=> status = "connected"
        /\ timers \in {0, 1}
        /\ timers = 1 => status = "ended" /\ Pending = {}
        /\ Pending # {} => status = "connecting"
        /\ \A c, d \in Pending : c = d

SessionInv ==
    /\ TypeOK
    /\ ConnectingIsPending
    /\ LiveIsCaptured
    /\ ConnectedIsOpen
    /\ LanguagesTold
    /\ Unhurried

-----------------------------------------------------------------------------
(* Types *)

\* Storing where a call of connect() is keeps the sequence of calls.
LEMMA Moved ==
    ASSUME TypeOK, NEW c \in Pending, NEW s \in {"proc", "done"},
           connects' = [connects EXCEPT ![c] = s]
    PROVE  /\ connects' \in Seq({"trans", "proc", "done"})
           /\ Len(connects') = Len(connects)
           /\ DOMAIN connects' = DOMAIN connects
           /\ c \in 1 .. Len(connects) /\ c \in Call
           /\ connects'[c] = s
           /\ \A d \in DOMAIN connects : d # c => connects'[d] = connects[d]
BY CallAssumption DEF TypeOK, Pending, Call

LEMMA Installed ==
    ASSUME TypeOK, NEW c \in 1 .. Len(connects), NEW e \in Engine, Installs(c, e)
    PROVE  /\ sock' \in [Engine -> 0 .. Len(connects)]
           /\ connected' \in [Engine -> BOOLEAN]
           /\ open' \in [Engine -> SUBSET (1 .. Len(connects))]
           /\ sock'[e] = c /\ c \in open'[e]
           /\ \A f \in Engine : open[f] \subseteq open'[f]
           /\ \A f \in Engine \ {e} :
                  sock'[f] = sock[f] /\ connected'[f] = connected[f]
BY DEF TypeOK, Installs, Engine

\* What the two answers of connect() leave of the sockets, installed or not.
LEMMA SocketTypes ==
    ASSUME TypeOK, NEW c \in 1 .. Len(connects), NEW e \in Engine,
           Installs(c, e) \/ Fails
    PROVE  /\ sock' \in [Engine -> 0 .. Len(connects)]
           /\ connected' \in [Engine -> BOOLEAN]
           /\ open' \in [Engine -> SUBSET (1 .. Len(connects))]
           /\ \A f \in Engine : open[f] \subseteq open'[f]
           /\ ConnectedIsOpen => ConnectedIsOpen'
<1>1. CASE Installs(c, e)
  BY <1>1, Installed DEF ConnectedIsOpen
<1>2. CASE Fails
  BY <1>2 DEF Fails, TypeOK, ConnectedIsOpen
<1> QED
  BY <1>1, <1>2

\* A message goes to the call of the socket, if there is one.
LEMMA Sent ==
    ASSUME TypeOK, NEW c \in 0 .. MaxCalls, NEW p \in Pairs, Tells(c, p)
    PROVE  /\ told' \in [Call -> SUBSET Pairs]
           /\ c # 0 => told'[c] = {p}
BY CallAssumption DEF TypeOK, Tells, Call

-----------------------------------------------------------------------------
(* Each step keeps the invariant *)

LEMMA InitInv == Init => SessionInv
<1> SUFFICES ASSUME Init PROVE SessionInv
  OBVIOUS
<1>1. Len(connects) = 0 /\ DOMAIN connects = {} /\ Pending = {}
  BY DEF Init, Pending
<1>2. TypeOK
  <2>1. /\ connects \in Seq({"trans", "proc", "done"}) /\ Len(connects) <= MaxCalls
        /\ timers \in Nat /\ pair \in Pairs
    BY <1>1, CallAssumption DEF Init
  <2>2. /\ sock \in [Engine -> 0 .. Len(connects)]
        /\ connected \in [Engine -> BOOLEAN]
        /\ told \in [Call -> SUBSET Pairs]
    BY <1>1 DEF Init
  <2>3. /\ open \in [Engine -> SUBSET DOMAIN connects]
        /\ closing \in [Engine -> SUBSET DOMAIN connects]
        /\ erring \in [Engine -> SUBSET DOMAIN connects]
        /\ \A e \in Engine : erring[e] \subseteq closing[e] \cap open[e]
    BY <1>1 DEF Init
  <2>4. /\ capturing \in BOOLEAN /\ hurried \in BOOLEAN
        /\ status \in {"idle", "connecting", "connected", "ended"}
    BY DEF Init
  <2> QED
    BY <2>1, <2>2, <2>3, <2>4 DEF TypeOK
<1> QED
  BY <1>1, <1>2 DEF Init, SessionInv, ConnectingIsPending, LiveIsCaptured,
     ConnectedIsOpen, LanguagesTold, Unhurried, Engine

LEMMA HangUpStep == SessionInv /\ HangUp => SessionInv'
<1> SUFFICES ASSUME SessionInv, HangUp PROVE SessionInv'
  OBVIOUS
<1> USE DEF SessionInv, HangUp, client
<1>1. TypeOK'
  <2>1. hurried' \in BOOLEAN
    <3>1. hurried \in BOOLEAN /\ (hurried' = hurried \/ hurried' = TRUE)
      BY DEF TypeOK, Tap
    <3> QED
      BY <3>1
  <2>2. timers' \in Nat
    BY DEF TypeOK
  <2>3. capturing' \in BOOLEAN
    OBVIOUS
  <2> QED
    BY <2>1, <2>2, <2>3 DEF TypeOK
<1>2. Pending' = Pending
  BY DEF Pending
<1>3. ConnectingIsPending' /\ LiveIsCaptured'
  BY DEF ConnectingIsPending, LiveIsCaptured
<1>4. ConnectedIsOpen' /\ LanguagesTold'
  BY DEF ConnectedIsOpen, LanguagesTold
<1>5. Unhurried'
  BY <1>2 DEF Unhurried, Tap, Settled, TypeOK
<1> QED
  BY <1>1, <1>3, <1>4, <1>5

LEMMA DialStep == SessionInv /\ Dial => SessionInv'
<1> SUFFICES ASSUME SessionInv, Dial PROVE SessionInv'
  OBVIOUS
<1> DEFINE new == Len(connects) + 1
<1>1. /\ connects \in Seq({"trans", "proc", "done"}) /\ Len(connects) \in Nat
      /\ connects' = Append(connects, "trans")
      /\ UNCHANGED <<timers, pair, saves, sock, connected, open, closing, erring, told,
                     capturing>>
  BY DEF SessionInv, TypeOK, Dial
<1>2. /\ connects' \in Seq({"trans", "proc", "done"})
      /\ Len(connects') = new
      /\ DOMAIN connects = 1 .. Len(connects) /\ DOMAIN connects' = 1 .. new
      /\ \A d \in 1 .. Len(connects) : connects'[d] = connects[d]
      /\ connects'[new] = "trans"
  BY <1>1
<1>3. Pending' = Pending \cup {new}
  BY <1>1, <1>2 DEF Pending
<1>4. TypeOK'
  <2>1. new <= MaxCalls
    BY <1>1, CallAssumption DEF Dial
  <2>2. /\ sock' \in [Engine -> 0 .. new]
        /\ open' \in [Engine -> SUBSET (1 .. new)]
        /\ closing' \in [Engine -> SUBSET (1 .. new)]
        /\ erring' \in [Engine -> SUBSET (1 .. new)]
    BY <1>1, <1>2 DEF SessionInv, TypeOK
  <2> QED
    BY <1>1, <1>2, <2>1, <2>2 DEF SessionInv, TypeOK, Dial, Tap
<1>5. ConnectingIsPending' /\ LiveIsCaptured'
  BY <1>2, <1>3 DEF ConnectingIsPending, LiveIsCaptured, Dial
<1>6. ConnectedIsOpen' /\ LanguagesTold'
  BY <1>1 DEF SessionInv, ConnectedIsOpen, LanguagesTold
<1>7. Unhurried'
  <2>1. ~hurried' => ~hurried /\ timers = 0 /\ Pending = {}
    BY DEF Dial, Tap, Settled, SessionInv, TypeOK
  <2> QED
    BY <1>1, <1>3, <2>1 DEF Unhurried, SessionInv, Dial, InCall
<1> QED
  BY <1>4, <1>5, <1>6, <1>7 DEF SessionInv

LEMMA TimerStep == SessionInv /\ TimerFires => SessionInv'
<1> SUFFICES ASSUME SessionInv, TimerFires PROVE SessionInv'
  OBVIOUS
<1> USE DEF SessionInv, TimerFires, client
<1>1. TypeOK'
  BY DEF TypeOK
<1>2. Pending' = Pending
  BY DEF Pending
<1>3. ConnectingIsPending' /\ LiveIsCaptured' /\ ConnectedIsOpen' /\ LanguagesTold'
  BY DEF ConnectingIsPending, LiveIsCaptured, ConnectedIsOpen, LanguagesTold
<1>4. Unhurried'
  BY <1>2 DEF Unhurried, TypeOK
<1> QED
  BY <1>1, <1>3, <1>4

LEMMA TransStep ==
    ASSUME SessionInv, NEW c \in Call, NEW ok \in BOOLEAN, TransAnswers(c, ok)
    PROVE  SessionInv'
<1>1. /\ TypeOK /\ c \in Pending
      /\ connects[c] = "trans"
      /\ connects' = [connects EXCEPT ![c] = "proc"]
      /\ Installs(c, "trans") \/ Fails
      /\ UNCHANGED <<status, timers, pair, saves, closing, erring, told, capturing,
                     hurried>>
  BY DEF SessionInv, TransAnswers, screen
<1>2. /\ connects' \in Seq({"trans", "proc", "done"})
      /\ Len(connects') = Len(connects)
      /\ DOMAIN connects' = DOMAIN connects
      /\ c \in 1 .. Len(connects)
      /\ connects'[c] = "proc"
      /\ \A d \in DOMAIN connects : d # c => connects'[d] = connects[d]
  BY <1>1, Moved
<1>3. Pending' = Pending
  BY <1>1, <1>2 DEF Pending
<1>4. /\ sock' \in [Engine -> 0 .. Len(connects)]
      /\ connected' \in [Engine -> BOOLEAN]
      /\ open' \in [Engine -> SUBSET (1 .. Len(connects))]
      /\ \A f \in Engine : open[f] \subseteq open'[f]
      /\ ConnectedIsOpen'
  BY <1>1, <1>2, SocketTypes DEF SessionInv, Engine
<1>5. TypeOK'
  BY <1>1, <1>2, <1>4 DEF TypeOK
<1>6. ConnectingIsPending' /\ LiveIsCaptured' /\ Unhurried'
  BY <1>1, <1>2, <1>3 DEF SessionInv, ConnectingIsPending, LiveIsCaptured, Unhurried
<1>7. LanguagesTold'
  <2>1. connected'["proc"] = connected["proc"] /\ sock'["proc"] = sock["proc"]
    BY <1>1 DEF TypeOK, Installs, Fails, Engine
  <2> QED
    BY <1>1, <2>1 DEF SessionInv, LanguagesTold
<1> QED
  BY <1>4, <1>5, <1>6, <1>7 DEF SessionInv

LEMMA ProcStep ==
    ASSUME SessionInv, NEW c \in Call, NEW ok \in BOOLEAN, ProcAnswers(c, ok)
    PROVE  SessionInv'
<1>1. /\ TypeOK /\ c \in Pending
      /\ connects' = [connects EXCEPT ![c] = "done"]
      /\ IF ok THEN Installs(c, "proc") ELSE Fails
      /\ Tells(IF ok THEN c ELSE sock["proc"], pair)
      /\ capturing' = TRUE /\ status' = "connected"
      /\ UNCHANGED <<timers, pair, saves, closing, erring, hurried>>
  BY DEF SessionInv, ProcAnswers
<1>2. /\ connects' \in Seq({"trans", "proc", "done"})
      /\ Len(connects') = Len(connects)
      /\ DOMAIN connects' = DOMAIN connects
      /\ c \in 1 .. Len(connects)
      /\ connects'[c] = "done"
      /\ \A d \in DOMAIN connects : d # c => connects'[d] = connects[d]
  BY <1>1, Moved
<1>3. Pending' = Pending \ {c}
  BY <1>1, <1>2 DEF Pending
<1>4. /\ sock' \in [Engine -> 0 .. Len(connects)]
      /\ connected' \in [Engine -> BOOLEAN]
      /\ open' \in [Engine -> SUBSET (1 .. Len(connects))]
      /\ \A f \in Engine : open[f] \subseteq open'[f]
      /\ ConnectedIsOpen'
  BY <1>1, <1>2, SocketTypes DEF SessionInv, Engine
<1> DEFINE s == IF ok THEN c ELSE sock["proc"]
<1>5. s \in 0 .. MaxCalls
  BY <1>1, <1>2, CallAssumption DEF TypeOK, Engine, Call
<1>6. told' \in [Call -> SUBSET Pairs] /\ (s # 0 => told'[s] = {pair})
  <2>1. pair \in Pairs /\ Tells(s, pair)
    BY <1>1 DEF TypeOK
  <2> QED
    BY <1>1, <1>5, <2>1, Sent
<1>7. TypeOK'
  <2>1. capturing' \in BOOLEAN /\ status' \in {"idle", "connecting", "connected", "ended"}
    BY <1>1
  <2>2. /\ closing' \in [Engine -> SUBSET DOMAIN connects']
        /\ erring' \in [Engine -> SUBSET DOMAIN connects']
        /\ \A e \in Engine : erring'[e] \subseteq closing'[e] \cap open'[e]
    BY <1>1, <1>2, <1>4 DEF TypeOK
  <2> QED
    BY <1>1, <1>2, <1>4, <1>6, <2>1, <2>2 DEF TypeOK
<1>8. ConnectingIsPending' /\ LiveIsCaptured'
  BY <1>1 DEF ConnectingIsPending, LiveIsCaptured
<1>9. Unhurried'
  <2>1. ~hurried' => timers = 0 /\ timers' = 0 /\ Pending' = {}
    BY <1>1, <1>3 DEF SessionInv, Unhurried
  <2> QED
    BY <1>1, <2>1 DEF Unhurried
<1>10. LanguagesTold'
  <2> SUFFICES ASSUME connected'["proc"] PROVE told'[sock'["proc"]] = {pair}
    BY <1>1 DEF LanguagesTold
  <2>1. sock'["proc"] = s
    BY <1>1 DEF TypeOK, Installs, Fails, Engine
  <2>2. s # 0
    BY <1>4, <2>1 DEF ConnectedIsOpen, Engine
  <2> QED
    BY <1>6, <2>1, <2>2
<1> QED
  BY <1>4, <1>7, <1>8, <1>9, <1>10 DEF SessionInv

LEMMA PeerClosesStep ==
    ASSUME SessionInv, NEW e \in Engine, NEW c \in Call, NEW error \in BOOLEAN,
           PeerCloses(e, c, error)
    PROVE  SessionInv'
<1>1. /\ c \in open[e]
      /\ closing' = [closing EXCEPT ![e] = @ \cup {c}]
      /\ erring' = IF error THEN [erring EXCEPT ![e] = @ \cup {c}] ELSE erring
      /\ UNCHANGED <<status, timers, pair, saves, connects, sock, connected, open,
                     told, capturing, hurried>>
  BY DEF PeerCloses, screen
<1>2. Pending' = Pending
  BY <1>1 DEF Pending
<1>3. TypeOK'
  <2>1. /\ closing' \in [Engine -> SUBSET DOMAIN connects]
        /\ erring' \in [Engine -> SUBSET DOMAIN connects]
        /\ \A f \in Engine : erring'[f] \subseteq closing'[f] \cap open[f]
    BY <1>1 DEF SessionInv, TypeOK
  <2> QED
    BY <1>1, <2>1 DEF SessionInv, TypeOK
<1> QED
  BY <1>1, <1>2, <1>3 DEF SessionInv, ConnectingIsPending, LiveIsCaptured,
     ConnectedIsOpen, LanguagesTold, Unhurried

LEMMA ReportedStep ==
    ASSUME SessionInv, NEW e \in Engine, NEW c \in Call, OnError(e, c) \/ OnDone(e, c)
    PROVE  SessionInv'
<1>1. /\ open' = [open EXCEPT ![e] = @ \ {c}]
      /\ connected' = [connected EXCEPT ![e] = FALSE]
      /\ UNCHANGED <<status, timers, pair, saves, connects, sock, told, capturing,
                     hurried>>
  BY DEF OnError, OnDone, Reported, screen
<1>2. Pending' = Pending
  BY <1>1 DEF Pending
<1>3. TypeOK'
  <2>0. /\ closing \in [Engine -> SUBSET DOMAIN connects]
        /\ open \in [Engine -> SUBSET DOMAIN connects]
        /\ connected \in [Engine -> BOOLEAN] /\ erring \in [Engine -> SUBSET DOMAIN connects]
        /\ \A f \in Engine : erring[f] \subseteq closing[f] \cap open[f]
    BY DEF SessionInv, TypeOK
  <2>1. /\ closing' \in [Engine -> SUBSET DOMAIN connects]
        /\ open' \in [Engine -> SUBSET DOMAIN connects]
        /\ connected' \in [Engine -> BOOLEAN] /\ erring' \in [Engine -> SUBSET DOMAIN connects]
        /\ \A f \in Engine : erring'[f] \subseteq closing'[f] \cap open'[f]
    <3>1. CASE OnError(e, c)
      <4>1. closing' = closing /\ erring' = [erring EXCEPT ![e] = @ \ {c}]
        BY <3>1 DEF OnError
      <4> QED
        BY <1>1, <2>0, <4>1
    <3>2. CASE OnDone(e, c)
      <4>1. /\ closing' = [closing EXCEPT ![e] = @ \ {c}] /\ erring' = erring
            /\ c \notin erring[e]
        BY <3>2 DEF OnDone
      <4> QED
        BY <1>1, <2>0, <4>1
    <3> QED
      BY <3>1, <3>2
  <2> QED
    BY <1>1, <2>1 DEF SessionInv, TypeOK
<1>4. \A f \in Engine :
          connected'[f] => connected[f] /\ f # e /\ open'[f] = open[f]
  BY <1>1 DEF SessionInv, TypeOK
<1>5. ConnectedIsOpen' /\ LanguagesTold'
  BY <1>1, <1>4 DEF SessionInv, ConnectedIsOpen, LanguagesTold, Engine
<1> QED
  BY <1>1, <1>2, <1>3, <1>5 DEF SessionInv, ConnectingIsPending, LiveIsCaptured,
     Unhurried

LEMMA SaveStep ==
    ASSUME SessionInv, NEW new \in Pairs, SaveSettings(new)
    PROVE  SessionInv'
<1>1. /\ TypeOK /\ pair' = new
      /\ Tells(sock["proc"], new)
      /\ UNCHANGED <<status, timers, connects, sock, connected, open, closing,
                     erring, capturing, hurried>>
  BY DEF SessionInv, SaveSettings
<1>2. sock["proc"] \in 0 .. Len(connects) /\ sock["proc"] \in 0 .. MaxCalls
  BY <1>1, CallAssumption DEF TypeOK, Engine
<1>3. /\ told' \in [Call -> SUBSET Pairs]
      /\ sock["proc"] # 0 => told'[sock["proc"]] = {new}
  BY <1>1, <1>2, Sent
<1>4. TypeOK'
  BY <1>1, <1>3 DEF TypeOK
<1>5. Pending' = Pending
  BY <1>1 DEF Pending
<1>6. LanguagesTold'
  <2>1. connected["proc"] => sock["proc"] # 0
    BY <1>1 DEF SessionInv, ConnectedIsOpen, TypeOK, Engine
  <2> QED
    BY <1>1, <1>3, <2>1 DEF LanguagesTold
<1> QED
  BY <1>1, <1>4, <1>5, <1>6 DEF SessionInv, ConnectingIsPending, LiveIsCaptured,
     ConnectedIsOpen, Unhurried

LEMMA NextInv == SessionInv /\ [Next]_vars => SessionInv'
<1> SUFFICES ASSUME SessionInv, [Next]_vars PROVE SessionInv'
  OBVIOUS
<1>1. CASE HangUp
  BY <1>1, HangUpStep
<1>2. CASE Dial
  BY <1>2, DialStep
<1>3. CASE TimerFires
  BY <1>3, TimerStep
<1>4. CASE \E c \in Call : Answers(c)
  BY <1>4, TransStep, ProcStep DEF Answers
<1>5. CASE \E c \in Call, error \in BOOLEAN :
               TransCloses(c, error) \/ ProcCloses(c, error)
  BY <1>5, PeerClosesStep DEF TransCloses, ProcCloses, Engine
<1>8. CASE \E e \in Engine, c \in Call : OnError(e, c) \/ OnDone(e, c)
  BY <1>8, ReportedStep
<1>6. CASE \E new \in Pairs : SaveSettings(new)
  BY <1>6, SaveStep
<1>7. CASE UNCHANGED vars
  <2>1. UNCHANGED <<status, timers, pair, saves, connects, sock, connected, open,
                    closing, erring, told, capturing, hurried>>
    BY <1>7 DEF vars, screen, client
  <2> QED
    BY <2>1 DEF SessionInv, TypeOK, ConnectingIsPending, LiveIsCaptured,
       ConnectedIsOpen, LanguagesTold, Unhurried, Pending
<1> QED
  BY <1>1, <1>2, <1>3, <1>4, <1>5, <1>6, <1>7, <1>8 DEF Next

-----------------------------------------------------------------------------
(* Theorems *)

\* All of the invariants below, and Unhurried, hold in every reachable state.
THEOREM SessionInvariant == Spec => []SessionInv
<1> QED
  BY InitInv, NextInv, PTL DEF Spec

\* Type correctness of the frontend's state.
THEOREM SessionTypes == Spec => []TypeOK
<1>1. SessionInv => TypeOK
  BY DEF SessionInv
<1> QED
  BY <1>1, SessionInvariant, PTL

\* A screen that shows "connecting" has its newest connect() pending.
THEOREM NeverStuckConnecting == Spec => []ConnectingIsPending
<1>1. SessionInv => ConnectingIsPending
  BY DEF SessionInv
<1> QED
  BY <1>1, SessionInvariant, PTL

\* A call that is shown as live is captured.
THEOREM LiveCaptured == Spec => []LiveIsCaptured
<1>1. SessionInv => LiveIsCaptured
  BY DEF SessionInv
<1> QED
  BY <1>1, SessionInvariant, PTL

\* A connection that is shown as up is open and the one in use.
THEOREM FlagsTrusted == Spec => []ConnectedIsOpen
<1>1. SessionInv => ConnectedIsOpen
  BY DEF SessionInv
<1> QED
  BY <1>1, SessionInvariant, PTL

\* The processing engine knows the languages the screen shows.
THEOREM LanguagesKnown == Spec => []LanguagesTold
<1>1. SessionInv => LanguagesTold
  BY DEF SessionInv
<1> QED
  BY <1>1, SessionInvariant, PTL

\* For a user who waits, capture is on exactly while the call is live.
THEOREM PatientCapture == Spec => []CaptureFollowsCall
<1>1. SessionInv => CaptureFollowsCall
  BY DEF SessionInv, Unhurried, CaptureFollowsCall
<1> QED
  BY <1>1, SessionInvariant, PTL
=============================================================================

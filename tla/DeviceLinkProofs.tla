-------------------------- MODULE DeviceLinkProofs --------------------------
(***************************************************************************)
(* The invariants of OcppClient, for any number of sockets, calls, retries *)
(* and connects, and of DeviceLink, for any number of boots, writes and    *)
(* crashes as well, and with connects that come too early.                 *)
(*                                                                         *)
(* The client's own invariant carries over to the link: every step of the  *)
(* link but a crash is a step of the client, or leaves the client alone.   *)
(***************************************************************************)
EXTENDS DeviceLink, TLAPS

\* What the client refers to is not closed.
RefersToLive == ws # NoSocket => ws \in Live

\* A handle that is not null is that of an armed timeout.
HandleIsArmed == reconnectTimer => timeouts > 0

\* Without an early connect: every live socket is the one referred to, the one armed
\* timeout is the handle's, and it is armed only while nothing is wanted of a socket.
Orderly ==
    /\ Live \subseteq {ws}
    /\ timeouts = IF reconnectTimer THEN 1 ELSE 0
    /\ reconnectTimer => Live = {} /\ ~manualClose
    /\ Live = {} => state = "disconnected"
    /\ state = "connected" => socket[ws] \in {"open", "closing"}
    /\ \A r \in Requests : pendingCalls[r] \in {ws, NoSocket}

IInv ==
    /\ TypeOK /\ RefersToLive /\ HandleIsArmed
    /\ NoCallOutlivesItsSocket /\ KeepsTrying
    /\ ~early => Orderly

\* A new client has no socket, call or timer.
LEMMA InitEstablishes == Init => IInv
<1> SUFFICES ASSUME Init PROVE IInv
  OBVIOUS
<1> USE NoSocketAssumption, MaxRetriesAssumption DEF Init
<1>1. TypeOK
  <2>1. reconnectAttempt \in 0..MaxRetries
    OBVIOUS
  <2>2. pendingCalls \in [Requests -> Sockets \cup {NoSocket}]
    BY DEF NoCalls
  <2> QED BY <2>1, <2>2 DEF TypeOK, States, ReadyStates
<1>2. Live = {} /\ ~reconnectTimer /\ timeouts = 0 /\ manualClose
  BY DEF Live
<1>3. \A r \in Requests : pendingCalls[r] = NoSocket
  BY DEF NoCalls
<1>4. RefersToLive /\ HandleIsArmed /\ NoCallOutlivesItsSocket /\ KeepsTrying
  BY <1>3 DEF RefersToLive, HandleIsArmed, NoCallOutlivesItsSocket, KeepsTrying
<1>5. Orderly
  BY <1>2, <1>3 DEF Orderly
<1> QED BY <1>1, <1>4, <1>5 DEF IInv

-----------------------------------------------------------------------------
(* One lemma per part of the invariant, one step per action *)

LEMMA TypesStep == TypeOK /\ HandleIsArmed /\ [Next]_vars => TypeOK' /\ HandleIsArmed'
<1> SUFFICES ASSUME TypeOK, HandleIsArmed, [Next]_vars PROVE TypeOK' /\ HandleIsArmed'
  OBVIOUS
<1> USE MaxRetriesAssumption DEF TypeOK, HandleIsArmed, States, ReadyStates
<1>0. ASSUME OpenSocket
      PROVE  socket' \in [Sockets -> ReadyStates] /\ ws' \in Sockets /\ state' \in States
  BY <1>0 DEF OpenSocket
<1>1. CASE Connect
  <2>1. connects' \in Nat /\ reconnectAttempt' \in 0..MaxRetries
    BY <1>1 DEF Connect
  <2>2. early' \in BOOLEAN /\ manualClose' \in BOOLEAN
    BY <1>1 DEF Connect
  <2> QED BY <1>0, <1>1, <2>1, <2>2 DEF Connect
<1>2. CASE Disconnect
  <2>1. ws # NoSocket /\ Busy => ws \in Sockets
    OBVIOUS
  <2>2. timeouts' \in Nat /\ reconnectTimer' = FALSE
    BY <1>2 DEF Disconnect, ClearReconnectTimer
  <2> QED BY <1>2, <2>1, <2>2 DEF Disconnect
<1>3. CASE Reconnect
  <2>1. timeouts' \in Nat /\ reconnectTimer' = FALSE
    BY <1>3 DEF Reconnect
  <2> QED BY <1>0, <1>3, <2>1 DEF Reconnect
<1>4. CASE \E r \in Requests : CallSent(r) \/ HandleAnswer(r) \/ SendFails(r) \/ CallTimesOut(r)
  BY <1>4 DEF CallSent, HandleAnswer, SendFails, CallTimesOut, Settle
<1>5. CASE \E s \in Sockets : HandleOpen(s) \/ PeerCloses(s)
  BY <1>5 DEF HandleOpen, PeerCloses
<1>6. CASE \E s \in Sockets : HandleClose(s)
  <2>1. /\ reconnectAttempt' \in 0..MaxRetries /\ timeouts' \in Nat
        /\ reconnectTimer' \in BOOLEAN
        /\ reconnectTimer' => timeouts' > 0
    <3>1. CASE ~manualClose /\ RetriesLeft
      BY <1>6, <3>1 DEF HandleClose, ScheduleReconnect, RetriesLeft
    <3>2. CASE ~(~manualClose /\ RetriesLeft)
      <4>1. UNCHANGED <<reconnectAttempt, reconnectTimer, timeouts>>
        BY <1>6, <3>2 DEF HandleClose, ScheduleReconnect
      <4> QED BY <4>1
    <3> QED BY <3>1, <3>2
  <2>2. pendingCalls' \in [Requests -> Sockets \cup {NoSocket}]
    BY <1>6 DEF HandleClose, RejectAllPending, NoCalls
  <2> QED BY <1>6, <2>1, <2>2 DEF HandleClose, Dropped
<1>7. CASE UNCHANGED vars
  BY <1>7 DEF vars
<1> QED BY <1>1, <1>2, <1>3, <1>4, <1>5, <1>6, <1>7 DEF Next

\* A pending call is on the socket referred to or on an older one; any close ends all
\* of them, so none is left on the one that closed.
LEMMA CallsStep ==
    TypeOK /\ RefersToLive /\ NoCallOutlivesItsSocket /\ [Next]_vars
        => RefersToLive' /\ NoCallOutlivesItsSocket'
<1> SUFFICES ASSUME TypeOK, RefersToLive, NoCallOutlivesItsSocket, [Next]_vars
             PROVE  RefersToLive' /\ NoCallOutlivesItsSocket'
  OBVIOUS
<1> USE NoSocketAssumption DEF TypeOK, RefersToLive, NoCallOutlivesItsSocket, Live
<1>1. ASSUME OpenSocket, UNCHANGED pendingCalls
      PROVE  RefersToLive' /\ NoCallOutlivesItsSocket'
  BY <1>1 DEF OpenSocket
<1>2. CASE Disconnect
  BY <1>2 DEF Disconnect
<1>3. CASE \E r \in Requests : CallSent(r)
  BY <1>3 DEF CallSent
<1>4. CASE \E r \in Requests : HandleAnswer(r) \/ SendFails(r) \/ CallTimesOut(r)
  BY <1>4 DEF HandleAnswer, SendFails, CallTimesOut, Settle
<1>5. CASE \E s \in Sockets : HandleOpen(s) \/ PeerCloses(s)
  BY <1>5 DEF HandleOpen, PeerCloses
<1>6. CASE \E s \in Sockets : HandleClose(s)
  BY <1>6 DEF HandleClose, Dropped, RejectAllPending, NoCalls
<1>7. CASE UNCHANGED vars
  BY <1>7 DEF vars
<1> QED BY <1>1, <1>2, <1>3, <1>4, <1>5, <1>6, <1>7 DEF Next, Connect, Reconnect

\* A wanted client without a connection keeps a reconnect ahead (scheduleReconnect).
LEMMA TryingStep == TypeOK /\ KeepsTrying /\ [Next]_vars => KeepsTrying'
<1> SUFFICES ASSUME TypeOK, KeepsTrying, [Next]_vars PROVE KeepsTrying'
  OBVIOUS
<1> USE MaxRetriesAssumption DEF TypeOK, KeepsTrying
<1>1. CASE Connect \/ Reconnect
  BY <1>1 DEF Connect, Reconnect, OpenSocket
<1>2. CASE Disconnect
  BY <1>2 DEF Disconnect
<1>3. CASE \E r \in Requests : CallSent(r) \/ HandleAnswer(r) \/ SendFails(r) \/ CallTimesOut(r)
  BY <1>3 DEF CallSent, HandleAnswer, SendFails, CallTimesOut, Settle
<1>4. CASE \E s \in Sockets : HandleOpen(s) \/ PeerCloses(s)
  BY <1>4 DEF HandleOpen, PeerCloses
<1>5. CASE \E s \in Sockets : HandleClose(s)
  BY <1>5 DEF HandleClose, Dropped, ScheduleReconnect, RetriesLeft
<1>6. CASE UNCHANGED vars
  BY <1>6 DEF vars
<1> QED BY <1>1, <1>2, <1>3, <1>4, <1>5, <1>6 DEF Next

\* Without a premature connect() a step keeps one connection and one timer.
LEMMA OrderStep == IInv /\ [Next]_vars /\ ~early' => Orderly'
<1> SUFFICES ASSUME IInv, [Next]_vars, ~early' PROVE Orderly'
  OBVIOUS
<1>e. ~early
  BY DEF IInv, TypeOK, Next, vars, Connect, Disconnect, Reconnect, CallSent, HandleAnswer,
    SendFails, CallTimesOut, Settle, HandleOpen, PeerCloses, HandleClose
<1>o. TypeOK /\ RefersToLive /\ Orderly
  BY <1>e DEF IInv
<1> USE NoSocketAssumption, <1>o DEF TypeOK, RefersToLive, Orderly, Live
<1>1. CASE Connect
  <2>1. ~TooEarly /\ state \in {"disconnected", "closing"}
    BY <1>1 DEF Connect, Busy, States
  <2>2. timeouts = 0 /\ Live = {} /\ ~reconnectTimer
    BY <2>1 DEF TooEarly
  <2>3. \A r \in Requests : pendingCalls[r] = NoSocket
    BY <2>2
  <2>4. PICK s \in Sockets : /\ socket' = [socket EXCEPT ![s] = "opening"]
                             /\ ws' = s /\ state' = "connecting"
    BY <1>1 DEF Connect, OpenSocket
  <2>5. Live' = {s}
    BY <2>2, <2>4
  <2> QED BY <1>1, <2>2, <2>3, <2>4, <2>5 DEF Connect
<1>2. CASE Disconnect
  BY <1>2 DEF Disconnect, ClearReconnectTimer, Busy
<1>3. CASE Reconnect
  BY <1>3 DEF Reconnect, OpenSocket
<1>4. CASE \E r \in Requests : CallSent(r)
  BY <1>4 DEF CallSent
<1>5. CASE \E r \in Requests : HandleAnswer(r) \/ SendFails(r) \/ CallTimesOut(r)
  BY <1>5 DEF HandleAnswer, SendFails, CallTimesOut, Settle
<1>6. CASE \E s \in Sockets : HandleOpen(s) \/ PeerCloses(s)
  BY <1>6 DEF HandleOpen, PeerCloses
<1>7. CASE \E s \in Sockets : HandleClose(s)
  BY <1>7 DEF HandleClose, Dropped, RejectAllPending, NoCalls, ScheduleReconnect
<1>8. CASE UNCHANGED vars
  BY <1>8 DEF vars
<1> QED BY <1>1, <1>2, <1>3, <1>4, <1>5, <1>6, <1>7, <1>8 DEF Next

\* The invariant of the client holds in every behaviour.
LEMMA Inductive == Spec => []IInv
<1>1. IInv /\ [Next]_vars => IInv'
  BY TypesStep, CallsStep, TryingStep, OrderStep DEF IInv
<1> QED BY InitEstablishes, <1>1, PTL DEF Spec

-----------------------------------------------------------------------------
(* The theorems *)

\* Every variable of the client keeps its type; the backoff counter stays within
\* maxRetries (scheduleReconnect).
THEOREM ClientTypeCorrect == Spec => []TypeOK
<1>1. IInv => TypeOK
  BY DEF IInv
<1> QED BY Inductive, <1>1, PTL

\* No caller waits for an answer on a closed socket (rejectAllPending), whoever
\* connects and disconnects when.
THEOREM CallsEndWithTheirSocket == Spec => []NoCallOutlivesItsSocket
<1>1. IInv => NoCallOutlivesItsSocket
  BY DEF IInv
<1> QED BY Inductive, <1>1, PTL

\* A wanted client without a connection has a reconnect ahead (scheduleReconnect),
\* whoever connects and disconnects when.
THEOREM ClientKeepsTrying == Spec => []KeepsTrying
<1>1. IInv => KeepsTrying
  BY DEF IInv
<1> QED BY Inductive, <1>1, PTL

\* What an orderly client guarantees its callers.
LEMMA InOrder == IInv => OneConnection /\ ConnectedCanCall /\ QuietAfterDisconnect
<1> SUFFICES ASSUME IInv, ~early
             PROVE  OneConnection /\ ConnectedCanCall /\ QuietAfterDisconnect
  BY DEF OneConnection, ConnectedCanCall, QuietAfterDisconnect
<1>1. TypeOK /\ Orderly
  BY DEF IInv
<1>2. OneConnection
  BY <1>1 DEF OneConnection, Orderly
<1>3. ConnectedCanCall
  BY <1>1, NoSocketAssumption DEF ConnectedCanCall, Orderly, Live, TypeOK
<1>4. QuietAfterDisconnect
  BY <1>1 DEF QuietAfterDisconnect, Orderly
<1> QED BY <1>2, <1>3, <1>4

\* As long as connect() is not called before the last connection is over, the client
\* has one socket or one reconnect ahead (connect and openSocket).
THEOREM OneConnectionAtATime == Spec => []OneConnection
BY Inductive, InOrder, PTL

\* Under the same condition a connected client sends on the open socket, and calls wait
\* on that one (call and handleOpen).
THEOREM ConnectedClientCanCall == Spec => []ConnectedCanCall
BY Inductive, InOrder, PTL

\* Under the same condition no reconnect is ahead of a client that was told to disconnect
\* (disconnect and clearReconnectTimer).
THEOREM DisconnectedClientIsQuiet == Spec => []QuietAfterDisconnect
BY Inductive, InOrder, PTL

(***************************************************************************)
(* The link: the client, its session and the registry                      *)
(***************************************************************************)
\* What the steps that leave the session alone do to the client.
SessionRests ==
    /\ UNCHANGED <<sessionVars, registered>>
    /\ UNCHANGED vars \/ Connect \/ Disconnect \/ Reconnect \/ \E s \in Sockets : PeerCloses(s)

BootAnswered(s) == BootAccepted(s) \/ BootPending(s) \/ BootRejected(s) \/ BootFails(s)

\* The steps of the link by what they do to the client and to the session.
LEMMA LinkCases ==
    ASSUME LinkNext
    PROVE  \/ SessionRests \/ DisposeInstance \/ Crash
           \/ \E s \in Sockets : LinkOpens(s) \/ LinkCloses(s) \/ BootAnswered(s)
           \/ BootRetryFires \/ TriggerBootNotification \/ SetConnectorStatus
<1>1. CASE StartInstance \/ StartWrites \/ Reconcile \/ ResetArrives
  BY <1>1 DEF StartInstance, StartWrites, Reconcile, ResetArrives, SessionRests
<1>2. CASE StartConnects \/ ResetReconnects
  BY <1>2 DEF StartConnects, ResetReconnects, ConnectClient, SessionRests
<1>3. CASE StopInstance \/ ResetDisconnects
  BY <1>3 DEF StopInstance, ResetDisconnects, StopClient, SessionRests
<1>4. CASE LinkRetries
  BY <1>4 DEF LinkRetries, SessionRests, entryVars
<1>5. CASE \E s \in Sockets : LinkPeerCloses(s)
  BY <1>5 DEF LinkPeerCloses, SessionRests, entryVars
<1>6. CASE \E s \in ConnectionStatuses : WriteLands(s)
  BY <1>6 DEF WriteLands, SessionRests, entryVars
<1>. QED
  BY <1>1, <1>2, <1>3, <1>4, <1>5, <1>6 DEF LinkNext, BootAnswered

\* A step of the link is a crash, a step of the client, or leaves the client alone.
LEMMA ClientMoves == LinkNext => Crash \/ [Next]_vars
<1>. SUFFICES ASSUME LinkNext PROVE Crash \/ [Next]_vars
  OBVIOUS
<1>1. CASE SessionRests
  BY <1>1 DEF SessionRests, Next
<1>2. CASE DisposeInstance
  BY <1>2 DEF DisposeInstance, StopClient, Next
<1>3. CASE \E s \in Sockets : LinkOpens(s) \/ LinkCloses(s)
  BY <1>3 DEF LinkOpens, LinkCloses, Next
<1>4. CASE \E s \in Sockets : BootAnswered(s)
  BY <1>4 DEF BootAnswered, BootAccepted, BootPending, BootRejected, BootFails
<1>5. CASE BootRetryFires \/ TriggerBootNotification \/ SetConnectorStatus
  BY <1>5 DEF BootRetryFires, TriggerBootNotification, SetConnectorStatus
<1>. QED
  BY LinkCases, <1>1, <1>2, <1>3, <1>4, <1>5

\* A crash leaves the client as it is at first, but for the bound on connects.
LEMMA ClientAfterCrash == TypeOK /\ Crash => IInv'
<1>. SUFFICES ASSUME TypeOK, Crash PROVE IInv'
  OBVIOUS
<1>. USE NoSocketAssumption, MaxRetriesAssumption DEF Crash
<1>1. TypeOK'
  <2>1. reconnectAttempt' \in 0..MaxRetries /\ timeouts' \in Nat
    OBVIOUS
  <2>2. pendingCalls' \in [Requests -> Sockets \cup {NoSocket}]
    BY DEF NoCalls
  <2>3. socket' \in [Sockets -> ReadyStates]
    BY DEF ReadyStates
  <2>4. manualClose' \in BOOLEAN /\ reconnectTimer' \in BOOLEAN /\ early' \in BOOLEAN
    OBVIOUS
  <2>5. state' \in States /\ ws' \in Sockets \cup {NoSocket} /\ connects' \in Nat
    BY DEF TypeOK, States
  <2>. QED
    BY <2>1, <2>2, <2>3, <2>4, <2>5 DEF TypeOK
<1>2. Live' = {} /\ ~reconnectTimer' /\ timeouts' = 0 /\ manualClose'
  BY DEF Live
<1>3. \A r \in Requests : pendingCalls'[r] = NoSocket
  BY DEF NoCalls
<1>4. RefersToLive' /\ HandleIsArmed' /\ NoCallOutlivesItsSocket' /\ KeepsTrying'
  BY <1>3 DEF RefersToLive, HandleIsArmed, NoCallOutlivesItsSocket, KeepsTrying
<1>5. Orderly'
  BY <1>2, <1>3 DEF Orderly
<1>. QED
  BY <1>1, <1>4, <1>5 DEF IInv

\* The client's invariant is the link's.
LEMMA ClientStep == IInv /\ [LinkNext]_linkVars => IInv'
<1>1. IInv /\ [Next]_vars => IInv'
  BY TypesStep, CallsStep, TryingStep, OrderStep DEF IInv
<1>2. IInv /\ Crash => IInv'
  BY ClientAfterCrash DEF IInv
<1>3. UNCHANGED linkVars => UNCHANGED vars
  BY DEF linkVars
<1>. QED
  BY <1>1, <1>2, <1>3, ClientMoves
-----------------------------------------------------------------------------
(* The boot session *)

BootsOK ==
    /\ boots \in [Sockets -> 0..MaxBoots]
    /\ \A s \in Sockets : boots[s] > 0 => socket[s] # "closed"

\* Only a close closes a socket.
LEMMA SocketsStay ==
    ASSUME TypeOK,
           UNCHANGED vars \/ Connect \/ Disconnect \/ Reconnect
              \/ \E s \in Sockets : HandleOpen(s) \/ PeerCloses(s)
    PROVE  \A s \in Sockets : socket[s] # "closed" => socket'[s] # "closed"
<1>. USE DEF TypeOK
<1>1. CASE UNCHANGED vars
  BY <1>1 DEF vars
<1>2. CASE Connect \/ Reconnect
  BY <1>2 DEF Connect, Reconnect, OpenSocket
<1>3. CASE Disconnect
  BY <1>3 DEF Disconnect
<1>4. CASE \E s \in Sockets : HandleOpen(s) \/ PeerCloses(s)
  BY <1>4 DEF HandleOpen, PeerCloses
<1>. QED
  BY <1>1, <1>2, <1>3, <1>4

\* A BootNotification goes out on the live socket that the client refers to, and another is
\* under way, or a retry is armed.
LEMMA BootSent ==
    ASSUME BootsOK, IInv', SendBootNotification,
           \A s \in Sockets : socket[s] # "closed" => socket'[s] # "closed"
    PROVE  BootsOK' /\ (registered => bootRetry' \/ boots' # NoBoots)
<1>1. CASE Sendable
  <2>1. /\ ws' \in Sockets /\ socket'[ws'] # "closed"
        /\ boots[ws'] < MaxBoots /\ boots' = [boots EXCEPT ![ws'] = @ + 1]
    BY <1>1, NoSocketAssumption DEF SendBootNotification, Sendable, IInv, TypeOK, RefersToLive, Live
  <2>. QED
    BY <2>1, MaxBootsAssumption DEF BootsOK, NoBoots
<1>2. CASE ~Sendable
  <2>1. boots' = boots
    BY <1>2 DEF SendBootNotification
  <2>2. registered => bootRetry'
    BY <1>2 DEF SendBootNotification, RetryBoot
  <2>. QED
    BY <2>1, <2>2 DEF BootsOK
<1>. QED
  BY <1>1, <1>2

\* Every BootNotification in flight is on a socket that is not closed.
LEMMA BootsStep ==
    ASSUME IInv, IInv', BootsOK, LinkNext
    PROVE  BootsOK'
<1>t. TypeOK
  BY DEF IInv
<1>1. CASE SessionRests
  <2>1. boots' = boots
    BY <1>1 DEF SessionRests, sessionVars
  <2>2. \A s \in Sockets : socket[s] # "closed" => socket'[s] # "closed"
    BY <1>t, <1>1, SocketsStay DEF SessionRests
  <2>. QED
    BY <2>1, <2>2 DEF BootsOK
<1>2. CASE DisposeInstance
  <2>1. boots' = boots
    BY <1>2 DEF DisposeInstance
  <2>2. \A s \in Sockets : socket[s] # "closed" => socket'[s] # "closed"
    BY <1>t, <1>2, SocketsStay DEF DisposeInstance, StopClient
  <2>. QED
    BY <2>1, <2>2 DEF BootsOK
<1>3. CASE Crash \/ \E s \in Sockets : LinkCloses(s)
  BY <1>3, MaxBootsAssumption DEF Crash, LinkCloses, BootsRejected, BootsOK, NoBoots
<1>4. ASSUME NEW s \in Sockets, LinkOpens(s)
      PROVE  BootsOK'
  <2>1. \A q \in Sockets : socket[q] # "closed" => socket'[q] # "closed"
    BY <1>t, <1>4, SocketsStay DEF LinkOpens
  <2>2. CASE SendBootNotification
    BY <2>1, <2>2, BootSent
  <2>3. CASE boots' = boots
    BY <2>1, <2>3 DEF BootsOK
  <2>. QED
    BY <1>4, <2>2, <2>3 DEF LinkOpens
<1>5. ASSUME NEW s \in Sockets, BootAnswered(s)
      PROVE  BootsOK'
  <2>1. socket' = socket /\ boots[s] > 0 /\ boots' = [boots EXCEPT ![s] = @ - 1]
    BY <1>5 DEF BootAnswered, BootAccepted, BootPending, BootRejected, BootFails, Answerable,
       BootInFlight, vars
  <2>. QED
    BY <2>1, MaxBootsAssumption DEF BootsOK
<1>6. CASE TriggerBootNotification
  <2>1. socket' = socket /\ SendBootNotification
    BY <1>6 DEF TriggerBootNotification, vars
  <2>. QED
    BY <2>1, BootSent
<1>7. CASE BootRetryFires
  <2>1. socket' = socket /\ ws' = ws
    BY <1>7 DEF BootRetryFires, vars
  <2>2. CASE Sendable
    <3>1. /\ ws \in Sockets /\ socket'[ws] # "closed"
          /\ boots[ws] < MaxBoots /\ boots' = [boots EXCEPT ![ws] = @ + 1]
      BY <1>7, <2>1, <2>2, NoSocketAssumption
      DEF BootRetryFires, Sendable, IInv, TypeOK, RefersToLive, Live
    <3>. QED
      BY <2>1, <3>1, MaxBootsAssumption DEF BootsOK
  <2>3. CASE ~Sendable
    BY <1>7, <2>1, <2>3 DEF BootRetryFires, BootsOK
  <2>. QED
    BY <2>2, <2>3
<1>8. CASE SetConnectorStatus
  BY <1>8 DEF SetConnectorStatus, BootsOK, vars
<1>. QED
  BY LinkCases, <1>1, <1>2, <1>3, <1>4, <1>5, <1>6, <1>7, <1>8

\* A step that leaves a connected station without acceptance asks again, or is about to.
LEMMA BootingStep ==
    ASSUME IInv, IInv', BootsOK, KeepsBooting, LinkNext
    PROVE  KeepsBooting'
<1>t. TypeOK
  BY DEF IInv
<1>1. CASE SessionRests
  <2>1. UNCHANGED <<bootStatus, bootRetry, boots, registered>>
    BY <1>1 DEF SessionRests, sessionVars
  <2>2. state' = "connected" => state = "connected"
    BY <1>1 DEF SessionRests, vars, Connect, Disconnect, Reconnect, OpenSocket, PeerCloses
  <2>. QED
    BY <2>1, <2>2 DEF KeepsBooting, NoBoots
<1>2. CASE DisposeInstance \/ Crash \/ \E s \in Sockets : LinkCloses(s)
  BY <1>2 DEF DisposeInstance, Crash, LinkCloses, HandleClose, Dropped, KeepsBooting
<1>3. ASSUME NEW s \in Sockets, LinkOpens(s)
      PROVE  KeepsBooting'
  <2>1. \A q \in Sockets : socket[q] # "closed" => socket'[q] # "closed"
    BY <1>t, <1>3, SocketsStay DEF LinkOpens
  <2>2. registered' = registered /\ bootStatus' = bootStatus
    BY <1>3 DEF LinkOpens, entryVars
  <2>3. CASE SendBootNotification
    BY <2>1, <2>2, <2>3, BootSent DEF KeepsBooting, NoBoots
  <2>4. CASE ~(socket'[s] = "open" /\ registered) /\ UNCHANGED <<boots, bootRetry>>
    <3>1. registered => state' = state
      BY <1>t, <1>3, <2>4 DEF LinkOpens, HandleOpen, TypeOK
    <3>. QED
      BY <2>2, <2>4, <3>1 DEF KeepsBooting, NoBoots
  <2>. QED
    BY <1>3, <2>3, <2>4 DEF LinkOpens
<1>4. ASSUME NEW s \in Sockets, BootAnswered(s)
      PROVE  KeepsBooting'
  BY <1>4 DEF BootAnswered, BootAccepted, BootPending, BootRejected, BootFails, RetryBoot,
     KeepsBooting, entryVars
<1>5. CASE TriggerBootNotification
  <2>1. socket' = socket /\ SendBootNotification /\ registered' = registered
    BY <1>5 DEF TriggerBootNotification, vars, entryVars
  <2>. QED
    BY <2>1, BootSent DEF KeepsBooting, NoBoots
<1>6. CASE BootRetryFires
  <2>1. socket' = socket /\ ws' = ws /\ registered' = registered
    BY <1>6 DEF BootRetryFires, vars, entryVars
  <2>2. CASE Sendable
    <3>1. ws \in Sockets /\ boots' = [boots EXCEPT ![ws] = @ + 1]
      BY <1>6, <2>1, <2>2, NoSocketAssumption DEF BootRetryFires, Sendable, IInv, TypeOK
    <3>2. boots'[ws] > 0
      BY <3>1 DEF BootsOK
    <3>3. NoBoots[ws] = 0
      BY <3>1 DEF NoBoots
    <3>4. boots' # NoBoots
      BY <3>2, <3>3
    <3>. QED
      BY <3>4 DEF KeepsBooting, NoBoots
  <2>3. CASE ~Sendable
    BY <1>6, <2>1, <2>3 DEF BootRetryFires, KeepsBooting
  <2>. QED
    BY <2>2, <2>3
<1>7. CASE SetConnectorStatus
  BY <1>7 DEF SetConnectorStatus, KeepsBooting, vars, entryVars, NoBoots
<1>. QED
  BY LinkCases, <1>1, <1>2, <1>3, <1>4, <1>5, <1>6, <1>7

\* The last close ends the registration, and no answer comes without a socket.
LEMMA RegistrationStep ==
    ASSUME IInv, BootsOK, RegistrationNeedsLink, LinkNext
    PROVE  RegistrationNeedsLink'
<1>t. TypeOK
  BY DEF IInv
<1>1. CASE SessionRests
  <2>1. UNCHANGED <<bootStatus, heartbeat, registered>>
    BY <1>1 DEF SessionRests, sessionVars
  <2>2. \A s \in Sockets : socket[s] # "closed" => socket'[s] # "closed"
    BY <1>t, <1>1, SocketsStay DEF SessionRests
  <2>. QED
    BY <2>1, <2>2 DEF RegistrationNeedsLink, Live
<1>2. CASE DisposeInstance \/ Crash
  BY <1>2 DEF DisposeInstance, Crash, RegistrationNeedsLink
<1>3. CASE \E s \in Sockets : LinkCloses(s)
  BY <1>3 DEF LinkCloses, SessionDisconnected, RegistrationNeedsLink
<1>4. ASSUME NEW s \in Sockets, LinkOpens(s)
      PROVE  RegistrationNeedsLink'
  BY <1>t, <1>4 DEF LinkOpens, HandleOpen, TypeOK, Live, RegistrationNeedsLink
<1>5. ASSUME NEW s \in Sockets, BootAnswered(s)
      PROVE  RegistrationNeedsLink'
  <2>1. socket' = socket /\ boots[s] > 0
    BY <1>5 DEF BootAnswered, BootAccepted, BootPending, BootRejected, BootFails, Answerable,
       BootInFlight, vars
  <2>. QED
    BY <2>1 DEF BootsOK, Live, RegistrationNeedsLink
<1>6. CASE BootRetryFires \/ TriggerBootNotification \/ SetConnectorStatus
  BY <1>6 DEF BootRetryFires, TriggerBootNotification, SetConnectorStatus, RegistrationNeedsLink,
     vars, entryVars, Live
<1>. QED
  BY LinkCases, <1>1, <1>2, <1>3, <1>4, <1>5, <1>6

-----------------------------------------------------------------------------
(* Connector statuses: a socket that opens finds no acceptance of an earlier one *)

Fresh ==
    ~early => \A s \in Sockets :
        socket[s] = "opening" => boots[s] = 0 /\ (registered => bootStatus = "unknown")

\* Only a crash forgets that connect() came too early.
LEMMA EarlyStays == LinkNext /\ ~early' => Crash \/ ~early
<1>1. [Next]_vars => (early => early')
  BY DEF Next, vars, Connect, Disconnect, Reconnect, CallSent, HandleAnswer, SendFails,
     CallTimesOut, Settle, HandleOpen, PeerCloses, HandleClose
<1>. QED
  BY <1>1, ClientMoves

\* A socket is opened when none is live.
LEMMA OpensAlone ==
    ASSUME IInv, Connect \/ Reconnect, ~early, ~early'
    PROVE  Live = {}
<1>1. TypeOK /\ Orderly
  BY DEF IInv
<1>2. CASE Connect
  BY <1>1, <1>2 DEF Connect, TooEarly, Busy, TypeOK, States
<1>3. CASE Reconnect
  BY <1>1, <1>3 DEF Reconnect, Orderly, TypeOK
<1>. QED
  BY <1>2, <1>3

\* A socket that opens finds no boot and no acceptance of an earlier one.
LEMMA FreshStep ==
    ASSUME IInv, IInv', BootsOK, RegistrationNeedsLink, Fresh, LinkNext, ~early', ~Crash
    PROVE  Fresh'
<1>t. TypeOK /\ Orderly /\ Orderly' /\ ~early
  BY EarlyStays DEF IInv
<1>1. CASE SessionRests
  <2>1. UNCHANGED <<bootStatus, boots, registered>>
    BY <1>1 DEF SessionRests, sessionVars
  <2>2. CASE Connect \/ Reconnect
    <3>1. Live = {}
      BY <1>t, <2>2, OpensAlone
    <3>2. \A s \in Sockets : boots[s] = 0
      BY <3>1 DEF BootsOK, Live
    <3>3. registered => bootStatus = "unknown"
      BY <3>1 DEF RegistrationNeedsLink
    <3>. QED
      BY <2>1, <3>2, <3>3 DEF Fresh
  <2>3. CASE UNCHANGED vars \/ Disconnect \/ \E s \in Sockets : PeerCloses(s)
    <3>1. \A s \in Sockets : socket'[s] = "opening" => socket[s] = "opening"
      BY <1>t, <2>3 DEF vars, Disconnect, PeerCloses, TypeOK
    <3>. QED
      BY <1>t, <2>1, <3>1 DEF Fresh
  <2>. QED
    BY <1>1, <2>2, <2>3 DEF SessionRests
<1>2. CASE DisposeInstance
  <2>1. \A s \in Sockets : socket'[s] = "opening" => socket[s] = "opening"
    BY <1>t, <1>2 DEF DisposeInstance, StopClient, Disconnect, TypeOK
  <2>. QED
    BY <1>t, <1>2, <2>1 DEF DisposeInstance, Fresh
<1>3. ASSUME NEW s \in Sockets, LinkCloses(s)
      PROVE  Fresh'
  <2>1. \A q \in Sockets : socket'[q] = "closed"
    BY <1>t, <1>3 DEF LinkCloses, HandleClose, Orderly, Live, TypeOK
  <2>. QED
    BY <2>1 DEF Fresh
<1>4. ASSUME NEW s \in Sockets, LinkOpens(s)
      PROVE  Fresh'
  <2>1. \A q \in Sockets : socket'[q] # "opening"
    BY <1>t, <1>4 DEF LinkOpens, HandleOpen, Orderly, Live, TypeOK
  <2>. QED
    BY <2>1 DEF Fresh
<1>5. ASSUME NEW s \in Sockets, BootAnswered(s)
      PROVE  Fresh'
  <2>1. socket' = socket /\ boots[s] > 0
    BY <1>5 DEF BootAnswered, BootAccepted, BootPending, BootRejected, BootFails, Answerable,
       BootInFlight, vars
  <2>2. \A q \in Sockets : socket[q] # "opening"
    BY <1>t, <2>1 DEF BootsOK, Fresh, Orderly, Live
  <2>. QED
    BY <2>1, <2>2 DEF Fresh
<1>6. CASE BootRetryFires \/ TriggerBootNotification
  <2>1. UNCHANGED <<vars, bootStatus, registered>>
    BY <1>6 DEF BootRetryFires, TriggerBootNotification, entryVars
  <2>2. CASE Sendable
    <3>1. \A s \in Sockets : socket'[s] # "opening"
      BY <1>t, <2>2 DEF Sendable, Orderly, Live
    <3>. QED
      BY <3>1 DEF Fresh
  <2>3. CASE ~Sendable
    <3>1. boots' = boots
      BY <1>6, <2>3 DEF BootRetryFires, TriggerBootNotification, SendBootNotification
    <3>. QED
      BY <1>t, <2>1, <3>1 DEF Fresh, vars
  <2>. QED
    BY <2>2, <2>3
<1>7. CASE SetConnectorStatus
  BY <1>t, <1>7 DEF SetConnectorStatus, Fresh, vars, entryVars
<1>. QED
  BY LinkCases, <1>1, <1>2, <1>3, <1>4, <1>5, <1>6, <1>7

\* A connected client can send, unless connect() came too early; so an acceptance lets every
\* recorded status out, and a later one goes out at once.
LEMMA ReportedStep ==
    ASSUME IInv, IInv', Fresh, StatusIsReported, LinkNext
    PROVE  StatusIsReported'
<1>. SUFFICES ASSUME ~early', ~Crash PROVE StatusIsReported'
  BY DEF StatusIsReported, Crash
<1>t. TypeOK /\ ~early
  BY EarlyStays DEF IInv
<1>s. state' = "connected" => Sendable
  BY NoSocketAssumption DEF Sendable, IInv, TypeOK, Orderly, Live
<1>1. CASE SessionRests
  <2>1. UNCHANGED <<bootStatus, unsent, registered>>
    BY <1>1 DEF SessionRests, sessionVars
  <2>2. state' = "connected" => state = "connected"
    BY <1>1 DEF SessionRests, vars, Connect, Disconnect, Reconnect, OpenSocket, PeerCloses
  <2>. QED
    BY <1>t, <2>1, <2>2 DEF StatusIsReported
<1>2. CASE DisposeInstance \/ \E s \in Sockets : LinkCloses(s)
  BY <1>2 DEF DisposeInstance, LinkCloses, HandleClose, Dropped, StatusIsReported
<1>3. ASSUME NEW s \in Sockets, LinkOpens(s)
      PROVE  StatusIsReported'
  <2>1. bootStatus' = bootStatus /\ registered' = registered /\ socket[s] = "opening"
    BY <1>3 DEF LinkOpens, HandleOpen, entryVars
  <2>. QED
    BY <1>t, <2>1 DEF Fresh, StatusIsReported
<1>4. ASSUME NEW s \in Sockets, BootAccepted(s)
      PROVE  StatusIsReported'
  BY <1>4, <1>s DEF BootAccepted, FlushConnectorStatuses, StatusIsReported
<1>5. ASSUME NEW s \in Sockets, BootPending(s) \/ BootRejected(s)
      PROVE  StatusIsReported'
  BY <1>5 DEF BootPending, BootRejected, StatusIsReported
<1>6. CASE BootRetryFires \/ TriggerBootNotification \/ \E s \in Sockets : BootFails(s)
  BY <1>t, <1>6 DEF BootRetryFires, TriggerBootNotification, BootFails, StatusIsReported, vars, entryVars
<1>7. CASE SetConnectorStatus
  BY <1>7, <1>s DEF SetConnectorStatus, StatusIsReported
<1>. QED
  BY LinkCases, <1>1, <1>2, <1>3, <1>4, <1>5, <1>6, <1>7 DEF BootAnswered

-----------------------------------------------------------------------------
(* Reset *)

\* A close wakes the Reset that waits: one that still does has had none.
LEMMA ResetWaits ==
    ASSUME LinkNext, reset' = "waiting"
    PROVE  (reset = "waiting" \/ Live # {}) /\ ~Crash /\ \A s \in Sockets : ~LinkCloses(s)
<1>1. ~Crash /\ \A s \in Sockets : ~LinkCloses(s)
  BY DEF Crash, LinkCloses, WakeReset
<1>2. CASE ResetDisconnects
  BY <1>1, <1>2 DEF ResetDisconnects
<1>3. CASE ResetArrives \/ ResetReconnects
  BY <1>3 DEF ResetArrives, ResetReconnects
<1>4. CASE StartInstance \/ StartWrites \/ StartConnects \/ StopInstance \/ DisposeInstance \/ Reconcile
  BY <1>1, <1>4 DEF StartInstance, StartWrites, StartConnects, StopInstance, DisposeInstance, Reconcile
<1>5. CASE \/ \E s \in ConnectionStatuses : WriteLands(s)
           \/ \E s \in Sockets : LinkOpens(s) \/ LinkPeerCloses(s)
           \/ LinkRetries
  BY <1>1, <1>5 DEF WriteLands, LinkOpens, LinkPeerCloses, LinkRetries, entryVars
<1>6. CASE \/ \E s \in Sockets : BootAccepted(s) \/ BootPending(s) \/ BootRejected(s) \/ BootFails(s)
           \/ BootRetryFires \/ TriggerBootNotification \/ SetConnectorStatus
  BY <1>1, <1>6 DEF BootAccepted, BootPending, BootRejected, BootFails, BootRetryFires,
     TriggerBootNotification, SetConnectorStatus, entryVars
<1>. QED
  BY <1>1, <1>2, <1>3, <1>4, <1>5, <1>6 DEF LinkNext

\* A Reset that waits keeps a close ahead, unless it was stranded.
LEMMA ResetStep ==
    ASSUME IInv, BootsOK, ResetIsWoken, LinkNext
    PROVE  ResetIsWoken'
<1>. SUFFICES ASSUME reset' = "waiting" PROVE Live' # {}
  BY DEF ResetIsWoken
<1>1. TypeOK /\ Live # {} /\ ~Crash /\ \A s \in Sockets : ~LinkCloses(s)
  BY ResetWaits DEF ResetIsWoken, IInv
<1>2. CASE SessionRests \/ DisposeInstance \/ \E s \in Sockets : LinkOpens(s)
  <2>1. \A s \in Sockets : socket[s] # "closed" => socket'[s] # "closed"
    BY <1>1, <1>2, SocketsStay DEF SessionRests, DisposeInstance, StopClient, LinkOpens
  <2>. QED
    BY <1>1, <2>1 DEF Live
<1>3. CASE BootRetryFires \/ TriggerBootNotification \/ SetConnectorStatus
           \/ \E s \in Sockets : BootAnswered(s)
  <2>1. UNCHANGED vars
    BY <1>3 DEF BootRetryFires, TriggerBootNotification, SetConnectorStatus, BootAnswered,
       BootAccepted, BootPending, BootRejected, BootFails
  <2>. QED
    BY <1>1, <2>1 DEF vars, Live
<1>. QED
  BY LinkCases, <1>1, <1>2, <1>3

-----------------------------------------------------------------------------
(* A stop is final *)

\* Unless connect() came too early, only a busy client has a socket that is not closing.
Idle == ~early /\ ~Busy => \A s \in Sockets : socket[s] \notin {"opening", "open"}

\* Disconnecting in good order leaves no socket that opens and no timeout.
LEMMA StopsInOrder ==
    ASSUME IInv, Idle, ~early, Disconnect
    PROVE  /\ state' \in {"disconnected", "closing"} /\ timeouts' = 0 /\ manualClose'
           /\ \A s \in Sockets : socket'[s] \notin {"opening", "open"}
<1>1. TypeOK /\ Orderly
  BY DEF IInv
<1>2. timeouts' = 0 /\ manualClose' /\ state' \in {"disconnected", "closing"}
  BY <1>1 DEF Disconnect, ClearReconnectTimer, Orderly, TypeOK
<1>3. \A s \in Sockets : socket'[s] \notin {"opening", "open"}
  BY <1>1, NoSocketAssumption DEF Disconnect, Orderly, Live, Idle, TypeOK
<1>. QED
  BY <1>2, <1>3

\* A client that is not busy has no socket but closing ones.
LEMMA IdleStep ==
    ASSUME IInv, IInv', Idle, LinkNext
    PROVE  Idle'
<1>. SUFFICES ASSUME ~early', ~Crash, [Next]_vars PROVE Idle'
  BY ClientMoves DEF Idle, Crash
<1>t. TypeOK /\ Orderly /\ ~early
  BY EarlyStays DEF IInv
<1>. USE <1>t DEF TypeOK, Orderly, Live, Idle, Busy
<1>1. CASE Connect \/ Reconnect
  BY <1>1 DEF Connect, Reconnect, OpenSocket
<1>2. CASE Disconnect
  BY <1>2, StopsInOrder
<1>3. CASE \E r \in Requests : CallSent(r) \/ HandleAnswer(r) \/ SendFails(r) \/ CallTimesOut(r)
  BY <1>3 DEF CallSent, HandleAnswer, SendFails, CallTimesOut, Settle
<1>4. CASE \E s \in Sockets : HandleOpen(s) \/ PeerCloses(s)
  BY <1>4 DEF HandleOpen, PeerCloses
<1>5. CASE \E s \in Sockets : HandleClose(s)
  BY <1>5 DEF HandleClose
<1>6. CASE UNCHANGED vars
  BY <1>6 DEF vars
<1>. QED
  BY <1>1, <1>2, <1>3, <1>4, <1>5, <1>6 DEF Next

\* What a stop that met nothing under way leaves for good.
Final ==
    /\ state \in {"disconnected", "closing"} /\ timeouts = 0 /\ manualClose
    /\ \A s \in Sockets : socket[s] \notin {"opening", "open"}
    /\ starting = "no" /\ reset = "no" /\ boots = NoBoots
    /\ writes \subseteq {"DISCONNECTED"}
    /\ writes = {} \/ ~reconciled => status = "DISCONNECTED"

StoppedInv == stopped => Final

\* A client that was stopped stays so: nothing armed or under way connects it.
LEMMA StoppedStep ==
    ASSUME IInv, Idle, StoppedInv, LinkNext
    PROVE  StoppedInv'
<1>. SUFFICES ASSUME stopped' PROVE Final'
  BY DEF StoppedInv
<1>1. CASE StopInstance \/ DisposeInstance
  <2>1. Quiet /\ Disconnect
    BY <1>1 DEF StopInstance, DisposeInstance, StopClient
  <2>2. ~early /\ writes = {} /\ reconciled /\ starting = "no" /\ reset = "no" /\ boots = NoBoots
    BY <2>1 DEF Quiet
  <2>3. UNCHANGED <<boots, starting, reset, reconciled>>
    BY <1>1 DEF StopInstance, DisposeInstance, sessionVars
  <2>4. writes' \subseteq {"DISCONNECTED"} /\ (writes' = {} => status' = "DISCONNECTED")
    <3>1. CASE Persist("DISCONNECTED")
      BY <2>2, <3>1 DEF Persist
    <3>2. CASE status = "DISCONNECTED" /\ UNCHANGED storeVars
      BY <2>2, <3>2 DEF storeVars
    <3>. QED
      BY <1>1, <3>1, <3>2 DEF StopInstance, DisposeInstance
  <2>. QED
    BY <2>1, <2>2, <2>3, <2>4, StopsInOrder DEF Final, NoBoots
<1>2. CASE StartInstance \/ ResetArrives
  BY <1>2 DEF StartInstance, ResetArrives
<1>. SUFFICES ASSUME ~StopInstance, ~DisposeInstance, ~StartInstance, ~ResetArrives PROVE Final'
  BY <1>1, <1>2
<1>3. stopped /\ Final
  BY DEF LinkNext, StartWrites, StartConnects, Reconcile, Crash, WriteLands, LinkOpens, LinkPeerCloses,
     LinkCloses, BootAccepted, BootPending, BootRejected, BootFails, LinkRetries, BootRetryFires,
     TriggerBootNotification, SetConnectorStatus, ResetDisconnects, ResetReconnects, historyVars,
     StoppedInv
<1>. USE <1>3 DEF Final
<1>4. CASE StartWrites \/ StartConnects \/ ResetDisconnects \/ ResetReconnects \/ LinkRetries
  BY <1>4 DEF StartWrites, StartConnects, ResetDisconnects, ResetReconnects, LinkRetries, Reconnect
<1>5. CASE Reconcile
  BY <1>5 DEF Reconcile, vars, sessionVars, storeVars, Up, NoBoots
<1>6. CASE Crash
  BY <1>6 DEF Crash, NoBoots
<1>7. ASSUME NEW s \in ConnectionStatuses, WriteLands(s)
      PROVE  Final'
  BY <1>7 DEF WriteLands, vars, sessionVars, entryVars, historyVars, NoBoots
<1>8. ASSUME NEW s \in Sockets, LinkOpens(s) \/ LinkPeerCloses(s)
      PROVE  Final'
  BY <1>8 DEF LinkOpens, LinkPeerCloses, HandleOpen, PeerCloses
<1>9. ASSUME NEW s \in Sockets, LinkCloses(s)
      PROVE  Final'
  <2>1. state' = "disconnected" /\ timeouts' = 0 /\ manualClose'
    BY <1>9 DEF LinkCloses, HandleClose, Dropped, ScheduleReconnect
  <2>2. \A q \in Sockets : socket'[q] \notin {"opening", "open"}
    BY <1>9 DEF LinkCloses, HandleClose, IInv, TypeOK
  <2>3. starting' = "no" /\ reset' = "no" /\ boots' = NoBoots' /\ reconciled' = reconciled
    BY <1>9 DEF LinkCloses, WakeReset, BootsRejected, historyVars, NoBoots
  <2>4. status' = status /\ (writes' = writes \/ writes' = writes \cup {"DISCONNECTED"})
    BY <1>9 DEF LinkCloses, PersistUnlessStopped, Persist, storeVars
  <2>. QED
    BY <2>1, <2>2, <2>3, <2>4
<1>10. ASSUME NEW s \in Sockets, BootAnswered(s)
      PROVE  Final'
  BY <1>10 DEF BootAnswered, BootAccepted, BootPending, BootRejected, BootFails, Answerable,
     BootInFlight, NoBoots
<1>11. CASE BootRetryFires \/ TriggerBootNotification \/ SetConnectorStatus
  <2>1. UNCHANGED <<vars, boots, entryVars, storeVars, historyVars>>
    BY <1>11 DEF BootRetryFires, TriggerBootNotification, SetConnectorStatus, Sendable, vars
  <2>. QED
    BY <2>1 DEF vars, entryVars, storeVars, historyVars, NoBoots
<1>. QED
  BY <1>4, <1>5, <1>6, <1>7, <1>8, <1>9, <1>10, <1>11 DEF LinkNext, BootAnswered

-----------------------------------------------------------------------------
(* Types *)

NamesOK ==
    /\ bootStatus \in BootStatuses
    /\ starting \in {"no", "reading", "writing"}
    /\ reset \in {"no", "stopping", "waiting", "stranded", "rebooting"}
    /\ status \in ConnectionStatuses /\ writes \subseteq ConnectionStatuses

\* Statuses and stages stay among those the code has.
LEMMA NamesStep ==
    ASSUME NamesOK, LinkNext
    PROVE  NamesOK'
<1>. USE DEF NamesOK, BootStatuses, ConnectionStatuses, Up, Persist, PersistUnlessStopped, ConnectClient,
            sessionVars, entryVars, storeVars
<1>1. CASE StartInstance \/ StartWrites \/ StartConnects
  BY <1>1 DEF StartInstance, StartWrites, StartConnects
<1>2. CASE StopInstance \/ DisposeInstance
  BY <1>2 DEF StopInstance, DisposeInstance
<1>3. CASE Reconcile \/ Crash \/ \E s \in ConnectionStatuses : WriteLands(s)
  BY <1>3 DEF Reconcile, Crash, WriteLands
<1>4. ASSUME NEW s \in Sockets, LinkOpens(s) \/ LinkPeerCloses(s) \/ LinkCloses(s)
      PROVE  NamesOK'
  BY <1>4 DEF LinkOpens, LinkPeerCloses, LinkCloses, SessionDisconnected, WakeReset
<1>5. ASSUME NEW s \in Sockets, BootAnswered(s)
      PROVE  NamesOK'
  BY <1>5 DEF BootAnswered, BootAccepted, BootPending, BootRejected, BootFails
<1>6. CASE LinkRetries \/ BootRetryFires \/ TriggerBootNotification \/ SetConnectorStatus
  BY <1>6 DEF LinkRetries, BootRetryFires, TriggerBootNotification, SetConnectorStatus
<1>7. CASE ResetArrives \/ ResetDisconnects \/ ResetReconnects
  BY <1>7 DEF ResetArrives, ResetDisconnects, ResetReconnects
<1>. QED
  BY <1>1, <1>2, <1>3, <1>4, <1>5, <1>6, <1>7 DEF LinkNext, BootAnswered

FlagsOK ==
    /\ heartbeat \in BOOLEAN /\ bootRetry \in BOOLEAN /\ unsent \in BOOLEAN
    /\ registered \in BOOLEAN /\ manuallyStopped \in BOOLEAN
    /\ reconciled \in BOOLEAN /\ stopped \in BOOLEAN

\* Crashes stay within their bound.
LEMMA CrashesStep == crashes \in 0..MaxCrashes /\ LinkNext => crashes' \in 0..MaxCrashes
<1>. SUFFICES ASSUME crashes \in 0..MaxCrashes, LinkNext PROVE crashes' \in 0..MaxCrashes
  OBVIOUS
<1>1. CASE Crash
  BY <1>1, MaxCrashesAssumption DEF Crash
<1>2. CASE ~Crash
  <2>1. crashes' = crashes
    BY <1>2 DEF LinkNext, StartInstance, StartWrites, StartConnects, StopInstance, DisposeInstance,
       Reconcile, WriteLands, LinkOpens, LinkPeerCloses, LinkCloses, BootAccepted, BootPending,
       BootRejected, BootFails, LinkRetries, BootRetryFires, TriggerBootNotification,
       SetConnectorStatus, ResetArrives, ResetDisconnects, ResetReconnects, historyVars
  <2>. QED
    BY <2>1
<1>. QED
  BY <1>1, <1>2

\* The flags stay Boolean.
LEMMA FlagsStep ==
    ASSUME FlagsOK, LinkNext
    PROVE  FlagsOK'
<1>. USE DEF FlagsOK, sessionVars, entryVars, historyVars
<1>1. CASE StartInstance \/ StartWrites \/ StartConnects
  BY <1>1 DEF StartInstance, StartWrites, StartConnects
<1>2. CASE StopInstance \/ DisposeInstance
  <2>1. stopped' \in BOOLEAN
    BY <1>2, Zenon DEF StopInstance, DisposeInstance, Quiet
  <2>2. /\ registered' \in BOOLEAN /\ manuallyStopped' \in BOOLEAN /\ UNCHANGED <<unsent, reconciled>>
        /\ heartbeat' \in BOOLEAN /\ bootRetry' \in BOOLEAN
    BY <1>2 DEF StopInstance, DisposeInstance
  <2>. QED
    BY <2>1, <2>2
<1>3. CASE Reconcile \/ Crash \/ \E s \in ConnectionStatuses : WriteLands(s)
  BY <1>3, Zenon DEF Reconcile, Crash, WriteLands
<1>4. ASSUME NEW s \in Sockets, LinkOpens(s) \/ LinkPeerCloses(s) \/ LinkCloses(s)
      PROVE  FlagsOK'
  BY <1>4, Zenon DEF LinkOpens, LinkPeerCloses, LinkCloses, SessionDisconnected, SendBootNotification, RetryBoot
<1>5. ASSUME NEW s \in Sockets, BootAnswered(s)
      PROVE  FlagsOK'
  BY <1>5, Zenon DEF BootAnswered, BootAccepted, BootPending, BootRejected, BootFails, RetryBoot, FlushConnectorStatuses
<1>6. CASE LinkRetries \/ BootRetryFires \/ TriggerBootNotification \/ SetConnectorStatus
  BY <1>6, Zenon DEF LinkRetries, BootRetryFires, TriggerBootNotification, SetConnectorStatus, SendBootNotification, RetryBoot
<1>7. CASE ResetArrives \/ ResetDisconnects \/ ResetReconnects
  BY <1>7 DEF ResetArrives, ResetDisconnects, ResetReconnects
<1>. QED
  BY <1>1, <1>2, <1>3, <1>4, <1>5, <1>6, <1>7 DEF LinkNext, BootAnswered

-----------------------------------------------------------------------------
(* The theorems *)

LinkInv ==
    /\ IInv /\ NamesOK /\ FlagsOK /\ crashes \in 0..MaxCrashes
    /\ BootsOK /\ RegistrationNeedsLink /\ KeepsBooting
    /\ Fresh /\ StatusIsReported /\ ResetIsWoken
    /\ Idle /\ StoppedInv

\* A new link satisfies its invariant.
LEMMA LinkInitEstablishes == LinkInit => LinkInv
<1>. SUFFICES ASSUME LinkInit PROVE LinkInv
  OBVIOUS
<1>1. IInv
  BY InitEstablishes DEF LinkInit
<1>2. BootsOK
  BY MaxBootsAssumption DEF LinkInit, BootsOK, NoBoots
<1>3. NamesOK /\ FlagsOK /\ crashes \in 0..MaxCrashes
  <2>1. NamesOK /\ crashes \in 0..MaxCrashes
    BY MaxCrashesAssumption DEF LinkInit, NamesOK, BootStatuses, ConnectionStatuses
  <2>2. FlagsOK
    BY Zenon DEF LinkInit, FlagsOK
  <2>. QED
    BY <2>1, <2>2
<1>4. \A s \in Sockets : socket[s] = "closed"
  BY DEF LinkInit, Init
<1>. QED
  BY <1>1, <1>2, <1>3, <1>4 DEF LinkInit, Init, LinkInv, RegistrationNeedsLink, KeepsBooting, Fresh,
     StatusIsReported, ResetIsWoken, Idle, StoppedInv

\* Every step of the link keeps its invariant.
LEMMA LinkStep == LinkInv /\ [LinkNext]_linkVars => LinkInv'
<1>. SUFFICES ASSUME LinkInv, [LinkNext]_linkVars PROVE LinkInv'
  OBVIOUS
<1>1. IInv'
  BY ClientStep DEF LinkInv
<1>2. CASE LinkNext
  <2>1. BootsOK' /\ KeepsBooting' /\ RegistrationNeedsLink' /\ ResetIsWoken'
    BY <1>1, <1>2, BootsStep, BootingStep, RegistrationStep, ResetStep DEF LinkInv
  <2>2. Fresh'
    <3>1. CASE Crash
      <4>1. \A s \in Sockets : socket'[s] = "closed"
        BY <3>1 DEF Crash
      <4>. QED
        BY <4>1 DEF Fresh
    <3>2. CASE early'
      BY <3>2 DEF Fresh
    <3>. QED
      BY <1>1, <1>2, <3>1, <3>2, FreshStep DEF LinkInv
  <2>3. StatusIsReported' /\ Idle' /\ StoppedInv'
    BY <1>1, <1>2, ReportedStep, IdleStep, StoppedStep DEF LinkInv
  <2>4. NamesOK' /\ FlagsOK' /\ crashes' \in 0..MaxCrashes
    BY <1>2, NamesStep, FlagsStep, CrashesStep DEF LinkInv
  <2>. QED
    BY <1>1, <2>1, <2>2, <2>3, <2>4 DEF LinkInv
<1>3. CASE UNCHANGED linkVars
  <2>. USE <1>3 DEF LinkInv, linkVars, vars, sessionVars, entryVars, storeVars, historyVars
  <2>1. BootsOK' /\ RegistrationNeedsLink' /\ KeepsBooting' /\ ResetIsWoken'
    BY DEF BootsOK, RegistrationNeedsLink, KeepsBooting, ResetIsWoken, Live, NoBoots
  <2>2. Fresh' /\ StatusIsReported' /\ Idle'
    BY DEF Fresh, StatusIsReported, Idle, Busy
  <2>3. StoppedInv'
    BY DEF StoppedInv, Final, NoBoots
  <2>4. NamesOK' /\ FlagsOK' /\ crashes' \in 0..MaxCrashes
    BY DEF NamesOK, FlagsOK
  <2>. QED
    BY <1>1, <2>1, <2>2, <2>3, <2>4
<1>. QED
  BY <1>2, <1>3

\* The invariant of the link holds in every behaviour.
LEMMA LinkInvariant == LinkSpec => []LinkInv
BY LinkInitEstablishes, LinkStep, PTL DEF LinkSpec

\* Every variable of the session and of the entry keeps its type, and no BootNotification waits
\* on a socket that is gone (rejectAllPending, client.ts:168).
THEOREM LinkTypeCorrect == LinkSpec => []LinkTypeOK
<1>1. LinkInv => LinkTypeOK
  BY DEF LinkInv, NamesOK, FlagsOK, BootsOK, LinkTypeOK
<1>. QED
  BY LinkInvariant, <1>1, PTL

\* A connected station that the CSMS has not accepted is about to ask again or waits for the
\* answer, also when connect() came too early (scheduleBootRetry, session.ts:220).
THEOREM StationKeepsBooting == LinkSpec => []KeepsBooting
<1>1. LinkInv => KeepsBooting
  BY DEF LinkInv
<1>. QED
  BY LinkInvariant, <1>1, PTL

\* Without a connection no heartbeat runs and no old acceptance lets messages through, also
\* when connect() came too early (handleClientDisconnected, session.ts:141).
THEOREM LostLinkEndsRegistration == LinkSpec => []RegistrationNeedsLink
<1>1. LinkInv => RegistrationNeedsLink
  BY DEF LinkInv
<1>. QED
  BY LinkInvariant, <1>1, PTL

\* A CSMS that accepted the station is told every connector status
\* (setConnectorStatus, session.ts:104).
THEOREM StatusesAreReported == LinkSpec => []StatusIsReported
<1>1. LinkInv => StatusIsReported
  BY DEF LinkInv
<1>. QED
  BY LinkInvariant, <1>1, PTL

\* A stop or disposal that met nothing under way is final, through crashes too
\* (stopDeviceInstance, runtime.ts:239; reconcileRuntimeOnStartup, 339).
THEOREM StopsAreFinal == LinkSpec => []StopIsFinal
<1>1. LinkInv => StopIsFinal
  BY DEF LinkInv, StoppedInv, Final, StopIsFinal
<1>. QED
  BY LinkInvariant, <1>1, PTL

\* A Reset that waits for a close has one ahead of it (performReset, remote-commands.ts:530).
THEOREM ResetsAreWoken == LinkSpec => []ResetIsWoken
<1>1. LinkInv => ResetIsWoken
  BY DEF LinkInv
<1>. QED
  BY LinkInvariant, <1>1, PTL
=============================================================================

----------------------------- MODULE OcppClient -----------------------------
(***************************************************************************)
(* The WebSocket client of one emulated charge point (ocpp/client.ts): its *)
(* connection state, its sockets, reconnecting after a loss, and the calls *)
(* that wait for an answer.                                                *)
(*                                                                         *)
(* Every method and every socket callback runs to its end without an       *)
(* await, so each of them is one step.  A socket that was opened keeps     *)
(* calling back whether or not the client still refers to it (ws), and a   *)
(* reconnect timeout that was overwritten still fires: that is why there   *)
(* are sockets and timeouts here, and not one of each.                     *)
(*                                                                         *)
(* Left out: incoming calls, the contents of frames, the delays.  A call   *)
(* that is refused because the client is not connected changes nothing.    *)
(***************************************************************************)
EXTENDS Naturals

CONSTANTS
    Sockets,     \* at most that many are open at a time
    NoSocket,    \* null
    Requests,    \* messageIds of calls, used again once they are settled
    MaxRetries,  \* reconnectOptions.maxRetries
    MaxConnects  \* bound on the calls of connect()

ASSUME NoSocketAssumption == NoSocket \notin Sockets
ASSUME MaxRetriesAssumption == MaxRetries \in Nat
ASSUME MaxConnectsAssumption == MaxConnects \in Nat

VARIABLES
    state,            \* OcppConnectionState
    ws,               \* the socket the client refers to
    manualClose,
    reconnectAttempt,
    reconnectTimer,   \* the handle is not null
    timeouts,         \* reconnect timeouts that are armed, the handle's included
    pendingCalls,     \* the socket each call was sent on, NoSocket if it is settled
    socket,           \* external: the ready state of each socket
    connects,         \* how often connect() opened a socket
    early             \* history: connect() was called before the last connection was over

vars == <<state, ws, manualClose, reconnectAttempt, reconnectTimer, timeouts,
          pendingCalls, socket, connects, early>>

States == {"disconnected", "connecting", "connected", "closing"}
ReadyStates == {"closed", "opening", "open", "closing"}

Live == {s \in Sockets : socket[s] # "closed"}

NoCalls == [r \in Requests |-> NoSocket]

-----------------------------------------------------------------------------
(* Helpers *)

\* A mutant of Busy: a connection being opened does not count.
BusyWhenConnected == state = "connected"

\* connect() has nothing to do.
Busy == state \in {"connecting", "connected"}

\* History: the last connection is still closing, or about to be tried again.
TooEarly == timeouts > 0 \/ (state \in {"disconnected", "closing"} /\ Live # {})

\* openSocket.
OpenSocket ==
    \E s \in Sockets \ Live :
        /\ socket' = [socket EXCEPT ![s] = "opening"]
        /\ ws' = s
        /\ state' = "connecting"

\* clearReconnectTimer: it knows of the last timeout only.
ClearReconnectTimer ==
    /\ timeouts' = IF reconnectTimer THEN timeouts - 1 ELSE timeouts
    /\ reconnectTimer' = FALSE

\* A mutant of RetriesLeft: a failed attempt is not repeated.
RetriesLeftOnce == reconnectAttempt = 0 /\ MaxRetries > 0

RetriesLeft == reconnectAttempt < MaxRetries

\* scheduleReconnect, after a close nobody asked for.
ScheduleReconnect ==
    IF ~manualClose /\ RetriesLeft
    THEN /\ reconnectAttempt' = reconnectAttempt + 1
         /\ reconnectTimer' = TRUE
         /\ timeouts' = timeouts + 1
    ELSE UNCHANGED <<reconnectAttempt, reconnectTimer, timeouts>>

\* A mutant of RejectAllPending: calls survive a close nobody asked for.
RejectWhenManual ==
    IF manualClose THEN pendingCalls' = NoCalls ELSE UNCHANGED pendingCalls

RejectAllPending == pendingCalls' = NoCalls

Dropped == ws' = NoSocket /\ state' = "disconnected"

-----------------------------------------------------------------------------
(* What the program calls *)

Connect ==
    /\ ~Busy
    /\ connects < MaxConnects
    /\ connects' = connects + 1
    /\ manualClose' = FALSE
    /\ reconnectAttempt' = 0
    /\ OpenSocket
    /\ early' = (early \/ TooEarly)
    /\ UNCHANGED <<reconnectTimer, timeouts, pendingCalls>>

Disconnect ==
    /\ manualClose' = TRUE
    /\ ClearReconnectTimer
    /\ \/ /\ ws # NoSocket /\ Busy
          /\ state' = "closing"
          /\ socket' = [socket EXCEPT ![ws] = "closing"]
       \/ /\ ~(ws # NoSocket /\ Busy)
          /\ state' = "disconnected"
          /\ UNCHANGED socket
    /\ UNCHANGED <<ws, reconnectAttempt, pendingCalls, connects, early>>

\* On a socket that is still opening, send throws: the caller has its error, the
\* entry stays until its timeout.
CallSent(r) ==
    /\ state = "connected" /\ ws # NoSocket
    /\ pendingCalls[r] = NoSocket
    /\ pendingCalls' = [pendingCalls EXCEPT ![r] = ws]
    /\ UNCHANGED <<state, ws, manualClose, reconnectAttempt, reconnectTimer, timeouts,
                   socket, connects, early>>

Settle(r) ==
    /\ pendingCalls' = [pendingCalls EXCEPT ![r] = NoSocket]
    /\ UNCHANGED <<state, ws, manualClose, reconnectAttempt, reconnectTimer, timeouts,
                   socket, connects, early>>

-----------------------------------------------------------------------------
(* Callbacks: the sockets' events and the timeouts *)

\* handleOpen, for whichever socket it is.  A CSMS that refuses the subprotocol is
\* hung up on.
HandleOpen(s) ==
    /\ socket[s] = "opening"
    /\ \/ /\ socket' = [socket EXCEPT ![s] = "open"]
          /\ reconnectAttempt' = 0
          /\ state' = "connected"
       \/ /\ socket' = [socket EXCEPT ![s] = "closing"]
          /\ UNCHANGED <<reconnectAttempt, state>>
    /\ UNCHANGED <<ws, manualClose, reconnectTimer, timeouts, pendingCalls, connects, early>>

\* external: the CSMS begins to close the connection.
PeerCloses(s) ==
    /\ socket[s] = "open"
    /\ socket' = [socket EXCEPT ![s] = "closing"]
    /\ UNCHANGED <<state, ws, manualClose, reconnectAttempt, reconnectTimer, timeouts,
                   pendingCalls, connects, early>>

\* handleClose, for whichever socket it is: refused, lost, or closed as asked.
HandleClose(s) ==
    /\ s \in Live
    /\ socket' = [socket EXCEPT ![s] = "closed"]
    /\ Dropped
    /\ RejectAllPending
    /\ ScheduleReconnect
    /\ UNCHANGED <<manualClose, connects, early>>

\* handleCallResult and handleCallErrorFrame: messages arrive until the socket is closed.
HandleAnswer(r) ==
    /\ pendingCalls[r] # NoSocket
    /\ socket[pendingCalls[r]] \in {"open", "closing"}
    /\ Settle(r)

\* send reports an error: the socket was closing.
SendFails(r) ==
    /\ pendingCalls[r] # NoSocket
    /\ socket[pendingCalls[r]] = "closing"
    /\ Settle(r)

CallTimesOut(r) ==
    /\ pendingCalls[r] # NoSocket
    /\ Settle(r)

\* A reconnect timeout fires, the handle's or an overwritten one.
Reconnect ==
    /\ timeouts > 0
    /\ timeouts' = timeouts - 1
    /\ reconnectTimer' = FALSE
    /\ OpenSocket
    /\ UNCHANGED <<manualClose, reconnectAttempt, pendingCalls, connects, early>>

-----------------------------------------------------------------------------
Init ==
    /\ state = "disconnected"
    /\ ws = NoSocket
    /\ manualClose = TRUE
    /\ reconnectAttempt = 0
    /\ reconnectTimer = FALSE
    /\ timeouts = 0
    /\ pendingCalls = NoCalls
    /\ socket = [s \in Sockets |-> "closed"]
    /\ connects = 0
    /\ early = FALSE

Next ==
    \/ Connect \/ Disconnect \/ Reconnect
    \/ \E r \in Requests : CallSent(r) \/ HandleAnswer(r) \/ SendFails(r) \/ CallTimesOut(r)
    \/ \E s \in Sockets : HandleOpen(s) \/ PeerCloses(s) \/ HandleClose(s)

Spec == Init /\ [][Next]_vars

\* Armed timeouts fire.  A CSMS need not accept, answer or hang up.
FairSpec == Spec /\ WF_vars(Reconnect)

-----------------------------------------------------------------------------
(* Safety *)

\* Every variable has its type, and the backoff counter stays within maxRetries.
TypeOK ==
    /\ state \in States
    /\ ws \in Sockets \cup {NoSocket}
    /\ manualClose \in BOOLEAN
    /\ reconnectAttempt \in 0..MaxRetries
    /\ reconnectTimer \in BOOLEAN
    /\ timeouts \in Nat
    /\ pendingCalls \in [Requests -> Sockets \cup {NoSocket}]
    /\ socket \in [Sockets -> ReadyStates]
    /\ connects \in Nat
    /\ early \in BOOLEAN

\* Nobody waits for an answer on a socket that is gone, whichever sockets closed in
\* whichever order (rejectAllPending, client.ts:168).
NoCallOutlivesItsSocket ==
    \A r \in Requests : pendingCalls[r] # NoSocket => socket[pendingCalls[r]] # "closed"

\* A client that is wanted and has no connection has a reconnect ahead of it, unless
\* it has used up its retries: no sequence of opens, refusals, losses and calls of
\* connect and disconnect strands it (scheduleReconnect, client.ts:176).
KeepsTrying ==
    /\ ~manualClose => state # "closing"
    /\ ~manualClose /\ state = "disconnected" => timeouts > 0 \/ ~(reconnectAttempt < MaxRetries)

\* If nobody calls connect() too early, there is one socket or one reconnect ahead,
\* never two sockets nor a reconnect beside a socket.
OneConnection ==
    ~early => /\ \A s, t \in Live : s = t
              /\ timeouts <= 1
              /\ timeouts = 1 => Live = {}

\* If nobody calls connect() too early, a connected client can send: it refers to the
\* socket that is open, and calls wait on that one.
ConnectedCanCall ==
    ~early => /\ state = "connected" => ws # NoSocket /\ socket[ws] \in {"open", "closing"}
              /\ \A r \in Requests : pendingCalls[r] \in {ws, NoSocket}

\* If nobody calls connect() too early, a client that was told to disconnect has no
\* reconnect ahead (disconnect, client.ts:91).
QuietAfterDisconnect == ~early /\ manualClose => timeouts = 0

\* The same without the condition ("closes the client (cancelling any pending
\* reconnect)", runtime.ts:238).
DisconnectCancelsReconnects == manualClose => timeouts = 0

-----------------------------------------------------------------------------
(* Liveness *)

\* A lost link is tried again without anybody asking for it.
LostLinkIsRetried ==
    ~manualClose /\ state = "disconnected" /\ reconnectAttempt < MaxRetries
        ~> manualClose \/ state # "disconnected"
=============================================================================

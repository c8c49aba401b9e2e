----------------------------- MODULE DeviceLink -----------------------------
(***************************************************************************)
(* The link of one device instance: the WebSocket client (OcppClient), the *)
(* boot session that listens to it (ocpp/session.ts), the runtime entry    *)
(* that starts, stops and disposes of both and persists a status           *)
(* (runtime.ts), and the CSMS's Reset (remote-commands.ts).                *)
(*                                                                         *)
(* An event of the client runs its listeners, and the continuations of the *)
(* promises it settles, before anything else: one step here.  A write of   *)
(* the persisted status goes out on a pooled connection: those in flight   *)
(* land in any order.                                                      *)
(*                                                                         *)
(* One entry is followed, from its creation to its disposal, and through a *)
(* crash of the process.  Left out: status reasons, logged events, delays, *)
(* and every call but BootNotification, so Requests can be empty.          *)
(***************************************************************************)
EXTENDS OcppClient, FiniteSets

CONSTANTS
    MaxBoots,    \* bound on the BootNotifications in flight on a socket
    MaxWrites,   \* bound on the status writes in flight, a socket's close apart
    MaxCrashes,  \* bound on the crashes of the process
    ExploreEarly \* FALSE leaves out connects that come before the last connection is over

ASSUME MaxBootsAssumption == MaxBoots \in Nat
ASSUME MaxCrashesAssumption == MaxCrashes \in Nat

VARIABLES
    bootStatus,       \* session.ts
    heartbeat,        \* heartbeatTimer is not null
    bootRetry,        \* bootRetryTimer is not null
    boots,            \* BootNotifications waiting for an answer, by socket
    unsent,           \* a connector status was recorded and not sent since
    registered,       \* the entry is in the registry: not disposed of
    manuallyStopped,
    starting,         \* how far startDeviceInstance is
    reset,            \* how far performReset is
    status,           \* DeviceInstance.status, persisted
    writes,           \* values of it in flight
    reconciled,       \* deviceInstanceRuntimeReconciled
    crashes,
    stopped           \* history: the last stop met nothing under way, nor was it undone

sessionVars == <<bootStatus, heartbeat, bootRetry, boots, unsent>>
entryVars == <<registered, manuallyStopped, starting, reset>>
storeVars == <<status, writes>>
historyVars == <<reconciled, crashes, stopped>>
linkVars == <<vars, sessionVars, entryVars, storeVars, historyVars>>

BootStatuses == {"unknown", "pending", "accepted", "rejected"}
ConnectionStatuses == {"DISCONNECTED", "CONNECTING", "CONNECTED", "FAULTED"}
Up == {"CONNECTING", "CONNECTED"}

NoBoots == [s \in Sockets |-> 0]

-----------------------------------------------------------------------------
(* Helpers *)

Persist(s) == writes' = writes \cup {s} /\ UNCHANGED status

\* Whether a write in flight more can be explored; the close of a socket always can.
WritesLeft(s) == s \in writes \/ Cardinality(writes) < MaxWrites

\* The guard of most listeners.
PersistUnlessStopped(s) == IF manuallyStopped THEN UNCHANGED storeVars ELSE Persist(s)

\* client.call when the step is over: on a socket still opening, send throws.
Sendable == state' = "connected" /\ ws' # NoSocket /\ socket'[ws'] # "opening"

\* A mutant of RetryBoot: a failed boot is not repeated.
GiveUpBoot == UNCHANGED bootRetry

\* The catch of sendBootNotification.
RetryBoot == bootRetry' = (bootRetry \/ registered)

\* sendBootNotification, up to its await; refused, it fails at once.
SendBootNotification ==
    \/ /\ Sendable /\ boots[ws'] < MaxBoots
       /\ boots' = [boots EXCEPT ![ws'] = @ + 1]
       /\ UNCHANGED bootRetry
    \/ /\ ~Sendable
       /\ RetryBoot
       /\ UNCHANGED boots

\* A mutant of FlushConnectorStatuses: what was recorded before stays untold.
FlushNothing == UNCHANGED unsent

FlushConnectorStatuses == unsent' = (unsent /\ ~Sendable)

\* A mutant of SessionDisconnected: the heartbeat goes on.
SessionBootsAgain ==
    /\ bootStatus' = "unknown"
    /\ bootRetry' = \E s \in Sockets : boots[s] > 0
    /\ UNCHANGED <<heartbeat, unsent>>

\* handleClientDisconnected; the catch of a boot the close rejected runs after it.
SessionDisconnected ==
    /\ bootStatus' = "unknown"
    /\ heartbeat' = FALSE
    /\ bootRetry' = \E s \in Sockets : boots[s] > 0
    /\ UNCHANGED unsent

\* rejectAllPending, as the session sees it.
BootsRejected == boots' = NoBoots

\* A mutant of WakeReset: performReset listens once the close has begun, too late.
ResetSleepsOn == UNCHANGED reset

\* performReset goes on when the disconnected event comes, and arms a timeout.
WakeReset == reset' = IF reset \in {"waiting", "stranded"} THEN "rebooting" ELSE reset

\* client.connect(), which announces that it is connecting.
ConnectClient ==
    \/ Busy /\ UNCHANGED <<vars, storeVars>>
    \/ Connect /\ (TooEarly => ExploreEarly) /\ WritesLeft("CONNECTING") /\ PersistUnlessStopped("CONNECTING")

\* A mutant of StopClient: only an open connection is closed.
StopClientIfConnected == IF state = "connected" THEN Disconnect ELSE UNCHANGED vars

\* entry.client.disconnect()
StopClient == Disconnect

\* Nothing a stop would cross.
Quiet == starting = "no" /\ reset = "no" /\ boots = NoBoots /\ writes = {} /\ reconciled /\ ~early

-----------------------------------------------------------------------------
(* startDeviceInstance, stopDeviceInstance, disposeDeviceInstance,
   reconcileRuntimeOnStartup.  reconnectDeviceInstance is a stop and a start. *)

\* The user asks; the instance is read and the entry found.
StartInstance ==
    /\ registered /\ starting = "no"
    /\ starting' = "reading"
    /\ stopped' = FALSE
    /\ UNCHANGED <<vars, sessionVars, registered, manuallyStopped, reset, storeVars,
                   reconciled, crashes>>

\* The entry is in hand, whatever happened to it since.
StartWrites ==
    /\ WritesLeft("CONNECTING")
    /\ starting = "reading"
    /\ starting' = "writing"
    /\ manuallyStopped' = FALSE
    /\ Persist("CONNECTING")
    /\ UNCHANGED <<vars, sessionVars, registered, reset, historyVars>>

StartConnects ==
    /\ starting = "writing" /\ "CONNECTING" \notin writes
    /\ starting' = "no"
    /\ ConnectClient
    /\ UNCHANGED <<sessionVars, registered, manuallyStopped, reset, historyVars>>

StopInstance ==
    /\ WritesLeft("DISCONNECTED")
    /\ registered
    /\ manuallyStopped' = TRUE
    /\ StopClient
    /\ Persist("DISCONNECTED")
    /\ stopped' = Quiet
    /\ UNCHANGED <<sessionVars, registered, starting, reset, reconciled, crashes>>

\* PATCH with another csmsUrl; a status that says so already is not written.
DisposeInstance ==
    /\ WritesLeft("DISCONNECTED")
    /\ registered
    /\ registered' = FALSE
    /\ manuallyStopped' = TRUE
    /\ heartbeat' = FALSE /\ bootRetry' = FALSE
    /\ StopClient
    /\ IF status = "DISCONNECTED" THEN UNCHANGED storeVars ELSE Persist("DISCONNECTED")
    /\ stopped' = Quiet
    /\ UNCHANGED <<bootStatus, boots, unsent, starting, reset, reconciled, crashes>>

\* The first request after a restart.
Reconcile ==
    /\ ~reconciled /\ starting = "no"
    /\ reconciled' = TRUE
    /\ starting' = IF status \in Up THEN "reading" ELSE "no"
    /\ UNCHANGED <<vars, sessionVars, registered, manuallyStopped, reset, storeVars,
                   crashes, stopped>>

\* A write lands.
WriteLands(s) ==
    /\ s \in writes
    /\ status' = s
    /\ writes' = writes \ {s}
    /\ UNCHANGED <<vars, sessionVars, entryVars, historyVars>>

\* external: the process dies and another begins; writes in flight are lost, and a stop
\* that waited for one was not answered.
Crash ==
    /\ crashes < MaxCrashes /\ registered
    /\ crashes' = crashes + 1
    /\ state' = "disconnected" /\ ws' = NoSocket /\ manualClose' = TRUE
    /\ reconnectAttempt' = 0 /\ reconnectTimer' = FALSE /\ timeouts' = 0
    /\ pendingCalls' = NoCalls /\ socket' = [s \in Sockets |-> "closed"]
    /\ bootStatus' = "unknown" /\ heartbeat' = FALSE /\ bootRetry' = FALSE
    /\ boots' = NoBoots /\ unsent' = TRUE
    /\ manuallyStopped' = FALSE /\ starting' = "no" /\ reset' = "no"
    /\ writes' = {} /\ reconciled' = FALSE
    /\ early' = FALSE
    /\ stopped' = (stopped /\ writes = {})
    /\ UNCHANGED <<registered, status, connects>>

-----------------------------------------------------------------------------
(* The client's events, with what their listeners do *)

LinkOpens(s) ==
    /\ HandleOpen(s)
    /\ \/ /\ socket'[s] = "open" /\ registered
          /\ SendBootNotification
       \/ /\ ~(socket'[s] = "open" /\ registered)
          /\ UNCHANGED <<boots, bootRetry>>
    /\ UNCHANGED <<bootStatus, heartbeat, unsent, entryVars, storeVars, historyVars>>

LinkCloses(s) ==
    /\ HandleClose(s)
    /\ BootsRejected
    /\ IF registered THEN SessionDisconnected
       ELSE UNCHANGED <<bootStatus, heartbeat, bootRetry, unsent>>
    /\ PersistUnlessStopped("DISCONNECTED")
    /\ WakeReset
    /\ UNCHANGED <<registered, manuallyStopped, starting, historyVars>>

\* external: the CSMS begins to close the connection.
LinkPeerCloses(s) ==
    /\ PeerCloses(s)
    /\ UNCHANGED <<sessionVars, entryVars, storeVars, historyVars>>

LinkRetries ==
    /\ WritesLeft("CONNECTING")
    /\ Reconnect
    /\ PersistUnlessStopped("CONNECTING")
    /\ UNCHANGED <<sessionVars, entryVars, historyVars>>

-----------------------------------------------------------------------------
(* The boot session *)

BootInFlight(s) == boots[s] > 0 /\ boots' = [boots EXCEPT ![s] = @ - 1]

Answerable(s) == BootInFlight(s) /\ socket[s] \in {"open", "closing"}

\* handleBootResponse, which does not ask whether the session is disposed of, and the
\* listener, which does not ask whether the instance is stopped.
BootAccepted(s) ==
    /\ WritesLeft("CONNECTED")
    /\ Answerable(s)
    /\ bootStatus' = "accepted" /\ bootRetry' = FALSE /\ heartbeat' = TRUE
    /\ Persist("CONNECTED")
    /\ UNCHANGED <<vars, entryVars, historyVars>>
    /\ FlushConnectorStatuses

BootPending(s) ==
    /\ Answerable(s)
    /\ bootStatus' = "pending" /\ bootRetry' = TRUE
    /\ UNCHANGED <<vars, heartbeat, unsent, entryVars, storeVars, historyVars>>

BootRejected(s) ==
    /\ WritesLeft("FAULTED")
    /\ Answerable(s)
    /\ bootStatus' = "rejected" /\ bootRetry' = TRUE
    /\ PersistUnlessStopped("FAULTED")
    /\ UNCHANGED <<vars, heartbeat, unsent, entryVars, historyVars>>

\* An answer of another status, a CALLERROR, a failed send or the call's timeout.
BootFails(s) ==
    /\ BootInFlight(s)
    /\ RetryBoot
    /\ UNCHANGED <<vars, bootStatus, heartbeat, unsent, entryVars, storeVars, historyVars>>

\* The timer of scheduleBootRetry.
BootRetryFires ==
    /\ bootRetry
    /\ UNCHANGED <<vars, bootStatus, heartbeat, unsent, entryVars, storeVars, historyVars>>
    /\ \/ Sendable /\ bootRetry' = FALSE /\ boots[ws] < MaxBoots
                   /\ boots' = [boots EXCEPT ![ws] = @ + 1]
       \/ ~Sendable /\ bootRetry' = registered /\ UNCHANGED boots

\* TriggerMessage(BootNotification).
TriggerBootNotification ==
    /\ state = "connected" /\ registered
    /\ UNCHANGED <<vars, bootStatus, heartbeat, unsent, entryVars, storeVars, historyVars>>
    /\ SendBootNotification

\* setConnectorStatus: recorded, and sent if the boot was accepted.
SetConnectorStatus ==
    /\ UNCHANGED <<vars, bootStatus, heartbeat, bootRetry, boots, entryVars, storeVars,
                   historyVars>>
    /\ unsent' = ~(bootStatus = "accepted" /\ Sendable)

-----------------------------------------------------------------------------
(* The CSMS's Reset *)

\* handleReset: a message, so it may come while the connection is closing.
ResetArrives ==
    /\ registered /\ reset = "no"
    /\ ws # NoSocket /\ socket[ws] \in {"open", "closing"}
    /\ reset' = "stopping"
    /\ stopped' = FALSE
    /\ UNCHANGED <<vars, sessionVars, registered, manuallyStopped, starting, storeVars,
                   reconciled, crashes>>

\* performReset, once the transactions are stopped.  If the connection was lost meanwhile
\* there is no event to wait for, and disconnect() cancelled the reconnect.
ResetDisconnects ==
    /\ reset = "stopping"
    /\ reset' = IF Live = {} THEN "stranded" ELSE "waiting"
    /\ Disconnect
    /\ UNCHANGED <<sessionVars, registered, manuallyStopped, starting, storeVars, historyVars>>

\* The timeout of resetReconnectDelayMs.
ResetReconnects ==
    /\ reset = "rebooting"
    /\ reset' = "no"
    /\ ConnectClient
    /\ UNCHANGED <<sessionVars, registered, manuallyStopped, starting, historyVars>>

-----------------------------------------------------------------------------
LinkInit ==
    /\ Init
    /\ bootStatus = "unknown" /\ heartbeat = FALSE /\ bootRetry = FALSE
    /\ boots = NoBoots /\ unsent = TRUE
    /\ registered = TRUE /\ manuallyStopped = FALSE
    /\ starting = "no" /\ reset = "no"
    /\ status = "DISCONNECTED" /\ writes = {}
    /\ reconciled = TRUE /\ crashes = 0 /\ stopped = FALSE

LinkNext ==
    \/ StartInstance \/ StartWrites \/ StartConnects
    \/ StopInstance \/ DisposeInstance \/ Reconcile \/ Crash
    \/ \E s \in ConnectionStatuses : WriteLands(s)
    \/ \E s \in Sockets : LinkOpens(s) \/ LinkPeerCloses(s) \/ LinkCloses(s)
    \/ \E s \in Sockets : BootAccepted(s) \/ BootPending(s) \/ BootRejected(s) \/ BootFails(s)
    \/ LinkRetries \/ BootRetryFires \/ TriggerBootNotification \/ SetConnectorStatus
    \/ ResetArrives \/ ResetDisconnects \/ ResetReconnects

LinkSpec == LinkInit /\ [][LinkNext]_linkVars

-----------------------------------------------------------------------------
(* Safety *)

\* Every variable has its type, and no BootNotification waits on a socket that is gone.
LinkTypeOK ==
    /\ bootStatus \in BootStatuses
    /\ heartbeat \in BOOLEAN /\ bootRetry \in BOOLEAN /\ unsent \in BOOLEAN
    /\ registered \in BOOLEAN /\ manuallyStopped \in BOOLEAN
    /\ reconciled \in BOOLEAN /\ stopped \in BOOLEAN
    /\ boots \in [Sockets -> 0..MaxBoots]
    /\ \A s \in Sockets : boots[s] > 0 => socket[s] # "closed"
    /\ starting \in {"no", "reading", "writing"}
    /\ reset \in {"no", "stopping", "waiting", "stranded", "rebooting"}
    /\ status \in ConnectionStatuses
    /\ writes \subseteq ConnectionStatuses
    /\ crashes \in 0..MaxCrashes

\* A connected station that the CSMS has not accepted is about to ask again or waits for
\* the answer: no order of answers, failures, retries, triggers and reconnects leaves it
\* connected and unregistered for good (scheduleBootRetry, session.ts:220).
KeepsBooting ==
    registered /\ state = "connected" =>
        bootStatus = "accepted" \/ bootRetry \/ boots # NoBoots

\* Without a connection nothing of the last one is left: no heartbeat runs and no old
\* acceptance lets messages through (handleClientDisconnected, session.ts:141).
RegistrationNeedsLink ==
    registered /\ Live = {} => bootStatus = "unknown" /\ ~heartbeat

\* A CSMS that accepted the station is told every connector status, also those recorded
\* while there was no connection or no acceptance (setConnectorStatus, session.ts:104).
StatusIsReported ==
    registered /\ bootStatus = "accepted" /\ state = "connected" /\ ~early => ~unsent

\* A stop or disposal that met nothing under way is final: no reconnect, boot retry,
\* write or restart of the process brings the instance back, or up in the database
\* (stopDeviceInstance, runtime.ts:239; reconcileRuntimeOnStartup, 339).
StopIsFinal ==
    stopped => /\ state \in {"disconnected", "closing"} /\ timeouts = 0
               /\ starting = "no"
               /\ writes \subseteq {"DISCONNECTED"}
               /\ writes = {} => status = "DISCONNECTED"

\* A Reset that waits for the close of a connection has that close ahead of it: no close
\* goes by unheard, and the reconnect is armed by it (performReset, remote-commands.ts:530).
ResetIsWoken == reset = "waiting" => Live # {}
=============================================================================

--------------------------- MODULE Configuration ---------------------------
(***************************************************************************)
(* HeartbeatInterval: the stored row (prisma-configuration-store.ts), the  *)
(* period of the session's timer (ocpp/session.ts), and the two that write *)
(* both: an accepted boot and ChangeConfiguration.  Times are in units of  *)
(* which LongestTimer is the most a Node timer can take.                   *)
(***************************************************************************)
EXTENDS Naturals

CONSTANTS
    ConfigJobs,                     \* handlers that run at a time
    LongestTimer,                   \* 2147483 seconds
    DefaultHeartbeat,               \* 300 seconds
    MaxConfigCommands

ASSUME DefaultAssumption == LongestTimer \in Nat /\ DefaultHeartbeat \in 1..LongestTimer

VARIABLES
    bootAccepted,       \* session.bootStatus = "accepted"
    storedHeartbeat,    \* the row, or the default without one
    heartbeatPeriod,    \* of heartbeatTimer
    configJob, configCommands,
    unsettled           \* history: two writers crossed, a write failed, or the last boot's
                        \* interval was too long to store

configVars == <<bootAccepted, storedHeartbeat, heartbeatPeriod, configJob, configCommands, unsettled>>

\* Intervals that a peer may send; NoTimer; and a timer that overflowed and fires each millisecond.
Sent == 0..LongestTimer + 1
NoTimer == 0
Flood == LongestTimer + 1

NoConfigJob == [at |-> "idle", value |-> 0, boot |-> FALSE]
ConfigResting == \A j \in ConfigJobs : configJob[j].at = "idle"

\* Where ChangeConfiguration and the store accept.
Storable(v) == v \in 1..LongestTimer

\* setInterval
Period(v) == IF v > LongestTimer THEN Flood ELSE v

ConfigInit ==
    /\ bootAccepted = FALSE /\ storedHeartbeat = DefaultHeartbeat /\ heartbeatPeriod = NoTimer
    /\ configJob = [j \in ConfigJobs |-> NoConfigJob] /\ configCommands = 0 /\ unsettled = FALSE

ConfigCommand(j) ==
    /\ configJob[j].at = "idle" /\ configCommands < MaxConfigCommands
    /\ configCommands' = configCommands + 1

\* BootNotification.conf Accepted: the timer at once, the row later and by itself.  It makes
\* up for what was unsettled, unless another still writes.
BootSets(j, v) ==
    /\ ConfigCommand(j)
    /\ bootAccepted' = TRUE
    /\ LET used == IF v = 0 THEN DefaultHeartbeat ELSE v
       IN  /\ heartbeatPeriod' = Period(used)
           /\ configJob' = [configJob EXCEPT ![j] = IF Storable(used) THEN [at |-> "write", value |-> used, boot |-> TRUE]
                                                    ELSE NoConfigJob]
           /\ unsettled' = (~ConfigResting \/ ~Storable(used))
    /\ UNCHANGED storedHeartbeat

\* ChangeConfiguration; a value that it rejects changes nothing.
ChangeHeartbeat(j, v) ==
    /\ Storable(v) /\ ConfigCommand(j)
    /\ configJob' = [configJob EXCEPT ![j] = [at |-> "write", value |-> v, boot |-> FALSE]]
    /\ unsettled' = (unsettled \/ ~ConfigResting)
    /\ UNCHANGED <<bootAccepted, storedHeartbeat, heartbeatPeriod>>

\* The row is written.
HeartbeatStored(j) ==
    /\ configJob[j].at = "write"
    /\ storedHeartbeat' = configJob[j].value
    /\ configJob' = [configJob EXCEPT ![j] = IF @.boot THEN NoConfigJob ELSE [@ EXCEPT !.at = "apply"]]
    /\ UNCHANGED <<bootAccepted, heartbeatPeriod, configCommands, unsettled>>

\* The write fails; of a boot's only the log says so.
HeartbeatNotStored(j) ==
    /\ configJob[j].at = "write"
    /\ configJob' = [configJob EXCEPT ![j] = NoConfigJob]
    /\ unsettled' = (unsettled \/ configJob[j].boot)
    /\ UNCHANGED <<bootAccepted, storedHeartbeat, heartbeatPeriod, configCommands>>

\* A mutant of SetHeartbeatInterval: whether the station is accepted is not asked.
SetHeartbeatAnyway(j) ==
    /\ configJob[j].at = "apply"
    /\ heartbeatPeriod' = configJob[j].value
    /\ configJob' = [configJob EXCEPT ![j] = NoConfigJob]
    /\ UNCHANGED <<bootAccepted, storedHeartbeat, configCommands, unsettled>>

\* session.setHeartbeatInterval, once the row is written.
SetHeartbeatInterval(j) ==
    /\ configJob[j].at = "apply"
    /\ heartbeatPeriod' = IF bootAccepted THEN configJob[j].value ELSE heartbeatPeriod
    /\ configJob' = [configJob EXCEPT ![j] = NoConfigJob]
    /\ UNCHANGED <<bootAccepted, storedHeartbeat, configCommands, unsettled>>

\* handleClientDisconnected
HeartbeatEnds ==
    /\ bootAccepted
    /\ bootAccepted' = FALSE /\ heartbeatPeriod' = NoTimer
    /\ UNCHANGED <<storedHeartbeat, configJob, configCommands, unsettled>>

ConfigNext ==
    \/ \E j \in ConfigJobs :
         \/ \E v \in Sent : BootSets(j, v) \/ ChangeHeartbeat(j, v)
         \/ HeartbeatStored(j) \/ HeartbeatNotStored(j) \/ SetHeartbeatInterval(j)
    \/ HeartbeatEnds

ConfigSpec == ConfigInit /\ [][ConfigNext]_configVars

-----------------------------------------------------------------------------
\* At rest the heartbeat runs while the CSMS accepts the station, and then at the stored
\* interval, whatever links and boots came between a ChangeConfiguration and its write,
\* unless writers crossed, a boot's write failed or its interval is too long for the store
\* (handleBootResponse, session.ts:194; runtime.ts:157; remote-commands.ts:575-577).
HeartbeatIsStored ==
    ~unsettled /\ ConfigResting => heartbeatPeriod = IF bootAccepted THEN storedHeartbeat ELSE NoTimer
=============================================================================

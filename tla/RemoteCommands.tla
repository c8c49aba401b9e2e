--------------------------- MODULE RemoteCommands ---------------------------
(***************************************************************************)
(* The CSMS's commands that start, stop, reset, reconfigure or disable a   *)
(* connector (ocpp/remote-commands.ts), with the reservations they redeem. *)
(*                                                                         *)
(* row stands for the persisted connector state that prepareStart,         *)
(* cancelStart, onRemoteTransactionStarted and onRemoteTransactionStopped  *)
(* read and write (see ConnectorSession for what it is in full): free, in  *)
(* use, or the tag of the remote attempt that waits for a vehicle.         *)
(***************************************************************************)
EXTENDS Reservations, FiniteSets

CONSTANT MaxTransactions   \* bound on the transactions the CSMS opens
ASSUME RemoteAssumption == MaxTransactions \in Nat

VARIABLES
    active,         \* activeTransactions: its transaction, or 0
    pendingStarts,
    row, rowTx,     \* rowTx: the adopted transaction
    sim, handle,    \* transactionSimState, and its meterValuesTimer
    loops,          \* meter value intervals that run
    issued,         \* transactions whose id has reached the station
    stops,          \* StopTransaction calls of each
    doubled,        \* history: a start was accepted next to another start or a stop
    restopped,      \* history: a stop was accepted for what was being stopped
    raced           \* history: a stop or a reconfiguration met a loop being started

remoteVars == <<active, pendingStarts, row, rowTx, sim, handle, loops, issued, stops,
                doubled, restopped, raced>>
commandVars == <<reservationVars, remoteVars>>

Transactions == 1..MaxTransactions

\* A start between its acceptance and its end.
StartPlaces == {"begin", "authorize", "prepare", "waiting", "call", "rated", "loop",
                "adopt", "finally"}
Starting(c) == {j \in Jobs : job[j].c = c /\ job[j].at \in StartPlaces}
StopPlaces == {"stop", "sample", "stopping"}
UnderWay(c) ==
    \/ c \in pendingStarts \/ active[c] # 0
    \/ \E j \in Jobs : job[j].c = c /\ job[j].at \in StartPlaces \cup StopPlaces
Stopping(tx) ==
    {j \in Jobs : \/ job[j].at \in StopPlaces /\ job[j].tx = tx
                  \/ \E c \in Connectors : <<c, tx>> \in job[j].todo}

Keep(vars) == UNCHANGED vars
Store == <<reservations, timers, armed>>
Meter == <<sim, handle, loops>>
Histories == <<disposed, doubled, restopped, raced>>

-----------------------------------------------------------------------------
(* RemoteStartTransaction *)

\* A mutant of Accept: the connector is only marked once the start runs.
AcceptUnmarked(j, c) == UNCHANGED pendingStarts /\ deferred' = Append(deferred, j)

Accept(j, c) ==
    /\ pendingStarts' = pendingStarts \cup {c}
    /\ deferred' = Append(deferred, j)

\* Accepted at once, or once a charging profile is stored.
AcceptOrStore(j, start) ==
    \/ Accept(j, start.c) /\ job' = [job EXCEPT ![j] = [start EXCEPT !.at = "begin"]]
    \/ job' = [job EXCEPT ![j] = [start EXCEPT !.at = "profile"]]
       /\ UNCHANGED <<pendingStarts, deferred>>

RemoteStart(j, c, tag) ==
    /\ c \notin pendingStarts /\ active[c] = 0
    /\ \/ connStatus[c] = "Reserved"
          /\ Begin(j, [Idle EXCEPT !.op = "redeem", !.at = "list", !.c = c, !.tag = tag])
          /\ UNCHANGED <<pendingStarts, doubled, deferred>>
       \/ connStatus[c] \in {"Available", "Preparing"}
          /\ ~disposed /\ job[j] = Idle /\ commands < MaxCommands /\ commands' = commands + 1
          /\ AcceptOrStore(j, [Idle EXCEPT !.op = "start", !.c = c, !.tag = tag])
          /\ doubled' = (doubled \/ \E i \in Jobs : job[i].c = c /\ job[i].at \in StopPlaces)
    /\ Keep(<<connStatus, Store, disposed, crossed, active, row, rowTx, Meter, issued, stops,
              restopped, raced>>)

\* consumeReservation has answered true: nothing is tested again.
Redeemed(j) ==
    /\ At(j, "redeemed")
    /\ AcceptOrStore(j, [job[j] EXCEPT !.op = "start"])
    /\ doubled' = (doubled \/ UnderWay(job[j].c))
    /\ Keep(<<connStatus, Store, commands, disposed, crossed, active, row, rowTx, Meter, issued,
              stops, restopped, raced>>)

\* tryStoreProfile is done: nothing is tested again.
ProfileStored(j) ==
    /\ At(j, "profile")
    /\ Accept(j, job[j].c) /\ job' = [job EXCEPT ![j].at = "begin"]
    /\ doubled' = (doubled \/ UnderWay(job[j].c))
    /\ Keep(<<connStatus, Store, commands, disposed, crossed, active, row, rowTx, Meter, issued,
              stops, restopped, raced>>)

StartBegins(j) ==
    /\ At(j, "begin") /\ RunsNow(j)
    /\ job' = [job EXCEPT ![j].at = "authorize"]
    /\ Keep(<<connStatus, Store, commands, disposed, crossed, remoteVars>>)

\* The catch of startTransaction.
StartFails(j) == SetStatus(job[j].c, "Available") /\ Goto(j, "finally")

\* AuthorizeRemoteTxRequests is read, and Authorize answered if it is true.
Authorized(j) ==
    /\ At(j, "authorize")
    /\ \/ Goto(j, "prepare") /\ UNCHANGED connStatus
       \/ Goto(j, "finally") /\ UNCHANGED connStatus
       \/ StartFails(j)
    /\ Keep(<<Store, commands, disposed, crossed, remoteVars>>)

\* prepareStart begins: startChargingSession claims the row, or throws.
Prepares(j) ==
    /\ At(j, "prepare")
    /\ LET c == job[j].c IN
       IF row[c] = "free"
       THEN /\ row' = [row EXCEPT ![c] = job[j].tag]
            /\ SetStatus(c, "Preparing") /\ Goto(j, "waiting")
       ELSE StartFails(j) /\ UNCHANGED row
    /\ Keep(<<Store, commands, crossed, active, pendingStarts, rowTx, Meter, issued, stops, Histories>>)

\* prepareStart polls: the attempt is gone, or a vehicle is connected.
PreparePolls(j) ==
    /\ At(j, "waiting")
    /\ LET c == job[j].c IN
       IF row[c] = job[j].tag
       THEN SetStatus(c, "Preparing") /\ Goto(j, "call")
       ELSE Goto(j, "finally") /\ UNCHANGED connStatus
    /\ Keep(<<Store, commands, disposed, crossed, remoteVars>>)

\* A mutant of StartAnswered: the transaction is not entered.
StartUnrecorded(j) ==
    /\ At(j, "call")
    /\ Cardinality(issued) < MaxTransactions
    /\ LET tx == Cardinality(issued) + 1 IN
       issued' = issued \cup {tx} /\ job' = [job EXCEPT ![j].at = "rated", ![j].tx = tx]
    /\ Keep(<<deferred, connStatus, active>>)
    /\ Keep(<<Store, commands, crossed, pendingStarts, row, rowTx, Meter, stops, Histories>>)

\* StartTransaction is answered; an answer that is lost counts as a failure.
StartAnswered(j) ==
    /\ At(j, "call")
    /\ \/ /\ Cardinality(issued) < MaxTransactions
          /\ LET tx == Cardinality(issued) + 1 IN
             /\ issued' = issued \cup {tx}
             /\ active' = [active EXCEPT ![job[j].c] = tx]
             /\ job' = [job EXCEPT ![j].at = "rated", ![j].tx = tx]
             /\ UNCHANGED <<deferred, connStatus>>
       \/ StartFails(j) /\ UNCHANGED <<issued, active>>
    /\ Keep(<<Store, commands, crossed, pendingStarts, row, rowTx, Meter, stops, Histories>>)

\* getRatedPowerKw has answered: the simulation state is set, whatever came in between.
StartSimulates(j) ==
    /\ At(j, "rated")
    /\ sim' = [sim EXCEPT ![job[j].c] = TRUE]
    /\ handle' = [handle EXCEPT ![job[j].c] = FALSE]
    /\ SetStatus(job[j].c, "Charging") /\ Goto(j, "loop")
    /\ raced' = (raced \/ active[job[j].c] = 0)
    /\ Keep(<<Store, commands, crossed, active, pendingStarts, row, rowTx, loops, issued, stops,
              disposed, doubled, restopped>>)

\* stopMeterValuesLoop
StopLoop(c) ==
    /\ loops' = [loops EXCEPT ![c] = IF handle[c] THEN @ - 1 ELSE @]
    /\ handle' = [handle EXCEPT ![c] = FALSE]

\* startMeterValuesLoop, after its await: an interval of 0 means none.
StartLoop(c) ==
    \/ UNCHANGED <<loops, handle>>
    \/ /\ sim[c]
       /\ loops' = [loops EXCEPT ![c] = @ + 1]
       /\ handle' = [handle EXCEPT ![c] = TRUE]

StartLoops(j) ==
    /\ At(j, "loop")
    /\ LET c == job[j].c IN
       /\ StartLoop(c)
       /\ raced' = (raced \/ handle[c])
       /\ Goto(j, IF sim[c] /\ active[c] # 0 THEN "adopt" ELSE "finally")
    /\ Keep(<<connStatus, Store, commands, crossed, active, pendingStarts, row, rowTx, sim, issued,
              stops, disposed, doubled, restopped>>)

\* onRemoteTransactionStarted: adoptRemoteSession, whose refusal is only logged.
StartAdopted(j) ==
    /\ At(j, "adopt")
    /\ LET c == job[j].c IN
       IF row[c] \in {"free", job[j].tag}
       THEN row' = [row EXCEPT ![c] = "busy"] /\ rowTx' = [rowTx EXCEPT ![c] = job[j].tx]
       ELSE UNCHANGED <<row, rowTx>>
    /\ Goto(j, "finally")
    /\ Keep(<<connStatus, Store, commands, crossed, active, pendingStarts, Meter, issued, stops, Histories>>)

\* The connectors of cs have their waiting attempts released.
CancelStart(cs) ==
    LET released == {c \in cs : row[c] \in Tags} IN
    /\ row' = [c \in Connectors |-> IF c \in released THEN "free" ELSE row[c]]
    /\ connStatus' = [c \in Connectors |-> IF c \in released THEN "Available" ELSE connStatus[c]]

StartEnds(j) ==
    /\ At(j, "finally")
    /\ CancelStart(IF active[job[j].c] = 0 THEN {job[j].c} ELSE {})
    /\ pendingStarts' = pendingStarts \ {job[j].c}
    /\ Done(j)
    /\ Keep(<<Store, commands, crossed, active, rowTx, Meter, issued, stops, Histories>>)

-----------------------------------------------------------------------------
(* RemoteStopTransaction, Reset, dispose *)

\* The connector's entry is found.
RemoteStop(j, c) ==
    /\ ~disposed /\ active[c] # 0
    /\ commands < MaxCommands /\ commands' = commands + 1 /\ job[j] = Idle
    /\ job' = [job EXCEPT ![j] = [Idle EXCEPT !.op = "stop", !.at = "stop", !.c = c, !.tx = active[c]]]
    /\ deferred' = Append(deferred, j)
    /\ restopped' = (restopped \/ Stopping(active[c]) # {})
    /\ Keep(<<connStatus, Store, crossed, active, pendingStarts, row, rowTx, Meter, issued, stops,
              disposed, doubled, raced>>)

\* There is no entry, but requestStop finds the row charging: its stopChargingSession calls
\* StopTransaction by itself.
RequestStop(j, c) ==
    /\ row[c] = "busy" /\ rowTx[c] # 0 /\ \A d \in Connectors : active[d] # rowTx[c]
    /\ Begin(j, [Idle EXCEPT !.op = "requested", !.at = "requested", !.c = c, !.tx = rowTx[c]])
    /\ deferred' = Append(deferred, j)
    /\ restopped' = (restopped \/ Stopping(rowTx[c]) # {})
    /\ Keep(<<connStatus, Store, crossed, active, pendingStarts, row, rowTx, Meter, issued, stops,
              disposed, doubled, raced>>)

\* stopChargingSession, as far as this module sees it.
FreeRow(c) ==
    /\ row' = [row EXCEPT ![c] = "free"] /\ rowTx' = [rowTx EXCEPT ![c] = 0]

RequestedStops(j) ==
    /\ At(j, "requested") /\ RunsNow(j)
    /\ LET c == job[j].c IN
       /\ stops' = IF rowTx[c] = 0 THEN stops ELSE [stops EXCEPT ![rowTx[c]] = @ + 1]
       /\ FreeRow(c) /\ SetStatus(c, "Available")
    /\ job' = [job EXCEPT ![j] = Idle]
    /\ Keep(<<Store, commands, crossed, active, pendingStarts, Meter, issued, Histories>>)

\* A mutant of StopForgets: the meter values go on.
StopForgetsLoop(j, c) == UNCHANGED <<loops, handle>> /\ active' = [active EXCEPT ![c] = 0]

\* stopTransaction up to its first await: the entry of the connector goes, whosever it is.
StopForgets(j, c) == StopLoop(c) /\ active' = [active EXCEPT ![c] = 0]

\* The start of this connector has yet to arm its meter values.
LoopComes(c) == \E i \in Jobs : job[i].c = c /\ job[i].at \in {"rated", "loop", "restart"}

StopBegins(j) ==
    /\ At(j, "stop") /\ (job[j].op = "stop" => RunsNow(j))
    /\ job[j].op = "reset" => UNCHANGED deferred
    /\ StopForgets(j, job[j].c)
    /\ raced' = (raced \/ LoopComes(job[j].c))
    /\ job' = [job EXCEPT ![j].at = "sample"]
    /\ Keep(<<connStatus, Store, commands, crossed, pendingStarts, row, rowTx, sim, issued, stops,
              disposed, doubled, restopped>>)

\* The final meter values are built and StopTransaction is called.
StopSamples(j) ==
    /\ At(j, "sample")
    /\ sim' = [sim EXCEPT ![job[j].c] = FALSE] /\ handle' = [handle EXCEPT ![job[j].c] = FALSE]
    /\ stops' = [stops EXCEPT ![job[j].tx] = @ + 1]
    /\ Goto(j, "stopping")
    /\ Keep(<<connStatus, Store, commands, crossed, active, pendingStarts, row, rowTx, loops, issued,
              Histories>>)

\* Where performReset goes on: the next transaction of its snapshot, or the disconnection
\* (see DeviceLink).
NextStop(j) ==
    \/ job[j].todo = {} /\ job' = [job EXCEPT ![j] = Idle]
    \/ \E entry \in job[j].todo :
         job' = [job EXCEPT ![j].at = "stop", ![j].c = entry[1], ![j].tx = entry[2],
                            ![j].todo = @ \ {entry}]

\* StopTransaction is answered or has failed: Finishing, then Available, then
\* onRemoteTransactionStopped.
StopAnswered(j) ==
    /\ At(j, "stopping")
    /\ SetStatus(job[j].c, "Available")
    /\ FreeRow(job[j].c)
    /\ NextStop(j)
    /\ UNCHANGED deferred
    /\ Keep(<<Store, commands, crossed, active, pendingStarts, Meter, issued, stops, Histories>>)

Reset(j) ==
    /\ Begin(j, [Idle EXCEPT !.op = "reset", !.at = "reset"]) /\ deferred' = Append(deferred, j)
    /\ Keep(<<connStatus, Store, disposed, crossed, remoteVars>>)

\* performReset cancels the attempts that wait for a vehicle.
ResetCancels(j) ==
    /\ At(j, "reset") /\ RunsNow(j)
    /\ CancelStart(pendingStarts)
    /\ job' = [job EXCEPT ![j].at = "snapshot"]
    /\ Keep(<<Store, commands, crossed, active, pendingStarts, rowTx, Meter, issued, stops, Histories>>)

\* It forgets the pending starts, which go on, and takes a snapshot of the transactions.
ResetSnapshots(j) ==
    /\ At(j, "snapshot")
    /\ pendingStarts' = {}
    /\ doubled' = (doubled \/ \E c \in Connectors : Starting(c) # {})
    /\ LET open == {<<c, active[c]>> : c \in {d \in Connectors : active[d] # 0}} IN
       /\ restopped' = (restopped \/ \E entry \in open : Stopping(entry[2]) # {})
       /\ \/ open = {} /\ job' = [job EXCEPT ![j] = Idle]
          \/ \E entry \in open :
               job' = [job EXCEPT ![j].at = "stop", ![j].c = entry[1], ![j].tx = entry[2],
                                  ![j].todo = open \ {entry}]
    /\ UNCHANGED deferred
    /\ Keep(<<connStatus, Store, commands, crossed, active, row, rowTx, Meter, issued, stops,
              disposed, raced>>)

\* dispose: the handlers go, jobs under way go on.
Dispose ==
    /\ ~disposed /\ disposed' = TRUE
    /\ CancelStart(pendingStarts) /\ pendingStarts' = {}
    /\ doubled' = (doubled \/ \E c \in Connectors : Starting(c) # {})
    /\ raced' = (raced \/ \E c \in Connectors : LoopComes(c))
    /\ loops' = [c \in Connectors |-> IF handle[c] THEN loops[c] - 1 ELSE loops[c]]
    /\ handle' = [c \in Connectors |-> FALSE]
    /\ timers' = [r \in ReservationIds |-> "none"]
    /\ armed' = [r \in ReservationIds |-> Cancelled(r)]
    /\ Keep(<<reservations, job, deferred, commands, crossed, active, rowTx, sim, issued, stops,
              restopped>>)

-----------------------------------------------------------------------------
(* ChangeConfiguration of MeterValueSampleInterval, ChangeAvailability *)

ChangeInterval(j) ==
    /\ Begin(j, [Idle EXCEPT !.op = "config", !.at = "config"])
    /\ Keep(<<connStatus, Store, deferred, disposed, crossed, remoteVars>>)

\* The value is stored and the loop over activeTransactions moves on to a connector it
\* has not visited, or is over.
IntervalStops(j) ==
    /\ At(j, "config")
    /\ \/ /\ \A c \in Connectors : active[c] # 0 => <<c, 0>> \in job[j].todo
          /\ Done(j) /\ Keep(<<loops, handle, raced>>)
       \/ \E c \in Connectors :
            /\ active[c] # 0 /\ <<c, 0>> \notin job[j].todo
            /\ StopLoop(c)
            /\ raced' = (raced \/ LoopComes(c))
            /\ job' = [job EXCEPT ![j].at = "restart", ![j].c = c, ![j].todo = @ \cup {<<c, 0>>}]
            /\ UNCHANGED deferred
    /\ Keep(<<connStatus, Store, commands, crossed, active, pendingStarts, row, rowTx, sim, issued,
              stops, disposed, doubled, restopped>>)

IntervalStarts(j) ==
    /\ At(j, "restart")
    /\ StartLoop(job[j].c)
    /\ raced' = (raced \/ handle[job[j].c])
    /\ Goto(j, "config")
    /\ Keep(<<connStatus, Store, commands, crossed, active, pendingStarts, row, rowTx, sim, issued,
              stops, disposed, doubled, restopped>>)

\* The updates are computed now and made later; an active connector is answered Scheduled,
\* which nothing carries out.
ChangeAvailability(j, cs, operative) ==
    /\ LET updates == {c \in cs : IF operative THEN connStatus[c] = "Unavailable" ELSE active[c] = 0}
       IN Begin(j, [Idle EXCEPT !.op = "availability", !.todo = updates \X {0},
                                !.at = IF operative THEN "operative" ELSE "inoperative"])
    /\ deferred' = Append(deferred, j)
    /\ Keep(<<connStatus, Store, disposed, crossed, remoteVars>>)

AvailabilityChanges(j) ==
    /\ job[j].at \in {"operative", "inoperative"} /\ RunsNow(j)
    /\ connStatus' = [c \in Connectors |->
          IF <<c, 0>> \notin job[j].todo THEN connStatus[c]
          ELSE IF At(j, "operative") THEN "Available" ELSE "Unavailable"]
    /\ job' = [job EXCEPT ![j] = Idle]
    /\ Keep(<<Store, commands, disposed, crossed, remoteVars>>)

-----------------------------------------------------------------------------
(* What the connector session does by itself: see ConnectorSession *)

LocalStart(c) ==
    /\ row[c] = "free" /\ row' = [row EXCEPT ![c] = "busy"]
    /\ commands < MaxCommands /\ commands' = commands + 1
    /\ SetStatus(c, "Charging")
    /\ Keep(<<Store, job, deferred, crossed, active, pendingStarts, rowTx, Meter, issued, stops, Histories>>)

\* The session of the row is stopped on the panel; activeTransactions is not told.
LocalStop(c) ==
    /\ row[c] = "busy" /\ FreeRow(c) /\ SetStatus(c, "Available")
    /\ stops' = IF rowTx[c] = 0 THEN stops ELSE [stops EXCEPT ![rowTx[c]] = @ + 1]
    /\ Keep(<<Store, job, deferred, commands, crossed, active, pendingStarts, Meter, issued, Histories>>)

\* A waiting attempt expires, or its vehicle leaves.
AttemptExpires(c) ==
    /\ row[c] \in Tags /\ CancelStart({c})
    /\ Keep(<<Store, job, deferred, commands, crossed, active, pendingStarts, rowTx, Meter, issued,
              stops, Histories>>)

-----------------------------------------------------------------------------
RemoteInit ==
    /\ ReservationInit
    /\ active = [c \in Connectors |-> 0] /\ pendingStarts = {}
    /\ row = [c \in Connectors |-> "free"] /\ rowTx = [c \in Connectors |-> 0]
    /\ sim = [c \in Connectors |-> FALSE] /\ handle = [c \in Connectors |-> FALSE]
    /\ loops = [c \in Connectors |-> 0]
    /\ issued = {} /\ stops = [tx \in Transactions |-> 0]
    /\ doubled = FALSE /\ restopped = FALSE /\ raced = FALSE

StartStep(j) ==
    \/ \E c \in Connectors, tag \in Tags : RemoteStart(j, c, tag)
    \/ Redeemed(j) \/ ProfileStored(j) \/ StartBegins(j) \/ Authorized(j) \/ Prepares(j)
    \/ PreparePolls(j) \/ StartAnswered(j) \/ StartSimulates(j) \/ StartLoops(j)
    \/ StartAdopted(j) \/ StartEnds(j)

StopStep(j) ==
    \/ \E c \in Connectors : RemoteStop(j, c) \/ RequestStop(j, c)
    \/ RequestedStops(j) \/ StopBegins(j) \/ StopSamples(j) \/ StopAnswered(j)
    \/ Reset(j) \/ ResetCancels(j) \/ ResetSnapshots(j)
    \/ ChangeInterval(j) \/ IntervalStops(j) \/ IntervalStarts(j)
    \/ \E cs \in (SUBSET Connectors) \ {{}}, operative \in BOOLEAN : ChangeAvailability(j, cs, operative)
    \/ AvailabilityChanges(j)

RemoteNext ==
    \/ \E j \in Jobs : StartStep(j) \/ StopStep(j)
    \/ \E j \in Jobs : ReservationStep(j) /\ UNCHANGED remoteVars
    \/ Dispose
    \/ \E c \in Connectors : LocalStart(c) \/ LocalStop(c) \/ AttemptExpires(c)

RemoteSpec == RemoteInit /\ [][RemoteNext]_commandVars

-----------------------------------------------------------------------------
(* Safety *)

\* Unless a start was accepted next to another one (the test of line 414 is not repeated
\* after the awaits of 418 and 426, and a reset forgets the starts that go on), a connector
\* has one StartTransaction call or one transaction at a time.
StartCallExclusive ==
    ~doubled => \A c \in Connectors :
        /\ Cardinality(Starting(c)) <= 1
        /\ \A j \in Starting(c) : job[j].at \in {"prepare", "waiting", "call"} => active[c] = 0

\* Unless starts or stops of one connector crossed, a transaction whose id the station has
\* got is still known to it, being stopped, or stopped (stopTransaction deletes the
\* entry of its connector, whosever it is: remote-commands.ts:439, 508).
NoForgottenTransaction ==
    ~doubled /\ ~restopped => \A tx \in issued :
        \/ \E c \in Connectors : active[c] = tx
        \/ stops[tx] > 0
        \/ Stopping(tx) # {}

\* Unless a stop or a new interval met a loop about to start (359-372, 578-581), at most
\* one meter value interval runs per connector, its handle is kept, and it ends with the
\* transaction.
LoopsOwned ==
    ~raced /\ ~doubled /\ ~restopped => \A c \in Connectors :
        /\ loops[c] = IF handle[c] THEN 1 ELSE 0
        /\ sim[c] => \/ active[c] # 0
                     \/ \E j \in Jobs : job[j].c = c /\ job[j].at = "sample"
=============================================================================

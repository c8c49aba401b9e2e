--------------------------- MODULE MeterRegister ---------------------------
(***************************************************************************)
(* What the CSMS is told of one connector's energy register.  It has two   *)
(* sources: a transaction the station began is read against the sum of the *)
(* session rows (device-instances/connector-sessions.ts), one the CSMS     *)
(* began against a figure in memory (ocpp/remote-commands.ts).  They meet  *)
(* in the connector row, which either side may stop.                       *)
(*                                                                         *)
(* Amounts are half Wh, so that rounding shows; a session draws one at     *)
(* each tick of the clock.  Handshakes are one step here: ConnectorSession *)
(* has them, MeterLoop the loops, ChargeEnergy the rates.                  *)
(***************************************************************************)
EXTENDS Naturals, Sequences

CONSTANTS
    RegisterJobs,       \* handlers that run at a time
    MaxClock, MaxTold, MaxRegisterCommands, MaxRegisterRestarts

VARIABLES
    meterClock,
    records,            \* the sum of energyWh over the connector's session rows
    meterRow,           \* the connector row
    localLoop,          \* a meter loop of connector-sessions is armed
    memory,             \* meterRegisterWh.get(connectorId)
    remoteSim,          \* activeTransactions and transactionSimState of the connector
    told,               \* what the CSMS was told of each transaction
    registerJob, registerCommands,
    clearings, registerRestarts, stopsCrossed       \* history

registerVars == <<meterClock, records, meterRow, localLoop, memory, remoteSim, told, registerJob,
                  registerCommands, clearings, registerRestarts, stopsCrossed>>

NoId == 0
Rounded(amount) == 2 * ((amount + 1) \div 2)

IdleRow == [status |-> "Available", remote |-> FALSE, id |-> NoId, since |-> 0]
NoSim == [id |-> NoId, meterStart |-> 0, since |-> 0]
NoRegisterJob == [at |-> "idle", id |-> NoId, amount |-> 0]

Start(by, era, meterStart) ==
    [by |-> by, era |-> era, meterStart |-> meterStart, last |-> meterStart, fell |-> FALSE,
     meterStop |-> meterStart, used |-> 0, stoppedBy |-> {}, ended |-> era]

RegisterInit ==
    /\ meterClock = 0 /\ records = 0 /\ meterRow = IdleRow /\ localLoop = FALSE
    /\ memory = 0 /\ remoteSim = NoSim /\ told = << >>
    /\ registerJob = [j \in RegisterJobs |-> NoRegisterJob] /\ registerCommands = 0
    /\ clearings = 0 /\ registerRestarts = 0 /\ stopsCrossed = FALSE

RegisterAt(j, at) == registerJob[j].at = at
RegisterGoes(j, at, id, amount) ==
    registerJob' = [registerJob EXCEPT ![j] = [at |-> at, id |-> id, amount |-> amount]]
RegisterEnds(j) == registerJob' = [registerJob EXCEPT ![j] = NoRegisterJob]
RegisterCommand(j) ==
    /\ RegisterAt(j, "idle") /\ registerCommands < MaxRegisterCommands
    /\ registerCommands' = registerCommands + 1
History == <<clearings, registerRestarts>>

\* A stop meets another handler of its connector.
StopStages == {"end", "mirror", "tell", "record", "clear"}
StopCrosses == stopsCrossed' = (stopsCrossed \/ \E i \in RegisterJobs : ~RegisterAt(i, "idle"))
MeetsStop == stopsCrossed' = (stopsCrossed \/ \E i \in RegisterJobs : registerJob[i].at \in StopStages)

\* What each side's register outlives.
Era(side) == IF side = "station" THEN clearings ELSE registerRestarts

\* A reading of a transaction, and its end as one side tells it.
Heard(id, value) == [told[id] EXCEPT !.last = value, !.fell = @ \/ value < told[id].last]
Tell(id, value) == told' = [told EXCEPT ![id] = Heard(id, value)]
TellStop(id, value, side, amount) ==
    told' = [told EXCEPT ![id] = [Heard(id, value) EXCEPT
                !.meterStop = value, !.used = amount, !.stoppedBy = @ \cup {side},
                !.ended = Era(told[id].by)]]

MeterRuns ==
    /\ meterClock < MaxClock /\ meterClock' = meterClock + 1
    /\ UNCHANGED <<records, meterRow, localLoop, memory, remoteSim, told, registerJob,
                   registerCommands, History, stopsCrossed>>

-----------------------------------------------------------------------------
(* A transaction the station begins *)

\* Card and cable are there, and resolvePreparingPromotion has claimed the row.
StationStarts(j) ==
    /\ RegisterCommand(j) /\ meterRow = IdleRow /\ MeetsStop
    /\ meterRow' = [IdleRow EXCEPT !.status = "Preparing", !.since = registerCommands]
    /\ RegisterGoes(j, "report", NoId, registerCommands)
    /\ UNCHANGED <<meterClock, records, localLoop, memory, remoteSim, told, History>>

\* The sum is read and StartTransaction sent; it fails and is queued, or the CSMS counts it.
StationReports(j) ==
    /\ RegisterAt(j, "report")
    /\ \/ RegisterGoes(j, "charge", NoId, registerJob[j].amount) /\ UNCHANGED told
       \/ /\ Len(told) < MaxTold
          /\ told' = Append(told, Start("station", Era("station"), Rounded(records)))
          /\ RegisterGoes(j, "charge", Len(told) + 1, registerJob[j].amount)
    /\ UNCHANGED <<meterClock, records, meterRow, localLoop, memory, remoteSim, registerCommands,
                   History, stopsCrossed>>

\* The attempt is still there, or the transaction is closed where it began.
StationCharges(j) ==
    /\ RegisterAt(j, "charge") /\ RegisterEnds(j)
    /\ LET id == registerJob[j].id
           mine == meterRow = [IdleRow EXCEPT !.status = "Preparing", !.since = registerJob[j].amount]
       IN IF mine
          THEN /\ meterRow' = [status |-> "Charging", remote |-> id # NoId, id |-> id, since |-> meterClock]
               /\ localLoop' = (localLoop \/ id # NoId) /\ UNCHANGED told
          ELSE /\ IF id = NoId THEN UNCHANGED told ELSE TellStop(id, told[id].meterStart, "station", 0)
               /\ UNCHANGED <<meterRow, localLoop>>
    /\ UNCHANGED <<meterClock, records, memory, remoteSim, registerCommands, History, stopsCrossed>>

\* sendConnectorMeterValues reads the row; the loop ends where no transaction charges.
TickReads(j) ==
    /\ localLoop /\ RegisterAt(j, "idle")
    /\ IF meterRow.status = "Charging" /\ meterRow.remote
       THEN RegisterGoes(j, "tick", meterRow.id, meterRow.since) /\ MeetsStop /\ UNCHANGED localLoop
       ELSE localLoop' = FALSE /\ UNCHANGED <<registerJob, stopsCrossed>>
    /\ UNCHANGED <<meterClock, records, meterRow, memory, remoteSim, told, registerCommands, History>>

\* It reads the sum and sends.
TickSends(j) ==
    /\ RegisterAt(j, "tick") /\ RegisterEnds(j)
    /\ Tell(registerJob[j].id, Rounded(records + (meterClock - registerJob[j].amount)))
    /\ UNCHANGED <<meterClock, records, meterRow, localLoop, memory, remoteSim, registerCommands,
                   History, stopsCrossed>>

-----------------------------------------------------------------------------
(* stopChargingSession *)

\* Without an override the energy is the elapsed time's; a transaction of the CSMS is told of.
StopReads(j) ==
    /\ RegisterCommand(j) /\ meterRow # IdleRow /\ StopCrosses
    /\ localLoop' = FALSE
    /\ RegisterGoes(j, IF meterRow.remote /\ meterRow.id # NoId THEN "tell" ELSE "record", meterRow.id,
                       IF meterRow.status = "Charging" THEN meterClock - meterRow.since ELSE 0)
    /\ UNCHANGED <<meterClock, records, meterRow, memory, remoteSim, told, History>>

\* A mutant of StopTells: the session's own energy instead of the register.
StopTellsEnergy(j) ==
    /\ RegisterAt(j, "tell")
    /\ TellStop(registerJob[j].id, Rounded(registerJob[j].amount), "station", registerJob[j].amount)
    /\ RegisterGoes(j, "record", registerJob[j].id, registerJob[j].amount)
    /\ UNCHANGED <<meterClock, records, meterRow, localLoop, memory, remoteSim, registerCommands,
                   History, stopsCrossed>>

\* meterStop is the sum and this session's energy.  A call that fails is queued as it is.
StopTells(j) ==
    /\ RegisterAt(j, "tell")
    /\ TellStop(registerJob[j].id, Rounded(records + registerJob[j].amount), "station",
                registerJob[j].amount)
    /\ RegisterGoes(j, "record", registerJob[j].id, registerJob[j].amount)
    /\ UNCHANGED <<meterClock, records, meterRow, localLoop, memory, remoteSim, registerCommands,
                   History, stopsCrossed>>

\* The session row is created ...
StopRecords(j) ==
    /\ RegisterAt(j, "record")
    /\ records' = records + registerJob[j].amount
    /\ RegisterGoes(j, "clear", NoId, 0)
    /\ UNCHANGED <<meterClock, meterRow, localLoop, memory, remoteSim, told, registerCommands,
                   History, stopsCrossed>>

\* ... and the connector row cleared, whatever it holds.
StopClears(j) ==
    /\ RegisterAt(j, "clear") /\ RegisterEnds(j)
    /\ meterRow' = IdleRow
    /\ UNCHANGED <<meterClock, records, localLoop, memory, remoteSim, told, registerCommands,
                   History, stopsCrossed>>

-----------------------------------------------------------------------------
(* A transaction the CSMS begins *)

\* RemoteStartTransaction, up to the StartTransaction it sends.  A refused one leaves no trace here.
RemoteStarts(j) ==
    /\ RegisterCommand(j) /\ MeetsStop
    /\ remoteSim = NoSim /\ \A i \in RegisterJobs : registerJob[i].at \notin {"answer", "adopt"}
    /\ meterRow = IdleRow /\ Len(told) < MaxTold
    /\ meterRow' = [IdleRow EXCEPT !.status = "Preparing", !.remote = TRUE]
    /\ told' = Append(told, Start("csms", Era("csms"), Rounded(memory)))
    /\ RegisterGoes(j, "answer", Len(told) + 1, Rounded(memory))
    /\ UNCHANGED <<meterClock, records, localLoop, memory, remoteSim, History>>

RemoteAnswered(j) ==
    /\ RegisterAt(j, "answer")
    /\ remoteSim' = [id |-> registerJob[j].id, meterStart |-> registerJob[j].amount, since |-> meterClock]
    /\ RegisterGoes(j, "adopt", registerJob[j].id, 0)
    /\ UNCHANGED <<meterClock, records, meterRow, localLoop, memory, told, registerCommands,
                   History, stopsCrossed>>

\* adoptRemoteSession throws where another session has the row.
RemoteAdopts(j) ==
    /\ RegisterAt(j, "adopt") /\ RegisterEnds(j)
    /\ IF meterRow = IdleRow \/ (meterRow.remote /\ meterRow.id = NoId)
       THEN meterRow' = [status |-> "Charging", remote |-> TRUE, id |-> registerJob[j].id,
                         since |-> meterClock]
       ELSE UNCHANGED meterRow
    /\ UNCHANGED <<meterClock, records, localLoop, memory, remoteSim, told, registerCommands,
                   History, stopsCrossed>>

SimReading == Rounded(remoteSim.meterStart + (meterClock - remoteSim.since))

RemoteTick ==
    /\ remoteSim # NoSim
    /\ Tell(remoteSim.id, SimReading)
    /\ UNCHANGED <<meterClock, records, meterRow, localLoop, memory, remoteSim, registerJob,
                   registerCommands, History, stopsCrossed>>

\* RemoteStopTransaction finds the entry and defers the stop, which takes what is there then.
RemoteStopAccepted(j) ==
    /\ RegisterCommand(j) /\ remoteSim # NoSim /\ StopCrosses
    /\ RegisterGoes(j, "end", remoteSim.id, 0)
    /\ UNCHANGED <<meterClock, records, meterRow, localLoop, memory, remoteSim, told, History>>

RemoteEnds(j) ==
    /\ RegisterAt(j, "end")
    /\ LET value == IF remoteSim = NoSim THEN Rounded(memory) ELSE SimReading
       IN /\ TellStop(registerJob[j].id, value, "csms", meterClock - remoteSim.since)
          /\ memory' = value
          /\ RegisterGoes(j, "mirror", NoId, value - remoteSim.meterStart)
    /\ remoteSim' = NoSim
    /\ UNCHANGED <<meterClock, records, meterRow, localLoop, registerCommands, History, stopsCrossed>>

\* onRemoteTransactionStopped stops whatever session the row has, with the energy told.
StopMirrors(j) ==
    /\ RegisterAt(j, "mirror") /\ localLoop' = FALSE
    /\ IF meterRow = IdleRow THEN RegisterEnds(j) ELSE RegisterGoes(j, "record", NoId, registerJob[j].amount)
    /\ UNCHANGED <<meterClock, records, meterRow, memory, remoteSim, told, registerCommands,
                   History, stopsCrossed>>

-----------------------------------------------------------------------------
\* clearInstanceConsumptionRecord deletes the session rows.
RecordsCleared(j) ==
    /\ RegisterCommand(j) /\ records' = 0 /\ clearings' = clearings + 1
    /\ UNCHANGED <<meterClock, meterRow, localLoop, memory, remoteSim, told, registerJob,
                   registerRestarts, stopsCrossed>>

\* The rows survive, but for a preparation, which the next entry releases.
RegisterRestarts ==
    /\ registerRestarts < MaxRegisterRestarts /\ registerRestarts' = registerRestarts + 1
    /\ memory' = 0 /\ remoteSim' = NoSim /\ localLoop' = FALSE
    /\ meterRow' = IF meterRow.status = "Preparing" THEN IdleRow ELSE meterRow
    /\ registerJob' = [j \in RegisterJobs |-> NoRegisterJob] /\ MeetsStop
    /\ UNCHANGED <<meterClock, records, told, registerCommands, clearings>>

RegisterNext ==
    \/ MeterRuns \/ RemoteTick \/ RegisterRestarts
    \/ \E j \in RegisterJobs :
         \/ StationStarts(j) \/ StationReports(j) \/ StationCharges(j) \/ TickReads(j) \/ TickSends(j)
         \/ StopReads(j) \/ StopTells(j) \/ StopRecords(j) \/ StopClears(j)
         \/ RemoteStarts(j) \/ RemoteAnswered(j) \/ RemoteAdopts(j)
         \/ RemoteStopAccepted(j) \/ RemoteEnds(j) \/ StopMirrors(j) \/ RecordsCleared(j)

RegisterSpec == RegisterInit /\ [][RegisterNext]_registerVars

-----------------------------------------------------------------------------
Told == DOMAIN told

\* Nobody but its own side has stopped it, and what its side counts from was not lost.
OneRegister(id) ==
    /\ told[id].stoppedBy \subseteq {told[id].by}
    /\ told[id].era = IF told[id].stoppedBy = {} THEN Era(told[id].by) ELSE told[id].ended

\* The difference of the two registers, up to the rounding of each.
Billed(id) == told[id].meterStop - told[id].meterStart
BilledFor(id, amount) == Billed(id) <= amount + 1 /\ amount <= Billed(id) + 1

BillsTheSession ==
    \A id \in Told : told[id].stoppedBy # {} /\ OneRegister(id) => BilledFor(id, told[id].used)

ReadingsRise == \A id \in Told : OneRegister(id) => ~told[id].fell

RegisterContinues ==
    \A id \in Told : \A later \in Told :
        /\ id < later /\ told[id].by = told[later].by /\ told[id].era = told[later].era
        /\ OneRegister(id)
        => told[id].last <= told[later].meterStart

\* "CitrineOS (and any spec-following CSMS) computes totalKwh = (meterStop - meterStart) / 1000"
\* (connector-sessions.ts:895): a transaction stopped by the side that began it is billed its own
\* energy, its readings never fall, and the side's next one goes on from there ("a growing
\* register like a real charger's", 129), however the two sides take turns, stop each other's
\* sessions, restart and clear the records; but not when a stop meets another handler.
MeterIsTrue == ~stopsCrossed => BillsTheSession /\ ReadingsRise /\ RegisterContinues

\* "this transaction's `meterStart` was the register baseline at start time ... so the sum is
\* identical to what was used as `meterStart`" (connector-sessions.ts:896-900): whoever stops it,
\* a transaction is billed its own energy, if the records were not cleared and nothing restarted.
BilledAsUsed ==
    ~stopsCrossed /\ clearings = 0 /\ registerRestarts = 0 =>
        \A id \in Told :
            told[id].stoppedBy \in {{"station"}, {"csms"}} => BilledFor(id, told[id].used)
=============================================================================

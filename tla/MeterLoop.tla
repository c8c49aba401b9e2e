----------------------------- MODULE MeterLoop -----------------------------
(***************************************************************************)
(* The periodic MeterValues of the transactions that the station itself    *)
(* began (device-instances/connector-sessions.ts): the map                 *)
(* meterValueLoops, the stored MeterValueSampleInterval, and the handlers  *)
(* that start, stop, restart and sweep the loop of one connector.          *)
(*                                                                         *)
(* Interval 0 is a loop without a timer.  Amounts and clocks are left out. *)
(***************************************************************************)
EXTENDS Naturals

CONSTANTS
    LoopJobs,           \* handlers that run at a time
    MaxInterval, MaxLoopCommands

ASSUME MaxIntervalAssumption == MaxInterval \in Nat

Intervals == 0..MaxInterval
NoLoop == MaxInterval + 1

VARIABLES
    rowCharges,       \* the row says Charging, with a transaction of the CSMS
    interval,       \* the row of MeterValueSampleInterval
    loop,           \* meterValueLoops.get(key): its timer's interval, or NoLoop
    lost,           \* a timer runs that is not in the map
    loopJob, loopCommands,
    crossing        \* history: two handlers crossed at a place that matters, or a stop failed

loopVars == <<rowCharges, interval, loop, lost, loopJob, loopCommands, crossing>>

NoLoopJob == [at |-> "idle", read |-> NoLoop]
LoopAt(j, at) == loopJob[j].at = at
LoopGoes(j, at, read) == loopJob' = [loopJob EXCEPT ![j] = [at |-> at, read |-> read]]
LoopEnds(j) == LoopGoes(j, "idle", NoLoop)
LoopResting == \A j \in LoopJobs : LoopAt(j, "idle")

LoopInit ==
    /\ rowCharges = FALSE /\ interval = MaxInterval /\ loop = NoLoop /\ lost = FALSE
    /\ loopJob = [j \in LoopJobs |-> NoLoopJob] /\ loopCommands = 0 /\ crossing = FALSE

Under(stages) == \E j \in LoopJobs : loopJob[j].at \in stages
Crosses(stages) == crossing' = (crossing \/ Under(stages))

\* What ensures a loop, and what ends one.
Ensuring == {"ensure", "read", "arm"}
Ending == {"stopping", "sweep"}

LoopCommand(j) ==
    /\ LoopAt(j, "idle") /\ loopCommands < MaxLoopCommands
    /\ loopCommands' = loopCommands + 1

-----------------------------------------------------------------------------
(* ensureMeterValuesLoopRunning *)

EnsureLooks(j) ==
    /\ LoopAt(j, "ensure")
    /\ IF loop # NoLoop THEN LoopEnds(j) ELSE LoopGoes(j, "read", NoLoop)
    /\ UNCHANGED <<rowCharges, interval, loop, lost, loopCommands, crossing>>

\* The database reads the interval.
EnsureReads(j) ==
    /\ LoopAt(j, "read") /\ LoopGoes(j, "arm", interval)
    /\ UNCHANGED <<rowCharges, interval, loop, lost, loopCommands, crossing>>

\* The map takes a timer; one that it held and that runs is lost.
TakeTimer(period) == loop' = period /\ lost' = (lost \/ loop \notin {0, NoLoop})

\* A mutant of EnsureArms: what was found before the read is trusted.
EnsureArmsAnyway(j) ==
    /\ LoopAt(j, "arm") /\ LoopEnds(j)
    /\ TakeTimer(loopJob[j].read)
    /\ UNCHANGED <<rowCharges, interval, loopCommands, crossing>>

\* Another handler may have armed it meanwhile.
EnsureArms(j) ==
    /\ LoopAt(j, "arm") /\ LoopEnds(j)
    /\ IF loop = NoLoop THEN TakeTimer(loopJob[j].read) ELSE UNCHANGED <<loop, lost>>
    /\ UNCHANGED <<rowCharges, interval, loopCommands, crossing>>

-----------------------------------------------------------------------------
(* Sessions.  The promotion that a stop may make on its way is a handler of its own here. *)

\* resolvePreparingPromotion or adoptRemoteSession: the row is written, then the loop ensured.
SessionCharges(j) ==
    /\ ~rowCharges /\ LoopCommand(j) /\ Crosses(Ending)
    /\ rowCharges' = TRUE /\ LoopGoes(j, "ensure", NoLoop)
    /\ UNCHANGED <<interval, loop, lost>>

\* stopChargingSession: the loop first, the row last.
SessionStops(j) ==
    /\ LoopCommand(j) /\ Crosses(Ensuring)
    /\ loop' = NoLoop /\ LoopGoes(j, "stopping", NoLoop)
    /\ UNCHANGED <<rowCharges, interval, lost>>

\* The row is written, or there was no session to stop.
SessionStopped(j) ==
    /\ LoopAt(j, "stopping") /\ LoopEnds(j)
    /\ rowCharges' = FALSE
    /\ UNCHANGED <<interval, loop, lost, loopCommands, crossing>>

\* It throws before it wrote the row.
SessionStopFails(j) ==
    /\ LoopAt(j, "stopping") /\ LoopEnds(j)
    /\ crossing' = (crossing \/ rowCharges)
    /\ UNCHANGED <<rowCharges, interval, loop, lost, loopCommands>>

-----------------------------------------------------------------------------
(* ChangeConfiguration(MeterValueSampleInterval) *)

IntervalStored(j, v) ==
    /\ LoopCommand(j) /\ Crosses({"arm"})
    /\ interval' = v /\ LoopGoes(j, "refresh", NoLoop)
    /\ UNCHANGED <<rowCharges, loop, lost>>

\* refreshConnectorConfiguration, of a connector that is in the map.
RefreshStops(j) ==
    /\ LoopAt(j, "refresh")
    /\ IF loop = NoLoop THEN LoopEnds(j) ELSE LoopGoes(j, "read", NoLoop)
    /\ loop' = NoLoop
    /\ UNCHANGED <<rowCharges, interval, lost, loopCommands, crossing>>

-----------------------------------------------------------------------------
(* sendConnectorMeterValues *)

\* The timer fires and the row is read.
Tick(j) ==
    /\ LoopAt(j, "idle") /\ loop \notin {0, NoLoop}
    /\ IF rowCharges THEN UNCHANGED loopJob ELSE LoopGoes(j, "sweep", NoLoop)
    /\ UNCHANGED <<rowCharges, interval, loop, lost, loopCommands, crossing>>

\* The row had no transaction: the loop ends, whoever's it is by now.
TickSweeps(j) ==
    /\ LoopAt(j, "sweep") /\ LoopEnds(j)
    /\ loop' = NoLoop
    /\ UNCHANGED <<rowCharges, interval, lost, loopCommands, crossing>>

LoopNext ==
    \E j \in LoopJobs :
        \/ EnsureLooks(j) \/ EnsureReads(j) \/ EnsureArms(j)
        \/ SessionCharges(j) \/ SessionStops(j) \/ SessionStopped(j) \/ SessionStopFails(j)
        \/ (\E v \in Intervals : IntervalStored(j, v)) \/ RefreshStops(j)
        \/ Tick(j) \/ TickSweeps(j)

LoopSpec == LoopInit /\ [][LoopNext]_loopVars

-----------------------------------------------------------------------------
\* However handlers cross, every timer is in the map, so that a stop or a sweep reaches it and
\* none reports for ever (ensureMeterValuesLoopRunning, connector-sessions.ts:244-246).  At
\* rest a transaction that charges is metered at the stored interval, and without one no timer
\* runs, unless a start met the end of a loop, a stop the making of one or failed, or a change
\* of the interval met a loop about to be armed with the old one (refreshConnectorConfiguration,
\* 254-261; stopChargingSession, 867; sendConnectorMeterValues, 211).
LoopServesSession ==
    /\ ~lost
    /\ ~crossing /\ LoopResting => loop = IF rowCharges THEN interval ELSE NoLoop
=============================================================================

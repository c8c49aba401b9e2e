------------------------------ MODULE Firmware ------------------------------
(***************************************************************************)
(* The CSMS's UpdateFirmware as simulated by ocpp/firmware.ts: a timer,    *)
(* then a run that reports statuses, waits for the answer to each and for  *)
(* its delays.  Whether a report gets through changes nothing here, and    *)
(* TriggerMessage repeats currentStatus.                                   *)
(***************************************************************************)
EXTENDS Naturals

CONSTANTS
    Runs,               \* runs of runUpdate
    MaxUpdateCommands

VARIABLES
    currentStatus,
    updateTimers,       \* timers armed and not cleared: at most pendingTimer
    run,                \* what each run has reported
    updateCommands,
    impatient           \* history: an UpdateFirmware came while a run was under way

firmwareVars == <<currentStatus, updateTimers, run, updateCommands, impatient>>

\* What a run reports next, by what it reported last.
NextReport == [none |-> "Downloading", Downloading |-> "Downloaded", Downloaded |-> "Installing",
               Installing |-> "Installed"]

FirmwareInit ==
    /\ currentStatus = "Idle" /\ updateTimers = 0
    /\ run = [r \in Runs |-> "off"] /\ updateCommands = 0 /\ impatient = FALSE

UnderUpdate(r) == run[r] \in DOMAIN NextReport

\* A mutant of ArmUpdate: the timer of an earlier UpdateFirmware is left to fire.
ArmAnother == updateTimers' = updateTimers + 1

\* An earlier timer is cleared.
ArmUpdate == updateTimers' = 1

UpdateFirmware ==
    /\ updateCommands < MaxUpdateCommands /\ updateCommands' = updateCommands + 1
    /\ ArmUpdate
    /\ impatient' = (impatient \/ \E r \in Runs : UnderUpdate(r))
    /\ UNCHANGED <<currentStatus, run>>

\* The retrieve date has come.
UpdateTimerFires(r) ==
    /\ updateTimers > 0 /\ updateTimers' = updateTimers - 1
    /\ run[r] = "off" /\ run' = [run EXCEPT ![r] = "none"]
    /\ UNCHANGED <<currentStatus, updateCommands, impatient>>

SendFirmwareStatus(r) ==
    /\ UnderUpdate(r)
    /\ run' = [run EXCEPT ![r] = NextReport[run[r]]]
    /\ currentStatus' = NextReport[run[r]]
    /\ UNCHANGED <<updateTimers, updateCommands, impatient>>

\* dispose: the timer is cleared, a run goes on.
DisposeFirmware ==
    /\ updateTimers' = 0
    /\ UNCHANGED <<currentStatus, run, updateCommands, impatient>>

FirmwareNext ==
    \/ UpdateFirmware
    \/ \E r \in Runs : UpdateTimerFires(r) \/ SendFirmwareStatus(r)
    \/ DisposeFirmware

FirmwareSpec == FirmwareInit /\ [][FirmwareNext]_firmwareVars

-----------------------------------------------------------------------------
\* For a CSMS that lets a run come to its end before it asks for another, however often it
\* replaces an update that is still to begin, what a trigger tells is where the update that
\* runs is: no two runs report in turn (handleUpdateFirmware, firmware.ts:73-77).
FirmwareStatusIsTrue ==
    ~impatient => \A r \in Runs : UnderUpdate(r) => run[r] \in {"none", currentStatus}
=============================================================================

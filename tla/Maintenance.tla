---------------------------- MODULE Maintenance ----------------------------
(***************************************************************************)
(* The board upgrade of the Maintenance screen (device-instances/          *)
(* maintenance.ts): connectors go Unavailable for its duration, a timer or *)
(* a later poll completes it.                                              *)
(***************************************************************************)
EXTENDS Naturals

CONSTANTS
    BoardJobs,                  \* at most that many handlers run at a time
    MaxUpgrades, MaxBoardCrashes

ASSUME UpgradesAssumption == MaxUpgrades \in Nat /\ MaxBoardCrashes \in Nat

VARIABLES
    boardStatus,     \* the persisted status of the connectors
    startedAt,       \* firmwareUpgradeStartedAt: none, recent or elapsed
    upgradeTimer,    \* the entry of upgradeTimers: none, live (the last one armed) or cleared
    boardTimers,     \* completion timers that run
    boardAt,         \* where each handler is
    upgrades, version, boardCrashes,
    boardBroken      \* history: a write failed, or a crash fell between two writes

boardVars == <<boardStatus, startedAt, upgradeTimer, boardTimers, boardAt, upgrades, version,
               boardCrashes, boardBroken>>

BoardPlaces == {"idle", "clear", "disable", "mark", "arm", "complete", "enable", "bump"}

BoardGoes(j, from, to) == boardAt[j] = from /\ boardAt' = [boardAt EXCEPT ![j] = to]

BoardInit ==
    /\ boardStatus = "Available" /\ startedAt = "none"
    /\ upgradeTimer = "none" /\ boardTimers = 0
    /\ boardAt = [j \in BoardJobs |-> "idle"]
    /\ upgrades = 0 /\ version = 0 /\ boardCrashes = 0 /\ boardBroken = FALSE

\* startFirmwareUpgrade
UpgradeBegins(j) ==
    /\ upgrades < MaxUpgrades /\ upgrades' = upgrades + 1
    /\ BoardGoes(j, "idle", "clear")
    /\ UNCHANGED <<boardStatus, startedAt, upgradeTimer, boardTimers, version, boardCrashes, boardBroken>>

\* The earlier timer is cleared; its entry stays in the map.
UpgradeClears(j) ==
    /\ BoardGoes(j, "clear", "disable")
    /\ boardTimers' = IF upgradeTimer = "live" THEN boardTimers - 1 ELSE boardTimers
    /\ upgradeTimer' = IF upgradeTimer = "live" THEN "cleared" ELSE upgradeTimer
    /\ UNCHANGED <<boardStatus, startedAt, upgrades, version, boardCrashes, boardBroken>>

UpgradeDisables(j) ==
    /\ BoardGoes(j, "disable", "mark")
    /\ boardStatus' = "Unavailable"
    /\ UNCHANGED <<startedAt, upgradeTimer, boardTimers, upgrades, version, boardCrashes, boardBroken>>

\* A mutant of UpgradeMarks: the start is not persisted.
UpgradeUnmarked(j) ==
    /\ BoardGoes(j, "mark", "arm")
    /\ UNCHANGED <<startedAt, boardStatus, upgradeTimer, boardTimers, upgrades, version, boardCrashes,
                   boardBroken>>

UpgradeMarks(j) ==
    /\ BoardGoes(j, "mark", "arm")
    /\ startedAt' = "recent"
    /\ UNCHANGED <<boardStatus, upgradeTimer, boardTimers, upgrades, version, boardCrashes, boardBroken>>

UpgradeArms(j) ==
    /\ BoardGoes(j, "arm", "idle")
    /\ upgradeTimer' = "live" /\ boardTimers' = boardTimers + 1
    /\ UNCHANGED <<boardStatus, startedAt, upgrades, version, boardCrashes, boardBroken>>

\* A write of startFirmwareUpgrade throws.
UpgradeFails(j) ==
    /\ boardAt[j] \in {"disable", "mark", "arm"}
    /\ boardAt' = [boardAt EXCEPT ![j] = "idle"]
    /\ boardBroken' = TRUE
    /\ UNCHANGED <<boardStatus, startedAt, upgradeTimer, boardTimers, upgrades, version, boardCrashes>>

\* A timer fires: the entry is deleted, whosever it is.
UpgradeTimerFires(j) ==
    /\ boardTimers > 0 /\ boardTimers' = boardTimers - 1
    /\ BoardGoes(j, "idle", "complete")
    /\ upgradeTimer' = "none"
    /\ UNCHANGED <<boardStatus, startedAt, upgrades, version, boardCrashes, boardBroken>>

\* A mutant of UpgradeCompletes: the update is not conditional.
UpgradeCompletesAnyway(j) ==
    /\ BoardGoes(j, "complete", "enable") /\ startedAt' = "none"
    /\ UNCHANGED <<boardStatus, upgradeTimer, boardTimers, upgrades, version, boardCrashes, boardBroken>>

\* completeFirmwareUpgrade: the conditional update.
UpgradeCompletes(j) ==
    /\ BoardGoes(j, "complete", IF startedAt = "none" THEN "idle" ELSE "enable")
    /\ startedAt' = "none"
    /\ UNCHANGED <<boardStatus, upgradeTimer, boardTimers, upgrades, version, boardCrashes, boardBroken>>

UpgradeEnables(j) ==
    /\ BoardGoes(j, "enable", "bump")
    /\ boardStatus' = "Available"
    /\ UNCHANGED <<startedAt, upgradeTimer, boardTimers, upgrades, version, boardCrashes, boardBroken>>

UpgradeBumps(j) ==
    /\ BoardGoes(j, "bump", "idle")
    /\ version' = version + 1
    /\ UNCHANGED <<boardStatus, startedAt, upgradeTimer, boardTimers, upgrades, boardCrashes, boardBroken>>

\* resolveStaleFirmwareUpgrade, on a poll of the Maintenance screen: no timer of this process
\* is entered, and the start it reads is old enough.
StaleFound(j) ==
    /\ upgradeTimer = "none" /\ startedAt = "elapsed"
    /\ BoardGoes(j, "idle", "complete")
    /\ UNCHANGED <<boardStatus, startedAt, upgradeTimer, boardTimers, upgrades, version, boardCrashes,
                   boardBroken>>

\* FIRMWARE_UPGRADE_DURATION_MS goes by.
UpgradeElapses ==
    /\ startedAt = "recent" /\ startedAt' = "elapsed"
    /\ UNCHANGED <<boardStatus, upgradeTimer, boardTimers, boardAt, upgrades, version, boardCrashes,
                   boardBroken>>

\* The process is restarted.
BoardCrashes ==
    /\ boardCrashes < MaxBoardCrashes /\ boardCrashes' = boardCrashes + 1
    /\ upgradeTimer' = "none" /\ boardTimers' = 0
    /\ boardAt' = [j \in BoardJobs |-> "idle"]
    /\ boardBroken' = (boardBroken \/ \E j \in BoardJobs : boardAt[j] \in {"mark", "enable"})
    /\ UNCHANGED <<boardStatus, startedAt, upgrades, version>>

BoardNext ==
    \/ \E j \in BoardJobs :
         \/ UpgradeBegins(j) \/ UpgradeClears(j) \/ UpgradeDisables(j) \/ UpgradeMarks(j)
         \/ UpgradeArms(j) \/ UpgradeFails(j) \/ UpgradeTimerFires(j) \/ UpgradeCompletes(j)
         \/ UpgradeEnables(j) \/ UpgradeBumps(j) \/ StaleFound(j)
    \/ UpgradeElapses \/ BoardCrashes

BoardSpec == BoardInit /\ [][BoardNext]_boardVars

-----------------------------------------------------------------------------
BoardTypeOK ==
    /\ boardStatus \in {"Available", "Unavailable"}
    /\ startedAt \in {"none", "recent", "elapsed"}
    /\ upgradeTimer \in {"none", "live", "cleared"} /\ boardTimers \in Nat
    /\ boardAt \in [BoardJobs -> BoardPlaces]
    /\ upgrades \in 0..MaxUpgrades /\ version \in Nat
    /\ boardCrashes \in 0..MaxBoardCrashes /\ boardBroken \in BOOLEAN

\* Unless a write failed or a crash fell between the writes of 208 and 209, or of 152 and
\* 158, disabled connectors have a handler, a timer or a poll that will enable them ("instead
\* of leaving connectors stuck Unavailable", maintenance.ts:200).
UpgradeIsOwned ==
    boardStatus = "Unavailable" /\ ~boardBroken =>
        \/ \E j \in BoardJobs : boardAt[j] \in {"disable", "mark", "arm", "complete", "enable"}
        \/ startedAt # "none" /\ (boardTimers > 0 \/ upgradeTimer = "none")

\* Timers and polls that race complete an upgrade once ("without double-completing",
\* maintenance.ts:148): the version never gets ahead of the upgrades.
VersionCountsUpgrades == version <= upgrades
=============================================================================

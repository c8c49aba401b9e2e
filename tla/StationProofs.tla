--------------------------- MODULE StationProofs ----------------------------
(***************************************************************************)
(* Invariants of the parts of the station that crossing handlers share,    *)
(* for any number of handlers and commands.                                *)
(***************************************************************************)
EXTENDS Maintenance, Firmware, Configuration, MeterLoop, LocalList, InstanceRegistry, Screens, Parameters,
        FiniteSets, FiniteSetTheorems, TLAPS

(***************************************************************************)
(* Maintenance: a board upgrade is completed once, and not forgotten       *)
(***************************************************************************)
\* A timer that is entered as armed runs.
LiveTimerRuns == upgradeTimer = "live" => boardTimers > 0

\* Connectors that are disabled are about to be marked or enabled, or have a start on
\* record that a handler, a timer or a poll is going to come across.
OwnedStrictly ==
    boardStatus = "Unavailable" /\ ~boardBroken =>
        \/ \E j \in BoardJobs : boardAt[j] \in {"mark", "enable"}
        \/ /\ startedAt # "none"
           /\ \/ \E j \in BoardJobs : boardAt[j] \in {"disable", "arm", "complete"}
              \/ boardTimers > 0 \/ upgradeTimer = "none"

BoardInv == BoardTypeOK /\ LiveTimerRuns /\ OwnedStrictly

\* No upgrade is under way at first.
LEMMA BoardStarts == BoardInit => BoardInv
<1> SUFFICES ASSUME BoardInit PROVE BoardInv
  OBVIOUS
<1>1. BoardTypeOK
  <2>1. boardAt \in [BoardJobs -> BoardPlaces] /\ boardBroken \in BOOLEAN
    BY DEF BoardInit, BoardPlaces
  <2>2. upgrades \in 0..MaxUpgrades /\ boardCrashes \in 0..MaxBoardCrashes
    BY UpgradesAssumption DEF BoardInit
  <2> QED BY <2>1, <2>2 DEF BoardInit, BoardTypeOK
<1>2. LiveTimerRuns /\ OwnedStrictly
  BY DEF BoardInit, LiveTimerRuns, OwnedStrictly
<1> QED BY <1>1, <1>2 DEF BoardInv

\* Every step of an upgrade, its timer, a poll or a crash keeps the invariant.
LEMMA BoardSteps == BoardInv /\ [BoardNext]_boardVars => BoardInv'
<1> SUFFICES ASSUME BoardInv, [BoardNext]_boardVars PROVE BoardInv'
  OBVIOUS
<1> USE UpgradesAssumption DEF BoardInv, LiveTimerRuns, BoardGoes
<1>1. ASSUME NEW j \in BoardJobs, UpgradeBegins(j) PROVE BoardInv'
  <2>1. BoardTypeOK'
    BY <1>1 DEF UpgradeBegins, BoardTypeOK, BoardPlaces
  <2>2. OwnedStrictly'
    BY <1>1 DEF UpgradeBegins, BoardTypeOK, OwnedStrictly
  <2> QED BY <1>1, <2>1, <2>2 DEF UpgradeBegins
<1>2. ASSUME NEW j \in BoardJobs, UpgradeClears(j) PROVE BoardInv'
  <2>1. BoardTypeOK' /\ LiveTimerRuns'
    BY <1>2 DEF UpgradeClears, BoardTypeOK, BoardPlaces
  <2>2. boardAt'[j] = "disable" /\ \A i \in BoardJobs : i # j => boardAt'[i] = boardAt[i]
    BY <1>2 DEF UpgradeClears, BoardTypeOK
  <2>3. OwnedStrictly'
    BY <1>2, <2>2 DEF UpgradeClears, OwnedStrictly
  <2> QED BY <2>1, <2>3
<1>3. ASSUME NEW j \in BoardJobs, UpgradeDisables(j) PROVE BoardInv'
  BY <1>3 DEF UpgradeDisables, BoardTypeOK, BoardPlaces, OwnedStrictly
<1>4. ASSUME NEW j \in BoardJobs, UpgradeMarks(j) PROVE BoardInv'
  BY <1>4 DEF UpgradeMarks, BoardTypeOK, BoardPlaces, OwnedStrictly
<1>5. ASSUME NEW j \in BoardJobs, UpgradeArms(j) PROVE BoardInv'
  <2>1. BoardTypeOK' /\ LiveTimerRuns' /\ boardTimers' > 0
    BY <1>5 DEF UpgradeArms, BoardTypeOK, BoardPlaces
  <2>2. \A i \in BoardJobs : boardAt[i] \in {"mark", "enable"} => boardAt'[i] = boardAt[i]
    BY <1>5 DEF UpgradeArms, BoardTypeOK
  <2>3. OwnedStrictly'
    BY <1>5, <2>1, <2>2 DEF UpgradeArms, OwnedStrictly
  <2> QED BY <2>1, <2>3
<1>6. ASSUME NEW j \in BoardJobs, UpgradeFails(j) PROVE BoardInv'
  BY <1>6 DEF UpgradeFails, BoardTypeOK, BoardPlaces, OwnedStrictly
<1>7. ASSUME NEW j \in BoardJobs, UpgradeTimerFires(j) PROVE BoardInv'
  <2>1. BoardTypeOK' /\ LiveTimerRuns'
    BY <1>7 DEF UpgradeTimerFires, BoardTypeOK, BoardPlaces
  <2>2. \A i \in BoardJobs : i # j => boardAt'[i] = boardAt[i]
    BY <1>7 DEF UpgradeTimerFires, BoardTypeOK
  <2>3. OwnedStrictly'
    BY <1>7, <2>2 DEF UpgradeTimerFires, OwnedStrictly
  <2> QED BY <2>1, <2>3
<1>8. ASSUME NEW j \in BoardJobs, UpgradeCompletes(j) PROVE BoardInv'
  <2>1. BoardTypeOK' /\ LiveTimerRuns'
    BY <1>8 DEF UpgradeCompletes, BoardTypeOK, BoardPlaces
  <2>2. \A i \in BoardJobs : i # j => boardAt'[i] = boardAt[i]
    BY <1>8 DEF UpgradeCompletes, BoardTypeOK
  <2>3. startedAt # "none" => boardAt'[j] = "enable"
    BY <1>8 DEF UpgradeCompletes, BoardTypeOK
  <2>4. OwnedStrictly'
    BY <1>8, <2>2, <2>3 DEF UpgradeCompletes, OwnedStrictly
  <2> QED BY <2>1, <2>4
<1>9. ASSUME NEW j \in BoardJobs, UpgradeEnables(j) PROVE BoardInv'
  BY <1>9 DEF UpgradeEnables, BoardTypeOK, BoardPlaces, OwnedStrictly
<1>10. ASSUME NEW j \in BoardJobs, UpgradeBumps(j) PROVE BoardInv'
  <2>1. BoardTypeOK' /\ LiveTimerRuns'
    BY <1>10 DEF UpgradeBumps, BoardTypeOK, BoardPlaces
  <2>2. \A i \in BoardJobs : i # j => boardAt'[i] = boardAt[i]
    BY <1>10 DEF UpgradeBumps, BoardTypeOK
  <2>3. OwnedStrictly'
    BY <1>10, <2>2 DEF UpgradeBumps, OwnedStrictly
  <2> QED BY <2>1, <2>3
<1>11. ASSUME NEW j \in BoardJobs, StaleFound(j) PROVE BoardInv'
  <2>1. BoardTypeOK' /\ LiveTimerRuns'
    BY <1>11 DEF StaleFound, BoardTypeOK, BoardPlaces
  <2>2. \A i \in BoardJobs : i # j => boardAt'[i] = boardAt[i]
    BY <1>11 DEF StaleFound, BoardTypeOK
  <2>3. OwnedStrictly'
    BY <1>11, <2>2 DEF StaleFound, OwnedStrictly
  <2> QED BY <2>1, <2>3
<1>12. CASE UpgradeElapses
  BY <1>12 DEF UpgradeElapses, BoardTypeOK, OwnedStrictly
<1>13. CASE BoardCrashes
  <2>1. BoardTypeOK' /\ LiveTimerRuns'
    BY <1>13 DEF BoardCrashes, BoardTypeOK, BoardPlaces
  <2>2. OwnedStrictly'
    BY <1>13 DEF BoardCrashes, BoardTypeOK, OwnedStrictly
  <2> QED BY <2>1, <2>2
<1>14. CASE UNCHANGED boardVars
  BY <1>14 DEF boardVars, BoardTypeOK, OwnedStrictly
<1> QED BY <1>1, <1>2, <1>3, <1>4, <1>5, <1>6, <1>7, <1>8, <1>9, <1>10, <1>11, <1>12, <1>13,
           <1>14 DEF BoardNext

\* Who will enable the disabled connectors is known in every behaviour (resolveUpgrade).
THEOREM BoardInvariant == BoardSpec => []BoardInv
<1>1. BoardInit => BoardInv
  BY BoardStarts
<1>2. BoardInv /\ [BoardNext]_boardVars => BoardInv'
  BY BoardSteps
<1> QED BY <1>1, <1>2, PTL DEF BoardSpec

\* Connectors disabled for an upgrade are enabled again by somebody, across restarts and
\* overlapping upgrades (startFirmwareUpgrade, resolveStaleFirmwareUpgrade).
THEOREM UpgradeNotForgotten == BoardSpec => []UpgradeIsOwned
<1>1. BoardInv => UpgradeIsOwned
  BY DEF BoardInv, OwnedStrictly, UpgradeIsOwned
<1> QED BY <1>1, BoardInvariant, PTL

-----------------------------------------------------------------------------
(* Versions *)

\* Handlers that are going to mark a start, or to count its completion.
Owed == {j \in BoardJobs : boardAt[j] \in {"clear", "disable", "mark", "enable", "bump"}}
OnRecord == IF startedAt = "none" THEN 0 ELSE 1

\* Every upgrade is counted in one place at most: the version, the record, a handler.
CountInv ==
    /\ IsFiniteSet(Owed)
    /\ version + OnRecord + Cardinality(Owed) <= upgrades

\* No upgrade has begun or been counted at first.
LEMMA CountStarts == BoardInit => CountInv
<1> SUFFICES ASSUME BoardInit PROVE CountInv
  OBVIOUS
<1>1. Owed = {}
  BY DEF BoardInit, Owed
<1> QED BY <1>1, FS_EmptySet DEF BoardInit, CountInv, OnRecord

\* The version and the upgrades that may still complete never exceed those begun.
LEMMA CountSteps == BoardInv /\ CountInv /\ [BoardNext]_boardVars => CountInv'
<1> SUFFICES ASSUME BoardInv, CountInv, [BoardNext]_boardVars PROVE CountInv'
  OBVIOUS
<1> USE DEF BoardInv, CountInv, BoardGoes
<1> DEFINE card == Cardinality(Owed)
<1>0. /\ card \in Nat /\ version \in Nat /\ upgrades \in Nat
      /\ OnRecord \in {0, 1} /\ boardAt \in [BoardJobs -> BoardPlaces]
  BY FS_CardinalityType DEF BoardTypeOK, OnRecord
<1>1. ASSUME NEW j \in BoardJobs, UpgradeBegins(j) PROVE CountInv'
  <2>1. Owed' = Owed \cup {j} /\ j \notin Owed
    BY <1>1 DEF UpgradeBegins, BoardTypeOK, Owed
  <2>2. IsFiniteSet(Owed') /\ Cardinality(Owed') = card + 1
    BY <2>1, FS_AddElement
  <2>3. version' = version /\ OnRecord' = OnRecord /\ upgrades' = upgrades + 1
    BY <1>1 DEF UpgradeBegins, OnRecord
  <2> QED BY <1>0, <2>2, <2>3
<1>2. ASSUME NEW j \in BoardJobs,
             \/ UpgradeClears(j) \/ UpgradeDisables(j) \/ UpgradeArms(j) \/ UpgradeEnables(j)
             \/ UpgradeTimerFires(j) \/ StaleFound(j)
      PROVE  CountInv'
  <2>1. Owed' = Owed
    BY <1>2 DEF UpgradeClears, UpgradeDisables, UpgradeArms, UpgradeEnables, UpgradeTimerFires,
                StaleFound, BoardTypeOK, Owed
  <2>2. UNCHANGED <<version, startedAt, upgrades>>
    BY <1>2 DEF UpgradeClears, UpgradeDisables, UpgradeArms, UpgradeEnables, UpgradeTimerFires,
                StaleFound
  <2> QED BY <2>1, <2>2 DEF OnRecord
<1>3. ASSUME NEW j \in BoardJobs, UpgradeMarks(j) PROVE CountInv'
  <2>1. Owed' = Owed \ {j} /\ j \in Owed
    BY <1>3 DEF UpgradeMarks, BoardTypeOK, Owed
  <2>2. IsFiniteSet(Owed') /\ Cardinality(Owed') = card - 1
    BY <2>1, FS_RemoveElement
  <2>3. UNCHANGED <<version, upgrades>> /\ OnRecord' = 1
    BY <1>3 DEF UpgradeMarks, OnRecord
  <2> QED BY <1>0, <2>2, <2>3
<1>4. ASSUME NEW j \in BoardJobs, UpgradeFails(j) PROVE CountInv'
  <2>1. Owed' = Owed \ {j}
    BY <1>4 DEF UpgradeFails, BoardTypeOK, Owed
  <2>2. IsFiniteSet(Owed') /\ Cardinality(Owed') = IF j \in Owed THEN card - 1 ELSE card
    BY <2>1, FS_RemoveElement
  <2>3. UNCHANGED <<version, startedAt, upgrades>>
    BY <1>4 DEF UpgradeFails
  <2>4. OnRecord' = OnRecord
    BY <2>3 DEF OnRecord
  <2> QED BY <1>0, <2>2, <2>3, <2>4
<1>5. ASSUME NEW j \in BoardJobs, UpgradeCompletes(j) PROVE CountInv'
  <2>1. UNCHANGED <<version, upgrades>> /\ OnRecord' = 0
    BY <1>5 DEF UpgradeCompletes, OnRecord
  <2>2. CASE startedAt = "none"
    <3>1. Owed' = Owed
      BY <1>5, <2>2 DEF UpgradeCompletes, BoardTypeOK, Owed
    <3> QED BY <1>0, <2>1, <2>2, <3>1
  <2>3. CASE startedAt # "none"
    <3>1. Owed' = Owed \cup {j} /\ j \notin Owed /\ OnRecord = 1
      BY <1>5, <2>3 DEF UpgradeCompletes, BoardTypeOK, Owed, OnRecord
    <3>2. IsFiniteSet(Owed') /\ Cardinality(Owed') = card + 1
      BY <3>1, FS_AddElement
    <3> QED BY <1>0, <2>1, <3>1, <3>2
  <2> QED BY <2>2, <2>3
<1>6. ASSUME NEW j \in BoardJobs, UpgradeBumps(j) PROVE CountInv'
  <2>1. Owed' = Owed \ {j} /\ j \in Owed
    BY <1>6 DEF UpgradeBumps, BoardTypeOK, Owed
  <2>2. IsFiniteSet(Owed') /\ Cardinality(Owed') = card - 1
    BY <2>1, FS_RemoveElement
  <2>3. UNCHANGED upgrades /\ OnRecord' = OnRecord /\ version' = version + 1
    BY <1>6 DEF UpgradeBumps, OnRecord
  <2> QED BY <1>0, <2>2, <2>3
<1>7. CASE UpgradeElapses
  <2>1. Owed' = Owed /\ OnRecord' = OnRecord /\ UNCHANGED <<version, upgrades>>
    BY <1>7 DEF UpgradeElapses, Owed, OnRecord
  <2> QED BY <2>1
<1>8. CASE BoardCrashes
  <2>1. Owed' = {} /\ OnRecord' = OnRecord /\ UNCHANGED <<version, upgrades>>
    BY <1>8 DEF BoardCrashes, Owed, OnRecord
  <2>2. IsFiniteSet(Owed') /\ Cardinality(Owed') = 0
    BY <2>1, FS_EmptySet
  <2> QED BY <1>0, <2>1, <2>2
<1>9. CASE UNCHANGED boardVars
  <2>1. Owed' = Owed /\ OnRecord' = OnRecord /\ UNCHANGED <<version, upgrades>>
    BY <1>9 DEF boardVars, Owed, OnRecord
  <2> QED BY <2>1
<1> QED BY <1>1, <1>2, <1>3, <1>4, <1>5, <1>6, <1>7, <1>8, <1>9 DEF BoardNext

\* Timers and polls that race complete an upgrade once (completeFirmwareUpgrade's conditional
\* update).
THEOREM UpgradesCompleteOnce == BoardSpec => []VersionCountsUpgrades
<1>1. BoardInit => CountInv
  BY CountStarts
<1>2. BoardInv /\ CountInv /\ [BoardNext]_boardVars => CountInv'
  BY CountSteps
<1>3. BoardInv /\ CountInv => VersionCountsUpgrades
  <2> SUFFICES ASSUME BoardInv, CountInv PROVE VersionCountsUpgrades
    OBVIOUS
  <2>1. Cardinality(Owed) \in Nat /\ OnRecord \in {0, 1} /\ version \in Nat /\ upgrades \in Nat
    BY FS_CardinalityType DEF BoardInv, BoardTypeOK, CountInv, OnRecord
  <2> QED BY <2>1 DEF CountInv, VersionCountsUpgrades
<1> QED BY <1>1, <1>2, <1>3, BoardInvariant, PTL DEF BoardSpec

(***************************************************************************)
(* Firmware: there is one run or one timer, not both                       *)
(***************************************************************************)
Reports == {"off", "none", "Downloading", "Downloaded", "Installing", "Installed"}

OneUpdate ==
    /\ \A r, q \in Runs : UnderUpdate(r) /\ UnderUpdate(q) => r = q
    /\ updateTimers = 1 => \A r \in Runs : ~UnderUpdate(r)

FirmwareInv ==
    /\ run \in [Runs -> Reports] /\ updateTimers \in {0, 1}
    /\ ~impatient => OneUpdate
    /\ FirmwareStatusIsTrue

\* What a report comes after and what it is, in order.
LEMMA NextReports ==
    /\ DOMAIN NextReport = {"none", "Downloading", "Downloaded", "Installing"}
    /\ \A s \in DOMAIN NextReport : NextReport[s] \in Reports \ {"off", "none"}
BY DEF NextReport, Reports

\* Each step of the updater keeps the invariant: a run begins only from the one timer there is,
\* so that no other is under way unless the CSMS was impatient.
LEMMA FirmwareStep ==
    ASSUME FirmwareInv, FirmwareNext
    PROVE  FirmwareInv'
<1>. USE NextReports DEF FirmwareInv, OneUpdate, FirmwareStatusIsTrue, UnderUpdate, Reports
<1>1. CASE UpdateFirmware
  BY <1>1 DEF UpdateFirmware, ArmUpdate
<1>2. ASSUME NEW r \in Runs, UpdateTimerFires(r)
      PROVE  FirmwareInv'
  BY <1>2 DEF UpdateTimerFires
<1>3. ASSUME NEW r \in Runs, SendFirmwareStatus(r)
      PROVE  FirmwareInv'
  BY <1>3 DEF SendFirmwareStatus
<1>4. CASE DisposeFirmware
  BY <1>4 DEF DisposeFirmware
<1>. QED
  BY <1>1, <1>2, <1>3, <1>4 DEF FirmwareNext

\* What a trigger tells is where the update that runs is, whatever updates were replaced before
\* they began (handleUpdateFirmware, firmware.ts:73-77).
THEOREM FirmwareStatusTrue == FirmwareSpec => []FirmwareStatusIsTrue
<1>1. FirmwareInit => FirmwareInv
  BY DEF FirmwareInit, FirmwareInv, OneUpdate, FirmwareStatusIsTrue, UnderUpdate, NextReport, Reports
<1>2. FirmwareInv /\ [FirmwareNext]_firmwareVars => FirmwareInv'
  <2>1. CASE FirmwareNext
    BY <2>1, FirmwareStep
  <2>2. CASE UNCHANGED firmwareVars
    BY <2>2 DEF firmwareVars, FirmwareInv, OneUpdate, FirmwareStatusIsTrue, UnderUpdate
  <2>. QED
    BY <2>1, <2>2
<1>3. FirmwareInv => FirmwareStatusIsTrue
  BY DEF FirmwareInv
<1>. QED
  BY <1>1, <1>2, <1>3, PTL DEF FirmwareSpec

(***************************************************************************)
(* Configuration: what a writer under way leaves to be done                *)
(***************************************************************************)
ConfigTypeOK ==
    /\ bootAccepted \in BOOLEAN /\ unsettled \in BOOLEAN
    /\ configJob \in [ConfigJobs -> [at : {"idle", "write", "apply"}, value : Nat, boot : BOOLEAN]]

\* The period that is due when the row holds v.
PeriodOf(v) == IF bootAccepted THEN v ELSE NoTimer

OneWriter == \A i, j \in ConfigJobs : configJob[i].at # "idle" /\ configJob[j].at # "idle" => i = j

HalfWritten(j) ==
    \/ configJob[j].at = "idle"
    \/ configJob[j].at = "write" /\ configJob[j].boot /\ heartbeatPeriod = PeriodOf(configJob[j].value)
    \/ configJob[j].at = "write" /\ ~configJob[j].boot /\ heartbeatPeriod = PeriodOf(storedHeartbeat)
    \/ /\ configJob[j].at = "apply" /\ storedHeartbeat = configJob[j].value
       /\ ~bootAccepted => heartbeatPeriod = NoTimer

ConfigInv ==
    /\ ConfigTypeOK
    /\ ~unsettled => OneWriter /\ \A j \in ConfigJobs : HalfWritten(j)
    /\ HeartbeatIsStored

\* Each step keeps what the types say of the writers.
LEMMA ConfigTypesStep ==
    ASSUME ConfigTypeOK, ConfigNext
    PROVE  ConfigTypeOK'
<1>. USE DEF ConfigTypeOK, NoConfigJob, Storable, ConfigCommand, Sent
<1>. LongestTimer \in Nat /\ DefaultHeartbeat \in Nat
  BY DefaultAssumption
<1>1. ASSUME NEW j \in ConfigJobs, NEW v \in Sent, BootSets(j, v)
      PROVE  ConfigTypeOK'
  <2>1. configJob' \in [ConfigJobs -> [at : {"idle", "write", "apply"}, value : Nat, boot : BOOLEAN]]
    BY <1>1 DEF BootSets
  <2>2. bootAccepted' \in BOOLEAN /\ unsettled' \in BOOLEAN
    BY <1>1 DEF BootSets
  <2>. QED
    BY <2>1, <2>2
<1>2. ASSUME NEW j \in ConfigJobs, NEW v \in Sent, ChangeHeartbeat(j, v)
      PROVE  ConfigTypeOK'
  BY <1>2 DEF ChangeHeartbeat
<1>3. ASSUME NEW j \in ConfigJobs, HeartbeatStored(j)
      PROVE  ConfigTypeOK'
  BY <1>3 DEF HeartbeatStored
<1>4. ASSUME NEW j \in ConfigJobs, HeartbeatNotStored(j)
      PROVE  ConfigTypeOK'
  BY <1>4 DEF HeartbeatNotStored
<1>5. ASSUME NEW j \in ConfigJobs, SetHeartbeatInterval(j)
      PROVE  ConfigTypeOK'
  BY <1>5 DEF SetHeartbeatInterval
<1>6. CASE HeartbeatEnds
  BY <1>6 DEF HeartbeatEnds
<1>. QED
  BY <1>1, <1>2, <1>3, <1>4, <1>5, <1>6 DEF ConfigNext

\* Each step keeps what a writer under way and the timer owe to each other.
LEMMA ConfigStep ==
    ASSUME ConfigInv, ConfigNext, ~unsettled'
    PROVE  OneWriter' /\ (\A j \in ConfigJobs : HalfWritten(j)') /\ HeartbeatIsStored'
<1>. USE DEF ConfigInv, ConfigTypeOK, OneWriter, HalfWritten, HeartbeatIsStored, ConfigResting,
            PeriodOf, NoConfigJob, Storable, ConfigCommand
<1>. LongestTimer \in Nat /\ DefaultHeartbeat \in 1..LongestTimer
  BY DefaultAssumption
<1>1. ASSUME NEW i \in ConfigJobs, NEW v \in Sent, BootSets(i, v)
      PROVE  OneWriter' /\ (\A j \in ConfigJobs : HalfWritten(j)') /\ HeartbeatIsStored'
  <2>. DEFINE used == IF v = 0 THEN DefaultHeartbeat ELSE v
  <2>. HIDE DEF ConfigInv, OneWriter, HalfWritten
  <2>0. Storable(used) /\ ConfigResting
    BY <1>1, Zenon DEF BootSets
  <2>1. used \in 1..LongestTimer /\ Period(used) = used /\ \A j \in ConfigJobs : configJob[j].at = "idle"
    BY <2>0 DEF Period
  <2>. USE DEF ConfigInv, OneWriter, HalfWritten
  <2>2. configJob' = [configJob EXCEPT ![i] = [at |-> "write", value |-> used, boot |-> TRUE]]
    BY <1>1, <2>0 DEF BootSets
  <2>3. bootAccepted' = TRUE /\ heartbeatPeriod' = used
    BY <1>1, <2>1 DEF BootSets
  <2>4. /\ configJob'[i] = [at |-> "write", value |-> used, boot |-> TRUE]
        /\ \A j \in ConfigJobs \ {i} : configJob'[j].at = "idle"
    BY <2>1, <2>2
  <2>. QED
    BY <2>3, <2>4
<1>2. ASSUME NEW i \in ConfigJobs, NEW v \in Sent, ChangeHeartbeat(i, v)
      PROVE  OneWriter' /\ (\A j \in ConfigJobs : HalfWritten(j)') /\ HeartbeatIsStored'
  BY <1>2 DEF ChangeHeartbeat
<1>3. ASSUME NEW i \in ConfigJobs, HeartbeatStored(i)
      PROVE  OneWriter' /\ (\A j \in ConfigJobs : HalfWritten(j)') /\ HeartbeatIsStored'
  BY <1>3 DEF HeartbeatStored
<1>4. ASSUME NEW i \in ConfigJobs, HeartbeatNotStored(i)
      PROVE  OneWriter' /\ (\A j \in ConfigJobs : HalfWritten(j)') /\ HeartbeatIsStored'
  BY <1>4 DEF HeartbeatNotStored
<1>5. ASSUME NEW i \in ConfigJobs, SetHeartbeatInterval(i)
      PROVE  OneWriter' /\ (\A j \in ConfigJobs : HalfWritten(j)') /\ HeartbeatIsStored'
  BY <1>5 DEF SetHeartbeatInterval
<1>6. CASE HeartbeatEnds
  BY <1>6 DEF HeartbeatEnds
<1>. QED
  BY <1>1, <1>2, <1>3, <1>4, <1>5, <1>6 DEF ConfigNext

\* At rest the heartbeat runs at the stored interval while the CSMS accepts the station
\* (handleBootResponse, session.ts:194; runtime.ts:157; remote-commands.ts:575-577).
THEOREM HeartbeatAsStored == ConfigSpec => []HeartbeatIsStored
<1>1. ConfigInit => ConfigInv
  <2>. SUFFICES ASSUME ConfigInit PROVE ConfigInv
    OBVIOUS
  <2>1. bootAccepted \in BOOLEAN /\ unsettled \in BOOLEAN
    BY DEF ConfigInit
  <2>2. NoConfigJob \in [at : {"idle", "write", "apply"}, value : Nat, boot : BOOLEAN]
    BY DEF NoConfigJob
  <2>3. configJob \in [ConfigJobs -> [at : {"idle", "write", "apply"}, value : Nat, boot : BOOLEAN]]
    BY <2>2 DEF ConfigInit
  <2>4. ~bootAccepted /\ heartbeatPeriod = NoTimer /\ \A j \in ConfigJobs : configJob[j].at = "idle"
    BY DEF ConfigInit, NoConfigJob
  <2>. QED
    BY <2>1, <2>3, <2>4 DEF ConfigInv, ConfigTypeOK, OneWriter, HalfWritten, HeartbeatIsStored
<1>2. ConfigInv /\ [ConfigNext]_configVars => ConfigInv'
  <2>1. CASE ConfigNext
    BY <2>1, ConfigTypesStep, ConfigStep DEF ConfigInv, HeartbeatIsStored
  <2>2. CASE UNCHANGED configVars
    BY <2>2 DEF configVars, ConfigInv, ConfigTypeOK, OneWriter, HalfWritten, PeriodOf,
       HeartbeatIsStored, ConfigResting
  <2>. QED
    BY <2>1, <2>2
<1>3. ConfigInv => HeartbeatIsStored
  BY DEF ConfigInv
<1>. QED
  BY <1>1, <1>2, <1>3, PTL DEF ConfigSpec

(***************************************************************************)
(* MeterLoop: what follows from no crossing                                *)
(***************************************************************************)
LoopPlaces == {"idle", "ensure", "read", "arm", "stopping", "refresh", "sweep"}

LoopTypeOK ==
    /\ rowCharges \in BOOLEAN /\ crossing \in BOOLEAN /\ interval \in Intervals
    /\ loopJob \in [LoopJobs -> [at : LoopPlaces, read : 0..NoLoop]]
    /\ \A j \in LoopJobs : LoopAt(j, "arm") => loopJob[j].read \in Intervals

Uncrossed ==
    /\ ~Under({"sweep"})
    /\ ~rowCharges \/ Under({"stopping"}) => loop = NoLoop /\ ~Under(Ensuring)
    /\ rowCharges /\ ~Under({"stopping"}) /\ ~Under(Ensuring) => loop # NoLoop
    /\ \A j \in LoopJobs : LoopAt(j, "arm") => loopJob[j].read = interval
    /\ loop = NoLoop \/ loop = interval \/ Under({"refresh"})

LoopInv == LoopTypeOK /\ ~lost /\ (~crossing => Uncrossed)

\* Each step keeps what the types say of the handlers, and no timer is lost.
LEMMA LoopTypesStep ==
    ASSUME LoopTypeOK, ~lost, LoopNext
    PROVE  LoopTypeOK' /\ ~lost'
<1>. USE MaxIntervalAssumption
     DEF LoopTypeOK, LoopPlaces, Intervals, NoLoop, LoopAt, LoopGoes, LoopEnds, LoopCommand, Crosses
<1>1. ASSUME NEW j \in LoopJobs, EnsureLooks(j)
      PROVE  LoopTypeOK' /\ ~lost'
  BY <1>1 DEF EnsureLooks
<1>2. ASSUME NEW j \in LoopJobs, EnsureReads(j)
      PROVE  LoopTypeOK' /\ ~lost'
  BY <1>2 DEF EnsureReads
<1>3. ASSUME NEW j \in LoopJobs, EnsureArms(j)
      PROVE  LoopTypeOK' /\ ~lost'
  <2>1. ~lost'
    BY <1>3, Zenon DEF EnsureArms, TakeTimer
  <2>2. rowCharges' = rowCharges /\ crossing' = crossing /\ interval' = interval
    BY <1>3 DEF EnsureArms
  <2>3. loopJob' = [loopJob EXCEPT ![j] = [at |-> "idle", read |-> NoLoop]]
    BY <1>3 DEF EnsureArms
  <2>. QED
    BY <2>1, <2>2, <2>3
<1>4. ASSUME NEW j \in LoopJobs, SessionCharges(j)
      PROVE  LoopTypeOK' /\ ~lost'
  BY <1>4 DEF SessionCharges
<1>5. ASSUME NEW j \in LoopJobs, SessionStops(j)
      PROVE  LoopTypeOK' /\ ~lost'
  BY <1>5 DEF SessionStops
<1>6. ASSUME NEW j \in LoopJobs, SessionStopped(j)
      PROVE  LoopTypeOK' /\ ~lost'
  <2>1. rowCharges' \in BOOLEAN /\ ~lost'
    BY <1>6 DEF SessionStopped
  <2>2. crossing' = crossing /\ interval' = interval
    BY <1>6 DEF SessionStopped
  <2>3. loopJob' = [loopJob EXCEPT ![j] = [at |-> "idle", read |-> NoLoop]]
    BY <1>6 DEF SessionStopped
  <2>. QED
    BY <2>1, <2>2, <2>3
<1>7. ASSUME NEW j \in LoopJobs, SessionStopFails(j)
      PROVE  LoopTypeOK' /\ ~lost'
  BY <1>7 DEF SessionStopFails
<1>8. ASSUME NEW j \in LoopJobs, NEW v \in Intervals, IntervalStored(j, v)
      PROVE  LoopTypeOK' /\ ~lost'
  BY <1>8 DEF IntervalStored
<1>9. ASSUME NEW j \in LoopJobs, RefreshStops(j)
      PROVE  LoopTypeOK' /\ ~lost'
  BY <1>9 DEF RefreshStops
<1>10. ASSUME NEW j \in LoopJobs, Tick(j)
      PROVE  LoopTypeOK' /\ ~lost'
  BY <1>10 DEF Tick
<1>11. ASSUME NEW j \in LoopJobs, TickSweeps(j)
      PROVE  LoopTypeOK' /\ ~lost'
  BY <1>11 DEF TickSweeps
<1>. QED
  BY <1>1, <1>2, <1>3, <1>4, <1>5, <1>6, <1>7, <1>8, <1>9, <1>10, <1>11 DEF LoopNext

\* Each step that crosses nothing keeps what follows from no crossing.
LEMMA UncrossedStep ==
    ASSUME LoopTypeOK, LoopTypeOK', Uncrossed, LoopNext, ~crossing, ~crossing'
    PROVE  Uncrossed'
<1>. USE MaxIntervalAssumption
     DEF LoopTypeOK, LoopPlaces, Uncrossed, Under, Ensuring, Ending, Intervals, NoLoop,
         LoopAt, LoopGoes, LoopEnds, LoopCommand, Crosses
<1>1. ASSUME NEW j \in LoopJobs, EnsureLooks(j)
      PROVE  Uncrossed'
  BY <1>1 DEF EnsureLooks
<1>2. ASSUME NEW j \in LoopJobs, EnsureReads(j)
      PROVE  Uncrossed'
  BY <1>2 DEF EnsureReads
<1>3. ASSUME NEW j \in LoopJobs, EnsureArms(j)
      PROVE  Uncrossed'
  BY <1>3 DEF EnsureArms, TakeTimer
<1>4. ASSUME NEW j \in LoopJobs, SessionCharges(j)
      PROVE  Uncrossed'
  BY <1>4 DEF SessionCharges
<1>5. ASSUME NEW j \in LoopJobs, SessionStops(j)
      PROVE  Uncrossed'
  BY <1>5 DEF SessionStops
<1>6. ASSUME NEW j \in LoopJobs, SessionStopped(j)
      PROVE  Uncrossed'
  BY <1>6 DEF SessionStopped
<1>7. ASSUME NEW j \in LoopJobs, SessionStopFails(j)
      PROVE  Uncrossed'
  BY <1>7 DEF SessionStopFails
<1>8. ASSUME NEW j \in LoopJobs, NEW v \in Intervals, IntervalStored(j, v)
      PROVE  Uncrossed'
  BY <1>8 DEF IntervalStored
<1>9. ASSUME NEW j \in LoopJobs, RefreshStops(j)
      PROVE  Uncrossed'
  BY <1>9 DEF RefreshStops
<1>10. ASSUME NEW j \in LoopJobs, Tick(j)
      PROVE  Uncrossed'
  BY <1>10 DEF Tick
<1>11. ASSUME NEW j \in LoopJobs, TickSweeps(j)
      PROVE  Uncrossed'
  BY <1>11 DEF TickSweeps
<1>. QED
  BY <1>1, <1>2, <1>3, <1>4, <1>5, <1>6, <1>7, <1>8, <1>9, <1>10, <1>11 DEF LoopNext

\* No timer is lost; and at rest a transaction that charges is metered at the stored interval,
\* and without one no timer runs (connector-sessions.ts:211, 244-261, 867).
THEOREM LoopServes == LoopSpec => []LoopServesSession
<1>1. LoopInit => LoopInv
  <2>. SUFFICES ASSUME LoopInit PROVE LoopInv
    OBVIOUS
  <2>1. rowCharges \in BOOLEAN /\ crossing \in BOOLEAN /\ ~lost /\ ~rowCharges
    BY DEF LoopInit
  <2>2. interval \in Intervals /\ loop = NoLoop
    BY MaxIntervalAssumption DEF LoopInit, Intervals
  <2>3. loopJob = [j \in LoopJobs |-> [at |-> "idle", read |-> NoLoop]]
    BY DEF LoopInit, NoLoopJob
  <2>4. loopJob \in [LoopJobs -> [at : LoopPlaces, read : 0..NoLoop]]
    BY <2>3, MaxIntervalAssumption DEF LoopPlaces, NoLoop
  <2>. QED
    BY <2>1, <2>2, <2>3, <2>4 DEF LoopInv, LoopTypeOK, Uncrossed, Under, LoopAt, Ensuring
<1>2. LoopInv /\ [LoopNext]_loopVars => LoopInv'
  <2>1. ASSUME LoopInv, LoopNext PROVE LoopInv'
    <3>1. ~crossing' => ~crossing
      BY <2>1, Zenon DEF LoopNext, EnsureLooks, EnsureReads, EnsureArms, SessionCharges, SessionStops,
         SessionStopped, SessionStopFails, IntervalStored, RefreshStops, Tick, TickSweeps, Crosses
    <3>. QED
      BY <2>1, <3>1, LoopTypesStep, UncrossedStep DEF LoopInv
  <2>2. ASSUME LoopInv, UNCHANGED loopVars PROVE LoopInv'
    BY <2>2 DEF loopVars, LoopInv, LoopTypeOK, Uncrossed, Under, LoopAt
  <2>. QED
    BY <2>1, <2>2
<1>3. LoopInv => LoopServesSession
  BY DEF LoopInv, LoopTypeOK, Uncrossed, Under, LoopServesSession, LoopResting, LoopAt, Ensuring
<1>. QED
  BY <1>1, <1>2, <1>3, PTL DEF LoopSpec


(***************************************************************************)
(* LocalList: what of an update is carried out                             *)
(***************************************************************************)
Fields == {"at", "v", "first", "full", "puts", "dels", "todo"}

ListTypeOK ==
    /\ DOMAIN listJob = ListJobs /\ listVersion \in Nat /\ cutOff \in Nat /\ damaged \in BOOLEAN
    /\ \A j \in ListJobs : /\ DOMAIN listJob[j] = Fields /\ listJob[j].v \in Nat
                           /\ listJob[j].puts \cap listJob[j].dels = {}
                           /\ listJob[j].todo \subseteq listJob[j].puts \cup listJob[j].dels

OneUpdater == \A i, j \in ListJobs : Updating(i) /\ Updating(j) => i = j

CarriedOut(u) ==
    /\ u.v > listVersion
    /\ u.full => u.dels = {}
    /\ u.at = "clear" => u.full /\ u.todo = u.puts /\ (~damaged => listEntries = promised)
    /\ u.at = "apply" /\ u.full => listEntries = u.puts \ u.todo
    /\ u.at = "apply" /\ ~u.full /\ ~damaged =>
          listEntries = (promised \cup (u.puts \ u.todo)) \ (u.dels \ u.todo)

ListInv ==
    /\ ListTypeOK
    /\ ~listRaced => OneUpdater /\ \A j \in ListJobs : Updating(j) => CarriedOut(listJob[j])
    /\ VersionedListIsWhole

\* Each step keeps what the types say of the updates.
LEMMA ListTypesStep ==
    ASSUME ListTypeOK, ListNext
    PROVE  ListTypeOK'
<1>. USE DEF ListTypeOK, Fields, NoUpdate
<1>1. ASSUME NEW j \in ListJobs, NEW v \in 1..MaxListVersion, NEW full \in BOOLEAN, NEW puts \in SUBSET ListTags,
             NEW dels \in SUBSET ListTags, SendLocalList(j, v, full, puts, dels)
      PROVE  ListTypeOK'
  BY <1>1 DEF SendLocalList
<1>2. ASSUME NEW j \in ListJobs, ListReadsVersion(j)
      PROVE  ListTypeOK'
  BY <1>2 DEF ListReadsVersion
<1>3. ASSUME NEW j \in ListJobs, ListChecks(j)
      PROVE  ListTypeOK'
  BY <1>3 DEF ListChecks
<1>4. ASSUME NEW j \in ListJobs, ListClears(j)
      PROVE  ListTypeOK'
  BY <1>4 DEF ListClears
<1>5. ASSUME NEW j \in ListJobs, ListVersions(j)
      PROVE  ListTypeOK'
  BY <1>5 DEF ListVersions
<1>6. ASSUME NEW j \in ListJobs, NEW t \in ListTags, ListApplies(j, t)
      PROVE  ListTypeOK'
  BY <1>6 DEF ListApplies
<1>7. ASSUME NEW t \in ListTags, EditEntry(t)
      PROVE  ListTypeOK'
  BY <1>7 DEF EditEntry
<1>8. ASSUME NEW jobs \in SUBSET ListJobs, CutOff(jobs)
      PROVE  ListTypeOK'
  BY <1>8 DEF CutOff
<1>. HIDE DEF ListTypeOK, Fields, NoUpdate
<1>. QED
  BY <1>1, <1>2, <1>3, <1>4, <1>5, <1>6, <1>7, <1>8 DEF ListNext, ListFails, ListCrashes

\* Each step that crosses nothing keeps one updater, and what it has carried out.
LEMMA CarriedOutStep ==
    ASSUME ListTypeOK, ListNext, VersionedListIsWhole, ~listRaced, ~listRaced',
           OneUpdater, \A j \in ListJobs : Updating(j) => CarriedOut(listJob[j])
    PROVE  OneUpdater' /\ \A j \in ListJobs : Updating(j)' => CarriedOut(listJob[j])'
<1>. USE DEF ListTypeOK, Fields, NoUpdate, OneUpdater, Updating, CarriedOut
<1>1. ASSUME NEW j \in ListJobs, NEW v \in 1..MaxListVersion, NEW full \in BOOLEAN, NEW puts \in SUBSET ListTags,
             NEW dels \in SUBSET ListTags, SendLocalList(j, v, full, puts, dels)
      PROVE  OneUpdater' /\ \A i \in ListJobs : Updating(i)' => CarriedOut(listJob[i])'
  BY <1>1 DEF SendLocalList
<1>2. ASSUME NEW j \in ListJobs, ListReadsVersion(j)
      PROVE  OneUpdater' /\ \A i \in ListJobs : Updating(i)' => CarriedOut(listJob[i])'
  BY <1>2 DEF ListReadsVersion
<1>3. ASSUME NEW j \in ListJobs, ListChecks(j)
      PROVE  OneUpdater' /\ \A i \in ListJobs : Updating(i)' => CarriedOut(listJob[i])'
  <2>. DEFINE Begun(at) == [listJob[j] EXCEPT !.at = at, !.todo = listJob[j].puts \cup listJob[j].dels]
  <2>1. CASE Refused(listJob[j])
    BY <1>3, <2>1 DEF ListChecks
  <2>2. CASE ~Refused(listJob[j])
    <3>1. listJob[j].v > listVersion /\ \A i \in ListJobs : ~Updating(i)
      <4>1. listRaced' = (listRaced \/ listJob[j].v <= listVersion \/ \E i \in ListJobs : Updating(i))
        BY <1>3, <2>2 DEF ListChecks
      <4>2. ~(listJob[j].v <= listVersion) /\ ~\E i \in ListJobs : Updating(i)
        BY <4>1, Zenon
      <4>3. listJob[j].v \in Nat /\ listVersion \in Nat
        OBVIOUS
      <4>4. listJob[j].v > listVersion
        BY <4>2, <4>3
      <4>. QED
        BY <4>2, <4>4
    <3>2. listJob' = [listJob EXCEPT ![j] = Begun(IF listJob[j].full THEN "clear" ELSE "apply")]
      BY <1>3, <2>2 DEF ListChecks
    <3>3. /\ UNCHANGED <<listEntries, listVersion, promised, damaged>> /\ (listJob[j].full => listJob[j].dels = {})
          /\ ~damaged => listEntries = promised
      BY <1>3, <2>2, <3>1 DEF ListChecks, Refused, VersionedListIsWhole
    <3>4. \A at \in {"clear", "apply"} :
             /\ Begun(at).at = at /\ Begun(at).full = listJob[j].full /\ Begun(at).v = listJob[j].v
             /\ Begun(at).puts = listJob[j].puts /\ Begun(at).dels = listJob[j].dels
             /\ Begun(at).todo = listJob[j].puts \cup listJob[j].dels
      OBVIOUS
    <3>5. listJob'[j] = Begun(IF listJob[j].full THEN "clear" ELSE "apply")
      BY <3>2
    <3>6. \A i \in ListJobs \ {j} : listJob'[i] = listJob[i]
      BY <3>2
    <3>7. \A i \in ListJobs \ {j} : ~Updating(i)'
      BY <3>1, <3>6
    <3>8. CASE listJob[j].full
      <4>1. listJob'[j] = Begun("clear")
        BY <3>5, <3>8
      <4>2. listJob[j].dels = {} /\ listJob[j].puts \cup listJob[j].dels = listJob[j].puts
        BY <3>3, <3>8
      <4>3. /\ Begun("clear").at = "clear" /\ Begun("clear").full /\ Begun("clear").v = listJob[j].v
            /\ Begun("clear").dels = {} /\ Begun("clear").todo = Begun("clear").puts
        BY <3>4, <3>8, <4>2
      <4>. HIDE DEF Begun
      <4>. QED
        BY <3>1, <3>3, <3>7, <4>1, <4>3
    <3>9. CASE ~listJob[j].full
      <4>1. listJob'[j] = Begun("apply")
        BY <3>5, <3>9
      <4>. HIDE DEF Begun
      <4>. QED
        BY <3>1, <3>3, <3>4, <3>7, <3>9, <4>1
    <3>. QED
      BY <3>8, <3>9
  <2>. QED
    BY <2>1, <2>2
<1>4. ASSUME NEW j \in ListJobs, ListClears(j)
      PROVE  OneUpdater' /\ \A i \in ListJobs : Updating(i)' => CarriedOut(listJob[i])'
  BY <1>4 DEF ListClears
<1>5. ASSUME NEW j \in ListJobs, ListVersions(j)
      PROVE  OneUpdater' /\ \A i \in ListJobs : Updating(i)' => CarriedOut(listJob[i])'
  <2>1. \A i \in ListJobs : ~Updating(i)'
    BY <1>5 DEF ListVersions
  <2>. QED
    BY <2>1
<1>6. ASSUME NEW j \in ListJobs, NEW t \in ListTags, ListApplies(j, t)
      PROVE  OneUpdater' /\ \A i \in ListJobs : Updating(i)' => CarriedOut(listJob[i])'
  BY <1>6 DEF ListApplies
<1>7. ASSUME NEW t \in ListTags, EditEntry(t)
      PROVE  OneUpdater' /\ \A i \in ListJobs : Updating(i)' => CarriedOut(listJob[i])'
  BY <1>7 DEF EditEntry
<1>8. ASSUME NEW jobs \in SUBSET ListJobs, CutOff(jobs)
      PROVE  OneUpdater' /\ \A i \in ListJobs : Updating(i)' => CarriedOut(listJob[i])'
  <2>1. /\ \A i \in ListJobs : Updating(i)' => Updating(i) /\ listJob'[i] = listJob[i]
        /\ UNCHANGED <<listVersion, listEntries, promised>> /\ (~damaged' => ~damaged)
    BY <1>8 DEF CutOff
  <2>. QED
    BY <2>1
<1>. HIDE DEF ListTypeOK, Fields, NoUpdate, OneUpdater, Updating, CarriedOut
<1>. QED
  BY <1>1, <1>2, <1>3, <1>4, <1>5, <1>6, <1>7, <1>8 DEF ListNext, ListFails, ListCrashes

\* Each step keeps the version true: the last of an update that nothing crossed finds the
\* entries that it promises, and one that is cut off leaves a version below its own.
LEMMA VersionStep ==
    ASSUME ListTypeOK, ListNext, VersionedListIsWhole, ~listRaced, ~listRaced', OneUpdater,
           \A j \in ListJobs : Updating(j) => CarriedOut(listJob[j])
    PROVE  VersionedListIsWhole'
<1>. USE DEF VersionedListIsWhole, Updating
<1>1. ASSUME NEW j \in ListJobs, NEW v \in 1..MaxListVersion, NEW full \in BOOLEAN, NEW puts \in SUBSET ListTags,
             NEW dels \in SUBSET ListTags, SendLocalList(j, v, full, puts, dels)
      PROVE  VersionedListIsWhole'
  BY <1>1 DEF SendLocalList, ListTypeOK
<1>2. ASSUME NEW j \in ListJobs, ListReadsVersion(j)
      PROVE  VersionedListIsWhole'
  BY <1>2 DEF ListReadsVersion, ListTypeOK
<1>3. ASSUME NEW j \in ListJobs, ListChecks(j)
      PROVE  VersionedListIsWhole'
  BY <1>3 DEF ListChecks, ListTypeOK, Fields
<1>4. ASSUME NEW j \in ListJobs, ListClears(j)
      PROVE  VersionedListIsWhole'
  <2>1. Updating(j)' /\ UNCHANGED <<cutOff, listVersion>>
    BY <1>4 DEF ListClears, ListTypeOK, Fields
  <2>. QED
    BY <2>1
<1>5. ASSUME NEW j \in ListJobs, ListVersions(j)
      PROVE  VersionedListIsWhole'
  <2>1. CarriedOut(listJob[j]) /\ listJob[j].puts \cap listJob[j].dels = {} /\ cutOff' = 0
    BY <1>5 DEF ListVersions, ListTypeOK
  <2>2. ~damaged' => listEntries' = promised'
    BY <1>5, <2>1 DEF ListVersions, CarriedOut
  <2>. QED
    BY <2>1, <2>2
<1>6. ASSUME NEW j \in ListJobs, NEW t \in ListTags, ListApplies(j, t)
      PROVE  VersionedListIsWhole'
  <2>1. Updating(j)' /\ UNCHANGED <<cutOff, listVersion>>
    BY <1>6 DEF ListApplies, ListTypeOK, Fields
  <2>. QED
    BY <2>1
<1>7. ASSUME NEW t \in ListTags, EditEntry(t)
      PROVE  VersionedListIsWhole'
  BY <1>7 DEF EditEntry
<1>8. ASSUME NEW jobs \in SUBSET ListJobs, CutOff(jobs)
      PROVE  VersionedListIsWhole'
  <2>1. UNCHANGED <<listVersion, listEntries, promised>>
    BY <1>8 DEF CutOff
  <2>2. CASE \E j \in jobs : Touched(listJob[j]) /\ damaged' = TRUE /\ cutOff' = listJob[j].v
    BY <2>1, <2>2 DEF Touched, CarriedOut
  <2>3. CASE (\A j \in jobs : ~Touched(listJob[j])) /\ UNCHANGED <<damaged, cutOff>>
    <3>. SUFFICES ASSUME ~damaged, \A j \in ListJobs : ~Updating(j)' PROVE listEntries = promised
      BY <2>1, <2>3
    <3>1. CASE \A j \in ListJobs : ~Updating(j)
      BY <3>1
    <3>2. ASSUME NEW j \in ListJobs, Updating(j) PROVE listEntries = promised
      <4>1. j \in jobs
        BY <1>8, <3>2 DEF CutOff
      <4>2. ~Touched(listJob[j]) /\ CarriedOut(listJob[j])
        BY <2>3, <3>2, <4>1
      <4>. QED
        BY <3>2, <4>2 DEF Touched, CarriedOut
    <3>. QED
      BY <3>1, <3>2
  <2>. QED
    BY <1>8, <2>2, <2>3 DEF CutOff
<1>. QED
  BY <1>1, <1>2, <1>3, <1>4, <1>5, <1>6, <1>7, <1>8 DEF ListNext, ListFails, ListCrashes

\* While no update is being written the entries are those of the updates accepted, and of an update
\* that was cut off the version does not show (local-list.ts:96-107), outside what the property
\* names: two writers at a time, and the time from an edit or a cut to the next Full update.
THEOREM ListIsWhole == ListSpec => []VersionedListIsWhole
<1>1. ListInit => ListInv
  <2>. SUFFICES ASSUME ListInit PROVE ListInv
    OBVIOUS
  <2>1. \A j \in ListJobs : listJob[j] = NoUpdate
    BY DEF ListInit
  <2>2. ListTypeOK
    BY <2>1 DEF ListInit, ListTypeOK, Fields, NoUpdate
  <2>3. \A j \in ListJobs : ~Updating(j)
    BY <2>1 DEF NoUpdate, Updating
  <2>4. VersionedListIsWhole
    BY DEF ListInit, VersionedListIsWhole
  <2>. QED
    BY <2>2, <2>3, <2>4 DEF ListInv, OneUpdater
<1>2. ListInv /\ [ListNext]_listVars => ListInv'
  <2>1. ASSUME ListInv, ListNext PROVE ListInv'
    <3>1. ~listRaced' => ~listRaced
      BY <2>1, Zenon DEF ListNext, SendLocalList, ListReadsVersion, ListChecks, ListClears,
         ListVersions, ListApplies, EditEntry, ListFails, ListCrashes, CutOff
    <3>2. listRaced' => VersionedListIsWhole'
      BY DEF VersionedListIsWhole
    <3>. QED
      BY <2>1, <3>1, <3>2, ListTypesStep, CarriedOutStep, VersionStep DEF ListInv
  <2>2. ASSUME ListInv, UNCHANGED listVars PROVE ListInv'
    BY <2>2 DEF listVars, ListInv, ListTypeOK, Fields, OneUpdater, Updating, CarriedOut,
       VersionedListIsWhole
  <2>. QED
    BY <2>1, <2>2
<1>3. ListInv => VersionedListIsWhole
  BY DEF ListInv
<1>. QED
  BY <1>1, <1>2, <1>3, PTL DEF ListSpec

(***************************************************************************)
(* InstanceRegistry: the stages that requests can be in together           *)
(***************************************************************************)
Patching(r) == request[r].at \in {"change", "write"}

\* An entry has been disposed of, and the row is still to follow.
Owing(r) ==
    \/ Is(r, "write") /\ request[r].new # request[r].url
    \/ Is(r, "remove")

Connecting(r) == request[r].at \in {"mark", "connect"}
RequestFields == {"at", "start", "url", "up", "entry", "new"}

RegistryShape ==
    /\ registry \in Entries \cup {NoEntry}
    /\ up \subseteq Entries /\ ahead \subseteq Entries /\ survivors \subseteq Entries
    /\ DOMAIN entryUrl = Entries /\ DOMAIN request = HttpRequests
    /\ \A r \in HttpRequests : DOMAIN request[r] = RequestFields
    /\ ~present => ~shownUp

EntriesInHand == \A r \in HttpRequests : Connecting(r) => request[r].entry \in Entries

RegistryTypeOK == RegistryShape /\ EntriesInHand

OneAtATime ==
    \A r, q \in HttpRequests :
        /\ Is(r, "prepare") /\ Is(q, "prepare") => r = q
        /\ Patching(r) /\ Patching(q) => r = q
        /\ Owing(r) => ~Connecting(q) /\ q \notin Making

\* What connects, or is still to connect, is in the registry or was disposed of so.
Held == up \cup ahead \subseteq {registry} \cup survivors

Consistent ==
    /\ registry # NoEntry => present /\ entryUrl[registry] = csmsUrl
    /\ \A r \in HttpRequests :
         /\ Connecting(r) => request[r].entry = registry /\ registry # NoEntry
         /\ Is(r, "prepare") => registry = NoEntry
         /\ r \in Making => request[r].url = csmsUrl /\ present
         /\ Patching(r) => request[r].url = csmsUrl
         /\ Owing(r) => registry = NoEntry
         /\ Is(r, "change") \/ (Is(r, "write") /\ Owing(r)) => (shownUp /\ ~lateStatus => request[r].up)
    /\ registry = NoEntry /\ shownUp /\ ~halfChanged /\ ~lateStatus => \E r \in HttpRequests : Owing(r)

RegistryInv == RegistryTypeOK /\ (~mixedUp => OneAtATime /\ Held /\ Consistent)

\* Each step keeps what the types say of the entries and the requests.
LEMMA RegistryTypesStep ==
    ASSUME RegistryTypeOK, RegistryNext
    PROVE  RegistryTypeOK'
<1>. USE DEF RegistryTypeOK, RegistryShape, EntriesInHand, Connecting, RequestFields, NoRequestUnderWay, Is,
            clientVars, rowStatus, RowSays
<1>1. ASSUME NEW r \in HttpRequests, NEW start \in BOOLEAN, RowRead(r, start)
      PROVE  RegistryTypeOK'
  BY <1>1 DEF RowRead, Comes
<1>2. ASSUME NEW r \in HttpRequests, EntryLooked(r)
      PROVE  RegistryTypeOK'
  <2>1. RegistryShape'
    BY <1>2 DEF EntryLooked, HasEntry, Moves, Ends
  <2>2. CASE registry # NoEntry
    BY <1>2, <2>1, <2>2 DEF EntryLooked, HasEntry, Ends
  <2>3. CASE registry = NoEntry
    BY <1>2, <2>1, <2>3 DEF EntryLooked, Moves
  <2>. QED
    BY <2>2, <2>3
<1>3. ASSUME NEW r \in HttpRequests, NEW e \in Entries, EntryMade(r, e)
      PROVE  RegistryTypeOK'
  BY <1>3 DEF EntryMade, HasEntry, Ends
<1>4. ASSUME NEW r \in HttpRequests, StartMarks(r)
      PROVE  RegistryTypeOK'
  BY <1>4 DEF StartMarks, AtPatch, Moves, Ends
<1>5. ASSUME NEW r \in HttpRequests, StartConnects(r)
      PROVE  RegistryTypeOK'
  <2>1. request[r].entry \in Entries
    BY <1>5 DEF StartConnects
  <2>. QED
    BY <1>5, <2>1 DEF StartConnects, Ends
<1>6. ASSUME NEW r \in HttpRequests, StopCloses(r)
      PROVE  RegistryTypeOK'
  BY <1>6 DEF StopCloses, Comes, Moves
<1>7. ASSUME NEW r \in HttpRequests, StopMarks(r)
      PROVE  RegistryTypeOK'
  BY <1>7 DEF StopMarks, Ends
<1>8. ASSUME NEW r \in HttpRequests, NEW u \in Urls, PatchReads(r, u)
      PROVE  RegistryTypeOK'
  BY <1>8 DEF PatchReads, Comes
<1>9. ASSUME NEW r \in HttpRequests, PatchDisposes(r)
      PROVE  RegistryTypeOK'
  BY <1>9 DEF PatchDisposes, DisposeEntry, DisposalCrosses, Moves
<1>10. ASSUME NEW r \in HttpRequests, PatchWrites(r)
      PROVE  RegistryTypeOK'
  BY <1>10 DEF PatchWrites, Ends
<1>11. ASSUME NEW r \in HttpRequests, PatchFails(r)
      PROVE  RegistryTypeOK'
  BY <1>11 DEF PatchFails, Ends
<1>12. ASSUME NEW r \in HttpRequests, DeleteDisposes(r)
      PROVE  RegistryTypeOK'
  BY <1>12 DEF DeleteDisposes, DisposeEntry, DisposalCrosses, Comes, Moves
<1>13. ASSUME NEW r \in HttpRequests, DeleteRemoves(r)
      PROVE  RegistryTypeOK'
  BY <1>13 DEF DeleteRemoves, Ends
<1>14. ASSUME NEW e \in Entries, ResetComes(e) \/ ResetCloses(e) \/ TimerConnects(e) \/ StatusComes(e)
      PROVE  RegistryTypeOK'
  BY <1>14 DEF ResetComes, ResetCloses, TimerConnects, StatusComes
<1>15. ASSUME NEW connected \in BOOLEAN, StatusLands(connected)
      PROVE  RegistryTypeOK'
  BY <1>15 DEF StatusLands, AtPatch
<1>. HIDE DEF RegistryTypeOK, RegistryShape, EntriesInHand, Connecting, RequestFields, NoRequestUnderWay, Is,
             clientVars, rowStatus, RowSays
<1>. QED
  BY <1>1, <1>2, <1>3, <1>4, <1>5, <1>6, <1>7, <1>8, <1>9, <1>10, <1>11, <1>12, <1>13, <1>14, <1>15
  DEF RegistryNext

\* What a step that crosses nothing has found.
LEMMA NothingCrosses ==
    ASSUME NEW r \in HttpRequests, ~mixedUp'
    PROVE  /\ \A start \in BOOLEAN : RowRead(r, start) => Changing = {}
           /\ EntryLooked(r) /\ registry = NoEntry => \A q \in HttpRequests : ~Is(q, "prepare")
           /\ StartMarks(r) => ~AtPatch
           /\ \A u \in Urls : PatchReads(r, u) => \A q \in HttpRequests : ~Patching(q)
           /\ PatchDisposes(r) /\ request[r].new # request[r].url => ~DisposalCrosses
           /\ DeleteDisposes(r) => ~DisposalCrosses
<1>1. \A start \in BOOLEAN : RowRead(r, start) => Changing = {}
  BY DEF RowRead
<1>2. EntryLooked(r) /\ registry = NoEntry => \A q \in HttpRequests : ~Is(q, "prepare")
  BY DEF EntryLooked
<1>3. StartMarks(r) => ~AtPatch
  BY DEF StartMarks
<1>4. \A u \in Urls : PatchReads(r, u) => \A q \in HttpRequests : ~Patching(q)
  BY DEF PatchReads, Patching
<1>5. PatchDisposes(r) /\ request[r].new # request[r].url => ~DisposalCrosses
  BY DEF PatchDisposes
<1>6. DeleteDisposes(r) => ~DisposalCrosses
  BY DEF DeleteDisposes
<1>. QED
  BY <1>1, <1>2, <1>3, <1>4, <1>5, <1>6

\* Each step that crosses nothing keeps the requests apart that must be.
LEMMA OneAtATimeStep ==
    ASSUME RegistryShape, OneAtATime, Consistent, RegistryNext, ~mixedUp'
    PROVE  OneAtATime'
<1>. USE DEF RegistryShape, RequestFields, NoRequestUnderWay, Is, OneAtATime, Consistent, Connecting, Patching, Owing,
            Making, Changing, clientVars, rowStatus, RowSays
<1>1. ASSUME NEW r \in HttpRequests, NEW start \in BOOLEAN, RowRead(r, start)
      PROVE  OneAtATime'
  <2>1. \A q \in HttpRequests \ {r} : request'[q] = request[q]
    BY <1>1 DEF RowRead
  <2>2. request'[r].at = "look"
    BY <1>1 DEF RowRead, Comes
  <2>3. Changing = {}
    BY <1>1, NothingCrosses
  <2>. QED
    BY <2>1, <2>2, <2>3
<1>2. ASSUME NEW r \in HttpRequests, EntryLooked(r)
      PROVE  OneAtATime'
  <2>1. \A q \in HttpRequests \ {r} : request'[q] = request[q]
    BY <1>2 DEF EntryLooked, HasEntry, Moves, Ends
  <2>2. CASE registry # NoEntry
    <3>1. request'[r].at \in {"mark", "idle"}
      BY <1>2, <2>2 DEF EntryLooked, HasEntry, Ends
    <3>2. \A q \in HttpRequests : ~Owing(q)
      BY <2>2
    <3>. QED
      BY <2>1, <3>1, <3>2
  <2>3. CASE registry = NoEntry
    <3>1. request'[r] = [request[r] EXCEPT !.at = "prepare"] /\ Is(r, "look")
      BY <1>2, <2>3 DEF EntryLooked, Moves
    <3>2. \A q \in HttpRequests : ~Is(q, "prepare")
      BY <1>2, <2>3, NothingCrosses
    <3>. QED
      BY <2>1, <3>1, <3>2
  <2>. QED
    BY <2>2, <2>3
<1>3. ASSUME NEW r \in HttpRequests, NEW e \in Entries, EntryMade(r, e)
      PROVE  OneAtATime'
  BY <1>3 DEF EntryMade, HasEntry, Ends
<1>4. ASSUME NEW r \in HttpRequests, StartMarks(r)
      PROVE  OneAtATime'
  BY <1>4 DEF StartMarks, AtPatch, Moves, Ends
<1>5. ASSUME NEW r \in HttpRequests, StartConnects(r)
      PROVE  OneAtATime'
  BY <1>5 DEF StartConnects, Ends
<1>6. ASSUME NEW r \in HttpRequests, StopCloses(r)
      PROVE  OneAtATime'
  BY <1>6 DEF StopCloses, Comes, Moves
<1>7. ASSUME NEW r \in HttpRequests, StopMarks(r)
      PROVE  OneAtATime'
  BY <1>7 DEF StopMarks, Ends
<1>8. ASSUME NEW r \in HttpRequests, NEW u \in Urls, PatchReads(r, u)
      PROVE  OneAtATime'
  <2>1. \A q \in HttpRequests \ {r} : request'[q] = request[q]
    BY <1>8 DEF PatchReads
  <2>2. request'[r].at = "change"
    BY <1>8 DEF PatchReads, Comes
  <2>3. \A q \in HttpRequests : ~Patching(q)
    BY <1>8, NothingCrosses
  <2>. QED
    BY <2>1, <2>2, <2>3
<1>9. ASSUME NEW r \in HttpRequests, PatchDisposes(r)
      PROVE  OneAtATime'
  <2>1. \A q \in HttpRequests \ {r} : request'[q] = request[q]
    BY <1>9 DEF PatchDisposes, Moves
  <2>2. CASE request[r].new # request[r].url
    <3>1. request'[r] = [request[r] EXCEPT !.at = "write"] /\ Is(r, "change")
      BY <1>9 DEF PatchDisposes, Moves
    <3>2. Making = {} /\ \A q \in HttpRequests : ~Connecting(q)
      BY <1>9, <2>2, NothingCrosses DEF DisposalCrosses
    <3>. QED
      BY <2>1, <3>1, <3>2
  <2>3. CASE request[r].new = request[r].url
    <3>1. request'[r] = [request[r] EXCEPT !.at = "write"] /\ Is(r, "change")
      BY <1>9 DEF PatchDisposes, Moves
    <3>. QED
      BY <2>1, <2>3, <3>1
  <2>. QED
    BY <2>2, <2>3
<1>10. ASSUME NEW r \in HttpRequests, PatchWrites(r)
      PROVE  OneAtATime'
  BY <1>10 DEF PatchWrites, Ends
<1>11. ASSUME NEW r \in HttpRequests, PatchFails(r)
      PROVE  OneAtATime'
  BY <1>11 DEF PatchFails, Ends
<1>12. ASSUME NEW r \in HttpRequests, DeleteDisposes(r)
      PROVE  OneAtATime'
  <2>1. \A q \in HttpRequests \ {r} : request'[q] = request[q]
    BY <1>12 DEF DeleteDisposes, Moves
  <2>2. request'[r].at = "remove"
    BY <1>12 DEF DeleteDisposes, Comes, Moves
  <2>3. Making = {} /\ \A q \in HttpRequests : ~Connecting(q)
    BY <1>12, NothingCrosses DEF DisposalCrosses
  <2>. QED
    BY <2>1, <2>2, <2>3
<1>13. ASSUME NEW r \in HttpRequests, DeleteRemoves(r)
      PROVE  OneAtATime'
  BY <1>13 DEF DeleteRemoves, Ends
<1>14. ASSUME NEW e \in Entries, ResetComes(e) \/ ResetCloses(e) \/ TimerConnects(e) \/ StatusComes(e)
      PROVE  OneAtATime'
  BY <1>14 DEF ResetComes, ResetCloses, TimerConnects, StatusComes
<1>15. ASSUME NEW connected \in BOOLEAN, StatusLands(connected)
      PROVE  OneAtATime'
  BY <1>15 DEF StatusLands, AtPatch
<1>. HIDE DEF RegistryShape, RequestFields, NoRequestUnderWay, Is, OneAtATime, Consistent, Connecting, Patching, Owing,
             Making, Changing, clientVars, rowStatus, RowSays
<1>. QED
  BY <1>1, <1>2, <1>3, <1>4, <1>5, <1>6, <1>7, <1>8, <1>9, <1>10, <1>11, <1>12, <1>13, <1>14, <1>15
  DEF RegistryNext

\* Each step that crosses nothing keeps what connects in the registry, or a survivor.
LEMMA HeldStep ==
    ASSUME RegistryShape, OneAtATime, Held, Consistent, RegistryNext, ~mixedUp'
    PROVE  Held'
<1>. USE NoEntryAssumption DEF RegistryShape, Held, Is, clientVars
<1>1. ASSUME NEW r \in HttpRequests, NEW start \in BOOLEAN, RowRead(r, start)
      PROVE  Held'
  BY <1>1 DEF RowRead
<1>2. ASSUME NEW r \in HttpRequests, EntryLooked(r)
      PROVE  Held'
  BY <1>2 DEF EntryLooked
<1>3. ASSUME NEW r \in HttpRequests, NEW e \in Entries, EntryMade(r, e)
      PROVE  Held'
  <2>1. registry = NoEntry
    BY <1>3 DEF EntryMade, Consistent
  <2>. QED
    BY <1>3, <2>1 DEF EntryMade
<1>4. ASSUME NEW r \in HttpRequests, StartMarks(r)
      PROVE  Held'
  BY <1>4 DEF StartMarks
<1>5. ASSUME NEW r \in HttpRequests, StartConnects(r)
      PROVE  Held'
  <2>1. request[r].entry = registry
    BY <1>5 DEF StartConnects, Consistent, Connecting
  <2>2. up' = up \cup {registry} /\ ahead' \subseteq ahead \cup {registry}
    BY <1>5, <2>1 DEF StartConnects
  <2>. QED
    BY <1>5, <2>2 DEF StartConnects
<1>6. ASSUME NEW r \in HttpRequests, StopCloses(r)
      PROVE  Held'
  BY <1>6 DEF StopCloses
<1>7. ASSUME NEW r \in HttpRequests, StopMarks(r)
      PROVE  Held'
  BY <1>7 DEF StopMarks
<1>8. ASSUME NEW r \in HttpRequests, NEW u \in Urls, PatchReads(r, u)
      PROVE  Held'
  BY <1>8 DEF PatchReads
<1>9. ASSUME DisposeEntry, UNCHANGED ahead
      PROVE  Held'
  BY <1>9 DEF DisposeEntry
<1>10. ASSUME NEW r \in HttpRequests, PatchDisposes(r)
      PROVE  Held'
  <2>1. UNCHANGED ahead /\ (DisposeEntry \/ UNCHANGED <<registry, up, survivors>>)
    BY <1>10 DEF PatchDisposes
  <2>. QED
    BY <1>9, <2>1
<1>11. ASSUME NEW r \in HttpRequests, PatchWrites(r) \/ PatchFails(r) \/ DeleteRemoves(r)
      PROVE  Held'
  BY <1>11 DEF PatchWrites, PatchFails, DeleteRemoves
<1>12. ASSUME NEW r \in HttpRequests, DeleteDisposes(r)
      PROVE  Held'
  BY <1>9, <1>12 DEF DeleteDisposes
<1>13. ASSUME NEW e \in Entries, ResetComes(e) \/ ResetCloses(e) \/ TimerConnects(e) \/ StatusComes(e)
      PROVE  Held'
  BY <1>13 DEF ResetComes, ResetCloses, TimerConnects, StatusComes
<1>14. ASSUME NEW connected \in BOOLEAN, StatusLands(connected)
      PROVE  Held'
  BY <1>14 DEF StatusLands
<1>. HIDE DEF RegistryShape, Held, Is, clientVars
<1>. QED
  BY <1>1, <1>2, <1>3, <1>4, <1>5, <1>6, <1>7, <1>8, <1>10, <1>11, <1>12, <1>13, <1>14
  DEF RegistryNext

\* Each step that crosses nothing keeps the row, the entry and the requests in step.
LEMMA ConsistentStep ==
    ASSUME RegistryShape, OneAtATime, Consistent, RegistryNext, ~mixedUp'
    PROVE  Consistent'
<1>. USE NoEntryAssumption
     DEF RegistryShape, RequestFields, NoRequestUnderWay, Is, OneAtATime, Consistent, Connecting, Patching, Owing,
         Making, Changing, clientVars, rowStatus, RowSays
<1>1. ASSUME NEW r \in HttpRequests, NEW start \in BOOLEAN, RowRead(r, start)
      PROVE  Consistent'
  BY <1>1 DEF RowRead, Comes
<1>2. ASSUME NEW r \in HttpRequests, EntryLooked(r)
      PROVE  Consistent'
  <2>1. \A q \in HttpRequests \ {r} : request'[q] = request[q]
    BY <1>2 DEF EntryLooked, HasEntry, Moves, Ends
  <2>0. UNCHANGED <<present, csmsUrl, rowStatus, registry, entryUrl, halfChanged>>
    BY <1>2 DEF EntryLooked
  <2>2. CASE registry # NoEntry
    <3>1. CASE request[r].start
      <4>1. request'[r].at = "mark" /\ request'[r].entry = registry
        BY <1>2, <2>2, <3>1 DEF EntryLooked, HasEntry
      <4>. QED
        BY <2>0, <2>1, <2>2, <4>1
    <3>2. CASE ~request[r].start
      <4>1. request'[r].at = "idle"
        BY <1>2, <2>2, <3>2 DEF EntryLooked, HasEntry, Ends
      <4>. QED
        BY <2>0, <2>1, <2>2, <4>1
    <3>. QED
      BY <3>1, <3>2
  <2>3. CASE registry = NoEntry
    <3>1. request'[r] = [request[r] EXCEPT !.at = "prepare"] /\ Is(r, "look")
      BY <1>2, <2>3 DEF EntryLooked, Moves
    <3>. QED
      BY <2>0, <2>1, <2>3, <3>1
  <2>. QED
    BY <2>2, <2>3
<1>3. ASSUME NEW r \in HttpRequests, NEW e \in Entries, EntryMade(r, e)
      PROVE  Consistent'
  BY <1>3 DEF EntryMade, HasEntry, Ends
<1>4. ASSUME NEW r \in HttpRequests, StartMarks(r)
      PROVE  Consistent'
  <2>1. \A q \in HttpRequests \ {r} : request'[q] = request[q]
    BY <1>4 DEF StartMarks, Moves, Ends
  <2>2. /\ UNCHANGED <<present, csmsUrl, registry, entryUrl, halfChanged>>
        /\ \A q \in HttpRequests : ~Is(q, "change")
    BY <1>4, NothingCrosses DEF StartMarks, AtPatch
  <2>3. request[r].entry = registry /\ registry # NoEntry /\ \A q \in HttpRequests : ~Owing(q)
    BY <1>4 DEF StartMarks
  <2>4. request'[r] = [request[r] EXCEPT !.at = "connect"] \/ request'[r].at = "idle"
    BY <1>4 DEF StartMarks, Moves, Ends
  <2>5. \A q \in HttpRequests : ~Owing(q)' /\ ~Is(q, "change")'
    BY <2>1, <2>2, <2>3, <2>4
  <2>. QED
    BY <2>1, <2>2, <2>3, <2>4, <2>5
<1>5. ASSUME NEW r \in HttpRequests, StartConnects(r)
      PROVE  Consistent'
  BY <1>5 DEF StartConnects, Ends
<1>6. ASSUME NEW r \in HttpRequests, StopCloses(r)
      PROVE  Consistent'
  BY <1>6 DEF StopCloses, Comes, Moves
<1>7. ASSUME NEW r \in HttpRequests, StopMarks(r)
      PROVE  Consistent'
  BY <1>7 DEF StopMarks, Ends
<1>8. ASSUME NEW r \in HttpRequests, NEW u \in Urls, PatchReads(r, u)
      PROVE  Consistent'
  BY <1>8 DEF PatchReads, Comes
<1>9. ASSUME NEW r \in HttpRequests, PatchDisposes(r)
      PROVE  Consistent'
  <2>1. \A q \in HttpRequests \ {r} : request'[q] = request[q]
    BY <1>9 DEF PatchDisposes, Moves
  <2>0. /\ UNCHANGED <<present, csmsUrl, rowStatus, entryUrl, halfChanged>>
        /\ request'[r] = [request[r] EXCEPT !.at = "write"] /\ Is(r, "change")
    BY <1>9 DEF PatchDisposes, Moves
  <2>2. CASE request[r].new # request[r].url
    <3>1. registry' = NoEntry
      BY <1>9, <2>2 DEF PatchDisposes, DisposeEntry
    <3>2. Making = {} /\ \A q \in HttpRequests : ~Connecting(q)
      BY <1>9, <2>2, NothingCrosses DEF DisposalCrosses
    <3>. QED
      BY <2>0, <2>1, <2>2, <3>1, <3>2
  <2>3. CASE request[r].new = request[r].url
    <3>1. UNCHANGED registry
      BY <1>9, <2>3 DEF PatchDisposes
    <3>. QED
      BY <2>0, <2>1, <2>3, <3>1
  <2>. QED
    BY <2>2, <2>3
<1>10. ASSUME NEW r \in HttpRequests, PatchWrites(r)
      PROVE  Consistent'
  <2>1. /\ \A q \in HttpRequests \ {r} : request'[q] = request[q]
        /\ request'[r].at = "idle"
    BY <1>10 DEF PatchWrites, Ends
  <2>2. UNCHANGED <<present, registry, entryUrl, halfChanged>>
    BY <1>10 DEF PatchWrites
  <2>3. CASE request[r].new = request[r].url
    <3>1. csmsUrl' = csmsUrl /\ UNCHANGED rowStatus
      BY <1>10, <2>3 DEF PatchWrites
    <3>2. ~Owing(r) /\ ~Owing(r)'
      BY <1>10, <2>1, <2>3 DEF PatchWrites
    <3>3. registry' = NoEntry /\ shownUp' /\ ~halfChanged' /\ ~lateStatus' => \E q \in HttpRequests : Owing(q)'
      <4>1. \A q \in HttpRequests : Owing(q) => Owing(q)'
        BY <2>1, <3>2
      <4>2. registry = NoEntry /\ shownUp /\ ~halfChanged /\ ~lateStatus => \E q \in HttpRequests : Owing(q)
        BY Zenon DEF Consistent
      <4>. HIDE DEF Owing, Consistent
      <4>. QED
        BY <2>2, <3>1, <4>1, <4>2
    <3>. QED
      BY <2>1, <2>2, <3>1, <3>3
  <2>4. CASE request[r].new # request[r].url
    <3>1. Owing(r) /\ registry = NoEntry /\ \A q \in HttpRequests : ~Connecting(q) /\ q \notin Making
      BY <1>10, <2>4 DEF PatchWrites
    <3>2. shownUp' => lateStatus'
      <4>1. CASE present /\ request[r].up
        BY <1>10, <2>4, <4>1 DEF PatchWrites
      <4>2. CASE ~(present /\ request[r].up)
        <5>1. shownUp' = shownUp /\ lateStatus' = lateStatus
          BY <1>10, <4>2 DEF PatchWrites
        <5>2. shownUp => present
          BY Zenon DEF RegistryShape
        <5>3. shownUp /\ ~lateStatus => request[r].up
          BY <1>10, <3>1 DEF PatchWrites
        <5>. QED
          BY <4>2, <5>1, <5>2, <5>3
      <4>. QED
        BY <4>1, <4>2
    <3>3. \A q \in HttpRequests \ {r} : ~Patching(q)
      BY <1>10 DEF PatchWrites
    <3>. QED
      BY <2>1, <2>2, <3>1, <3>2, <3>3
  <2>. QED
    BY <2>3, <2>4
<1>11. ASSUME NEW r \in HttpRequests, PatchFails(r)
      PROVE  Consistent'
  BY <1>11 DEF PatchFails, Ends
<1>12. ASSUME NEW r \in HttpRequests, DeleteDisposes(r)
      PROVE  Consistent'
  <2>1. \A q \in HttpRequests \ {r} : request'[q] = request[q]
    BY <1>12 DEF DeleteDisposes, Moves
  <2>2. /\ UNCHANGED <<present, csmsUrl, rowStatus, entryUrl, halfChanged>>
        /\ request'[r].at = "remove" /\ registry' = NoEntry
    BY <1>12 DEF DeleteDisposes, DisposeEntry, Comes, Moves
  <2>3. Making = {} /\ \A q \in HttpRequests : ~Connecting(q)
    BY <1>12, NothingCrosses DEF DisposalCrosses
  <2>. QED
    BY <2>1, <2>2, <2>3
<1>13. ASSUME NEW r \in HttpRequests, DeleteRemoves(r)
      PROVE  Consistent'
  BY <1>13 DEF DeleteRemoves, Ends
<1>14. ASSUME NEW e \in Entries, ResetComes(e) \/ ResetCloses(e) \/ TimerConnects(e) \/ StatusComes(e)
      PROVE  Consistent'
  BY <1>14 DEF ResetComes, ResetCloses, TimerConnects, StatusComes
<1>15. ASSUME NEW connected \in BOOLEAN, StatusLands(connected)
      PROVE  Consistent'
  BY <1>15 DEF StatusLands, AtPatch
<1>. HIDE DEF RegistryShape, RequestFields, NoRequestUnderWay, Is, OneAtATime, Consistent, Connecting, Patching, Owing,
             Making, Changing, clientVars, rowStatus, RowSays
<1>. QED
  BY <1>1, <1>2, <1>3, <1>4, <1>5, <1>6, <1>7, <1>8, <1>9, <1>10, <1>11, <1>12, <1>13, <1>14, <1>15
  DEF RegistryNext

\* The invariant of the registry.
LEMMA RegistryInvariant == RegistrySpec => []RegistryInv
<1>1. RegistryInit => RegistryInv
  BY DEF RegistryInit, RegistryInv, RegistryTypeOK, RegistryShape, EntriesInHand, RequestFields, OneAtATime, Held, Consistent, NoRequestUnderWay,
     Is, Connecting, Patching, Owing, Making
<1>2. RegistryInv /\ [RegistryNext]_registryVars => RegistryInv'
  <2>1. ASSUME RegistryInv, RegistryNext PROVE RegistryInv'
    <3>1. ~mixedUp' => ~mixedUp
      BY <2>1, Zenon DEF RegistryNext, RowRead, EntryLooked, EntryMade, StartMarks, StartConnects,
         StopCloses, StopMarks, PatchReads, PatchDisposes, PatchWrites, PatchFails, DeleteDisposes,
         DeleteRemoves, ResetComes, ResetCloses, TimerConnects, StatusComes, StatusLands
    <3>. QED
      BY <2>1, <3>1, RegistryTypesStep, OneAtATimeStep, HeldStep, ConsistentStep DEF RegistryInv, RegistryTypeOK
  <2>2. ASSUME RegistryInv, UNCHANGED registryVars PROVE RegistryInv'
    BY <2>2 DEF registryVars, clientVars, RegistryInv, RegistryTypeOK, RegistryShape, EntriesInHand, OneAtATime, Held, Consistent, Is, Connecting,
       Patching, Owing, Making
  <2>. QED
    BY <2>1, <2>2
<1>. QED
  BY <1>1, <1>2, PTL DEF RegistrySpec

\* Unless requests mixed up, no client connects that the registry has lost
\* (getOrCreateEntry, runtime.ts:189-190, 214).
THEOREM ClientsHeld == RegistrySpec => []ClientsAreHeld
<1>1. RegistryInv => ClientsAreHeld
  BY DEF RegistryInv, Held, ClientsAreHeld
<1>. QED
  BY <1>1, RegistryInvariant, PTL

\* Under the same condition the entry in the registry is bound to the stored URL, and an
\* instance without one is not shown as connected
\* (app/api/device-instances/[id]/route.ts:74-86, 138).
THEOREM RowAndEntry == RegistrySpec => []RowAndEntryAgree
<1>1. RegistryInv => RowAndEntryAgree
  BY DEF RegistryInv, Consistent, RowAndEntryAgree, EntryServesRow, TornDownIsShown, Resting, Owing, Is
<1>. QED
  BY <1>1, RegistryInvariant, PTL

(***************************************************************************)
(* Screens: what was done is shown when its handler ends                   *)
(***************************************************************************)
Stages == {"none", "asked", "answered", "reloading", "ended"}
ButtonsOf(s) == Page[s].buttons
AnyButton == (UNION {ButtonsOf(s) : s \in DOMAIN Page}) \cup {NotPressed.button}
PressStates ==
    [stage : Stages, button : AnyButton, done : BOOLEAN, missed : BOOLEAN, at : [Views -> Nat]]
LoadStates ==
    [view : Views, by : Presses \cup {"page"}, answer : {"none", "held", "failed"}, held : Nat]

\* What a button changes of what its page shows, the answer holds or the page loads anew.
Covers(b, opens) ==
    /\ b.reloads \subseteq Views /\ b.shows \subseteq Views
    /\ b.changes \cap opens \subseteq b.reloads \cup b.shows

PageFits(page) ==
    /\ page.opens \subseteq Views /\ page.polls \subseteq Views
    /\ \A b \in page.buttons : Covers(b, page.opens)

\* Each page reloads or is shown what its buttons change of what it opens.
LEMMA PagesFit == \A s \in DOMAIN Page : PageFits(Page[s])
<1>. USE DEF PageFits, Covers, Views, EachPlug, Reloading, Showing, Bulk, Watching
<1>1. PageFits(Dashboard)
  BY DEF Dashboard
<1>2. PageFits(Home)
  BY DEF Home
<1>3. PageFits(Twin)
  BY DEF Twin
<1>4. PageFits(Locks)
  BY DEF Locks
<1>5. PageFits(Cost)
  BY DEF Cost
<1>6. PageFits(MaintenancePage)
  BY DEF MaintenancePage
<1>7. PageFits(Settings)
  BY DEF Settings
<1>8. PageFits(DeviceTest)
  BY DEF DeviceTest
<1>9. PageFits(StatusPage)
  BY DEF StatusPage
<1>10. PageFits(Contactor)
  BY DEF Contactor
<1>11. PageFits(PlugBoard)
  BY DEF PlugBoard
<1>12. PageFits(Communication)
  BY DEF Communication
<1>13. PageFits(EventLog)
  BY DEF EventLog
<1>14. PageFits(QrCodes)
  BY DEF QrCodes
<1>. QED
  <2>. HIDE DEF PageFits
  <2>. QED
  BY <1>1, <1>2, <1>3, <1>4, <1>5, <1>6, <1>7, <1>8, <1>9, <1>10, <1>11, <1>12, <1>13, <1>14 DEF Page

\* A load that a handler awaits has, if it is answered, what the handler's press did.
Awaited ==
    \A l \in loads : l.by # "page" =>
        /\ pressed[l.by].stage = "reloading"
        /\ pressed[l.by].done /\ l.answer = "held" => l.held >= pressed[l.by].at[l.view]

\* What a handler has not shown yet it is loading.
Carried(p) ==
    pressed[p].stage \in {"reloading", "ended"} /\ pressed[p].done /\ ~pressed[p].missed =>
        \A v \in pressed[p].button.reloads \cup pressed[p].button.shows :
            newest[v] >= pressed[p].at[v] \/ \E l \in loads : l.by = p /\ l.view = v

ScreensInv ==
    /\ screen \in DOMAIN Page
    /\ atServer \in [Views -> Nat] /\ newest \in [Views -> Nat]
    /\ pressed \in [Presses -> PressStates] /\ loads \subseteq LoadStates
    /\ \A p \in Presses : pressed[p].stage # "none" => pressed[p].button \in ButtonsOf(screen)
    /\ \A p \in Presses : pressed[p].done => \A v \in Views : pressed[p].at[v] <= atServer[v]
    /\ Awaited
    /\ \A p \in Presses : Carried(p)

\* A page that opens has nothing pressed.
LEMMA ScreensStart == ScreensInit => ScreensInv
<1>. SUFFICES ASSUME ScreensInit PROVE ScreensInv
  OBVIOUS
<1>1. atServer \in [Views -> Nat] /\ newest \in [Views -> Nat]
  BY DEF ScreensInit, Nothing
<1>2. NotPressed \in PressStates /\ NotPressed.stage = "none" /\ NotPressed.done = FALSE
  BY DEF NotPressed, PressStates, Stages, AnyButton, Nothing
<1>3. pressed \in [Presses -> PressStates] /\ \A p \in Presses : pressed[p] = NotPressed
  BY <1>2 DEF ScreensInit
<1>4. screen \in DOMAIN Page /\ loads = {Load(v, "page") : v \in Page[screen].opens}
  BY DEF ScreensInit
<1>5. loads \subseteq LoadStates /\ \A l \in loads : l.by = "page"
  BY <1>4, PagesFit DEF PageFits, Load, LoadStates, Nothing
<1>. QED
  BY <1>1, <1>2, <1>3, <1>4, <1>5 DEF ScreensInv, Awaited, Carried

\* A newer state is never taken off the record of what was shown.
LEMMA NewestGrows ==
    ASSUME newest \in [Views -> Nat], NEW views, NEW held, \A v \in views : held[v] \in Nat, Show(views, held)
    PROVE  /\ newest' \in [Views -> Nat]
           /\ \A v \in Views : newest'[v] >= newest[v]
           /\ \A v \in views \cap Views : newest'[v] >= held[v]
BY DEF Show, Newer

\* Between presses: requests of the page, and changes on the server.
LEMMA PageMoves ==
    ASSUME ScreensInv, UNCHANGED <<screen, newest, pressed>>, loads \subseteq loads',
           loads' \subseteq LoadStates, \A l \in loads' \ loads : l.by = "page",
           atServer' \in [Views -> Nat], \A v \in Views : atServer'[v] >= atServer[v]
    PROVE  ScreensInv'
<1>1. \A p \in Presses : pressed[p].at \in [Views -> Nat]
  BY DEF ScreensInv, PressStates
<1>2. \A p \in Presses : pressed[p].done => \A v \in Views : pressed[p].at[v] <= atServer'[v]
  BY <1>1 DEF ScreensInv
<1>3. Awaited'
  BY DEF ScreensInv, Awaited
<1>4. \A p \in Presses : Carried(p)'
  BY DEF ScreensInv, Carried
<1>. QED
  BY <1>2, <1>3, <1>4 DEF ScreensInv

\* A poll adds loads that no press awaits.
LEMMA PollsKeep == ScreensInv /\ Polls => ScreensInv'
<1>. SUFFICES ASSUME ScreensInv, Polls PROVE ScreensInv'
  OBVIOUS
<1>1. loads \subseteq loads' /\ loads' \subseteq LoadStates /\ \A l \in loads' \ loads : l.by = "page"
  BY PagesFit DEF PageFits, Polls, Loads, Load, LoadStates, Nothing, ScreensInv
<1>2. \A v \in Views : atServer[v] >= atServer[v]
  BY DEF ScreensInv
<1>. QED
  BY <1>1, <1>2, PageMoves DEF Polls, ScreensInv

\* A change by somebody else is owed to no press.
LEMMA OthersKeep == ASSUME ScreensInv, NEW v \in Views, OthersChange(v) PROVE ScreensInv'
<1>1. atServer' \in [Views -> Nat] /\ \A w \in Views : atServer'[w] >= atServer[w]
  BY DEF OthersChange, ScreensInv
<1>2. UNCHANGED <<screen, newest, pressed, loads>>
  BY DEF OthersChange
<1>. QED
  BY <1>1, <1>2, PageMoves DEF ScreensInv

\* A load is answered: it carries what the server has at that moment.
LEMMA LoadAnsweredKeeps == ASSUME ScreensInv, NEW l \in loads, LoadAnswered(l) PROVE ScreensInv'
<1>. DEFINE answered(a) == [l EXCEPT !.answer = a, !.held = atServer[l.view]]
<1>1. PICK a \in {"held", "failed"} : loads' = (loads \ {l}) \cup {answered(a)}
  BY DEF LoadAnswered
<1>2. /\ l.view \in Views /\ l \in LoadStates /\ answered(a) \in LoadStates
      /\ answered(a).by = l.by /\ answered(a).view = l.view /\ answered(a).held = atServer[l.view]
  BY DEF ScreensInv, LoadStates
<1>. HIDE DEF answered
<1>3. UNCHANGED <<screen, atServer, newest, pressed>>
  BY DEF LoadAnswered
<1>4. Awaited'
  <2>1. answered(a).by # "page" =>
            /\ answered(a).by \in Presses /\ pressed[l.by].stage = "reloading"
            /\ pressed[l.by].done => atServer[l.view] >= pressed[l.by].at[l.view]
    <3>. SUFFICES ASSUME l.by # "page"
                 PROVE  /\ l.by \in Presses /\ pressed[l.by].stage = "reloading"
                        /\ pressed[l.by].done => atServer[l.view] >= pressed[l.by].at[l.view]
      BY <1>2
    <3>1. l.by \in Presses /\ pressed[l.by].stage = "reloading"
      BY <1>2 DEF LoadStates, ScreensInv, Awaited
    <3>2. pressed[l.by].at[l.view] \in Nat /\ atServer[l.view] \in Nat
      BY <1>2, <3>1 DEF ScreensInv, PressStates
    <3>. QED
      BY <1>2, <3>1, <3>2 DEF ScreensInv
  <2>. QED
    BY <1>1, <1>2, <1>3, <2>1 DEF ScreensInv, Awaited
<1>5. \A p \in Presses : Carried(p)'
  BY <1>1, <1>2, <1>3 DEF ScreensInv, Carried
<1>. QED
  BY <1>1, <1>2, <1>3, <1>4, <1>5 DEF ScreensInv

\* A handler that ends, and one that has a load less to wait for.
LEMMA EndShape ==
    ASSUME ScreensInv, NEW p \in Presses, NEW missed \in BOOLEAN, NEW stage \in Stages,
           pressed' = [pressed EXCEPT ![p].stage = stage, ![p].missed = @ \/ missed]
    PROVE  /\ pressed' \in [Presses -> PressStates]
           /\ \A q \in Presses \ {p} : pressed'[q] = pressed[q]
           /\ pressed'[p].stage = stage /\ pressed'[p].button = pressed[p].button
           /\ pressed'[p].at = pressed[p].at /\ pressed'[p].done = pressed[p].done
           /\ ~pressed'[p].missed => ~pressed[p].missed /\ ~missed
<1>. DEFINE r == pressed[p]
            s == [r EXCEPT !.stage = stage, !.missed = @ \/ missed]
<1>1. pressed \in [Presses -> PressStates] /\ r \in PressStates
  BY DEF ScreensInv
<1>2. pressed' = [pressed EXCEPT ![p] = s]
  OBVIOUS
<1>3. s \in PressStates
  BY <1>1 DEF PressStates
<1>4. s.stage = stage /\ s.button = r.button /\ s.at = r.at /\ s.done = r.done
  BY <1>1 DEF PressStates
<1>5. s.missed = (r.missed \/ missed)
  BY <1>1, Zenon DEF PressStates
<1>. HIDE DEF s
<1>6. /\ pressed' \in [Presses -> PressStates] /\ pressed'[p] = s
      /\ \A q \in Presses \ {p} : pressed'[q] = pressed[q]
  BY <1>1, <1>2, <1>3
<1>7. ~pressed'[p].missed => ~pressed[p].missed /\ ~missed
  BY <1>5, <1>6, Zenon
<1>. QED
  BY <1>1, <1>4, <1>6, <1>7, Zenon

\* The views of a pressed button, and the record of a press.
LEMMA PressedTypes ==
    ASSUME ScreensInv, NEW p \in Presses
    PROVE  /\ pressed[p] \in PressStates /\ pressed[p].at \in [Views -> Nat]
           /\ pressed[p].done \in BOOLEAN /\ pressed[p].stage \in Stages
           /\ pressed[p].stage # "none" => Covers(pressed[p].button, Page[screen].opens)
<1>1. pressed[p] \in PressStates
  BY DEF ScreensInv
<1>2. screen \in DOMAIN Page /\ (pressed[p].stage # "none" => pressed[p].button \in Page[screen].buttons)
  BY DEF ScreensInv, ButtonsOf
<1>3. pressed[p].stage # "none" => Covers(pressed[p].button, Page[screen].opens)
  BY <1>2, PagesFit DEF PageFits
<1>. QED
  BY <1>1, <1>3 DEF PressStates

\* One press moves on: what is left to show is that its loads are still awaited, and that it
\* carries what it did.
LEMMA PressMoves ==
    ASSUME ScreensInv, NEW p \in Presses, UNCHANGED screen,
           atServer' \in [Views -> Nat], \A v \in Views : atServer'[v] >= atServer[v],
           newest' \in [Views -> Nat], \A v \in Views : newest'[v] >= newest[v],
           loads' \subseteq LoadStates, \A l \in loads : l.by # p => l \in loads',
           \A l \in loads' : l.by # p => l \in loads,
           pressed' \in [Presses -> PressStates], \A q \in Presses \ {p} : pressed'[q] = pressed[q],
           pressed'[p].stage # "none" => pressed'[p].button \in ButtonsOf(screen),
           pressed'[p].done => \A v \in Views : pressed'[p].at[v] <= atServer'[v],
           \A l \in loads' : l.by = p =>
               /\ pressed'[p].stage = "reloading"
               /\ pressed'[p].done /\ l.answer = "held" => l.held >= pressed'[p].at[l.view],
           Carried(p)'
    PROVE  ScreensInv'
<1>1. \A q \in Presses : pressed[q].at \in [Views -> Nat]
  BY PressedTypes
<1>2. \A q \in Presses : pressed'[q].done => \A v \in Views : pressed'[q].at[v] <= atServer'[v]
  <2>. SUFFICES ASSUME NEW q \in Presses \ {p}, pressed'[q].done, NEW v \in Views
               PROVE  pressed'[q].at[v] <= atServer'[v]
    OBVIOUS
  <2>1. pressed[q].at[v] \in Nat /\ atServer[v] \in Nat /\ atServer'[v] \in Nat
    BY <1>1 DEF ScreensInv
  <2>2. pressed[q].at[v] <= atServer[v]
    BY DEF ScreensInv
  <2>. QED
    BY <2>1, <2>2
<1>3. Awaited'
  <2>. SUFFICES ASSUME NEW l \in loads', l.by # "page"
               PROVE  /\ pressed'[l.by].stage = "reloading"
                      /\ pressed'[l.by].done /\ l.answer = "held" => l.held >= pressed'[l.by].at[l.view]
    BY DEF Awaited
  <2>1. l.by \in Presses
    BY DEF LoadStates
  <2>2. CASE l.by # p
    BY <2>1, <2>2 DEF ScreensInv, Awaited
  <2>. QED
    BY <2>2
<1>4. \A q \in Presses : Carried(q)'
  <2>. SUFFICES ASSUME NEW q \in Presses \ {p} PROVE Carried(q)'
    OBVIOUS
  <2>. SUFFICES ASSUME pressed'[q].stage \in {"reloading", "ended"}, pressed'[q].done, ~pressed'[q].missed,
                      NEW v \in pressed'[q].button.reloads \cup pressed'[q].button.shows
               PROVE  newest'[v] >= pressed'[q].at[v] \/ \E l \in loads' : l.by = q /\ l.view = v
    BY DEF Carried
  <2>1. newest[v] >= pressed[q].at[v] \/ \E l \in loads : l.by = q /\ l.view = v
    BY DEF ScreensInv, Carried
  <2>2. v \in Views
    BY PressedTypes DEF Covers
  <2>3. newest[v] \in Nat /\ newest'[v] \in Nat /\ newest'[v] >= newest[v] /\ pressed[q].at[v] \in Nat
    BY <1>1, <2>2 DEF ScreensInv
  <2>. QED
    BY <2>1, <2>3
<1>5. \A q \in Presses : pressed'[q].stage # "none" => pressed'[q].button \in ButtonsOf(screen')
  BY DEF ScreensInv
<1>. QED
  BY <1>2, <1>3, <1>4, <1>5 DEF ScreensInv

\* A load arrives: the page shows it, and a press that awaited it is over.
LEMMA LoadArrivesKeeps == ASSUME ScreensInv, NEW l \in loads, LoadArrives(l) PROVE ScreensInv'
<1>. DEFINE missed == l.answer = "failed"
            p == l.by
<1>1. /\ l \in LoadStates /\ l.view \in Views /\ l.held \in Nat /\ p \in Presses \cup {"page"}
      /\ l.answer \in {"held", "failed"}
  BY DEF ScreensInv, LoadStates, LoadArrives
<1>2. UNCHANGED <<screen, atServer>> /\ loads' = loads \ {l} /\ Settled(l, missed)
  BY DEF LoadArrives
<1>3. /\ newest' \in [Views -> Nat] /\ \A v \in Views : newest'[v] >= newest[v]
      /\ l.answer = "held" => newest'[l.view] >= l.held
  <2>0. newest \in [Views -> Nat]
    BY DEF ScreensInv
  <2>1. CASE l.answer = "held"
    <3>. DEFINE held == [v \in {l.view} |-> l.held]
    <3>1. Show({l.view}, held) /\ held[l.view] = l.held /\ \A v \in {l.view} : held[v] \in Nat
      BY <1>1, <2>1 DEF LoadArrives
    <3>. HIDE DEF held
    <3>. QED
      BY <1>1, <2>0, <3>1, NewestGrows
  <2>2. CASE l.answer = "failed"
    BY <2>0, <2>2 DEF LoadArrives
  <2>. QED
    BY <1>1, <2>1, <2>2
<1>4. CASE p = "page"
  <2>1. UNCHANGED pressed
    BY <1>2, <1>4 DEF Settled
  <2>2. Awaited'
    BY <1>2, <2>1 DEF ScreensInv, Awaited
  <2>3. \A q \in Presses : Carried(q)'
    <3>. SUFFICES ASSUME NEW q \in Presses,
                        pressed[q].stage \in {"reloading", "ended"}, pressed[q].done, ~pressed[q].missed,
                        NEW v \in pressed[q].button.reloads \cup pressed[q].button.shows
                 PROVE  newest'[v] >= pressed[q].at[v] \/ \E k \in loads' : k.by = q /\ k.view = v
      BY <2>1 DEF Carried
    <3>1. newest[v] >= pressed[q].at[v] \/ \E k \in loads : k.by = q /\ k.view = v
      BY DEF ScreensInv, Carried
    <3>2. v \in Views /\ q # p
      BY <1>4, PressedTypes, PageAssumption DEF Covers
    <3>3. newest[v] \in Nat /\ newest'[v] \in Nat /\ newest'[v] >= newest[v] /\ pressed[q].at[v] \in Nat
      BY <1>3, <3>2, PressedTypes DEF ScreensInv
    <3>. QED
      BY <1>2, <3>1, <3>2, <3>3
  <2>. QED
    BY <1>2, <1>3, <2>1, <2>2, <2>3 DEF ScreensInv
<1>5. CASE p \in Presses /\ p # "page"
  <2>1. pressed[p].stage = "reloading" /\ (pressed[p].done /\ l.answer = "held" => l.held >= pressed[p].at[l.view])
    BY <1>5 DEF ScreensInv, Awaited
  <2>2. PICK stage \in {"reloading", "ended"} :
            /\ pressed' = [pressed EXCEPT ![p].stage = stage, ![p].missed = @ \/ missed]
            /\ stage = "ended" => \A k \in loads' : k.by # p
    <3>1. CASE \E other \in loads \ {l} : other.by = p
      <4>1. pressed' = [pressed EXCEPT ![p].missed = @ \/ missed]
        BY <1>2, <1>5, <3>1 DEF Settled
      <4>2. pressed \in [Presses -> PressStates]
        BY DEF ScreensInv
      <4>. QED
        BY <1>5, <2>1, <4>1, <4>2 DEF PressStates
    <3>2. CASE ~ \E other \in loads \ {l} : other.by = p
      BY <1>2, <1>5, <3>2 DEF Settled, HandlerEnds
    <3>. QED
      BY <3>1, <3>2
  <2>3. /\ pressed' \in [Presses -> PressStates]
        /\ \A q \in Presses \ {p} : pressed'[q] = pressed[q]
        /\ pressed'[p].stage = stage /\ pressed'[p].button = pressed[p].button
        /\ pressed'[p].at = pressed[p].at /\ pressed'[p].done = pressed[p].done
        /\ ~pressed'[p].missed => ~pressed[p].missed /\ ~missed
    BY <1>5, <2>2, EndShape DEF Stages
  <2>4. Carried(p)'
    <3>. SUFFICES ASSUME pressed[p].done, ~pressed'[p].missed,
                        NEW v \in pressed[p].button.reloads \cup pressed[p].button.shows
                 PROVE  newest'[v] >= pressed[p].at[v] \/ \E k \in loads' : k.by = p /\ k.view = v
      BY <2>3 DEF Carried
    <3>1. ~pressed[p].missed /\ l.answer = "held"
      BY <1>1, <2>3
    <3>2. newest[v] >= pressed[p].at[v] \/ \E k \in loads : k.by = p /\ k.view = v
      BY <1>5, <2>1, <3>1 DEF ScreensInv, Carried
    <3>3. v \in Views
      BY <1>5, <2>1, PressedTypes DEF Covers
    <3>4. newest[v] \in Nat /\ newest'[v] \in Nat /\ newest'[v] >= newest[v] /\ pressed[p].at[v] \in Nat
      BY <1>3, <1>5, <3>3, PressedTypes DEF ScreensInv
    <3>5. v = l.view => newest'[v] >= pressed[p].at[v]
      BY <1>1, <1>3, <2>1, <3>1, <3>4
    <3>. QED
      BY <1>2, <3>2, <3>4, <3>5
  <2>5. \A k \in loads' : k.by = p =>
            /\ pressed'[p].stage = "reloading"
            /\ pressed'[p].done /\ k.answer = "held" => k.held >= pressed'[p].at[k.view]
    BY <1>2, <1>5, <2>2, <2>3 DEF ScreensInv, Awaited
  <2>6. pressed'[p].done => \A v \in Views : pressed'[p].at[v] <= atServer'[v]
    BY <1>2, <1>5, <2>3 DEF ScreensInv
  <2>7. pressed'[p].button \in ButtonsOf(screen)
    BY <1>5, <2>1, <2>3 DEF ScreensInv
  <2>8. atServer' \in [Views -> Nat] /\ \A v \in Views : atServer'[v] >= atServer[v]
    BY <1>2 DEF ScreensInv
  <2>9. /\ loads' \subseteq LoadStates /\ \A k \in loads : k.by # p => k \in loads'
        /\ \A k \in loads' : k.by # p => k \in loads
    BY <1>2 DEF ScreensInv
  <2>. HIDE DEF p
  <2>. QED
    BY <1>2, <1>3, <1>5, <2>3, <2>4, <2>5, <2>6, <2>7, <2>8, <2>9, PressMoves
<1>. QED
  BY <1>1, <1>4, <1>5, PageAssumption

\* A button is pressed: nothing has been done yet.
LEMMA PressKeeps ==
    ASSUME ScreensInv, NEW p \in Presses, NEW b \in Page[screen].buttons, Press(p, b) PROVE ScreensInv'
<1>. DEFINE r == [NotPressed EXCEPT !.stage = "asked", !.button = b]
<1>1. UNCHANGED <<screen, atServer, newest, loads>> /\ pressed' = [pressed EXCEPT ![p] = r]
  BY DEF Press
<1>2. b \in AnyButton /\ b \in ButtonsOf(screen)
  BY DEF AnyButton, ButtonsOf, ScreensInv
<1>3. r \in PressStates /\ r.stage = "asked" /\ r.button = b /\ r.done = FALSE
  BY <1>2 DEF NotPressed, PressStates, Stages, Nothing
<1>. HIDE DEF r
<1>4. pressed \in [Presses -> PressStates] /\ pressed[p].stage = "none"
  BY DEF ScreensInv, Press, NotPressed
<1>5. /\ pressed' \in [Presses -> PressStates] /\ pressed'[p] = r
      /\ \A q \in Presses \ {p} : pressed'[q] = pressed[q]
  BY <1>1, <1>3, <1>4
<1>6. \A l \in loads : l.by # p
  BY <1>4, PageAssumption DEF ScreensInv, Awaited
<1>7. Carried(p)'
  BY <1>3, <1>5 DEF Carried
<1>8. atServer' \in [Views -> Nat] /\ \A v \in Views : atServer'[v] >= atServer[v]
  BY <1>1 DEF ScreensInv
<1>9. newest' \in [Views -> Nat] /\ \A v \in Views : newest'[v] >= newest[v]
  BY <1>1 DEF ScreensInv
<1>10. loads' \subseteq LoadStates
  BY <1>1 DEF ScreensInv
<1>. QED
  BY <1>1, <1>2, <1>3, <1>5, <1>6, <1>7, <1>8, <1>9, <1>10, PressMoves

\* The server acts: what it did is owed to the press.
LEMMA ActsKeeps == ASSUME ScreensInv, NEW p \in Presses, Acts(p) PROVE ScreensInv'
<1>1. UNCHANGED <<screen, newest, loads>> /\ pressed[p].stage = "asked"
  BY DEF Acts
<1>2. pressed \in [Presses -> PressStates] /\ atServer \in [Views -> Nat]
  BY DEF ScreensInv
<1>3. /\ atServer' \in [Views -> Nat] /\ \A v \in Views : atServer'[v] >= atServer[v]
      /\ pressed' \in [Presses -> PressStates] /\ \A q \in Presses \ {p} : pressed'[q] = pressed[q]
      /\ pressed'[p].stage = "answered" /\ pressed'[p].button = pressed[p].button
      /\ pressed'[p].done => \A v \in Views : pressed'[p].at[v] <= atServer'[v]
  <2>1. CASE /\ atServer' = [v \in Views |-> atServer[v] + IF v \in pressed[p].button.changes THEN 1 ELSE 0]
             /\ pressed' = [pressed EXCEPT ![p] = [@ EXCEPT !.stage = "answered", !.done = TRUE, !.at = atServer']]
    <3>. DEFINE r == [pressed[p] EXCEPT !.stage = "answered", !.done = TRUE, !.at = atServer']
    <3>1. atServer' \in [Views -> Nat] /\ \A v \in Views : atServer'[v] >= atServer[v]
      BY <1>2, <2>1
    <3>2. r \in PressStates /\ r.stage = "answered" /\ r.button = pressed[p].button /\ r.at = atServer'
      BY <1>2, <3>1 DEF PressStates, Stages
    <3>3. pressed' = [pressed EXCEPT ![p] = r]
      BY <2>1
    <3>. HIDE DEF r
    <3>4. /\ pressed' \in [Presses -> PressStates] /\ pressed'[p] = r
          /\ \A q \in Presses \ {p} : pressed'[q] = pressed[q]
      BY <1>2, <3>2, <3>3
    <3>. QED
      BY <3>1, <3>2, <3>4
  <2>2. CASE pressed' = [pressed EXCEPT ![p].stage = "answered"] /\ UNCHANGED atServer
    <3>. DEFINE r == [pressed[p] EXCEPT !.stage = "answered"]
    <3>1. /\ r \in PressStates /\ r.stage = "answered" /\ r.button = pressed[p].button
          /\ r.at = pressed[p].at /\ r.done = pressed[p].done
      BY <1>2 DEF PressStates, Stages
    <3>2. pressed' = [pressed EXCEPT ![p] = r]
      BY <2>2
    <3>. HIDE DEF r
    <3>3. /\ pressed' \in [Presses -> PressStates] /\ pressed'[p] = r
          /\ \A q \in Presses \ {p} : pressed'[q] = pressed[q]
      BY <1>2, <3>1, <3>2
    <3>4. \A v \in Views : atServer'[v] >= atServer[v]
      BY <1>2, <2>2
    <3>. QED
      BY <1>2, <2>2, <3>1, <3>3, <3>4 DEF ScreensInv
  <2>. QED
    BY <2>1, <2>2 DEF Acts
<1>4. pressed'[p].button \in ButtonsOf(screen)
  BY <1>1, <1>3 DEF ScreensInv
<1>5. \A l \in loads : l.by # p
  BY <1>1, PageAssumption DEF ScreensInv, Awaited
<1>6. Carried(p)'
  BY <1>3 DEF Carried
<1>7. newest' \in [Views -> Nat] /\ \A v \in Views : newest'[v] >= newest[v]
  BY <1>1 DEF ScreensInv
<1>8. loads' \subseteq LoadStates
  BY <1>1 DEF ScreensInv
<1>. QED
  BY <1>1, <1>3, <1>4, <1>5, <1>6, <1>7, <1>8, PressMoves

\* The answer of an action arrives: the page shows it or loads again.
LEMMA AnswerArrivesKeeps == ASSUME ScreensInv, NEW p \in Presses, AnswerArrives(p) PROVE ScreensInv'
<1>. DEFINE b == pressed[p].button
<1>1. UNCHANGED <<screen, atServer>> /\ pressed[p].stage = "answered"
  BY DEF AnswerArrives
<1>2. /\ pressed \in [Presses -> PressStates] /\ atServer \in [Views -> Nat] /\ newest \in [Views -> Nat]
      /\ loads \subseteq LoadStates
  BY DEF ScreensInv
<1>3. /\ b.reloads \subseteq Views /\ b.shows \subseteq Views /\ pressed[p].at \in [Views -> Nat]
      /\ pressed[p].done \in BOOLEAN
  BY <1>1, PressedTypes DEF Covers
<1>4. /\ newest' \in [Views -> Nat] /\ \A v \in Views : newest'[v] >= newest[v]
      /\ pressed[p].done => \A v \in b.shows : newest'[v] >= pressed[p].at[v]
  <2>1. CASE pressed[p].done
    <3>1. Show(b.shows, pressed[p].at) /\ \A v \in b.shows : pressed[p].at[v] \in Nat
      BY <1>3, <2>1 DEF AnswerArrives
    <3>. QED
      BY <1>2, <1>3, <3>1, NewestGrows
  <2>2. CASE ~pressed[p].done
    BY <1>2, <2>2 DEF AnswerArrives
  <2>. QED
    BY <2>1, <2>2
<1>5. \A l \in loads : l.by # p
  BY <1>1, PageAssumption DEF ScreensInv, Awaited
<1>6. PICK stage \in {"reloading", "ended"} :
          /\ pressed' = [pressed EXCEPT ![p].stage = stage, ![p].missed = @ \/ FALSE]
          /\ stage = "reloading" => loads' = Loads(b.reloads, p)
          /\ stage = "ended" => UNCHANGED loads /\ (b.reloads = {} \/ ~pressed[p].done)
  <2>1. CASE b.reloads # {} /\ (pressed[p].done \/ screen \in {"dashboard", "twin"})
    <3>1. pressed' = [pressed EXCEPT ![p].stage = "reloading"] /\ loads' = Loads(b.reloads, p)
      BY <2>1 DEF AnswerArrives
    <3>. DEFINE r == pressed[p]
                s == [r EXCEPT !.stage = "reloading"]
                t == [r EXCEPT !.stage = "reloading", !.missed = @ \/ FALSE]
    <3>2. r \in PressStates
      BY <1>2
    <3>3. r.missed \in BOOLEAN
      BY <3>2 DEF PressStates
    <3>4. (r.missed \/ FALSE) = r.missed
      BY <3>3, Zenon
    <3>5. s = t
      BY <3>2, <3>4 DEF PressStates
    <3>6. pressed' = [pressed EXCEPT ![p] = s]
      BY <3>1
    <3>7. [pressed EXCEPT ![p].stage = "reloading", ![p].missed = @ \/ FALSE] = [pressed EXCEPT ![p] = t]
      OBVIOUS
    <3>. HIDE DEF s, t
    <3>. QED
      BY <3>1, <3>5, <3>6, <3>7
  <2>2. CASE ~(b.reloads # {} /\ (pressed[p].done \/ screen \in {"dashboard", "twin"}))
    BY <2>2 DEF AnswerArrives, HandlerEnds
  <2>. QED
    BY <2>1, <2>2
<1>7. /\ pressed' \in [Presses -> PressStates]
      /\ \A q \in Presses \ {p} : pressed'[q] = pressed[q]
      /\ pressed'[p].stage = stage /\ pressed'[p].button = b
      /\ pressed'[p].at = pressed[p].at /\ pressed'[p].done = pressed[p].done
  BY <1>6, EndShape DEF Stages
<1>8. /\ loads' \subseteq LoadStates /\ \A l \in loads : l \in loads'
      /\ \A l \in loads' : l.by # p => l \in loads
      /\ \A l \in loads' : l.by = p => l.answer = "none" /\ stage = "reloading"
      /\ stage = "reloading" => \A v \in b.reloads : \E l \in loads' : l.by = p /\ l.view = v
  <2>1. CASE stage = "reloading"
    <3>1. loads' = loads \cup {Load(v, p) : v \in b.reloads}
      BY <1>6, <2>1 DEF Loads
    <3>2. \A v \in b.reloads : /\ Load(v, p) \in LoadStates /\ Load(v, p).by = p
                               /\ Load(v, p).view = v /\ Load(v, p).answer = "none"
      BY <1>3 DEF Load, LoadStates, Nothing
    <3>. QED
      BY <1>2, <1>5, <2>1, <3>1, <3>2
  <2>2. CASE stage = "ended"
    BY <1>2, <1>5, <1>6, <2>2
  <2>. QED
    BY <2>1, <2>2
<1>9. Carried(p)'
  <2>. SUFFICES ASSUME pressed[p].done, NEW v \in b.reloads \cup b.shows
               PROVE  newest'[v] >= pressed[p].at[v] \/ \E l \in loads' : l.by = p /\ l.view = v
    BY <1>7 DEF Carried
  <2>. QED
    BY <1>4, <1>6, <1>8
<1>10. pressed'[p].button \in ButtonsOf(screen)
  BY <1>1, <1>7 DEF ScreensInv
<1>11. pressed'[p].done => \A v \in Views : pressed'[p].at[v] <= atServer'[v]
  BY <1>1, <1>7 DEF ScreensInv
<1>12. \A v \in Views : atServer'[v] >= atServer[v]
  BY <1>1, <1>2
<1>. HIDE DEF b
<1>. QED
  BY <1>1, <1>2, <1>4, <1>7, <1>8, <1>9, <1>10, <1>11, <1>12, PressMoves

\* The answer of an action is lost: its handler has missed what was done.
LEMMA AnswerLostKeeps == ASSUME ScreensInv, NEW p \in Presses, AnswerLost(p) PROVE ScreensInv'
<1>1. UNCHANGED <<screen, atServer, newest, loads>> /\ pressed[p].stage = "answered"
  BY DEF AnswerLost
<1>2. /\ atServer \in [Views -> Nat] /\ newest \in [Views -> Nat]
      /\ loads \subseteq LoadStates
  BY DEF ScreensInv
<1>3. pressed' = [pressed EXCEPT ![p].stage = "ended", ![p].missed = @ \/ TRUE]
  BY DEF AnswerLost, HandlerEnds
<1>4. /\ pressed' \in [Presses -> PressStates]
      /\ \A q \in Presses \ {p} : pressed'[q] = pressed[q]
      /\ pressed'[p].button = pressed[p].button
      /\ pressed'[p].at = pressed[p].at /\ pressed'[p].done = pressed[p].done
      /\ pressed'[p].missed
  BY <1>3, EndShape DEF Stages
<1>5. \A l \in loads : l.by # p
  BY <1>1, PageAssumption DEF ScreensInv, Awaited
<1>6. Carried(p)'
  BY <1>4 DEF Carried
<1>7. pressed'[p].button \in ButtonsOf(screen)
  BY <1>1, <1>4 DEF ScreensInv
<1>8. pressed'[p].done => \A v \in Views : pressed'[p].at[v] <= atServer'[v]
  BY <1>1, <1>4 DEF ScreensInv
<1>. QED
  BY <1>1, <1>2, <1>4, <1>5, <1>6, <1>7, <1>8, PressMoves

\* Every step keeps the invariant.
LEMMA ScreensStep == ScreensInv /\ [ScreensNext]_screenVars => ScreensInv'
<1>. SUFFICES ASSUME ScreensInv, [ScreensNext]_screenVars PROVE ScreensInv'
  OBVIOUS
<1>1. CASE Polls
  BY <1>1, PollsKeep
<1>2. CASE \E l \in loads : LoadAnswered(l) \/ LoadArrives(l)
  BY <1>2, LoadAnsweredKeeps, LoadArrivesKeeps
<1>3. CASE \E p \in Presses : Acts(p) \/ AnswerArrives(p) \/ AnswerLost(p)
  BY <1>3, ActsKeeps, AnswerArrivesKeeps, AnswerLostKeeps
<1>4. CASE \E p \in Presses : \E b \in Page[screen].buttons : Press(p, b)
  BY <1>4, PressKeeps
<1>5. CASE \E v \in Views : OthersChange(v)
  BY <1>5, OthersKeep
<1>6. CASE UNCHANGED screenVars
  BY <1>6 DEF screenVars, ScreensInv, Awaited, Carried
<1>. QED
  BY <1>1, <1>2, <1>3, <1>4, <1>5, <1>6 DEF ScreensNext

\* A handler that has ended awaits nothing, so what it carries is on the page.
LEMMA CarriedIsShown == ScreensInv => DoneIsShown
<1>. SUFFICES ASSUME ScreensInv, NEW p \in Presses, pressed[p].stage = "ended", pressed[p].done,
                    ~pressed[p].missed, NEW v \in pressed[p].button.changes \cap Page[screen].opens
             PROVE  newest[v] >= pressed[p].at[v]
  BY DEF DoneIsShown
<1>1. v \in pressed[p].button.reloads \cup pressed[p].button.shows
  BY PressedTypes DEF Covers
<1>2. \A l \in loads : l.by # p
  BY PageAssumption DEF ScreensInv, Awaited
<1>. QED
  BY <1>1, <1>2 DEF ScreensInv, Carried

\* What the operator pressed and the server did has been on the page when its handler ends, on
\* every page and for any number of presses under way.
THEOREM DoneShown == ScreensSpec => []DoneIsShown
<1>1. ScreensInv /\ [ScreensNext]_screenVars => ScreensInv'
  BY ScreensStep
<1>. QED
  BY ScreensStart, CarriedIsShown, <1>1, PTL DEF ScreensSpec

(***************************************************************************)
(* Parameters: instances are whole                                         *)
(***************************************************************************)
\* The kinds of parameter the seed has.
Kinds == {Text, Unset, Url, Count, Port, Number, Price, Switch, Choice}

\* The pages, by where they begin and end.
LEMMA PageDomains ==
    /\ DOMAIN DevicePage = 1..5
    /\ DOMAIN SystemPage1 = 10..21 /\ DOMAIN SystemPage2 = 30..43 /\ DOMAIN SystemPage3 = 50..53
    /\ DOMAIN NetworksPage = 60..66 /\ DOMAIN FeeRatePage = 70..73
    /\ DOMAIN OtherPage1 = 80..91 /\ DOMAIN OtherPage2 = 100..107
  BY DEF DevicePage, SystemPage1, SystemPage2, SystemPage3, NetworksPage, FeeRatePage, OtherPage1, OtherPage2,
         All, Firmware

\* Every parameter of a page is of a kind the seed has.
LEMMA PageKinds ==
    ASSUME NEW page \in Pages, NEW n \in DOMAIN page
    PROVE  page[n] \in Kinds
<1>1. CASE page = DevicePage
  BY <1>1 DEF DevicePage, All, Kinds
<1>2. CASE page = SystemPage1
  BY <1>2 DEF SystemPage1, Kinds
<1>3. CASE page = SystemPage2
  BY <1>3 DEF SystemPage2, Kinds
<1>4. CASE page = SystemPage3
  BY <1>4 DEF SystemPage3, Kinds
<1>5. CASE page = NetworksPage
  BY <1>5 DEF NetworksPage, Kinds
<1>6. CASE page = FeeRatePage
  BY <1>6 DEF FeeRatePage, Kinds
<1>7. CASE page = OtherPage1
  BY <1>7 DEF OtherPage1, Kinds
<1>8. CASE page = OtherPage2
  BY <1>8 DEF OtherPage2, Kinds
<1>. QED
  BY <1>1, <1>2, <1>3, <1>4, <1>5, <1>6, <1>7, <1>8 DEF Pages, Tabs

\* Every default is one its parameter accepts.
LEMMA DefaultsAccepted ==
    ASSUME NEW orders, orders \subseteq DOMAIN pevc3107eParameters
    PROVE  AllAccepted(Defaults(orders)) /\ DOMAIN Defaults(orders) = orders
<1>1. \A parameter \in Kinds : Accepts(parameter, parameter.default)
  BY DEF Kinds, Text, Unset, Url, Count, Port, Number, Price, Switch, Choice, Parameter, Accepts, Cleared
<1>2. ASSUME NEW n \in orders PROVE Schema(n) \in Kinds
  <2>1. n \in UNION {DOMAIN page : page \in Pages}
    BY DEF pevc3107eParameters
  <2>2. PICK page \in Pages : n \in DOMAIN page
    BY <2>1
  <2>. DEFINE chosen == CHOOSE other \in Pages : n \in DOMAIN other
  <2>3. chosen \in Pages /\ n \in DOMAIN chosen
    BY <2>2
  <2>4. Schema(n) = chosen[n]
    BY <2>1 DEF Schema, pevc3107eParameters
  <2>. HIDE DEF chosen
  <2>. QED
    BY <2>3, <2>4, PageKinds
<1>. QED
  BY <1>1, <1>2 DEF AllAccepted, Defaults

\* What validation stores is valid.
LEMMA ValidatedAccepted ==
    ASSUME NEW raws, AllAccepted(raws)
    PROVE  AllAccepted(Validated(raws)) /\ DOMAIN Validated(raws) = DOMAIN raws
<1>1. ASSUME NEW parameter, NEW raw, Accepts(parameter, raw)
      PROVE  Accepts(parameter, validateParameterValue(parameter, raw))
  BY <1>1 DEF Accepts, validateParameterValue, Cleared
<1>. QED
  BY <1>1 DEF AllAccepted, Validated

\* What there is of a page once the seed has got to the last order.
Seen(a, b, last) == {n \in a..b : n <= last}
Gaps(first, end) ==
    /\ first \subseteq Nat /\ end \in [first -> Nat] /\ \A a \in first : a <= end[a]
    /\ \A a, b \in first : a < b => end[a] + PageGap < b
Parts(first, end, last) == {Seen(a, end[a], last) : a \in first}
Shown(tab, last) == {{n \in DOMAIN page : n <= last} : page \in tab}

\* Pages that a gap parts are found again, however far the seed got.
LEMMA GapsPart ==
    ASSUME NEW first, NEW end, Gaps(first, end), NEW last \in Nat
    PROVE  paginateBySortOrder(UNION Parts(first, end, last)) = Parts(first, end, last) \ {{}}
<1>. DEFINE upTo(a) == Seen(a, end[a], last)
            orders == UNION {upTo(a) : a \in first}
            begins == {n \in orders : \A m \in orders : m < n => n - m > PageGap}
            PageFrom(b) == {n \in orders : b <= n /\ \A other \in begins : b < other => n < other}
<1>. USE DEF Seen, Gaps
<1>1. \A n : n \in orders <=> \E a \in first : n \in a..end[a] /\ n <= last
  OBVIOUS
<1>2. orders \subseteq Nat
  BY <1>1
<1>3. begins = {a \in first : a <= last}
  <2>1. ASSUME NEW a \in first, a <= last PROVE a \in begins
    <3>1. a \in orders
      BY <1>1, <2>1
    <3>2. ASSUME NEW m \in orders, m < a PROVE a - m > PageGap
      <4>1. PICK b \in first : m \in b..end[b]
        BY <1>1
      <4>2. b < a /\ end[b] + PageGap < a
        BY <3>2, <4>1
      <4>. QED
        BY <4>1, <4>2 DEF PageGap
    <3>. QED
      BY <3>1, <3>2
  <2>2. ASSUME NEW n \in begins PROVE n \in first /\ n <= last
    <3>1. PICK a \in first : n \in a..end[a] /\ n <= last
      BY <1>1
    <3>2. a \in orders /\ a \in Nat
      BY <1>1, <3>1
    <3>3. CASE n = a
      BY <3>1, <3>3
    <3>4. CASE n # a
      <4>1. a < n /\ n - a > PageGap
        BY <3>1, <3>2, <3>4
      <4>2. n - 1 \in orders /\ n - 1 < n
        BY <1>1, <3>1, <3>2, <4>1
      <4>3. n - (n - 1) > PageGap
        BY <4>2
      <4>. QED
        BY <3>1, <4>3 DEF PageGap
    <3>. QED
      BY <3>3, <3>4
  <2>. QED
    BY <2>1, <2>2
<1>4. ASSUME NEW a \in first, a <= last PROVE PageFrom(a) = upTo(a)
  <2>1. ASSUME NEW n \in upTo(a) PROVE n \in PageFrom(a)
    <3>1. n \in a..end[a] /\ n \in orders
      OBVIOUS
    <3>2. \A other \in begins : a < other => n < other
      BY <1>3, <3>1 DEF PageGap
    <3>. QED
      BY <3>1, <3>2
  <2>2. ASSUME NEW n \in PageFrom(a) PROVE n \in upTo(a)
    <3>1. PICK b \in first : n \in b..end[b] /\ n <= last
      BY <1>1
    <3>2. b \in begins
      BY <1>3, <3>1
    <3>3. ~(a < b)
      BY <3>1, <3>2
    <3>4. ~(b < a)
      BY <3>1 DEF PageGap
    <3>. QED
      BY <3>1, <3>3, <3>4
  <2>. QED
    BY <2>1, <2>2
<1>5. \A a \in first : upTo(a) # {} <=> a <= last
  OBVIOUS
<1>6. paginateBySortOrder(orders) = {PageFrom(b) : b \in begins}
  BY DEF paginateBySortOrder
<1>. HIDE DEF orders, begins, PageFrom
<1>7. {PageFrom(b) : b \in begins} = {upTo(a) : a \in {b \in first : b <= last}}
  BY <1>3, <1>4
<1>. QED
  BY <1>5, <1>6, <1>7 DEF orders, Parts

\* The settings' pages are the seed's.
LEMMA PagesSeeded == PagesAreSeeded
<1>. SUFFICES ASSUME NEW tab \in Tabs, NEW last \in DOMAIN pevc3107eParameters
              PROVE  paginateBySortOrder(UNION Shown(tab, last)) = Shown(tab, last) \ {{}}
  BY DEF PagesAreSeeded, Shown
<1>1. last \in Nat
  <2>1. \A page \in Pages : DOMAIN page \subseteq Nat
    BY PageDomains DEF Pages, Tabs
  <2>. QED
    BY <2>1 DEF pevc3107eParameters
<1>2. ASSUME NEW first, NEW end, Gaps(first, end), Shown(tab, last) = Parts(first, end, last)
      PROVE  paginateBySortOrder(UNION Shown(tab, last)) = Shown(tab, last) \ {{}}
  BY <1>1, <1>2, GapsPart
<1>3. ASSUME NEW page, NEW a \in Nat, NEW b \in Nat, tab = {page}, DOMAIN page = a..b, a <= b
      PROVE  paginateBySortOrder(UNION Shown(tab, last)) = Shown(tab, last) \ {{}}
  <2>. DEFINE end == [n \in {a} |-> b]
  <2>1. Shown(tab, last) = Parts({a}, end, last)
    BY <1>3 DEF Seen, Shown, Parts
  <2>2. Gaps({a}, end)
    BY <1>3 DEF Gaps
  <2>. HIDE DEF end
  <2>. QED
    BY <1>2, <2>1, <2>2
<1>4. ASSUME NEW page, tab = {page}, page \in {DevicePage, NetworksPage, FeeRatePage}
      PROVE  paginateBySortOrder(UNION Shown(tab, last)) = Shown(tab, last) \ {{}}
  <2>1. PICK a \in Nat, b \in Nat : DOMAIN page = a..b /\ a <= b
    <3>1. DOMAIN page = 1..5 \/ DOMAIN page = 60..66 \/ DOMAIN page = 70..73
      BY <1>4, PageDomains
    <3>2. CASE DOMAIN page = 1..5
      <4>. WITNESS 1 \in Nat, 5 \in Nat
      <4>. QED
        BY <3>2
    <3>3. CASE DOMAIN page = 60..66
      <4>. WITNESS 60 \in Nat, 66 \in Nat
      <4>. QED
        BY <3>3
    <3>4. CASE DOMAIN page = 70..73
      <4>. WITNESS 70 \in Nat, 73 \in Nat
      <4>. QED
        BY <3>4
    <3>. QED
      BY <3>1, <3>2, <3>3, <3>4
  <2>. QED
    BY <1>3, <1>4, <2>1
<1>5. CASE tab = {SystemPage1, SystemPage2, SystemPage3}
  <2>. DEFINE first == {10, 30, 50}
              end == [n \in first |-> CASE n = 10 -> 21 [] n = 30 -> 43 [] OTHER -> 53]
  <2>1. end[10] = 21 /\ end[30] = 43 /\ end[50] = 53 /\ end \in [first -> Nat]
    OBVIOUS
  <2>2. /\ {n \in DOMAIN SystemPage1 : n <= last} = Seen(10, end[10], last)
        /\ {n \in DOMAIN SystemPage2 : n <= last} = Seen(30, end[30], last)
        /\ {n \in DOMAIN SystemPage3 : n <= last} = Seen(50, end[50], last)
    BY <2>1, PageDomains DEF Seen
  <2>3. Shown(tab, last) = Parts(first, end, last)
    BY <1>5, <2>2 DEF Shown, Parts
  <2>4. Gaps(first, end)
    BY <2>1 DEF PageGap, Gaps
  <2>. HIDE DEF first, end
  <2>. QED
    BY <1>2, <2>3, <2>4
<1>6. CASE tab = {OtherPage1, OtherPage2}
  <2>. DEFINE first == {80, 100}
              end == [n \in first |-> IF n = 80 THEN 91 ELSE 107]
  <2>1. end[80] = 91 /\ end[100] = 107 /\ end \in [first -> Nat]
    OBVIOUS
  <2>2. /\ {n \in DOMAIN OtherPage1 : n <= last} = Seen(80, end[80], last)
        /\ {n \in DOMAIN OtherPage2 : n <= last} = Seen(100, end[100], last)
    BY <2>1, PageDomains DEF Seen
  <2>3. Shown(tab, last) = Parts(first, end, last)
    BY <1>6, <2>2 DEF Shown, Parts
  <2>4. Gaps(first, end)
    BY <2>1 DEF PageGap, Gaps
  <2>. HIDE DEF first, end
  <2>. QED
    BY <1>2, <2>3, <2>4
<1>. QED
  BY <1>4, <1>5, <1>6 DEF Tabs

\* A seed that has been through the catalogue leaves nothing of it out, and neither does
\* what it or a form then creates; what is under way to be stored is valid.
SeederHolds(s) ==
    /\ SeederAt(s, "parameters") => seeder[s].rows \subseteq catalogue
    /\ seeder[s].at \in {"sample", "read", "create"} => seeded
    /\ SeederAt(s, "create") => seeder[s].rows = Sown
ParameterJobHolds(j) ==
    /\ parameterJob[j].at \in {"create", "update"} => AllAccepted(parameterJob[j].values)
    /\ parameterJob[j].at = "create" /\ parameterJob[j].late => DOMAIN parameterJob[j].values = Sown

WholeInv ==
    /\ DOMAIN seeder = Seeders /\ DOMAIN parameterJob = ParameterJobs
    /\ catalogue \subseteq Sown /\ (seeded => catalogue = Sown)
    /\ \A s \in Seeders : SeederHolds(s)
    /\ \A j \in ParameterJobs : ParameterJobHolds(j)
    /\ proper \subseteq Created /\ \A i \in proper : Sown \subseteq DOMAIN values[i]
    /\ ValuesAreValid

\* Before the first seed there is nothing to be whole.
LEMMA WholeStarts == ParametersInit => WholeInv
BY DEF ParametersInit, WholeInv, SeederHolds, SeederAt, ParameterJobHolds, NoSeeder, NoParameterJob,
       Created, ValuesAreValid

\* An instance comes with its rows.
LEMMA InstanceCreated ==
    ASSUME WholeInv, NEW i, i \notin Created, NEW rows, AllAccepted(rows), values' = WithInstance(i, rows),
           proper' \in {proper, proper \cup {i}}, i \in proper' => DOMAIN rows = Sown
    PROVE  proper' \subseteq Created' /\ (\A k \in proper' : Sown \subseteq DOMAIN values'[k]) /\ ValuesAreValid'
<1>1. Created' = Created \cup {i} /\ values'[i] = rows /\ \A k \in Created : values'[k] = values[k]
  BY DEF WithInstance, Created
<1>2. ValuesAreValid'
  BY <1>1 DEF WholeInv, ValuesAreValid
<1>. QED
  BY <1>1, <1>2 DEF WholeInv

\* A seed keeps what is whole: it leaves nothing out before it goes on to the sample.
LEMMA SeedKeepsWhole ==
    ASSUME WholeInv, NEW s \in Seeders, SeedStep(s)
    PROVE  WholeInv'
<1>. USE DEF WholeInv
<1>1. /\ UNCHANGED parameterJob /\ DOMAIN seeder' = Seeders
      /\ \A r \in Seeders : r # s => seeder'[r] = seeder[r]
  BY DEF SeedStep, SeedModel, SeedParameter, SeedLooks, SeedReads, SeedCreates, SeedDies, SeederGoes
<1>2. \A j \in ParameterJobs : ParameterJobHolds(j)'
  BY <1>1 DEF ParameterJobHolds
<1>3. ASSUME UNCHANGED <<catalogue, values, seeded, proper>>, SeederHolds(s)'
      PROVE  WholeInv'
  <2>1. \A r \in Seeders : SeederHolds(r)'
    BY <1>1, <1>3 DEF SeederHolds, SeederAt
  <2>2. ValuesAreValid' /\ Created' = Created
    BY <1>3 DEF ValuesAreValid, Created
  <2>. QED
    BY <1>1, <1>2, <1>3, <2>1, <2>2
<1>4. CASE SeedModel(s) \/ SeedLooks(s) \/ SeedReads(s) \/ SeedDies(s)
  BY <1>3, <1>4 DEF SeedModel, SeedLooks, SeedReads, SeedDies, SeederGoes, SeederHolds, SeederAt
<1>5. CASE SeedParameter(s)
  <2>1. catalogue \subseteq catalogue' /\ catalogue' \subseteq Sown /\ (seeded => seeded') /\ UNCHANGED <<values, proper>>
    BY <1>5 DEF SeedParameter
  <2>2. seeded' => catalogue' = Sown
    BY <1>5, <2>1 DEF SeedParameter, SeederHolds
  <2>3. SeederHolds(s)'
    BY <1>5, <2>1 DEF SeedParameter, SeederGoes, SeederHolds, SeederAt
  <2>4. \A r \in Seeders : SeederHolds(r)'
    BY <1>1, <2>1, <2>3 DEF SeederHolds, SeederAt
  <2>5. ValuesAreValid' /\ Created' = Created
    BY <2>1 DEF ValuesAreValid, Created
  <2>. QED
    BY <1>1, <1>2, <2>1, <2>2, <2>4, <2>5
<1>6. CASE SeedCreates(s)
  <2>1. SeederHolds(s)'
    BY <1>6 DEF SeedCreates, SeederGoes, SeederHolds, SeederAt
  <2>2. CASE Demo \in Created
    BY <1>3, <1>6, <2>1, <2>2 DEF SeedCreates
  <2>3. CASE Demo \notin Created
    <3>. DEFINE rows == Defaults(seeder[s].rows)
    <3>1. seeder[s].rows = Sown
      BY <1>6 DEF SeedCreates, SeederHolds
    <3>2. AllAccepted(rows) /\ DOMAIN rows = Sown
      BY <3>1, SownAssumption, DefaultsAccepted
    <3>3. /\ values' = WithInstance(Demo, rows) /\ proper' = proper \cup {Demo}
          /\ UNCHANGED <<catalogue, seeded>>
      BY <1>6, <2>3 DEF SeedCreates
    <3>. HIDE DEF rows
    <3>4. proper' \subseteq Created' /\ (\A k \in proper' : Sown \subseteq DOMAIN values'[k]) /\ ValuesAreValid'
      BY <2>3, <3>2, <3>3, InstanceCreated
    <3>5. \A r \in Seeders : SeederHolds(r)'
      BY <1>1, <2>1, <3>3 DEF SeederHolds, SeederAt
    <3>. QED
      BY <1>1, <1>2, <3>3, <3>4, <3>5
  <2>. QED
    BY <2>2, <2>3
<1>. QED
  BY <1>4, <1>5, <1>6 DEF SeedStep

\* A handler keeps what is whole.
LEMMA HandlerKeepsWhole ==
    ASSUME WholeInv, NEW j \in ParameterJobs,
           \/ NewReads(j) \/ NewCreates(j) \/ SettingsOpens(j) \/ SettingsSaves(j)
           \/ RestoreReads(j) \/ UpgradeReads(j) \/ UpdateStores(j)
    PROVE  WholeInv'
<1>. USE DEF WholeInv
<1>1. /\ UNCHANGED <<catalogue, seeder, seeded>> /\ DOMAIN parameterJob' = ParameterJobs
      /\ \A k \in ParameterJobs : k # j => parameterJob'[k] = parameterJob[k]
  BY DEF NewReads, NewCreates, SettingsOpens, SettingsSaves, RestoreReads, UpgradeReads, UpdateStores,
         JobGoes, JobEnds
<1>2. \A s \in Seeders : SeederHolds(s)'
  BY <1>1 DEF SeederHolds, SeederAt
<1>3. ParameterJobHolds(j)' => \A k \in ParameterJobs : ParameterJobHolds(k)'
  BY <1>1 DEF ParameterJobHolds
<1>4. JobEnds(j) => ParameterJobHolds(j)'
  BY DEF JobEnds, NoParameterJob, ParameterJobHolds
<1>5. ASSUME UNCHANGED <<values, proper>>, ParameterJobHolds(j)'
      PROVE  WholeInv'
  <2>1. ValuesAreValid' /\ Created' = Created
    BY <1>5 DEF ValuesAreValid, Created
  <2>. QED
    BY <1>1, <1>2, <1>3, <1>5, <2>1
<1>6. ASSUME NEW i, NEW rows, JobGoes(j, "update", i, rows), AllAccepted(rows)
      PROVE  ParameterJobHolds(j)'
  BY <1>6 DEF JobGoes, ParameterJobHolds
<1>7. CASE NewReads(j)
  <2>1. UNCHANGED <<values, proper>>
    BY <1>7 DEF NewReads
  <2>2. PICK i \in Instances, form \in Forms :
          IF AllAccepted(form) THEN JobGoes(j, "create", i, Validated(form)) ELSE UNCHANGED parameterJob
    BY <1>7 DEF NewReads
  <2>3. DOMAIN form = catalogue
    BY DEF Forms, Defaults
  <2>4. CASE AllAccepted(form)
    <3>1. AllAccepted(Validated(form)) /\ DOMAIN Validated(form) = catalogue
      BY <2>3, <2>4, ValidatedAccepted
    <3>2. parameterJob'[j] = [at |-> "create", instance |-> i, values |-> Validated(form), late |-> seeded]
      BY <2>2, <2>4 DEF JobGoes
    <3>3. ParameterJobHolds(j)'
      BY <3>1, <3>2 DEF ParameterJobHolds
    <3>. QED
      BY <1>5, <2>1, <3>3
  <2>5. CASE ~AllAccepted(form)
    <3>1. ParameterJobHolds(j)'
      BY <2>2, <2>5 DEF ParameterJobHolds
    <3>. QED
      BY <1>5, <2>1, <3>1
  <2>. QED
    BY <2>4, <2>5
<1>8. CASE NewCreates(j)
  <2>. DEFINE i == parameterJob[j].instance
              rows == parameterJob[j].values
  <2>1. parameterJob[j].at = "create" /\ JobEnds(j)
    BY <1>8 DEF NewCreates
  <2>2. CASE i \in Created
    BY <1>4, <1>5, <1>8, <2>1, <2>2 DEF NewCreates
  <2>3. CASE i \notin Created
    <3>1. /\ values' = WithInstance(i, rows)
          /\ proper' = IF parameterJob[j].late THEN proper \cup {i} ELSE proper
      BY <1>8, <2>3 DEF NewCreates
    <3>2. i \notin proper /\ AllAccepted(rows) /\ (parameterJob[j].late => DOMAIN rows = Sown)
      BY <2>1, <2>3 DEF ParameterJobHolds
    <3>3. proper' \in {proper, proper \cup {i}} /\ (i \in proper' => DOMAIN rows = Sown)
      BY <3>1, <3>2
    <3>. HIDE DEF i, rows
    <3>4. proper' \subseteq Created' /\ (\A k \in proper' : Sown \subseteq DOMAIN values'[k]) /\ ValuesAreValid'
      BY <2>3, <3>1, <3>2, <3>3, InstanceCreated
    <3>. QED
      BY <1>1, <1>2, <1>3, <1>4, <2>1, <3>4
  <2>. QED
    BY <2>2, <2>3
<1>9. CASE SettingsOpens(j)
  BY <1>5, <1>9 DEF SettingsOpens, JobGoes, ParameterJobHolds
<1>10. CASE SettingsSaves(j)
  <2>1. UNCHANGED <<values, proper>>
    BY <1>10 DEF SettingsSaves
  <2>2. PICK form : IF AllAccepted(form) THEN JobGoes(j, "update", parameterJob[j].instance, Validated(form))
                    ELSE JobEnds(j)
    BY <1>10 DEF SettingsSaves
  <2>3. ParameterJobHolds(j)'
    BY <1>4, <1>6, <2>2, ValidatedAccepted
  <2>. QED
    BY <1>5, <2>1, <2>3
<1>11. CASE RestoreReads(j)
  <2>1. AllAccepted(buildDefaultParameterValues(catalogue))
    BY <1>11, ValidatedAccepted DEF RestoreReads, buildDefaultParameterValues
  <2>. QED
    BY <1>5, <1>6, <1>11, <2>1 DEF RestoreReads
<1>12. CASE UpgradeReads(j)
  <2>1. AllAccepted([n \in {Firmware} |-> "text"])
    <3>1. Firmware \in DOMAIN DevicePage
      BY PageDomains DEF Firmware
    <3>2. Schema(Firmware) = Text
      <4>. DEFINE chosen == CHOOSE page \in Pages : Firmware \in DOMAIN page
      <4>1. DevicePage \in Pages
        BY DEF Pages, Tabs
      <4>2. chosen \in Pages /\ Firmware \in DOMAIN chosen
        BY <3>1, <4>1
      <4>3. chosen = DevicePage
        BY <4>2, PageDomains DEF Pages, Tabs, Firmware
      <4>4. Schema(Firmware) = chosen[Firmware]
        BY <3>1, <4>1 DEF Schema, pevc3107eParameters
      <4>. HIDE DEF chosen
      <4>. QED
        BY <3>1, <4>3, <4>4 DEF DevicePage, All
    <3>. QED
      BY <3>2 DEF AllAccepted, Accepts, Text, Parameter
  <2>. QED
    BY <1>5, <1>6, <1>12, <2>1 DEF UpgradeReads
<1>13. CASE UpdateStores(j)
  <2>. DEFINE i == parameterJob[j].instance
              rows == parameterJob[j].values
  <2>1. /\ parameterJob[j].at = "update" /\ JobEnds(j) /\ UNCHANGED proper
        /\ values' = IF CanUpdate(i, rows) THEN [values EXCEPT ![i] = Updated(@, rows)] ELSE values
    BY <1>13 DEF UpdateStores
  <2>2. AllAccepted(rows) /\ ParameterJobHolds(j)'
    BY <1>4, <2>1 DEF ParameterJobHolds
  <2>. HIDE DEF i, rows
  <2>3. Created' = Created
    BY <2>1 DEF Created
  <2>4. ASSUME NEW k \in Created PROVE DOMAIN values'[k] = DOMAIN values[k] /\ AllAccepted(values'[k])
    <3>1. AllAccepted(values[k])
      BY <2>4 DEF ValuesAreValid
    <3>2. AllAccepted(Updated(values[k], rows))
      BY <2>2, <3>1 DEF AllAccepted, Updated
    <3>3. values'[k] \in {values[k], Updated(values[k], rows)}
      BY <2>1, <2>4 DEF Created
    <3>. QED
      BY <3>1, <3>2, <3>3 DEF Updated
  <2>5. ValuesAreValid' /\ \A k \in proper' : Sown \subseteq DOMAIN values'[k]
    BY <2>1, <2>3, <2>4 DEF ValuesAreValid
  <2>. QED
    BY <1>1, <1>2, <1>3, <2>1, <2>2, <2>3, <2>5
<1>. QED
  BY <1>7, <1>8, <1>9, <1>10, <1>11, <1>12, <1>13

\* The sample of any seed, and an instance begun after one, can be saved and restored, whatever
\* seeds, forms, restorings and upgrades there are and however they cross; and of every catalogue
\* a seed leaves, the settings have the seed's pages.
THEOREM InstancesWhole == ParametersSpec => []InstancesAreWhole
<1>1. WholeInv /\ [ParametersNext]_parameterVars => WholeInv'
  <2>1. ASSUME WholeInv, UNCHANGED parameterVars PROVE WholeInv'
    BY <2>1 DEF parameterVars, WholeInv, SeederHolds, SeederAt, ParameterJobHolds, Created, ValuesAreValid
  <2>. QED
    BY <2>1, SeedKeepsWhole, HandlerKeepsWhole DEF ParametersNext
<1>2. WholeInv => InstancesAreWhole
  <2>1. DefaultsAreValid
    BY DefaultsAccepted DEF DefaultsAreValid
  <2>. QED
    BY <2>1, PagesSeeded DEF WholeInv, InstancesAreWhole
<1>. QED
  BY <1>1, <1>2, WholeStarts, PTL DEF ParametersSpec
=============================================================================

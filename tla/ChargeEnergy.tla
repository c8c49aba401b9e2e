---------------------------- MODULE ChargeEnergy ----------------------------
(***************************************************************************)
(* The charging profiles (ocpp/charging-profile.ts) and what they do to    *)
(* the simulated meter of a transaction (ocpp/remote-commands.ts).         *)
(*                                                                         *)
(* One connector with one transaction.  Time is in seconds, a rate in kW,  *)
(* energy in kW seconds; units, jitter and rounding are left out.          *)
(***************************************************************************)
EXTENDS Integers, Sequences, FiniteSets

CONSTANTS
    ProfileIds, StackLevels, Starts, Limits,   \* what a profile may say
    NoLimit,                                   \* of a period without a limit
    Rate,                                      \* chargeRateKw of the transaction
    MaxPeriods,                                \* bound on the periods of a profile
    MaxSeconds, MaxProfileCommands

\* isValidChargingProfile takes any number, of either sign.
ASSUME ProfileAssumption ==
    /\ IsFiniteSet(ProfileIds) /\ StackLevels \subseteq Int
    /\ Starts \subseteq Int /\ Limits \subseteq Int /\ NoLimit \notin Limits /\ Rate \in Nat
    /\ MaxPeriods \in Nat /\ MaxSeconds \in Nat /\ MaxProfileCommands \in Nat

VARIABLES
    profiles,       \* the store: TxProfiles of the connector by id, or NoProfile
    elapsedSec,     \* since the transaction started
    profileCommands

meterVars == <<profiles, elapsedSec, profileCommands>>

\* isValidChargingProfile asks for the periods and their starts, not for their limits.
Periods == [startPeriod : Starts, limit : Limits \cup {NoLimit}]
PeriodLists == UNION {[1..n -> Periods] : n \in 1..MaxPeriods}

NoProfile == [stackLevel |-> 0, periods |-> <<>>]
Profiles == [stackLevel : StackLevels, periods : PeriodLists]

-----------------------------------------------------------------------------
(* The algorithms *)

Limited(periods) == {i \in DOMAIN periods : periods[i].limit # NoLimit}

\* Those that begin before period i; periods that begin together stay in their order.
Earlier(periods, i) ==
    {j \in Limited(periods) :
        \/ periods[j].startPeriod < periods[i].startPeriod
        \/ periods[j].startPeriod = periods[i].startPeriod /\ j < i}

\* The periods with a limit, sorted by their starts.
SortedPeriods(periods) ==
    [k \in 1..Cardinality(Limited(periods)) |->
        periods[CHOOSE i \in Limited(periods) : Cardinality(Earlier(periods, i)) = k - 1]]

\* getActiveTxProfileSchedule: the periods of the highest stack level, sorted, the first one
\* moved to the start; <<>> if there is none.
ActiveTxProfileSchedule ==
    LET stored == {id \in ProfileIds : profiles[id] # NoProfile}
        best == CHOOSE id \in stored :
                    \A other \in stored : profiles[other].stackLevel <= profiles[id].stackLevel
        sorted == SortedPeriods(profiles[best].periods)
    IN IF stored = {} \/ sorted = <<>> THEN <<>> ELSE [sorted EXCEPT ![1].startPeriod = 0]

\* activePeriodLimitKw: the last period that has begun.
ActivePeriodLimit(schedule, sec) ==
    LET begun == {i \in DOMAIN schedule : \A k \in 1..i : schedule[k].startPeriod <= sec}
    IN schedule[CHOOSE i \in begun : \A k \in begun : k <= i].limit

\* effectiveChargeRateKwAt
EffectiveRateAt(schedule, sec) ==
    IF schedule = <<>> \/ Rate <= ActivePeriodLimit(schedule, sec)
    THEN Rate ELSE ActivePeriodLimit(schedule, sec)

\* A mutant of EnergySinceStart: the rate of now, for all of the time.
EnergyAtRateOfNow(schedule, sec) == EffectiveRateAt(schedule, sec) * sec

\* One turn of the loop of energyWhSinceStart: what is covered and summed up after period i.
AddPeriod(schedule, sec, i, before) ==
    LET periodEnd == IF i < Len(schedule) /\ schedule[i + 1].startPeriod < sec
                     THEN schedule[i + 1].startPeriod ELSE sec
        rate == IF Rate <= schedule[i].limit THEN Rate ELSE schedule[i].limit
    IN IF before.covered >= sec THEN before
       ELSE [covered |-> periodEnd,
             energy |-> before.energy
                 + rate * (IF periodEnd > before.covered THEN periodEnd - before.covered ELSE 0)]

\* The turns before each period, and all of them.
EnergyLoop(schedule, sec) ==
    LET loop[i \in 1..Len(schedule) + 1] ==
            IF i = 1 THEN [covered |-> 0, energy |-> 0]
            ELSE AddPeriod(schedule, sec, i - 1, loop[i - 1])
    IN loop

\* energyWhSinceStart: piecewise over the periods.
EnergySinceStart(schedule, sec) ==
    IF schedule = <<>> THEN Rate * sec
    ELSE EnergyLoop(schedule, sec)[Len(schedule) + 1].energy

\* buildSampledValues: what MeterValues and StopTransaction report, at any time.
SampledEnergy == EnergySinceStart(ActiveTxProfileSchedule, elapsedSec)

-----------------------------------------------------------------------------
(* The operations *)

MeterInit ==
    /\ profiles = [id \in ProfileIds |-> NoProfile]
    /\ elapsedSec = 0 /\ profileCommands = 0

\* storeProfile, for SetChargingProfile and RemoteStartTransaction.
SetChargingProfile(id, stackLevel, periods) ==
    /\ profileCommands < MaxProfileCommands /\ profileCommands' = profileCommands + 1
    /\ profiles' = [profiles EXCEPT ![id] = [stackLevel |-> stackLevel, periods |-> periods]]
    /\ UNCHANGED elapsedSec

\* handleClearChargingProfile, by id or by stack level.
ClearChargingProfile(matching) ==
    /\ profileCommands < MaxProfileCommands /\ profileCommands' = profileCommands + 1
    /\ profiles' = [id \in ProfileIds |-> IF id \in matching THEN NoProfile ELSE profiles[id]]
    /\ UNCHANGED elapsedSec

MeterSecond ==
    /\ elapsedSec < MaxSeconds /\ elapsedSec' = elapsedSec + 1
    /\ UNCHANGED <<profiles, profileCommands>>

MeterNext ==
    \/ \E id \in ProfileIds, level \in StackLevels, periods \in PeriodLists :
         SetChargingProfile(id, level, periods)
    \/ \E id \in ProfileIds : ClearChargingProfile({id})
    \/ \E level \in StackLevels :
         ClearChargingProfile({id \in ProfileIds : profiles[id].stackLevel = level})
    \/ MeterSecond

MeterSpec == MeterInit /\ [][MeterNext]_meterVars

-----------------------------------------------------------------------------
\* The second-by-second sum of the rates offered.
EnergyOffered(schedule, sec) ==
    LET offered[t \in 0..sec] ==
            IF t = 0 THEN 0 ELSE offered[t - 1] + EffectiveRateAt(schedule, t - 1)
    IN offered[sec]

\* No period but the first, which is moved to the start, begins before the transaction.
NoneBeforeStart(schedule) == \A i \in 2..Len(schedule) : schedule[i].startPeriod >= 0

\* The energy sampled is what the rates offered, second by second, add up to, for
\* unsorted and coinciding periods too (energyWhSinceStart, remote-commands.ts:182, against
\* effectiveChargeRateKwAt, 172); unless two of its periods begin before the transaction: the
\* later one then adds energy for the time before it, too (190-195).
EnergyAddsUp ==
    LET schedule == ActiveTxProfileSchedule
    IN NoneBeforeStart(schedule) => SampledEnergy = EnergyOffered(schedule, elapsedSec)
=============================================================================

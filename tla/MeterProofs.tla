---------------------------- MODULE MeterProofs ----------------------------
(***************************************************************************)
(* The accounts of a connector's two sides, for any number of handlers,    *)
(* transactions, commands and restarts: what a transaction was told to     *)
(* have used is what it was told to have begun and stopped with, its       *)
(* readings never fall, and the next one of its side goes on from where it *)
(* stopped; as long as no stop met another handler of the connector.       *)
(*                                                                         *)
(* The readings are in the CSMS's hands, and what they are continued from  *)
(* is the row's records (the station's side) or the simulation's memory    *)
(* (the CSMS's).  The invariant ties the two together: every account that  *)
(* its register has not been cleared under is covered, that is, it was     *)
(* last told no more than the register would begin the next one with.      *)
(* Between the handler's read and its write the amount it carries covers   *)
(* the account, so the invariant also says what each handler holds.        *)
(*                                                                         *)
(* The energy of a transaction, at the end, is proved by induction on the  *)
(* periods of its schedule and on the seconds.                             *)
(***************************************************************************)
EXTENDS MeterRegister, ChargeEnergy, FiniteSetTheorems, SequenceTheorems,
        WellFoundedInduction, TLAPS

\* The handlers that are about to have a transaction charging.

Begins == {"report", "charge", "answer", "adopt"}
Handlers ==
    [at : {"idle", "tick", "tell", "record", "clear", "end", "mirror"} \cup Begins, id : Nat, amount : Nat]
Rows == [status : {"Available", "Preparing", "Charging"}, remote : BOOLEAN, id : Nat, since : Nat]
Accounts ==
    [by : {"station", "csms"}, era : Nat, meterStart : Nat, last : Nat, fell : BOOLEAN,
     meterStop : Nat, used : Nat, stoppedBy : SUBSET {"station", "csms"}, ended : Nat]

MeterTypes ==
    /\ meterClock \in Nat /\ records \in Nat /\ memory \in Nat /\ localLoop \in BOOLEAN
    /\ registerCommands \in Nat /\ clearings \in Nat /\ registerRestarts \in Nat
    /\ meterRow \in Rows /\ remoteSim \in [id : Nat, meterStart : Nat, since : Nat]
    /\ told \in Seq(Accounts) /\ registerJob \in [RegisterJobs -> Handlers]

\* A stop is alone, and so is a start until the row charges.
HandlersApart ==
    \A i, j \in RegisterJobs :
        i # j => /\ registerJob[i].at \in StopStages => registerJob[j].at = "idle"
                 /\ ~(registerJob[i].at \in Begins /\ registerJob[j].at \in Begins)

\* No transaction of its side comes after it.
Newest(id) == \A later \in Told : id < later => told[later].by # told[id].by
Of(id, side) == id \in Told /\ told[id].by = side

Stage(j, stages) == registerJob[j].at \in stages

RowHeld ==
    /\ meterRow.id # NoId =>
         /\ meterRow.id \in Told /\ meterRow.status = "Charging" /\ meterRow.remote
         /\ told[meterRow.id].by = "station" =>
              /\ Newest(meterRow.id)
              /\ \/ told[meterRow.id].stoppedBy = {}
                 \/ \E j \in RegisterJobs : Stage(j, {"record", "clear"})
    /\ meterRow.status = "Charging" => meterRow.since <= meterClock
    /\ localLoop => Of(meterRow.id, "station")

SimHeld ==
    /\ memory = Rounded(memory)
    /\ remoteSim # NoSim =>
         /\ Of(remoteSim.id, "csms") /\ Newest(remoteSim.id) /\ "csms" \notin told[remoteSim.id].stoppedBy
         /\ remoteSim.meterStart = memory /\ told[remoteSim.id].meterStart = memory
         /\ remoteSim.since <= meterClock
         /\ meterRow.status = "Charging" => remoteSim.since <= meterRow.since

\* What a handler has at its place.
HandlerHeld(j) ==
    LET id == registerJob[j].id
        amount == registerJob[j].amount
    IN  /\ registerJob[j].at \in {"report", "charge"} =>
             meterRow = [IdleRow EXCEPT !.status = "Preparing", !.since = amount]
        /\ RegisterAt(j, "charge") /\ id # NoId =>
             Of(id, "station") /\ Newest(id) /\ told[id].stoppedBy = {}
        /\ registerJob[j].at \in {"answer", "adopt"} =>
             Of(id, "csms") /\ meterRow = [IdleRow EXCEPT !.status = "Preparing", !.remote = TRUE]
        /\ RegisterAt(j, "answer") =>
             /\ Newest(id) /\ told[id].stoppedBy = {} /\ told[id].meterStart = memory
             /\ remoteSim = NoSim /\ amount = memory
        /\ RegisterAt(j, "tick") => Of(id, "station") /\ meterRow.id = id /\ meterRow.since = amount
        /\ RegisterAt(j, "tell") => id # NoId /\ meterRow.id = id
        /\ Stage(j, {"tell", "record", "clear"}) => ~localLoop
        /\ RegisterAt(j, "end") => remoteSim # NoSim /\ remoteSim.id = id

\* What the next transaction of its side begins with is no less than its last reading.
Counted(id) == told[id].era = Era(told[id].by) /\ told[id].stoppedBy \subseteq {told[id].by}
CoveredBySim(id) == told[id].last <= IF remoteSim.id = id THEN SimReading ELSE memory
CoveredByRow(id) ==
    /\ meterRow.id # id => told[id].last <= Rounded(records)
    /\ meterRow.id = id =>
         /\ \A j \in RegisterJobs :
              /\ RegisterAt(j, "clear") => told[id].last <= Rounded(records)
              /\ Stage(j, {"mirror", "tell", "record"}) =>
                   told[id].last <= Rounded(records + registerJob[j].amount)
         /\ (\A j \in RegisterJobs : ~Stage(j, {"mirror", "tell", "record", "clear"})) =>
              told[id].last <= Rounded(records + (meterClock - meterRow.since))
         /\ (\A j \in RegisterJobs : ~Stage(j, {"record", "clear"})) =>
              told[id].meterStart = Rounded(records)
    /\ \A j \in RegisterJobs :
         RegisterAt(j, "charge") /\ registerJob[j].id = id => told[id].meterStart = Rounded(records)
Covered(id) ==
    /\ told[id].by = "csms" => CoveredBySim(id)
    /\ told[id].by = "station" => CoveredByRow(id)

EraHeld(id) == told[id].era <= told[id].ended /\ told[id].ended <= Era(told[id].by)
Eras == \A id \in Told : EraHeld(id)
AllCovered == \A id \in Told : Counted(id) => Covered(id)

Truth == Eras /\ BillsTheSession /\ ReadingsRise /\ RegisterContinues

MeterHolds ==
    /\ MeterTypes /\ HandlersApart /\ RowHeld /\ SimHeld /\ (\A j \in RegisterJobs : HandlerHeld(j))
    /\ AllCovered /\ Truth
MeterInv == ~stopsCrossed => MeterHolds

\* Readings are rounded up, by less than their unit.
LEMMA RoundedUp ==
    ASSUME NEW a \in Nat
    PROVE  /\ Rounded(a) \in Nat /\ a <= Rounded(a) /\ Rounded(a) <= a + 1 /\ Rounded(Rounded(a)) = Rounded(a)
  BY DEF Rounded

\* Rounding keeps the order of the readings.
LEMMA RoundedRises ==
    ASSUME NEW a \in Nat, NEW b \in Nat, a <= b
    PROVE  Rounded(a) <= Rounded(b)
  BY DEF Rounded

\* An amount added is in the reading, to within its unit.
LEMMA RoundedAdds ==
    ASSUME NEW a \in Nat, NEW b \in Nat
    PROVE  /\ Rounded(a + b) - Rounded(a) <= b + 1 /\ b <= (Rounded(a + b) - Rounded(a)) + 1
  BY DEF Rounded

\* A handler moves, and no other.
OneGoes(j) ==
    /\ registerJob' \in [RegisterJobs -> Handlers]
    /\ \A k \in RegisterJobs \ {j} : registerJob'[k] = registerJob[k]

\* What a handler's place becomes is all that becomes of it.
LEMMA HandlerGoes ==
    ASSUME MeterTypes, NEW j \in RegisterJobs, NEW s \in Handlers, registerJob' = [registerJob EXCEPT ![j] = s]
    PROVE  OneGoes(j) /\ registerJob'[j] = s
  BY DEF MeterTypes, OneGoes

\* A handler that moves on stays apart if it was, or met nobody.
LEMMA HandlersStayApart ==
    ASSUME HandlersApart, NEW j \in RegisterJobs, OneGoes(j),
           registerJob'[j].at \in StopStages =>
             \/ registerJob[j].at \in StopStages
             \/ \A k \in RegisterJobs : registerJob[k].at = "idle",
           \/ registerJob'[j].at = "idle" \/ registerJob[j].at # "idle"
           \/ \A k \in RegisterJobs : registerJob[k].at \notin StopStages,
           registerJob'[j].at \in Begins =>
             \/ registerJob[j].at \in Begins
             \/ \A k \in RegisterJobs : registerJob[k].at \notin Begins
    PROVE  HandlersApart'
<1>. SUFFICES ASSUME NEW i \in RegisterJobs, NEW k \in RegisterJobs, i # k
              PROVE  /\ registerJob'[i].at \in StopStages => registerJob'[k].at = "idle"
                     /\ ~(registerJob'[i].at \in Begins /\ registerJob'[k].at \in Begins)
  BY DEF HandlersApart
<1>1. "idle" \notin Begins /\ "idle" \notin StopStages
  BY DEF Begins, StopStages
<1>2. CASE i = j
  BY <1>1, <1>2 DEF HandlersApart, OneGoes
<1>3. CASE k = j
  BY <1>1, <1>3 DEF HandlersApart, OneGoes
<1>4. CASE i # j /\ k # j
  BY <1>4 DEF HandlersApart, OneGoes
<1>. QED
  BY <1>2, <1>3, <1>4

-----------------------------------------------------------------------------
(* What the CSMS was told *)
ErasGrow ==
    /\ clearings' \in Nat /\ clearings <= clearings'
    /\ registerRestarts' \in Nat /\ registerRestarts <= registerRestarts'
ErasRest == UNCHANGED <<clearings, registerRestarts>>

\* An account's register is one of the two, and has been cleared some number of times.
LEMMA ErasTyped ==
    ASSUME MeterTypes, NEW id \in Told
    PROVE  /\ told[id] \in Accounts /\ told[id].by \in {"station", "csms"}
           /\ Era(told[id].by) \in Nat /\ id \in Nat \ {0}
<1>1. told[id] \in Accounts /\ id \in Nat \ {0}
  BY DEF MeterTypes, Told
<1>2. told[id].by \in {"station", "csms"}
  BY <1>1 DEF Accounts
<1>. QED
  BY <1>1, <1>2 DEF Era, MeterTypes

\* A register is cleared, never restored.
LEMMA GrownEras ==
    ASSUME MeterTypes, ErasGrow
    PROVE  \A side \in {"station", "csms"} : Era(side) \in Nat /\ Era(side)' \in Nat /\ Era(side) <= Era(side)'
  BY DEF MeterTypes, ErasGrow, Era

\* An account that stays counts under its register only if it did.
LEMMA RegisterStays ==
    ASSUME MeterTypes, Eras, ErasGrow, NEW id \in Told, id \in Told', told'[id] = told[id]
    PROVE  /\ OneRegister(id)' => OneRegister(id)
           /\ Counted(id)' => Counted(id)
           /\ EraHeld(id)'
<1>1. told[id] \in Accounts /\ Era(told[id].by) \in Nat
  BY ErasTyped
<1>2. told[id].by \in {"station", "csms"} /\ told[id].era \in Nat /\ told[id].ended \in Nat
  BY <1>1 DEF Accounts
<1>3. Era(told[id].by)' \in Nat /\ Era(told[id].by) <= Era(told[id].by)'
  <2>1. CASE told[id].by = "station"
    BY <2>1 DEF ErasGrow, Era
  <2>2. CASE told[id].by = "csms"
    BY <2>2 DEF ErasGrow, Era
  <2>. QED
    BY <1>2, <2>1, <2>2
<1>4. told[id].era <= told[id].ended /\ told[id].ended <= Era(told[id].by)
  BY DEF Eras, EraHeld
<1>6. EraHeld(id)'
  BY <1>1, <1>2, <1>3, <1>4 DEF EraHeld
<1>7. OneRegister(id)' => OneRegister(id)
  BY <1>1, <1>2, <1>3, <1>4 DEF OneRegister
<1>8. Counted(id)' => Counted(id)
  BY <1>1, <1>2, <1>3, <1>4 DEF Counted
<1>. QED
  BY <1>6, <1>7, <1>8

\* Clearing a register takes accounts out of what is claimed and adds none.
LEMMA TruthRests ==
    ASSUME MeterTypes, Truth, ErasGrow, told' = told
    PROVE  Truth'
<1>. USE DEF Truth
<1>1. Told' = Told
  BY DEF Told
<1>2. \A id \in Told : (OneRegister(id)' => OneRegister(id)) /\ EraHeld(id)'
  BY <1>1, RegisterStays
<1>3. Eras'
  BY <1>1, <1>2 DEF Eras
<1>4. BillsTheSession'
  BY <1>1, <1>2 DEF BillsTheSession, BilledFor, Billed
<1>5. ReadingsRise'
  BY <1>1, <1>2 DEF ReadingsRise
<1>6. RegisterContinues'
  BY <1>1, <1>2 DEF RegisterContinues
<1>. QED
  BY <1>3, <1>4, <1>5, <1>6

\* One account is written.
Written(id) == Told' = Told /\ \A k \in Told \ {id} : told'[k] = told[k]

\* An account is written in its place.
LEMMA AccountWritten ==
    ASSUME MeterTypes, NEW id \in Told, NEW a \in Accounts, told' = [told EXCEPT ![id] = a]
    PROVE  told' \in Seq(Accounts) /\ Written(id) /\ told'[id] = a
  BY DEF MeterTypes, Told, Written

\* A reading changes what an account was last told, and whether it ever fell.
LEMMA HeardAccount ==
    ASSUME MeterTypes, NEW id \in Told, NEW value \in Nat
    PROVE  /\ Heard(id, value) \in Accounts
           /\ Heard(id, value).last = value /\ Heard(id, value).meterStart = told[id].meterStart
           /\ Heard(id, value).fell = (told[id].fell \/ value < told[id].last)
           /\ Heard(id, value).by = told[id].by /\ Heard(id, value).era = told[id].era
           /\ Heard(id, value).stoppedBy = told[id].stoppedBy /\ Heard(id, value).ended = told[id].ended
           /\ Heard(id, value).used = told[id].used /\ Heard(id, value).meterStop = told[id].meterStop
<1>1. told[id] \in Accounts
  BY ErasTyped
<1>. QED
  BY <1>1 DEF Heard, Accounts

\* A reading of a transaction that its side has not stopped, the last one of its side.
LEMMA TruthHeard ==
    ASSUME MeterTypes, Truth, ErasRest, NEW id \in Told, NEW value \in Nat, Tell(id, value), Newest(id),
           OneRegister(id) => told[id].last <= value
    PROVE  Truth' /\ told' \in Seq(Accounts) /\ Written(id) /\ told'[id] = Heard(id, value)
<1>. USE DEF Truth
<1>0. told[id] \in Accounts /\ id \in Nat
  BY ErasTyped
<1>1. told' \in Seq(Accounts) /\ Written(id) /\ told'[id] = Heard(id, value)
  BY HeardAccount, AccountWritten DEF Tell
<1>2. ErasGrow
  BY DEF ErasRest, ErasGrow, MeterTypes
<1>3. \A k \in Told \ {id} : (OneRegister(k)' => OneRegister(k)) /\ EraHeld(k)'
  BY <1>1, <1>2, RegisterStays DEF Written
<1>4. OneRegister(id)' => OneRegister(id)
  BY <1>1, HeardAccount DEF OneRegister, Era, ErasRest
<1>5. Eras'
  <2>1. EraHeld(id)'
    BY <1>1, HeardAccount DEF Eras, EraHeld, Era, ErasRest
  <2>. QED
    BY <1>1, <1>3, <2>1 DEF Eras, Written
<1>6. BillsTheSession'
  <2>1. told'[id].stoppedBy = told[id].stoppedBy /\ Billed(id)' = Billed(id) /\ told'[id].used = told[id].used
    BY <1>1, HeardAccount DEF Billed
  <2>2. told'[id].stoppedBy # {} /\ OneRegister(id)' => BilledFor(id, told[id].used)'
    BY <1>4, <2>1 DEF BillsTheSession, BilledFor
  <2>. QED
    BY <1>1, <1>3, <2>1, <2>2 DEF BillsTheSession, BilledFor, Billed, Written
<1>7. ReadingsRise'
  <2>1. OneRegister(id)' => ~told[id].fell /\ told[id].last <= value
    BY <1>4 DEF ReadingsRise
  <2>2. told[id].last \in Nat
    BY <1>0 DEF Accounts
  <2>3. OneRegister(id)' => ~(told[id].fell \/ value < told[id].last)
    BY <2>1, <2>2
  <2>4. told'[id].fell = (told[id].fell \/ value < told[id].last)
    BY <1>1, HeardAccount
  <2>5. OneRegister(id)' => ~told'[id].fell
    BY <2>3, <2>4
  <2>. QED
    BY <1>1, <1>3, <2>5 DEF ReadingsRise, Written
<1>8. RegisterContinues'
  <2>1. \A k \in Told : told'[k].by = told[k].by /\ told'[k].era = told[k].era /\ told'[k].meterStart = told[k].meterStart
    BY <1>1, HeardAccount DEF Written
  <2>. QED
    BY <1>1, <1>3, <2>1 DEF RegisterContinues, Written, Newest
<1>. QED
  BY <1>1, <1>5, <1>6, <1>7, <1>8

StoppedAccount(id, value, side, amount) ==
    [Heard(id, value) EXCEPT !.meterStop = value, !.used = amount, !.stoppedBy = @ \cup {side},
                             !.ended = Era(told[id].by)]

\* A stop tells a last reading and an amount, and adds its side to who stopped it.
LEMMA AccountStopped ==
    ASSUME MeterTypes, NEW id \in Told, NEW value \in Nat, NEW amount \in Nat, NEW side \in {"station", "csms"},
           NEW a, a = StoppedAccount(id, value, side, amount)
    PROVE  /\ a \in Accounts /\ a.last = value /\ a.meterStop = value /\ a.used = amount
           /\ a.stoppedBy = told[id].stoppedBy \cup {side} /\ a.ended = Era(told[id].by)
           /\ a.by = told[id].by /\ a.era = told[id].era /\ a.meterStart = told[id].meterStart
           /\ a.fell = (told[id].fell \/ value < told[id].last)
<1>. DEFINE h == Heard(id, value)
<1>1. /\ h \in Accounts /\ h.last = value /\ h.meterStart = told[id].meterStart
      /\ h.by = told[id].by /\ h.era = told[id].era /\ h.stoppedBy = told[id].stoppedBy
  BY HeardAccount
<1>2. h.fell = (told[id].fell \/ value < told[id].last)
  BY HeardAccount
<1>3. Era(told[id].by) \in Nat
  BY ErasTyped
<1>4. a = [h EXCEPT !.meterStop = value, !.used = amount, !.stoppedBy = @ \cup {side}, !.ended = Era(told[id].by)]
  BY DEF StoppedAccount
<1>. HIDE DEF h
<1>5. a.fell = h.fell
  BY <1>1, <1>4 DEF Accounts
<1>6. a.fell = (told[id].fell \/ value < told[id].last)
  BY <1>2, <1>5
<1>7. /\ a.last = h.last /\ a.meterStop = value /\ a.used = amount /\ a.ended = Era(told[id].by)
      /\ a.by = h.by /\ a.era = h.era /\ a.meterStart = h.meterStart
  BY <1>1, <1>4 DEF Accounts
<1>8. a.stoppedBy = h.stoppedBy \cup {side}
  BY <1>1, <1>4 DEF Accounts
<1>9. h.stoppedBy \cup {side} \in SUBSET {"station", "csms"}
  BY <1>1 DEF Accounts
<1>10. a \in Accounts
  BY <1>1, <1>3, <1>4, <1>9 DEF Accounts
<1>. QED
  BY <1>1, <1>6, <1>7, <1>8, <1>10

\* A side stops a transaction.  If it is its own, and the last one, it is billed its energy.
LEMMA TruthStopped ==
    ASSUME MeterTypes, Truth, ErasRest, NEW id \in Told, NEW value \in Nat, NEW amount \in Nat,
           NEW side \in {"station", "csms"}, TellStop(id, value, side, amount),
           told[id].by = side =>
             /\ Newest(id)
             /\ Counted(id) =>
                  /\ told[id].last <= value
                  /\ value - told[id].meterStart <= amount + 1 /\ amount <= (value - told[id].meterStart) + 1
    PROVE  /\ Truth' /\ told' \in Seq(Accounts) /\ Written(id)
           /\ told'[id].by = told[id].by /\ told'[id].stoppedBy = told[id].stoppedBy \cup {side}
           /\ told'[id].last = value /\ told'[id].meterStart = told[id].meterStart /\ told'[id].era = told[id].era
<1>. USE DEF Truth
<1>0. told[id] \in Accounts /\ id \in Nat /\ Era(told[id].by) \in Nat
  BY ErasTyped
<1>1. told' = [told EXCEPT ![id] = StoppedAccount(id, value, side, amount)]
  BY DEF TellStop, StoppedAccount
<1>2. /\ told' \in Seq(Accounts) /\ Written(id) /\ told'[id] = StoppedAccount(id, value, side, amount)
  BY <1>1, AccountStopped, AccountWritten
<1>3. /\ told'[id].last = value /\ told'[id].meterStop = value /\ told'[id].used = amount
      /\ told'[id].stoppedBy = told[id].stoppedBy \cup {side} /\ told'[id].ended = Era(told[id].by)
      /\ told'[id].by = told[id].by /\ told'[id].era = told[id].era /\ told'[id].meterStart = told[id].meterStart
      /\ told'[id].fell = (told[id].fell \/ value < told[id].last)
  BY <1>2, AccountStopped
<1>4. ErasGrow
  BY DEF ErasRest, ErasGrow, MeterTypes
<1>5. \A k \in Told \ {id} : (OneRegister(k)' => OneRegister(k)) /\ EraHeld(k)'
  BY <1>2, <1>4, RegisterStays DEF Written
<1>7. EraHeld(id) /\ told[id].era \in Nat /\ told[id].ended \in Nat /\ told[id].last \in Nat
  BY <1>0 DEF Eras, Accounts
<1>8. OneRegister(id)' => told[id].by = side /\ Counted(id) /\ OneRegister(id)
  <2>1. OneRegister(id)' => told[id].by = side /\ told[id].stoppedBy \subseteq {side} /\ told[id].era = Era(told[id].by)
    BY <1>3 DEF OneRegister
  <2>. QED
    BY <1>0, <1>7, <2>1 DEF OneRegister, Counted, EraHeld
<1>9. Eras'
  <2>1. EraHeld(id)'
    BY <1>0, <1>3, <1>7 DEF EraHeld, Era, ErasRest
  <2>. QED
    BY <1>2, <1>5, <2>1 DEF Eras, Written
<1>10. BillsTheSession'
  <2>1. OneRegister(id)' => BilledFor(id, told[id].used)'
    BY <1>3, <1>8 DEF BilledFor, Billed
  <2>. QED
    BY <1>2, <1>5, <2>1 DEF BillsTheSession, BilledFor, Billed, Written
<1>11. ReadingsRise'
  <2>1. OneRegister(id)' => ~told[id].fell /\ told[id].last <= value
    BY <1>8 DEF ReadingsRise
  <2>2. OneRegister(id)' => ~(told[id].fell \/ value < told[id].last)
    BY <1>7, <2>1
  <2>3. OneRegister(id)' => ~told'[id].fell
    BY <1>3, <2>2
  <2>. QED
    BY <1>2, <1>5, <2>3 DEF ReadingsRise, Written
<1>12. RegisterContinues'
  <2>1. \A k \in Told : told'[k].by = told[k].by /\ told'[k].era = told[k].era /\ told'[k].meterStart = told[k].meterStart
    BY <1>2, <1>3 DEF Written
  <2>. QED
    BY <1>2, <1>5, <1>8, <2>1 DEF RegisterContinues, Written, Newest
<1>. QED
  BY <1>2, <1>3, <1>9, <1>10, <1>11, <1>12

\* A side begins a transaction, with no less than its others were told last.
Begun(by) ==
    /\ Told' = Told \cup {Len(told) + 1} /\ Len(told) + 1 \notin Told
    /\ \A id \in Told : id < Len(told) + 1 /\ told'[id] = told[id]

\* A transaction is begun with what its side's accounts had come to.
LEMMA TruthBegun ==
    ASSUME MeterTypes, Truth, ErasRest, NEW side \in {"station", "csms"}, NEW value \in Nat,
           told' = Append(told, Start(side, Era(side), value)),
           \A id \in Told : told[id].by = side /\ Counted(id) => told[id].last <= value
    PROVE  /\ Truth' /\ told' \in Seq(Accounts) /\ Begun(side)
           /\ told'[Len(told) + 1] = Start(side, Era(side), value)
<1>. USE DEF Truth
<1>0. Len(told) \in Nat
  BY DEF MeterTypes
<1>. PICK new \in Nat : new = Len(told) + 1
  BY <1>0
<1>1. Start(side, Era(side), value) \in Accounts /\ Era(side) \in Nat
  BY DEF Start, Accounts, MeterTypes, Era
<1>2. /\ told' \in Seq(Accounts) /\ Begun(side) /\ told'[new] = Start(side, Era(side), value)
  <2>1. told \in Seq(Accounts) /\ Told = 1..Len(told) /\ Len(told) \in Nat
    BY DEF MeterTypes, Told
  <2>2. told' \in Seq(Accounts) /\ Len(told') = new /\ Told' = 1..new
    BY <1>1, <2>1 DEF Told
  <2>3. told'[new] = Start(side, Era(side), value) /\ \A id \in Told : told'[id] = told[id]
    BY <1>1, <2>1
  <2>. QED
    BY <2>1, <2>2, <2>3 DEF Begun
<1>3. /\ told'[new].by = side /\ told'[new].era = Era(side) /\ told'[new].meterStart = value
      /\ told'[new].stoppedBy = {} /\ told'[new].fell = FALSE /\ told'[new].ended = Era(side)
  BY <1>2 DEF Start
<1>4. ErasGrow
  BY DEF ErasRest, ErasGrow, MeterTypes
<1>5. \A k \in Told : (OneRegister(k)' => OneRegister(k)) /\ EraHeld(k)' /\ told'[k] = told[k]
  BY <1>2, <1>4, RegisterStays DEF Begun
<1>6. Told' = Told \cup {new} /\ new \notin Told /\ \A k \in Told : k < new /\ k \in Nat
  BY <1>2, ErasTyped DEF Begun
<1>7. Eras'
  <2>1. EraHeld(new)'
    BY <1>1, <1>3 DEF EraHeld, Era, ErasRest
  <2>. QED
    BY <1>5, <1>6, <2>1 DEF Eras
<1>8. BillsTheSession'
  <2>1. \A k \in Told : BilledFor(k, told[k].used)' = BilledFor(k, told[k].used)
    BY <1>5 DEF BilledFor, Billed
  <2>. QED
    BY <1>3, <1>5, <1>6, <2>1 DEF BillsTheSession, BilledFor, Billed
<1>9. ReadingsRise'
  BY <1>3, <1>5, <1>6 DEF ReadingsRise
<1>10. RegisterContinues'
  <2>1. ASSUME NEW k \in Told, told'[k].by = told'[new].by, told'[k].era = told'[new].era, OneRegister(k)'
        PROVE  told'[k].last <= told'[new].meterStart
    <3>1. OneRegister(k) /\ told[k].by = side /\ told[k].era = Era(side)
      BY <1>3, <1>5, <2>1
    <3>2. Counted(k)
      BY <3>1 DEF OneRegister, Counted
    <3>. QED
      BY <1>3, <1>5, <3>1, <3>2
  <2>2. \A k \in Told' : ~(new < k)
    BY <1>6
  <2>. SUFFICES ASSUME NEW k \in Told', NEW later \in Told', k < later, told'[k].by = told'[later].by,
                       told'[k].era = told'[later].era, OneRegister(k)'
                PROVE  told'[k].last <= told'[later].meterStart
    BY DEF RegisterContinues
  <2>3. CASE later = new
    BY <1>6, <2>1, <2>2, <2>3
  <2>4. CASE k \in Told /\ later \in Told
    BY <1>5, <2>4 DEF RegisterContinues
  <2>. QED
    BY <1>6, <2>2, <2>3, <2>4
<1>. QED
  BY <1>2, <1>7, <1>8, <1>9, <1>10

-----------------------------------------------------------------------------
(* The invariant, step by step *)
\* The simulation's memory and its reading are rounded as told.
LEMMA NoRoundingLeft ==
    ASSUME MeterHolds
    PROVE  /\ records \in Nat /\ memory \in Nat /\ meterClock \in Nat /\ Rounded(memory) = memory
           /\ Rounded(records) \in Nat /\ registerJob \in [RegisterJobs -> Handlers]
           /\ meterRow \in Rows /\ remoteSim \in [id : Nat, meterStart : Nat, since : Nat]
  BY RoundedUp DEF MeterHolds, MeterTypes, SimHeld

\* What a handler holds is about its own place, the row, the simulation and the accounts.
LEMMA HandlerRests ==
    ASSUME NEW k \in RegisterJobs, HandlerHeld(k), registerJob'[k] = registerJob[k], meterRow' = meterRow,
           UNCHANGED <<told, memory, remoteSim>>, Stage(k, {"tell", "record", "clear"}) /\ localLoop' => localLoop
    PROVE  HandlerHeld(k)'
<1>1. \A id : Newest(id)' = Newest(id) /\ Of(id, "station")' = Of(id, "station") /\ Of(id, "csms")' = Of(id, "csms")
  BY DEF Newest, Of, Told
<1>. QED
  BY <1>1 DEF HandlerHeld, RegisterAt, Stage

\* Time passes: the row and the simulation read more, and the accounts were told no more.
LEMMA RunsKeeps ==
    ASSUME MeterHolds, MeterRuns
    PROVE  MeterHolds'
<1>. USE DEF MeterHolds
<1>1. /\ meterClock' = meterClock + 1
      /\ UNCHANGED <<records, meterRow, localLoop, memory, remoteSim, told, registerJob, registerCommands,
                     clearings, registerRestarts>>
  BY DEF MeterRuns, History
<1>2. MeterTypes'
  BY <1>1 DEF MeterTypes
<1>3. HandlersApart'
  BY <1>1 DEF HandlersApart
<1>4. RowHeld'
  BY <1>1 DEF RowHeld, Newest, Of, Stage, Told, MeterTypes, Rows
<1>5. SimHeld'
  BY <1>1 DEF SimHeld, Newest, Of, Told, MeterTypes
<1>6. \A j \in RegisterJobs : HandlerHeld(j)'
  BY <1>1, HandlerRests
<1>7. Truth'
  BY <1>1, TruthRests DEF ErasGrow, MeterTypes
<1>8. AllCovered'
  <2>. SUFFICES ASSUME NEW id \in Told, Counted(id)' PROVE Covered(id)'
    BY <1>1 DEF AllCovered, Told
  <2>1. Counted(id) /\ Covered(id) /\ told[id] \in Accounts
    BY <1>1, ErasTyped DEF AllCovered, Counted, Era
  <2>2. told[id].last \in Nat
    BY <2>1 DEF Accounts
  <2>3. ASSUME told[id].by = "csms" PROVE told[id].last <= IF remoteSim.id = id THEN SimReading' ELSE memory
    <3>1. CASE remoteSim.id = id
      <4>1. remoteSim # NoSim
        BY <3>1, ErasTyped DEF NoSim, NoId
      <4>2. remoteSim.since \in Nat /\ remoteSim.since <= meterClock /\ remoteSim.meterStart \in Nat
        BY <4>1 DEF SimHeld, MeterTypes
      <4>3. SimReading \in Nat /\ SimReading' \in Nat /\ SimReading <= SimReading'
        <5>1. /\ remoteSim.meterStart + (meterClock - remoteSim.since) \in Nat
              /\ remoteSim.meterStart + (meterClock' - remoteSim.since) \in Nat
              /\ remoteSim.meterStart + (meterClock - remoteSim.since) <= remoteSim.meterStart + (meterClock' - remoteSim.since)
          BY <1>1, <4>2 DEF MeterTypes
        <5>. QED
          BY <1>1, <5>1, RoundedUp, RoundedRises DEF SimReading
      <4>. QED
        BY <2>1, <2>2, <2>3, <3>1, <4>3 DEF Covered, CoveredBySim
    <3>2. CASE remoteSim.id # id
      BY <2>1, <2>3, <3>2 DEF Covered, CoveredBySim
    <3>. QED
      BY <3>1, <3>2
  <2>4. ASSUME meterRow.id = id
        PROVE  LET before == records + (meterClock - meterRow.since)
                   after == records + (meterClock' - meterRow.since)
               IN  Rounded(before) \in Nat /\ Rounded(after) \in Nat /\ Rounded(before) <= Rounded(after)
    <3>1. meterRow.since \in Nat /\ meterRow.since <= meterClock
      BY <2>4, ErasTyped DEF RowHeld, MeterTypes, Rows, NoId
    <3>2. /\ records + (meterClock - meterRow.since) \in Nat /\ records + (meterClock' - meterRow.since) \in Nat
          /\ records + (meterClock - meterRow.since) <= records + (meterClock' - meterRow.since)
      BY <1>1, <3>1 DEF MeterTypes
    <3>. QED
      BY <3>2, RoundedUp, RoundedRises
  <2>. QED
    BY <1>1, <2>1, <2>2, <2>3, <2>4 DEF Covered, CoveredBySim, CoveredByRow, Stage, RegisterAt
<1>. QED
  BY <1>2, <1>3, <1>4, <1>5, <1>6, <1>7, <1>8

\* A step that tells nobody anything and leaves the amounts alone.
Hushed == UNCHANGED <<meterClock, records, memory, remoteSim, told, clearings, registerRestarts>>

\* A step that tells the CSMS nothing and counts nothing keeps what is about the accounts.
LEMMA HushedKeeps ==
    ASSUME MeterHolds, Hushed, NEW j \in RegisterJobs, OneGoes(j), HandlersApart',
           registerCommands' \in Nat, meterRow' \in Rows, localLoop' \in BOOLEAN, RowHeld',
           remoteSim # NoSim /\ meterRow'.status = "Charging" => remoteSim.since <= meterRow'.since,
           HandlerHeld(j)',
           \A k \in RegisterJobs \ {j} :
             /\ registerJob[k].at \in Begins \cup {"tick", "tell"} => meterRow' = meterRow
             /\ Stage(k, {"tell", "record", "clear"}) /\ localLoop' => localLoop,
           \A id \in Told : told[id].by = "station" /\ Counted(id) => CoveredByRow(id)'
    PROVE  MeterHolds'
<1>. USE DEF MeterHolds
<1>1. UNCHANGED <<meterClock, records, memory, remoteSim, told, clearings, registerRestarts>>
  BY DEF Hushed
<1>2. MeterTypes'
  BY <1>1 DEF MeterTypes, OneGoes
<1>3. SimHeld'
  BY <1>1 DEF SimHeld, Newest, Of, Told
<1>4. \A k \in RegisterJobs : HandlerHeld(k)'
  <2>. SUFFICES ASSUME NEW k \in RegisterJobs \ {j} PROVE HandlerHeld(k)'
    OBVIOUS
  <2>1. registerJob'[k] = registerJob[k] /\ HandlerHeld(k)
    BY DEF OneGoes
  <2>2. CASE registerJob[k].at \in Begins \cup {"tick", "tell"}
    BY <1>1, <2>1, <2>2, HandlerRests
  <2>3. CASE registerJob[k].at \notin Begins \cup {"tick", "tell"}
    BY <1>1, <2>1, <2>3 DEF HandlerHeld, RegisterAt, Begins, Stage
  <2>. QED
    BY <2>2, <2>3
<1>5. Truth'
  BY <1>1, TruthRests DEF ErasGrow, MeterTypes
<1>6. AllCovered'
  <2>. SUFFICES ASSUME NEW id \in Told, Counted(id)' PROVE Covered(id)'
    BY <1>1 DEF AllCovered, Told
  <2>1. Counted(id) /\ Covered(id)
    BY <1>1 DEF AllCovered, Counted, Era
  <2>2. CoveredBySim(id)' = CoveredBySim(id)
    BY <1>1 DEF CoveredBySim, SimReading
  <2>. QED
    BY <1>1, <2>1, <2>2 DEF Covered
<1>. QED
  BY <1>2, <1>3, <1>4, <1>5, <1>6

\* A handler that goes on past the row: what covered the row's transaction still does.
LEMMA RowCoverKept ==
    ASSUME UNCHANGED <<meterClock, records, meterRow>>, NEW j \in RegisterJobs, OneGoes(j),
           NEW id \in Told, told'[id] = told[id], CoveredByRow(id),
           registerJob'[j].at \notin {"mirror", "tell", "record", "clear"},
           registerJob'[j].at = "charge" => registerJob'[j].id # id,
           registerJob[j].at \notin {"mirror", "tell", "record", "clear"}
    PROVE  CoveredByRow(id)'
<1>1. \A k \in RegisterJobs : (Stage(k, {"mirror", "tell", "record", "clear"}) => k # j)
                              /\ (Stage(k, {"record", "clear"}) => k # j)
  BY DEF Stage
<1>2. \A k \in RegisterJobs \ {j} : registerJob'[k] = registerJob[k]
  BY DEF OneGoes
<1>. QED
  BY <1>1, <1>2 DEF CoveredByRow, Stage, RegisterAt

\* No transaction has the number of none.
LEMMA IdsAreTold == ASSUME MeterTypes PROVE NoId \notin Told
BY DEF MeterTypes, Told, NoId

\* The free row.
LEMMA RowStates == IdleRow \in Rows /\ IdleRow.id = NoId /\ IdleRow.status = "Available" /\ ~IdleRow.remote
BY DEF IdleRow, Rows, NoId

\* Nothing of a transaction's way begins from a free row, or from one that is being prepared
\* by another.
LEMMA FreeRow ==
    ASSUME MeterHolds, meterRow = IdleRow
    PROVE  /\ \A k \in RegisterJobs : registerJob[k].at \notin Begins \cup {"tick", "tell"}
           /\ ~localLoop
<1>1. NoId \notin Told
  BY IdsAreTold DEF MeterHolds
<1>2. ASSUME NEW k \in RegisterJobs PROVE registerJob[k].at \notin Begins \cup {"tick", "tell"}
  <2>1. HandlerHeld(k)
    BY DEF MeterHolds
  <2>2. registerJob[k].at \notin {"report", "charge", "answer", "adopt"}
    BY <2>1 DEF HandlerHeld, IdleRow
  <2>3. registerJob[k].at \notin {"tick", "tell"}
    BY <1>1, <2>1, RowStates DEF HandlerHeld, RegisterAt, Of
  <2>. QED
    BY <2>2, <2>3 DEF Begins
<1>3. ~localLoop
  BY <1>1, RowStates DEF MeterHolds, RowHeld, Of
<1>. QED
  BY <1>2, <1>3

\* The station's start finds a free row and prepares it.
LEMMA StationStartsKeeps ==
    ASSUME MeterHolds, NEW j \in RegisterJobs, StationStarts(j), ~stopsCrossed'
    PROVE  MeterHolds'
<1>. DEFINE s == [at |-> "report", id |-> NoId, amount |-> registerCommands]
            row == [IdleRow EXCEPT !.status = "Preparing", !.since = registerCommands]
<1>0. MeterTypes /\ registerCommands \in Nat
  BY DEF MeterHolds, MeterTypes
<1>1. /\ registerJob' = [registerJob EXCEPT ![j] = s] /\ meterRow' = row /\ meterRow = IdleRow
      /\ registerCommands' = registerCommands + 1 /\ registerJob[j].at = "idle"
      /\ UNCHANGED <<meterClock, records, localLoop, memory, remoteSim, told, clearings, registerRestarts>>
  BY DEF StationStarts, RegisterGoes, RegisterCommand, RegisterAt, History
<1>2. \A k \in RegisterJobs : registerJob[k].at \notin StopStages
  BY DEF StationStarts, MeetsStop
<1>3. s \in Handlers /\ s.at = "report" /\ s.id = NoId /\ s.amount = registerCommands
  BY <1>0 DEF Handlers, Begins, NoId
<1>4. row \in Rows /\ row.status = "Preparing" /\ row.id = NoId
  BY <1>0 DEF Rows, IdleRow, NoId
<1>5. OneGoes(j) /\ registerJob'[j] = s
  BY <1>0, <1>1, <1>3, HandlerGoes
<1>6. NoId \notin Told /\ ~localLoop /\ \A k \in RegisterJobs : registerJob[k].at \notin Begins \cup {"tick", "tell"}
  BY <1>0, <1>1, IdsAreTold, FreeRow
<1>7. HandlersApart'
  BY <1>2, <1>3, <1>5, <1>6, HandlersStayApart DEF MeterHolds, StopStages
<1>8. HandlerHeld(j)'
  BY <1>1, <1>3, <1>5 DEF HandlerHeld, RegisterAt, Stage
<1>. HIDE DEF s, row
<1>9. RowHeld'
  BY <1>1, <1>4, <1>6 DEF RowHeld
<1>10. ASSUME NEW id \in Told, told[id].by = "station", CoveredByRow(id) PROVE CoveredByRow(id)'
  <2>1. told[id].last <= Rounded(records)
    BY <1>1, <1>6, <1>10, RowStates DEF CoveredByRow
  <2>2. \A k \in RegisterJobs : registerJob'[k].at # "charge"
    BY <1>3, <1>5, <1>6 DEF OneGoes, Begins
  <2>. QED
    BY <1>1, <1>4, <1>6, <2>1, <2>2 DEF CoveredByRow, RegisterAt
<1>11. \A id \in Told : told[id].by = "station" /\ Counted(id) => CoveredByRow(id)'
  BY <1>10 DEF MeterHolds, AllCovered, Covered
<1>. QED
  BY <1>0, <1>1, <1>4, <1>5, <1>6, <1>7, <1>8, <1>9, <1>11, HushedKeeps DEF Hushed, MeterTypes

\* The loop reads for whom the row charges and since when, or it ends.
LEMMA TickReadsKeeps ==
    ASSUME MeterHolds, NEW j \in RegisterJobs, TickReads(j), ~stopsCrossed'
    PROVE  MeterHolds'
<1>0. MeterTypes /\ RowHeld /\ registerJob[j].at = "idle" /\ localLoop
  BY DEF MeterHolds, TickReads, RegisterAt
<1>1. UNCHANGED <<meterClock, records, meterRow, memory, remoteSim, told, registerCommands, clearings, registerRestarts>>
  BY DEF TickReads, History
<1>2. Of(meterRow.id, "station") /\ meterRow.status = "Charging" /\ meterRow.remote /\ meterRow.id # NoId
  BY <1>0, IdsAreTold DEF RowHeld, Of
<1>. DEFINE s == [at |-> "tick", id |-> meterRow.id, amount |-> meterRow.since]
<1>3. registerJob' = [registerJob EXCEPT ![j] = s] /\ UNCHANGED localLoop
      /\ \A k \in RegisterJobs : registerJob[k].at \notin StopStages
  BY <1>2 DEF TickReads, RegisterGoes, MeetsStop
<1>4. s \in Handlers /\ s.at = "tick" /\ s.id = meterRow.id /\ s.amount = meterRow.since
  BY <1>0 DEF Handlers, MeterTypes, Rows
<1>5. OneGoes(j) /\ registerJob'[j] = s
  BY <1>0, <1>3, <1>4, HandlerGoes
<1>. HIDE DEF s
<1>6. HandlersApart'
  BY <1>3, <1>4, <1>5, HandlersStayApart DEF MeterHolds, StopStages, Begins
<1>7. HandlerHeld(j)'
  BY <1>1, <1>2, <1>4, <1>5 DEF HandlerHeld, RegisterAt, Of, Told, Stage
<1>8. RowHeld'
  <2>1. \A k \in RegisterJobs : Stage(k, {"record", "clear"}) => FALSE
    BY <1>3 DEF Stage, StopStages
  <2>. QED
    BY <1>0, <1>1, <1>3, <2>1 DEF RowHeld, Newest, Of, Told
<1>9. \A id \in Told : told[id].by = "station" /\ Counted(id) => CoveredByRow(id)'
  BY <1>0, <1>1, <1>4, <1>5, RowCoverKept DEF MeterHolds, AllCovered, Covered, Hushed
<1>10. remoteSim # NoSim /\ meterRow'.status = "Charging" => remoteSim.since <= meterRow'.since
  BY <1>1 DEF MeterHolds, SimHeld
<1>. QED
  BY <1>0, <1>1, <1>3, <1>5, <1>6, <1>7, <1>8, <1>9, <1>10, HushedKeeps DEF Hushed, MeterTypes

\* A handler that stops is alone.
LEMMA OthersIdle ==
    ASSUME HandlersApart, NEW j \in RegisterJobs, registerJob[j].at \in StopStages
    PROVE  \A k \in RegisterJobs \ {j} : registerJob[k].at = "idle"
  BY DEF HandlersApart

\* With a handler at work no stop is under way.
LEMMA NoneStops ==
    ASSUME HandlersApart, NEW j \in RegisterJobs, registerJob[j].at \notin StopStages \cup {"idle"}
    PROVE  \A k \in RegisterJobs : registerJob[k].at \notin StopStages
  BY DEF HandlersApart

\* A handler that is done is idle.
LEMMA HandlerEnds ==
    ASSUME MeterTypes, NEW j \in RegisterJobs, RegisterEnds(j)
    PROVE  OneGoes(j) /\ registerJob'[j].at = "idle"
<1>1. NoRegisterJob \in Handlers /\ NoRegisterJob.at = "idle"
  BY DEF NoRegisterJob, Handlers, NoId
<1>. QED
  BY <1>1, HandlerGoes DEF RegisterEnds

\* An idle handler holds nothing.
LEMMA IdleHeld ==
    ASSUME NEW j \in RegisterJobs, registerJob[j].at = "idle"
    PROVE  HandlerHeld(j)
  BY DEF HandlerHeld, RegisterAt, Stage

\* The row charges: its readings go on from the records the transaction was begun with.
LEMMA StationChargesKeeps ==
    ASSUME MeterHolds, NEW j \in RegisterJobs, StationCharges(j), ~stopsCrossed'
    PROVE  MeterHolds'
<1>0. MeterTypes /\ RowHeld /\ HandlersApart /\ SimHeld /\ HandlerHeld(j) /\ registerJob[j].at = "charge" /\ RegisterEnds(j)
  BY DEF MeterHolds, StationCharges, RegisterAt
<1>. PICK id \in Nat : id = registerJob[j].id
  BY <1>0 DEF MeterTypes, Handlers
<1>. DEFINE row == [status |-> "Charging", remote |-> id # NoId, id |-> id, since |-> meterClock]
<1>1. meterRow = [IdleRow EXCEPT !.status = "Preparing", !.since = registerJob[j].amount]
  BY <1>0 DEF HandlerHeld
<1>2. /\ meterRow' = row /\ localLoop' = (localLoop \/ id # NoId)
      /\ UNCHANGED <<meterClock, records, memory, remoteSim, told, registerCommands, clearings, registerRestarts>>
  BY <1>1 DEF StationCharges, History
<1>3. meterRow.id = NoId /\ meterRow.status # "Charging"
  BY <1>1 DEF IdleRow
<1>4. OneGoes(j) /\ registerJob'[j].at = "idle"
  BY <1>0, HandlerEnds
<1>5. NoId \notin Told /\ ~localLoop
  BY <1>0, <1>3, IdsAreTold DEF RowHeld, Of
<1>6. id \in Nat /\ (id # NoId => Of(id, "station") /\ Newest(id) /\ told[id].stoppedBy = {})
  BY <1>0 DEF HandlerHeld, RegisterAt, MeterTypes, Handlers
<1>7. /\ row \in Rows /\ row.status = "Charging" /\ row.remote = (id # NoId)
      /\ row.id = id /\ row.since = meterClock
  BY <1>0, <1>6 DEF Rows, MeterTypes
<1>. HIDE DEF row
<1>8. \A k \in RegisterJobs : registerJob[k].at \notin StopStages
  BY <1>0, NoneStops DEF StopStages
<1>9. \A k \in RegisterJobs \ {j} : registerJob[k].at \notin Begins \cup {"tick", "tell"}
  <2>. SUFFICES ASSUME NEW k \in RegisterJobs \ {j} PROVE registerJob[k].at \notin Begins \cup {"tick", "tell"}
    OBVIOUS
  <2>1. HandlerHeld(k)
    BY DEF MeterHolds
  <2>2. registerJob[k].at \notin {"tick", "tell"}
    BY <1>3, <1>5, <2>1 DEF HandlerHeld, RegisterAt, Of
  <2>. QED
    BY <1>0, <2>2 DEF HandlersApart, Begins
<1>10. HandlersApart'
  BY <1>0, <1>4, <1>8, HandlersStayApart DEF Begins, StopStages
<1>11. RowHeld'
  <2>1. meterRow' = row /\ UNCHANGED told /\ localLoop' = (id # NoId) /\ meterClock' = meterClock /\ meterClock \in Nat
    BY <1>0, <1>2, <1>5 DEF MeterTypes
  <2>2. Newest(id)' = Newest(id) /\ Of(id, "station")' = Of(id, "station")
    BY <1>2 DEF Newest, Of, Told
  <2>3. meterRow'.id = id /\ meterRow'.status = "Charging" /\ meterRow'.since <= meterClock'
    BY <1>7, <2>1
  <2>4. CASE id = NoId
    BY <2>1, <2>3, <2>4 DEF RowHeld
  <2>5. CASE id # NoId
    <3>1. meterRow'.remote /\ id \in Told' /\ told'[id].by = "station" /\ told'[id].stoppedBy = {} /\ Newest(id)'
      BY <1>6, <1>7, <2>1, <2>2, <2>5 DEF Of, Told
    <3>2. Of(id, "station")'
      BY <1>6, <2>2, <2>5
    <3>. QED
      BY <2>3, <3>1, <3>2 DEF RowHeld
  <2>. QED
    BY <2>4, <2>5
<1>12. remoteSim # NoSim => remoteSim.since <= meterRow'.since
  BY <1>0, <1>2, <1>7 DEF SimHeld
<1>13. ASSUME NEW i \in Told, CoveredByRow(i) PROVE CoveredByRow(i)'
  <2>1. told[i].last <= Rounded(records)
    BY <1>3, <1>5, <1>13 DEF CoveredByRow
  <2>2. i = id => told[i].meterStart = Rounded(records)
    BY <1>0, <1>13 DEF CoveredByRow, RegisterAt
  <2>3. records + (meterClock - meterClock) = records
    BY <1>0 DEF MeterTypes
  <2>4. \A k \in RegisterJobs : registerJob'[k].at \notin StopStages \cup {"charge"}
    BY <1>4, <1>8, <1>9 DEF OneGoes, StopStages, Begins
  <2>. QED
    BY <1>2, <1>7, <2>1, <2>2, <2>3, <2>4 DEF CoveredByRow, RegisterAt, Stage, StopStages
<1>14. \A i \in Told : told[i].by = "station" /\ Counted(i) => CoveredByRow(i)'
  BY <1>13 DEF MeterHolds, AllCovered, Covered
<1>15. HandlerHeld(j)' /\ registerCommands' \in Nat /\ localLoop' \in BOOLEAN
  BY <1>0, <1>2, <1>4, IdleHeld DEF HandlerHeld, RegisterAt, Stage, MeterTypes
<1>16. \A k \in RegisterJobs : ~Stage(k, {"tell", "record", "clear"})
  BY <1>8 DEF Stage, StopStages
<1>. QED
  BY <1>2, <1>4, <1>7, <1>9, <1>10, <1>11, <1>12, <1>14, <1>15, <1>16, HushedKeeps DEF Hushed

\* A stop takes along what the row has charged, to tell it or to record it.
LEMMA StopReadsKeeps ==
    ASSUME MeterHolds, NEW j \in RegisterJobs, StopReads(j), ~stopsCrossed'
    PROVE  MeterHolds'
<1>. DEFINE amount == IF meterRow.status = "Charging" THEN meterClock - meterRow.since ELSE 0
            at == IF meterRow.remote /\ meterRow.id # NoId THEN "tell" ELSE "record"
            s == [at |-> at, id |-> meterRow.id, amount |-> amount]
<1>0. MeterTypes /\ RowHeld /\ HandlersApart /\ SimHeld
  BY DEF MeterHolds
<1>1. /\ localLoop' = FALSE /\ registerJob' = [registerJob EXCEPT ![j] = s]
      /\ registerCommands' = registerCommands + 1
      /\ UNCHANGED <<meterClock, records, meterRow, memory, remoteSim, told, clearings, registerRestarts>>
  BY DEF StopReads, RegisterGoes, RegisterCommand, History
<1>2. \A k \in RegisterJobs : registerJob[k].at = "idle"
  BY DEF StopReads, StopCrosses, RegisterAt
<1>3. amount \in Nat
  BY <1>0 DEF RowHeld, MeterTypes, Rows
<1>4. /\ s \in Handlers /\ s.at \in {"tell", "record"} /\ s.id = meterRow.id /\ s.amount = amount
      /\ s.at = "tell" => meterRow.remote /\ meterRow.id # NoId
      /\ meterRow.remote /\ meterRow.id # NoId => s.at = "tell"
  BY <1>0, <1>3 DEF Handlers, MeterTypes, Rows
<1>5. OneGoes(j) /\ registerJob'[j] = s
  BY <1>0, <1>1, <1>4, HandlerGoes
<1>. HIDE DEF s
<1>6. HandlersApart'
  BY <1>0, <1>2, <1>4, <1>5, HandlersStayApart DEF StopStages, Begins
<1>7. RowHeld'
  <2>1. \A k \in RegisterJobs : ~Stage(k, {"record", "clear"})
    BY <1>2 DEF Stage
  <2>. QED
    BY <1>0, <1>1, <2>1 DEF RowHeld, Newest, Of, Told
<1>8. HandlerHeld(j)'
  BY <1>1, <1>4, <1>5 DEF HandlerHeld, RegisterAt, Stage
<1>9. ASSUME NEW i \in Told, CoveredByRow(i) PROVE CoveredByRow(i)'
  <2>1. CASE meterRow.id # i
    <3>1. \A k \in RegisterJobs : registerJob'[k].at # "charge"
      BY <1>2, <1>4, <1>5 DEF OneGoes
    <3>. QED
      BY <1>1, <1>9, <2>1, <3>1 DEF CoveredByRow, RegisterAt
  <2>2. CASE meterRow.id = i
    <3>1. s.at = "tell" /\ s.amount = meterClock - meterRow.since
      BY <1>0, <1>4, <2>2, IdsAreTold DEF RowHeld
    <3>2. \A k \in RegisterJobs : ~Stage(k, {"mirror", "tell", "record", "clear"}) /\ ~Stage(k, {"record", "clear"})
      BY <1>2 DEF Stage
    <3>3. /\ told[i].last <= Rounded(records + (meterClock - meterRow.since))
          /\ told[i].meterStart = Rounded(records)
      BY <1>9, <2>2, <3>2 DEF CoveredByRow
    <3>4. \A k \in RegisterJobs \ {j} : registerJob'[k].at = "idle"
      BY <1>2, <1>5 DEF OneGoes
    <3>. QED
      BY <1>1, <1>5, <2>2, <3>1, <3>3, <3>4 DEF CoveredByRow, RegisterAt, Stage
  <2>. QED
    BY <2>1, <2>2
<1>10. \A i \in Told : told[i].by = "station" /\ Counted(i) => CoveredByRow(i)'
  BY <1>9 DEF MeterHolds, AllCovered, Covered
<1>11. remoteSim # NoSim /\ meterRow'.status = "Charging" => remoteSim.since <= meterRow'.since
  BY <1>0, <1>1 DEF SimHeld
<1>12. registerCommands' \in Nat /\ meterRow' \in Rows /\ localLoop' \in BOOLEAN
  <2>1. registerCommands \in Nat /\ meterRow \in Rows
    BY <1>0 DEF MeterTypes
  <2>2. registerCommands' = registerCommands + 1 /\ meterRow' = meterRow
    BY <1>1
  <2>3. localLoop' \in BOOLEAN
    BY <1>1
  <2>. QED
    BY <2>1, <2>2, <2>3
<1>. QED
  BY <1>1, <1>5, <1>6, <1>7, <1>8, <1>10, <1>11, <1>12, HushedKeeps DEF Hushed

\* The row is given to another, whose transaction is none of the station's: the station's are
\* covered by the records.
LEMMA RowCoverMoves ==
    ASSUME UNCHANGED records, NEW i \in Told, told'[i] = told[i], meterRow'.id # i, told[i].last <= Rounded(records),
           \A k \in RegisterJobs : registerJob'[k].at # "charge"
    PROVE  CoveredByRow(i)'
  BY DEF CoveredByRow, RegisterAt

\* The row is freed: its transaction is covered by the records it was recorded in.
LEMMA StopClearsKeeps ==
    ASSUME MeterHolds, NEW j \in RegisterJobs, StopClears(j), ~stopsCrossed'
    PROVE  MeterHolds'
<1>0. MeterTypes /\ RowHeld /\ HandlersApart /\ SimHeld /\ HandlerHeld(j) /\ registerJob[j].at = "clear" /\ RegisterEnds(j)
  BY DEF MeterHolds, StopClears, RegisterAt
<1>1. /\ meterRow' = IdleRow
      /\ UNCHANGED <<meterClock, records, localLoop, memory, remoteSim, told, registerCommands, clearings, registerRestarts>>
  BY DEF StopClears, History
<1>2. OneGoes(j) /\ registerJob'[j].at = "idle"
  BY <1>0, HandlerEnds
<1>3. \A k \in RegisterJobs \ {j} : registerJob[k].at = "idle"
  BY <1>0, OthersIdle DEF StopStages
<1>4. HandlersApart'
  BY <1>0, <1>2, HandlersStayApart DEF Begins, StopStages
<1>5. ~localLoop /\ NoId \notin Told
  BY <1>0, IdsAreTold DEF HandlerHeld, Stage
<1>6. RowHeld'
  BY <1>1, <1>5, RowStates DEF RowHeld
<1>7. HandlerHeld(j)' /\ registerCommands' \in Nat /\ localLoop' \in BOOLEAN
  BY <1>0, <1>1, <1>2, IdleHeld DEF HandlerHeld, RegisterAt, Stage, MeterTypes
<1>8. \A i \in Told : told[i].by = "station" /\ Counted(i) => CoveredByRow(i)'
  <2>. SUFFICES ASSUME NEW i \in Told, CoveredByRow(i) PROVE CoveredByRow(i)'
    BY DEF MeterHolds, AllCovered, Covered
  <2>1. told[i].last <= Rounded(records)
    BY <1>0 DEF CoveredByRow, RegisterAt
  <2>2. meterRow'.id # i
    BY <1>1, <1>5, RowStates
  <2>. QED
    BY <1>1, <1>2, <1>3, <2>1, <2>2, RowCoverMoves DEF OneGoes
<1>. QED
  BY <1>1, <1>2, <1>3, <1>4, <1>6, <1>7, <1>8, RowStates, HushedKeeps DEF Hushed, Begins, Stage

\* The row charges for the CSMS's transaction, which the simulation covers, or is left as it is.
LEMMA RemoteAdoptsKeeps ==
    ASSUME MeterHolds, NEW j \in RegisterJobs, RemoteAdopts(j), ~stopsCrossed'
    PROVE  MeterHolds'
<1>0. MeterTypes /\ RowHeld /\ HandlersApart /\ SimHeld /\ HandlerHeld(j) /\ registerJob[j].at = "adopt" /\ RegisterEnds(j)
  BY DEF MeterHolds, RemoteAdopts, RegisterAt
<1>. PICK id \in Nat : id = registerJob[j].id
  BY <1>0 DEF MeterTypes, Handlers
<1>. DEFINE row == [status |-> "Charging", remote |-> TRUE, id |-> id, since |-> meterClock]
<1>1. Of(id, "csms") /\ meterRow = [IdleRow EXCEPT !.status = "Preparing", !.remote = TRUE]
  BY <1>0 DEF HandlerHeld
<1>2. meterRow.id = NoId /\ meterRow.remote
  BY <1>1 DEF IdleRow
<1>3. /\ meterRow' = row
      /\ UNCHANGED <<meterClock, records, localLoop, memory, remoteSim, told, registerCommands, clearings, registerRestarts>>
  BY <1>2 DEF RemoteAdopts, History
<1>4. row \in Rows /\ row.status = "Charging" /\ row.remote /\ row.id = id /\ row.since = meterClock
  BY <1>0 DEF Rows, MeterTypes
<1>. HIDE DEF row
<1>5. OneGoes(j) /\ registerJob'[j].at = "idle"
  BY <1>0, HandlerEnds
<1>6. NoId \notin Told /\ ~localLoop
  BY <1>0, <1>2, IdsAreTold DEF RowHeld, Of
<1>7. \A k \in RegisterJobs : registerJob[k].at \notin StopStages
  BY <1>0, NoneStops DEF StopStages
<1>8. \A k \in RegisterJobs \ {j} : registerJob[k].at \notin Begins \cup {"tick", "tell"}
  <2>. SUFFICES ASSUME NEW k \in RegisterJobs \ {j} PROVE registerJob[k].at \notin Begins \cup {"tick", "tell"}
    OBVIOUS
  <2>1. HandlerHeld(k)
    BY DEF MeterHolds
  <2>2. registerJob[k].at \notin {"tick", "tell"}
    BY <1>2, <1>6, <2>1 DEF HandlerHeld, RegisterAt, Of
  <2>. QED
    BY <1>0, <2>2 DEF HandlersApart, Begins
<1>9. HandlersApart'
  BY <1>0, <1>5, <1>7, HandlersStayApart DEF Begins, StopStages
<1>10. RowHeld'
  <2>1. meterRow'.id = id /\ meterRow'.status = "Charging" /\ meterRow'.since <= meterClock' /\ meterRow'.remote
    BY <1>0, <1>3, <1>4 DEF MeterTypes
  <2>2. id \in Told' /\ told'[id].by = "csms" /\ ~localLoop'
    BY <1>1, <1>3, <1>6 DEF Of, Told
  <2>. QED
    BY <2>1, <2>2 DEF RowHeld
<1>11. HandlerHeld(j)' /\ registerCommands' \in Nat /\ localLoop' \in BOOLEAN
  BY <1>0, <1>3, <1>5, IdleHeld DEF HandlerHeld, RegisterAt, Stage, MeterTypes
<1>12. \A i \in Told : told[i].by = "station" /\ Counted(i) => CoveredByRow(i)'
  <2>. SUFFICES ASSUME NEW i \in Told, told[i].by = "station", CoveredByRow(i) PROVE CoveredByRow(i)'
    BY DEF MeterHolds, AllCovered, Covered
  <2>1. told[i].last <= Rounded(records)
    BY <1>2, <1>6 DEF CoveredByRow
  <2>2. meterRow'.id # i
    BY <1>1, <1>3, <1>4 DEF Of
  <2>3. \A k \in RegisterJobs : registerJob'[k].at # "charge"
    BY <1>5, <1>8 DEF OneGoes, Begins
  <2>. QED
    BY <1>3, <2>1, <2>2, <2>3, RowCoverMoves
<1>13. remoteSim # NoSim => remoteSim.since <= meterRow'.since
  BY <1>0, <1>3, <1>4 DEF SimHeld
<1>14. \A k \in RegisterJobs : ~Stage(k, {"tell", "record", "clear"})
  BY <1>7 DEF Stage, StopStages
<1>. QED
  BY <1>3, <1>4, <1>5, <1>8, <1>9, <1>10, <1>11, <1>12, <1>13, <1>14, HushedKeeps DEF Hushed

\* A stop of the CSMS is accepted before the simulation ends.
LEMMA RemoteStopAcceptedKeeps ==
    ASSUME MeterHolds, NEW j \in RegisterJobs, RemoteStopAccepted(j), ~stopsCrossed'
    PROVE  MeterHolds'
<1>. DEFINE s == [at |-> "end", id |-> remoteSim.id, amount |-> 0]
<1>0. MeterTypes /\ RowHeld /\ HandlersApart /\ SimHeld
  BY DEF MeterHolds
<1>1. /\ registerJob' = [registerJob EXCEPT ![j] = s] /\ registerCommands' = registerCommands + 1 /\ remoteSim # NoSim
      /\ UNCHANGED <<meterClock, records, meterRow, localLoop, memory, remoteSim, told, clearings, registerRestarts>>
  BY DEF RemoteStopAccepted, RegisterGoes, RegisterCommand, History
<1>2. \A k \in RegisterJobs : registerJob[k].at = "idle"
  BY DEF RemoteStopAccepted, StopCrosses, RegisterAt
<1>3. s \in Handlers /\ s.at = "end" /\ s.id = remoteSim.id
  BY <1>0 DEF Handlers, MeterTypes
<1>4. OneGoes(j) /\ registerJob'[j] = s
  BY <1>0, <1>1, <1>3, HandlerGoes
<1>. HIDE DEF s
<1>5. HandlersApart'
  BY <1>0, <1>2, <1>3, <1>4, HandlersStayApart DEF StopStages, Begins
<1>6. RowHeld'
  <2>1. \A k \in RegisterJobs : ~Stage(k, {"record", "clear"})
    BY <1>2 DEF Stage
  <2>. QED
    BY <1>0, <1>1, <2>1 DEF RowHeld, Newest, Of, Told
<1>7. HandlerHeld(j)'
  BY <1>1, <1>3, <1>4 DEF HandlerHeld, RegisterAt, Stage
<1>8. \A i \in Told : told[i].by = "station" /\ Counted(i) => CoveredByRow(i)'
  BY <1>1, <1>2, <1>3, <1>4, RowCoverKept DEF MeterHolds, AllCovered, Covered, Hushed
<1>9. remoteSim # NoSim /\ meterRow'.status = "Charging" => remoteSim.since <= meterRow'.since
  BY <1>0, <1>1 DEF SimHeld
<1>10. registerCommands' \in Nat /\ meterRow' \in Rows /\ localLoop' \in BOOLEAN
  <2>1. registerCommands \in Nat /\ meterRow \in Rows /\ localLoop \in BOOLEAN
    BY <1>0 DEF MeterTypes
  <2>. QED
    BY <1>1, <2>1
<1>. QED
  BY <1>1, <1>2, <1>4, <1>5, <1>6, <1>7, <1>8, <1>9, <1>10, HushedKeeps DEF Hushed

\* The CSMS's stop goes on with the row's session, if there is one, and the energy told.
LEMMA StopMirrorsKeeps ==
    ASSUME MeterHolds, NEW j \in RegisterJobs, StopMirrors(j), ~stopsCrossed'
    PROVE  MeterHolds'
<1>0. MeterTypes /\ RowHeld /\ HandlersApart /\ SimHeld /\ HandlerHeld(j) /\ registerJob[j].at = "mirror"
  BY DEF MeterHolds, StopMirrors, RegisterAt
<1>1. /\ localLoop' = FALSE
      /\ UNCHANGED <<meterClock, records, meterRow, memory, remoteSim, told, registerCommands, clearings, registerRestarts>>
  BY DEF StopMirrors, History
<1>2. \A k \in RegisterJobs \ {j} : registerJob[k].at = "idle"
  BY <1>0, OthersIdle DEF StopStages
<1>3. /\ OneGoes(j)
      /\ \/ registerJob'[j].at = "idle" /\ meterRow = IdleRow
         \/ registerJob'[j].at = "record" /\ registerJob'[j].amount = registerJob[j].amount
  <2>1. CASE meterRow = IdleRow
    BY <1>0, <2>1, HandlerEnds DEF StopMirrors
  <2>2. CASE meterRow # IdleRow
    <3>. DEFINE s == [at |-> "record", id |-> NoId, amount |-> registerJob[j].amount]
    <3>1. registerJob' = [registerJob EXCEPT ![j] = s]
      BY <2>2 DEF StopMirrors, RegisterGoes
    <3>2. s \in Handlers /\ s.at = "record" /\ s.amount = registerJob[j].amount
      BY <1>0 DEF Handlers, MeterTypes, NoId
    <3>. HIDE DEF s
    <3>. QED
      BY <1>0, <3>1, <3>2, HandlerGoes
  <2>. QED
    BY <2>1, <2>2
<1>4. HandlersApart'
  BY <1>0, <1>3, HandlersStayApart DEF StopStages, Begins
<1>5. RowHeld'
  <2>1. \A k \in RegisterJobs : ~Stage(k, {"record", "clear"})
    BY <1>0, <1>2 DEF Stage
  <2>. QED
    BY <1>0, <1>1, <2>1 DEF RowHeld, Newest, Of, Told
<1>6. HandlerHeld(j)'
  BY <1>1, <1>3 DEF HandlerHeld, RegisterAt, Stage
<1>7. \A i \in Told : told[i].by = "station" /\ Counted(i) => CoveredByRow(i)'
  <2>. SUFFICES ASSUME NEW i \in Told, CoveredByRow(i) PROVE CoveredByRow(i)'
    BY DEF MeterHolds, AllCovered, Covered
  <2>0. \A k \in RegisterJobs \ {j} : registerJob'[k].at = "idle"
    BY <1>2, <1>3 DEF OneGoes
  <2>1. CASE meterRow.id # i
    <3>1. told[i].last <= Rounded(records) /\ meterRow'.id # i
      BY <1>1, <2>1 DEF CoveredByRow
    <3>. QED
      BY <1>1, <1>3, <2>0, <3>1, RowCoverMoves
  <2>2. CASE meterRow.id = i
    <3>1. registerJob'[j].at = "record" /\ registerJob'[j].amount = registerJob[j].amount
      BY <1>0, <1>3, <2>2, IdsAreTold, RowStates
    <3>2. told[i].last <= Rounded(records + registerJob[j].amount)
      BY <1>0, <2>2 DEF CoveredByRow, Stage
    <3>. QED
      BY <1>1, <2>0, <2>2, <3>1, <3>2 DEF CoveredByRow, RegisterAt, Stage
  <2>. QED
    BY <2>1, <2>2
<1>8. remoteSim # NoSim /\ meterRow'.status = "Charging" => remoteSim.since <= meterRow'.since
  BY <1>0, <1>1 DEF SimHeld
<1>9. registerCommands' \in Nat /\ meterRow' \in Rows /\ localLoop' \in BOOLEAN
  <2>1. registerCommands \in Nat /\ meterRow \in Rows
    BY <1>0 DEF MeterTypes
  <2>2. localLoop' \in BOOLEAN
    BY <1>1
  <2>. QED
    BY <1>1, <2>1, <2>2
<1>. QED
  BY <1>1, <1>2, <1>3, <1>4, <1>5, <1>6, <1>7, <1>8, <1>9, HushedKeeps DEF Hushed

\* The simulation begins with the memory its transaction was begun with.
LEMMA RemoteAnsweredKeeps ==
    ASSUME MeterHolds, NEW j \in RegisterJobs, RemoteAnswered(j), ~stopsCrossed'
    PROVE  MeterHolds'
<1>0. /\ MeterTypes /\ RowHeld /\ HandlersApart /\ SimHeld /\ HandlerHeld(j) /\ registerJob[j].at = "answer"
      /\ Truth /\ AllCovered
  BY DEF MeterHolds, RemoteAnswered, RegisterAt
<1>. PICK id \in Nat : id = registerJob[j].id
  BY <1>0 DEF MeterTypes, Handlers
<1>. DEFINE s == [at |-> "adopt", id |-> id, amount |-> 0]
            sim == [id |-> id, meterStart |-> memory, since |-> meterClock]
<1>1. /\ Of(id, "csms") /\ Newest(id) /\ told[id].stoppedBy = {} /\ told[id].meterStart = memory
      /\ remoteSim = NoSim /\ registerJob[j].amount = memory
      /\ meterRow = [IdleRow EXCEPT !.status = "Preparing", !.remote = TRUE]
  BY <1>0 DEF HandlerHeld, RegisterAt
<1>2. /\ registerJob' = [registerJob EXCEPT ![j] = s] /\ remoteSim' = sim
      /\ UNCHANGED <<meterClock, records, meterRow, localLoop, memory, told, registerCommands, clearings, registerRestarts>>
  BY <1>1 DEF RemoteAnswered, RegisterGoes, History
<1>3. s \in Handlers /\ s.at = "adopt" /\ s.id = id
  BY <1>0 DEF Handlers, Begins
<1>4. /\ sim \in [id : Nat, meterStart : Nat, since : Nat]
      /\ sim.id = id /\ sim.meterStart = memory /\ sim.since = meterClock
  BY <1>0 DEF MeterTypes
<1>5. OneGoes(j) /\ registerJob'[j] = s
  BY <1>0, <1>2, <1>3, HandlerGoes
<1>. HIDE DEF s, sim
<1>6. meterRow.status = "Preparing" /\ meterRow.id = NoId
  BY <1>1 DEF IdleRow
<1>7. \A k \in RegisterJobs : registerJob[k].at \notin StopStages
  BY <1>0, NoneStops DEF StopStages
<1>8. MeterTypes'
  BY <1>0, <1>2, <1>4, <1>5 DEF MeterTypes, OneGoes
<1>9. HandlersApart'
  BY <1>0, <1>3, <1>5, <1>7, HandlersStayApart DEF Begins, StopStages
<1>10. Newest(id)' /\ Of(id, "csms")' /\ told'[id].stoppedBy = {} /\ told'[id].meterStart = memory
  BY <1>1, <1>2 DEF Newest, Of, Told
<1>11. RowHeld'
  <2>1. ~localLoop
    BY <1>0, <1>6, IdsAreTold DEF RowHeld, Of
  <2>. QED
    BY <1>2, <1>6, <2>1 DEF RowHeld
<1>12. SimHeld'
  BY <1>0, <1>2, <1>4, <1>6, <1>10 DEF SimHeld, MeterTypes
<1>13. \A k \in RegisterJobs : HandlerHeld(k)'
  <2>1. HandlerHeld(j)'
    BY <1>1, <1>2, <1>3, <1>5, <1>10 DEF HandlerHeld, RegisterAt, Stage
  <2>2. ASSUME NEW k \in RegisterJobs \ {j} PROVE HandlerHeld(k)'
    <3>1. HandlerHeld(k) /\ registerJob'[k] = registerJob[k] /\ registerJob[k].at \notin Begins \cup StopStages
      BY <1>0, <1>5, <1>7 DEF MeterHolds, OneGoes, HandlersApart, Begins
    <3>2. \A i : Of(i, "station")' = Of(i, "station")
      BY <1>2 DEF Of, Told
    <3>. QED
      BY <1>2, <3>1, <3>2 DEF HandlerHeld, RegisterAt, Stage, Begins, StopStages
  <2>. QED
    BY <2>1, <2>2
<1>14. Truth'
  BY <1>0, <1>2, TruthRests DEF ErasGrow, MeterTypes
<1>15. AllCovered'
  <2>. SUFFICES ASSUME NEW i \in Told, Counted(i)' PROVE Covered(i)'
    BY <1>2 DEF AllCovered, Told
  <2>1. Counted(i) /\ Covered(i)
    BY <1>0, <1>2 DEF AllCovered, Counted, Era
  <2>2. ASSUME told[i].by = "csms" PROVE CoveredBySim(i)'
    <3>1. told[i].last <= memory
      BY <1>0, <1>1, <2>1, <2>2, IdsAreTold DEF Covered, CoveredBySim, NoSim
    <3>2. SimReading' = memory
      <4>1. memory + (meterClock - meterClock) = memory /\ Rounded(memory) = memory
        BY <1>0 DEF MeterTypes, SimHeld
      <4>. QED
        BY <1>2, <1>4, <4>1 DEF SimReading
    <3>. QED
      BY <1>2, <3>1, <3>2 DEF CoveredBySim
  <2>3. ASSUME told[i].by = "station" PROVE CoveredByRow(i)'
    <3>1. told[i].last <= Rounded(records) /\ meterRow'.id # i
      BY <1>0, <1>2, <1>6, <2>1, <2>3, IdsAreTold DEF Covered, CoveredByRow
    <3>2. \A k \in RegisterJobs : registerJob'[k].at # "charge"
      BY <1>0, <1>3, <1>5 DEF OneGoes, HandlersApart, Begins
    <3>. QED
      BY <1>2, <3>1, <3>2, RowCoverMoves
  <2>. QED
    BY <1>2, <2>2, <2>3 DEF Covered
<1>. QED
  BY <1>8, <1>9, <1>11, <1>12, <1>13, <1>14, <1>15 DEF MeterHolds

\* A step that meets a stop is outside the claim, so none does.
LEMMA NoneMeetsStop ==
    ASSUME MeetsStop, ~stopsCrossed'
    PROVE  \A k \in RegisterJobs : registerJob[k].at \notin StopStages
  BY DEF MeetsStop

\* What an account that is written leaves as it was.
LEMMA WrittenRests ==
    ASSUME NEW id \in Told, Written(id), told'[id].by = told[id].by, told'[id].meterStart = told[id].meterStart
    PROVE  /\ \A i : Of(i, "station")' = Of(i, "station") /\ Of(i, "csms")' = Of(i, "csms")
           /\ \A i \in Told : /\ told'[i].by = told[i].by /\ told'[i].meterStart = told[i].meterStart
                             /\ Newest(i)' = Newest(i)
<1>1. Told' = Told /\ \A i \in Told : told'[i].by = told[i].by /\ told'[i].meterStart = told[i].meterStart
  BY DEF Written
<1>2. \A i \in Told : Newest(i)' = Newest(i)
  BY <1>1 DEF Newest
<1>3. \A i : Of(i, "station")' = Of(i, "station") /\ Of(i, "csms")' = Of(i, "csms")
  BY <1>1 DEF Of
<1>. QED
  BY <1>1, <1>2, <1>3

\* A reading told keeps the invariant if the register it is read from covers it.
LEMMA HeardKeeps ==
    ASSUME MeterHolds, NEW id \in Told, NEW value \in Nat, Tell(id, value), Newest(id),
           OneRegister(id) => told[id].last <= value,
           UNCHANGED <<meterClock, records, meterRow, localLoop, memory, remoteSim, registerCommands,
                       clearings, registerRestarts>>,
           registerJob' \in [RegisterJobs -> Handlers],
           \A k \in RegisterJobs :
             registerJob'[k] = registerJob[k] \/ (registerJob[k].at = "tick" /\ registerJob'[k].at = "idle"),
           told[id].by = "csms" => remoteSim.id = id /\ value <= SimReading,
           told[id].by = "station" =>
             /\ meterRow.id = id /\ \A k \in RegisterJobs : registerJob[k].at \notin StopStages
             /\ value <= Rounded(records + (meterClock - meterRow.since))
    PROVE  MeterHolds'
<1>0. MeterTypes /\ RowHeld /\ HandlersApart /\ SimHeld /\ Truth /\ AllCovered /\ ErasRest
  BY DEF MeterHolds, ErasRest
<1>1. Truth' /\ told' \in Seq(Accounts) /\ Written(id) /\ told'[id] = Heard(id, value)
  BY <1>0, TruthHeard
<1>2. /\ told'[id].by = told[id].by /\ told'[id].meterStart = told[id].meterStart /\ told'[id].last = value
      /\ told'[id].stoppedBy = told[id].stoppedBy /\ told'[id].era = told[id].era
  BY <1>0, <1>1, HeardAccount
<1>3. /\ \A i : Of(i, "station")' = Of(i, "station") /\ Of(i, "csms")' = Of(i, "csms")
      /\ \A i \in Told : told'[i].by = told[i].by /\ told'[i].meterStart = told[i].meterStart
  BY <1>1, <1>2, WrittenRests
<1>4. Told' = Told /\ \A i \in Told : told'[i].stoppedBy = told[i].stoppedBy /\ told'[i].era = told[i].era
  BY <1>1, <1>2 DEF Written
<1>5. MeterTypes'
  BY <1>0, <1>1 DEF MeterTypes
<1>6. HandlersApart'
  <2>1. "tick" \notin Begins \cup StopStages /\ "idle" \notin Begins \cup StopStages
    BY DEF Begins, StopStages
  <2>. QED
    BY <1>0, <2>1 DEF HandlersApart
<1>7. RowHeld'
  <2>1. \A k \in RegisterJobs : Stage(k, {"record", "clear"})' = Stage(k, {"record", "clear"})
    BY DEF Stage
  <2>. QED
    BY <1>0, <1>3, <1>4, <2>1 DEF RowHeld, Of, Newest
<1>8. SimHeld'
  BY <1>0, <1>3, <1>4 DEF SimHeld, Of, Newest
<1>9. ASSUME NEW k \in RegisterJobs PROVE HandlerHeld(k)'
  <2>1. HandlerHeld(k)
    BY DEF MeterHolds
  <2>2. CASE registerJob'[k] = registerJob[k]
    BY <1>3, <1>4, <2>1, <2>2 DEF HandlerHeld, RegisterAt, Stage, Of, Newest
  <2>3. CASE registerJob'[k].at = "idle"
    BY <2>3, IdleHeld DEF HandlerHeld, RegisterAt, Stage
  <2>. QED
    BY <2>2, <2>3
<1>10. AllCovered'
  <2>. SUFFICES ASSUME NEW i \in Told, Counted(i)' PROVE Covered(i)'
    BY <1>4 DEF AllCovered
  <2>1. Counted(i) /\ Covered(i)
    BY <1>0, <1>3, <1>4 DEF AllCovered, Counted, Era
  <2>2. SimReading' = SimReading
    BY DEF SimReading
  <2>3. ASSUME told[i].by = "csms" PROVE CoveredBySim(i)'
    BY <1>1, <1>2, <2>1, <2>2, <2>3 DEF Covered, CoveredBySim, Written
  <2>4. ASSUME told[i].by = "station" PROVE CoveredByRow(i)'
    <3>1. \A k \in RegisterJobs : registerJob'[k].at \in StopStages \cup {"charge"} => registerJob'[k] = registerJob[k]
      BY DEF StopStages
    <3>2. \A k \in RegisterJobs : /\ Stage(k, {"mirror", "tell", "record", "clear"})' = Stage(k, {"mirror", "tell", "record", "clear"})
                                  /\ Stage(k, {"record", "clear"})' = Stage(k, {"record", "clear"})
                                  /\ Stage(k, {"mirror", "tell", "record"})' = Stage(k, {"mirror", "tell", "record"})
      BY DEF Stage
    <3>3. CASE i # id
      <4>1. told'[i] = told[i]
        BY <1>1, <3>3 DEF Written
      <4>. QED
        BY <2>1, <2>4, <3>1, <3>2, <4>1 DEF Covered, CoveredByRow, RegisterAt, Stage, StopStages
    <3>4. CASE i = id
      <4>1. \A k \in RegisterJobs : registerJob'[k].at \notin StopStages
        BY <2>4, <3>1, <3>4
      <4>2. told'[i].last <= Rounded(records + (meterClock - meterRow.since)) /\ meterRow.id = i
        BY <1>2, <2>4, <3>4
      <4>3. told[i].meterStart = Rounded(records)
        BY <2>1, <2>4, <3>4 DEF Covered, CoveredByRow, Stage, StopStages
      <4>. QED
        BY <1>3, <4>1, <4>2, <4>3 DEF CoveredByRow, RegisterAt, Stage, StopStages
    <3>. QED
      BY <3>3, <3>4
  <2>. QED
    BY <1>3, <2>3, <2>4 DEF Covered
<1>. QED
  BY <1>1, <1>5, <1>6, <1>7, <1>8, <1>9, <1>10 DEF MeterHolds

\* The loop tells what the row reads.
LEMMA TickSendsKeeps ==
    ASSUME MeterHolds, NEW j \in RegisterJobs, TickSends(j), ~stopsCrossed'
    PROVE  MeterHolds'
<1>0. /\ MeterTypes /\ RowHeld /\ HandlersApart /\ HandlerHeld(j) /\ AllCovered
      /\ registerJob[j].at = "tick" /\ RegisterEnds(j)
  BY DEF MeterHolds, TickSends, RegisterAt
<1>. PICK id \in Nat : id = registerJob[j].id
  BY <1>0 DEF MeterTypes, Handlers
<1>1. Of(id, "station") /\ meterRow.id = id /\ meterRow.since = registerJob[j].amount
  BY <1>0 DEF HandlerHeld, RegisterAt
<1>. DEFINE value == Rounded(records + (meterClock - meterRow.since))
<1>2. /\ Tell(id, value)
      /\ UNCHANGED <<meterClock, records, meterRow, localLoop, memory, remoteSim, registerCommands,
                     clearings, registerRestarts>>
  BY <1>1 DEF TickSends, History
<1>3. id \in Told /\ told[id].by = "station" /\ id # NoId
  BY <1>0, <1>1, IdsAreTold DEF Of
<1>4. \A k \in RegisterJobs : registerJob[k].at \notin StopStages
  BY <1>0, NoneStops DEF StopStages
<1>5. Newest(id) /\ told[id].stoppedBy = {}
  BY <1>0, <1>1, <1>3, <1>4 DEF RowHeld, Stage, StopStages
<1>6. value \in Nat
  <2>1. records + (meterClock - meterRow.since) \in Nat
    BY <1>0, <1>1, <1>3 DEF RowHeld, MeterTypes, Rows
  <2>. QED
    BY <2>1, RoundedUp
<1>7. OneRegister(id) => told[id].last <= value
  <2>1. OneRegister(id) => Counted(id)
    BY <1>5 DEF OneRegister, Counted
  <2>2. Counted(id) => CoveredByRow(id)
    BY <1>0, <1>3 DEF AllCovered, Covered
  <2>. QED
    BY <1>1, <1>4, <2>1, <2>2 DEF CoveredByRow, Stage, StopStages
<1>8. OneGoes(j) /\ registerJob'[j].at = "idle"
  BY <1>0, HandlerEnds
<1>9. value <= value
  BY <1>6
<1>. HIDE DEF value
<1>10. /\ registerJob' \in [RegisterJobs -> Handlers]
       /\ \A k \in RegisterJobs :
            registerJob'[k] = registerJob[k] \/ (registerJob[k].at = "tick" /\ registerJob'[k].at = "idle")
  BY <1>0, <1>8 DEF OneGoes
<1>11. value <= Rounded(records + (meterClock - meterRow.since))
  BY <1>9 DEF value
<1>. QED
  BY <1>1, <1>2, <1>3, <1>4, <1>5, <1>6, <1>7, <1>10, <1>11, HeardKeeps

\* The simulation's reading rises with the clock from the memory it began with.
LEMMA SimReads ==
    ASSUME MeterHolds, remoteSim # NoSim
    PROVE  /\ SimReading \in Nat /\ meterClock - remoteSim.since \in Nat /\ memory <= SimReading
           /\ meterClock - remoteSim.since <= SimReading - memory
           /\ SimReading - memory <= (meterClock - remoteSim.since) + 1
           /\ Rounded(SimReading) = SimReading
<1>. PICK e \in Int : e = meterClock - remoteSim.since
  BY DEF MeterHolds, MeterTypes
<1>1. e \in Nat /\ memory \in Nat /\ remoteSim.meterStart = memory
  BY DEF MeterHolds, MeterTypes, SimHeld
<1>2. Rounded(memory) = memory
  BY DEF MeterHolds, SimHeld
<1>3. SimReading = Rounded(memory + e) /\ memory + e \in Nat
  BY <1>1 DEF SimReading
<1>4. /\ Rounded(memory + e) \in Nat /\ memory + e <= Rounded(memory + e)
      /\ Rounded(memory + e) <= (memory + e) + 1 /\ Rounded(Rounded(memory + e)) = Rounded(memory + e)
  BY <1>3, RoundedUp
<1>. QED
  BY <1>1, <1>3, <1>4

\* The simulation tells its own reading.
LEMMA RemoteTickKeeps ==
    ASSUME MeterHolds, RemoteTick, ~stopsCrossed'
    PROVE  MeterHolds'
<1>0. MeterTypes /\ SimHeld /\ AllCovered /\ remoteSim # NoSim
  BY DEF MeterHolds, RemoteTick
<1>. PICK id \in Nat : id = remoteSim.id
  BY <1>0 DEF MeterTypes
<1>1. id \in Told /\ told[id].by = "csms" /\ Newest(id) /\ "csms" \notin told[id].stoppedBy
  BY <1>0 DEF SimHeld, Of
<1>. PICK value \in Nat : value = SimReading
  BY <1>0, SimReads
<1>2. /\ Tell(id, value)
      /\ UNCHANGED <<meterClock, records, meterRow, localLoop, memory, remoteSim, registerCommands,
                     clearings, registerRestarts, registerJob>>
  BY DEF RemoteTick, History
<1>3. OneRegister(id) => told[id].last <= value
  <2>1. OneRegister(id) => Counted(id)
    BY <1>1 DEF OneRegister, Counted
  <2>. QED
    BY <1>0, <1>1, <2>1 DEF AllCovered, Covered, CoveredBySim
<1>4. registerJob' \in [RegisterJobs -> Handlers]
  BY <1>0, <1>2 DEF MeterTypes
<1>5. value <= SimReading
  OBVIOUS
<1>. QED
  BY <1>1, <1>2, <1>3, <1>4, <1>5, HeardKeeps

\* The station's stop is told with the reading the records will hold.
LEMMA StopTellsKeeps ==
    ASSUME MeterHolds, NEW j \in RegisterJobs, StopTells(j), ~stopsCrossed'
    PROVE  MeterHolds'
<1>0. /\ MeterTypes /\ RowHeld /\ SimHeld /\ HandlersApart /\ HandlerHeld(j) /\ AllCovered /\ Truth
      /\ registerJob[j].at = "tell"
  BY DEF MeterHolds, StopTells, RegisterAt
<1>. PICK id \in Nat, amount \in Nat : id = registerJob[j].id /\ amount = registerJob[j].amount
  BY <1>0 DEF MeterTypes, Handlers
<1>1. id # NoId /\ meterRow.id = id /\ ~localLoop /\ id \in Told
  BY <1>0 DEF HandlerHeld, RegisterAt, Stage, RowHeld
<1>. PICK value \in Nat : value = Rounded(records + amount)
  <2>1. records + amount \in Nat
    BY <1>0 DEF MeterTypes
  <2>. QED
    BY <2>1, RoundedUp
<1>. DEFINE s == [at |-> "record", id |-> id, amount |-> amount]
<1>2. /\ TellStop(id, value, "station", amount) /\ registerJob' = [registerJob EXCEPT ![j] = s]
      /\ UNCHANGED <<meterClock, records, meterRow, localLoop, memory, remoteSim, registerCommands,
                     clearings, registerRestarts>>
  BY DEF StopTells, RegisterGoes, History
<1>3. s \in Handlers /\ s.at = "record" /\ s.amount = amount
  BY DEF Handlers
<1>4. OneGoes(j) /\ registerJob'[j] = s
  BY <1>0, <1>2, <1>3, HandlerGoes
<1>. HIDE DEF s
<1>5. \A k \in RegisterJobs \ {j} : registerJob[k].at = "idle" /\ registerJob'[k].at = "idle"
  BY <1>0, <1>4, OthersIdle DEF StopStages, OneGoes
<1>6. ASSUME told[id].by = "station"
      PROVE  /\ Newest(id)
             /\ Counted(id) =>
                  /\ told[id].last <= value
                  /\ value - told[id].meterStart <= amount + 1 /\ amount <= (value - told[id].meterStart) + 1
  <2>1. Newest(id)
    BY <1>0, <1>1, <1>6 DEF RowHeld
  <2>2. ASSUME Counted(id) PROVE told[id].last <= value /\ told[id].meterStart = Rounded(records)
    <3>1. CoveredByRow(id)
      BY <1>0, <1>1, <1>6, <2>2 DEF AllCovered, Covered
    <3>2. \A k \in RegisterJobs : ~Stage(k, {"record", "clear"})
      BY <1>0, <1>5 DEF Stage
    <3>. QED
      BY <1>0, <1>1, <3>1, <3>2 DEF CoveredByRow, Stage
  <2>3. value - Rounded(records) <= amount + 1 /\ amount <= (value - Rounded(records)) + 1
    BY <1>0, RoundedAdds DEF MeterTypes
  <2>. QED
    BY <2>1, <2>2, <2>3
<1>7. ErasRest
  BY <1>2 DEF ErasRest
<1>8. /\ Truth' /\ told' \in Seq(Accounts) /\ Written(id)
      /\ told'[id].by = told[id].by /\ told'[id].stoppedBy = told[id].stoppedBy \cup {"station"}
      /\ told'[id].last = value /\ told'[id].meterStart = told[id].meterStart /\ told'[id].era = told[id].era
  BY <1>0, <1>1, <1>2, <1>6, <1>7, TruthStopped
<1>9. /\ Told' = Told
      /\ \A i \in Told : /\ told'[i].by = told[i].by /\ told'[i].meterStart = told[i].meterStart
                         /\ told'[i].era = told[i].era
                         /\ told'[i].stoppedBy \in {told[i].stoppedBy, told[i].stoppedBy \cup {"station"}}
                         /\ i # id => told'[i] = told[i]
  BY <1>8 DEF Written
<1>10. MeterTypes'
  BY <1>0, <1>2, <1>4, <1>8 DEF MeterTypes, OneGoes
<1>11. HandlersApart'
  BY <1>0, <1>3, <1>4, HandlersStayApart DEF Begins, StopStages
<1>12. RowHeld'
  <2>1. Stage(j, {"record", "clear"})'
    BY <1>3, <1>4 DEF Stage
  <2>. QED
    BY <1>0, <1>1, <1>2, <1>9, <2>1 DEF RowHeld, Newest
<1>13. SimHeld'
  BY <1>0, <1>2, <1>9 DEF SimHeld, Of, Newest
<1>14. \A k \in RegisterJobs : HandlerHeld(k)'
  <2>1. HandlerHeld(j)'
    BY <1>1, <1>2, <1>3, <1>4 DEF HandlerHeld, RegisterAt, Stage
  <2>2. \A k \in RegisterJobs \ {j} : HandlerHeld(k)'
    BY <1>5 DEF HandlerHeld, RegisterAt, Stage
  <2>. QED
    BY <2>1, <2>2
<1>15. AllCovered'
  <2>. SUFFICES ASSUME NEW i \in Told, Counted(i)' PROVE Covered(i)'
    BY <1>9 DEF AllCovered
  <2>0. SimReading' = SimReading
    BY <1>2 DEF SimReading
  <2>1. CASE i # id
    <3>1. told'[i] = told[i] /\ Covered(i)
      BY <1>0, <1>2, <1>9, <2>1 DEF AllCovered, Counted, Era
    <3>2. told[i].by = "csms" => CoveredBySim(i)'
      BY <1>2, <2>0, <3>1 DEF Covered, CoveredBySim
    <3>3. ASSUME told[i].by = "station" PROVE CoveredByRow(i)'
      <4>1. told[i].last <= Rounded(records) /\ meterRow'.id # i
        BY <1>1, <1>2, <2>1, <3>1, <3>3 DEF Covered, CoveredByRow
      <4>2. \A k \in RegisterJobs : registerJob'[k].at # "charge"
        BY <1>3, <1>4, <1>5
      <4>. QED
        BY <1>2, <3>1, <4>1, <4>2, RowCoverMoves
    <3>. QED
      BY <3>1, <3>2, <3>3 DEF Covered
  <2>2. CASE i = id
    <3>1. told[id].by \in {"station", "csms"}
      BY <1>0, <1>1, ErasTyped
    <3>2. told[id].by = "station"
      BY <1>8, <2>2, <3>1 DEF Counted
    <3>3. CoveredByRow(id)'
      BY <1>0, <1>1, <1>2, <1>3, <1>4, <1>5, <1>8 DEF CoveredByRow, RegisterAt, Stage
    <3>. QED
      BY <1>8, <2>2, <3>2, <3>3 DEF Covered
  <2>. QED
    BY <2>1, <2>2
<1>. QED
  BY <1>8, <1>10, <1>11, <1>12, <1>13, <1>14, <1>15 DEF MeterHolds

\* The simulation ends: its last reading is told and remembered.
LEMMA RemoteEndsKeeps ==
    ASSUME MeterHolds, NEW j \in RegisterJobs, RemoteEnds(j), ~stopsCrossed'
    PROVE  MeterHolds'
<1>0. /\ MeterTypes /\ RowHeld /\ SimHeld /\ HandlersApart /\ HandlerHeld(j) /\ AllCovered /\ Truth
      /\ registerJob[j].at = "end"
  BY DEF MeterHolds, RemoteEnds, RegisterAt
<1>1. remoteSim # NoSim /\ registerJob[j].id = remoteSim.id
  BY <1>0 DEF HandlerHeld, RegisterAt
<1>. PICK id \in Nat, value \in Nat, e \in Nat :
          id = remoteSim.id /\ value = SimReading /\ e = meterClock - remoteSim.since
  BY <1>0, <1>1, SimReads DEF MeterTypes
<1>2. /\ id \in Told /\ told[id].by = "csms" /\ Newest(id) /\ remoteSim.meterStart = memory /\ memory \in Nat
      /\ told[id].meterStart = memory
      /\ meterRow.status = "Charging" => remoteSim.since <= meterRow.since
  BY <1>0, <1>1 DEF SimHeld, Of, MeterTypes
<1>3. memory <= value /\ e <= value - memory /\ value - memory <= e + 1 /\ Rounded(value) = value
  BY <1>1, SimReads
<1>. PICK amount \in Nat : amount = value - memory
  BY <1>2, <1>3
<1>. DEFINE s == [at |-> "mirror", id |-> NoId, amount |-> amount]
<1>4. /\ TellStop(id, value, "csms", e) /\ registerJob' = [registerJob EXCEPT ![j] = s]
      /\ memory' = value /\ remoteSim' = NoSim
      /\ UNCHANGED <<meterClock, records, meterRow, localLoop, registerCommands, clearings, registerRestarts>>
  BY <1>1, <1>2 DEF RemoteEnds, RegisterGoes, History
<1>5. s \in Handlers /\ s.at = "mirror" /\ s.amount = amount
  BY DEF Handlers, NoId
<1>6. OneGoes(j) /\ registerJob'[j] = s
  BY <1>0, <1>4, <1>5, HandlerGoes
<1>. HIDE DEF s
<1>7. \A k \in RegisterJobs \ {j} : registerJob[k].at = "idle" /\ registerJob'[k].at = "idle"
  BY <1>0, <1>6, OthersIdle DEF StopStages, OneGoes
<1>8. Counted(id) =>
        /\ told[id].last <= value
        /\ value - told[id].meterStart <= e + 1 /\ e <= (value - told[id].meterStart) + 1
  <2>1. Counted(id) => told[id].last <= value
    BY <1>0, <1>2 DEF AllCovered, Covered, CoveredBySim
  <2>. QED
    BY <1>2, <1>3, <2>1
<1>9. ErasRest
  BY <1>4 DEF ErasRest
<1>10. /\ Truth' /\ told' \in Seq(Accounts) /\ Written(id)
       /\ told'[id].by = told[id].by /\ told'[id].stoppedBy = told[id].stoppedBy \cup {"csms"}
       /\ told'[id].last = value /\ told'[id].meterStart = told[id].meterStart /\ told'[id].era = told[id].era
  BY <1>0, <1>2, <1>4, <1>8, <1>9, TruthStopped
<1>11. /\ Told' = Told
       /\ \A i \in Told : /\ told'[i].by = told[i].by /\ told'[i].era = told[i].era
                          /\ i # id => told'[i] = told[i]
  BY <1>10 DEF Written
<1>12. NoSim \in [id : Nat, meterStart : Nat, since : Nat] /\ NoSim.id = NoId /\ NoId \notin Told
  BY <1>0, IdsAreTold DEF NoSim, NoId
<1>13. MeterTypes'
  BY <1>0, <1>4, <1>6, <1>10, <1>12 DEF MeterTypes, OneGoes
<1>14. HandlersApart'
  BY <1>0, <1>5, <1>6, HandlersStayApart DEF Begins, StopStages
<1>15. RowHeld'
  <2>1. \A k \in RegisterJobs : ~Stage(k, {"record", "clear"})
    BY <1>0, <1>7 DEF Stage
  <2>2. \A i \in Told : told[i].by = "station" => told'[i] = told[i]
    BY <1>2, <1>11
  <2>. QED
    BY <1>0, <1>4, <1>11, <2>1, <2>2 DEF RowHeld, Newest, Of
<1>16. SimHeld'
  BY <1>3, <1>4 DEF SimHeld
<1>17. \A k \in RegisterJobs : HandlerHeld(k)'
  <2>1. HandlerHeld(j)'
    BY <1>5, <1>6 DEF HandlerHeld, RegisterAt, Stage
  <2>2. \A k \in RegisterJobs \ {j} : HandlerHeld(k)'
    BY <1>7 DEF HandlerHeld, RegisterAt, Stage
  <2>. QED
    BY <2>1, <2>2
<1>18. AllCovered'
  <2>. SUFFICES ASSUME NEW i \in Told, Counted(i)' PROVE Covered(i)'
    BY <1>11 DEF AllCovered
  <2>1. Counted(i) /\ Covered(i)
    <3>1. told'[i].stoppedBy \in {told[i].stoppedBy, told[i].stoppedBy \cup {"csms"}}
      BY <1>10, <1>11
    <3>. QED
      BY <1>0, <1>4, <1>11, <3>1 DEF AllCovered, Counted, Era
  <2>2. told[i].last \in Nat
    BY <1>0, ErasTyped DEF Accounts
  <2>3. ASSUME told[i].by = "csms" PROVE CoveredBySim(i)'
    <3>1. told'[i].last <= value
      <4>1. CASE i = id
        BY <1>10, <4>1
      <4>2. CASE i # id
        BY <1>2, <1>3, <1>11, <2>1, <2>2, <2>3, <4>2 DEF Covered, CoveredBySim
      <4>. QED
        BY <4>1, <4>2
    <3>. QED
      BY <1>4, <1>12, <3>1 DEF CoveredBySim
  <2>4. ASSUME told[i].by = "station" PROVE CoveredByRow(i)'
    <3>0. told'[i] = told[i] /\ CoveredByRow(i)
      BY <1>2, <1>11, <2>1, <2>4 DEF Covered
    <3>1. CASE meterRow.id # i
      <4>1. told[i].last <= Rounded(records) /\ meterRow'.id # i
        BY <1>4, <3>0, <3>1 DEF CoveredByRow
      <4>2. \A k \in RegisterJobs : registerJob'[k].at # "charge"
        BY <1>5, <1>6, <1>7
      <4>. QED
        BY <1>4, <3>0, <4>1, <4>2, RowCoverMoves
    <3>2. CASE meterRow.id = i
      <4>1. \A k \in RegisterJobs : ~Stage(k, {"mirror", "tell", "record", "clear"}) /\ ~Stage(k, {"record", "clear"})
        BY <1>0, <1>7 DEF Stage
      <4>2. /\ told[i].last <= Rounded(records + (meterClock - meterRow.since))
            /\ told[i].meterStart = Rounded(records)
        BY <3>0, <3>2, <4>1 DEF CoveredByRow
      <4>3. meterRow.status = "Charging" /\ meterRow.since <= meterClock /\ remoteSim.since <= meterRow.since
        BY <1>0, <1>2, <1>12, <3>2 DEF RowHeld
      <4>4. meterClock \in Nat /\ records \in Nat /\ meterRow.since \in Nat /\ remoteSim.since \in Nat
        BY <1>0 DEF MeterTypes, Rows
      <4>. PICK p \in Nat, q \in Nat : p = records + (meterClock - meterRow.since) /\ q = records + amount
        BY <4>3, <4>4
      <4>5. p <= q
        BY <1>2, <1>3, <4>3, <4>4
      <4>6. Rounded(p) \in Nat /\ Rounded(q) \in Nat /\ Rounded(p) <= Rounded(q)
        BY <4>5, RoundedUp, RoundedRises
      <4>7. told[i].last <= Rounded(records + amount)
        BY <2>2, <4>2, <4>6
      <4>. QED
        BY <1>4, <1>5, <1>6, <1>7, <3>0, <3>2, <4>2, <4>7 DEF CoveredByRow, RegisterAt, Stage
    <3>. QED
      BY <3>1, <3>2
  <2>. QED
    BY <1>11, <2>3, <2>4 DEF Covered
<1>. QED
  BY <1>10, <1>13, <1>14, <1>15, <1>16, <1>17, <1>18 DEF MeterHolds

\* The amount carried by the stop goes into the records, and covers what was told.
LEMMA StopRecordsKeeps ==
    ASSUME MeterHolds, NEW j \in RegisterJobs, StopRecords(j), ~stopsCrossed'
    PROVE  MeterHolds'
<1>0. /\ MeterTypes /\ RowHeld /\ SimHeld /\ HandlersApart /\ HandlerHeld(j) /\ AllCovered /\ Truth
      /\ registerJob[j].at = "record"
  BY DEF MeterHolds, StopRecords, RegisterAt
<1>. PICK amount \in Nat : amount = registerJob[j].amount
  BY <1>0 DEF MeterTypes, Handlers
<1>. DEFINE s == [at |-> "clear", id |-> NoId, amount |-> 0]
<1>1. /\ records' = records + amount /\ registerJob' = [registerJob EXCEPT ![j] = s]
      /\ UNCHANGED <<meterClock, meterRow, localLoop, memory, remoteSim, told, registerCommands,
                     clearings, registerRestarts>>
  BY DEF StopRecords, RegisterGoes, History
<1>2. s \in Handlers /\ s.at = "clear"
  BY DEF Handlers, NoId
<1>3. OneGoes(j) /\ registerJob'[j] = s
  BY <1>0, <1>1, <1>2, HandlerGoes
<1>. HIDE DEF s
<1>4. \A k \in RegisterJobs \ {j} : registerJob[k].at = "idle" /\ registerJob'[k].at = "idle"
  BY <1>0, <1>3, OthersIdle DEF StopStages, OneGoes
<1>5. MeterTypes'
  BY <1>0, <1>1, <1>3 DEF MeterTypes, OneGoes
<1>6. HandlersApart'
  BY <1>0, <1>2, <1>3, HandlersStayApart DEF Begins, StopStages
<1>7. RowHeld'
  <2>1. Stage(j, {"record", "clear"})'
    BY <1>2, <1>3 DEF Stage
  <2>. QED
    BY <1>0, <1>1, <2>1 DEF RowHeld, Newest, Of, Told
<1>8. SimHeld'
  BY <1>0, <1>1 DEF SimHeld, Of, Newest, Told
<1>9. \A k \in RegisterJobs : HandlerHeld(k)'
  <2>1. HandlerHeld(j)'
    BY <1>0, <1>1, <1>2, <1>3 DEF HandlerHeld, RegisterAt, Stage
  <2>2. \A k \in RegisterJobs \ {j} : HandlerHeld(k)'
    BY <1>4 DEF HandlerHeld, RegisterAt, Stage
  <2>. QED
    BY <2>1, <2>2
<1>10. Truth'
  BY <1>0, <1>1, TruthRests DEF ErasGrow, MeterTypes
<1>11. AllCovered'
  <2>. SUFFICES ASSUME NEW i \in Told, Counted(i)' PROVE Covered(i)'
    BY <1>1 DEF AllCovered, Told
  <2>1. Counted(i) /\ Covered(i)
    BY <1>0, <1>1 DEF AllCovered, Counted, Era
  <2>2. told[i].last \in Nat
    BY <1>0, ErasTyped DEF Accounts
  <2>3. SimReading' = SimReading
    BY <1>1 DEF SimReading
  <2>4. told[i].by = "csms" => CoveredBySim(i)'
    BY <1>1, <2>1, <2>3 DEF Covered, CoveredBySim
  <2>5. ASSUME told[i].by = "station" PROVE CoveredByRow(i)'
    <3>0. records \in Nat
      BY <1>0 DEF MeterTypes
    <3>. PICK r \in Nat : r = records + amount
      BY <3>0
    <3>1. Rounded(records) \in Nat /\ Rounded(r) \in Nat /\ Rounded(records) <= Rounded(r)
      <4>1. records <= r
        BY <3>0
      <4>2. Rounded(records) \in Nat /\ Rounded(r) \in Nat
        BY <3>0, RoundedUp
      <4>. QED
        BY <3>0, <4>1, <4>2, RoundedRises
    <3>2. CoveredByRow(i)
      BY <2>1, <2>5 DEF Covered
    <3>3. told[i].last <= Rounded(r)
      <4>1. CASE meterRow.id = i
        BY <1>0, <3>2, <4>1 DEF CoveredByRow, Stage
      <4>2. CASE meterRow.id # i
        BY <2>2, <3>1, <3>2, <4>2 DEF CoveredByRow
      <4>. QED
        BY <4>1, <4>2
    <3>. QED
      BY <1>1, <1>2, <1>3, <1>4, <3>3 DEF CoveredByRow, RegisterAt, Stage
  <2>. QED
    BY <1>1, <2>4, <2>5 DEF Covered
<1>. QED
  BY <1>5, <1>6, <1>7, <1>8, <1>9, <1>10, <1>11 DEF MeterHolds

\* Clearing the records begins a register of which nothing was told yet.
LEMMA RecordsClearedKeeps ==
    ASSUME MeterHolds, NEW j \in RegisterJobs, RecordsCleared(j), ~stopsCrossed'
    PROVE  MeterHolds'
<1>0. MeterTypes /\ RowHeld /\ SimHeld /\ HandlersApart /\ AllCovered /\ Truth
  BY DEF MeterHolds
<1>1. /\ records' = 0 /\ clearings' = clearings + 1 /\ registerCommands' = registerCommands + 1
      /\ UNCHANGED <<meterClock, meterRow, localLoop, memory, remoteSim, told, registerJob, registerRestarts>>
  BY DEF RecordsCleared, RegisterCommand
<1>2. MeterTypes'
  BY <1>0, <1>1 DEF MeterTypes
<1>3. HandlersApart'
  BY <1>0, <1>1 DEF HandlersApart
<1>4. RowHeld'
  BY <1>0, <1>1 DEF RowHeld, Newest, Of, Told, Stage
<1>5. SimHeld'
  BY <1>0, <1>1 DEF SimHeld, Of, Newest, Told
<1>6. \A k \in RegisterJobs : HandlerHeld(k)'
  BY <1>1, HandlerRests DEF MeterHolds
<1>7. Truth'
  BY <1>0, <1>1, TruthRests DEF ErasGrow, MeterTypes
<1>8. AllCovered'
  <2>. SUFFICES ASSUME NEW i \in Told, Counted(i)' PROVE Covered(i)'
    BY <1>1 DEF AllCovered, Told
  <2>1. told[i] \in Accounts /\ EraHeld(i)
    BY <1>0, ErasTyped DEF Truth, Eras
  <2>2. told[i].by = "csms"
    <3>1. told[i].by = "station" => told[i].era <= clearings
      BY <1>0, <2>1 DEF EraHeld, Era, Accounts, MeterTypes
    <3>2. told[i].by = "station" => told[i].era = clearings + 1
      BY <1>1 DEF Counted, Era
    <3>. QED
      BY <1>0, <2>1, <3>1, <3>2 DEF Accounts, MeterTypes
  <2>3. Counted(i) /\ Covered(i)
    BY <1>0, <1>1, <2>2 DEF AllCovered, Counted, Era
  <2>4. SimReading' = SimReading
    BY <1>1 DEF SimReading
  <2>. QED
    BY <1>1, <2>2, <2>3, <2>4 DEF Covered, CoveredBySim
<1>. QED
  BY <1>2, <1>3, <1>4, <1>5, <1>6, <1>7, <1>8 DEF MeterHolds

\* A restart forgets the memory and the simulation, and begins the CSMS's register anew.
LEMMA RestartsKeep ==
    ASSUME MeterHolds, RegisterRestarts, ~stopsCrossed'
    PROVE  MeterHolds'
<1>0. MeterTypes /\ RowHeld /\ SimHeld /\ HandlersApart /\ AllCovered /\ Truth
  BY DEF MeterHolds
<1>1. /\ registerRestarts' = registerRestarts + 1 /\ memory' = 0 /\ remoteSim' = NoSim /\ localLoop' = FALSE
      /\ meterRow' = IF meterRow.status = "Preparing" THEN IdleRow ELSE meterRow
      /\ registerJob' = [j \in RegisterJobs |-> NoRegisterJob]
      /\ UNCHANGED <<meterClock, records, told, registerCommands, clearings>>
  BY DEF RegisterRestarts
<1>2. \A k \in RegisterJobs : registerJob[k].at \notin StopStages
  BY NoneMeetsStop DEF RegisterRestarts
<1>3. NoRegisterJob \in Handlers /\ NoRegisterJob.at = "idle"
  BY DEF NoRegisterJob, Handlers, NoId
<1>4. \A k \in RegisterJobs : registerJob'[k].at = "idle"
  BY <1>1, <1>3
<1>5. NoSim \in [id : Nat, meterStart : Nat, since : Nat] /\ NoSim.id = NoId /\ NoId \notin Told
  BY <1>0, IdsAreTold DEF NoSim, NoId
<1>6. MeterTypes'
  <2>1. registerJob' \in [RegisterJobs -> Handlers]
    BY <1>1, <1>3
  <2>2. IdleRow \in Rows
    BY DEF IdleRow, Rows, NoId
  <2>3. meterRow' \in Rows
    BY <1>0, <1>1, <2>2 DEF MeterTypes
  <2>4. registerRestarts' \in Nat /\ memory' \in Nat
    BY <1>0, <1>1 DEF MeterTypes
  <2>6. localLoop' \in BOOLEAN
    BY <1>1
  <2>5. remoteSim' \in [id : Nat, meterStart : Nat, since : Nat]
    BY <1>1, <1>5
  <2>. QED
    BY <1>0, <1>1, <2>1, <2>3, <2>4, <2>5, <2>6 DEF MeterTypes
<1>7. HandlersApart'
  BY <1>4 DEF HandlersApart, StopStages, Begins
<1>8. RowHeld'
  <2>1. \A k \in RegisterJobs : ~Stage(k, {"record", "clear"})
    BY <1>2 DEF Stage, StopStages
  <2>2. CASE meterRow.status = "Preparing"
    BY <1>1, <2>2, RowStates DEF RowHeld
  <2>3. CASE meterRow.status # "Preparing"
    BY <1>0, <1>1, <2>1, <2>3 DEF RowHeld, Newest, Of, Told
  <2>. QED
    BY <2>2, <2>3
<1>9. SimHeld'
  BY <1>1 DEF SimHeld, Rounded
<1>10. \A k \in RegisterJobs : HandlerHeld(k)'
  BY <1>4 DEF HandlerHeld, RegisterAt, Stage
<1>11. Truth'
  BY <1>0, <1>1, TruthRests DEF ErasGrow, MeterTypes
<1>12. AllCovered'
  <2>. SUFFICES ASSUME NEW i \in Told, Counted(i)' PROVE Covered(i)'
    BY <1>1 DEF AllCovered, Told
  <2>1. told[i] \in Accounts /\ EraHeld(i)
    BY <1>0, ErasTyped DEF Truth, Eras
  <2>2. told[i].by = "station"
    <3>1. told[i].by = "csms" => told[i].era <= registerRestarts
      BY <1>0, <2>1 DEF EraHeld, Era, Accounts, MeterTypes
    <3>2. told[i].by = "csms" => told[i].era = registerRestarts + 1
      BY <1>1 DEF Counted, Era
    <3>. QED
      BY <1>0, <2>1, <3>1, <3>2 DEF Accounts, MeterTypes
  <2>3. CoveredByRow(i)
    BY <1>0, <1>1, <2>2 DEF AllCovered, Covered, Counted, Era
  <2>4. CASE meterRow.id = i
    <3>1. meterRow' = meterRow
      BY <1>0, <1>1, <1>5, <2>4 DEF RowHeld
    <3>2. \A k \in RegisterJobs : ~Stage(k, {"mirror", "tell", "record", "clear"}) /\ ~Stage(k, {"record", "clear"})
      BY <1>2 DEF Stage, StopStages
    <3>3. CoveredByRow(i)'
      BY <1>1, <1>4, <2>3, <2>4, <3>1, <3>2 DEF CoveredByRow, RegisterAt, Stage
    <3>. QED
      BY <1>1, <2>2, <3>3 DEF Covered
  <2>5. CASE meterRow.id # i
    <3>1. told[i].last <= Rounded(records) /\ meterRow'.id # i
      BY <1>1, <1>5, <2>3, <2>5, RowStates DEF CoveredByRow
    <3>2. CoveredByRow(i)'
      BY <1>1, <1>4, <3>1, RowCoverMoves
    <3>. QED
      BY <1>1, <2>2, <3>2 DEF Covered
  <2>. QED
    BY <2>4, <2>5
<1>. QED
  BY <1>6, <1>7, <1>8, <1>9, <1>10, <1>11, <1>12 DEF MeterHolds

\* The station's transaction is begun with the records, or goes on unheard.
LEMMA StationReportsKeeps ==
    ASSUME MeterHolds, NEW j \in RegisterJobs, StationReports(j), ~stopsCrossed'
    PROVE  MeterHolds'
<1>0. /\ MeterTypes /\ RowHeld /\ SimHeld /\ HandlersApart /\ HandlerHeld(j) /\ AllCovered /\ Truth
      /\ registerJob[j].at = "report"
  BY DEF MeterHolds, StationReports, RegisterAt
<1>. PICK amount \in Nat : amount = registerJob[j].amount
  BY <1>0 DEF MeterTypes, Handlers
<1>1. UNCHANGED <<meterClock, records, meterRow, localLoop, memory, remoteSim, registerCommands,
                  clearings, registerRestarts>>
  BY DEF StationReports, History
<1>2. meterRow = [IdleRow EXCEPT !.status = "Preparing", !.since = amount]
  BY <1>0 DEF HandlerHeld
<1>3. meterRow.id = NoId /\ NoId \notin Told /\ ~localLoop /\ meterRow.status = "Preparing"
  BY <1>0, <1>2, IdsAreTold DEF IdleRow, RowHeld, Of
<1>4. \A k \in RegisterJobs : registerJob[k].at \notin StopStages
  BY <1>0, NoneStops DEF StopStages
<1>5. \A k \in RegisterJobs \ {j} : registerJob[k].at \notin Begins
  BY <1>0 DEF HandlersApart, Begins
<1>6. RowHeld'
  BY <1>1, <1>3 DEF RowHeld
<1>7. ASSUME NEW n \in Nat, registerJob' = [registerJob EXCEPT ![j] = [at |-> "charge", id |-> n, amount |-> amount]]
      PROVE  /\ OneGoes(j) /\ registerJob'[j].at = "charge" /\ registerJob'[j].id = n
             /\ registerJob'[j].amount = amount /\ HandlersApart'
  <2>. DEFINE s == [at |-> "charge", id |-> n, amount |-> amount]
  <2>1. s \in Handlers /\ s.at = "charge" /\ s.id = n /\ s.amount = amount
    BY DEF Handlers, Begins
  <2>. HIDE DEF s
  <2>2. OneGoes(j) /\ registerJob'[j] = s
    BY <1>0, <1>7, <2>1, HandlerGoes DEF s
  <2>3. HandlersApart'
    BY <1>0, <2>1, <2>2, HandlersStayApart DEF Begins, StopStages
  <2>. QED
    BY <2>1, <2>2, <2>3
<1>8. CASE RegisterGoes(j, "charge", NoId, amount) /\ UNCHANGED told
  <2>1. /\ OneGoes(j) /\ registerJob'[j].at = "charge" /\ registerJob'[j].id = NoId
        /\ registerJob'[j].amount = amount /\ HandlersApart'
    BY <1>7, <1>8 DEF RegisterGoes, NoId
  <2>2. HandlerHeld(j)'
    BY <1>1, <1>2, <2>1 DEF HandlerHeld, RegisterAt, Stage
  <2>3. \A i \in Told : told[i].by = "station" /\ Counted(i) => CoveredByRow(i)'
    BY <1>0, <1>1, <1>3, <1>8, <2>1, RowCoverKept DEF AllCovered, Covered
  <2>4. registerCommands' \in Nat /\ meterRow' \in Rows /\ localLoop' \in BOOLEAN
    BY <1>0, <1>1 DEF MeterTypes
  <2>. QED
    BY <1>1, <1>3, <1>6, <1>8, <2>1, <2>2, <2>3, <2>4, HushedKeeps DEF Hushed
<1>9. CASE /\ told' = Append(told, Start("station", Era("station"), Rounded(records)))
           /\ RegisterGoes(j, "charge", Len(told) + 1, amount)
  <2>0. Len(told) \in Nat /\ records \in Nat
    BY <1>0 DEF MeterTypes
  <2>. PICK n \in Nat, value \in Nat : n = Len(told) + 1 /\ value = Rounded(records)
    BY <2>0, RoundedUp
  <2>1. /\ OneGoes(j) /\ registerJob'[j].at = "charge" /\ registerJob'[j].id = n
        /\ registerJob'[j].amount = amount /\ HandlersApart'
    BY <1>7, <1>9 DEF RegisterGoes
  <2>2. ErasRest
    BY <1>1 DEF ErasRest
  <2>3. \A i \in Told : told[i].by = "station" /\ Counted(i) => told[i].last <= value
    BY <1>0, <1>3 DEF AllCovered, Covered, CoveredByRow
  <2>4. /\ Truth' /\ told' \in Seq(Accounts) /\ Begun("station")
        /\ told'[n] = Start("station", Era("station"), value)
    BY <1>0, <1>9, <2>2, <2>3, TruthBegun
  <2>5. /\ Told' = Told \cup {n} /\ n \notin Told /\ \A i \in Told : i < n /\ told'[i] = told[i]
    BY <2>4 DEF Begun
  <2>6. /\ told'[n].by = "station" /\ told'[n].last = value /\ told'[n].meterStart = value
        /\ told'[n].stoppedBy = {}
    BY <2>4 DEF Start
  <2>7. MeterTypes'
    BY <1>0, <1>1, <2>1, <2>4 DEF MeterTypes, OneGoes
  <2>8. SimHeld'
    BY <1>0, <1>1, <2>5, <2>6 DEF SimHeld, Of, Newest
  <2>9. HandlerHeld(j)'
    <3>0. \A i \in Told : i \in Nat
      BY <1>0 DEF MeterTypes, Told
    <3>1. \A later \in Told' : ~(n < later)
      BY <2>5, <3>0
    <3>2. Of(n, "station")' /\ Newest(n)'
      BY <2>5, <2>6, <3>1 DEF Of, Newest
    <3>. QED
      BY <1>1, <1>2, <2>1, <2>6, <3>2 DEF HandlerHeld, RegisterAt, Stage
  <2>10. ASSUME NEW k \in RegisterJobs \ {j} PROVE HandlerHeld(k)'
    <3>1. HandlerHeld(k) /\ registerJob'[k] = registerJob[k] /\ registerJob[k].at \notin Begins \cup StopStages
      BY <1>4, <1>5, <2>1 DEF MeterHolds, OneGoes
    <3>. QED
      BY <1>1, <2>5, <3>1 DEF HandlerHeld, RegisterAt, Stage, Begins, StopStages, Of
  <2>11. AllCovered'
    <3>. SUFFICES ASSUME NEW i \in Told', Counted(i)' PROVE Covered(i)'
      BY DEF AllCovered
    <3>1. CASE i = n
      <4>1. \A k \in RegisterJobs : registerJob'[k].at = "charge" => k = j
        BY <1>5, <2>1 DEF OneGoes, Begins
      <4>2. n # NoId /\ meterRow'.id = NoId /\ value <= Rounded(records)
        BY <1>1, <1>3, <2>0 DEF NoId
      <4>3. CoveredByRow(n)'
        BY <1>1, <2>6, <4>2 DEF CoveredByRow
      <4>. QED
        BY <2>6, <3>1, <4>3 DEF Covered
    <3>2. CASE i \in Told
      <4>1. told'[i] = told[i] /\ Counted(i) /\ Covered(i)
        BY <1>0, <1>1, <2>5, <3>2 DEF AllCovered, Counted, Era
      <4>2. SimReading' = SimReading
        BY <1>1 DEF SimReading
      <4>3. told[i].by = "csms" => CoveredBySim(i)'
        BY <1>1, <4>1, <4>2 DEF Covered, CoveredBySim
      <4>4. told[i].by = "station" => CoveredByRow(i)'
        BY <1>0, <1>1, <2>1, <2>5, <3>2, <4>1, RowCoverKept DEF Covered
      <4>. QED
        BY <4>1, <4>3, <4>4 DEF Covered
    <3>. QED
      BY <2>5, <3>1, <3>2
  <2>. QED
    BY <1>6, <2>1, <2>4, <2>7, <2>8, <2>9, <2>10, <2>11 DEF MeterHolds
<1>. QED
  BY <1>8, <1>9 DEF StationReports

\* The CSMS's transaction is begun with the memory, on a free row.
LEMMA RemoteStartsKeeps ==
    ASSUME MeterHolds, NEW j \in RegisterJobs, RemoteStarts(j), ~stopsCrossed'
    PROVE  MeterHolds'
<1>0. MeterTypes /\ RowHeld /\ SimHeld /\ HandlersApart /\ AllCovered /\ Truth
  BY DEF MeterHolds
<1>. PICK n \in Nat : n = Len(told) + 1
  BY <1>0 DEF MeterTypes
<1>1. Rounded(memory) = memory /\ memory \in Nat
  BY <1>0 DEF SimHeld, MeterTypes
<1>. DEFINE s == [at |-> "answer", id |-> n, amount |-> memory]
            row == [IdleRow EXCEPT !.status = "Preparing", !.remote = TRUE]
<1>2. /\ meterRow = IdleRow /\ remoteSim = NoSim /\ meterRow' = row
      /\ told' = Append(told, Start("csms", Era("csms"), memory))
      /\ registerJob' = [registerJob EXCEPT ![j] = s] /\ registerCommands' = registerCommands + 1
      /\ UNCHANGED <<meterClock, records, localLoop, memory, remoteSim, clearings, registerRestarts>>
  BY <1>1 DEF RemoteStarts, RegisterGoes, RegisterCommand, History
<1>3. s \in Handlers /\ s.at = "answer" /\ s.id = n /\ s.amount = memory
  BY <1>1 DEF Handlers, Begins
<1>4. row \in Rows /\ row.status = "Preparing" /\ row.id = NoId
  BY DEF Rows, IdleRow, NoId
<1>5. OneGoes(j) /\ registerJob'[j] = s
  BY <1>0, <1>2, <1>3, HandlerGoes
<1>6. \A k \in RegisterJobs : registerJob[k].at = "idle"
  <2>1. \A k \in RegisterJobs : registerJob[k].at \notin StopStages
    BY NoneMeetsStop DEF RemoteStarts
  <2>2. \A k \in RegisterJobs : registerJob[k].at \notin Begins \cup {"tick", "tell"}
    BY <1>2, FreeRow
  <2>. QED
    BY <1>0, <2>1, <2>2 DEF MeterTypes, Handlers, StopStages
<1>7. NoId \notin Told /\ ~localLoop
  BY <1>0, <1>2, IdsAreTold, FreeRow
<1>8. ErasRest
  BY <1>2 DEF ErasRest
<1>9. NoSim.id = NoId
  BY DEF NoSim
<1>10. \A i \in Told : told[i].by = "csms" /\ Counted(i) => told[i].last <= memory
  BY <1>0, <1>2, <1>7, <1>9 DEF AllCovered, Covered, CoveredBySim
<1>11. /\ Truth' /\ told' \in Seq(Accounts) /\ Begun("csms") /\ told'[n] = Start("csms", Era("csms"), memory)
  BY <1>0, <1>1, <1>2, <1>8, <1>10, TruthBegun
<1>12. /\ Told' = Told \cup {n} /\ n \notin Told /\ \A i \in Told : i < n /\ told'[i] = told[i]
  BY <1>11 DEF Begun
<1>13. /\ told'[n].by = "csms" /\ told'[n].last = memory /\ told'[n].meterStart = memory
       /\ told'[n].stoppedBy = {}
  BY <1>11 DEF Start
<1>14. MeterTypes'
  <2>1. registerJob' \in [RegisterJobs -> Handlers]
    BY <1>5 DEF OneGoes
  <2>2. meterRow' \in Rows
    BY <1>2, <1>4
  <2>. HIDE DEF s, row
  <2>. QED
    BY <1>0, <1>2, <1>11, <2>1, <2>2 DEF MeterTypes
<1>15. HandlerHeld(j)'
  <2>0. \A i \in Told : i \in Nat
    BY <1>0 DEF MeterTypes, Told
  <2>1. \A later \in Told' : ~(n < later)
    BY <1>12, <2>0
  <2>2. Of(n, "csms")' /\ Newest(n)'
    BY <1>12, <1>13, <2>1 DEF Of, Newest
  <2>. QED
    BY <1>2, <1>3, <1>5, <1>13, <2>2 DEF HandlerHeld, RegisterAt, Stage
<1>. HIDE DEF s, row
<1>16. \A k \in RegisterJobs \ {j} : registerJob'[k].at = "idle"
  BY <1>5, <1>6 DEF OneGoes
<1>17. HandlersApart'
  BY <1>0, <1>3, <1>5, <1>6, HandlersStayApart DEF StopStages, Begins
<1>18. RowHeld'
  BY <1>2, <1>4, <1>7 DEF RowHeld
<1>19. SimHeld'
  BY <1>0, <1>2 DEF SimHeld
<1>20. \A k \in RegisterJobs : HandlerHeld(k)'
  BY <1>15, <1>16 DEF HandlerHeld, RegisterAt, Stage
<1>21. AllCovered'
  <2>. SUFFICES ASSUME NEW i \in Told', Counted(i)' PROVE Covered(i)'
    BY DEF AllCovered
  <2>1. i # NoId
    BY <1>7, <1>12 DEF NoId
  <2>2. CASE i = n
    <3>1. CoveredBySim(n)'
      BY <1>1, <1>2, <1>9, <1>13, <2>1, <2>2 DEF CoveredBySim
    <3>. QED
      BY <1>13, <2>2, <3>1 DEF Covered
  <2>3. CASE i \in Told
    <3>1. told'[i] = told[i] /\ Counted(i) /\ Covered(i)
      BY <1>0, <1>2, <1>12, <2>3 DEF AllCovered, Counted, Era
    <3>2. told[i].by = "csms" => CoveredBySim(i)'
      BY <1>2, <1>9, <1>10, <2>1, <2>3, <3>1 DEF CoveredBySim
    <3>3. ASSUME told[i].by = "station" PROVE CoveredByRow(i)'
      <4>1. told[i].last <= Rounded(records) /\ meterRow'.id # i
        BY <1>2, <1>4, <2>1, <3>1, <3>3, RowStates DEF Covered, CoveredByRow
      <4>2. \A k \in RegisterJobs : registerJob'[k].at # "charge"
        BY <1>3, <1>5, <1>16
      <4>. QED
        BY <1>2, <2>3, <3>1, <4>1, <4>2, RowCoverMoves
    <3>. QED
      BY <3>1, <3>2, <3>3 DEF Covered
  <2>. QED
    BY <1>12, <2>2, <2>3
<1>. QED
  BY <1>11, <1>14, <1>17, <1>18, <1>19, <1>20, <1>21 DEF MeterHolds

-----------------------------------------------------------------------------
\* With nothing told and every register at zero, the invariant holds.
LEMMA MeterStarts == RegisterInit => MeterInv
<1>. SUFFICES ASSUME RegisterInit PROVE MeterHolds
  BY DEF MeterInv
<1>. USE DEF RegisterInit
<1>1. NoRegisterJob \in Handlers /\ NoRegisterJob.at = "idle"
  BY DEF NoRegisterJob, Handlers, NoId
<1>2. Told = {} /\ told \in Seq(Accounts)
  BY DEF Told
<1>3. NoSim \in [id : Nat, meterStart : Nat, since : Nat]
  BY DEF NoSim, NoId
<1>4. MeterTypes
  BY <1>1, <1>2, <1>3, RowStates DEF MeterTypes
<1>5. HandlersApart
  BY <1>1 DEF HandlersApart, StopStages, Begins
<1>6. RowHeld
  BY RowStates DEF RowHeld
<1>7. SimHeld
  BY DEF SimHeld, Rounded
<1>8. \A j \in RegisterJobs : HandlerHeld(j)
  BY <1>1, IdleHeld
<1>9. AllCovered /\ Truth
  BY <1>2 DEF AllCovered, Truth, Eras, BillsTheSession, ReadingsRise, RegisterContinues
<1>. QED
  BY <1>4, <1>5, <1>6, <1>7, <1>8, <1>9 DEF MeterHolds

\* Every step that crosses no stop keeps the invariant.
LEMMA MeterSteps == MeterInv /\ [RegisterNext]_registerVars => MeterInv'
<1>. SUFFICES ASSUME MeterInv, [RegisterNext]_registerVars, ~stopsCrossed' PROVE MeterHolds'
  BY DEF MeterInv
<1>1. ~stopsCrossed
  BY DEF RegisterNext, registerVars, MeterRuns, RemoteTick, RegisterRestarts, StationStarts, StationReports,
         StationCharges, TickReads, TickSends, StopReads, StopTells, StopRecords, StopClears, RemoteStarts,
         RemoteAnswered, RemoteAdopts, RemoteStopAccepted, RemoteEnds, StopMirrors, RecordsCleared,
         MeetsStop, StopCrosses
<1>2. MeterHolds
  BY <1>1 DEF MeterInv
<1>3. ASSUME NEW j \in RegisterJobs,
             \/ StationStarts(j) \/ StationReports(j) \/ StationCharges(j) \/ TickReads(j) \/ TickSends(j)
             \/ StopReads(j) \/ StopTells(j) \/ StopRecords(j) \/ StopClears(j)
             \/ RemoteStarts(j) \/ RemoteAnswered(j) \/ RemoteAdopts(j)
             \/ RemoteStopAccepted(j) \/ RemoteEnds(j) \/ StopMirrors(j) \/ RecordsCleared(j)
      PROVE  MeterHolds'
  BY <1>2, <1>3, StationStartsKeeps, StationReportsKeeps, StationChargesKeeps, TickReadsKeeps, TickSendsKeeps,
     StopReadsKeeps, StopTellsKeeps, StopRecordsKeeps, StopClearsKeeps, RemoteStartsKeeps, RemoteAnsweredKeeps,
     RemoteAdoptsKeeps, RemoteStopAcceptedKeeps, RemoteEndsKeeps, StopMirrorsKeeps, RecordsClearedKeeps
<1>4. CASE MeterRuns \/ RemoteTick \/ RegisterRestarts
  BY <1>2, <1>4, RunsKeeps, RemoteTickKeeps, RestartsKeep
<1>5. CASE UNCHANGED registerVars
  <2>1. UNCHANGED <<meterClock, records, meterRow, localLoop, memory, remoteSim, told, registerJob,
                    registerCommands, clearings, registerRestarts>>
    BY <1>5 DEF registerVars
  <2>2. MeterTypes' /\ HandlersApart' /\ RowHeld' /\ SimHeld'
    BY <1>2, <2>1 DEF MeterHolds, MeterTypes, HandlersApart, RowHeld, SimHeld, Newest, Of, Told, Stage
  <2>3. \A j \in RegisterJobs : HandlerHeld(j)'
    BY <1>2, <2>1, HandlerRests DEF MeterHolds
  <2>4. Truth'
    BY <1>2, <2>1, TruthRests DEF MeterHolds, ErasGrow, MeterTypes
  <2>5. \A id \in Told : (Counted(id)' => Counted(id)) /\ (Covered(id) => Covered(id)')
    BY <2>1 DEF Counted, Era, Covered, CoveredBySim, CoveredByRow, SimReading, RegisterAt, Stage
  <2>6. AllCovered'
    BY <1>2, <2>1, <2>5 DEF MeterHolds, AllCovered, Told
  <2>. QED
    BY <2>2, <2>3, <2>4, <2>6 DEF MeterHolds
<1>. QED
  BY <1>3, <1>4, <1>5 DEF RegisterNext

\* However the station and the CSMS take turns with a connector, a transaction stopped by the side
\* that began it is billed its own energy, its readings never fall, and its side's next one goes on
\* from there; as long as no stop meets another handler.
THEOREM MeterTrue == RegisterSpec => []MeterIsTrue
<1>1. MeterInv => MeterIsTrue
  BY DEF MeterInv, MeterHolds, Truth, MeterIsTrue
<1>. QED
  BY <1>1, MeterStarts, MeterSteps, PTL DEF RegisterSpec

-----------------------------------------------------------------------------
(* Induction on the set of the numbers that have a property *)

\* A non-empty set of numbers has a least one.
LEMMA LeastNumber ==
    ASSUME NEW T, T \subseteq Nat, T # {}
    PROVE  \E x \in T : \A y \in T : x <= y
<1> DEFINE Below == {ss \in Nat \X Nat : ss[1] < ss[2]}
<1>1. IsWellFoundedOn(Below, Nat)
  BY NatLessThanWellFounded DEF OpToRel
<1>2. \E x \in T : \A y \in T : <<y, x>> \notin Below
  BY <1>1, WFMin
<1>3. \A x, y \in T : y < x => <<y, x>> \in Below
  OBVIOUS
<1> HIDE DEF Below
<1>4. PICK x \in T : \A y \in T : <<y, x>> \notin Below
  BY <1>2
<1>5. ASSUME NEW y \in T PROVE x <= y
  <2>1. x \in Nat /\ y \in Nat /\ ~(y < x)
    BY <1>3, <1>4
  <2> QED BY <2>1
<1> QED BY <1>5

\* Induction, for the set of the numbers that have a property.
LEMMA Induction ==
    ASSUME NEW S, 0 \in S, \A m \in Nat : m \in S => m + 1 \in S
    PROVE  Nat \subseteq S
<1>1. SUFFICES ASSUME Nat \ S # {} PROVE FALSE
  OBVIOUS
<1>2. PICK x \in Nat \ S : \A y \in Nat \ S : x <= y
  BY <1>1, LeastNumber
<1>3. x - 1 \in Nat /\ x - 1 \in S
  BY <1>2
<1> QED BY <1>2, <1>3

-----------------------------------------------------------------------------
(* The energy of a transaction *)

\* The periods of a schedule begin at the start, in order.
IsSchedule(s) ==
    /\ Len(s) \in Nat /\ Len(s) >= 1 /\ s # <<>> /\ DOMAIN s = 1..Len(s)
    /\ \A i \in 1..Len(s) : s[i].startPeriod \in Nat /\ s[i].limit \in Int
    /\ s[1].startPeriod = 0
    /\ \A i, j \in 1..Len(s) : i <= j => s[i].startPeriod <= s[j].startPeriod

\* The loop turns as it is defined to.
LEMMA LoopTurns ==
    ASSUME NEW s, Len(s) \in Nat, NEW sec
    PROVE  EnergyLoop(s, sec) =
             [i \in 1..Len(s) + 1 |->
                 IF i = 1 THEN [covered |-> 0, energy |-> 0]
                 ELSE AddPeriod(s, sec, i - 1, EnergyLoop(s, sec)[i - 1])]
<1> DEFINE Turns(g, m) ==
             g = [i \in 1..m |-> IF i = 1 THEN [covered |-> 0, energy |-> 0]
                                 ELSE AddPeriod(s, sec, i - 1, g[i - 1])]
           S == {m \in Nat : \E g : Turns(g, m)}
<1>1. 0 \in S
  <2>1. Turns(<<>>, 0)
    OBVIOUS
  <2> QED BY <2>1
<1>2. ASSUME NEW m \in Nat, m \in S PROVE m + 1 \in S
  <2>1. PICK g : Turns(g, m)
    BY <1>2
  <2> DEFINE h == [i \in 1..m + 1 |-> IF i <= m THEN g[i]
                                      ELSE IF i = 1 THEN [covered |-> 0, energy |-> 0]
                                      ELSE AddPeriod(s, sec, i - 1, g[i - 1])]
  <2>2. ASSUME NEW i \in 1..m + 1
        PROVE  h[i] = IF i = 1 THEN [covered |-> 0, energy |-> 0]
                      ELSE AddPeriod(s, sec, i - 1, h[i - 1])
    <3>1. i = 1 \/ (i - 1 \in 1..m /\ h[i - 1] = g[i - 1])
      OBVIOUS
    <3>2. i <= m => g[i] = IF i = 1 THEN [covered |-> 0, energy |-> 0]
                           ELSE AddPeriod(s, sec, i - 1, g[i - 1])
      BY <2>1
    <3> HIDE DEF h
    <3>3. h[i] = IF i <= m THEN g[i]
                 ELSE IF i = 1 THEN [covered |-> 0, energy |-> 0]
                 ELSE AddPeriod(s, sec, i - 1, g[i - 1])
      BY DEF h
    <3> QED BY <3>1, <3>2, <3>3
  <2>3. Turns(h, m + 1)
    BY <2>2
  <2> HIDE DEF h, Turns
  <2> QED BY <2>3
<1>3. Len(s) + 1 \in S
  <2> HIDE DEF S
  <2> QED BY <1>1, <1>2, Induction
<1>4. PICK g : Turns(g, Len(s) + 1)
  BY <1>3
<1> QED BY <1>4 DEF EnergyLoop

\* What the loop has covered before period i, at the second sec.
Bound(s, i, sec) ==
    IF i <= Len(s) /\ s[i].startPeriod < sec THEN s[i].startPeriod ELSE sec

\* The rate of period i.
RateOf(s, i) == IF Rate <= s[i].limit THEN Rate ELSE s[i].limit

\* One turn of the loop covers its period, and adds its energy.
LEMMA TurnCovers ==
    ASSUME NEW s, IsSchedule(s), NEW sec \in Nat, NEW i \in 1..Len(s), NEW before,
           before.covered = Bound(s, i, sec), before.energy \in Int
    PROVE  /\ AddPeriod(s, sec, i, before).covered = Bound(s, i + 1, sec)
           /\ AddPeriod(s, sec, i, before).energy =
                  before.energy + RateOf(s, i) * (Bound(s, i + 1, sec) - Bound(s, i, sec))
           /\ AddPeriod(s, sec, i, before).energy \in Int
<1>1. Rate \in Nat /\ Len(s) \in Nat /\ s[i].startPeriod \in Nat /\ s[i].limit \in Int
  BY ProfileAssumption DEF IsSchedule
<1>2. i < Len(s) => s[i + 1].startPeriod \in Nat /\ s[i].startPeriod <= s[i + 1].startPeriod
  BY <1>1 DEF IsSchedule
<1>3. RateOf(s, i) \in Int
  BY <1>1 DEF RateOf
<1>4. Bound(s, i, sec) \in Int /\ Bound(s, i + 1, sec) \in Int
  BY <1>1, <1>2 DEF Bound
<1>5. Bound(s, i, sec) <= Bound(s, i + 1, sec)
  BY <1>1, <1>2 DEF Bound
<1>6. CASE Bound(s, i, sec) >= sec
  <2>1. Bound(s, i + 1, sec) = Bound(s, i, sec)
    BY <1>1, <1>2, <1>6 DEF Bound
  <2>2. AddPeriod(s, sec, i, before) = before
    BY <1>6 DEF AddPeriod
  <2>3. RateOf(s, i) * (Bound(s, i, sec) - Bound(s, i, sec)) = 0
    BY <1>3, <1>4
  <2> QED BY <2>1, <2>2, <2>3
<1>7. CASE ~(Bound(s, i, sec) >= sec)
  <2> DEFINE more == Bound(s, i + 1, sec) - Bound(s, i, sec)
  <2>1. AddPeriod(s, sec, i, before) =
          [covered |-> Bound(s, i + 1, sec),
           energy |-> before.energy + RateOf(s, i) *
               (IF Bound(s, i + 1, sec) > before.covered
                THEN Bound(s, i + 1, sec) - before.covered ELSE 0)]
    <3>1. Bound(s, i + 1, sec) = IF i < Len(s) /\ s[i + 1].startPeriod < sec
                                 THEN s[i + 1].startPeriod ELSE sec
      BY <1>1 DEF Bound
    <3> QED BY <1>7, <3>1 DEF AddPeriod, RateOf
  <2>2. (IF Bound(s, i + 1, sec) > before.covered
         THEN Bound(s, i + 1, sec) - before.covered ELSE 0) = more
    BY <1>4, <1>5
  <2>3. AddPeriod(s, sec, i, before) =
          [covered |-> Bound(s, i + 1, sec), energy |-> before.energy + RateOf(s, i) * more]
    BY <2>1, <2>2
  <2>4. RateOf(s, i) * more \in Int
    BY <1>3, <1>4
  <2> QED BY <2>3, <2>4
<1> QED BY <1>6, <1>7

\* So the loop covers period after period.
LEMMA LoopCovers ==
    ASSUME NEW s, IsSchedule(s), NEW sec \in Nat
    PROVE  \A i \in 1..Len(s) + 1 :
             /\ EnergyLoop(s, sec)[i].covered = Bound(s, i, sec)
             /\ EnergyLoop(s, sec)[i].energy \in Int
<1> DEFINE Covers(i) == /\ EnergyLoop(s, sec)[i].covered = Bound(s, i, sec)
                        /\ EnergyLoop(s, sec)[i].energy \in Int
           S == {m \in Nat : m + 1 \in 1..Len(s) + 1 => Covers(m + 1)}
<1>0. Len(s) \in Nat /\ Len(s) >= 1
  BY DEF IsSchedule
<1>1. 0 \in S
  <2>1. EnergyLoop(s, sec)[1] = [covered |-> 0, energy |-> 0]
    BY <1>0, LoopTurns
  <2>2. Bound(s, 1, sec) = 0
    BY <1>0 DEF Bound, IsSchedule
  <2> QED BY <2>1, <2>2
<1>2. ASSUME NEW m \in Nat, m \in S PROVE m + 1 \in S
  <2>1. SUFFICES ASSUME m + 2 \in 1..Len(s) + 1 PROVE Covers(m + 2)
    OBVIOUS
  <2>2. m + 1 \in 1..Len(s) /\ Covers(m + 1)
    BY <1>0, <1>2, <2>1
  <2>3. EnergyLoop(s, sec)[m + 2] = AddPeriod(s, sec, m + 1, EnergyLoop(s, sec)[m + 1])
    BY <1>0, <2>1, LoopTurns
  <2>4. Bound(s, (m + 1) + 1, sec) = Bound(s, m + 2, sec)
    OBVIOUS
  <2> QED BY <2>2, <2>3, <2>4, TurnCovers
<1>3. Nat \subseteq S
  <2> HIDE DEF S
  <2> QED BY <1>1, <1>2, Induction
<1>4. ASSUME NEW i \in 1..Len(s) + 1 PROVE Covers(i)
  <2>1. PICK m \in Nat : i = m + 1
    BY <1>0
  <2>2. m \in S
    BY <1>3
  <2> QED BY <2>1, <2>2
<1> QED BY <1>4

\* The energy grows by the energy of each period.
LEMMA LoopAdds ==
    ASSUME NEW s, IsSchedule(s), NEW sec \in Nat, NEW i \in 1..Len(s)
    PROVE  EnergyLoop(s, sec)[i + 1].energy =
               EnergyLoop(s, sec)[i].energy
                 + RateOf(s, i) * (Bound(s, i + 1, sec) - Bound(s, i, sec))
<1>1. Len(s) \in Nat /\ i \in 1..Len(s) + 1 /\ i + 1 \in 1..Len(s) + 1
  BY DEF IsSchedule
<1>2. EnergyLoop(s, sec)[i + 1] = AddPeriod(s, sec, i, EnergyLoop(s, sec)[i])
  BY <1>1, LoopTurns
<1> QED BY <1>1, <1>2, LoopCovers, TurnCovers

\* The period under way at the second sec.
IsActive(s, a, sec) ==
    /\ a \in 1..Len(s)
    /\ \A i \in 1..Len(s) : i <= a <=> s[i].startPeriod <= sec

\* There is one, and the station offers its rate.
LEMMA OneIsActive ==
    ASSUME NEW s, IsSchedule(s), NEW sec \in Nat
    PROVE  \E a : IsActive(s, a, sec) /\ EffectiveRateAt(s, sec) = RateOf(s, a)
<1>0. /\ Len(s) \in Nat /\ 1 \in 1..Len(s) /\ s # <<>>
      /\ s[1].startPeriod <= sec
      /\ \A i \in 1..Len(s) : s[i].startPeriod \in Nat /\ s[i].limit \in Int
  BY DEF IsSchedule
<1>1. PICK a \in 1..Len(s) : /\ s[a].startPeriod <= sec
                             /\ \A i \in 1..Len(s) : s[i].startPeriod <= sec => i <= a
  <2> DEFINE T == {m \in Nat : \A i \in 1..Len(s) : s[i].startPeriod <= sec => i <= m}
  <2>1. Len(s) \in T
    BY <1>0
  <2>2. PICK a \in T : \A m \in T : a <= m
    <3>1. T \subseteq Nat /\ T # {}
      BY <2>1
    <3> HIDE DEF T
    <3> QED BY <3>1, LeastNumber
  <2>3. a \in 1..Len(s)
    <3>1. a \in Nat /\ 1 <= a
      BY <1>0, <2>2
    <3>2. a <= Len(s)
      <4> HIDE DEF T
      <4> QED BY <2>1, <2>2
    <3> QED BY <1>0, <3>1, <3>2
  <2>4. s[a].startPeriod <= sec
    <3>1. SUFFICES ASSUME ~(s[a].startPeriod <= sec) PROVE FALSE
      OBVIOUS
    <3>2. a - 1 \in T
      <4>1. a - 1 \in Nat
        BY <2>3
      <4>2. ASSUME NEW i \in 1..Len(s), s[i].startPeriod <= sec PROVE i <= a - 1
        BY <1>0, <2>2, <2>3, <3>1, <4>2
      <4> QED BY <4>1, <4>2
    <3>3. a <= a - 1
      <4> HIDE DEF T
      <4> QED BY <2>2, <3>2
    <3> QED BY <2>3, <3>3
  <2> QED BY <2>2, <2>3, <2>4
<1>2. IsActive(s, a, sec)
  <2>1. ASSUME NEW i \in 1..Len(s), i <= a PROVE s[i].startPeriod <= sec
    <3>1. s[i].startPeriod <= s[a].startPeriod
      BY <2>1 DEF IsSchedule
    <3> QED BY <1>0, <1>1, <3>1
  <2> QED BY <1>1, <2>1 DEF IsActive
<1>3. ActivePeriodLimit(s, sec) = s[a].limit
  <2> DEFINE begun == {i \in DOMAIN s : \A k \in 1..i : s[k].startPeriod <= sec}
  <2>1. DOMAIN s = 1..Len(s)
    BY DEF IsSchedule
  <2>2. begun = 1..a
    BY <1>0, <1>2, <2>1 DEF IsActive
  <2>3. (CHOOSE i \in begun : \A k \in begun : k <= i) = a
    BY <1>2, <2>2 DEF IsActive
  <2> QED BY <2>3 DEF ActivePeriodLimit
<1> QED BY <1>0, <1>2, <1>3 DEF EffectiveRateAt, RateOf

\* One more second of a schedule adds the rate that is offered at it.
LEMMA SecondAdds ==
    ASSUME NEW s, IsSchedule(s), NEW sec \in Nat
    PROVE  EnergySinceStart(s, sec + 1) = EnergySinceStart(s, sec) + EffectiveRateAt(s, sec)
<1>0. Len(s) \in Nat /\ Len(s) >= 1 /\ s # <<>> /\ sec + 1 \in Nat /\ Rate \in Nat
  BY ProfileAssumption DEF IsSchedule
<1>t. \A i \in 1..Len(s) : s[i].startPeriod \in Nat /\ s[i].limit \in Int
  BY DEF IsSchedule
<1>1. PICK a : IsActive(s, a, sec) /\ EffectiveRateAt(s, sec) = RateOf(s, a)
  BY OneIsActive
<1>a. a \in 1..Len(s)
  BY <1>1 DEF IsActive
<1>2. ASSUME NEW i \in 1..Len(s) + 1
      PROVE  Bound(s, i, sec + 1) = IF i <= a THEN Bound(s, i, sec) ELSE Bound(s, i, sec) + 1
  <2>1. CASE i = Len(s) + 1
    BY <1>0, <1>a, <2>1 DEF Bound
  <2>2. CASE i \in 1..Len(s)
    <3>1. s[i].startPeriod \in Nat /\ (i <= a <=> s[i].startPeriod <= sec)
      BY <1>t, <1>1, <2>2 DEF IsActive
    <3>2. /\ Bound(s, i, sec) = IF s[i].startPeriod < sec THEN s[i].startPeriod ELSE sec
          /\ Bound(s, i, sec + 1) = IF s[i].startPeriod < sec + 1 THEN s[i].startPeriod
                                    ELSE sec + 1
      BY <1>0, <2>2 DEF Bound
    <3> QED BY <3>1, <3>2
  <2> QED BY <1>0, <2>1, <2>2
<1>3. ASSUME NEW i \in 1..Len(s) + 1 PROVE Bound(s, i, sec) \in Int
  BY <1>0, <1>t DEF Bound
<1>4. \A i \in 1..Len(s) : RateOf(s, i) \in Int
  BY <1>0, <1>t DEF RateOf
<1> DEFINE Energy(i) == EnergyLoop(s, sec)[i].energy
           Later(i) == EnergyLoop(s, sec + 1)[i].energy
           S == {m \in Nat : m + 1 \in 1..Len(s) + 1 =>
                    Later(m + 1) = IF m + 1 <= a THEN Energy(m + 1)
                                   ELSE Energy(m + 1) + RateOf(s, a)}
<1>5. 0 \in S
  <2>1. EnergyLoop(s, sec)[1].energy = 0 /\ EnergyLoop(s, sec + 1)[1].energy = 0
    BY <1>0, LoopTurns
  <2> QED BY <1>a, <2>1
<1>6. ASSUME NEW m \in Nat, m \in S PROVE m + 1 \in S
  <2>1. SUFFICES ASSUME m + 2 \in 1..Len(s) + 1
                 PROVE  Later(m + 2) = IF m + 2 <= a THEN Energy(m + 2)
                                       ELSE Energy(m + 2) + RateOf(s, a)
    OBVIOUS
  <2> DEFINE i == m + 1
  <2>2. i \in 1..Len(s) /\ i \in 1..Len(s) + 1 /\ i + 1 \in 1..Len(s) + 1 /\ i + 1 = m + 2
    BY <1>0, <2>1
  <2>3. Later(i) = IF i <= a THEN Energy(i) ELSE Energy(i) + RateOf(s, a)
    BY <1>6, <2>2
  <2> HIDE DEF i, S
  <2>4. Later(i + 1) = Later(i)
                       + RateOf(s, i) * (Bound(s, i + 1, sec + 1) - Bound(s, i, sec + 1))
    BY <1>0, <2>2, LoopAdds
  <2>5. Energy(i + 1) = Energy(i) + RateOf(s, i) * (Bound(s, i + 1, sec) - Bound(s, i, sec))
    BY <2>2, LoopAdds
  <2>6. Energy(i) \in Int /\ Later(i) \in Int
    BY <1>0, <2>2, LoopCovers
  <2> HIDE DEF Energy, Later
  <2>7. PICK r \in Int, b \in Int, c \in Int :
             r = RateOf(s, i) /\ b = Bound(s, i, sec) /\ c = Bound(s, i + 1, sec)
    BY <1>3, <1>4, <2>2
  <2>8. r * ((c + 1) - b) = r * (c - b) + r /\ r * (c - b) \in Int
    OBVIOUS
  <2>9. /\ Bound(s, i, sec + 1) = IF i <= a THEN b ELSE b + 1
        /\ Bound(s, i + 1, sec + 1) = IF i + 1 <= a THEN c ELSE c + 1
    BY <1>2, <2>2, <2>7
  <2>10. i \in Int /\ a \in Int /\ RateOf(s, a) \in Int
    BY <1>4, <1>a, <2>2
  <2>11. SUFFICES Later(i + 1) = IF i + 1 <= a THEN Energy(i + 1)
                                 ELSE Energy(i + 1) + RateOf(s, a)
    BY <2>2
  <2>12. CASE i + 1 <= a
    <3>1. Bound(s, i + 1, sec + 1) - Bound(s, i, sec + 1) = c - b /\ i <= a
      BY <2>9, <2>10, <2>12
    <3> QED BY <2>3, <2>4, <2>5, <2>7, <2>12, <3>1
  <2>13. CASE i = a
    <3>1. Bound(s, i + 1, sec + 1) - Bound(s, i, sec + 1) = (c + 1) - b /\ ~(i + 1 <= a)
      BY <2>9, <2>10, <2>13
    <3>2. Later(i + 1) = Energy(i) + (r * (c - b) + r) /\ Energy(i + 1) = Energy(i) + r * (c - b)
      BY <2>3, <2>4, <2>5, <2>7, <2>8, <2>10, <2>13, <3>1
    <3>3. RateOf(s, a) = r
      BY <2>7, <2>13
    <3> QED BY <2>6, <2>7, <2>8, <3>1, <3>2, <3>3
  <2>14. CASE i > a
    <3>1. ~(i <= a) /\ ~(i + 1 <= a)
      BY <2>10, <2>14
    <3>2. Bound(s, i + 1, sec + 1) - Bound(s, i, sec + 1) = c - b
      BY <2>7, <2>9, <3>1
    <3>3. /\ Later(i + 1) = (Energy(i) + RateOf(s, a)) + r * (c - b)
          /\ Energy(i + 1) = Energy(i) + r * (c - b)
      BY <2>3, <2>4, <2>5, <2>7, <3>1, <3>2
    <3> QED BY <2>6, <2>8, <2>10, <3>1, <3>3
  <2> QED BY <2>10, <2>12, <2>13, <2>14
<1>7. Later(Len(s) + 1) = Energy(Len(s) + 1) + RateOf(s, a)
  <2>1. Len(s) \in S
    <3> HIDE DEF S
    <3> QED BY <1>0, <1>5, <1>6, Induction
  <2> QED BY <1>0, <1>a, <2>1
<1> QED BY <1>0, <1>1, <1>7 DEF EnergySinceStart

\* Before the first second there is none.
LEMMA NothingYet ==
    ASSUME NEW s, IsSchedule(s)
    PROVE  EnergySinceStart(s, 0) = 0
<1>0. /\ Len(s) \in Nat /\ s # <<>>
      /\ \A i \in 1..Len(s) : s[i].startPeriod \in Nat /\ s[i].limit \in Int
  BY DEF IsSchedule
<1>1. \A i \in 1..Len(s) + 1 : Bound(s, i, 0) = 0
  BY <1>0 DEF Bound
<1>2. \A i \in 1..Len(s) : RateOf(s, i) * (0 - 0) = 0
  BY <1>0, ProfileAssumption DEF RateOf
<1> DEFINE S == {m \in Nat : m + 1 \in 1..Len(s) + 1 => EnergyLoop(s, 0)[m + 1].energy = 0}
<1>3. 0 \in S
  BY <1>0, LoopTurns
<1>4. ASSUME NEW m \in Nat, m \in S PROVE m + 1 \in S
  <2>1. SUFFICES ASSUME m + 2 \in 1..Len(s) + 1
                 PROVE  EnergyLoop(s, 0)[m + 2].energy = 0
    OBVIOUS
  <2>2. m + 1 \in 1..Len(s) /\ (m + 1) + 1 = m + 2 /\ EnergyLoop(s, 0)[m + 1].energy = 0
    BY <1>0, <1>4, <2>1
  <2> HIDE DEF S
  <2> QED BY <1>0, <1>1, <1>2, <2>2, LoopAdds
<1>5. Len(s) \in S
  <2> HIDE DEF S
  <2> QED BY <1>0, <1>3, <1>4, Induction
<1> QED BY <1>0, <1>5 DEF EnergySinceStart

\* Second by second, the energy of a schedule is what the rates offered add up to.
LEMMA EnergyIsOffered ==
    ASSUME NEW s, s = <<>> \/ IsSchedule(s), NEW sec \in Nat
    PROVE  EnergySinceStart(s, sec) = EnergyOffered(s, sec)
<1>1. EnergySinceStart(s, 0) = 0
  BY NothingYet, ProfileAssumption DEF EnergySinceStart
<1>2. ASSUME NEW t \in Nat
      PROVE  EnergySinceStart(s, t + 1) = EnergySinceStart(s, t) + EffectiveRateAt(s, t)
  <2>1. CASE s = <<>>
    <3>1. Rate * (t + 1) = Rate * t + Rate
      BY ProfileAssumption
    <3> QED BY <2>1, <3>1 DEF EnergySinceStart, EffectiveRateAt
  <2>2. CASE IsSchedule(s)
    BY <2>2, SecondAdds
  <2> QED BY <2>1, <2>2
<1> DEFINE Adds(g) == g = [t \in 0..sec |-> IF t = 0 THEN 0
                                           ELSE g[t - 1] + EffectiveRateAt(s, t - 1)]
           sums == [t \in 0..sec |-> EnergySinceStart(s, t)]
<1>3. Adds(sums)
  <2>1. ASSUME NEW t \in 0..sec
        PROVE  sums[t] = IF t = 0 THEN 0 ELSE sums[t - 1] + EffectiveRateAt(s, t - 1)
    <3>1. CASE t = 0
      BY <1>1, <3>1
    <3>2. CASE t # 0
      <4>1. t - 1 \in Nat /\ t - 1 \in 0..sec /\ (t - 1) + 1 = t
        BY <3>2
      <4> QED BY <1>2, <3>2, <4>1
    <3> QED BY <3>1, <3>2
  <2> QED BY <2>1
<1>4. PICK g : Adds(g) /\ EnergyOffered(s, sec) = g[sec]
  <2> DEFINE g == CHOOSE g : Adds(g)
  <2>1. Adds(g)
    <3> HIDE DEF sums, Adds
    <3> QED BY <1>3
  <2>2. EnergyOffered(s, sec) = g[sec]
    BY DEF EnergyOffered
  <2> HIDE DEF g, Adds
  <2> QED BY <2>1, <2>2
<1> DEFINE S == {m \in Nat : m <= sec => g[m] = EnergySinceStart(s, m)}
<1>5. 0 \in S
  BY <1>1, <1>4
<1>6. ASSUME NEW m \in Nat, m \in S PROVE m + 1 \in S
  <2>1. SUFFICES ASSUME m + 1 <= sec PROVE g[m + 1] = EnergySinceStart(s, m + 1)
    OBVIOUS
  <2>2. g[m + 1] = g[m] + EffectiveRateAt(s, m)
    <3>1. m + 1 \in 0..sec /\ m + 1 # 0 /\ (m + 1) - 1 = m
      BY <2>1
    <3> QED BY <1>4, <3>1
  <2> QED BY <1>2, <1>6, <2>1, <2>2
<1>7. sec \in S
  <2> HIDE DEF S
  <2> QED BY <1>5, <1>6, Induction
<1> QED BY <1>4, <1>7

\* A sorted list has the periods with a limit, in order.
LEMMA PeriodsAreSorted ==
    ASSUME NEW n \in Nat, NEW periods \in [1..n -> Periods]
    PROVE  /\ DOMAIN SortedPeriods(periods) = 1..Len(SortedPeriods(periods))
           /\ Len(SortedPeriods(periods)) \in Nat
           /\ SortedPeriods(periods) \in
                 [1..Len(SortedPeriods(periods)) -> [startPeriod : Starts, limit : Limits]]
           /\ \A k, l \in 1..Len(SortedPeriods(periods)) : k <= l =>
                SortedPeriods(periods)[k].startPeriod <= SortedPeriods(periods)[l].startPeriod
<1> DEFINE some == Limited(periods)
           N == Cardinality(some)
           place == [i \in some |-> Cardinality(Earlier(periods, i))]
           at(k) == CHOOSE i \in some : Cardinality(Earlier(periods, i)) = k - 1
<1>1. some \in SUBSET (1..n) /\ IsFiniteSet(some) /\ N \in Nat
  <2>1. some \in SUBSET (1..n)
    BY DEF Limited
  <2>2. IsFiniteSet(1..n)
    BY FS_Interval
  <2> QED BY <2>1, <2>2, FS_Subset, FS_CardinalityType
<1>2. ASSUME NEW i \in some
      PROVE  /\ i \in Nat /\ periods[i].startPeriod \in Int
             /\ periods[i] \in [startPeriod : Starts, limit : Limits]
  <2>1. i \in 1..n /\ periods[i].limit # NoLimit
    BY <1>1 DEF Limited
  <2>2. periods[i] \in Periods
    BY <2>1
  <2>3. PICK start \in Starts, limit \in Limits \cup {NoLimit} :
             periods[i] = [startPeriod |-> start, limit |-> limit]
    BY <2>2 DEF Periods
  <2>4. limit \in Limits /\ start \in Int
    BY <2>1, <2>3, ProfileAssumption
  <2> QED BY <2>1, <2>3, <2>4
<1>3. ASSUME NEW i \in some
      PROVE  /\ Earlier(periods, i) \in SUBSET some /\ i \notin Earlier(periods, i)
             /\ IsFiniteSet(Earlier(periods, i))
             /\ Cardinality(Earlier(periods, i)) \in Nat
             /\ Cardinality(Earlier(periods, i)) < N
  <2>1. Earlier(periods, i) \in SUBSET some /\ i \notin Earlier(periods, i)
    BY <1>2 DEF Earlier
  <2>2. IsFiniteSet(Earlier(periods, i)) /\ Cardinality(Earlier(periods, i)) <= N
        /\ Cardinality(Earlier(periods, i)) # N
    BY <1>1, <2>1, FS_Subset
  <2>3. Cardinality(Earlier(periods, i)) \in Nat
    BY <2>2, FS_CardinalityType
  <2> QED BY <1>1, <2>1, <2>2, <2>3
<1>4. ASSUME NEW i \in some, NEW j \in some, i \in Earlier(periods, j)
      PROVE  Cardinality(Earlier(periods, i)) < Cardinality(Earlier(periods, j))
  <2>1. Earlier(periods, i) \in SUBSET Earlier(periods, j)
    BY <1>2, <1>4 DEF Earlier
  <2>2. /\ Cardinality(Earlier(periods, i)) <= Cardinality(Earlier(periods, j))
        /\ Cardinality(Earlier(periods, i)) # Cardinality(Earlier(periods, j))
    BY <1>3, <1>4, <2>1, FS_Subset
  <2> QED BY <1>3, <2>2
<1>5. \A i, j \in some : i # j => i \in Earlier(periods, j) \/ j \in Earlier(periods, i)
  BY <1>2 DEF Earlier
<1>6. place \in Injection(some, 0..N - 1)
  <2>1. \A i \in some : place[i] \in 0..N - 1
    BY <1>1, <1>3
  <2>2. ASSUME NEW i \in some, NEW j \in some, place[i] = place[j] PROVE i = j
    BY <1>3, <1>4, <1>5, <2>2
  <2> QED BY <2>1, <2>2 DEF Injection, IsInjective
<1>7. place \in Surjection(some, 0..N - 1)
  <2>1. IsFiniteSet(0..N - 1) /\ Cardinality(0..N - 1) = N
    <3> HIDE DEF N
    <3>1. 0 \in Int /\ N - 1 \in Int /\ (N - 1) - 0 + 1 = N /\ (0 > N - 1 <=> N = 0)
      BY <1>1
    <3> QED BY <3>1, FS_Interval
  <2> QED BY <1>6, <2>1, FS_Injection
<1>8. ASSUME NEW k \in 1..N
      PROVE  at(k) \in some /\ Cardinality(Earlier(periods, at(k))) = k - 1
  <2>1. k - 1 \in 0..N - 1
    BY <1>1
  <2>2. \E i \in some : Cardinality(Earlier(periods, i)) = k - 1
    BY <1>7, <2>1 DEF Surjection
  <2> QED BY <2>2
<1>9. SortedPeriods(periods) = [k \in 1..N |-> periods[at(k)]]
  BY DEF SortedPeriods
<1> HIDE DEF some, N, at
<1>10. SortedPeriods(periods) \in [1..N -> [startPeriod : Starts, limit : Limits]]
  BY <1>2, <1>8, <1>9
<1>11. /\ Len(SortedPeriods(periods)) = N /\ DOMAIN SortedPeriods(periods) = 1..N
  <2> DEFINE sorted == SortedPeriods(periods)
             Limiting == [startPeriod : Starts, limit : Limits]
  <2> HIDE DEF sorted, Limiting
  <2>1. sorted \in [1..N -> Limiting]
    BY <1>10 DEF sorted, Limiting
  <2>2. Len(sorted) = N /\ DOMAIN sorted = 1..N
    BY <1>1, <2>1
  <2> QED BY <2>2 DEF sorted, Limiting
<1>12. ASSUME NEW k \in 1..N, NEW l \in 1..N, k <= l
       PROVE  periods[at(k)].startPeriod <= periods[at(l)].startPeriod
  <2>1. at(k) \in some /\ at(l) \in some
    BY <1>8
  <2>2. SUFFICES ASSUME periods[at(l)].startPeriod < periods[at(k)].startPeriod PROVE FALSE
    BY <1>2, <2>1
  <2>3. at(l) \in Earlier(periods, at(k))
    BY <2>1, <2>2 DEF Earlier, some
  <2>4. Cardinality(Earlier(periods, at(l))) < Cardinality(Earlier(periods, at(k)))
    BY <1>4, <2>1, <2>3
  <2> QED BY <1>1, <1>8, <1>12, <2>4
<1> QED BY <1>1, <1>9, <1>10, <1>11, <1>12

\* The store holds profiles, as SetChargingProfile has put them there.
ProfilesTyped == profiles \in [ProfileIds -> Profiles \cup {NoProfile}] /\ elapsedSec \in Nat

\* There is a profile of the highest stack level, if there is any profile.
LEMMA OneIsHighest ==
    ASSUME ProfilesTyped, NEW stored \in SUBSET ProfileIds, stored # {},
           \A id \in stored : profiles[id] # NoProfile
    PROVE  \E id \in stored :
             \A other \in stored : profiles[other].stackLevel <= profiles[id].stackLevel
<1> DEFINE level(id) == profiles[id].stackLevel
           above(id) == {other \in stored : level(other) > level(id)}
           Ranks == {Cardinality(above(id)) : id \in stored}
<1>1. \A id \in stored : level(id) \in Int
  BY ProfileAssumption DEF ProfilesTyped, Profiles
<1>2. ASSUME NEW id \in stored
      PROVE  IsFiniteSet(above(id)) /\ Cardinality(above(id)) \in Nat
  <2>1. above(id) \in SUBSET ProfileIds
    OBVIOUS
  <2> HIDE DEF above
  <2>2. IsFiniteSet(above(id))
    BY <2>1, ProfileAssumption, FS_Subset
  <2> QED BY <2>2, FS_CardinalityType
<1>3. PICK id \in stored : \A other \in stored : Cardinality(above(id)) <= Cardinality(above(other))
  <2> HIDE DEF above
  <2>1. Ranks \subseteq Nat /\ Ranks # {}
    BY <1>2
  <2>2. PICK x \in Ranks : \A y \in Ranks : x <= y
    <3> HIDE DEF Ranks
    <3> QED BY <2>1, LeastNumber
  <2> QED BY <2>2
<1>4. ASSUME NEW other \in stored, level(other) > level(id) PROVE FALSE
  <2>1. above(other) \in SUBSET above(id) /\ other \in above(id) /\ other \notin above(other)
    BY <1>1, <1>4
  <2> HIDE DEF above, level
  <2>2. /\ Cardinality(above(other)) <= Cardinality(above(id))
        /\ Cardinality(above(other)) # Cardinality(above(id))
    BY <1>2, <2>1, FS_Subset
  <2> QED BY <1>2, <1>3, <2>2
<1> QED BY <1>1, <1>4

\* The active schedule is a schedule, unless two of its periods begin before the start.
LEMMA ActiveIsSchedule ==
    ASSUME ProfilesTyped
    PROVE  \/ ActiveTxProfileSchedule = <<>>
           \/ NoneBeforeStart(ActiveTxProfileSchedule) => IsSchedule(ActiveTxProfileSchedule)
<1> DEFINE stored == {id \in ProfileIds : profiles[id] # NoProfile}
           best == CHOOSE id \in stored :
                     \A other \in stored : profiles[other].stackLevel <= profiles[id].stackLevel
           sorted == SortedPeriods(profiles[best].periods)
<1>a. ActiveTxProfileSchedule =
        IF stored = {} \/ sorted = <<>> THEN <<>> ELSE [sorted EXCEPT ![1].startPeriod = 0]
  BY DEF ActiveTxProfileSchedule
<1>1. CASE stored = {} \/ sorted = <<>>
  <2> HIDE DEF stored, sorted
  <2> QED BY <1>a, <1>1
<1>2. CASE stored # {} /\ sorted # <<>>
  <2>1. best \in stored
    <3>1. stored \in SUBSET ProfileIds /\ \A id \in stored : profiles[id] # NoProfile
      OBVIOUS
    <3> HIDE DEF stored
    <3> QED BY <1>2, <3>1, OneIsHighest
  <2>2. profiles[best] \in Profiles
    <3> HIDE DEF best
    <3> QED BY <2>1 DEF ProfilesTyped
  <2> HIDE DEF best
  <2>3. PICK n \in Nat : profiles[best].periods \in [1..n -> Periods]
    BY <2>2, ProfileAssumption DEF Profiles, PeriodLists
  <2>4. /\ DOMAIN sorted = 1..Len(sorted) /\ Len(sorted) \in Nat
        /\ sorted \in [1..Len(sorted) -> [startPeriod : Starts, limit : Limits]]
        /\ \A k, l \in 1..Len(sorted) : k <= l => sorted[k].startPeriod <= sorted[l].startPeriod
    BY <2>3, PeriodsAreSorted
  <2>5. ActiveTxProfileSchedule = [sorted EXCEPT ![1].startPeriod = 0]
    <3> HIDE DEF stored, sorted
    <3> QED BY <1>2, <1>a
  <2> DEFINE active == [sorted EXCEPT ![1].startPeriod = 0]
  <2> HIDE DEF sorted
  <2>6. ASSUME NEW k \in 1..Len(sorted)
        PROVE  /\ sorted[k].startPeriod \in Int /\ sorted[k].limit \in Int
               /\ sorted[k] \in [startPeriod : Starts, limit : Limits]
    <3>1. sorted[k] \in [startPeriod : Starts, limit : Limits]
      BY <2>4
    <3> QED BY <3>1, ProfileAssumption
  <2>7. Len(sorted) >= 1
    BY <1>2, <2>4
  <2>8. DOMAIN active = 1..Len(sorted) /\ Len(active) = Len(sorted) /\ active # <<>>
    <3>1. active \in [1..Len(sorted) -> [startPeriod : Int, limit : Int]]
      <4>1. ASSUME NEW k \in 1..Len(sorted)
            PROVE  /\ sorted[k] \in [startPeriod : Int, limit : Int]
                   /\ [sorted[k] EXCEPT !.startPeriod = 0] \in [startPeriod : Int, limit : Int]
        <5>1. PICK start \in Starts, limit \in Limits :
                   sorted[k] = [startPeriod |-> start, limit |-> limit]
          BY <2>6
        <5>2. start \in Int /\ limit \in Int
          BY ProfileAssumption
        <5> QED BY <5>1, <5>2
      <4> QED BY <2>4, <4>1
    <3> HIDE DEF active
    <3>2. Len(active) = Len(sorted) /\ DOMAIN active = 1..Len(sorted)
      BY <2>4, <3>1
    <3> QED BY <2>7, <3>2
  <2>9. /\ active[1].startPeriod = 0 /\ active[1].limit = sorted[1].limit
        /\ \A k \in 2..Len(sorted) : active[k] = sorted[k]
    BY <2>4, <2>6, <2>7
  <2> HIDE DEF active
  <2>b. SUFFICES ASSUME NoneBeforeStart(ActiveTxProfileSchedule)
                 PROVE  IsSchedule(ActiveTxProfileSchedule)
    OBVIOUS
  <2>10. \A k \in 1..Len(sorted) : active[k].startPeriod \in Nat /\ active[k].limit \in Int
    <3>1. \A k \in 2..Len(sorted) : active[k].startPeriod >= 0
      BY <2>b, <2>5, <2>8 DEF NoneBeforeStart, active
    <3>2. \A k \in 1..Len(sorted) : k = 1 \/ k \in 2..Len(sorted)
      BY <2>4
    <3> QED BY <2>4, <2>6, <2>7, <2>9, <3>1, <3>2
  <2>11. ASSUME NEW k \in 1..Len(sorted), NEW l \in 1..Len(sorted), k <= l
         PROVE  active[k].startPeriod <= active[l].startPeriod
    BY <2>4, <2>7, <2>9, <2>10, <2>11
  <2>12. IsSchedule(active)
    BY <2>4, <2>7, <2>8, <2>9, <2>10, <2>11 DEF IsSchedule
  <2> QED BY <2>5, <2>12 DEF active
<1> QED BY <1>1, <1>2

\* Whatever profiles the CSMS stores and clears, with starts, limits and levels of either sign,
\* the energy billed is the energy offered as long as no two periods of the schedule begin
\* before the transaction (EnergyAddsUp, energyWhSinceStart).
THEOREM EnergyIsTrue == MeterSpec => []EnergyAddsUp
<1>1. MeterInit => ProfilesTyped
  BY DEF MeterInit, ProfilesTyped
<1>2. ProfilesTyped /\ [MeterNext]_meterVars => ProfilesTyped'
  <2> SUFFICES ASSUME ProfilesTyped, [MeterNext]_meterVars PROVE ProfilesTyped'
    OBVIOUS
  <2>1. ASSUME NEW id \in ProfileIds, NEW level \in StackLevels, NEW periods \in PeriodLists,
               SetChargingProfile(id, level, periods)
        PROVE  ProfilesTyped'
    BY <2>1 DEF ProfilesTyped, SetChargingProfile, Profiles
  <2>2. ASSUME NEW matching, ClearChargingProfile(matching) PROVE ProfilesTyped'
    BY <2>2 DEF ProfilesTyped, ClearChargingProfile
  <2>3. CASE MeterSecond
    BY <2>3 DEF ProfilesTyped, MeterSecond
  <2>4. CASE UNCHANGED meterVars
    BY <2>4 DEF ProfilesTyped, meterVars
  <2> QED BY <2>1, <2>2, <2>3, <2>4 DEF MeterNext
<1>3. ProfilesTyped => EnergyAddsUp
  <2> SUFFICES ASSUME ProfilesTyped PROVE EnergyAddsUp
    OBVIOUS
  <2> QED BY ActiveIsSchedule, EnergyIsOffered DEF EnergyAddsUp, SampledEnergy, ProfilesTyped
<1> QED BY <1>1, <1>2, <1>3, PTL DEF MeterSpec
=============================================================================

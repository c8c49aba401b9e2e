----------------------------- MODULE Parameters -----------------------------
(***************************************************************************)
(* The catalogue of parameters a device model has (prisma/seed.ts), the    *)
(* values its instances keep for them, and everything that creates or      *)
(* rewrites those values: the seed with its sample instance, the creation  *)
(* form, the settings screen, the restoring of factory settings and the    *)
(* board upgrade.  Each reads the catalogue first and writes rows later,   *)
(* and the seed writes its rows one at a time.                             *)
(*                                                                         *)
(* A parameter is known by its sortOrder; a value by its form, which is    *)
(* what validation tells apart.                                            *)
(***************************************************************************)
EXTENDS Naturals, FiniteSets

CONSTANTS
    Sown,               \* the parameters of the catalogue whose rows are followed
    Seeders, ParameterJobs,
    Instances, Demo,    \* charge point ids, and SAMPLE_INSTANCE_CHARGE_POINT_ID
    Entered,            \* what is typed into the forms, of Raws
    MaxSeeds, MaxParameterCommands

VARIABLES
    catalogue,          \* the DeviceModelParameter rows
    values,             \* the DeviceInstanceParameter rows of each instance
    seeder, seeds,
    parameterJob, parameterCommands,
    seeded,             \* history: a seed has been through the parameters
    proper              \* history: the instances begun after that, and the seed's own

parameterVars == <<catalogue, values, seeder, seeds, parameterJob, parameterCommands, seeded, proper>>

-----------------------------------------------------------------------------
(* The catalogue, a settings page at a time *)

Parameter(type, bounded, default) == [type |-> type, bounded |-> bounded, default |-> default]
Text == Parameter("STRING", FALSE, "text")
Unset == Parameter("STRING", FALSE, "null")
Url == Parameter("STRING", FALSE, "empty")
Count == Parameter("INTEGER", TRUE, "whole")
Port == Parameter("INTEGER", FALSE, "whole")
Number == Parameter("FLOAT", FALSE, "whole")
Price == Parameter("FLOAT", TRUE, "whole")
Switch == Parameter("BOOLEAN", FALSE, "flag")
Choice == Parameter("ENUM", FALSE, "option")
All(orders, parameter) == [n \in orders |-> parameter]

Firmware == 1
DevicePage == All(Firmware .. 5, Text)
SystemPage1 ==
    [n \in 10..21 |-> CASE n = 10 -> Unset [] n = 11 -> Count [] n \in 12..17 -> Number
                        [] n = 18 -> Switch [] n = 19 -> Choice [] OTHER -> Text]
SystemPage2 ==
    [n \in 30..43 |-> CASE n \in {30, 39, 40} -> Choice [] n = 35 -> Price [] n \in {36, 41, 42} -> Text
                        [] OTHER -> Switch]
SystemPage3 == [n \in 50..53 |-> IF n = 51 THEN Choice ELSE Switch]
NetworksPage ==
    [n \in 60..66 |-> CASE n \in {60, 66} -> Choice [] n = 64 -> Port [] OTHER -> Unset]
FeeRatePage == [n \in 70..73 |-> CASE n \in {70, 72} -> Price [] n = 71 -> Text [] OTHER -> Switch]
OtherPage1 == [n \in 80..91 |-> IF n \in {80, 83, 86, 89} THEN Switch ELSE Number]
\* The seed calls it two pages, 2 and 3; no gap parts them.
OtherPage2 ==
    [n \in 100..107 |-> CASE n \in {100, 103} -> Switch [] n \in {106, 107} -> Url [] OTHER -> Number]

Tabs == {{DevicePage}, {SystemPage1, SystemPage2, SystemPage3}, {NetworksPage}, {FeeRatePage},
         {OtherPage1, OtherPage2}}
Pages == UNION Tabs
pevc3107eParameters ==
    [n \in UNION {DOMAIN page : page \in Pages} |-> (CHOOSE page \in Pages : n \in DOMAIN page)[n]]

ASSUME SownAssumption == Sown \subseteq DOMAIN pevc3107eParameters

\* paginateBySortOrder: a page begins where more than five orders are free before it.
PageGap == 5
paginateBySortOrder(orders) ==
    LET begins == {n \in orders : \A m \in orders : m < n => n - m > PageGap}
    IN {{n \in orders : first <= n /\ \A other \in begins : first < other => n < other} : first \in begins}

-----------------------------------------------------------------------------
(* Values *)

\* "beyond" is a number out of the range of a parameter that has one.
Raws == {"null", "empty", "text", "whole", "padded", "fraction", "beyond", "flag", "option"}
Cleared == {"null", "empty"}

Accepts(parameter, raw) ==
    \/ raw \in Cleared
    \/ parameter.type = "STRING"
    \/ parameter.type = "INTEGER" /\ raw \in {"whole", "padded"} \cup (IF parameter.bounded THEN {} ELSE {"beyond"})
    \/ parameter.type = "FLOAT"
       /\ raw \in {"whole", "padded", "fraction"} \cup (IF parameter.bounded THEN {} ELSE {"beyond"})
    \/ parameter.type = "BOOLEAN" /\ raw = "flag"
    \/ parameter.type = "ENUM" /\ raw = "option"

\* The value validateParameterValue stores for a raw one it accepts.
validateParameterValue(parameter, raw) ==
    IF raw \in Cleared THEN "null"
    ELSE IF parameter.type \in {"INTEGER", "FLOAT"} /\ raw = "padded" THEN "whole" ELSE raw

Schema(n) == pevc3107eParameters[n]
Validated(raws) == [n \in DOMAIN raws |-> validateParameterValue(Schema(n), raws[n])]
AllAccepted(raws) == \A n \in DOMAIN raws : Accepts(Schema(n), raws[n])
Defaults(orders) == [n \in orders |-> Schema(n).default]
buildDefaultParameterValues(orders) == Validated(Defaults(orders))

\* The creation form is filled with the defaults, of which at most one is then changed.
Forms == {Defaults(catalogue)} \cup {[Defaults(catalogue) EXCEPT ![n] = raw] : n \in catalogue, raw \in Entered}

Created == DOMAIN values
\* A row that is not there fails the transaction with all its updates.
CanUpdate(i, written) == DOMAIN written \subseteq DOMAIN values[i]
Updated(rows, written) == [n \in DOMAIN rows |-> IF n \in DOMAIN written THEN written[n] ELSE rows[n]]
WithInstance(i, rows) == [k \in Created \cup {i} |-> IF k = i THEN rows ELSE values[k]]

-----------------------------------------------------------------------------
NoSeeder == [at |-> "idle", rows |-> {}]
NoParameterJob == [at |-> "idle", instance |-> Demo, values |-> << >>, late |-> FALSE]

ParametersInit ==
    /\ catalogue = {} /\ values = << >>
    /\ seeder = [s \in Seeders |-> NoSeeder] /\ seeds = 0
    /\ parameterJob = [j \in ParameterJobs |-> NoParameterJob] /\ parameterCommands = 0
    /\ seeded = FALSE /\ proper = {}

SeederAt(s, at) == seeder[s].at = at
SeederGoes(s, at, rows) == seeder' = [seeder EXCEPT ![s] = [at |-> at, rows |-> rows]]
ParameterCommand(j) ==
    /\ parameterJob[j].at = "idle" /\ parameterCommands < MaxParameterCommands
    /\ parameterCommands' = parameterCommands + 1
JobGoes(j, at, i, vs) ==
    parameterJob' = [parameterJob EXCEPT ![j] = [at |-> at, instance |-> i, values |-> vs, late |-> seeded]]
JobEnds(j) == parameterJob' = [parameterJob EXCEPT ![j] = NoParameterJob]

(* The seed *)

\* The model and its plugs first.
SeedModel(s) ==
    /\ SeederAt(s, "idle") /\ seeds < MaxSeeds /\ seeds' = seeds + 1
    /\ SeederGoes(s, "parameters", {})
    /\ UNCHANGED <<catalogue, values, parameterJob, parameterCommands, seeded, proper>>

\* A mutant of SeedParameter: an upsert that fails is passed over.
SeedParameterSkips(s) ==
    /\ SeederAt(s, "parameters")
    /\ LET left == Sown \ seeder[s].rows
       IN IF left = {} THEN SeederGoes(s, "sample", {}) /\ seeded' = TRUE /\ UNCHANGED catalogue
          ELSE \E n \in left :
                 /\ SeederGoes(s, "parameters", seeder[s].rows \cup {n})
                 /\ catalogue' \in {catalogue, catalogue \cup {n}} /\ UNCHANGED seeded
    /\ UNCHANGED <<values, seeds, parameterJob, parameterCommands, proper>>

\* One upsert after the other, in the order of the array.
SeedParameter(s) ==
    /\ SeederAt(s, "parameters")
    /\ LET left == Sown \ seeder[s].rows
       IN IF left = {} THEN SeederGoes(s, "sample", {}) /\ seeded' = TRUE /\ UNCHANGED catalogue
          ELSE \E n \in left :
                 /\ \A m \in left : n <= m
                 /\ SeederGoes(s, "parameters", seeder[s].rows \cup {n})
                 /\ catalogue' = catalogue \cup {n} /\ UNCHANGED seeded
    /\ UNCHANGED <<values, seeds, parameterJob, parameterCommands, proper>>

\* seedSampleInstance leaves a sample that is there as it is.
SeedLooks(s) ==
    /\ SeederAt(s, "sample")
    /\ IF Demo \in Created THEN SeederGoes(s, "idle", {}) ELSE SeederGoes(s, "read", {})
    /\ UNCHANGED <<catalogue, values, seeds, parameterJob, parameterCommands, seeded, proper>>

SeedReads(s) ==
    /\ SeederAt(s, "read") /\ SeederGoes(s, "create", catalogue)
    /\ UNCHANGED <<catalogue, values, seeds, parameterJob, parameterCommands, seeded, proper>>

\* The id is unique: a sample created meanwhile fails this one.
SeedCreates(s) ==
    /\ SeederAt(s, "create") /\ SeederGoes(s, "idle", {})
    /\ IF Demo \in Created THEN UNCHANGED <<values, proper>>
       ELSE /\ values' = WithInstance(Demo, Defaults(seeder[s].rows))
            /\ proper' = proper \cup {Demo}
    /\ UNCHANGED <<catalogue, seeds, parameterJob, parameterCommands, seeded>>

\* An upsert fails, or the process is stopped.
SeedDies(s) ==
    /\ ~SeederAt(s, "idle") /\ SeederGoes(s, "idle", {})
    /\ UNCHANGED <<catalogue, values, seeds, parameterJob, parameterCommands, seeded, proper>>

(* The handlers *)

\* POST reads the model with its parameters and validates the form.
NewReads(j) ==
    /\ ParameterCommand(j) /\ seeds > 0
    /\ \E i \in Instances, form \in Forms :
         IF AllAccepted(form) THEN JobGoes(j, "create", i, Validated(form)) ELSE UNCHANGED parameterJob
    /\ UNCHANGED <<catalogue, values, seeder, seeds, seeded, proper>>

NewCreates(j) ==
    LET job == parameterJob[j]
    IN /\ job.at = "create" /\ JobEnds(j)
       /\ IF job.instance \in Created THEN UNCHANGED <<values, proper>>
          ELSE /\ values' = WithInstance(job.instance, job.values)
               /\ proper' = IF job.late THEN proper \cup {job.instance} ELSE proper
       /\ UNCHANGED <<catalogue, seeder, seeds, parameterCommands, seeded>>

\* The settings screen shows every parameter of the catalogue, one without a row as empty.
SettingsOpens(j) ==
    /\ ParameterCommand(j)
    /\ \E i \in Created :
         JobGoes(j, "open", i, [n \in catalogue |-> IF n \in DOMAIN values[i] THEN values[i][n] ELSE "null"])
    /\ UNCHANGED <<catalogue, values, seeder, seeds, seeded, proper>>

\* Its Save sends them all; a refusal leaves the form as it was filled in.
SettingsSaves(j) ==
    LET job == parameterJob[j]
    IN /\ job.at = "open"
       /\ \E n \in DOMAIN job.values, raw \in Entered :
            LET form == [job.values EXCEPT ![n] = raw]
            IN IF AllAccepted(form) THEN JobGoes(j, "update", job.instance, Validated(form))
               ELSE JobEnds(j)
       /\ UNCHANGED <<catalogue, values, seeder, seeds, parameterCommands, seeded, proper>>

\* resetInstanceParametersToDefaults.
RestoreReads(j) ==
    /\ ParameterCommand(j)
    /\ AllAccepted(Defaults(catalogue))
    /\ \E i \in Created : JobGoes(j, "update", i, buildDefaultParameterValues(catalogue))
    /\ UNCHANGED <<catalogue, values, seeder, seeds, seeded, proper>>

\* completeFirmwareUpgrade finds the row of the firmware and writes a version made of its value.
UpgradeReads(j) ==
    /\ ParameterCommand(j)
    /\ \E i \in Created : Firmware \in DOMAIN values[i] /\ JobGoes(j, "update", i, [n \in {Firmware} |-> "text"])
    /\ UNCHANGED <<catalogue, values, seeder, seeds, seeded, proper>>

\* The transaction of any of them.
UpdateStores(j) ==
    LET job == parameterJob[j]
    IN /\ job.at = "update" /\ JobEnds(j)
       /\ values' = IF CanUpdate(job.instance, job.values)
                    THEN [values EXCEPT ![job.instance] = Updated(@, job.values)] ELSE values
       /\ UNCHANGED <<catalogue, seeder, seeds, parameterCommands, seeded, proper>>

SeedStep(s) ==
    \/ SeedModel(s) \/ SeedParameter(s) \/ SeedLooks(s) \/ SeedReads(s) \/ SeedCreates(s) \/ SeedDies(s)
ParametersNext ==
    \/ \E s \in Seeders : SeedStep(s)
    \/ \E j \in ParameterJobs :
         \/ NewReads(j) \/ NewCreates(j) \/ SettingsOpens(j) \/ SettingsSaves(j)
         \/ RestoreReads(j) \/ UpgradeReads(j) \/ UpdateStores(j)

ParametersSpec == ParametersInit /\ [][ParametersNext]_parameterVars

-----------------------------------------------------------------------------
\* "a page break is recovered from that gap rather than needing a schema change"
\* (settings-pages.ts:8): however far a seed got, a tab has the seed's own pages.
PagesAreSeeded ==
    \A tab \in Tabs, last \in DOMAIN pevc3107eParameters :
        LET upTo(page) == {n \in DOMAIN page : n <= last}
            pages == {upTo(page) : page \in tab}
        IN paginateBySortOrder(UNION pages) = pages \ {{}}

DefaultsAreValid == AllAccepted(Defaults(DOMAIN pevc3107eParameters))

\* A stored value is one its parameter accepts.
ValuesAreValid == \A i \in Created : AllAccepted(values[i])

\* The sample of any seed, and an instance whose form was read after some seed had been through
\* the catalogue, has a row for every parameter: its settings can be saved and its factory
\* settings restored ("Resets every parameter value on an instance back to its model parameter's
\* default", maintenance.ts:53), however often the seed dies, is run again or meets the handlers;
\* every stored value stays valid, the defaults are, and the settings have the seed's pages.
InstancesAreWhole ==
    /\ \A i \in proper : catalogue \subseteq DOMAIN values[i]
    /\ ValuesAreValid
    /\ DefaultsAreValid
    /\ PagesAreSeeded
=============================================================================

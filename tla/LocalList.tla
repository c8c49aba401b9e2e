----------------------------- MODULE LocalList -----------------------------
(***************************************************************************)
(* SendLocalList (ocpp/local-list.ts) over the persisted list, a row at a  *)
(* time (prisma-local-auth-list-store.ts).                                 *)
(***************************************************************************)
EXTENDS Naturals

CONSTANTS
    ListTags, ListJobs,     \* id tags; handlers that run at a time
    MaxListVersion, MaxListSends, MaxListCrashes

VARIABLES
    listVersion, listEntries,
    listJob,
    listSends, listCrashes,
    promised,       \* history: the entries that the updates accepted so far make, one after the other
    damaged,        \* history: the list was edited, or an update cut off in it, since the last Full one
    cutOff,         \* history: the version of an update cut off with none made since, or 0
    listRaced       \* history: two updates, or an update and an edit, were carried out at a time

listVars == <<listVersion, listEntries, listJob, listSends, listCrashes, promised, damaged, cutOff, listRaced>>

NoUpdate == [at |-> "idle", v |-> 0, first |-> FALSE, full |-> FALSE, puts |-> {}, dels |-> {}, todo |-> {}]
Updating(j) == listJob[j].at \in {"clear", "apply"}
\* An update that has changed an entry, or may have: the clearing, or one entry at least.
Touched(u) == u.at = "apply" /\ (u.full \/ u.todo # u.puts \cup u.dels)

ListInit ==
    /\ listVersion = 0 /\ listEntries = {} /\ promised = {}
    /\ listJob = [j \in ListJobs |-> NoUpdate]
    /\ listSends = 0 /\ listCrashes = 0 /\ damaged = FALSE /\ cutOff = 0 /\ listRaced = FALSE

\* The panel's own editing of the same table, which leaves the version alone.
EditEntry(t) ==
    /\ listSends < MaxListSends /\ listSends' = listSends + 1
    /\ \E edited \in {listEntries \cup {t}, listEntries \ {t}} : listEntries' = edited
    /\ damaged' = TRUE
    /\ listRaced' = (listRaced \/ \E j \in ListJobs : Updating(j))
    /\ UNCHANGED <<listVersion, listJob, listCrashes, promised, cutOff>>

\* An update: puts have an idTagInfo, dels have none.  A Full one with such an entry fails.
SendLocalList(j, v, full, puts, dels) ==
    /\ listJob[j].at = "idle" /\ puts \cap dels = {}
    /\ listSends < MaxListSends /\ listSends' = listSends + 1
    /\ listJob' = [listJob EXCEPT ![j] = [NoUpdate EXCEPT !.at = "check", !.v = v, !.full = full,
                                                          !.puts = puts, !.dels = dels]]
    /\ UNCHANGED <<listVersion, listEntries, listCrashes, promised, damaged, cutOff, listRaced>>

\* getVersion has answered; VersionMismatch, or on to listEntries.  first: nothing sent yet.
ListReadsVersion(j) ==
    /\ listJob[j].at = "check"
    /\ listJob' = [listJob EXCEPT ![j] = IF @.v <= listVersion THEN NoUpdate
                                        ELSE [@ EXCEPT !.at = "list", !.first = listVersion = 0]]
    /\ UNCHANGED <<listVersion, listEntries, listSends, listCrashes, promised, damaged, cutOff, listRaced>>

\* Where handleSendLocalList returns Failed: a first Differential, a Full with nothing to put.
Refused(u) == IF u.full THEN u.dels # {} ELSE u.first /\ listEntries = {}

\* listEntries has answered.
ListChecks(j) ==
    /\ listJob[j].at = "list"
    /\ IF Refused(listJob[j])
       THEN listJob' = [listJob EXCEPT ![j] = NoUpdate] /\ UNCHANGED listRaced
       ELSE /\ listJob' = [listJob EXCEPT ![j].at = IF listJob[j].full THEN "clear" ELSE "apply",
                                          ![j].todo = listJob[j].puts \cup listJob[j].dels]
            /\ listRaced' = (listRaced \/ listJob[j].v <= listVersion \/ \E i \in ListJobs : Updating(i))
    /\ UNCHANGED <<listVersion, listEntries, listSends, listCrashes, promised, damaged, cutOff>>

\* A mutant of ListClears: nothing is cleared.
ListKeepsOld(j) ==
    /\ listJob[j].at = "clear"
    /\ listJob' = [listJob EXCEPT ![j].at = "apply"]
    /\ UNCHANGED <<listVersion, listEntries, listSends, listCrashes, promised, damaged, cutOff, listRaced>>

ListClears(j) ==
    /\ listJob[j].at = "clear"
    /\ listEntries' = {}
    /\ listJob' = [listJob EXCEPT ![j].at = "apply"]
    /\ UNCHANGED <<listVersion, listSends, listCrashes, promised, damaged, cutOff, listRaced>>

\* setEntry or deleteEntry of one entry.
ListApplies(j, t) ==
    /\ listJob[j].at = "apply" /\ t \in listJob[j].todo
    /\ listEntries' = IF t \in listJob[j].puts THEN listEntries \cup {t} ELSE listEntries \ {t}
    /\ listJob' = [listJob EXCEPT ![j].todo = @ \ {t}]
    /\ UNCHANGED <<listVersion, listSends, listCrashes, promised, damaged, cutOff, listRaced>>

\* setVersion
ListVersions(j) ==
    /\ listJob[j].at = "apply" /\ listJob[j].todo = {}
    /\ listVersion' = listJob[j].v
    /\ promised' = IF listJob[j].full THEN listJob[j].puts
                   ELSE (promised \cup listJob[j].puts) \ listJob[j].dels
    /\ damaged' = (damaged /\ ~listJob[j].full) /\ cutOff' = 0
    /\ listJob' = [listJob EXCEPT ![j] = NoUpdate]
    /\ UNCHANGED <<listEntries, listSends, listCrashes, listRaced>>

\* The rest of an update is lost, and what it has written stays.
CutOff(jobs) ==
    /\ listCrashes < MaxListCrashes /\ listCrashes' = listCrashes + 1
    /\ listJob' = [j \in ListJobs |-> IF j \in jobs THEN NoUpdate ELSE listJob[j]]
    /\ \/ /\ \A j \in jobs : ~Touched(listJob[j])
          /\ UNCHANGED <<damaged, cutOff>>
       \/ \E j \in jobs : Touched(listJob[j]) /\ damaged' = TRUE /\ cutOff' = listJob[j].v
    /\ UNCHANGED <<listVersion, listEntries, listSends, promised, listRaced>>

\* A read or write throws, or the process is restarted.
ListFails(j) == listJob[j].at # "idle" /\ CutOff({j})
ListCrashes == (\E j \in ListJobs : listJob[j].at # "idle") /\ CutOff(ListJobs)

ListNext ==
    \/ \E j \in ListJobs :
         \/ \E v \in 1..MaxListVersion, full \in BOOLEAN, puts, dels \in SUBSET ListTags :
              SendLocalList(j, v, full, puts, dels)
         \/ ListReadsVersion(j) \/ ListChecks(j) \/ ListClears(j) \/ ListVersions(j)
         \/ ListFails(j)
         \/ \E t \in ListTags : ListApplies(j, t)
    \/ \E t \in ListTags : EditEntry(t)
    \/ ListCrashes

ListSpec == ListInit /\ [][ListNext]_listVars

-----------------------------------------------------------------------------
\* Unless two writers were at it at a time: while no update is being written, the entries are what
\* all the updates that were accepted make, one after the other, since the last Full one if the
\* panel edited the list or an update was cut off in between (the code takes nothing back: until
\* then, partial entries are served under an older version); and of an update that was cut off the
\* version does not show, so the CSMS may send it again (local-list.ts:78, 96-107).
VersionedListIsWhole ==
    ~listRaced =>
        /\ ~damaged /\ (\A j \in ListJobs : ~Updating(j)) => listEntries = promised
        /\ cutOff # 0 => listVersion < cutOff
=============================================================================

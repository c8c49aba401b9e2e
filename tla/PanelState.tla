----------------------------- MODULE PanelState -----------------------------
(***************************************************************************)
(* The states of the Device and Diagnostics screens: each a cache in the   *)
(* process over rows of the database, loaded on first access, the plug's   *)
(* part after the instance's (hardware-test-state.ts, diagnostics.ts), and *)
(* the two halves of the guard that keeps a hardware output test and a     *)
(* charging session of one connector apart.  What the two tell the CSMS of *)
(* the connector's status is not followed here: other operations tell it   *)
(* theirs while a test runs.                                               *)
(*                                                                         *)
(* One connector and one toggle for each group that is saved together: the *)
(* hardware panel's "plug" toggle is outputRunning.                        *)
(***************************************************************************)
EXTENDS Naturals

CONSTANTS
    PanelJobs,        \* at most that many requests run at a time
    MaxPanelCommands, MaxPanelRestarts

ASSUME PanelAssumption == MaxPanelCommands \in Nat

Panels == {"hardware", "diagnostics"}
Groups == {"plug", "instance"}
Blank == [g \in Groups |-> FALSE]
Objects == 1..(2 * MaxPanelCommands)     \* every request may load one

VARIABLES
    cache,          \* registry: the object that is in it, or 0
    shown,          \* the toggles of each object
    plugLoaded,     \* the objects whose plug has been loaded
    stored,         \* what is persisted
    panelJob,
    session,        \* what the connector's row has: no session, one, or one under another status
    panelCommands, panelRestarts,
    collided,       \* history: a test began next to a session that its check could not see, or runs unseen
    interfered      \* history: requests of one panel overlapped, a save failed, or a change was refused halfway

panelVars == <<cache, shown, plugLoaded, stored, panelJob, session, panelCommands,
               panelRestarts, collided, interfered>>

NoRequest == [at |-> "idle", p |-> "hardware", o |-> 0, op |-> "read", on |-> FALSE, saved |-> FALSE]
\* The group an operation changes: setOutputRunning ("output") and the plug's other toggles
\* ("plug") one, the settings of the panel the other.
GroupOf(op) == IF op = "instance" THEN "instance" ELSE "plug"
On(p) == {j \in PanelJobs : panelJob[j].at \notin {"idle", "claim"} /\ panelJob[j].p = p}

\* isHardwareTestOutputRunning
OutputRunning ==
    cache["hardware"] # 0 /\ cache["hardware"] \in plugLoaded /\ shown[cache["hardware"]]["plug"]

PanelInit ==
    /\ cache = [p \in Panels |-> 0] /\ shown = [o \in Objects |-> Blank] /\ plugLoaded = {}
    /\ stored = [p \in Panels |-> Blank]
    /\ panelJob = [j \in PanelJobs |-> NoRequest]
    /\ session = "none" /\ panelCommands = 0 /\ panelRestarts = 0
    /\ collided = FALSE /\ interfered = FALSE

\* getOrCreateInternalState or getOrCreateState begins: the registry has an object, or one
\* is loaded.
PanelAccess(j, p, op, on) ==
    /\ panelJob[j].at = "idle"
    /\ panelCommands < MaxPanelCommands /\ panelCommands' = panelCommands + 1
    /\ panelJob' = [panelJob EXCEPT ![j] =
          [NoRequest EXCEPT !.at = IF cache[p] = 0 THEN "load" ELSE "plug", !.p = p,
                            !.o = cache[p], !.op = op, !.on = on]]
    /\ interfered' = (interfered \/ On(p) # {})
    /\ UNCHANGED <<cache, shown, plugLoaded, stored, session, panelRestarts, collided>>

\* startChargingTest, stopChargingTest and setContactorAction.  Only a start asks for a session.
SetOutputRunning(j, on) == PanelAccess(j, "hardware", "output", on)

\* The other toggles of a panel, and a poll of it, which only reads.  Of the hardware plug's other
\* toggles no value is followed, only that outputRunning is saved with them.
SetPanelToggle(j, p, op, on) ==
    /\ p = "hardware" /\ op = "plug" => ~on
    /\ PanelAccess(j, p, op, on)
PanelPolled(j, p) == PanelAccess(j, p, "read", FALSE)

\* An object that no request and no registry has.
Unheld(o) == (\A i \in PanelJobs : panelJob[i].o # o) /\ \A p \in Panels : cache[p] # o

\* The instance's row is read: a new object goes into the registry, whatever is there by now.
PanelLoads(j) ==
    /\ panelJob[j].at = "load"
    /\ \E o \in Objects :
         LET p == panelJob[j].p IN
         /\ Unheld(o) /\ \A x \in 1..(o - 1) : ~Unheld(x)
         /\ shown' = [shown EXCEPT ![o] = [Blank EXCEPT !["instance"] = stored[p]["instance"]]]
         /\ plugLoaded' = plugLoaded \ {o}
         /\ cache' = [cache EXCEPT ![p] = o]
         /\ panelJob' = [panelJob EXCEPT ![j].at = "plug", ![j].o = o]
    /\ UNCHANGED <<stored, session, panelCommands, panelRestarts, collided, interfered>>

\* The plug's row is read where the object has none; the panel of diagnostics does so only for
\* an operation on the plug.
PlugLoads(j) ==
    LET r == panelJob[j] IN
    /\ r.at = "plug"
    /\ IF r.o \in plugLoaded \/ (r.p = "diagnostics" /\ GroupOf(r.op) = "instance")
       THEN UNCHANGED <<shown, plugLoaded>>
       ELSE /\ shown' = [shown EXCEPT ![r.o]["plug"] = stored[r.p]["plug"]]
            /\ plugLoaded' = plugLoaded \cup {r.o}
    /\ panelJob' = [panelJob EXCEPT ![j] = IF r.op = "read" THEN NoRequest ELSE [r EXCEPT !.at = "have"]]
    /\ UNCHANGED <<cache, stored, session, panelCommands, panelRestarts, collided, interfered>>

\* A mutant of Assign: what is saved is read before the assignment.
AssignSavedEarly(j) ==
    LET r == panelJob[j] IN
    /\ shown' = [shown EXCEPT ![r.o][GroupOf(r.op)] = r.on]
    /\ panelJob' = [panelJob EXCEPT ![j].at = "save", ![j].saved = shown[r.o][GroupOf(r.op)]]

\* The toggle is set and the toggles of its group are collected to be saved.
Assign(j) ==
    LET r == panelJob[j] IN
    /\ shown' = [shown EXCEPT ![r.o][GroupOf(r.op)] = r.on]
    /\ panelJob' = [panelJob EXCEPT ![j].at = "save", ![j].saved = r.on]

\* A mutant of TestDecides: a session is not looked for.
TestRushes(j) ==
    /\ panelJob[j].at = "have" /\ panelJob[j].op = "output"
    /\ Assign(j)
    /\ UNCHANGED <<cache, plugLoaded, stored, session, panelCommands, panelRestarts, collided, interfered>>

\* setOutputRunning up to the check.
TestDecides(j) ==
    /\ panelJob[j].at = "have" /\ panelJob[j].op = "output"
    /\ IF panelJob[j].on /\ ~shown[panelJob[j].o]["plug"]
       THEN panelJob' = [panelJob EXCEPT ![j].at = "check"] /\ UNCHANGED shown
       ELSE Assign(j)
    /\ UNCHANGED <<cache, plugLoaded, stored, session, panelCommands, panelRestarts, collided, interfered>>

\* getActiveConnectorSession has answered: it goes by the row's status, and does not see a session
\* that is about to be claimed, nor one whose status was written over.
TestChecks(j) ==
    /\ panelJob[j].at = "check"
    /\ \/ /\ session = "active"
          /\ panelJob' = [panelJob EXCEPT ![j] = NoRequest] /\ UNCHANGED <<shown, collided>>
       \/ /\ session # "active" /\ Assign(j)
          /\ collided' = (collided \/ session = "hidden" \/ \E i \in PanelJobs : panelJob[i].at = "claim")
    /\ UNCHANGED <<cache, plugLoaded, stored, session, panelCommands, panelRestarts, interfered>>

\* The other toggles.  An operation of the plug other than the test leaves outputRunning as it is.
ToggleAssigned(j) ==
    /\ panelJob[j].at = "have" /\ panelJob[j].op # "output"
    /\ IF panelJob[j].p = "hardware" /\ panelJob[j].op = "plug"
       THEN /\ panelJob' = [panelJob EXCEPT ![j].at = "save", ![j].saved = shown[panelJob[j].o]["plug"]]
            /\ UNCHANGED shown
       ELSE Assign(j)
    /\ UNCHANGED <<cache, plugLoaded, stored, session, panelCommands, panelRestarts, collided, interfered>>

\* A selected plug that is unknown is refused after the other settings have been assigned; an
\* unknown plug or module elsewhere before anything is.
ToggleRefused(j) ==
    /\ panelJob[j].at = "have"
    /\ panelJob' = [panelJob EXCEPT ![j] = NoRequest]
    /\ \/ UNCHANGED <<shown, interfered>>
       \/ /\ panelJob[j].p = "hardware" /\ panelJob[j].op = "instance"
          /\ shown' = [shown EXCEPT ![panelJob[j].o]["instance"] = panelJob[j].on] /\ interfered' = TRUE
    /\ UNCHANGED <<cache, plugLoaded, stored, session, panelCommands, panelRestarts, collided>>

\* The save is done, or has failed and was logged.  The test then tells the CSMS its status.
PanelSaved(j) ==
    LET r == panelJob[j] IN
    /\ r.at = "save"
    /\ \/ /\ stored' = [stored EXCEPT ![r.p][GroupOf(r.op)] = r.saved]
          /\ UNCHANGED interfered
       \/ interfered' = TRUE /\ UNCHANGED stored
    /\ panelJob' = [panelJob EXCEPT ![j] = NoRequest]
    /\ UNCHANGED <<cache, shown, plugLoaded, session, panelCommands, panelRestarts, collided>>

\* assertNoHardwareTestCollision, with isHardwareTestOutputRunning.
SessionAsks(j) ==
    /\ panelJob[j].at = "idle"
    /\ panelCommands < MaxPanelCommands /\ panelCommands' = panelCommands + 1
    /\ ~OutputRunning
    /\ panelJob' = [panelJob EXCEPT ![j].at = "claim"]
    /\ UNCHANGED <<cache, shown, plugLoaded, stored, session, panelRestarts, collided, interfered>>

\* startChargingSession or adoptRemoteSession writes the row, or finds it taken; a session in
\* Preparing counts as one that charges.
SessionClaims(j) ==
    /\ panelJob[j].at = "claim"
    /\ session' \in {session, "active"}
    /\ panelJob' = [panelJob EXCEPT ![j] = NoRequest]
    /\ UNCHANGED <<cache, shown, plugLoaded, stored, panelCommands, panelRestarts, collided, interfered>>

\* An operation that does not look at the session writes the status of its row over
\* (clearConnectorFault), and another may write one of a session again (connectEv).
SessionHides ==
    /\ session = "active" /\ session' = "hidden"
    /\ UNCHANGED <<cache, shown, plugLoaded, stored, panelJob, panelCommands, panelRestarts, collided, interfered>>
SessionShows ==
    /\ session = "hidden" /\ session' = "active"
    /\ UNCHANGED <<cache, shown, plugLoaded, stored, panelJob, panelCommands, panelRestarts, collided, interfered>>

\* The row is written by a stop, a cancellation, the expiry of Preparing or the end of Finishing.
SessionLeaves ==
    /\ session # "none" /\ session' = "none"
    /\ UNCHANGED <<cache, shown, plugLoaded, stored, panelJob, panelCommands, panelRestarts, collided, interfered>>

\* The process is restarted, or the instance disposed: a test that was running is unseen
\* until the cache is loaded.
PanelRestarted ==
    /\ panelRestarts < MaxPanelRestarts /\ panelRestarts' = panelRestarts + 1
    /\ cache' = [p \in Panels |-> 0] /\ shown' = [o \in Objects |-> Blank] /\ plugLoaded' = {}
    /\ panelJob' = [j \in PanelJobs |-> NoRequest]
    /\ interfered' = (interfered \/ \E p \in Panels : On(p) # {})
    /\ collided' = (collided \/ stored["hardware"]["plug"] \/ interfered')
    /\ UNCHANGED <<stored, session, panelCommands>>

PanelNext ==
    \/ \E j \in PanelJobs, on \in BOOLEAN :
         \/ SetOutputRunning(j, on)
         \/ \E p \in Panels, op \in {"plug", "instance"} : SetPanelToggle(j, p, op, on)
    \/ \E j \in PanelJobs :
         \/ \E p \in Panels : PanelPolled(j, p)
         \/ PanelLoads(j) \/ PlugLoads(j) \/ TestDecides(j) \/ TestChecks(j) \/ ToggleAssigned(j)
         \/ ToggleRefused(j) \/ PanelSaved(j) \/ SessionAsks(j) \/ SessionClaims(j)
    \/ SessionHides \/ SessionShows \/ SessionLeaves \/ PanelRestarted

PanelSpec == PanelInit /\ [][PanelNext]_panelVars

-----------------------------------------------------------------------------
\* A test and a session "must not run concurrently on the same connector, each blind to the
\* other" (hardware-test-state.ts:422), unless the test passed its check while a session had passed
\* its own and not written its row yet (each tests, waits and then acts: hardware-test-state.ts:
\* 437-448, connector-sessions.ts:685-701), or over a session whose status was written over
\* (connector-sessions.ts:577), or a restart hid a running test; or requests of the panel overlapped.
NoCollision == ~collided /\ ~interfered => ~(session # "none" /\ OutputRunning)

\* Unless requests overlapped (the saves are whole snapshots, and each may load an object of
\* its own), a save failed or a change was refused halfway, what a screen shows is what survives
\* a restart.
ShownIsStored ==
    ~interfered => \A p \in Panels, g \in Groups :
        cache[p] # 0 /\ On(p) = {} /\ (g = "plug" => cache[p] \in plugLoaded) =>
            stored[p][g] = shown[cache[p]][g]
=============================================================================

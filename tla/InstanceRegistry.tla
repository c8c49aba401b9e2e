-------------------------- MODULE InstanceRegistry --------------------------
(***************************************************************************)
(* The registry of runtime entries (runtime.ts) of one device instance and *)
(* the requests that read its row, make its entry and change or delete the *)
(* row (app/api/device-instances/[id]/route.ts and its start and stop).    *)
(*                                                                         *)
(* A request awaits the database between its steps, and the listeners of   *)
(* an entry write the row's status without awaiting it.  DeviceLink        *)
(* follows one entry in detail; here an entry's client is up or not.       *)
(***************************************************************************)
EXTENDS Naturals

CONSTANTS
    Entries, NoEntry,   \* runtime entries
    Urls, NoUrl,        \* CSMS URLs
    HttpRequests,       \* HTTP requests that run at a time
    MaxRequests,        \* bound on the requests of a behaviour
    MaxStatuses         \* bound on the statuses on their way at a time

ASSUME NoEntryAssumption == NoEntry \notin Entries
ASSUME MaxStatusesAssumption == MaxStatuses \in Nat

VARIABLES
    present, csmsUrl, shownUp,  \* the row; shownUp: its status is CONNECTED or CONNECTING
    registry, entryUrl,         \* registry.get(instance.id), and the URL each client is bound to
    up,                         \* entries whose client connects, is connected or waits to retry
    ahead,                      \* entries that a Reset or an orphaned timer is still to connect
    statuses,                   \* boots unanswered and writes of the status on their way
    request, requests,
    survivors,      \* history: the entries that were ahead when they were disposed of
    lateStatus,     \* history: the row's status came on its way last, with no entry left
    halfChanged,    \* history: a PATCH failed whose disposal was done
    mixedUp     \* history: an entry was being made while another was or while one was disposed of,
                \* or a PATCH was under way when another came or when the status changed

clientVars == <<up, ahead, statuses, survivors>>
registryVars == <<present, csmsUrl, shownUp, registry, entryUrl, clientVars, request, requests,
                  lateStatus, halfChanged, mixedUp>>

NoRequestUnderWay ==
    [at |-> "idle", start |-> FALSE, url |-> NoUrl, up |-> FALSE, entry |-> NoEntry, new |-> NoUrl]
Is(r, at) == request[r].at = at
Moves(r, at) == request' = [request EXCEPT ![r].at = at]
Ends(r) == request' = [request EXCEPT ![r] = NoRequestUnderWay]
Resting == \A r \in HttpRequests : Is(r, "idle")

\* What must not cross: an entry being made and another, or the row's URL or end.
Making == {r \in HttpRequests : request[r].at \in {"look", "prepare"}}
Changing == {r \in HttpRequests : request[r].at \in {"write", "remove"}}

\* A PATCH relies on the status that it read.
AtPatch == \E r \in HttpRequests : Is(r, "change")

RegistryInit ==
    /\ present = TRUE /\ csmsUrl = (CHOOSE u \in Urls : TRUE) /\ shownUp = FALSE
    /\ registry = NoEntry /\ entryUrl = [e \in Entries |-> NoUrl]
    /\ up = {} /\ ahead = {} /\ statuses = 0 /\ survivors = {} /\ lateStatus = FALSE
    /\ request = [r \in HttpRequests |-> NoRequestUnderWay] /\ requests = 0
    /\ halfChanged = FALSE /\ mixedUp = FALSE

Comes(r) == Is(r, "idle") /\ present /\ requests < MaxRequests /\ requests' = requests + 1

-----------------------------------------------------------------------------
(* startDeviceInstance, and callOcpp or getOrCreateChargePointSession, which only need the
   entry *)

RowRead(r, start) ==
    /\ Comes(r)
    /\ request' = [request EXCEPT ![r] = [@ EXCEPT !.at = "look", !.start = start, !.url = csmsUrl]]
    /\ mixedUp' = (mixedUp \/ Changing # {})
    /\ UNCHANGED <<lateStatus, halfChanged, present, csmsUrl, shownUp, registry, entryUrl,
                   clientVars>>

\* A start goes on with the entry; the others only needed it.
HasEntry(r, e) ==
    IF request[r].start THEN request' = [request EXCEPT ![r].at = "mark", ![r].entry = e]
    ELSE Ends(r)

\* A mutant of EntryLooked: an entry is made each time.
EntryNotLooked(r) ==
    /\ Is(r, "look")
    /\ Moves(r, "prepare")
    /\ mixedUp' = (mixedUp \/ \E q \in HttpRequests : Is(q, "prepare"))
    /\ UNCHANGED <<lateStatus, halfChanged, present, csmsUrl, shownUp, registry, entryUrl,
                   clientVars, requests>>

\* getOrCreateEntry: the entry there is, or the reads that a new one takes.
EntryLooked(r) ==
    /\ Is(r, "look")
    /\ IF registry # NoEntry
       THEN HasEntry(r, registry) /\ UNCHANGED mixedUp
       ELSE Moves(r, "prepare") /\ mixedUp' = (mixedUp \/ \E q \in HttpRequests : Is(q, "prepare"))
    /\ UNCHANGED <<lateStatus, halfChanged, present, csmsUrl, shownUp, registry, entryUrl,
                   clientVars, requests>>

\* createEntry, which replaces what is there by now.
EntryMade(r, e) ==
    /\ Is(r, "prepare") /\ entryUrl[e] = NoUrl
    /\ entryUrl' = [entryUrl EXCEPT ![e] = request[r].url]
    /\ registry' = e /\ HasEntry(r, e)
    /\ UNCHANGED <<lateStatus, halfChanged, present, csmsUrl, shownUp, clientVars, requests,
                   mixedUp>>

rowStatus == <<shownUp, lateStatus>>
RowSays(connected) == shownUp' = connected /\ lateStatus' = FALSE

\* The row says CONNECTING; of a deleted one the update throws.
StartMarks(r) ==
    /\ Is(r, "mark")
    /\ IF present THEN RowSays(TRUE) /\ Moves(r, "connect") ELSE UNCHANGED rowStatus /\ Ends(r)
    /\ mixedUp' = (mixedUp \/ AtPatch)
    /\ UNCHANGED <<halfChanged, present, csmsUrl, registry, entryUrl, clientVars, requests>>

\* A client that waits to retry keeps its timer, which nothing clears any more.
StartConnects(r) ==
    /\ Is(r, "connect") /\ Ends(r)
    /\ up' = up \cup {request[r].entry}
    /\ UNCHANGED ahead \/ (request[r].entry \in up /\ ahead' = ahead \cup {request[r].entry})
    /\ UNCHANGED <<statuses, survivors, lateStatus, halfChanged, present, csmsUrl, shownUp,
                   registry, entryUrl, requests, mixedUp>>

-----------------------------------------------------------------------------
(* stopDeviceInstance *)

StopCloses(r) ==
    /\ Comes(r) /\ Moves(r, "halt")
    /\ up' = up \ {registry}
    /\ UNCHANGED <<ahead, statuses, survivors, lateStatus, halfChanged, present, csmsUrl,
                   shownUp, registry, entryUrl, mixedUp>>

StopMarks(r) ==
    /\ Is(r, "halt") /\ Ends(r)
    /\ IF present THEN RowSays(FALSE) ELSE UNCHANGED rowStatus
    /\ UNCHANGED <<halfChanged, present, csmsUrl, registry, entryUrl, clientVars, requests,
                   mixedUp>>

-----------------------------------------------------------------------------
(* PATCH and DELETE *)

\* A mutant of DisposeEntry: the entry stays for the next start.
DisposeKeepsEntry == up' = up \ {registry} /\ UNCHANGED <<registry, survivors>>

\* disposeDeviceInstance, which leaves what is ahead of the client and on its way to the row.
DisposeEntry ==
    /\ up' = up \ {registry} /\ registry' = NoEntry
    /\ survivors' = survivors \cup ({registry} \cap ahead)

\* A start that has its entry in hand crosses, too: it connects what is disposed of.
DisposalCrosses == Making # {} \/ \E q \in HttpRequests : request[q].at \in {"mark", "connect"}

\* The existing row is read.
PatchReads(r, u) ==
    /\ Comes(r)
    /\ request' = [request EXCEPT ![r] = [@ EXCEPT !.at = "change", !.url = csmsUrl, !.up = shownUp, !.new = u]]
    /\ mixedUp' = (mixedUp \/ \E q \in HttpRequests : request[q].at \in {"change", "write"})
    /\ UNCHANGED <<lateStatus, halfChanged, present, csmsUrl, shownUp, registry, entryUrl,
                   clientVars>>

PatchDisposes(r) ==
    /\ Is(r, "change") /\ Moves(r, "write")
    /\ IF request[r].new # request[r].url
       THEN DisposeEntry /\ mixedUp' = (mixedUp \/ DisposalCrosses)
       ELSE UNCHANGED <<registry, up, survivors, mixedUp>>
    /\ UNCHANGED <<lateStatus, halfChanged, ahead, statuses, present, csmsUrl, shownUp, entryUrl,
                   requests>>

\* The transaction: the URL, and DISCONNECTED if another status was read with the old one.
PatchWrites(r) ==
    /\ Is(r, "write") /\ Ends(r)
    /\ csmsUrl' = IF present THEN request[r].new ELSE csmsUrl
    /\ IF present /\ request[r].new # request[r].url /\ request[r].up
       THEN RowSays(FALSE)
       ELSE UNCHANGED rowStatus
    /\ UNCHANGED <<halfChanged, present, registry, entryUrl, clientVars, requests, mixedUp>>

\* The transaction fails: the chargePointId of the same PATCH is in use.
PatchFails(r) ==
    /\ Is(r, "write") /\ Ends(r)
    /\ halfChanged' = (halfChanged \/ request[r].new # request[r].url)
    /\ UNCHANGED <<lateStatus, present, csmsUrl, shownUp, registry, entryUrl, clientVars,
                   requests, mixedUp>>

DeleteDisposes(r) ==
    /\ Comes(r) /\ Moves(r, "remove")
    /\ DisposeEntry /\ mixedUp' = (mixedUp \/ DisposalCrosses)
    /\ UNCHANGED <<lateStatus, halfChanged, ahead, statuses, present, csmsUrl, shownUp, entryUrl>>

DeleteRemoves(r) ==
    /\ Is(r, "remove") /\ Ends(r)
    /\ present' = FALSE /\ RowSays(FALSE)
    /\ UNCHANGED <<halfChanged, csmsUrl, registry, entryUrl, clientVars, requests, mixedUp>>

-----------------------------------------------------------------------------
(* The client of an entry, and its listeners *)

\* The CSMS has an entry's client Reset; performReset goes on whatever becomes of the entry.
ResetComes(e) ==
    /\ e \in up \ survivors
    /\ ahead' = ahead \cup {e}
    /\ UNCHANGED <<up, statuses, survivors, present, rowStatus, csmsUrl, registry, entryUrl,
                   request, requests, halfChanged, mixedUp>>

ResetCloses(e) ==
    /\ e \in up \cap ahead
    /\ up' = up \ {e}
    /\ UNCHANGED <<ahead, statuses, survivors, present, rowStatus, csmsUrl, registry, entryUrl,
                   request, requests, halfChanged, mixedUp>>

\* The delay of a Reset, or a backoff timer that connect replaced, ends.
TimerConnects(e) ==
    /\ e \in ahead
    /\ up' = up \cup {e} /\ ahead' = ahead \ {e}
    /\ UNCHANGED <<statuses, survivors, present, rowStatus, csmsUrl, registry, entryUrl, request,
                   requests, halfChanged, mixedUp>>

\* A boot awaits its answer, or a listener writes without an await.  An entry that was disposed
\* of boots no more, and its other listeners are silent.
StatusComes(e) ==
    /\ e \in up \ survivors /\ statuses < MaxStatuses
    /\ statuses' = statuses + 1
    /\ UNCHANGED <<up, ahead, survivors, present, rowStatus, csmsUrl, registry, entryUrl, request,
                   requests, halfChanged, mixedUp>>

\* CONNECTING, CONNECTED or another status is written, after a stop or a disposal too; the
\* write of a deleted row is swallowed.
StatusLands(connected) ==
    /\ statuses > 0 /\ statuses' = statuses - 1
    /\ IF present
       THEN shownUp' = connected /\ lateStatus' = (registry = NoEntry)
       ELSE UNCHANGED rowStatus
    /\ mixedUp' = (mixedUp \/ AtPatch)
    /\ UNCHANGED <<up, ahead, survivors, present, csmsUrl, registry, entryUrl, request, requests,
                   halfChanged>>

RegistryNext ==
    \/ \E r \in HttpRequests :
         \/ \E start \in BOOLEAN : RowRead(r, start)
         \/ EntryLooked(r) \/ (\E e \in Entries : EntryMade(r, e)) \/ StartMarks(r) \/ StartConnects(r)
         \/ StopCloses(r) \/ StopMarks(r)
         \/ (\E u \in Urls : PatchReads(r, u)) \/ PatchDisposes(r) \/ PatchWrites(r) \/ PatchFails(r)
         \/ DeleteDisposes(r) \/ DeleteRemoves(r)
    \/ \E e \in Entries : ResetComes(e) \/ ResetCloses(e) \/ TimerConnects(e) \/ StatusComes(e)
    \/ \E connected \in BOOLEAN : StatusLands(connected)

RegistrySpec == RegistryInit /\ [][RegistryNext]_registryVars

-----------------------------------------------------------------------------
\* Unless requests mixedUp so, a client that connects is in the registry, or it was disposed of
\* with a connect ahead that nothing clears (remote-commands.ts:535, client.ts:184): starts,
\* stops, changes and deletions reach the one that does, or there are two connections of one
\* charge point and nobody can close the first (getOrCreateEntry, runtime.ts:189-190, 214).
ClientsAreHeld == ~mixedUp => up \subseteq {registry} \cup survivors

EntryServesRow == registry # NoEntry => present /\ (Changing = {} => entryUrl[registry] = csmsUrl)
TornDownIsShown == registry = NoEntry /\ Resting => ~shownUp \/ halfChanged \/ lateStatus

\* Under the same condition what is in the registry is bound to the stored URL, and nothing
\* is left there of a deleted instance; and an instance without an entry is shown as connected
\* only if a PATCH failed after it had disposed of the entry, or if the last to write the status
\* was an event of that entry, or an answer to its boot, that was on its way at the disposal
\* (app/api/device-instances/[id]/route.ts:74-86, 138; runtime.ts:136-169).
RowAndEntryAgree == ~mixedUp => EntryServesRow /\ TornDownIsShown
=============================================================================

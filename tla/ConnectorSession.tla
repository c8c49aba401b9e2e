------------------------- MODULE ConnectorSession -------------------------
(***************************************************************************)
(* One connector of an emulated charge point: its persisted row, and the   *)
(* request handlers of connector-sessions.ts that read and write it.       *)
(*                                                                         *)
(* The program is one Node process.  A handler runs to its next await      *)
(* without interruption, and every database statement and every OCPP call  *)
(* is an await, so the step of this model is "one database statement or    *)
(* one OCPP call, with the code up to the next one".  A handler that has   *)
(* read the row keeps a snapshot of it (call[p].s) and acts on the         *)
(* snapshot, however old it has become; the conditional writes             *)
(* (updateMany ... where) test the row as it is when they run.             *)
(*                                                                         *)
(* Left out: logging, the energy and cost figures, the in-memory mirror of *)
(* the status, the meter timer.  The calls that handlers wait for          *)
(* (StartTransaction, StopTransaction) are answered by a CSMS of which     *)
(* only the set of open transactions is kept.                              *)
(***************************************************************************)
EXTENDS Naturals, Sequences

CONSTANTS
    Calls,       \* the requests that can be running at the same time
    Ops,         \* the operations requests may ask for, a subset of AllOps
    Tags,        \* id tags that start sessions
    NoTag,       \* a null activeIdTag
    TxIds,       \* transaction ids the CSMS may issue
    Faults,      \* what may go wrong, a subset of AllFaults
    MaxRequests, \* bound on the requests other than polls
    OneOperator  \* requests other than polls wait for the one before them

AllOps == {"start", "remoteStart", "remoteStop", "stop", "connectEv",
           "disconnectEv", "lock", "unlock", "clearFault"}

AllFaults == {"drop",   \* the link to the CSMS goes down
              "lost",   \* a call fails though the CSMS has acted on it
              "crash"}  \* the process restarts

ASSUME OpsAssumption == Ops \subseteq AllOps
ASSUME FaultsAssumption == Faults \subseteq AllFaults
ASSUME TagsAssumption == NoTag \notin Tags
ASSUME TxIdsAssumption == TxIds \subseteq Nat \ {0}
ASSUME MaxRequestsAssumption == MaxRequests \in Nat
ASSUME OneOperatorAssumption == OneOperator \in BOOLEAN

VARIABLES
    row,       \* the connector's DeviceInstanceConnectorState
    clock,     \* the last timestamp written; each new Date() is a new one
    horizon,   \* timestamps up to here are older than the timeout they start
    timer,     \* preparationTimers: the deadline's start, 0 if none is armed
    call,      \* what each running request is doing
    requests,  \* how many requests other than polls have begun
    entry,     \* the process has a runtime entry for the instance
    online,    \* its WebSocket is connected
    remoteTx,  \* remote-commands.ts's activeTransactions entry, 0 if none
    outbox,    \* queued messages, oldest first
    open,      \* external: transactions open at the CSMS
    issued,    \* external: transaction ids the CSMS has issued
    started    \* attempts a StartTransaction was sent for, once per sending

rowVars  == <<row, clock, timer>>
csmsVars == <<outbox, open, issued>>
linkVars == <<entry, online>>
vars == <<row, clock, horizon, timer, call, requests, entry, online,
          remoteTx, outbox, open, issued, started>>

-----------------------------------------------------------------------------
(* Types.  Timestamps and transaction ids are naturals, 0 stands for null. *)

Statuses == {"Available", "Preparing", "Charging", "Finishing", "Faulted"}

Row == [status : Statuses, locked : BOOLEAN, evConnected : BOOLEAN,
        preparingSince : Nat, activeStartPending : BOOLEAN,
        activeIdTag : Tags \cup {NoTag}, activeTransactionId : Nat,
        activeStartedAt : Nat, activeIsRemote : BOOLEAN,
        finishingSince : Nat,
        finishingNextStatus : {"null", "Available", "Preparing"},
        transactionCounter : Nat]

FreshRow == [status |-> "Available", locked |-> FALSE, evConnected |-> FALSE,
             preparingSince |-> 0, activeStartPending |-> FALSE,
             activeIdTag |-> NoTag, activeTransactionId |-> 0,
             activeStartedAt |-> 0, activeIsRemote |-> FALSE,
             finishingSince |-> 0, finishingNextStatus |-> "null",
             transactionCounter |-> 0]

\* A request is at the database statement or call it will perform next.
PCs == {"idle", "read", "expire", "claim", "finish", "reread", "armFinish",
        "claimed", "call", "accepted", "rejected", "adopted", "closeLost", "promote",
        "body", "arm", "write", "clear", "unplugged", "cancelRemote",
        "remoteCall", "remoteAccepted", "remoteKept", "remoteAdopt", "remoteStopCall"}

Call == [op : AllOps \cup {"none", "poll", "remoteWait", "release"}, pc : PCs,
         s : Row,         \* the row as last read
         att : Nat,       \* activeStartedAt of the attempt it claimed, or its stoppedAt
         attTag : Tags \cup {NoTag},  \* its activeIdTag
         local : Nat,     \* its local transaction id
         tag : Tags \cup {NoTag},     \* the tag the request was made with
         tx : Nat,        \* a transaction id the CSMS has issued
         since : Nat,     \* the deadline it has to arm, 0 if none
         fault : BOOLEAN, \* the stop cause is a fault
         quiet : BOOLEAN] \* skipCsmsNotify

Idle == [op |-> "none", pc |-> "idle", s |-> FreshRow, att |-> 0,
         attTag |-> NoTag, local |-> 0, tag |-> NoTag, tx |-> 0, since |-> 0,
         fault |-> FALSE, quiet |-> FALSE]

Message == [action : {"StartTransaction", "StopTransaction"}, tx : Nat]

\* new Date(): a timestamp of its own.  A stamp that a handler takes when it begins
\* and writes later is taken here when it is written.
Now == clock + 1

-----------------------------------------------------------------------------
(* The row *)

\* The data that every release of a connector writes.
Released(r, status) ==
    [r EXCEPT !.status = status, !.locked = FALSE, !.preparingSince = 0,
              !.activeStartPending = FALSE, !.activeIdTag = NoTag,
              !.activeTransactionId = 0, !.activeStartedAt = 0,
              !.activeIsRemote = FALSE]

HandshakeComplete(r) == r.evConnected /\ r.activeIdTag # NoTag

\* now - preparingSince >= ConnectionTimeOut.
WindowElapsed(r) ==
    r.status = "Preparing" /\ r.preparingSince # 0 /\ r.preparingSince <= horizon

\* A mutant of ExpiryDue: a vehicle alone keeps the window open.
ExpiryDueUnplugged(r) == WindowElapsed(r) /\ ~r.evConnected /\ r.activeIdTag = NoTag

ExpiryDue(r) == WindowElapsed(r) /\ ~HandshakeComplete(r)

ClaimDue(r) ==
    /\ r.status = "Preparing"
    /\ r.activeStartedAt # 0 /\ HandshakeComplete(r)
    /\ ~r.activeIsRemote /\ ~r.activeStartPending

\* A mutant of FinishDue: the hold ends only for a connector without a vehicle.
FinishDueUnplugged(r) ==
    /\ r.status = "Finishing" /\ ~r.evConnected
    /\ r.finishingSince # 0 /\ r.finishingSince <= horizon

FinishDue(r) ==
    r.status = "Finishing" /\ r.finishingSince # 0 /\ r.finishingSince <= horizon

\* resolvePendingPromotion: what a handler does next, from the row it read.
ResolveAt(r) ==
    IF ExpiryDue(r) THEN "expire"
    ELSE IF ClaimDue(r) THEN "claim"
    ELSE IF FinishDue(r) THEN "finish"
    ELSE "body"

\* Mutants of StillClaimed: it tests only the status; it tests nothing; it takes
\* an adopted attempt for another one.
StillPreparing(p) == row.status = "Preparing"

NotAsked(p) == TRUE

StillUnadopted(p) ==
    /\ row.status = "Preparing" /\ row.activeStartPending /\ ~row.activeIsRemote
    /\ row.activeStartedAt = call[p].att
    /\ row.activeIdTag = call[p].attTag

\* The where clause of every write that ends a claimed attempt.
StillClaimed(p) ==
    /\ row.status = "Preparing" /\ row.activeStartPending
    /\ row.activeStartedAt = call[p].att
    /\ row.activeIdTag = call[p].attTag

-----------------------------------------------------------------------------
(* Moving a request along *)

At(p, pc) == call[p].pc = pc
Becomes(p, c) == call' = [call EXCEPT ![p] = c]
Goto(p, pc) == Becomes(p, [call[p] EXCEPT !.pc = pc])
Return(p) == Becomes(p, Idle)

\* Handlers end by listing the connector states, which resolves once more.
List(p) == Becomes(p, [Idle EXCEPT !.op = "poll", !.pc = "read"])

\* A handler that finds a session stops it, then lists.
Release(p) == Becomes(p, [Idle EXCEPT !.op = "release", !.pc = "read"])

\* A handler reads the row again, and has no use for what it knew.
Again(p) == Becomes(p, [call[p] EXCEPT !.pc = "reread", !.s = FreshRow, !.att = 0,
                                       !.attTag = NoTag, !.local = 0, !.tx = 0])

-----------------------------------------------------------------------------
(* Requests begin *)

\* listConnectorStates, from the Home screen.
Poll(p) ==
    /\ At(p, "idle")
    /\ List(p)
    /\ UNCHANGED <<rowVars, horizon, requests, linkVars, remoteTx, csmsVars, started>>

\* The deadline armed by schedulePreparationExpiry passes.
TimerFires(p) ==
    /\ At(p, "idle")
    /\ timer # 0 /\ timer <= horizon
    /\ timer' = 0
    /\ List(p)
    /\ UNCHANGED <<row, clock, horizon, requests, linkVars, remoteTx, csmsVars, started>>

Begin(p, op, first) ==
    /\ At(p, "idle")
    /\ op \in Ops
    /\ requests < MaxRequests
    /\ OneOperator => \A q \in Calls : call[q].op \in {"none", "poll"}
    /\ requests' = requests + 1
    /\ Becomes(p, [first EXCEPT !.op = op])
    /\ UNCHANGED <<rowVars, horizon, linkVars, csmsVars, started>>

BeginStart(p) ==
    /\ \E tag \in Tags : Begin(p, "start", [Idle EXCEPT !.pc = "read", !.tag = tag])
    /\ UNCHANGED remoteTx

\* handleRemoteStartTransaction accepts: no start pending, no transaction held.
\* The mirrored status it also tests may lag behind the row, so no test here.  The
\* tag may not be authorized: then what is prepared is released.
BeginRemoteStart(p) ==
    /\ online /\ remoteTx = 0
    /\ \A q \in Calls : call[q].op \notin {"remoteStart", "remoteWait"}
    /\ \E tag \in Tags, pc \in {"read", "cancelRemote"} :
           Begin(p, "remoteStart", [Idle EXCEPT !.pc = pc, !.tag = tag])
    /\ UNCHANGED remoteTx

\* handleRemoteStopTransaction finds the transaction; stopTransaction forgets it.
BeginRemoteStop(p) ==
    /\ online /\ remoteTx # 0
    /\ Begin(p, "remoteStop",
             [Idle EXCEPT !.pc = "remoteStopCall", !.tx = remoteTx, !.quiet = TRUE])
    /\ remoteTx' = 0

BeginStop(p) ==
    /\ \E fault \in BOOLEAN :
           Begin(p, "stop", [Idle EXCEPT !.pc = "read", !.fault = fault])
    /\ UNCHANGED remoteTx

BeginOther(p) ==
    /\ \E op \in {"connectEv", "disconnectEv", "lock", "unlock"} :
           Begin(p, op, [Idle EXCEPT !.pc = "read"])
    /\ UNCHANGED remoteTx

\* The screens offer it for a faulted connector.
BeginClearFault(p) ==
    /\ row.status = "Faulted"
    /\ Begin(p, "clearFault", [Idle EXCEPT !.pc = "write"])
    /\ UNCHANGED remoteTx

-----------------------------------------------------------------------------
(* Reading and resolving *)

\* getOrCreateState or findMany, then the choice resolvePendingPromotion makes.
\* The lock handlers do not resolve first.
Read(p) ==
    /\ At(p, "read")
    /\ Becomes(p, [call[p] EXCEPT !.s = row,
                                  !.pc = IF call[p].op \in {"lock", "unlock"}
                                          THEN "body" ELSE ResolveAt(row)])
    /\ UNCHANGED <<rowVars, horizon, requests, linkVars, remoteTx, csmsVars, started>>

\* findUniqueOrThrow after a conditional write: the handler goes on with this row.
Reread(p) ==
    /\ At(p, "reread")
    /\ Becomes(p, [call[p] EXCEPT !.s = row,
                                  !.pc = IF call[p].since = 0 THEN "body" ELSE "armFinish"])
    /\ UNCHANGED <<rowVars, horizon, requests, linkVars, remoteTx, csmsVars, started>>

\* An incomplete handshake has timed out.
Expire(p) ==
    /\ At(p, "expire")
    /\ row' = IF row.status = "Preparing" /\ row.preparingSince = call[p].s.preparingSince
              THEN Released(row, "Available") ELSE row
    /\ Again(p)
    /\ UNCHANGED <<clock, timer, horizon, requests, linkVars, remoteTx, csmsVars, started>>

\* The status a Finishing connector settles on.
FinalStatus(r) ==
    IF r.finishingNextStatus = "null" THEN "Available" ELSE r.finishingNextStatus

\* A mutant of SettledSince: no new window opens.
NeverSettledSince(final) == 0

\* preparingSince once the hold is over.
SettledSince(final) == IF final = "Preparing" THEN Now ELSE 0

\* The Finishing hold is over.
FinishHold(p) ==
    /\ At(p, "finish")
    /\ \/ /\ row.status = "Finishing"
          /\ LET final == FinalStatus(call[p].s)
                 now   == SettledSince(final)
             IN /\ row' = [row EXCEPT !.status = final, !.locked = FALSE,
                                      !.finishingSince = 0,
                                      !.finishingNextStatus = "null",
                                      !.preparingSince = now]
                /\ clock' = IF now # 0 THEN now ELSE clock
                /\ Becomes(p, [call[p] EXCEPT !.pc = "reread", !.s = FreshRow, !.since = now])
       \/ /\ row.status # "Finishing"
          /\ Again(p)
          /\ UNCHANGED <<row, clock>>
    /\ UNCHANGED <<timer, horizon, requests, linkVars, remoteTx, csmsVars, started>>

-----------------------------------------------------------------------------
(* The handshake is complete: report the transaction and start charging *)

\* A mutant of ClaimMatches: a claimed attempt is claimed again.
ClaimMatchesAgain(p) ==
    /\ row.status = "Preparing"
    /\ row.activeStartedAt = call[p].s.activeStartedAt
    /\ row.activeIdTag = call[p].s.activeIdTag
    /\ row.evConnected

\* The where clause of the claim, from the snapshot taken before it.
ClaimMatches(p) ==
    /\ row.status = "Preparing" /\ ~row.activeStartPending
    /\ row.activeStartedAt = call[p].s.activeStartedAt
    /\ row.activeIdTag = call[p].s.activeIdTag
    /\ row.evConnected

NextLocalId(r) == r.transactionCounter + 1

\* Only the request whose conditional write matches goes on to report.
Claim(p) ==
    /\ At(p, "claim")
    /\ \/ /\ ClaimMatches(p)
          /\ LET localId == NextLocalId(call[p].s)
             IN /\ row' = [row EXCEPT !.activeStartPending = TRUE,
                                      !.transactionCounter = localId]
                /\ Becomes(p, [call[p] EXCEPT !.pc = "claimed",
                                              !.att = call[p].s.activeStartedAt,
                                              !.attTag = call[p].s.activeIdTag,
                                              !.local = localId])
       \/ /\ ~ClaimMatches(p)
          /\ Again(p)
          /\ UNCHANGED row
    /\ UNCHANGED <<clock, timer, horizon, requests, linkVars, remoteTx, csmsVars, started>>

\* The re-read after the claim; a connected instance then sends StartTransaction.
ReadClaimed(p) ==
    /\ At(p, "claimed")
    /\ LET sends == row.activeIdTag # NoTag /\ online
       IN /\ Becomes(p, [call[p] EXCEPT !.s = row, !.pc = IF sends THEN "call" ELSE "promote"])
          /\ started' = IF sends THEN Append(started, call[p].att) ELSE started
    /\ UNCHANGED <<rowVars, horizon, requests, linkVars, remoteTx, csmsVars>>

\* external: the CSMS answers StartTransaction, Accepted with a fresh id or not.
CsmsAccepts(p, reply) ==
    \E t \in TxIds \ issued :
        /\ online
        /\ issued' = issued \cup {t}
        /\ open' = open \cup {t}
        /\ Becomes(p, [call[p] EXCEPT !.pc = reply, !.tx = t])

StartAccepted(p) ==
    /\ At(p, "call")
    /\ CsmsAccepts(p, "accepted")
    /\ UNCHANGED <<rowVars, horizon, requests, linkVars, remoteTx, outbox, started>>

StartRejected(p) ==
    /\ At(p, "call") /\ online
    /\ Goto(p, "rejected")
    /\ UNCHANGED <<rowVars, horizon, requests, linkVars, remoteTx, csmsVars, started>>

\* The call throws, perhaps after the CSMS has acted on it: StartTransaction is
\* queued and the session goes on under its local id.
StartFails(p) ==
    /\ \/ At(p, "call") /\ Faults \cap {"drop", "lost"} # {}
       \/ At(p, "accepted") /\ "lost" \in Faults
    /\ outbox' = Append(outbox, [action |-> "StartTransaction", tx |-> 0])
    /\ Becomes(p, [call[p] EXCEPT !.pc = "promote", !.tx = 0])
    /\ UNCHANGED <<rowVars, horizon, requests, linkVars, remoteTx, open, issued, started>>

Reject(p) ==
    /\ At(p, "rejected")
    /\ row' = IF StillClaimed(p) THEN Released(row, "Available") ELSE row
    /\ Again(p)
    /\ UNCHANGED <<clock, timer, horizon, requests, linkVars, remoteTx, csmsVars, started>>

\* Math.max.
LaterOf(m, n) == IF m > n THEN m ELSE n

\* The row takes the CSMS's transaction id, unless the attempt is gone.
Adopt(p) ==
    /\ At(p, "accepted")
    /\ LET t == call[p].tx
       IN \/ /\ StillClaimed(p)
             /\ row' = [row EXCEPT !.activeTransactionId = t, !.activeIsRemote = TRUE,
                                   !.transactionCounter =
                                       LaterOf(call[p].s.transactionCounter, t)]
             /\ Goto(p, "adopted")
          \/ /\ ~StillClaimed(p)
             /\ Goto(p, "closeLost")
             /\ UNCHANGED row
    /\ UNCHANGED <<clock, timer, horizon, requests, linkVars, remoteTx, csmsVars, started>>

\* The re-read after the adoption.
ReadAdopted(p) ==
    /\ At(p, "adopted")
    /\ Becomes(p, [call[p] EXCEPT !.s = row, !.pc = "promote", !.tx = 0])
    /\ UNCHANGED <<rowVars, horizon, requests, linkVars, remoteTx, csmsVars, started>>

\* A mutant of SendOrQueueStop: nothing is sent.
SendNothing(t) == UNCHANGED csmsVars

\* StopTransaction for t: delivered, or queued when the call throws.
SendOrQueueStop(t) ==
    /\ \/ online /\ open' = open \ {t} /\ UNCHANGED outbox
       \/ /\ ~online \/ "lost" \in Faults
          /\ outbox' = Append(outbox, [action |-> "StopTransaction", tx |-> t])
          /\ open' = open \/ (online /\ open' = open \ {t})
    /\ UNCHANGED issued

\* A cancellation won while StartTransaction was in flight: close it again.
CloseLost(p) ==
    /\ At(p, "closeLost")
    /\ SendOrQueueStop(call[p].tx)
    /\ Again(p)
    /\ UNCHANGED <<rowVars, horizon, requests, linkVars, remoteTx, started>>

\* The id the CSMS gave, or the local one.
PromotedTransaction(p) ==
    IF call[p].s.activeTransactionId # 0 THEN call[p].s.activeTransactionId
    ELSE call[p].local

Promote(p) ==
    /\ At(p, "promote")
    /\ IF StillClaimed(p)
       THEN /\ clock' = Now
            /\ row' = [row EXCEPT !.status = "Charging", !.activeStartPending = FALSE,
                                  !.preparingSince = 0, !.activeStartedAt = Now,
                                  !.activeTransactionId = PromotedTransaction(p)]
       ELSE UNCHANGED <<row, clock>>
    /\ Again(p)
    /\ UNCHANGED <<timer, horizon, requests, linkVars, remoteTx, csmsVars, started>>

-----------------------------------------------------------------------------
(* What each operation does once the row is resolved *)

Body(p, op) == At(p, "body") /\ call[p].op = op

\* Asked for, for the CSMS, or by a handler that releases the cable and then lists.
IsStop(p) == call[p].op \in {"stop", "remoteStop", "release"}

\* schedulePreparationExpiry reads ConnectionTimeOut before it sets the timer.
ArmLater(p, since) == Becomes(p, [call[p] EXCEPT !.pc = "arm", !.since = since])

\* The timer replaces the one the connector has; then the handler goes on.
Arm(p) ==
    /\ timer' = call[p].since
    /\ \/ /\ At(p, "armFinish")
          /\ Becomes(p, [call[p] EXCEPT !.pc = "body", !.since = 0])
       \/ /\ At(p, "arm") /\ IsStop(p)
          /\ Becomes(p, [call[p] EXCEPT !.pc = "clear", !.since = 0])
       \/ /\ At(p, "arm") /\ call[p].op = "remoteStart"
          /\ Becomes(p, [call[p] EXCEPT !.op = "remoteWait", !.pc = "read",
                                        !.s = FreshRow, !.since = 0])
       \/ At(p, "arm") /\ call[p].op \in {"start", "connectEv"} /\ List(p)
       \/ At(p, "arm") /\ call[p].op = "poll" /\ Return(p)
    /\ UNCHANGED <<row, clock, horizon, requests, linkVars, remoteTx, csmsVars, started>>

\* listConnectorStates arms a deadline nobody is timing.
NeedsDeadline(r) == r.status = "Preparing" /\ r.preparingSince # 0 /\ timer = 0

ListBody(p) ==
    /\ Body(p, "poll")
    /\ IF NeedsDeadline(call[p].s) THEN ArmLater(p, call[p].s.preparingSince) ELSE Return(p)
    /\ UNCHANGED <<rowVars, horizon, requests, linkVars, remoteTx, csmsVars, started>>

\* startChargingSession's checks: on the snapshot, and again in the where clause.
ReadyToStart(r) ==
    r.activeStartedAt = 0 /\ r.status \in {"Available", "Preparing"}

\* A card presented during Preparing does not open a new window.
WindowStart(r) == IF r.preparingSince # 0 THEN r.preparingSince ELSE Now

StartBody(p) ==
    /\ Body(p, "start") \/ Body(p, "remoteStart")
    /\ ReadyToStart(call[p].s) /\ ReadyToStart(row)
    /\ LET remote == call[p].op = "remoteStart"
           since  == WindowStart(call[p].s)
       IN /\ clock' = Now
          /\ row' = [row EXCEPT !.status = "Preparing", !.locked = TRUE,
                                !.preparingSince = since, !.activeIsRemote = remote,
                                !.activeStartPending = FALSE,
                                !.activeIdTag = call[p].tag,
                                !.activeTransactionId = 0,
                                !.activeStartedAt = Now]
          /\ ArmLater(p, since)
    /\ UNCHANGED <<timer, horizon, requests, linkVars, remoteTx, csmsVars, started>>

\* It throws; a remote start then releases what it finds prepared.
StartThrows(p) ==
    /\ Body(p, "start") \/ Body(p, "remoteStart")
    /\ ~(ReadyToStart(call[p].s) /\ ReadyToStart(row))
    /\ IF call[p].op = "remoteStart" THEN Goto(p, "cancelRemote") ELSE Return(p)
    /\ UNCHANGED <<rowVars, horizon, requests, linkVars, remoteTx, csmsVars, started>>

\* connectEv writes from its snapshot: a connector it saw Available becomes Preparing.
ConnectEvBody(p) ==
    /\ Body(p, "connectEv")
    /\ \/ /\ ~call[p].s.evConnected /\ call[p].s.status = "Available"
          /\ row' = [row EXCEPT !.evConnected = TRUE, !.status = "Preparing",
                                !.preparingSince = Now]
          /\ clock' = Now
          /\ ArmLater(p, Now)
       \/ /\ ~call[p].s.evConnected /\ call[p].s.status # "Available"
          /\ row' = [row EXCEPT !.evConnected = TRUE]
          /\ List(p)
          /\ UNCHANGED clock
       \/ /\ call[p].s.evConnected
          /\ List(p)
          /\ UNCHANGED <<row, clock>>
    /\ UNCHANGED <<timer, horizon, requests, linkVars, remoteTx, csmsVars, started>>

\* disconnectEv clears evConnected, then acts on what it had read before.
DisconnectEvBody(p) ==
    /\ Body(p, "disconnectEv")
    /\ \/ /\ call[p].s.evConnected
          /\ row' = [row EXCEPT !.evConnected = FALSE]
          /\ Goto(p, "unplugged")
       \/ /\ ~call[p].s.evConnected
          /\ List(p)
          /\ UNCHANGED row
    /\ UNCHANGED <<clock, timer, horizon, requests, linkVars, remoteTx, csmsVars, started>>

\* A session it had seen is stopped like any other; a connector it had seen idle
\* but not Available is written Available.
Unplugged(p) ==
    /\ At(p, "unplugged")
    /\ \/ /\ call[p].s.activeStartedAt # 0
          /\ Release(p)
          /\ UNCHANGED row
       \/ /\ call[p].s.activeStartedAt = 0
          /\ row' = IF call[p].s.status = "Available" THEN row
                    ELSE [row EXCEPT !.status = "Available", !.locked = FALSE,
                                     !.preparingSince = 0, !.finishingSince = 0,
                                     !.finishingNextStatus = "null"]
          /\ List(p)
    /\ UNCHANGED <<clock, timer, horizon, requests, linkVars, remoteTx, csmsVars, started>>

\* setConnectorLock: unlocking a connector with a session stops the session.
LockBody(p) ==
    /\ Body(p, "lock") \/ Body(p, "unlock")
    /\ \/ /\ call[p].op = "unlock" /\ call[p].s.activeStartedAt # 0
          /\ Release(p)
          /\ UNCHANGED row
       \/ /\ call[p].op = "lock" \/ call[p].s.activeStartedAt = 0
          /\ row' = [row EXCEPT !.locked = (call[p].op = "lock")]
          /\ List(p)
    /\ UNCHANGED <<clock, timer, horizon, requests, linkVars, remoteTx, csmsVars, started>>

\* clearConnectorFault writes Available whatever the status is.
ClearFault(p) ==
    /\ At(p, "write")
    /\ row' = [row EXCEPT !.status = "Available"]
    /\ List(p)
    /\ UNCHANGED <<clock, timer, horizon, requests, linkVars, remoteTx, csmsVars, started>>

-----------------------------------------------------------------------------
(* stopChargingSession *)

StopThrows(p) ==
    /\ At(p, "body") /\ IsStop(p)
    /\ call[p].s.activeStartedAt = 0
    /\ Return(p)
    /\ UNCHANGED <<rowVars, horizon, requests, linkVars, remoteTx, csmsVars, started>>

\* A mutant of MustNotify: a transaction of the local counter is reported too.
MustNotifyAny(p) == call[p].s.activeTransactionId # 0 /\ ~call[p].quiet

\* A transaction the CSMS knows of is closed there first.
MustNotify(p) ==
    call[p].s.activeIsRemote /\ call[p].s.activeTransactionId # 0 /\ ~call[p].quiet

\* stoppedAt is taken before the notification; a connector with a vehicle gets a
\* new deadline.
StopNotify(p) ==
    /\ At(p, "body") /\ IsStop(p)
    /\ call[p].s.activeStartedAt # 0
    /\ clock' = Now
    /\ IF MustNotify(p) THEN SendOrQueueStop(call[p].s.activeTransactionId)
       ELSE UNCHANGED csmsVars
    /\ Becomes(p, [call[p] EXCEPT !.pc = IF call[p].s.evConnected THEN "arm" ELSE "clear",
                                  !.since = IF call[p].s.evConnected THEN Now ELSE 0,
                                  !.att = Now])
    /\ UNCHANGED <<row, timer, horizon, requests, linkVars, remoteTx, started>>

\* The last write takes every value from the snapshot and tests nothing.
StopClear(p) ==
    /\ At(p, "clear")
    /\ LET s         == call[p].s
           idle      == IF s.evConnected THEN "Preparing" ELSE "Available"
           finishing == s.activeTransactionId # 0 /\ ~call[p].fault
           stoppedAt == call[p].att
           since     == IF s.evConnected THEN stoppedAt ELSE 0
           status    == IF finishing THEN "Finishing"
                        ELSE IF call[p].fault THEN "Faulted" ELSE idle
           cleared   == [Released(row, status) EXCEPT !.preparingSince = since]
       IN row' = IF finishing
                 THEN [cleared EXCEPT !.locked = TRUE, !.finishingSince = stoppedAt,
                                      !.finishingNextStatus = idle]
                 ELSE cleared
    /\ IF call[p].op = "release" THEN List(p) ELSE Return(p)
    /\ UNCHANGED <<clock, timer, horizon, requests, linkVars, remoteTx, csmsVars, started>>

-----------------------------------------------------------------------------
(* Sessions the CSMS starts and stops (prepareRemoteStart, adoptRemoteSession) *)

\* The wait for a vehicle: given up, over, or another turn 250 ms later.
RemoteWait(p) ==
    /\ Body(p, "remoteWait")
    /\ LET s    == call[p].s
           lost == s.status # "Preparing" \/ ~s.activeIsRemote \/ s.activeIdTag # call[p].tag
       IN \/ lost /\ Goto(p, "cancelRemote")
          \/ ~lost /\ s.evConnected /\ Goto(p, "remoteCall")
          \/ ~lost /\ ~s.evConnected
             /\ Becomes(p, [call[p] EXCEPT !.pc = "read", !.s = FreshRow])
    /\ UNCHANGED <<rowVars, horizon, requests, linkVars, remoteTx, csmsVars, started>>

CancelRemote(p) ==
    /\ At(p, "cancelRemote")
    /\ row' = IF /\ row.status = "Preparing" /\ row.activeIsRemote
                 /\ row.activeTransactionId = 0
              THEN Released(row, "Available") ELSE row
    /\ Return(p)
    /\ UNCHANGED <<clock, timer, horizon, requests, linkVars, remoteTx, csmsVars, started>>

RemoteAccepted(p) ==
    /\ At(p, "remoteCall")
    /\ CsmsAccepts(p, "remoteAccepted")
    /\ UNCHANGED <<rowVars, horizon, requests, linkVars, remoteTx, outbox, started>>

\* Not Accepted, or the call throws: the preparation is released.
RemoteRefused(p) ==
    /\ \/ At(p, "remoteCall") /\ (online \/ "drop" \in Faults)
       \/ At(p, "remoteAccepted") /\ "lost" \in Faults
    /\ Becomes(p, [call[p] EXCEPT !.pc = "cancelRemote", !.tx = 0])
    /\ UNCHANGED <<rowVars, horizon, requests, linkVars, remoteTx, csmsVars, started>>

\* activeTransactions keeps the accepted transaction.
RemoteKept(p) ==
    /\ At(p, "remoteAccepted")
    /\ remoteTx' = call[p].tx
    /\ Goto(p, "remoteKept")
    /\ UNCHANGED <<rowVars, horizon, requests, linkVars, csmsVars, started>>

\* Unless it has been stopped by now, adoptRemoteSession reads the row, and refuses
\* one that holds another session.
RemoteAdoptRead(p) ==
    /\ At(p, "remoteKept")
    /\ IF remoteTx = 0
       THEN Becomes(p, [call[p] EXCEPT !.pc = "cancelRemote", !.tx = 0])
       ELSE IF /\ row.activeStartedAt # 0
               /\ ~(/\ row.activeIsRemote /\ row.activeTransactionId = 0
                    /\ row.activeIdTag = call[p].tag)
       THEN Return(p)
       ELSE Becomes(p, [call[p] EXCEPT !.pc = "remoteAdopt", !.s = row])
    /\ UNCHANGED <<rowVars, horizon, requests, linkVars, remoteTx, csmsVars, started>>

\* Its write tests nothing.
RemoteAdopt(p) ==
    /\ At(p, "remoteAdopt")
    /\ clock' = Now
    /\ row' = [row EXCEPT !.status = "Charging", !.preparingSince = 0, !.locked = TRUE,
                          !.activeIdTag = call[p].tag,
                          !.activeTransactionId = call[p].tx,
                          !.activeStartedAt = Now, !.activeIsRemote = TRUE,
                          !.transactionCounter =
                              LaterOf(call[p].s.transactionCounter, call[p].tx)]
    /\ List(p)
    /\ UNCHANGED <<timer, horizon, requests, linkVars, remoteTx, csmsVars, started>>

\* remote-commands.ts sends StopTransaction itself; a failure is only reported.
\* Then the persisted session is stopped without telling the CSMS again.
RemoteStopSent(p) ==
    /\ At(p, "remoteStopCall")
    /\ \/ online /\ open' = open \ {call[p].tx}
       \/ (~online \/ "lost" \in Faults) /\ UNCHANGED open
    /\ Becomes(p, [call[p] EXCEPT !.pc = "read", !.tx = 0])
    /\ UNCHANGED <<rowVars, horizon, requests, linkVars, remoteTx, outbox, issued, started>>

-----------------------------------------------------------------------------
(* The surroundings: time, the link, the queue, a restart *)

\* A stop takes less than ConnectionTimeOut from its stoppedAt to its last write.
TimePasses ==
    /\ horizon < clock
    /\ horizon' \in (horizon + 1)..clock
    /\ \A p \in Calls : IsStop(p) /\ call[p].pc \in {"arm", "clear"} => horizon' < call[p].att
    /\ UNCHANGED <<rowVars, call, requests, linkVars, remoteTx, csmsVars, started>>

LinkUp ==
    /\ entry /\ ~online
    /\ online' = TRUE
    /\ UNCHANGED <<rowVars, horizon, call, requests, entry, remoteTx, csmsVars, started>>

LinkDown ==
    /\ "drop" \in Faults /\ online
    /\ online' = FALSE
    /\ UNCHANGED <<rowVars, horizon, call, requests, entry, remoteTx, csmsVars, started>>

\* drainOutbox delivers the oldest message.  The answer to a replayed
\* StartTransaction is not used.
Deliver ==
    /\ online /\ outbox # <<>>
    /\ outbox' = Tail(outbox)
    /\ \/ /\ Head(outbox).action = "StartTransaction"
          /\ \E t \in TxIds \ issued : issued' = issued \cup {t} /\ open' = open \cup {t}
       \/ /\ Head(outbox).action = "StopTransaction"
          /\ open' = open \ {Head(outbox).tx}
          /\ UNCHANGED issued
    /\ UNCHANGED <<rowVars, horizon, call, requests, linkVars, remoteTx, started>>

\* The process restarts: requests, timers and remote-commands.ts's maps are gone.
Crash ==
    /\ "crash" \in Faults
    /\ call' = [p \in Calls |-> Idle]
    /\ timer' = 0
    /\ remoteTx' = 0
    /\ entry' = FALSE
    /\ online' = FALSE
    /\ UNCHANGED <<row, clock, horizon, requests, csmsVars, started>>

\* getOrCreateEntry: a fresh runtime releases what no process can resume.
CreateEntry ==
    /\ ~entry
    /\ entry' = TRUE
    /\ row' = IF \/ /\ row.status = "Preparing"
                    /\ row.activeStartPending /\ row.activeTransactionId = 0
                 \/ ExpiryDue(row)
              THEN Released(row, "Available") ELSE row
    /\ UNCHANGED <<clock, timer, horizon, call, requests, online, remoteTx, csmsVars, started>>

-----------------------------------------------------------------------------
Init ==
    /\ row = FreshRow
    /\ clock = 0 /\ horizon = 0 /\ timer = 0
    /\ call = [p \in Calls |-> Idle]
    /\ requests = 0
    /\ entry = TRUE /\ online = TRUE
    /\ remoteTx = 0
    /\ outbox = <<>> /\ open = {} /\ issued = {}
    /\ started = <<>>

BeginRequest(p) ==
    \/ BeginStart(p) \/ BeginRemoteStart(p) \/ BeginRemoteStop(p)
    \/ BeginStop(p) \/ BeginOther(p) \/ BeginClearFault(p)

\* The next step of a running request.
Step(p) ==
    \/ Read(p) \/ Reread(p) \/ Expire(p) \/ FinishHold(p)
    \/ Claim(p) \/ ReadClaimed(p) \/ StartAccepted(p) \/ StartRejected(p)
    \/ StartFails(p) \/ Reject(p) \/ Adopt(p) \/ ReadAdopted(p) \/ CloseLost(p)
    \/ Promote(p) \/ ListBody(p) \/ StartBody(p) \/ StartThrows(p)
    \/ ConnectEvBody(p) \/ DisconnectEvBody(p) \/ Unplugged(p) \/ LockBody(p)
    \/ Arm(p) \/ ClearFault(p) \/ StopThrows(p) \/ StopNotify(p) \/ StopClear(p)
    \/ RemoteWait(p) \/ CancelRemote(p) \/ RemoteAccepted(p) \/ RemoteRefused(p)
    \/ RemoteKept(p) \/ RemoteAdoptRead(p) \/ RemoteAdopt(p) \/ RemoteStopSent(p)

Environment == TimePasses \/ LinkUp \/ LinkDown \/ Deliver \/ Crash \/ CreateEntry

Next ==
    \/ \E p \in Calls : Poll(p) \/ TimerFires(p) \/ BeginRequest(p) \/ Step(p)
    \/ Environment

Spec == Init /\ [][Next]_vars

\* A call that runs is answered or times out, an armed timer fires, time passes.
\* Nobody has to press a button or to look at the Home screen.
Fairness ==
    /\ \A p \in Calls : WF_vars(Step(p))
    /\ WF_vars(\E p \in Calls : TimerFires(p))
    /\ WF_vars(TimePasses)

FairSpec == Spec /\ Fairness

-----------------------------------------------------------------------------
(* Safety *)

\* Every variable has its type.
TypeOK ==
    /\ row \in Row
    /\ clock \in Nat /\ horizon \in Nat /\ timer \in Nat
    /\ call \in [Calls -> Call]
    /\ requests \in Nat
    /\ entry \in BOOLEAN /\ online \in BOOLEAN
    /\ remoteTx \in Nat
    /\ outbox \in Seq(Message)
    /\ open \subseteq TxIds /\ issued \subseteq TxIds
    /\ started \in Seq(Nat)

\* However many pollers find the handshake complete, an attempt is reported by
\* one StartTransaction (the guard on the promotion, connector-sessions.ts:328).
OneStartPerAttempt ==
    \A i, j \in DOMAIN started : started[i] = started[j] => i = j

\* A session's fields stand or fall together.
FieldsAgree ==
    /\ row.activeStartedAt # 0 <=> row.activeIdTag # NoTag
    /\ row.activeTransactionId # 0 \/ row.activeStartPending => row.activeStartedAt # 0

ChargingHasTransaction ==
    row.status = "Charging" => row.activeStartedAt # 0 /\ row.activeTransactionId # 0

FinishingIsIdle ==
    row.status = "Finishing" => row.activeStartedAt = 0 /\ row.finishingSince # 0

\* No handler's write, however old its snapshot, tears a session apart: its start
\* and its tag come and go together, a transaction and a claim last no longer, a
\* charging connector has a transaction to stop, and the Finishing hold covers no
\* session (the conditional writes of connector-sessions.ts).
SessionIsWhole == FieldsAgree /\ ChargingHasTransaction /\ FinishingIsIdle

\* No connector is Preparing without a deadline, so an abandoned handshake can
\* expire, whatever interleaving brought it there (PREPARING_TIMEOUT_MS).
PreparingHasDeadline == row.status = "Preparing" => row.preparingSince # 0

\* Stops name transactions the CSMS has issued, never a local counter value
\* (activeIsRemote, schema.prisma:476).
StopNamesIssuedTransaction ==
    /\ row.activeIsRemote /\ row.activeTransactionId # 0 => row.activeTransactionId \in issued
    /\ \A i \in DOMAIN outbox :
           outbox[i].action = "StopTransaction" => outbox[i].tx \in issued

\* A connector charges a vehicle that is there, or one whose unplugging is still
\* being worked on (disconnectEv).
ChargingHasVehicle ==
    row.status = "Charging" /\ ~row.evConnected =>
        \E p \in Calls : call[p].op = "release" \/ At(p, "unplugged")

-----------------------------------------------------------------------------
(* What a step may never do *)

\* A connector that becomes Preparing has a whole window before it ("The first
\* opens a 60-second Preparing window", connector-sessions.ts:674).
FreshWindow ==
    [][row.status # "Preparing" /\ row'.status = "Preparing"
           => row'.preparingSince > horizon]_vars

\* A stop that wipes a reported transaction off the row has closed it at the CSMS
\* or queued its stop ("Close the real transaction", connector-sessions.ts:378).
StopClosesTransaction ==
    [][\A p \in Calls : At(p, "clear") /\ call'[p].pc # "clear" =>
           \/ ~row.activeIsRemote \/ row.activeTransactionId \notin open
           \/ \E i \in DOMAIN outbox : outbox[i].tx = row.activeTransactionId]_vars

\* A charging connector leaves Charging only by ending its session: a vehicle
\* plugged in again does not disturb it (connectEv).
SessionLeftAlone ==
    [][row.status = "Charging" /\ row'.status # "Charging"
           => row'.activeStartedAt = 0]_vars

-----------------------------------------------------------------------------
(* Liveness *)

\* An incomplete handshake is completed or expires, even when nobody polls: every
\* way into Preparing leaves a timer running (schedulePreparationExpiry).
HandshakeWindowCloses ==
    row.status = "Preparing" /\ ~HandshakeComplete(row)
        ~> ~(row.status = "Preparing" /\ ~HandshakeComplete(row))

\* A claimed attempt does not stay claimed: it charges, is refused, or is
\* cancelled, and no poll is needed for it.
AttemptSettles ==
    row.activeStartPending ~> ~row.activeStartPending

\* While the Home screen polls, a Finishing connector settles.
FinishingSettles ==
    []<><<\E p \in Calls : Poll(p)>>_vars
        => (row.status = "Finishing" ~> row.status # "Finishing")

\* The transaction of an attempt that was cancelled while StartTransaction was in
\* flight is closed at the CSMS, or its stop is queued (the lost adoption).
LostAttemptIsClosed ==
    \A t \in TxIds :
        (\E p \in Calls : At(p, "accepted") /\ call[p].tx = t /\ ~StillClaimed(p))
            ~> \/ t \notin open
               \/ \E i \in DOMAIN outbox : outbox[i].tx = t

-----------------------------------------------------------------------------
(* The abstract life of a session *)

\* How far the session on the row is.
Stage(r) ==
    IF r.activeStartedAt = 0 THEN "none"
    ELSE IF r.status = "Charging" THEN "running"
    ELSE IF r.activeStartPending THEN "claimed"
    ELSE IF r.activeIsRemote THEN "awaited" ELSE "offered"

Lifecycle ==
    INSTANCE ConnectorLifecycle
    WITH now <- clock, status <- row.status, stage <- Stage(row),
         attempt <- row.activeStartedAt

\* The row lives the life of ConnectorLifecycle, whatever polls, timers and answers cross
\* the one operation under way: an attempt is not replaced by another, not claimed from
\* nothing and charges only when claimed (connector-sessions.ts:308-540).
KeepsLifecycle == Lifecycle!LifecycleSpec
=============================================================================

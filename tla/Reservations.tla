---------------------------- MODULE Reservations ----------------------------
(***************************************************************************)
(* ReserveNow, CancelReservation, expiry and redemption (ocpp/reservation  *)
(* .ts) over the persisted store (prisma-reservation-store.ts).            *)
(*                                                                         *)
(* A handler is a job: between two of its awaits other jobs run.  What it  *)
(* defers with setImmediate runs in the order it was deferred.  Chunks of  *)
(* a timeout that is too long for setTimeout are told apart only by        *)
(* whether one more follows.                                               *)
(***************************************************************************)
EXTENDS Naturals, Sequences, SequencesExt

CONSTANTS
    Connectors, ReservationIds, Tags,
    None,         \* no connector, no reservation, no tag
    Jobs,         \* at most that many handlers run at a time
    MaxCommands   \* bound on the commands received
ASSUME ReservationAssumption ==
    None \notin Connectors \cup ReservationIds \cup Tags /\ None \notin [c : Connectors, tag : Tags]

VARIABLES
    connStatus,    \* the session's status of each connector
    reservations,  \* the store
    timers,        \* the handle of each reservation: none, live (of its last timeout) or fired
    armed,         \* the timeouts that run for each, in the order they were armed
    job,           \* the handlers under way
    deferred,      \* jobs whose next step waits in the setImmediate queue
    commands,
    disposed,      \* the handlers are unregistered; jobs under way go on
    crossed        \* history: two jobs met on one reservation

reservationVars ==
    <<connStatus, reservations, timers, armed, job, deferred, commands, disposed, crossed>>

Idle == [op |-> "none", at |-> "idle", c |-> None, r |-> None, tag |-> None, tx |-> 0, todo |-> {}]

-----------------------------------------------------------------------------
(* Jobs *)

\* A command is received and its handler runs up to its first await.
Begin(j, fields) ==
    /\ ~disposed /\ job[j] = Idle /\ commands < MaxCommands
    /\ commands' = commands + 1
    /\ job' = [job EXCEPT ![j] = fields]

Goto(j, at) == job' = [job EXCEPT ![j].at = at] /\ UNCHANGED deferred
Done(j) == job' = [job EXCEPT ![j] = Idle] /\ UNCHANGED deferred

\* setImmediate.
Defer(j, at) == job' = [job EXCEPT ![j].at = at] /\ deferred' = Append(deferred, j)
RunsNow(j) == deferred # <<>> /\ Head(deferred) = j /\ deferred' = Tail(deferred)

At(j, at) == job[j].at = at

SetStatus(c, s) == connStatus' = [connStatus EXCEPT ![c] = s]

\* Another job is busy with the reservation.
Meets(r) == \E j \in Jobs : job[j].r = r

-----------------------------------------------------------------------------
(* Helpers *)

\* A mutant of ClearTimer: the handle is dropped, the timeout not cancelled.
ForgetTimer(r) == timers' = [timers EXCEPT ![r] = "none"] /\ UNCHANGED armed

\* What runs once the timeout of the handle is cancelled.
Cancelled(r) == IF timers[r] = "live" THEN Front(armed[r]) ELSE armed[r]

\* clearTimer
ClearTimer(r) ==
    /\ timers' = [timers EXCEPT ![r] = "none"]
    /\ armed' = [armed EXCEPT ![r] = Cancelled(r)]

\* scheduleExpiry, for a date within or beyond one timeout.
ScheduleExpiry(r) ==
    /\ timers' = [timers EXCEPT ![r] = "live"]
    /\ \E chunk \in {"near", "far"} : armed' = [armed EXCEPT ![r] = Append(@, chunk)]

\* releaseConnectorIfReserved
ReleaseConnectorIfReserved(c) ==
    connStatus' = IF connStatus[c] = "Reserved"
                  THEN [connStatus EXCEPT ![c] = "Available"] ELSE connStatus

-----------------------------------------------------------------------------
(* Handlers *)

\* handleReserveNow, for a given connector or (connectorId 0) any that is Available.
ReserveNow(j, c, r, tag) ==
    /\ connStatus[c] = "Available"
    /\ Begin(j, [Idle EXCEPT !.op = "reserve", !.at = "remove", !.c = c, !.r = r, !.tag = tag])
    /\ crossed' = (crossed \/ Meets(r))
    /\ UNCHANGED <<connStatus, reservations, timers, armed, deferred, disposed>>

CancelReservation(j, r) ==
    /\ Begin(j, [Idle EXCEPT !.op = "cancel", !.at = "remove", !.r = r])
    /\ crossed' = (crossed \/ Meets(r))
    /\ UNCHANGED <<connStatus, reservations, timers, armed, deferred, disposed>>

\* Where removeReservation returns to.
AfterRemoval(j, found) ==
    CASE job[j].op = "reserve" -> Goto(j, "store")
      [] job[j].op = "redeem"  -> Goto(j, "redeemed")
      [] job[j].op = "cancel"  -> IF found THEN Defer(j, "release") ELSE Done(j)

\* removeReservation: store.get has answered.
RemoveLooks(j) ==
    /\ At(j, "remove")
    /\ LET r == job[j].r found == reservations[job[j].r] IN
       IF found = None
       THEN AfterRemoval(j, FALSE) /\ UNCHANGED <<timers, armed>>
       ELSE /\ ClearTimer(r)
            /\ job' = [job EXCEPT ![j].at = "delete",
                                  ![j].c = IF job[j].op = "cancel" THEN found.c ELSE @]
            /\ UNCHANGED deferred
    /\ UNCHANGED <<connStatus, reservations, commands, disposed, crossed>>

\* removeReservation: store.delete is done.
RemoveDeletes(j) ==
    /\ At(j, "delete")
    /\ reservations' = [reservations EXCEPT ![job[j].r] = None]
    /\ AfterRemoval(j, TRUE)
    /\ UNCHANGED <<connStatus, timers, armed, commands, disposed, crossed>>

\* handleReserveNow: store.set is done.
ReserveStores(j) ==
    /\ At(j, "store")
    /\ reservations' = [reservations EXCEPT ![job[j].r] = [c |-> job[j].c, tag |-> job[j].tag]]
    /\ ScheduleExpiry(job[j].r)
    /\ Defer(j, "reserved")
    /\ UNCHANGED <<connStatus, commands, disposed, crossed>>

\* The callback handleReserveNow deferred, whatever became of the connector.
ReserveMarks(j) ==
    /\ At(j, "reserved") /\ RunsNow(j)
    /\ SetStatus(job[j].c, "Reserved")
    /\ job' = [job EXCEPT ![j] = Idle]
    /\ UNCHANGED <<reservations, timers, armed, commands, disposed, crossed>>

\* The callback handleCancelReservation deferred.
CancelReleases(j) ==
    /\ At(j, "release") /\ RunsNow(j)
    /\ ReleaseConnectorIfReserved(job[j].c)
    /\ job' = [job EXCEPT ![j] = Idle]
    /\ UNCHANGED <<reservations, timers, armed, commands, disposed, crossed>>

\* A timeout of scheduleExpiry fires: the rest is armed, or the reservation expires.  What is
\* deferred comes from socket and database callbacks and runs before the next timeouts do.
ExpiryFires(j, r) ==
    /\ deferred = <<>>
    /\ \E i \in DOMAIN armed[r] :
         \/ /\ armed[r][i] = "far"
            /\ armed' = [armed EXCEPT ![r] = Append(RemoveAt(@, i), "near")]
            /\ timers' = [timers EXCEPT ![r] = "live"]
            /\ UNCHANGED <<job, crossed>>
         \/ /\ armed[r][i] = "near" /\ job[j] = Idle
            /\ armed' = [armed EXCEPT ![r] = RemoveAt(@, i)]
            /\ timers' = [timers EXCEPT ![r] = IF @ = "live" /\ i = Len(armed[r]) THEN "fired" ELSE @]
            /\ job' = [job EXCEPT ![j] = [Idle EXCEPT !.op = "expire", !.at = "expire", !.r = r]]
            /\ crossed' = (crossed \/ Meets(r))
    /\ UNCHANGED <<connStatus, reservations, deferred, commands, disposed>>

\* expireReservation: store.get has answered.
ExpiryLooks(j) ==
    /\ At(j, "expire")
    /\ LET r == job[j].r IN
       IF reservations[r] = None
       THEN Done(j) /\ UNCHANGED timers
       ELSE /\ timers' = [timers EXCEPT ![r] = "none"]
            /\ job' = [job EXCEPT ![j].at = "expired", ![j].c = reservations[r].c]
            /\ UNCHANGED deferred
    /\ UNCHANGED <<connStatus, reservations, armed, commands, disposed, crossed>>

\* expireReservation: store.delete is done.
ExpiryDeletes(j) ==
    /\ At(j, "expired")
    /\ reservations' = [reservations EXCEPT ![job[j].r] = None]
    /\ ReleaseConnectorIfReserved(job[j].c)
    /\ Done(j)
    /\ UNCHANGED <<timers, armed, commands, disposed, crossed>>

\* consumeReservation: store.list has answered; the first reservation of the connector.
RedeemLooks(j) ==
    /\ At(j, "list")
    /\ LET c == job[j].c
           candidates == {r \in ReservationIds : reservations[r] # None /\ reservations[r].c = c}
       IN \/ /\ \E r \in candidates : reservations[r].tag = job[j].tag
                /\ job' = [job EXCEPT ![j].op = "redeem", ![j].at = "remove", ![j].r = r]
                /\ crossed' = (crossed \/ Meets(r))
             /\ UNCHANGED deferred
          \/ /\ candidates = {} \/ \E r \in candidates : reservations[r].tag # job[j].tag
             /\ Done(j) /\ UNCHANGED crossed
    /\ UNCHANGED <<connStatus, reservations, timers, armed, commands, disposed>>

-----------------------------------------------------------------------------
ReservationInit ==
    /\ connStatus = [c \in Connectors |-> "Available"]
    /\ reservations = [r \in ReservationIds |-> None]
    /\ timers = [r \in ReservationIds |-> "none"]
    /\ armed = [r \in ReservationIds |-> <<>>]
    /\ job = [j \in Jobs |-> Idle]
    /\ deferred = <<>>
    /\ commands = 0 /\ disposed = FALSE /\ crossed = FALSE

ReservationStep(j) ==
    \/ \E c \in Connectors, r \in ReservationIds, tag \in Tags : ReserveNow(j, c, r, tag)
    \/ \E r \in ReservationIds : CancelReservation(j, r) \/ ExpiryFires(j, r)
    \/ RemoveLooks(j) \/ RemoveDeletes(j) \/ ReserveStores(j) \/ ReserveMarks(j)
    \/ CancelReleases(j) \/ ExpiryLooks(j) \/ ExpiryDeletes(j) \/ RedeemLooks(j)

-----------------------------------------------------------------------------
(* Safety *)

\* As long as no two handlers meet on one reservation, a stored reservation has one
\* timeout ahead of it, which can be cancelled, and a removed one has none: it neither
\* outlives its date nor does an old timeout end a later reservation of the same id
\* (scheduleExpiry, reservation.ts:98, and clearTimer, 67).
ExpiryIsOwned ==
    ~crossed => \A r \in ReservationIds :
        /\ Len(armed[r]) = IF timers[r] = "live" THEN 1 ELSE 0
        /\ ~disposed /\ ~Meets(r) => (timers[r] = "live") = (reservations[r] # None)

\* A Reserved connector has a reservation that can be redeemed, cancelled or that expires,
\* or a handler that is about to change it ("so a reservation can actually be redeemed
\* instead of permanently blocking the connector", reservation.ts:24).
ReservedIsBacked ==
    \A c \in Connectors : connStatus[c] = "Reserved" =>
        \/ \E r \in ReservationIds : reservations[r] # None /\ reservations[r].c = c
        \/ \E j \in Jobs : job[j] # Idle
        \/ disposed
=============================================================================

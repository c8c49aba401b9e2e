------------------------------- MODULE Outbox -------------------------------
(***************************************************************************)
(* The queue of calls that could not be delivered (device-instances/       *)
(* outbox.ts) and the drains that each accepted boot starts.               *)
(*                                                                         *)
(* A message is the number of its place in the order of createdAt.         *)
(***************************************************************************)
EXTENDS Naturals

CONSTANTS
    Drains,        \* at most that many drains run at a time
    MaxMessages    \* bound on the messages queued

ASSUME MaxMessagesAssumption == MaxMessages \in Nat

VARIABLES
    queued,        \* messages ever queued
    outbox,        \* the rows of the table
    drainAt,       \* idle, next, delete, failed
    drainTodo,     \* what is left of the list a drain works through
    reached,       \* messages that have reached the CSMS
    repeated,      \* messages that have reached it more than once
    overlapped,    \* history: two drains ran at a time
    unanswered     \* history: an answer was lost, or the row kept by a crash

outboxVars == <<queued, outbox, drainAt, drainTodo, reached, repeated, overlapped, unanswered>>

Messages == 1..MaxMessages

\* The first of a list.
IsOldest(m, list) == m \in list /\ \A k \in list : m <= k

-----------------------------------------------------------------------------
OutboxInit ==
    /\ queued = 0 /\ outbox = {} /\ reached = {} /\ repeated = {}
    /\ drainAt = [d \in Drains |-> "idle"]
    /\ drainTodo = [d \in Drains |-> {}]
    /\ overlapped = FALSE /\ unanswered = FALSE

\* queueOutboxMessage
QueueMessage ==
    /\ queued < MaxMessages
    /\ queued' = queued + 1
    /\ outbox' = outbox \cup {queued + 1}
    /\ UNCHANGED <<drainAt, drainTodo, reached, repeated, overlapped, unanswered>>

\* A boot is accepted: listOutboxMessages has answered.
DrainLists(d) ==
    /\ drainAt[d] = "idle" /\ outbox # {}
    /\ drainAt' = [drainAt EXCEPT ![d] = "next"]
    /\ drainTodo' = [drainTodo EXCEPT ![d] = outbox]
    /\ overlapped' = (overlapped \/ \E e \in Drains : drainAt[e] # "idle")
    /\ UNCHANGED <<queued, outbox, reached, repeated, unanswered>>

\* The call reaches the CSMS.
Reaches(m) ==
    /\ reached' = reached \cup {m}
    /\ repeated' = IF m \in reached THEN repeated \cup {m} ELSE repeated

\* The sender's answer: delivered, delivered without an answer, or not delivered.
DrainSends(d) ==
    /\ drainAt[d] = "next"
    /\ \/ /\ \E m \in Messages : IsOldest(m, drainTodo[d]) /\ Reaches(m)
          /\ \/ drainAt' = [drainAt EXCEPT ![d] = "delete"] /\ UNCHANGED unanswered
             \/ drainAt' = [drainAt EXCEPT ![d] = "failed"] /\ unanswered' = TRUE
       \/ /\ drainAt' = [drainAt EXCEPT ![d] = "failed"]
          /\ UNCHANGED <<reached, repeated, unanswered>>
    /\ UNCHANGED <<queued, outbox, drainTodo, overlapped>>

\* A mutant of DrainDeletes: the row stays.
DrainKeeps(d) ==
    /\ drainAt[d] = "delete"
    /\ \E m \in Messages :
         /\ IsOldest(m, drainTodo[d])
         /\ drainTodo' = [drainTodo EXCEPT ![d] = @ \ {m}]
         /\ drainAt' = [drainAt EXCEPT ![d] = IF drainTodo[d] = {m} THEN "idle" ELSE "next"]
    /\ UNCHANGED <<queued, outbox, reached, repeated, overlapped, unanswered>>

\* The row is deleted; another drain may have done it already, and the deletion throws.
DrainDeletes(d) ==
    /\ drainAt[d] = "delete"
    /\ \E m \in Messages :
         /\ IsOldest(m, drainTodo[d])
         /\ outbox' = outbox \ {m}
         /\ drainTodo' = [drainTodo EXCEPT ![d] = @ \ {m}]
         /\ drainAt' = [drainAt EXCEPT ![d] = IF m \notin outbox THEN "failed"
                                             ELSE IF drainTodo[d] = {m} THEN "idle" ELSE "next"]
    /\ UNCHANGED <<queued, reached, repeated, overlapped, unanswered>>

\* A mutant of DrainStops: the drain skips ahead.
DrainSkips(d) ==
    /\ drainAt[d] = "failed"
    /\ \E m \in Messages :
         /\ IsOldest(m, drainTodo[d])
         /\ drainTodo' = [drainTodo EXCEPT ![d] = @ \ {m}]
         /\ drainAt' = [drainAt EXCEPT ![d] = IF drainTodo[d] = {m} THEN "idle" ELSE "next"]
    /\ UNCHANGED <<queued, outbox, reached, repeated, overlapped, unanswered>>

\* The catch: the attempt is noted, or that throws too, and the drain is over.
DrainStops(d) ==
    /\ drainAt[d] = "failed"
    /\ drainAt' = [drainAt EXCEPT ![d] = "idle"]
    /\ drainTodo' = [drainTodo EXCEPT ![d] = {}]
    /\ UNCHANGED <<queued, outbox, reached, repeated, overlapped, unanswered>>

\* The process is restarted: the table is all that is left.
OutboxCrashes ==
    /\ drainAt' = [d \in Drains |-> "idle"]
    /\ drainTodo' = [d \in Drains |-> {}]
    /\ unanswered' = (unanswered \/ \E d \in Drains : drainAt[d] = "delete")
    /\ UNCHANGED <<queued, outbox, reached, repeated, overlapped>>

OutboxNext ==
    \/ QueueMessage \/ OutboxCrashes
    \/ \E d \in Drains : DrainLists(d) \/ DrainSends(d) \/ DrainDeletes(d) \/ DrainStops(d)

OutboxSpec == OutboxInit /\ [][OutboxNext]_outboxVars

-----------------------------------------------------------------------------
OutboxTypeOK ==
    /\ queued \in 0..MaxMessages
    /\ outbox \subseteq 1..queued /\ reached \subseteq 1..queued /\ repeated \subseteq 1..queued
    /\ drainAt \in [Drains -> {"idle", "next", "delete", "failed"}]
    /\ drainTodo \in [Drains -> SUBSET (1..queued)]

Delivery == INSTANCE OrderedDelivery WITH accepted <- queued, delivered <- reached

\* Messages reach the CSMS for the first time in the order they were queued, none left out,
\* whatever number of drains run, fail or are cut off ("so delivery order is preserved",
\* outbox.ts:55).
DeliversInOrder == Delivery!DeliverySpec

\* A message leaves the queue only once it has reached the CSMS (outbox.ts:68-69).
UndeliveredIsKept == \A m \in 1..queued : m \in outbox \/ m \in reached

\* Unless two drains ran at a time (each accepted boot starts one, runtime.ts:168) or an
\* answer was lost, no message reaches the CSMS twice.
DeliveredOnce == ~overlapped /\ ~unanswered => repeated = {}
=============================================================================

--------------------------- MODULE MessageProofs ----------------------------
(***************************************************************************)
(* What the station queues for the CSMS and what it answers it.            *)
(*                                                                         *)
(* The queue keeps what has not been delivered, delivers in order and, as  *)
(* long as drains do not overlap and answers are not lost, once. A CALL of *)
(* the CSMS is answered once, and what its answer entails is sent after    *)
(* it. Both for any number of messages, drains, CALLs and links.           *)
(***************************************************************************)
EXTENDS Outbox, IncomingCalls, TLAPS

\* What a drain has not come to is in its list, in order: whatever precedes an entry
\* of the list is in it too, or has reached the CSMS.
TodoFollows ==
    \A d \in Drains : \A m \in drainTodo[d] : \A k \in 1..(m - 1) :
        k \in drainTodo[d] \/ k \in reached

\* Only what has reached the CSMS is about to be deleted.
DeletesSent ==
    \A d \in Drains, m \in Messages :
        drainAt[d] = "delete" /\ IsOldest(m, drainTodo[d]) => m \in reached

OrderInv == OutboxTypeOK /\ UndeliveredIsKept /\ TodoFollows /\ DeletesSent

\* An empty outbox is in order.
LEMMA OrderInit == OutboxInit => OrderInv
BY MaxMessagesAssumption DEF OutboxInit, OrderInv, OutboxTypeOK, UndeliveredIsKept,
    TodoFollows, DeletesSent

\* Every step of a drain, a send or a crash keeps the order of the queue.
LEMMA OrderStep == OrderInv /\ [OutboxNext]_outboxVars => OrderInv'
<1> SUFFICES ASSUME OrderInv, [OutboxNext]_outboxVars PROVE OrderInv'
  OBVIOUS
<1> USE MaxMessagesAssumption DEF OrderInv
<1>1. CASE QueueMessage
  <2>1. queued' = queued + 1 /\ queued' \in 0..MaxMessages
    BY <1>1 DEF QueueMessage, OutboxTypeOK
  <2>2. 1..queued' = 1..queued \cup {queued + 1}
    BY <2>1 DEF OutboxTypeOK
  <2>3. OutboxTypeOK' /\ UndeliveredIsKept'
    BY <1>1, <2>1, <2>2 DEF QueueMessage, OutboxTypeOK, UndeliveredIsKept
  <2>4. TodoFollows' /\ DeletesSent'
    BY <1>1 DEF QueueMessage, TodoFollows, DeletesSent, IsOldest
  <2> QED BY <2>3, <2>4
<1>2. CASE OutboxCrashes
  <2>1. OutboxTypeOK' /\ UndeliveredIsKept'
    BY <1>2 DEF OutboxCrashes, OutboxTypeOK, UndeliveredIsKept
  <2>2. TodoFollows' /\ DeletesSent'
    BY <1>2 DEF OutboxCrashes, TodoFollows, DeletesSent, IsOldest
  <2> QED BY <2>1, <2>2
<1>3. ASSUME NEW d \in Drains, DrainLists(d) PROVE OrderInv'
  <2>1. OutboxTypeOK' /\ UndeliveredIsKept'
    BY <1>3 DEF DrainLists, OutboxTypeOK, UndeliveredIsKept
  <2>2. TodoFollows'
    <3> SUFFICES ASSUME NEW e \in Drains, NEW m \in drainTodo'[e], NEW k \in 1..(m - 1)
                 PROVE  k \in drainTodo'[e] \/ k \in reached
      BY <1>3 DEF DrainLists, TodoFollows
    <3>1. CASE e = d
      BY <1>3, <3>1 DEF DrainLists, OutboxTypeOK, UndeliveredIsKept
    <3>2. CASE e # d
      BY <1>3, <3>2 DEF DrainLists, OutboxTypeOK, TodoFollows
    <3> QED BY <3>1, <3>2
  <2>3. DeletesSent'
    BY <1>3 DEF DrainLists, OutboxTypeOK, DeletesSent, IsOldest
  <2> QED BY <2>1, <2>2, <2>3
<1>4. ASSUME NEW d \in Drains, DrainSends(d) PROVE OrderInv'
  <2>1. reached \subseteq reached' /\ reached' \subseteq reached \cup drainTodo[d]
    BY <1>4 DEF DrainSends, Reaches, IsOldest
  <2>2. OutboxTypeOK'
    BY <1>4 DEF DrainSends, Reaches, IsOldest, OutboxTypeOK
  <2>3. UndeliveredIsKept' /\ TodoFollows'
    BY <1>4, <2>1 DEF DrainSends, UndeliveredIsKept, TodoFollows
  <2>4. DeletesSent'
    <3> SUFFICES ASSUME NEW e \in Drains, NEW m \in Messages, drainAt'[e] = "delete",
                        IsOldest(m, drainTodo[e])
                 PROVE  m \in reached'
      BY <1>4 DEF DrainSends, DeletesSent, IsOldest
    <3>1. CASE e # d
      BY <1>4, <2>1, <3>1 DEF DrainSends, OutboxTypeOK, DeletesSent
    <3>2. CASE e = d
      <4>1. PICK n \in Messages : IsOldest(n, drainTodo[d]) /\ Reaches(n)
        BY <1>4, <3>2 DEF DrainSends, OutboxTypeOK
      <4>2. n = m
        BY <4>1, <3>2 DEF IsOldest, Messages
      <4> QED BY <4>1, <4>2 DEF Reaches
    <3> QED BY <3>1, <3>2
  <2> QED BY <2>2, <2>3, <2>4
<1>5. ASSUME NEW d \in Drains, DrainDeletes(d) PROVE OrderInv'
  <2>1. PICK m \in Messages :
            /\ IsOldest(m, drainTodo[d])
            /\ outbox' = outbox \ {m}
            /\ drainTodo' = [drainTodo EXCEPT ![d] = @ \ {m}]
            /\ drainAt' = [drainAt EXCEPT ![d] = IF m \notin outbox THEN "failed"
                                                 ELSE IF drainTodo[d] = {m} THEN "idle" ELSE "next"]
    BY <1>5 DEF DrainDeletes
  <2>2. m \in reached
    BY <1>5, <2>1 DEF DrainDeletes, DeletesSent
  <2>3. UNCHANGED <<queued, reached, repeated>>
    BY <1>5 DEF DrainDeletes
  <2>4. OutboxTypeOK' /\ UndeliveredIsKept'
    BY <2>1, <2>2, <2>3 DEF OutboxTypeOK, UndeliveredIsKept
  <2>5. TodoFollows'
    <3> SUFFICES ASSUME NEW e \in Drains, NEW n \in drainTodo'[e], NEW k \in 1..(n - 1)
                 PROVE  k \in drainTodo'[e] \/ k \in reached
      BY <2>3 DEF TodoFollows
    <3>1. n \in drainTodo[e] /\ (k \in drainTodo[e] \/ k \in reached)
      BY <2>1 DEF OutboxTypeOK, TodoFollows
    <3> QED BY <2>1, <2>2, <3>1 DEF OutboxTypeOK
  <2>6. DeletesSent'
    BY <2>1, <2>3 DEF OutboxTypeOK, DeletesSent, IsOldest
  <2> QED BY <2>4, <2>5, <2>6
<1>6. ASSUME NEW d \in Drains, DrainStops(d) PROVE OrderInv'
  <2>1. OutboxTypeOK' /\ UndeliveredIsKept'
    BY <1>6 DEF DrainStops, OutboxTypeOK, UndeliveredIsKept
  <2>2. TodoFollows' /\ DeletesSent'
    BY <1>6 DEF DrainStops, OutboxTypeOK, TodoFollows, DeletesSent, IsOldest
  <2> QED BY <2>1, <2>2
<1>7. CASE UNCHANGED outboxVars
  BY <1>7 DEF outboxVars, OutboxTypeOK, UndeliveredIsKept, TodoFollows, DeletesSent, IsOldest
<1> QED BY <1>1, <1>2, <1>3, <1>4, <1>5, <1>6, <1>7 DEF OutboxNext

\* The order of the queue holds in every behaviour of the outbox (drainOutbox).
THEOREM OrderInvariant == OutboxSpec => []OrderInv
<1>1. OutboxInit => OrderInv
  BY OrderInit
<1>2. OrderInv /\ [OutboxNext]_outboxVars => OrderInv'
  BY OrderStep
<1> QED BY <1>1, <1>2, PTL DEF OutboxSpec

\* No message leaves the queue before it has reached the CSMS (UndeliveredIsKept; the
\* deletion after the answer in drainOutbox).
THEOREM NothingIsLost == OutboxSpec => []UndeliveredIsKept
<1>1. OrderInv => UndeliveredIsKept
  BY DEF OrderInv
<1> QED BY <1>1, OrderInvariant, PTL

\* Every step of the queue is a step of OrderedDelivery, or none that it can see.
LEMMA DeliveryStep ==
    OrderInv /\ [OutboxNext]_outboxVars =>
        [Delivery!AcceptMessage \/ Delivery!DeliverNext]_(Delivery!deliveryVars)
<1> SUFFICES ASSUME OrderInv, [OutboxNext]_outboxVars
             PROVE  [Delivery!AcceptMessage \/ Delivery!DeliverNext]_(Delivery!deliveryVars)
  OBVIOUS
<1> USE DEF OrderInv, Delivery!deliveryVars
<1>1. CASE QueueMessage
  BY <1>1 DEF QueueMessage, Delivery!AcceptMessage
<1>2. ASSUME NEW d \in Drains, DrainSends(d)
      PROVE  Delivery!DeliverNext \/ UNCHANGED <<queued, reached>>
  <2>1. CASE UNCHANGED reached
    BY <1>2, <2>1 DEF DrainSends
  <2>2. CASE ~UNCHANGED reached
    <3>1. PICK m \in Messages : IsOldest(m, drainTodo[d]) /\ Reaches(m)
      BY <1>2, <2>2 DEF DrainSends
    <3>2. m \in 1..queued /\ m \notin reached /\ queued' = queued
      BY <1>2, <2>2, <3>1 DEF DrainSends, Reaches, IsOldest, OutboxTypeOK
    <3>3. \A k \in 1..(m - 1) : k \in reached
      <4> SUFFICES ASSUME NEW k \in 1..(m - 1) PROVE k \in reached
        OBVIOUS
      <4>1. k \in drainTodo[d] \/ k \in reached
        BY <3>1 DEF IsOldest, TodoFollows
      <4>2. k \notin drainTodo[d]
        BY <3>1, <3>2 DEF IsOldest
      <4> QED BY <4>1, <4>2
    <3> QED BY <3>1, <3>2, <3>3 DEF Reaches, Delivery!DeliverNext
  <2> QED BY <2>1, <2>2
<1>3. CASE OutboxCrashes
  BY <1>3 DEF OutboxCrashes
<1>4. ASSUME NEW d \in Drains, DrainLists(d) \/ DrainDeletes(d) \/ DrainStops(d)
      PROVE  UNCHANGED <<queued, reached>>
  BY <1>4 DEF DrainLists, DrainDeletes, DrainStops
<1>5. CASE UNCHANGED outboxVars
  BY <1>5 DEF outboxVars
<1> QED BY <1>1, <1>2, <1>3, <1>4, <1>5 DEF OutboxNext

\* The queue implements OrderedDelivery: messages reach the CSMS for the first time in the
\* order they were queued, whatever drains run, fail or are cut off (drainOutbox).
THEOREM OutboxDeliversInOrder == OutboxSpec => DeliversInOrder
<1>1. OutboxInit => Delivery!DeliveryInit
  BY DEF OutboxInit, Delivery!DeliveryInit
<1>2. OrderInv /\ [OutboxNext]_outboxVars =>
          [Delivery!AcceptMessage \/ Delivery!DeliverNext]_(Delivery!deliveryVars)
  BY DeliveryStep
<1> QED BY <1>1, <1>2, OrderInvariant, PTL DEF OutboxSpec, DeliversInOrder, Delivery!DeliverySpec

-----------------------------------------------------------------------------
(* Once only *)

Alone == ~overlapped /\ ~unanswered

\* As long as drains do not overlap and answers are not lost: one drain runs, its list is
\* in the table, and of what is in the table only the message it is about to delete has
\* reached the CSMS.
AloneInv ==
    /\ repeated = {}
    /\ \A d, e \in Drains : drainAt[d] # "idle" /\ drainAt[e] # "idle" => d = e
    /\ \A d \in Drains : drainTodo[d] \subseteq outbox
    /\ \A m \in outbox : m \in reached =>
           \E d \in Drains : drainAt[d] = "delete" /\ IsOldest(m, drainTodo[d])

OnceInv ==
    /\ overlapped \in BOOLEAN /\ unanswered \in BOOLEAN
    /\ \A d \in Drains : drainAt[d] = "idle" => drainTodo[d] = {}
    /\ Alone => AloneInv

\* Nothing has been sent twice at first.
LEMMA OnceInit == OutboxInit => OnceInv
BY DEF OutboxInit, OnceInv, AloneInv

\* A drain that runs alone sends each message of its list once.
LEMMA OnceStep == OrderInv /\ OnceInv /\ [OutboxNext]_outboxVars => OnceInv'
<1> SUFFICES ASSUME OrderInv, OnceInv, [OutboxNext]_outboxVars PROVE OnceInv'
  OBVIOUS
<1> USE MaxMessagesAssumption DEF OrderInv, OnceInv, Alone
<1>1. CASE QueueMessage
  <2>1. queued + 1 \notin reached
    BY DEF OutboxTypeOK
  <2> QED BY <1>1, <2>1 DEF QueueMessage, AloneInv, IsOldest
<1>2. CASE OutboxCrashes
  <2>1. Alone' => Alone /\ \A d \in Drains : drainAt[d] # "delete"
    BY <1>2 DEF OutboxCrashes
  <2> QED BY <1>2, <2>1 DEF OutboxCrashes, AloneInv
<1>3. ASSUME NEW d \in Drains, DrainLists(d) PROVE OnceInv'
  <2>1. Alone' => Alone /\ \A e \in Drains : drainAt[e] = "idle"
    BY <1>3 DEF DrainLists
  <2>2. Alone' => AloneInv'
    BY <1>3, <2>1 DEF DrainLists, AloneInv, OutboxTypeOK
  <2>3. overlapped' \in BOOLEAN /\ unanswered' \in BOOLEAN
    BY <1>3 DEF DrainLists
  <2> QED BY <1>3, <2>2, <2>3 DEF DrainLists, OutboxTypeOK
<1>4. ASSUME NEW d \in Drains, DrainSends(d) PROVE OnceInv'
  <2>1. Alone' => AloneInv'
    <3> SUFFICES ASSUME Alone' PROVE AloneInv'
      OBVIOUS
    <3>1. Alone /\ AloneInv
      BY <1>4 DEF DrainSends
    <3>2. CASE /\ drainAt' = [drainAt EXCEPT ![d] = "delete"]
               /\ \E m \in Messages : IsOldest(m, drainTodo[d]) /\ Reaches(m)
      <4>1. PICK m \in Messages : IsOldest(m, drainTodo[d]) /\ Reaches(m)
        BY <3>2
      <4>2. m \in outbox /\ m \notin reached
        BY <1>4, <3>1, <4>1 DEF DrainSends, AloneInv, IsOldest
      <4>3. repeated' = {} /\ reached' = reached \cup {m}
        BY <3>1, <4>1, <4>2 DEF Reaches, AloneInv
      <4>4. \A n \in outbox : n \in reached' => n = m
        BY <1>4, <3>1, <4>3 DEF DrainSends, AloneInv
      <4> QED BY <1>4, <3>1, <3>2, <4>1, <4>3, <4>4
              DEF DrainSends, AloneInv, OutboxTypeOK, IsOldest
    <3>3. CASE /\ drainAt' = [drainAt EXCEPT ![d] = "failed"]
               /\ UNCHANGED <<reached, repeated>>
      BY <1>4, <3>1, <3>3 DEF DrainSends, AloneInv, OutboxTypeOK
    <3> QED BY <1>4, <3>2, <3>3 DEF DrainSends
  <2> QED BY <1>4, <2>1 DEF DrainSends, OutboxTypeOK
<1>5. ASSUME NEW d \in Drains, DrainDeletes(d) PROVE OnceInv'
  <2>1. PICK m \in Messages :
            /\ IsOldest(m, drainTodo[d])
            /\ outbox' = outbox \ {m}
            /\ drainTodo' = [drainTodo EXCEPT ![d] = @ \ {m}]
            /\ drainAt' = [drainAt EXCEPT ![d] = IF m \notin outbox THEN "failed"
                                                 ELSE IF drainTodo[d] = {m} THEN "idle" ELSE "next"]
    BY <1>5 DEF DrainDeletes
  <2>2. /\ drainAt[d] = "delete"
        /\ UNCHANGED <<reached, repeated, overlapped, unanswered>>
    BY <1>5 DEF DrainDeletes
  <2>3. \A e \in Drains : drainAt'[e] = "idle" => drainTodo'[e] = {}
    BY <2>1, <2>2 DEF OutboxTypeOK
  <2>4. Alone => AloneInv'
    <3> SUFFICES ASSUME Alone PROVE AloneInv'
      OBVIOUS
    <3>1. \A e \in Drains : drainAt[e] # "idle" => e = d
      BY <2>2 DEF AloneInv
    <3>2. \A n \in outbox' : n \notin reached
      <4> SUFFICES ASSUME NEW n \in outbox, n # m PROVE n \notin reached
        BY <2>1
      <4>1. n \in Nat /\ m \in Nat
        BY DEF OutboxTypeOK, Messages
      <4>2. ~IsOldest(n, drainTodo[d])
        BY <2>1, <4>1 DEF IsOldest
      <4> QED BY <3>1, <4>2 DEF AloneInv
    <3>3. \A e \in Drains : drainTodo'[e] \subseteq outbox'
      BY <2>1, <3>1 DEF AloneInv, OutboxTypeOK
    <3>4. \A e, f \in Drains : drainAt'[e] # "idle" /\ drainAt'[f] # "idle" => e = f
      BY <2>1, <3>1 DEF OutboxTypeOK
    <3> QED BY <2>2, <3>2, <3>3, <3>4 DEF AloneInv
  <2> QED BY <2>2, <2>3, <2>4
<1>6. ASSUME NEW d \in Drains, DrainStops(d) PROVE OnceInv'
  <2>1. Alone' => AloneInv'
    BY <1>6 DEF DrainStops, AloneInv, OutboxTypeOK
  <2> QED BY <1>6, <2>1 DEF DrainStops, OutboxTypeOK
<1>7. CASE UNCHANGED outboxVars
  BY <1>7 DEF outboxVars, AloneInv, IsOldest
<1> QED BY <1>1, <1>2, <1>3, <1>4, <1>5, <1>6, <1>7 DEF OutboxNext

\* Unless drains overlap or an answer is lost, a message reaches the CSMS once
\* (drainOutbox, called for each accepted boot).
THEOREM OutboxDeliversOnce == OutboxSpec => []DeliveredOnce
<1>1. OutboxInit => OnceInv
  BY OnceInit
<1>2. OrderInv /\ OnceInv /\ [OutboxNext]_outboxVars => OnceInv'
  BY OnceStep
<1>3. OnceInv => DeliveredOnce
  BY DEF OnceInv, Alone, AloneInv, DeliveredOnce
<1> QED BY <1>1, <1>2, <1>3, OrderInvariant, PTL DEF OutboxSpec

(***************************************************************************)
(* CALLs of the CSMS: the answer comes first                               *)
(***************************************************************************)
Actions == Immediate \cup Awaiting \cup Unregistered
Entailed == {"follow", "close", "uploaded"}
CallStates ==
    [at : {"none", "awaits", "awaits again", "answered", "lost"}, action : Actions, link : Nat]
UploadStates == {"none", "sent", "uploads", "uploaded", "failed"}
Frames == [kind : Answers \cup Entailed, call : Incoming, link : Nat]
Queued(c) == \E i \in DOMAIN immediates : immediates[i] = c

IncomingTypes ==
    /\ links \in Nat /\ linked \in BOOLEAN
    /\ incoming \in [Incoming -> CallStates] /\ uploads \in [Incoming -> UploadStates]
    /\ immediates \in Seq(Incoming) /\ frames \in Seq(Frames)
    /\ \A i \in DOMAIN frames : frames[i].link <= links
    /\ \A i, j \in DOMAIN immediates : immediates[i] = immediates[j] => i = j

\* A CALL that has not been answered has left no trace; an answer that was lost leaves the rest to
\* a later link; what is queued has not begun.
CallInv(c) ==
    /\ incoming[c].at \notin {"answered", "lost"} =>
         uploads[c] = "none" /\ ~Queued(c) /\ \A i \in DOMAIN frames : frames[i].call # c
    /\ incoming[c].at # "none" => incoming[c].link <= links
    /\ incoming[c].at = "answered" => FramesOf(c, Answers) # {}
    /\ \A i, j \in FramesOf(c, Answers) : i = j
    /\ \A i \in FramesOf(c, Answers), j \in FramesOf(c, Entailed) : i < j
    /\ incoming[c].at = "lost" =>
         /\ FramesOf(c, Answers) = {} /\ (linked => incoming[c].link < links)
         /\ \A j \in FramesOf(c, Entailed) : frames[j].link > incoming[c].link
    /\ Queued(c) => uploads[c] = "none" /\ FramesOf(c, Entailed) = {}
    /\ uploads[c] # "uploaded" => FramesOf(c, {"uploaded"}) = {}
    /\ uploads[c] \in {"sent", "uploads", "uploaded"} => FramesOf(c, {"follow"}) # {}
    /\ \A i \in FramesOf(c, {"follow"}), j \in FramesOf(c, {"uploaded"}) :
         i < j /\ frames[i].link <= frames[j].link

IncomingInv == IncomingTypes /\ \A c \in Incoming : CallInv(c)

\* No call, immediate or upload is under way at first.
LEMMA IncomingStart == IncomingInit => IncomingInv
BY DEF IncomingInit, IncomingInv, IncomingTypes, CallInv, CallStates, UploadStates, Actions, Unregistered,
       NoIncoming, Queued, FramesOf

\* The invariant of each CALL says that its answer comes first.
LEMMA IncomingSuffices == IncomingInv => AnswersComeFirst
<1>. SUFFICES ASSUME IncomingInv, NEW c \in Incoming
              PROVE  /\ CallInv(c)
                     /\ incoming[c].at \in {"none", "awaits", "awaits again", "answered", "lost"}
  BY DEF AnswersComeFirst, CallInv, FramesOf, Entailed, UploadStates
<1>. QED
  BY DEF IncomingInv, IncomingTypes, CallStates

\* A frame sent is the last one.
LEMMA FrameIsLast ==
    ASSUME IncomingTypes, NEW kind \in Answers \cup Entailed, NEW c \in Incoming,
           frames' = Append(frames, Frame(kind, c))
    PROVE  /\ frames' \in Seq(Frames) /\ Len(frames) + 1 \in DOMAIN frames' /\ Len(frames) \in Nat
           /\ DOMAIN frames' = DOMAIN frames \cup {Len(frames) + 1}
           /\ \A i \in DOMAIN frames : i \in Nat /\ i < Len(frames) + 1 /\ frames'[i] = frames[i]
           /\ frames'[Len(frames) + 1].kind = kind /\ frames'[Len(frames) + 1].call = c
           /\ frames'[Len(frames) + 1].link = links
           /\ \A i \in DOMAIN frames' : frames'[i].link <= links
<1>. DEFINE f == Frame(kind, c)
<1>1. f \in Frames /\ f.kind = kind /\ f.call = c /\ f.link = links
  BY DEF IncomingTypes, Frame, Frames
<1>2. frames \in Seq(Frames) /\ frames' = Append(frames, f) /\ links \in Nat
  BY DEF IncomingTypes
<1>3. \A i \in DOMAIN frames : frames[i].link <= links
  BY DEF IncomingTypes
<1>. HIDE DEF f
<1>4. /\ frames' \in Seq(Frames) /\ Len(frames) + 1 \in DOMAIN frames' /\ Len(frames) \in Nat
      /\ DOMAIN frames' = DOMAIN frames \cup {Len(frames) + 1}
      /\ \A i \in DOMAIN frames : i \in Nat /\ i < Len(frames) + 1 /\ frames'[i] = frames[i]
      /\ frames'[Len(frames) + 1] = f
  BY <1>1, <1>2
<1>. QED
  BY <1>1, <1>2, <1>3, <1>4

\* A count that stands still is where it was.
LEMMA NatStands == ASSUME NEW n \in Nat, NEW m, m = n PROVE m \in Nat /\ m >= n /\ m <= n
OBVIOUS

\* The number of a link only grows.
LEMMA LinksGrow ==
    ASSUME NEW n \in Nat, NEW m, m = n \/ m = n + 1
    PROVE  m \in Nat /\ m >= n /\ (m = n + 1 => m > n)
OBVIOUS

\* What sends, queues and uploads nothing for a CALL leaves it as it was.
LEMMA CallStands ==
    ASSUME IncomingInv, NEW c \in Incoming, links' \in Nat, links' >= links,
           linked' => linked \/ links' > links,
           incoming'[c] = incoming[c], Queued(c)' => Queued(c),
           \/ uploads'[c] = uploads[c]
           \/ uploads[c] \in {"sent", "uploads"} /\ uploads'[c] \in {"uploads", "failed"},
           \A i \in DOMAIN frames : i \in DOMAIN frames' /\ frames'[i] = frames[i],
           \A i \in DOMAIN frames' \ DOMAIN frames : frames'[i].call # c
    PROVE  CallInv(c)'
<1>1. \A kinds : FramesOf(c, kinds)' = FramesOf(c, kinds)
  BY DEF FramesOf
<1>2. links \in Nat /\ incoming[c].link \in Nat /\ \A i \in DOMAIN frames : frames[i].link \in Nat
  <2>1. \A i \in DOMAIN frames : frames[i] \in Frames
    BY DEF IncomingInv, IncomingTypes
  <2>. QED
    BY <2>1 DEF IncomingInv, IncomingTypes, CallStates, Frames
<1>3. \A kinds : \A i \in FramesOf(c, kinds) : frames'[i] = frames[i]
  BY DEF FramesOf
<1>. QED
  BY <1>1, <1>2, <1>3 DEF IncomingInv, CallInv

\* Sending a frame adds it at the end, and moves no frame before it.
LEMMA FrameCounts ==
    ASSUME IncomingTypes, NEW kind \in Answers \cup Entailed, NEW c \in Incoming, NEW kinds,
           frames' = Append(frames, Frame(kind, c))
    PROVE  /\ FramesOf(c, kinds)' = IF kind \in kinds THEN FramesOf(c, kinds) \cup {Len(frames) + 1}
                                    ELSE FramesOf(c, kinds)
           /\ \A i \in FramesOf(c, kinds) : i \in Nat /\ i < Len(frames) + 1 /\ frames'[i] = frames[i]
BY FrameIsLast DEF FramesOf

\* The queue grows by a CALL that was not in it.
LEMMA QueueGrows ==
    ASSUME IncomingTypes, NEW c \in Incoming, ~Queued(c), immediates' \in {immediates, Append(immediates, c)}
    PROVE  /\ immediates' \in Seq(Incoming)
           /\ \A i, j \in DOMAIN immediates' : immediates'[i] = immediates'[j] => i = j
           /\ \A d \in Incoming : d # c /\ Queued(d)' => Queued(d)
<1>1. CASE immediates' = immediates
  BY <1>1 DEF IncomingTypes, Queued
<1>2. CASE immediates' = Append(immediates, c)
  <2>1. /\ immediates' \in Seq(Incoming) /\ DOMAIN immediates' = DOMAIN immediates \cup {Len(immediates) + 1}
        /\ \A i \in DOMAIN immediates : immediates'[i] = immediates[i]
        /\ immediates'[Len(immediates) + 1] = c
    BY <1>2 DEF IncomingTypes
  <2>. QED
    BY <2>1 DEF IncomingTypes, Queued
<1>. QED
  BY <1>1, <1>2

\* An answer is sent, or is lost; with it the rest may be queued.
LEMMA AnswerKeeps ==
    ASSUME IncomingInv, NEW c \in Incoming, incoming[c].at \in {"none", "awaits", "awaits again"},
           NEW kind \in Answers, NEW action \in Actions, incoming[c].at = "none" => linked,
           SendFrame(kind, c), Answered(c, kind, action), UNCHANGED <<links, linked, uploads>>,
           immediates' \in {immediates, Append(immediates, c)}
    PROVE  IncomingInv'
<1>. DEFINE r == [at |-> IF linked THEN "answered" ELSE "lost", action |-> action,
                  link |-> IF incoming[c].at = "none" THEN links ELSE incoming[c].link]
<1>0. IncomingTypes /\ CallInv(c)
  BY DEF IncomingInv
<1>1. incoming' = [incoming EXCEPT ![c] = r]
  BY DEF Answered
<1>2. /\ r \in CallStates /\ r.link \in Nat /\ r.link <= links /\ r.at = IF linked THEN "answered" ELSE "lost"
  <2>. DEFINE at == IF linked THEN "answered" ELSE "lost"
              link == IF incoming[c].at = "none" THEN links ELSE incoming[c].link
  <2>1. at \in {"answered", "lost"}
    BY Zenon
  <2>2. links \in Nat /\ incoming[c].link \in Nat /\ (incoming[c].at # "none" => incoming[c].link <= links)
    BY <1>0 DEF IncomingTypes, CallInv, CallStates
  <2>3. link \in Nat /\ link <= links
    BY <2>2, NatStands, Zenon
  <2>. HIDE DEF at, link
  <2>4. [at |-> at, action |-> action, link |-> link] \in CallStates
    BY <2>1, <2>3 DEF CallStates
  <2>. QED
    BY <2>3, <2>4, Zenon DEF at, link
<1>. HIDE DEF r
<1>3. incoming' \in [Incoming -> CallStates] /\ incoming'[c] = r /\ \A d \in Incoming \ {c} : incoming'[d] = incoming[d]
  BY <1>0, <1>1, <1>2 DEF IncomingTypes
<1>4. uploads[c] = "none" /\ ~Queued(c) /\ \A i \in DOMAIN frames : frames[i].call # c
  BY <1>0 DEF CallInv
<1>5. /\ immediates' \in Seq(Incoming)
      /\ \A i, j \in DOMAIN immediates' : immediates'[i] = immediates'[j] => i = j
      /\ \A d \in Incoming : d # c /\ Queued(d)' => Queued(d)
  BY <1>0, <1>4, QueueGrows
<1>6. \A kinds : FramesOf(c, kinds) = {}
  BY <1>4 DEF FramesOf
<1>9. links' \in Nat /\ links' >= links
  <2>1. links' = links
    OBVIOUS
  <2>2. links \in Nat
    BY <1>0 DEF IncomingTypes
  <2>. QED
    BY <2>1, <2>2, NatStands, Zenon
<1>10. linked' => linked \/ links' > links
  BY Zenon
<1>7. CASE linked
  <2>1. frames' = Append(frames, Frame(kind, c))
    BY <1>7 DEF SendFrame
  <2>2. /\ frames' \in Seq(Frames) /\ DOMAIN frames' = DOMAIN frames \cup {Len(frames) + 1}
        /\ \A i \in DOMAIN frames : frames'[i] = frames[i]
        /\ frames'[Len(frames) + 1].call = c
        /\ \A i \in DOMAIN frames' : frames'[i].link <= links
    BY <1>0, <2>1, FrameIsLast
  <2>3. IncomingTypes'
    BY <1>0, <1>3, <1>5, <2>2 DEF IncomingTypes
  <2>4. /\ FramesOf(c, Answers)' = {Len(frames) + 1} /\ FramesOf(c, Entailed)' = {}
        /\ FramesOf(c, {"uploaded"})' = {} /\ FramesOf(c, {"follow"})' = {}
    <3>1. kind \notin Entailed /\ kind \notin {"uploaded"} /\ kind \notin {"follow"}
      BY DEF Answers, Entailed
    <3>2. \A kinds : FramesOf(c, kinds)' = IF kind \in kinds THEN {Len(frames) + 1} ELSE {}
      BY <1>0, <1>6, <2>1, FrameCounts
    <3>. QED
      BY <3>1, <3>2
  <2>5. CallInv(c)'
    BY <1>2, <1>3, <1>4, <1>7, <2>4 DEF CallInv
  <2>6. \A d \in Incoming \ {c} : CallInv(d)'
    <3>. TAKE d \in Incoming \ {c}
    <3>1. \A i \in DOMAIN frames' \ DOMAIN frames : frames'[i].call # d
      BY <2>2
    <3>. QED
      BY <1>3, <1>5, <1>9, <1>10, <2>2, <3>1, CallStands
  <2>. QED
    BY <2>3, <2>5, <2>6 DEF IncomingInv
<1>8. CASE ~linked
  <2>1. frames' = frames
    BY <1>8 DEF SendFrame
  <2>2. IncomingTypes'
    BY <1>0, <1>3, <1>5, <2>1 DEF IncomingTypes
  <2>3. \A kinds : FramesOf(c, kinds)' = {}
    BY <1>6, <2>1 DEF FramesOf
  <2>4. CallInv(c)'
    BY <1>2, <1>3, <1>4, <1>8, <2>3 DEF CallInv
  <2>5. \A d \in Incoming \ {c} : CallInv(d)'
    BY <1>3, <1>5, <1>9, <1>10, <2>1, CallStands
  <2>. QED
    BY <2>2, <2>4, <2>5 DEF IncomingInv
<1>. QED
  BY <1>7, <1>8

\* A handler begins to wait, or waits again.
LEMMA WaitKeeps ==
    ASSUME IncomingInv, NEW c \in Incoming, NEW r \in CallStates,
           incoming[c].at \in {"none", "awaits", "awaits again"}, r.at \in {"awaits", "awaits again"},
           r.link <= links, incoming' = [incoming EXCEPT ![c] = r],
           UNCHANGED <<links, linked, immediates, uploads, frames>>
    PROVE  IncomingInv'
<1>1. IncomingTypes /\ CallInv(c)
  BY DEF IncomingInv
<1>2. incoming' \in [Incoming -> CallStates] /\ incoming'[c] = r /\ \A d \in Incoming \ {c} : incoming'[d] = incoming[d]
  BY <1>1 DEF IncomingTypes
<1>3. uploads[c] = "none" /\ ~Queued(c) /\ \A i \in DOMAIN frames : frames[i].call # c
  BY <1>1 DEF CallInv
<1>4. \A kinds : FramesOf(c, kinds)' = {}
  BY <1>3 DEF FramesOf
<1>5. CallInv(c)'
  BY <1>2, <1>3, <1>4 DEF CallInv, Queued
<1>9. links' \in Nat /\ links' >= links
  <2>1. links' = links
    OBVIOUS
  <2>2. links \in Nat
    BY <1>1 DEF IncomingTypes
  <2>. QED
    BY <2>1, <2>2, NatStands, Zenon
<1>10. linked' => linked \/ links' > links
  BY Zenon
<1>8. \A d \in Incoming \ {c} : Queued(d)' => Queued(d)
  BY DEF Queued
<1>6. \A d \in Incoming \ {c} : CallInv(d)'
  BY <1>2, <1>8, <1>9, <1>10, CallStands
<1>7. IncomingTypes'
  BY <1>1, <1>2 DEF IncomingTypes
<1>. QED
  BY <1>5, <1>6, <1>7 DEF IncomingInv

\* A CALL arrives: nothing has been sent for it.
LEMMA CallArrivesKeeps == ASSUME IncomingInv, NEW c \in Incoming, CallArrives(c) PROVE IncomingInv'
<1>1. linked /\ incoming[c].at = "none" /\ UNCHANGED <<links, linked, uploads>>
  BY DEF CallArrives, NoIncoming
<1>2. PICK action \in Actions :
         \/ Throws(c, action)
         \/ /\ incoming' = [incoming EXCEPT ![c] = [at |-> "awaits", action |-> action, link |-> links]]
            /\ UNCHANGED <<immediates, frames>>
         \/ Returns(c, action, FALSE) \/ Returns(c, action, TRUE)
  BY Zenon DEF CallArrives, Actions
<1>3. CASE Throws(c, action)
  BY <1>1, <1>3, AnswerKeeps DEF Throws, Answers, Answered
<1>4. CASE Returns(c, action, FALSE) \/ Returns(c, action, TRUE)
  BY <1>1, <1>4, AnswerKeeps DEF Returns, Answers
<1>5. CASE /\ incoming' = [incoming EXCEPT ![c] = [at |-> "awaits", action |-> action, link |-> links]]
           /\ UNCHANGED <<immediates, frames>>
  <2>. DEFINE r == [at |-> "awaits", action |-> action, link |-> links]
  <2>1. r \in CallStates /\ r.at = "awaits" /\ r.link = links /\ links \in Nat
    BY DEF IncomingInv, IncomingTypes, CallStates
  <2>2. incoming' = [incoming EXCEPT ![c] = r]
    BY <1>5
  <2>. HIDE DEF r
  <2>3. r.link <= links
    BY <2>1
  <2>. QED
    BY <1>1, <1>5, <2>1, <2>2, <2>3, WaitKeeps
<1>. QED
  BY <1>2, <1>3, <1>4, <1>5

\* A handler returns: its answer is sent before what it deferred can run.
LEMMA HandlerResumesKeeps == ASSUME IncomingInv, NEW c \in Incoming, HandlerResumes(c) PROVE IncomingInv'
<1>. DEFINE action == incoming[c].action
<1>1. /\ incoming[c].at \in {"awaits", "awaits again"} /\ UNCHANGED <<links, linked, uploads>>
      /\ incoming[c] \in CallStates /\ incoming[c].action \in Actions
  BY DEF HandlerResumes, IncomingInv, IncomingTypes, CallStates
<1>2. \/ Throws(c, action)
      \/ incoming' = [incoming EXCEPT ![c].at = "awaits again"] /\ UNCHANGED <<immediates, frames>>
      \/ Returns(c, action, FALSE) \/ Returns(c, action, TRUE)
  BY DEF HandlerResumes
<1>3. CASE Throws(c, action)
  BY <1>1, <1>3, AnswerKeeps DEF Throws, Answers, Answered
<1>4. CASE Returns(c, action, FALSE) \/ Returns(c, action, TRUE)
  BY <1>1, <1>4, AnswerKeeps DEF Returns, Answers
<1>5. CASE incoming' = [incoming EXCEPT ![c].at = "awaits again"] /\ UNCHANGED <<immediates, frames>>
  <2>. DEFINE r == [incoming[c] EXCEPT !.at = "awaits again"]
  <2>1. r \in CallStates /\ r.at = "awaits again" /\ r.link = incoming[c].link
    BY <1>1 DEF CallStates
  <2>2. incoming' = [incoming EXCEPT ![c] = r]
    BY <1>5
  <2>3. incoming[c].link <= links
    BY <1>1 DEF IncomingInv, CallInv
  <2>. HIDE DEF r
  <2>. QED
    BY <1>1, <1>5, <2>1, <2>2, <2>3, WaitKeeps
<1>. QED
  BY <1>2, <1>3, <1>4, <1>5

\* What an answered CALL entails is sent, when nothing of it is left in the queue.
LEMMA EntailedSent ==
    ASSUME IncomingInv, NEW c \in Incoming, NEW kind \in Entailed, incoming[c].at \in {"answered", "lost"},
           linked, frames' = Append(frames, Frame(kind, c)), UNCHANGED <<links, incoming>>, ~Queued(c)',
           FramesOf(c, {"uploaded"}) = {},
           \/ kind = "uploaded" /\ uploads'[c] = "uploaded" /\ FramesOf(c, {"follow"}) # {}
           \/ kind = "follow" /\ uploads'[c] \in {"none", "sent"}
           \/ kind = "close" /\ uploads'[c] = "none"
    PROVE  CallInv(c)'
<1>. DEFINE n == Len(frames) + 1
<1>0. IncomingTypes /\ CallInv(c)
  BY DEF IncomingInv
<1>21. \A kinds : FramesOf(c, kinds)' = IF kind \in kinds THEN FramesOf(c, kinds) \cup {n} ELSE FramesOf(c, kinds)
  BY <1>0, FrameCounts
<1>20. /\ FramesOf(c, Answers)' = IF kind \in Answers THEN FramesOf(c, Answers) \cup {n} ELSE FramesOf(c, Answers)
       /\ FramesOf(c, Entailed)' = IF kind \in Entailed THEN FramesOf(c, Entailed) \cup {n} ELSE FramesOf(c, Entailed)
  BY <1>21
<1>1. /\ FramesOf(c, {"uploaded"})' = IF kind \in {"uploaded"} THEN FramesOf(c, {"uploaded"}) \cup {n}
                                     ELSE FramesOf(c, {"uploaded"})
      /\ FramesOf(c, {"follow"})' = IF kind \in {"follow"} THEN FramesOf(c, {"follow"}) \cup {n}
                                   ELSE FramesOf(c, {"follow"})
  BY <1>21
<1>18. \A i \in DOMAIN frames : i < n /\ frames'[i] = frames[i]
  BY <1>0, FrameIsLast
<1>2. frames'[n].link = links /\ \A i \in DOMAIN frames : frames'[i].link <= links /\ frames[i].link <= links
  BY <1>0, FrameIsLast DEF IncomingTypes
<1>3. kind \notin Answers
  BY DEF Answers, Entailed
<1>22. links \in Nat /\ incoming[c].link \in Nat /\ frames \in Seq(Frames)
  BY <1>0 DEF IncomingTypes, CallStates
<1>4. links \in Nat /\ incoming[c].link \in Nat /\ n \in Nat
  BY <1>22
<1>19. incoming[c].at = "lost" => incoming[c].link < links
  BY <1>0 DEF CallInv
<1>. HIDE DEF n
<1>5. FramesOf(c, Answers)' = FramesOf(c, Answers) /\ FramesOf(c, Entailed)' = FramesOf(c, Entailed) \cup {n}
  BY <1>3, <1>20
<1>16. /\ \A j \in FramesOf(c, {"uploaded"})' : j = n
       /\ kind # "uploaded" => FramesOf(c, {"uploaded"})' = {}
       /\ kind = "uploaded" => FramesOf(c, {"follow"})' = FramesOf(c, {"follow"})
       /\ kind = "follow" => n \in FramesOf(c, {"follow"})'
  BY <1>1
<1>17. /\ \A i \in FramesOf(c, Answers) : i < n
       /\ \A i \in FramesOf(c, Entailed) : i < n /\ i \in DOMAIN frames /\ frames'[i] = frames[i]
       /\ \A i \in FramesOf(c, {"follow"}) : i < n /\ i \in DOMAIN frames
  BY <1>18 DEF FramesOf
<1>6. \A i, j \in FramesOf(c, Answers)' : i = j
  BY <1>0, <1>5 DEF CallInv
<1>7. \A i \in FramesOf(c, Answers)', j \in FramesOf(c, Entailed)' : i < j
  BY <1>0, <1>5, <1>17 DEF CallInv
<1>8. incoming[c].at = "lost" => \A j \in FramesOf(c, Entailed)' : frames'[j].link > incoming[c].link
  <2>. SUFFICES ASSUME incoming[c].at = "lost", NEW j \in FramesOf(c, Entailed) \cup {n}
                PROVE  frames'[j].link > incoming[c].link
    BY <1>5
  <2>1. CASE j = n
    BY <1>2, <1>4, <1>19, <2>1
  <2>2. CASE j \in FramesOf(c, Entailed)
    BY <1>0, <1>17, <2>2 DEF CallInv
  <2>. QED
    BY <2>1, <2>2
<1>9. uploads'[c] # "uploaded" => FramesOf(c, {"uploaded"})' = {}
  BY <1>16
<1>10. uploads'[c] \in {"sent", "uploads", "uploaded"} => FramesOf(c, {"follow"})' # {}
  BY <1>16
<1>11. \A i \in FramesOf(c, {"follow"})', j \in FramesOf(c, {"uploaded"})' :
          i < j /\ frames'[i].link <= frames'[j].link
  <2>1. \A i \in FramesOf(c, {"follow"}) : i < n /\ frames'[i].link <= links
    BY <1>2, <1>17
  <2>2. \A j \in FramesOf(c, {"uploaded"})' : j = n /\ kind = "uploaded" /\ FramesOf(c, {"follow"})' = FramesOf(c, {"follow"})
    BY <1>16
  <2>. QED
    BY <1>2, <2>1, <2>2
<1>12. incoming[c].at = "answered" => FramesOf(c, Answers)' # {}
  BY <1>0, <1>5 DEF CallInv
<1>13. incoming[c].at = "lost" => FramesOf(c, Answers)' = {}
  BY <1>0, <1>5 DEF CallInv
<1>14. incoming'[c] = incoming[c] /\ links' = links /\ incoming[c].link <= links
  BY <1>0 DEF CallInv
<1>15. linked' => linked
  OBVIOUS
<1>. QED
  BY <1>4, <1>6, <1>7, <1>8, <1>9, <1>10, <1>11, <1>12, <1>13, <1>14, <1>19 DEF CallInv

\* A callback of the queue runs: its CALL is not in the queue again.
LEMMA QueueShrinks ==
    ASSUME IncomingTypes, immediates # << >>, NEW c, c = Head(immediates), immediates' = Tail(immediates)
    PROVE  /\ c \in Incoming /\ Queued(c) /\ ~Queued(c)'
           /\ immediates' \in Seq(Incoming)
           /\ \A i, j \in DOMAIN immediates' : immediates'[i] = immediates'[j] => i = j
           /\ \A d : Queued(d)' => Queued(d)
<1>1. /\ immediates \in Seq(Incoming) /\ \A i, j \in DOMAIN immediates : immediates[i] = immediates[j] => i = j
  BY DEF IncomingTypes
<1>2. /\ c = immediates[1] /\ 1 \in DOMAIN immediates /\ c \in Incoming
      /\ immediates' \in Seq(Incoming)
      /\ \A i \in DOMAIN immediates' : i \in Nat /\ i + 1 # 1 /\ i + 1 \in DOMAIN immediates /\ immediates'[i] = immediates[i + 1]
  BY <1>1
<1>3. \A i, j \in DOMAIN immediates' : immediates'[i] = immediates'[j] => i = j
  <2>. TAKE i, j \in DOMAIN immediates'
  <2>. HAVE immediates'[i] = immediates'[j]
  <2>1. i + 1 = j + 1 /\ i \in Nat /\ j \in Nat
    BY <1>1, <1>2
  <2>. QED
    BY <2>1
<1>4. Queued(c) /\ \A d : Queued(d)' => Queued(d)
  BY <1>2 DEF Queued
<1>5. \A i \in DOMAIN immediates' : immediates'[i] # c
  <2>. SUFFICES ASSUME NEW i \in DOMAIN immediates', immediates'[i] = c
                PROVE  FALSE
    OBVIOUS
  <2>1. i + 1 = 1
    BY <1>1, <1>2
  <2>. QED
    BY <1>2, <2>1
<1>6. ~Queued(c)'
  BY <1>5 DEF Queued
<1>. QED
  BY <1>2, <1>3, <1>4, <1>6

\* A lost link rejects the status notifications that uploads await, and no more.
LEMMA RejectedUploads ==
    ASSUME IncomingInv, NEW c \in Incoming
    PROVE  /\ CallsRejected \in [Incoming -> UploadStates] /\ uploads[c] \in UploadStates
           /\ (uploads[c] = "none" => CallsRejected[c] = "none")
           /\ \/ CallsRejected[c] = uploads[c]
              \/ uploads[c] = "sent" /\ CallsRejected[c] = "failed"
BY DEF IncomingInv, IncomingTypes, CallsRejected, UploadStates

\* The link is lost or opened, the handlers are unregistered, an upload goes on: no frame is sent.
LEMMA NothingSentKeeps ==
    ASSUME IncomingInv, links' \in Nat, links' >= links, linked' \in BOOLEAN,
           linked' => linked \/ links' > links,
           UNCHANGED <<incoming, immediates, frames>>, uploads' \in [Incoming -> UploadStates],
           \A c \in Incoming :
             \/ uploads'[c] = uploads[c]
             \/ uploads[c] \in {"sent", "uploads"} /\ uploads'[c] \in {"uploads", "failed"}
    PROVE  IncomingInv'
<1>1. \A c \in Incoming : Queued(c)' => Queued(c)
  BY DEF Queued
<1>2. \A c \in Incoming : CallInv(c)'
  <2>1. \A i \in DOMAIN frames : i \in DOMAIN frames' /\ frames'[i] = frames[i]
    OBVIOUS
  <2>2. DOMAIN frames' \ DOMAIN frames = {}
    OBVIOUS
  <2>. QED
    BY <1>1, <2>1, <2>2, CallStands
<1>3. \A i \in DOMAIN frames : frames[i].link <= links'
  <2>1. \A i \in DOMAIN frames : frames[i] \in Frames /\ frames[i].link <= links
    BY DEF IncomingInv, IncomingTypes
  <2>2. links \in Nat
    BY DEF IncomingInv, IncomingTypes
  <2>. QED
    BY <2>1, <2>2 DEF Frames
<1>4. IncomingTypes'
  BY <1>3 DEF IncomingInv, IncomingTypes
<1>. QED
  BY <1>2, <1>4 DEF IncomingInv

\* Losing, reopening or disposing of the link sends no frame.
LEMMA LinkKeeps ==
    ASSUME IncomingInv, LinkLost \/ LinkReopened \/ Disposed \/ UNCHANGED incomingVars
    PROVE  IncomingInv'
<1>1. links \in Nat /\ linked \in BOOLEAN /\ uploads \in [Incoming -> UploadStates]
  BY DEF IncomingInv, IncomingTypes
<1>2. UNCHANGED <<incoming, immediates, frames>>
  BY DEF LinkLost, LinkReopened, Disposed, incomingVars
<1>3. /\ uploads' \in [Incoming -> UploadStates]
      /\ \A c \in Incoming :
             \/ uploads'[c] = uploads[c]
             \/ uploads[c] \in {"sent", "uploads"} /\ uploads'[c] \in {"uploads", "failed"}
  <2>1. CASE LinkLost
    <3>1. uploads' = CallsRejected
      BY <2>1 DEF LinkLost
    <3>2. \A c \in Incoming : CallsRejected[c] = uploads[c] \/ (uploads[c] = "sent" /\ CallsRejected[c] = "failed")
      BY RejectedUploads
    <3>3. CallsRejected \in [Incoming -> UploadStates]
      BY <1>1 DEF CallsRejected, UploadStates
    <3>. QED
      BY <3>1, <3>2, <3>3
  <2>2. CASE uploads' = uploads
    BY <1>1, <2>2
  <2>. QED
    BY <2>1, <2>2 DEF LinkReopened, Disposed, incomingVars
<1>4. links' = links \/ links' = links + 1
  BY DEF LinkLost, LinkReopened, Disposed, incomingVars
<1>5. links' \in Nat /\ links' >= links
  BY <1>1, <1>4, LinksGrow
<1>6. linked' \in BOOLEAN
  BY <1>1, Zenon DEF LinkLost, LinkReopened, Disposed, incomingVars
<1>7. linked' => linked \/ links' > links
  <2>1. CASE LinkReopened
    BY <1>1, <2>1, LinksGrow DEF LinkReopened
  <2>2. CASE ~LinkReopened
    BY <2>2, Zenon DEF LinkLost, Disposed, incomingVars
  <2>. QED
    BY <2>1, <2>2
<1>. QED
  BY <1>2, <1>3, <1>5, <1>6, <1>7, NothingSentKeeps

\* The answer to the Uploading notification lets the upload begin.
LEMMA UploadingAnsweredKeeps == ASSUME IncomingInv, NEW c \in Incoming, UploadingAnswered(c) PROVE IncomingInv'
<1>1. links \in Nat /\ linked \in BOOLEAN /\ uploads \in [Incoming -> UploadStates]
  BY DEF IncomingInv, IncomingTypes
<1>2. UNCHANGED <<incoming, immediates, frames>> /\ links' = links /\ linked' = linked
  BY DEF UploadingAnswered
<1>3. PICK to \in {"uploads", "failed"} : uploads[c] = "sent" /\ uploads' = [uploads EXCEPT ![c] = to]
  BY DEF UploadingAnswered
<1>4. /\ uploads' \in [Incoming -> UploadStates]
      /\ \A d \in Incoming :
             \/ uploads'[d] = uploads[d]
             \/ uploads[d] \in {"sent", "uploads"} /\ uploads'[d] \in {"uploads", "failed"}
  BY <1>1, <1>3 DEF UploadStates
<1>5. links' \in Nat /\ links' >= links
  BY <1>1, <1>2, NatStands
<1>6. linked' \in BOOLEAN /\ (linked' => linked \/ links' > links)
  BY <1>1, <1>2, Zenon
<1>. QED
  BY <1>2, <1>4, <1>5, <1>6, NothingSentKeeps

\* What a CALL entails is sent: the others stand.
LEMMA SentKeeps ==
    ASSUME IncomingInv, NEW c \in Incoming, NEW kind \in Entailed, linked' \in BOOLEAN,
           linked, frames' = Append(frames, Frame(kind, c)), UNCHANGED <<links, incoming>>, CallInv(c)',
           immediates' \in Seq(Incoming), \A d \in Incoming : Queued(d)' => Queued(d),
           \A i, j \in DOMAIN immediates' : immediates'[i] = immediates'[j] => i = j,
           uploads' \in [Incoming -> UploadStates],
           \A d \in Incoming \ {c} :
             \/ uploads'[d] = uploads[d]
             \/ uploads[d] \in {"sent", "uploads"} /\ uploads'[d] \in {"uploads", "failed"}
    PROVE  IncomingInv'
<1>0. IncomingTypes /\ links \in Nat /\ links' = links
  BY DEF IncomingInv, IncomingTypes
<1>1. links' \in Nat /\ links' >= links
  BY <1>0, NatStands, Zenon
<1>2. linked' => linked \/ links' > links
  BY Zenon
<1>3. /\ frames' \in Seq(Frames) /\ DOMAIN frames' = DOMAIN frames \cup {Len(frames) + 1}
      /\ \A i \in DOMAIN frames : frames'[i] = frames[i]
      /\ frames'[Len(frames) + 1].call = c
      /\ \A i \in DOMAIN frames' : frames'[i].link <= links
  BY <1>0, FrameIsLast
<1>4. IncomingTypes'
  BY <1>0, <1>1, <1>3 DEF IncomingTypes
<1>5. \A d \in Incoming \ {c} : CallInv(d)'
  <2>. TAKE d \in Incoming \ {c}
  <2>1. \A i \in DOMAIN frames' \ DOMAIN frames : frames'[i].call # d
    BY <1>3
  <2>2. incoming'[d] = incoming[d] /\ (Queued(d)' => Queued(d))
    BY Zenon
  <2>. QED
    BY <1>1, <1>2, <1>3, <2>1, <2>2, CallStands
<1>. QED
  BY <1>4, <1>5 DEF IncomingInv

\* An upload that is over tells the CSMS, after the answer that began it.
LEMMA UploadedKeeps == ASSUME IncomingInv, NEW c \in Incoming, Uploaded(c) PROVE IncomingInv'
<1>0. IncomingTypes /\ CallInv(c)
  BY DEF IncomingInv
<1>1. links \in Nat /\ linked \in BOOLEAN /\ uploads \in [Incoming -> UploadStates] /\ immediates \in Seq(Incoming)
  BY <1>0 DEF IncomingTypes
<1>2. UNCHANGED <<incoming, immediates>> /\ links' = links /\ linked' = linked /\ uploads[c] = "uploads"
  BY DEF Uploaded
<1>3. CASE ~linked
  <2>1. uploads' = [uploads EXCEPT ![c] = "failed"] /\ frames' = frames
    BY <1>3 DEF Uploaded
  <2>2. /\ uploads' \in [Incoming -> UploadStates]
        /\ \A d \in Incoming :
               \/ uploads'[d] = uploads[d]
               \/ uploads[d] \in {"sent", "uploads"} /\ uploads'[d] \in {"uploads", "failed"}
    BY <1>1, <1>2, <2>1 DEF UploadStates
  <2>3. links' \in Nat /\ links' >= links
    BY <1>1, <1>2, NatStands
  <2>4. linked' \in BOOLEAN /\ (linked' => linked \/ links' > links)
    BY <1>1, <1>2, Zenon
  <2>. QED
    BY <1>2, <2>1, <2>2, <2>3, <2>4, NothingSentKeeps
<1>4. CASE linked
  <2>1. uploads' = [uploads EXCEPT ![c] = "uploaded"] /\ frames' = Append(frames, Frame("uploaded", c))
    BY <1>4 DEF Uploaded, CallSent
  <2>2. uploads' \in [Incoming -> UploadStates] /\ uploads'[c] = "uploaded" /\ \A d \in Incoming \ {c} : uploads'[d] = uploads[d]
    BY <1>1, <2>1 DEF UploadStates
  <2>3. \A d \in Incoming : Queued(d)' => Queued(d)
    BY <1>2 DEF Queued
  <2>4. ~Queued(c) /\ incoming[c].at \in {"answered", "lost"} /\ FramesOf(c, {"uploaded"}) = {} /\ FramesOf(c, {"follow"}) # {}
    BY <1>0, <1>2 DEF CallInv
  <2>5. "uploaded" \in Entailed /\ ~Queued(c)'
    BY <2>3, <2>4 DEF Entailed
  <2>6. CallInv(c)'
    BY <1>2, <1>4, <2>1, <2>2, <2>4, <2>5, EntailedSent
  <2>7. \A i, j \in DOMAIN immediates' : immediates'[i] = immediates'[j] => i = j
    BY <1>0, <1>2 DEF IncomingTypes
  <2>8. linked' \in BOOLEAN
    BY <1>1, <1>2, Zenon
  <2>9. immediates' \in Seq(Incoming)
    BY <1>1, <1>2
  <2>. QED
    BY <1>2, <1>4, <2>1, <2>2, <2>3, <2>5, <2>6, <2>7, <2>8, <2>9, SentKeeps
<1>. QED
  BY <1>3, <1>4

\* What setImmediate deferred runs after the answer of the handler that deferred it.
LEMMA ImmediateRunsKeeps == ASSUME IncomingInv, ImmediateRuns PROVE IncomingInv'
<1>1. IncomingTypes /\ immediates # << >> /\ immediates' = Tail(immediates) /\ UNCHANGED <<links, incoming>>
  BY DEF ImmediateRuns, IncomingInv
<1>5. PICK c \in Incoming : c = Head(immediates)
  BY <1>1 DEF IncomingTypes
<1>3. PICK kind \in Entailed : kind = IF incoming[c].action = "Reset" THEN "close" ELSE "follow"
  BY DEF Entailed
<1>10. kind \in {"close", "follow"} /\ (kind = "close" <=> incoming[c].action = "Reset")
  BY <1>3
<1>2. /\ linked' = IF incoming[c].action = "Reset" THEN FALSE ELSE linked
      /\ ~linked => UNCHANGED <<uploads, frames>>
      /\ linked => /\ frames' = Append(frames, Frame(kind, c))
                   /\ uploads' = IF incoming[c].action = "Reset" THEN CallsRejected
                                 ELSE IF incoming[c].action = "GetDiagnostics" THEN [uploads EXCEPT ![c] = "sent"]
                                 ELSE uploads
  BY <1>3, <1>5 DEF ImmediateRuns, CallSent
<1>4. linked' \in BOOLEAN /\ (linked' => linked)
  BY <1>1, <1>2, Zenon DEF IncomingTypes
<1>6. /\ c \in Incoming /\ Queued(c) /\ ~Queued(c)'
      /\ immediates' \in Seq(Incoming)
      /\ \A i, j \in DOMAIN immediates' : immediates'[i] = immediates'[j] => i = j
      /\ \A d \in Incoming : Queued(d)' => Queued(d)
  BY <1>1, <1>5, QueueShrinks
<1>7. /\ incoming[c].at \in {"answered", "lost"} /\ uploads[c] = "none" /\ FramesOf(c, {"uploaded"}) = {}
  BY <1>6 DEF IncomingInv, CallInv
<1>8. CASE linked
  <2>1. /\ uploads' \in [Incoming -> UploadStates]
        /\ \A d \in Incoming \ {c} :
             \/ uploads'[d] = uploads[d]
             \/ uploads[d] \in {"sent", "uploads"} /\ uploads'[d] \in {"uploads", "failed"}
    BY <1>1, <1>2, <1>6, <1>8, RejectedUploads DEF IncomingTypes, UploadStates
  <2>2. kind = "close" => uploads'[c] = "none"
    BY <1>2, <1>10, <1>6, <1>7, <1>8, RejectedUploads
  <2>3. kind = "follow" => uploads'[c] \in {"none", "sent"}
    BY <1>1, <1>2, <1>10, <1>6, <1>7, <1>8 DEF IncomingTypes
  <2>4. frames' = Append(frames, Frame(kind, c))
    BY <1>2, <1>8
  <2>5. CallInv(c)'
    BY <1>1, <1>6, <1>7, <1>8, <1>10, <2>2, <2>3, <2>4, EntailedSent
  <2>. QED
    BY <1>1, <1>3, <1>4, <1>6, <1>8, <2>1, <2>4, <2>5, SentKeeps
<1>9. CASE ~linked
  <2>1. links \in Nat /\ links' = links
    BY <1>1 DEF IncomingTypes
  <2>2. links' \in Nat /\ links' >= links
    BY <2>1, NatStands, Zenon
  <2>3. UNCHANGED <<uploads, frames, incoming>>
    BY <1>1, <1>2, <1>9
  <2>4. linked' => linked \/ links' > links
    BY <1>4, Zenon
  <2>5. \A d \in Incoming : CallInv(d)'
    <3>1. \A i \in DOMAIN frames : i \in DOMAIN frames' /\ frames'[i] = frames[i]
      BY <2>3
    <3>2. DOMAIN frames' \ DOMAIN frames = {}
      BY <2>3
    <3>3. \A d \in Incoming : uploads'[d] = uploads[d] /\ incoming'[d] = incoming[d]
      BY <2>3
    <3>. QED
      BY <1>6, <2>2, <2>4, <3>1, <3>2, <3>3, CallStands
  <2>6. IncomingTypes'
    BY <1>1, <1>4, <1>6, <2>1, <2>3 DEF IncomingTypes
  <2>. QED
    BY <2>5, <2>6 DEF IncomingInv
<1>. QED
  BY <1>8, <1>9

\* Every step keeps the invariant.
LEMMA IncomingStep == IncomingInv /\ [IncomingNext]_incomingVars => IncomingInv'
<1>. SUFFICES ASSUME IncomingInv, [IncomingNext]_incomingVars PROVE IncomingInv'
  OBVIOUS
<1>1. CASE ImmediateRuns
  BY <1>1, ImmediateRunsKeeps
<1>2. CASE LinkLost \/ LinkReopened \/ Disposed \/ UNCHANGED incomingVars
  BY <1>2, LinkKeeps
<1>3. CASE \E c \in Incoming : CallArrives(c)
  BY <1>3, CallArrivesKeeps
<1>4. CASE \E c \in Incoming : HandlerResumes(c)
  BY <1>4, HandlerResumesKeeps
<1>5. CASE \E c \in Incoming : UploadingAnswered(c)
  BY <1>5, UploadingAnsweredKeeps
<1>6. CASE \E c \in Incoming : Uploaded(c)
  BY <1>6, UploadedKeeps
<1>. QED
  BY <1>1, <1>2, <1>3, <1>4, <1>5, <1>6, Zenon DEF IncomingNext

\* Whatever the number of CALLs and of links: one answer a CALL, before whatever the CALL entails.
THEOREM AnswersFirst == IncomingSpec => []AnswersComeFirst
<1>1. IncomingSpec => []IncomingInv
  BY IncomingStart, IncomingStep, PTL DEF IncomingSpec
<1>. QED
  BY <1>1, IncomingSuffices, PTL
=============================================================================

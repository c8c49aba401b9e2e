--------------------- MODULE ConnectorLifecycleProofs ----------------------
(***************************************************************************)
(* One operation at a time: what polls, timers, failed calls and restarts  *)
(* do to the row beside the operation under way does not undo what the     *)
(* operation has seen. So a connector lives the life of                    *)
(* ConnectorLifecycle, and without restarts it charges only while a        *)
(* vehicle is there.                                                       *)
(***************************************************************************)
EXTENDS ConnectorSessionProofs

\* Where a request can be while it resolves the row it read, which every handler does
\* and which is all a poll does (resolvePendingPromotion).
ResolvePCs ==
    {"idle", "read", "expire", "claim", "finish", "reread", "armFinish", "claimed", "call",
     "accepted", "rejected", "adopted", "closeLost", "promote", "body", "arm"}

\* The places from the vehicle's arrival to the adoption of the CSMS's session.
AdoptPCs == {"remoteCall", "remoteAccepted", "remoteKept", "remoteAdopt"}

\* An operation, rather than a poll.
Busy(c) == c.op \notin {"none", "poll"}

\* What else a request may do depends on what it was asked for.
Placed(c) ==
    /\ c.pc = "idle" => c.op = "none"
    /\ ~Busy(c) => c.pc \in ResolvePCs
    /\ c.op = "release" => c.pc \in ResolvePCs \cup {"clear"}

\* One operation runs at a time.
Alone ==
    /\ \A p \in Calls : Placed(call[p])
    /\ \A p, q \in Calls : Busy(call[p]) /\ Busy(call[q]) => p = q

\* A session beyond the handshake.
Going(r) == Stage(r) \in {"claimed", "running"}

\* A free or faulted connector has no session, one with a transaction has a session in
\* progress, and one of the CSMS is not claimed.
RowFits(r) ==
    /\ r.status \in {"Available", "Faulted"} => r.activeStartedAt = 0
    /\ r.activeTransactionId # 0 => Going(r)
    /\ r.activeIsRemote /\ r.activeStartPending => r.activeTransactionId # 0

\* The connector waits for the CSMS to accept a transaction.
AwaitsCsms(r) == Stage(r) \in {"none", "awaited"} /\ r.status \in {"Available", "Preparing"}

\* What an operation c knows of the row r, however old its snapshot is.
Seen(c, r) ==
    /\ c.pc \in {"armFinish", "body", "unplugged"} /\ c.s.activeStartedAt = 0
           => r.activeStartedAt = 0
    /\ c.op \in StopOps /\ c.pc \in {"armFinish", "body", "arm", "clear"} =>
           (c.s.activeTransactionId # 0 => Going(r) \/ Stage(r) = "none")
    /\ c.pc \in {"armFinish", "body"} =>
           /\ c.s.status = "Available" => r.status = "Available"
           /\ c.s.evConnected <=> r.evConnected
    /\ c.pc = "write" => r.status = "Faulted"
    /\ c.op = "remoteWait" \/ (c.op = "remoteStart" /\ c.pc = "arm") => AwaitsCsms(r)
    /\ c.pc \in AdoptPCs => r.evConnected

OperationSeen == \A p \in Calls : Busy(call[p]) => Seen(call[p], row)

\* Why one operation at a time lives the life of ConnectorLifecycle: what polls, timers
\* and answers do to the row meanwhile does not undo what the operation has seen.
AloneInv == Alone /\ RowFits(row) /\ OperationSeen

\* What a poll may make of a row r.
Quiet(r, r2) ==
    /\ r2.evConnected = r.evConnected
    /\ r.status \in {"Available", "Faulted"} => r2.status = r.status
    /\ r.activeStartedAt = 0 => r2.activeStartedAt = 0
    /\ Stage(r2) \in {"offered", "awaited"} => Stage(r2) = Stage(r)
    /\ AwaitsCsms(r) => AwaitsCsms(r2)
    /\ Going(r2) /\ ~r2.evConnected => Going(r)

\* Such a change leaves an operation what it has seen.
LEMMA QuietSeen ==
    ASSUME NEW c, NEW r, NEW r2, Quiet(r, r2), Seen(c, r)
    PROVE  Seen(c, r2)
  BY DEF Quiet, Seen, Going, Stage

\* Nothing happening is quiet.
LEMMA SameQuiet == ASSUME NEW r PROVE Quiet(r, r)
  BY DEF Quiet

\* So does the end of an attempt.
LEMMA ReleasedQuiet ==
    ASSUME NEW r \in Row, r.status = "Preparing"
    PROVE  Quiet(r, Released(r, "Available")) /\ RowFits(Released(r, "Available"))
<1> DEFINE r2 == Released(r, "Available")
<1>1. /\ r2.status = "Available" /\ r2.evConnected = r.evConnected
      /\ r2.activeStartedAt = 0 /\ r2.activeTransactionId = 0
      /\ r2.activeIsRemote = FALSE
  BY DEF Released, Row
<1> HIDE DEF r2
<1>2. Stage(r2) = "none"
  BY <1>1 DEF Stage
<1>3. Quiet(r, r2) /\ RowFits(r2)
  BY <1>1, <1>2 DEF Quiet, RowFits, Going, AwaitsCsms
<1> QED BY <1>3 DEF r2

\* What every request does when it resolves the row is quiet.
LEMMA ResolveQuiet ==
    ASSUME TypeOK, RequestsPrepared, WholeInv, IssuedInv, RowFits(row), NEW p \in Calls,
           \/ Expire(p) \/ FinishHold(p) \/ Claim(p)
           \/ Reject(p) \/ Adopt(p) \/ Promote(p)
    PROVE  Quiet(row, row') /\ RowFits(row')
<1>c. row \in Row /\ call[p] \in Call /\ call[p].s \in Row /\ clock \in Nat /\ Prepared(call[p])
  BY DEF TypeOK, Call, RequestsPrepared
<1>u. row' = row => Quiet(row, row') /\ RowFits(row')
  BY SameQuiet
<1>r. row.status = "Preparing" /\ row' = Released(row, "Available")
          => Quiet(row, row') /\ RowFits(row')
  BY <1>c, ReleasedQuiet
<1>1. CASE Expire(p)
  BY <1>1, <1>u, <1>r DEF Expire
<1>2. CASE FinishHold(p)
  <2>1. CASE row.status = "Finishing"
    <3>1. PICK settled \in {"Available", "Preparing"} : \E since :
              row' = [row EXCEPT !.status = settled, !.locked = FALSE, !.finishingSince = 0,
                                 !.finishingNextStatus = "null", !.preparingSince = since]
      <4> DEFINE final == FinalStatus(call[p].s)
      <4>1. final \in {"Available", "Preparing"}
        BY <1>c DEF FinalStatus, Row
      <4>2. row' = [row EXCEPT !.status = final, !.locked = FALSE, !.finishingSince = 0,
                               !.finishingNextStatus = "null",
                               !.preparingSince = SettledSince(final)]
        BY <1>2, <2>1 DEF FinishHold
      <4> QED BY <4>1, <4>2
    <3>2. /\ row'.status = settled /\ row'.evConnected = row.evConnected
          /\ row'.activeStartedAt = row.activeStartedAt
          /\ row'.activeTransactionId = row.activeTransactionId
          /\ row'.activeIsRemote = row.activeIsRemote
          /\ row'.activeStartPending = row.activeStartPending
      BY <3>1, <1>c DEF Row
    <3>3. row.activeStartedAt = 0 /\ row.activeTransactionId = 0 /\ ~row.activeStartPending
      BY <2>1 DEF WholeInv, SessionIsWhole, FinishingIsIdle, FieldsAgree
    <3>4. Stage(row') = "none"
      BY <3>2, <3>3 DEF Stage
    <3> QED BY <2>1, <3>2, <3>3, <3>4 DEF Quiet, RowFits, Going, AwaitsCsms
  <2> QED BY <1>2, <2>1, <1>u DEF FinishHold
<1>3. CASE Claim(p)
  <2>1. CASE ClaimMatches(p)
    <3>1. row' = [row EXCEPT !.activeStartPending = TRUE,
                             !.transactionCounter = NextLocalId(call[p].s)]
      BY <1>3, <2>1 DEF Claim
    <3>2. /\ row'.status = row.status /\ row'.evConnected = row.evConnected
          /\ row'.activeStartedAt = row.activeStartedAt
          /\ row'.activeTransactionId = row.activeTransactionId
          /\ row'.activeIsRemote = row.activeIsRemote
          /\ row'.activeStartPending = TRUE
      BY <3>1, <1>c DEF Row
    <3>3. /\ row.status = "Preparing" /\ row.evConnected /\ ~row.activeStartPending
          /\ row.activeStartedAt # 0 /\ ~row.activeIsRemote
      BY <1>3, <2>1, <1>c DEF Claim, ClaimMatches, At, Prepared, IssuedInv, ClaimIsLocal
    <3>4. Stage(row) = "offered" /\ Stage(row') = "claimed"
      BY <3>2, <3>3 DEF Stage
    <3> QED BY <3>2, <3>3, <3>4 DEF Quiet, RowFits, Going, AwaitsCsms
  <2> QED BY <1>3, <2>1, <1>u DEF Claim
<1>4. CASE Reject(p)
  BY <1>4, <1>u, <1>r DEF Reject, StillClaimed
<1>5. CASE Adopt(p)
  <2>1. CASE StillClaimed(p)
    <3>1. row' = [row EXCEPT !.activeTransactionId = call[p].tx, !.activeIsRemote = TRUE,
                             !.transactionCounter =
                                 LaterOf(call[p].s.transactionCounter, call[p].tx)]
      BY <1>5, <2>1 DEF Adopt
    <3>2. /\ row'.status = row.status /\ row'.evConnected = row.evConnected
          /\ row'.activeStartedAt = row.activeStartedAt
          /\ row'.activeTransactionId = call[p].tx
          /\ row'.activeStartPending = row.activeStartPending
      BY <3>1, <1>c DEF Row
    <3>3. /\ row.status = "Preparing" /\ row.activeStartPending /\ row.activeStartedAt # 0
          /\ call[p].tx # 0
      BY <1>5, <2>1, <1>c
         DEF Adopt, StillClaimed, At, Prepared, WholeInv, SessionIsWhole, FieldsAgree
    <3>4. Stage(row) = "claimed" /\ Stage(row') = "claimed"
      BY <3>2, <3>3 DEF Stage
    <3> QED BY <3>2, <3>3, <3>4 DEF Quiet, RowFits, Going, AwaitsCsms
  <2> QED BY <1>5, <2>1, <1>u DEF Adopt
<1>6. CASE Promote(p)
  <2>1. CASE StillClaimed(p)
    <3>1. row' = [row EXCEPT !.status = "Charging", !.activeStartPending = FALSE,
                             !.preparingSince = 0, !.activeStartedAt = Now,
                             !.activeTransactionId = PromotedTransaction(p)]
      BY <1>6, <2>1 DEF Promote
    <3>2. /\ row'.status = "Charging" /\ row'.evConnected = row.evConnected
          /\ row'.activeStartedAt = Now /\ row'.activeStartPending = FALSE
      BY <3>1, <1>c DEF Row
    <3>3. row.status = "Preparing" /\ row.activeStartPending /\ row.activeStartedAt # 0
      BY <2>1 DEF StillClaimed, WholeInv, SessionIsWhole, FieldsAgree
    <3>4. Now # 0
      BY <1>c DEF Now
    <3>5. Stage(row) = "claimed" /\ Stage(row') = "running"
      BY <3>2, <3>3, <3>4 DEF Stage
    <3> QED BY <3>2, <3>3, <3>5 DEF Quiet, RowFits, Going, AwaitsCsms
  <2> QED BY <1>6, <2>1, <1>u DEF Promote
<1> QED BY <1>1, <1>2, <1>3, <1>4, <1>5, <1>6

\* A request becomes c, which may be where it is, and is no new operation.
LEMMA BecomesAlone ==
    ASSUME TypeOK, Alone, NEW p \in Calls, NEW c, Becomes(p, c), Placed(c),
           Busy(c) => Busy(call[p]) \/ \A q \in Calls : ~Busy(call[q])
    PROVE  Alone'
<1>1. /\ \A q \in Calls \ {p} : call'[q] = call[q]
      /\ call'[p] = c
  BY DEF TypeOK, Becomes
<1>2. \A q \in Calls : Placed(call'[q])
  BY <1>1 DEF Alone
<1>3. \A q, r \in Calls : Busy(call'[q]) /\ Busy(call'[r]) => q = r
  BY <1>1 DEF Alone
<1> QED BY <1>2, <1>3 DEF Alone, Placed, Busy

\* Operations wait for each other.
LEMMA AloneRequest ==
    ASSUME OneOperator, TypeOK, RequestsPrepared, Alone, NEW p \in Calls,
           Poll(p) \/ TimerFires(p) \/ BeginRequest(p) \/ Step(p)
    PROVE  Alone'
<1>c. call[p] \in Call /\ Placed(call[p]) /\ Prepared(call[p])
  BY DEF TypeOK, Alone, RequestsPrepared
<1>b. \A c : /\ Becomes(p, c) /\ Placed(c)
             /\ Busy(c) => Busy(call[p]) \/ \A q \in Calls : ~Busy(call[q])
             => Alone'
  BY BecomesAlone
<1>l. Return(p) \/ List(p) \/ (Release(p) /\ Busy(call[p])) => Alone'
  BY <1>b DEF Return, List, Release, Idle, Placed, Busy, ResolvePCs
<1>h. Again(p) => Alone'
  BY <1>b, <1>c DEF Again, Placed, Busy, ResolvePCs, Call
<1>1. CASE Poll(p)
  BY <1>1, <1>b, <1>l, <1>h, <1>c
     DEF Poll, At, Placed, Busy, ResolvePCs, Prepared, StopOps, Call
<1>2. CASE TimerFires(p)
  BY <1>2, <1>b, <1>l, <1>h, <1>c
     DEF TimerFires, At, Placed, Busy, ResolvePCs, Prepared, StopOps, Call
<1>3. CASE BeginStart(p)
  BY <1>3, <1>b, <1>l, <1>h, <1>c
     DEF BeginStart, Begin, Idle, At, Placed, Busy, ResolvePCs, Prepared, StopOps, Call
<1>4. CASE BeginRemoteStart(p)
  BY <1>4, <1>b, <1>l, <1>h, <1>c
     DEF BeginRemoteStart, Begin, Idle, At, Placed, Busy, ResolvePCs, Prepared, StopOps,
         Call
<1>5. CASE BeginRemoteStop(p)
  BY <1>5, <1>b, <1>l, <1>h, <1>c
     DEF BeginRemoteStop, Begin, Idle, At, Placed, Busy, ResolvePCs, Prepared, StopOps,
         Call
<1>6. CASE BeginStop(p)
  BY <1>6, <1>b, <1>l, <1>h, <1>c
     DEF BeginStop, Begin, Idle, At, Placed, Busy, ResolvePCs, Prepared, StopOps, Call
<1>7. CASE BeginOther(p)
  BY <1>7, <1>b, <1>l, <1>h, <1>c
     DEF BeginOther, Begin, Idle, At, Placed, Busy, ResolvePCs, Prepared, StopOps, Call
<1>8. CASE BeginClearFault(p)
  BY <1>8, <1>b, <1>l, <1>h, <1>c
     DEF BeginClearFault, Begin, Idle, At, Placed, Busy, ResolvePCs, Prepared, StopOps,
         Call
<1>9. CASE Read(p)
  BY <1>9, <1>b, <1>l, <1>h, <1>c
     DEF Read, ResolveAt, At, Placed, Busy, ResolvePCs, Prepared, StopOps, Call
<1>10. CASE Reread(p)
  BY <1>10, <1>b, <1>l, <1>h, <1>c
     DEF Reread, At, Placed, Busy, ResolvePCs, Prepared, StopOps, Call
<1>11. CASE Expire(p)
  BY <1>11, <1>b, <1>l, <1>h, <1>c
     DEF Expire, At, Placed, Busy, ResolvePCs, Prepared, StopOps, Call
<1>12. CASE FinishHold(p)
  BY <1>12, <1>b, <1>l, <1>h, <1>c
     DEF FinishHold, At, Placed, Busy, ResolvePCs, Prepared, StopOps, Call
<1>13. CASE Claim(p)
  BY <1>13, <1>b, <1>l, <1>h, <1>c
     DEF Claim, At, Placed, Busy, ResolvePCs, Prepared, StopOps, Call
<1>14. CASE ReadClaimed(p)
  BY <1>14, <1>b, <1>l, <1>h, <1>c
     DEF ReadClaimed, At, Placed, Busy, ResolvePCs, Prepared, StopOps, Call
<1>15. CASE StartAccepted(p)
  BY <1>15, <1>b, <1>l, <1>h, <1>c
     DEF StartAccepted, CsmsAccepts, At, Placed, Busy, ResolvePCs, Prepared, StopOps,
         Call
<1>16. CASE StartRejected(p)
  BY <1>16, <1>b, <1>l, <1>h, <1>c
     DEF StartRejected, Goto, At, Placed, Busy, ResolvePCs, Prepared, StopOps, Call
<1>17. CASE StartFails(p)
  BY <1>17, <1>b, <1>l, <1>h, <1>c
     DEF StartFails, At, Placed, Busy, ResolvePCs, Prepared, StopOps, Call
<1>18. CASE Reject(p)
  BY <1>18, <1>b, <1>l, <1>h, <1>c
     DEF Reject, At, Placed, Busy, ResolvePCs, Prepared, StopOps, Call
<1>19. CASE Adopt(p)
  BY <1>19, <1>b, <1>l, <1>h, <1>c
     DEF Adopt, Goto, At, Placed, Busy, ResolvePCs, Prepared, StopOps, Call
<1>20. CASE ReadAdopted(p)
  BY <1>20, <1>b, <1>l, <1>h, <1>c
     DEF ReadAdopted, At, Placed, Busy, ResolvePCs, Prepared, StopOps, Call
<1>21. CASE CloseLost(p)
  BY <1>21, <1>b, <1>l, <1>h, <1>c
     DEF CloseLost, At, Placed, Busy, ResolvePCs, Prepared, StopOps, Call
<1>22. CASE Promote(p)
  BY <1>22, <1>b, <1>l, <1>h, <1>c
     DEF Promote, At, Placed, Busy, ResolvePCs, Prepared, StopOps, Call
<1>23. CASE ListBody(p)
  BY <1>23, <1>b, <1>l, <1>h, <1>c
     DEF ListBody, ArmLater, Body, At, Placed, Busy, ResolvePCs, Prepared, StopOps, Call
<1>24. CASE StartBody(p)
  BY <1>24, <1>b, <1>l, <1>h, <1>c
     DEF StartBody, ArmLater, Body, At, Placed, Busy, ResolvePCs, Prepared, StopOps,
         Call
<1>25. CASE StartThrows(p)
  BY <1>25, <1>b, <1>l, <1>h, <1>c
     DEF StartThrows, Goto, Body, At, Placed, Busy, ResolvePCs, Prepared, StopOps, Call
<1>26. CASE ConnectEvBody(p)
  BY <1>26, <1>b, <1>l, <1>h, <1>c
     DEF ConnectEvBody, ArmLater, Body, At, Placed, Busy, ResolvePCs, Prepared, StopOps,
         Call
<1>27. CASE DisconnectEvBody(p)
  BY <1>27, <1>b, <1>l, <1>h, <1>c
     DEF DisconnectEvBody, Goto, Body, At, Placed, Busy, ResolvePCs, Prepared, StopOps,
         Call
<1>28. CASE Unplugged(p)
  BY <1>28, <1>b, <1>l, <1>h, <1>c
     DEF Unplugged, At, Placed, Busy, ResolvePCs, Prepared, StopOps, Call
<1>29. CASE LockBody(p)
  BY <1>29, <1>b, <1>l, <1>h, <1>c
     DEF LockBody, Body, At, Placed, Busy, ResolvePCs, Prepared, StopOps, Call
<1>30. CASE Arm(p)
  BY <1>30, <1>b, <1>l, <1>h, <1>c
     DEF Arm, IsStop, At, Placed, Busy, ResolvePCs, Prepared, StopOps, Call
<1>31. CASE ClearFault(p)
  BY <1>31, <1>b, <1>l, <1>h, <1>c
     DEF ClearFault, At, Placed, Busy, ResolvePCs, Prepared, StopOps, Call
<1>32. CASE StopThrows(p)
  BY <1>32, <1>b, <1>l, <1>h, <1>c
     DEF StopThrows, IsStop, At, Placed, Busy, ResolvePCs, Prepared, StopOps, Call
<1>33. CASE StopNotify(p)
  BY <1>33, <1>b, <1>l, <1>h, <1>c
     DEF StopNotify, IsStop, At, Placed, Busy, ResolvePCs, Prepared, StopOps, Call
<1>34. CASE StopClear(p)
  BY <1>34, <1>b, <1>l, <1>h, <1>c
     DEF StopClear, At, Placed, Busy, ResolvePCs, Prepared, StopOps, Call
<1>35. CASE RemoteWait(p)
  BY <1>35, <1>b, <1>l, <1>h, <1>c
     DEF RemoteWait, Goto, Body, At, Placed, Busy, ResolvePCs, Prepared, StopOps, Call
<1>36. CASE CancelRemote(p)
  BY <1>36, <1>b, <1>l, <1>h, <1>c
     DEF CancelRemote, At, Placed, Busy, ResolvePCs, Prepared, StopOps, Call
<1>37. CASE RemoteAccepted(p)
  BY <1>37, <1>b, <1>l, <1>h, <1>c
     DEF RemoteAccepted, CsmsAccepts, At, Placed, Busy, ResolvePCs, Prepared, StopOps,
         Call
<1>38. CASE RemoteRefused(p)
  BY <1>38, <1>b, <1>l, <1>h, <1>c
     DEF RemoteRefused, At, Placed, Busy, ResolvePCs, Prepared, StopOps, Call
<1>39. CASE RemoteKept(p)
  BY <1>39, <1>b, <1>l, <1>h, <1>c
     DEF RemoteKept, Goto, At, Placed, Busy, ResolvePCs, Prepared, StopOps, Call
<1>40. CASE RemoteAdoptRead(p)
  BY <1>40, <1>b, <1>l, <1>h, <1>c
     DEF RemoteAdoptRead, At, Placed, Busy, ResolvePCs, Prepared, StopOps, Call
<1>41. CASE RemoteAdopt(p)
  BY <1>41, <1>b, <1>l, <1>h, <1>c
     DEF RemoteAdopt, At, Placed, Busy, ResolvePCs, Prepared, StopOps, Call
<1>42. CASE RemoteStopSent(p)
  BY <1>42, <1>b, <1>l, <1>h, <1>c
     DEF RemoteStopSent, At, Placed, Busy, ResolvePCs, Prepared, StopOps, Call
<1> QED BY <1>1, <1>2, <1>3, <1>4, <1>5, <1>6, <1>7, <1>8, <1>9, <1>10, <1>11, <1>12,
       <1>13, <1>14, <1>15, <1>16, <1>17, <1>18, <1>19, <1>20, <1>21, <1>22, <1>23,
       <1>24, <1>25, <1>26, <1>27, <1>28, <1>29, <1>30, <1>31, <1>32, <1>33, <1>34,
       <1>35, <1>36, <1>37, <1>38, <1>39, <1>40, <1>41, <1>42 DEF BeginRequest, Step

\* An operation moves on with what it has just seen, or has seen before.
LEMMA SeenRequest ==
    ASSUME TypeOK, RequestsPrepared, WholeInv, IssuedInv, AloneInv, NEW p \in Calls,
           Poll(p) \/ TimerFires(p) \/ BeginRequest(p) \/ Step(p)
    PROVE  Busy(call'[p]) => Seen(call'[p], row')
<1>c. /\ call[p] \in Call /\ call[p].s \in Row /\ row \in Row /\ Placed(call[p])
      /\ Prepared(call[p]) /\ Now # 0 /\ clock \in Nat
  BY DEF TypeOK, AloneInv, Alone, RequestsPrepared, Call, Now
<1>s. Busy(call[p]) => Seen(call[p], row)
  BY DEF AloneInv, OperationSeen
<1>b. \A c : Becomes(p, c) => call'[p] = c
  BY DEF TypeOK, Becomes
<1>d. \A c : Becomes(p, c) /\ ~Busy(c) => ~Busy(call'[p])
  BY <1>b
<1>l. Return(p) \/ List(p) => ~Busy(call'[p])
  BY <1>d DEF Return, List, Idle, Busy
<1>e. Release(p) => Seen(call'[p], row')
  <2>1. Release(p) => call'[p].op = "release" /\ call'[p].pc = "read"
    BY <1>b DEF Release, Idle
  <2> QED BY <2>1 DEF Seen, AdoptPCs
<1>k. /\ Expire(p) \/ FinishHold(p) \/ Claim(p) \/ Reject(p) \/ Adopt(p) \/ Promote(p)
      => (Busy(call[p]) => Seen(call[p], row'))
  BY <1>s, ResolveQuiet, QuietSeen DEF AloneInv
<1>h. ASSUME Again(p), Busy(call[p]) => Seen(call[p], row')
      PROVE  Busy(call'[p]) => Seen(call'[p], row')
  <2>1. call'[p].op = call[p].op /\ call'[p].pc = "reread"
    BY <1>h, <1>b, <1>c DEF Again, Call
  <2> QED BY <2>1, <1>h DEF Seen, Busy, AdoptPCs
<1>f. ASSUME NEW c, Becomes(p, c), c.pc \in {"read", "remoteStopCall"}, c.op # "remoteWait"
      PROVE  Seen(call'[p], row')
  BY <1>f, <1>b DEF Seen, AdoptPCs
<1>r. ASSUME UNCHANGED row, call'[p].s = row, call'[p].op = call[p].op,
             call'[p].pc \in {"body", "armFinish", "expire", "claim", "finish"}
      PROVE  Busy(call'[p]) => Seen(call'[p], row')
  BY <1>r, <1>s DEF AloneInv, RowFits, Seen, Busy, AdoptPCs
<1>1. CASE Poll(p)
  BY <1>1, <1>b, <1>s, <1>l, <1>h, <1>c
     DEF Poll, rowVars, At, Busy, Seen, AdoptPCs, StopOps, Placed, ResolvePCs, Prepared,
         Call
<1>2. CASE TimerFires(p)
  BY <1>2, <1>b, <1>s, <1>l, <1>h, <1>c
     DEF TimerFires, rowVars, At, Busy, Seen, AdoptPCs, StopOps, Placed, ResolvePCs,
         Prepared, Call
<1>3. CASE BeginStart(p)
  BY <1>3, <1>b, <1>f, <1>c
     DEF BeginStart, Begin, Idle, Busy, Seen, AdoptPCs, StopOps, rowVars
<1>4. CASE BeginRemoteStart(p)
  BY <1>4, <1>b, <1>f, <1>c
     DEF BeginRemoteStart, Begin, Idle, Busy, Seen, AdoptPCs, StopOps, rowVars
<1>5. CASE BeginRemoteStop(p)
  BY <1>5, <1>b, <1>f, <1>c
     DEF BeginRemoteStop, Begin, Idle, Busy, Seen, AdoptPCs, StopOps, rowVars
<1>6. CASE BeginStop(p)
  BY <1>6, <1>b, <1>f, <1>c
     DEF BeginStop, Begin, Idle, Busy, Seen, AdoptPCs, StopOps, rowVars
<1>7. CASE BeginOther(p)
  BY <1>7, <1>b, <1>f, <1>c
     DEF BeginOther, Begin, Idle, Busy, Seen, AdoptPCs, StopOps, rowVars
<1>8. CASE BeginClearFault(p)
  BY <1>8, <1>b, <1>f, <1>c
     DEF BeginClearFault, Begin, Idle, Busy, Seen, AdoptPCs, StopOps, rowVars
<1>9. CASE Read(p)
  <2>1. /\ UNCHANGED row /\ call'[p].s = row /\ call'[p].op = call[p].op
        /\ call'[p].pc \in {"body", "expire", "claim", "finish"}
    BY <1>9, <1>b, <1>c DEF Read, ResolveAt, rowVars, Call
  <2> QED BY <2>1, <1>r
<1>10. CASE Reread(p)
  <2>1. /\ UNCHANGED row /\ call'[p].s = row /\ call'[p].op = call[p].op
        /\ call'[p].pc \in {"body", "armFinish"}
    BY <1>10, <1>b, <1>c DEF Reread, rowVars, Call
  <2> QED BY <2>1, <1>r
<1>11. CASE Expire(p)
  BY <1>11, <1>b, <1>k, <1>h, <1>c
     DEF Expire, Seen, Busy, AdoptPCs, Call
<1>12. CASE FinishHold(p)
  BY <1>12, <1>b, <1>k, <1>h, <1>c
     DEF FinishHold, Seen, Busy, AdoptPCs, Call
<1>13. CASE Claim(p)
  BY <1>13, <1>b, <1>k, <1>h, <1>c
     DEF Claim, Seen, Busy, AdoptPCs, Call
<1>14. CASE ReadClaimed(p)
  BY <1>14, <1>b, <1>s, <1>l, <1>h, <1>c
     DEF ReadClaimed, rowVars, At, Busy, Seen, AdoptPCs, StopOps, Placed, ResolvePCs,
         Prepared, Call
<1>15. CASE StartAccepted(p)
  BY <1>15, <1>b, <1>s, <1>l, <1>h, <1>c
     DEF StartAccepted, CsmsAccepts, rowVars, At, Busy, Seen, AdoptPCs, StopOps, Placed,
         ResolvePCs, Prepared, Call
<1>16. CASE StartRejected(p)
  BY <1>16, <1>b, <1>s, <1>l, <1>h, <1>c
     DEF StartRejected, Goto, rowVars, At, Busy, Seen, AdoptPCs, StopOps, Placed,
         ResolvePCs, Prepared, Call
<1>17. CASE StartFails(p)
  BY <1>17, <1>b, <1>s, <1>l, <1>h, <1>c
     DEF StartFails, rowVars, At, Busy, Seen, AdoptPCs, StopOps, Placed, ResolvePCs,
         Prepared, Call
<1>18. CASE Reject(p)
  BY <1>18, <1>b, <1>k, <1>h, <1>c
     DEF Reject, Seen, Busy, AdoptPCs, Call
<1>19. CASE Adopt(p)
  BY <1>19, <1>b, <1>k, <1>h, <1>c
     DEF Adopt, Goto, Seen, Busy, AdoptPCs, Call
<1>20. CASE ReadAdopted(p)
  BY <1>20, <1>b, <1>s, <1>l, <1>h, <1>c
     DEF ReadAdopted, rowVars, At, Busy, Seen, AdoptPCs, StopOps, Placed, ResolvePCs,
         Prepared, Call
<1>21. CASE CloseLost(p)
  BY <1>21, <1>b, <1>s, <1>l, <1>h, <1>c
     DEF CloseLost, rowVars, At, Busy, Seen, AdoptPCs, StopOps, Placed, ResolvePCs,
         Prepared, Call
<1>22. CASE Promote(p)
  BY <1>22, <1>b, <1>k, <1>h, <1>c
     DEF Promote, Seen, Busy, AdoptPCs, Call
<1>23. CASE ListBody(p)
  BY <1>23, <1>b, <1>s, <1>l, <1>h, <1>c
     DEF ListBody, ArmLater, Body, rowVars, At, Busy, Seen, AdoptPCs, StopOps, Placed,
         ResolvePCs, Prepared, Call
<1>24. CASE StartBody(p)
  <2>1. /\ call[p].op \in {"start", "remoteStart"}
        /\ ArmLater(p, WindowStart(call[p].s))
        /\ row' = [row EXCEPT !.status = "Preparing", !.locked = TRUE,
                              !.preparingSince = WindowStart(call[p].s),
                              !.activeIsRemote = (call[p].op = "remoteStart"),
                              !.activeStartPending = FALSE, !.activeIdTag = call[p].tag,
                              !.activeTransactionId = 0, !.activeStartedAt = Now]
    BY <1>24 DEF StartBody, Body
  <2>2. call'[p].op = call[p].op /\ call'[p].pc = "arm"
    BY <2>1, <1>b, <1>c DEF ArmLater, Call
  <2>3. /\ row'.status = "Preparing" /\ row'.activeStartPending = FALSE
        /\ row'.activeIsRemote = (call[p].op = "remoteStart")
        /\ row'.activeStartedAt = Now
    BY <2>1, <1>c DEF Row
  <2>4. call[p].op = "remoteStart" => AwaitsCsms(row')
    BY <2>3, <1>c DEF AwaitsCsms, Stage
  <2> QED BY <2>1, <2>2, <2>4 DEF Seen, StopOps, AdoptPCs
<1>25. CASE StartThrows(p)
  BY <1>25, <1>b, <1>s, <1>l, <1>h, <1>c
     DEF StartThrows, Goto, Body, rowVars, At, Busy, Seen, AdoptPCs, StopOps, Placed,
         ResolvePCs, Prepared, Call
<1>26. CASE ConnectEvBody(p)
  <2>1. List(p) \/ ArmLater(p, Now)
    BY <1>26 DEF ConnectEvBody
  <2>2. ArmLater(p, Now) => call'[p].op = "connectEv" /\ call'[p].pc = "arm"
    BY <1>26, <1>b, <1>c DEF ConnectEvBody, Body, ArmLater, Call
  <2>3. ArmLater(p, Now) => Seen(call'[p], row')
    BY <2>2 DEF Seen, StopOps, AdoptPCs
  <2> QED BY <2>1, <2>3, <1>l
<1>27. CASE DisconnectEvBody(p)
  BY <1>27, <1>b, <1>s, <1>l, <1>e, <1>h, <1>c
     DEF DisconnectEvBody, Goto, Body, At, Busy, Seen, AdoptPCs, StopOps, Placed,
         ResolvePCs, Prepared, Row, Call
<1>28. CASE Unplugged(p)
  BY <1>28, <1>b, <1>s, <1>l, <1>e, <1>h, <1>c
     DEF Unplugged, At, Busy, Seen, AdoptPCs, StopOps, Placed, ResolvePCs, Prepared,
         Row, Call
<1>29. CASE LockBody(p)
  BY <1>29, <1>b, <1>s, <1>l, <1>e, <1>h, <1>c
     DEF LockBody, Body, At, Busy, Seen, AdoptPCs, StopOps, Placed, ResolvePCs,
         Prepared, Row, Call
<1>30. CASE Arm(p)
  <2>1. row' = row
    BY <1>30 DEF Arm
  <2>2. CASE At(p, "armFinish")
    <3>1. Becomes(p, [call[p] EXCEPT !.pc = "body", !.since = 0])
      BY <1>30, <2>2 DEF Arm, At
    <3>2. call'[p].pc = "body" /\ call'[p].op = call[p].op /\ call'[p].s = call[p].s
      BY <3>1, <1>b, <1>c DEF Call
    <3> QED BY <2>1, <2>2, <3>2, <1>s DEF At, Seen, Busy, AdoptPCs
  <2>3. CASE At(p, "arm") /\ IsStop(p)
    <3>1. Becomes(p, [call[p] EXCEPT !.pc = "clear", !.since = 0])
      BY <1>30, <2>3 DEF Arm, At, IsStop
    <3>2. call'[p].pc = "clear" /\ call'[p].op = call[p].op /\ call'[p].s = call[p].s
      BY <3>1, <1>b, <1>c DEF Call
    <3> QED BY <2>1, <2>3, <3>2, <1>s DEF At, IsStop, Seen, Busy, StopOps, AdoptPCs
  <2>4. CASE At(p, "arm") /\ call[p].op = "remoteStart"
    <3>1. Becomes(p, [call[p] EXCEPT !.op = "remoteWait", !.pc = "read",
                                     !.s = FreshRow, !.since = 0])
      BY <1>30, <2>4 DEF Arm, At, IsStop
    <3>2. call'[p].pc = "read" /\ call'[p].op = "remoteWait"
      BY <3>1, <1>b, <1>c DEF Call
    <3> QED BY <2>1, <2>4, <3>2, <1>s DEF At, Seen, Busy, StopOps, AdoptPCs
  <2> QED BY <1>30, <2>2, <2>3, <2>4, <1>l DEF Arm
<1>31. CASE ClearFault(p)
  BY <1>31, <1>b, <1>s, <1>l, <1>e, <1>h, <1>c
     DEF ClearFault, At, Busy, Seen, AdoptPCs, StopOps, Placed, ResolvePCs, Prepared,
         Row, Call
<1>32. CASE StopThrows(p)
  BY <1>32, <1>b, <1>s, <1>l, <1>h, <1>c
     DEF StopThrows, IsStop, rowVars, At, Busy, Seen, AdoptPCs, StopOps, Placed,
         ResolvePCs, Prepared, Call
<1>33. CASE StopNotify(p)
  BY <1>33, <1>b, <1>s, <1>l, <1>h, <1>c
     DEF StopNotify, IsStop, rowVars, At, Busy, Seen, AdoptPCs, StopOps, Placed,
         ResolvePCs, Prepared, Call
<1>34. CASE StopClear(p)
  BY <1>34, <1>b, <1>s, <1>l, <1>e, <1>h, <1>c
     DEF StopClear, At, Busy, Seen, AdoptPCs, StopOps, Placed, ResolvePCs, Prepared,
         Row, Call
<1>35. CASE RemoteWait(p)
  BY <1>35, <1>b, <1>s, <1>l, <1>h, <1>c
     DEF RemoteWait, Goto, Body, rowVars, At, Busy, Seen, AdoptPCs, StopOps, Placed,
         ResolvePCs, Prepared, Call
<1>36. CASE CancelRemote(p)
  BY <1>36, <1>b, <1>s, <1>l, <1>e, <1>h, <1>c
     DEF CancelRemote, At, Busy, Seen, AdoptPCs, StopOps, Placed, ResolvePCs, Prepared,
         Row, Call
<1>37. CASE RemoteAccepted(p)
  BY <1>37, <1>b, <1>s, <1>l, <1>h, <1>c
     DEF RemoteAccepted, CsmsAccepts, rowVars, At, Busy, Seen, AdoptPCs, StopOps,
         Placed, ResolvePCs, Prepared, Call
<1>38. CASE RemoteRefused(p)
  BY <1>38, <1>b, <1>s, <1>l, <1>h, <1>c
     DEF RemoteRefused, rowVars, At, Busy, Seen, AdoptPCs, StopOps, Placed, ResolvePCs,
         Prepared, Call
<1>39. CASE RemoteKept(p)
  BY <1>39, <1>b, <1>s, <1>l, <1>h, <1>c
     DEF RemoteKept, Goto, rowVars, At, Busy, Seen, AdoptPCs, StopOps, Placed,
         ResolvePCs, Prepared, Call
<1>40. CASE RemoteAdoptRead(p)
  BY <1>40, <1>b, <1>s, <1>l, <1>h, <1>c
     DEF RemoteAdoptRead, rowVars, At, Busy, Seen, AdoptPCs, StopOps, Placed,
         ResolvePCs, Prepared, Call
<1>41. CASE RemoteAdopt(p)
  BY <1>41, <1>b, <1>s, <1>l, <1>e, <1>h, <1>c
     DEF RemoteAdopt, At, Busy, Seen, AdoptPCs, StopOps, Placed, ResolvePCs, Prepared,
         Row, Call
<1>42. CASE RemoteStopSent(p)
  BY <1>42, <1>b, <1>s, <1>l, <1>h, <1>c
     DEF RemoteStopSent, rowVars, At, Busy, Seen, AdoptPCs, StopOps, Placed, ResolvePCs,
         Prepared, Call
<1> QED BY <1>1, <1>2, <1>3, <1>4, <1>5, <1>6, <1>7, <1>8, <1>9, <1>10, <1>11, <1>12,
       <1>13, <1>14, <1>15, <1>16, <1>17, <1>18, <1>19, <1>20, <1>21, <1>22, <1>23,
       <1>24, <1>25, <1>26, <1>27, <1>28, <1>29, <1>30, <1>31, <1>32, <1>33, <1>34,
       <1>35, <1>36, <1>37, <1>38, <1>39, <1>40, <1>41, <1>42 DEF BeginRequest, Step

\* The writes that an operation alone makes.
Writes(p) ==
    \/ StartBody(p) \/ ConnectEvBody(p) \/ DisconnectEvBody(p) \/ Unplugged(p) \/ LockBody(p)
    \/ ClearFault(p) \/ StopClear(p) \/ CancelRemote(p) \/ RemoteAdopt(p)

\* No poll makes them,
LEMMA WriterIsBusy ==
    ASSUME RequestsPrepared, Alone, NEW p \in Calls, Writes(p)
    PROVE  Busy(call[p])
<1>1. Placed(call[p]) /\ Prepared(call[p])
  BY DEF Alone, RequestsPrepared
<1>2. CASE StartBody(p) \/ ConnectEvBody(p) \/ DisconnectEvBody(p) \/ LockBody(p)
  BY <1>2 DEF StartBody, ConnectEvBody, DisconnectEvBody, LockBody, Body, Busy
<1>3. CASE Unplugged(p) \/ ClearFault(p) \/ StopClear(p) \/ CancelRemote(p) \/ RemoteAdopt(p)
  BY <1>1, <1>3 DEF Unplugged, ClearFault, StopClear, CancelRemote, RemoteAdopt, At,
     Placed, ResolvePCs
<1> QED BY <1>2, <1>3 DEF Writes

\* and the steps without one change the row quietly.
LEMMA OthersQuiet ==
    ASSUME RowInv, IssuedInv, RowFits(row), NEW p \in Calls, ~Writes(p),
           Poll(p) \/ TimerFires(p) \/ BeginRequest(p) \/ Step(p)
    PROVE  Quiet(row, row') /\ RowFits(row')
<1>1. CASE \/ Expire(p) \/ FinishHold(p) \/ Claim(p)
           \/ Reject(p) \/ Adopt(p) \/ Promote(p)
  BY <1>1, ResolveQuiet DEF RowInv
<1>2. CASE UNCHANGED row
  BY <1>2, SameQuiet
<1> QED BY <1>1, <1>2, RowUntouched DEF Writes

\* What an operation writes fits together, whatever its snapshot.
LEMMA WritesFit ==
    ASSUME RowInv, AloneInv, NEW p \in Calls, Writes(p)
    PROVE  RowFits(row')
<1>c. /\ row \in Row /\ call[p] \in Call /\ call[p].s \in Row /\ clock \in Nat
      /\ Prepared(call[p]) /\ RowFits(row) /\ Seen(call[p], row) /\ Now # 0
  BY WriterIsBusy
     DEF RowInv, TypeOK, Call, RequestsPrepared, AloneInv, OperationSeen, Now
<1>u. row' = row => RowFits(row')
  BY <1>c
<1>a. ASSUME row'.activeStartedAt = row.activeStartedAt,
             row'.activeTransactionId = row.activeTransactionId,
             row'.activeIsRemote = row.activeIsRemote,
             row'.activeStartPending = row.activeStartPending,
             row'.status = row.status \/ row.activeStartedAt = 0
      PROVE  RowFits(row')
  <2>1. row.activeStartedAt = 0 => row.activeTransactionId = 0
    BY DEF RowInv, WholeInv, SessionIsWhole, FieldsAgree
  <2>2. row.activeStartedAt # 0 => Stage(row') = Stage(row)
    BY <1>a DEF Stage
  <2> QED BY <1>a, <1>c, <2>1, <2>2 DEF RowFits, Going
<1>1. CASE StartBody(p)
  <2>1. row'.status = "Preparing" /\ row'.activeTransactionId = 0
        /\ row'.activeStartPending = FALSE
    BY <1>1, <1>c DEF StartBody, Row
  <2> QED BY <2>1 DEF RowFits
<1>2. CASE ConnectEvBody(p)
  <2>1. CASE /\ ~call[p].s.evConnected /\ call[p].s.status = "Available"
             /\ row' = [row EXCEPT !.evConnected = TRUE, !.status = "Preparing",
                                   !.preparingSince = Now]
    <3>1. row.activeStartedAt = 0
      BY <1>2, <2>1, <1>c DEF ConnectEvBody, Body, At, Seen, RowFits
    <3> QED BY <2>1, <3>1, <1>a, <1>c DEF Row
  <2>2. CASE row' = [row EXCEPT !.evConnected = TRUE]
    BY <2>2, <1>a, <1>c DEF Row
  <2> QED BY <1>2, <1>u, <2>1, <2>2 DEF ConnectEvBody
<1>3. CASE DisconnectEvBody(p)
  BY <1>3, <1>u, <1>a, <1>c DEF DisconnectEvBody, Row
<1>4. CASE Unplugged(p)
  <2>1. call[p].s.activeStartedAt = 0 => row.activeStartedAt = 0
    BY <1>4, <1>c DEF Unplugged, At, Seen
  <2> QED BY <1>4, <2>1, <1>u, <1>a, <1>c DEF Unplugged, Row
<1>5. CASE LockBody(p)
  BY <1>5, <1>u, <1>a, <1>c DEF LockBody, Row
<1>6. CASE ClearFault(p)
  <2>1. row.activeStartedAt = 0
    BY <1>6, <1>c DEF ClearFault, At, Seen, RowFits
  <2> QED BY <1>6, <2>1, <1>a, <1>c DEF ClearFault, Row
<1>7. CASE StopClear(p)
  <2>1. row'.activeStartedAt = 0 /\ row'.activeTransactionId = 0 /\ row'.activeIsRemote = FALSE
    BY <1>7, <1>c DEF StopClear, Released, Row
  <2> QED BY <2>1 DEF RowFits
<1>8. CASE CancelRemote(p)
  BY <1>8, <1>u, <1>c, ReleasedQuiet DEF CancelRemote
<1>9. CASE RemoteAdopt(p)
  <2>1. /\ row'.status = "Charging" /\ row'.activeStartedAt = Now
        /\ row'.activeTransactionId = call[p].tx
    BY <1>9, <1>c DEF RemoteAdopt, Row
  <2>2. call[p].tx # 0
    BY <1>9, <1>c DEF RemoteAdopt, At, Prepared
  <2>3. Stage(row') = "running"
    BY <2>1, <1>c DEF Stage
  <2> QED BY <2>1, <2>2, <2>3 DEF RowFits, Going
<1> QED BY <1>1, <1>2, <1>3, <1>4, <1>5, <1>6, <1>7, <1>8, <1>9 DEF Writes

\* Every step of a request keeps AloneInv.
LEMMA AloneInvRequest ==
    ASSUME OneOperator, ReportInv, AloneInv, NEW p \in Calls,
           Poll(p) \/ TimerFires(p) \/ BeginRequest(p) \/ Step(p)
    PROVE  AloneInv'
<1>c. RowInv /\ TypeOK /\ RequestsPrepared /\ WholeInv /\ IssuedInv /\ Alone /\ RowFits(row)
  BY DEF ReportInv, RowInv, AloneInv
<1>1. Alone'
  BY <1>c, AloneRequest
<1>2. RowFits(row')
  BY <1>c, WritesFit, OthersQuiet
<1>3. Busy(call'[p]) => Seen(call'[p], row')
  BY <1>c, SeenRequest
<1>4. ASSUME NEW q \in Calls \ {p}, Busy(call'[q]) PROVE Seen(call'[q], row')
  <2>1. call'[q] = call[q] /\ Seen(call[q], row)
    BY <1>c, <1>4, OthersWait DEF AloneInv, OperationSeen
  <2>2. ~Writes(p)
    BY <1>c, <1>4, <2>1, WriterIsBusy DEF Alone
  <2> QED BY <1>c, <2>1, <2>2, OthersQuiet, QuietSeen
<1>5. \A q \in Calls : Busy(call'[q]) => Seen(call'[q], row')
  BY <1>3, <1>4
<1> QED BY <1>1, <1>2, <1>5 DEF AloneInv, OperationSeen, RowFits, Seen, Busy

\* A restart ends the operation; a fresh runtime's release of the row is quiet.
LEMMA EnvironmentQuiet ==
    ASSUME TypeOK, RowFits(row), Environment
    PROVE  /\ Quiet(row, row') /\ RowFits(row')
           /\ UNCHANGED call \/ (Crash /\ UNCHANGED row)
<1>1. CASE CreateEntry
  <2>1. /\ UNCHANGED call
        /\ \/ UNCHANGED row
           \/ row' = Released(row, "Available") /\ row.status = "Preparing"
    BY <1>1 DEF CreateEntry, ExpiryDue, WindowElapsed
  <2>2. row \in Row
    BY DEF TypeOK
  <2>3. CASE UNCHANGED row
    BY <2>1, <2>3, SameQuiet
  <2>4. CASE row' = Released(row, "Available") /\ row.status = "Preparing"
    BY <2>1, <2>2, <2>4, ReleasedQuiet
  <2> QED BY <2>1, <2>3, <2>4
<1>2. CASE TimePasses \/ LinkUp \/ LinkDown \/ Deliver
  <2>1. UNCHANGED <<row, call>>
    BY <1>2 DEF TimePasses, LinkUp, LinkDown, Deliver, rowVars
  <2> QED BY <2>1, SameQuiet
<1>3. CASE Crash
  <2>1. UNCHANGED row
    BY <1>3 DEF Crash
  <2> QED BY <1>3, <2>1, SameQuiet
<1> QED BY <1>1, <1>2, <1>3 DEF Environment

\* A fresh connector, and nobody at it.
LEMMA AloneInvInit == Init => AloneInv
<1> SUFFICES ASSUME Init PROVE AloneInv
  OBVIOUS
<1>1. \A p \in Calls : call[p].op = "none" /\ call[p].pc = "idle"
  BY DEF Init, Idle
<1>2. RowFits(row)
  BY DEF Init, FreshRow, RowFits
<1> QED BY <1>1, <1>2 DEF AloneInv, Alone, OperationSeen, Placed, Busy, ResolvePCs

\* Every step keeps AloneInv.
LEMMA AloneInvStep == OneOperator /\ ReportInv /\ AloneInv /\ [Next]_vars => AloneInv'
<1> SUFFICES ASSUME OneOperator, ReportInv, AloneInv, [Next]_vars PROVE AloneInv'
  OBVIOUS
<1>c. TypeOK /\ RowFits(row)
  BY DEF ReportInv, RowInv, AloneInv
<1>1. CASE \E p \in Calls : Poll(p) \/ TimerFires(p) \/ BeginRequest(p) \/ Step(p)
  BY <1>1, AloneInvRequest
<1>2. ASSUME UNCHANGED call, Quiet(row, row'), RowFits(row') PROVE AloneInv'
  <2>1. Alone'
    BY <1>2 DEF AloneInv, Alone
  <2>2. \A p \in Calls : Busy(call'[p]) => Seen(call'[p], row')
    BY <1>2, QuietSeen DEF AloneInv, OperationSeen
  <2> QED BY <1>2, <2>1, <2>2 DEF AloneInv, OperationSeen, RowFits, Seen, Busy
<1>3. CASE Environment
  <2>1. CASE UNCHANGED call
    BY <1>c, <1>2, <1>3, <2>1, EnvironmentQuiet
  <2>2. CASE Crash /\ UNCHANGED row
    <3>1. \A p \in Calls : call'[p].op = "none" /\ call'[p].pc = "idle"
      BY <2>2 DEF Crash, Idle
    <3>2. RowFits(row)'
      BY <1>c, <2>2
    <3> QED BY <3>1, <3>2 DEF AloneInv, Alone, OperationSeen, Placed, Busy, ResolvePCs
  <2> QED BY <1>c, <1>3, <2>1, <2>2, EnvironmentQuiet
<1>4. CASE UNCHANGED vars
  BY <1>c, <1>2, <1>4, SameQuiet DEF vars
<1> QED BY <1>1, <1>3, <1>4 DEF Next

\* With one operation at a time, no poll and no answer takes away what his operation has
\* seen, in every reachable state.
THEOREM AloneInvCorrect == ASSUME OneOperator PROVE Spec => []AloneInv
<1>1. ReportInv /\ AloneInv /\ [Next]_vars => AloneInv'
  BY AloneInvStep
<1> QED BY <1>1, AloneInvInit, ReportInvCorrect, PTL DEF Spec

-----------------------------------------------------------------------------
(* The life of a session *)

\* A step that leaves a session where it is.
LEMMA LifecycleStands ==
    ASSUME clock' = clock \/ clock' = Now, clock \in Nat,
           row'.status = row.status, Stage(row') = Stage(row),
           row'.activeStartedAt = row.activeStartedAt
    PROVE  Lifecycle!LifecycleNext
  BY DEF Lifecycle!LifecycleNext, Now

\* A session ends, or where there is none the connector settles.
LEMMA LifecycleEnds ==
    ASSUME clock' = clock, clock \in Nat, row'.activeStartedAt = 0,
           \/ row'.status \in {"Available", "Preparing", "Faulted"}
           \/ row'.status = "Finishing" /\ (Going(row) \/ Stage(row) = "none")
    PROVE  Lifecycle!LifecycleNext
<1>1. Stage(row') = "none" /\ (Stage(row) = "none" <=> row.activeStartedAt = 0)
  BY DEF Stage
<1>2. CASE Stage(row) = "none"
  BY <1>1, <1>2 DEF Lifecycle!LifecycleNext, Lifecycle!Settle, Going
<1>3. CASE Stage(row) # "none"
  BY <1>1, <1>3 DEF Lifecycle!LifecycleNext, Lifecycle!End, Going
<1> QED BY <1>2, <1>3

\* What a request does as it resolves the row is a step of the abstract life: the claim, the
\* start of charging, the end of an attempt or of the hold.
LEMMA LifecycleResolve ==
    ASSUME ReportInv, RowFits(row), NEW p \in Calls,
           \/ Expire(p) \/ FinishHold(p) \/ Claim(p)
           \/ Reject(p) \/ Adopt(p) \/ Promote(p)
    PROVE  Lifecycle!LifecycleNext
<1>c. /\ row \in Row /\ call[p] \in Call /\ call[p].s \in Row /\ clock \in Nat
      /\ Prepared(call[p]) /\ row.activeStartedAt \in Nat /\ row.activeStartedAt <= clock
  BY DEF ReportInv, RowInv, TypeOK, Call, Row, RequestsPrepared, OwnersInv
<1>u. row' = row /\ (clock' = clock \/ clock' = Now) => Lifecycle!LifecycleNext
  BY <1>c, LifecycleStands
<1>r. row' = Released(row, "Available") /\ clock' = clock => Lifecycle!LifecycleNext
  <2>1. Released(row, "Available").activeStartedAt = 0
        /\ Released(row, "Available").status = "Available"
    BY <1>c DEF Released, Row
  <2> QED BY <2>1, <1>c, LifecycleEnds
<1>1. CASE Expire(p)
  BY <1>1, <1>u, <1>r DEF Expire
<1>2. CASE FinishHold(p)
  <2>1. CASE row.status = "Finishing"
    <3> DEFINE final == FinalStatus(call[p].s)
    <3>1. final \in {"Available", "Preparing"}
      BY <1>c DEF FinalStatus, Row
    <3>2. /\ row' = [row EXCEPT !.status = final, !.locked = FALSE, !.finishingSince = 0,
                                !.finishingNextStatus = "null",
                                !.preparingSince = SettledSince(final)]
          /\ clock' = clock \/ clock' = Now
      BY <1>2, <2>1 DEF FinishHold, SettledSince
    <3> HIDE DEF final
    <3>3. row'.status = final /\ row'.activeStartedAt = row.activeStartedAt
      BY <3>2, <1>c DEF Row
    <3>4. row.activeStartedAt = 0
      BY <2>1 DEF ReportInv, RowInv, WholeInv, SessionIsWhole, FinishingIsIdle
    <3>5. Stage(row) = "none" /\ Stage(row') = "none"
      BY <3>3, <3>4 DEF Stage
    <3>6. clock' >= clock
      BY <3>2, <1>c DEF Now
    <3> QED BY <3>1, <3>3, <3>5, <3>6 DEF Lifecycle!LifecycleNext, Lifecycle!Settle
  <2> QED BY <1>2, <2>1, <1>u DEF FinishHold
<1>3. CASE Claim(p)
  <2>1. CASE ClaimMatches(p)
    <3>1. row' = [row EXCEPT !.activeStartPending = TRUE,
                             !.transactionCounter = NextLocalId(call[p].s)]
          /\ clock' = clock
      BY <1>3, <2>1 DEF Claim
    <3>2. /\ row'.status = row.status /\ row'.activeStartedAt = row.activeStartedAt
          /\ row'.activeStartPending = TRUE
      BY <3>1, <1>c DEF Row
    <3>3. /\ row.status = "Preparing" /\ ~row.activeStartPending
          /\ row.activeStartedAt # 0 /\ ~row.activeIsRemote
      BY <1>3, <2>1, <1>c
         DEF Claim, ClaimMatches, At, Prepared, ReportInv, IssuedInv, ClaimIsLocal
    <3>4. Stage(row) = "offered" /\ Stage(row') = "claimed"
      BY <3>2, <3>3 DEF Stage
    <3> QED BY <3>1, <3>2, <3>3, <3>4, <1>c DEF Lifecycle!LifecycleNext, Lifecycle!Claim
  <2> QED BY <1>3, <2>1, <1>u DEF Claim
<1>4. CASE Reject(p)
  BY <1>4, <1>u, <1>r DEF Reject
<1>5. CASE Adopt(p)
  <2>1. CASE StillClaimed(p)
    <3>1. row' = [row EXCEPT !.activeTransactionId = call[p].tx, !.activeIsRemote = TRUE,
                             !.transactionCounter =
                                 LaterOf(call[p].s.transactionCounter, call[p].tx)]
          /\ clock' = clock
      BY <1>5, <2>1 DEF Adopt
    <3>2. /\ row'.status = row.status /\ row'.activeStartedAt = row.activeStartedAt
          /\ row'.activeStartPending = row.activeStartPending
      BY <3>1, <1>c DEF Row
    <3>3. row.activeStartPending
      BY <2>1 DEF StillClaimed
    <3>4. Stage(row') = Stage(row)
      BY <3>2, <3>3 DEF Stage
    <3> QED BY <3>1, <3>2, <3>4, <1>c, LifecycleStands
  <2> QED BY <1>5, <2>1, <1>u DEF Adopt
<1>6. CASE Promote(p)
  <2>1. CASE StillClaimed(p)
    <3>1. row' = [row EXCEPT !.status = "Charging", !.activeStartPending = FALSE,
                             !.preparingSince = 0, !.activeStartedAt = Now,
                             !.activeTransactionId = PromotedTransaction(p)]
          /\ clock' = Now
      BY <1>6, <2>1 DEF Promote
    <3>2. row'.status = "Charging" /\ row'.activeStartedAt = Now
      BY <3>1, <1>c DEF Row
    <3>3. row.status = "Preparing" /\ row.activeStartPending /\ row.activeStartedAt # 0
      BY <2>1 DEF StillClaimed, ReportInv, RowInv, WholeInv, SessionIsWhole, FieldsAgree
    <3>4. Now # 0 /\ Now > clock
      BY <1>c DEF Now
    <3>5. Stage(row) = "claimed" /\ Stage(row') = "running"
      BY <3>2, <3>3, <3>4 DEF Stage
    <3> QED BY <3>1, <3>2, <3>3, <3>4, <3>5, <1>c
            DEF Lifecycle!LifecycleNext, Lifecycle!Charge, Lifecycle!NewAttempt, Now
  <2> QED BY <1>6, <2>1, <1>u DEF Promote
<1> QED BY <1>1, <1>2, <1>3, <1>4, <1>5, <1>6

\* So is what an operation writes: it has seen that the row is where it expects it.
LEMMA LifecycleWrites ==
    ASSUME ReportInv, AloneInv, NEW p \in Calls, Writes(p)
    PROVE  Lifecycle!LifecycleNext
<1>c. /\ row \in Row /\ call[p] \in Call /\ call[p].s \in Row /\ clock \in Nat
      /\ Prepared(call[p]) /\ RowFits(row) /\ Seen(call[p], row) /\ Now # 0 /\ Now > clock
  BY WriterIsBusy
     DEF ReportInv, RowInv, TypeOK, Call, RequestsPrepared, AloneInv, OperationSeen, Now
<1>u. row' = row /\ clock' = clock => Lifecycle!LifecycleNext
  BY <1>c, LifecycleStands
<1>a. ASSUME clock' = clock, row'.status = row.status,
             row'.activeStartedAt = row.activeStartedAt,
             row'.activeIsRemote = row.activeIsRemote,
             row'.activeStartPending = row.activeStartPending
      PROVE  Lifecycle!LifecycleNext
  <2>1. Stage(row') = Stage(row)
    BY <1>a DEF Stage
  <2> QED BY <1>a, <2>1, <1>c, LifecycleStands
<1>1. CASE StartBody(p)
  <2>1. /\ row'.status = "Preparing" /\ row'.activeStartPending = FALSE
        /\ row'.activeStartedAt = Now /\ clock' = Now
        /\ row.status \in {"Available", "Preparing"} /\ row.activeStartedAt = 0
    BY <1>1, <1>c DEF StartBody, ReadyToStart, Row
  <2>2. Stage(row) = "none" /\ Stage(row') \in {"offered", "awaited"}
    BY <2>1, <1>c DEF Stage
  <2> QED BY <2>1, <2>2, <1>c
          DEF Lifecycle!LifecycleNext, Lifecycle!Offer, Lifecycle!NewAttempt, Now
<1>2. CASE ConnectEvBody(p)
  <2>1. CASE /\ ~call[p].s.evConnected /\ call[p].s.status = "Available"
             /\ row' = [row EXCEPT !.evConnected = TRUE, !.status = "Preparing",
                                   !.preparingSince = Now]
             /\ clock' = Now
    <3>1. row.activeStartedAt = 0
      BY <1>2, <2>1, <1>c DEF ConnectEvBody, Body, At, Seen, RowFits
    <3>2. row'.status = "Preparing" /\ row'.activeStartedAt = 0
      BY <2>1, <3>1, <1>c DEF Row
    <3>3. Stage(row) = "none" /\ Stage(row') = "none"
      BY <3>1, <3>2 DEF Stage
    <3> QED BY <2>1, <3>1, <3>2, <3>3, <1>c
            DEF Lifecycle!LifecycleNext, Lifecycle!Settle, Now
  <2>2. CASE row' = [row EXCEPT !.evConnected = TRUE] /\ clock' = clock
    BY <2>2, <1>a, <1>c DEF Row
  <2> QED BY <1>2, <1>u, <2>1, <2>2 DEF ConnectEvBody
<1>3. CASE DisconnectEvBody(p)
  BY <1>3, <1>u, <1>a, <1>c DEF DisconnectEvBody, Row
<1>4. CASE Unplugged(p)
  <2>1. CASE call[p].s.activeStartedAt = 0 /\ call[p].s.status # "Available"
    <3>1. row'.activeStartedAt = 0 /\ row'.status = "Available" /\ clock' = clock
      BY <1>4, <2>1, <1>c DEF Unplugged, At, Seen, Row
    <3> QED BY <3>1, <1>c, LifecycleEnds
  <2> QED BY <1>4, <2>1, <1>u DEF Unplugged
<1>5. CASE LockBody(p)
  BY <1>5, <1>u, <1>a, <1>c DEF LockBody, Row
<1>6. CASE ClearFault(p)
  <2>1. row.activeStartedAt = 0
    BY <1>6, <1>c DEF ClearFault, At, Seen, RowFits
  <2>2. row'.activeStartedAt = 0 /\ row'.status = "Available" /\ clock' = clock
    BY <1>6, <2>1, <1>c DEF ClearFault, Row
  <2> QED BY <2>2, <1>c, LifecycleEnds
<1>7. CASE StopClear(p)
  <2>1. /\ row'.activeStartedAt = 0 /\ clock' = clock
        /\ row'.status \in {"Available", "Preparing", "Faulted", "Finishing"}
        /\ row'.status = "Finishing" => call[p].s.activeTransactionId # 0
    BY <1>7, <1>c DEF StopClear, Released, Row
  <2>2. row'.status = "Finishing" => Going(row) \/ Stage(row) = "none"
    BY <1>7, <2>1, <1>c DEF StopClear, At, Prepared, Seen
  <2> QED BY <2>1, <2>2, <1>c, LifecycleEnds
<1>8. CASE CancelRemote(p)
  <2>1. CASE row' = Released(row, "Available")
    <3>1. row'.activeStartedAt = 0 /\ row'.status = "Available"
      BY <2>1, <1>c DEF Released, Row
    <3> QED BY <1>8, <3>1, <1>c, LifecycleEnds DEF CancelRemote
  <2> QED BY <1>8, <2>1, <1>u DEF CancelRemote
<1>9. CASE RemoteAdopt(p)
  <2>1. row'.status = "Charging" /\ row'.activeStartedAt = Now /\ clock' = Now
    BY <1>9, <1>c DEF RemoteAdopt, Row
  <2>2. AwaitsCsms(row)
    BY <1>9, <1>c DEF RemoteAdopt, At, Prepared, Seen
  <2>3. Stage(row') = "running"
    BY <2>1, <1>c DEF Stage
  <2> QED BY <2>1, <2>2, <2>3, <1>c
          DEF AwaitsCsms, Lifecycle!LifecycleNext, Lifecycle!Adopt, Lifecycle!NewAttempt, Now
<1> QED BY <1>1, <1>2, <1>3, <1>4, <1>5, <1>6, <1>7, <1>8, <1>9 DEF Writes

\* Every step of the connector is a step of its abstract life, or none.
LEMMA LifecycleStep ==
    ASSUME ReportInv, AloneInv, [Next]_vars
    PROVE  Lifecycle!LifecycleNext
<1>c. TypeOK /\ row \in Row /\ clock \in Nat /\ RowFits(row)
  BY DEF ReportInv, RowInv, TypeOK, AloneInv
<1>u. row' = row /\ (clock' = clock \/ clock' = Now) => Lifecycle!LifecycleNext
  BY <1>c, LifecycleStands
<1>1. ASSUME NEW p \in Calls, Poll(p) \/ TimerFires(p) \/ BeginRequest(p) \/ Step(p)
      PROVE  Lifecycle!LifecycleNext
  <2>1. clock' = clock \/ clock' = Now
    BY <1>c, <1>1, RowSteps
       DEF SessionStays, AttemptStays, AttemptEnds, AttemptIsNew
  <2>2. CASE UNCHANGED row
    BY <2>1, <2>2, <1>u
  <2> QED BY <1>c, <1>1, <2>2, LifecycleWrites, LifecycleResolve, RowUntouched DEF Writes
<1>2. CASE Environment
  <2>1. clock' = clock
    BY <1>2 DEF Environment, TimePasses, LinkUp, LinkDown, Deliver, Crash, CreateEntry,
       rowVars
  <2>2. CASE row' = Released(row, "Available")
    <3>1. row'.activeStartedAt = 0 /\ row'.status = "Available"
      BY <2>2, <1>c DEF Released, Row
    <3> QED BY <2>1, <3>1, <1>c, LifecycleEnds
  <2>3. UNCHANGED row \/ row' = Released(row, "Available")
    BY <1>2 DEF Environment, TimePasses, LinkUp, LinkDown, Deliver, Crash, CreateEntry,
       rowVars
  <2> QED BY <2>1, <2>2, <2>3, <1>u
<1>3. CASE UNCHANGED vars
  BY <1>3, <1>u DEF vars
<1> QED BY <1>1, <1>2, <1>3 DEF Next

\* With one operation at a time, whatever else goes on and whatever fails, the row lives the
\* life of ConnectorLifecycle: no attempt replaces another, none is claimed or charges out of
\* turn, and only a session that got beyond the handshake ends in Finishing (KeepsLifecycle,
\* connector-sessions.ts:308-540).
THEOREM LifecycleKept == ASSUME OneOperator PROVE Spec => KeepsLifecycle
<1>1. Init => Lifecycle!LifecycleInit
  BY DEF Init, FreshRow, Stage, Lifecycle!LifecycleInit
<1>2. ReportInv /\ AloneInv /\ [Next]_vars
          => [Lifecycle!LifecycleNext]_Lifecycle!lifecycleVars
  BY LifecycleStep
<1> QED BY <1>1, <1>2, ReportInvCorrect, AloneInvCorrect, PTL
        DEF Spec, KeepsLifecycle, Lifecycle!LifecycleSpec

-----------------------------------------------------------------------------
(* The vehicle *)

\* An operation that works on the end of a session, because its vehicle has gone.
Unplugs(c) == c.op = "release" \/ (c.pc = "unplugged" /\ c.s.activeStartedAt # 0)

\* A session beyond the handshake has its vehicle, or such an operation.
VehicleInv == Going(row) /\ ~row.evConnected => \E p \in Calls : Unplugs(call[p])

\* A release goes on until it has written, or has found that the session is gone.
LEMMA ReleaseGoesOn ==
    ASSUME TypeOK, RequestsPrepared, Alone, NEW p \in Calls, call[p].op = "release",
           Poll(p) \/ TimerFires(p) \/ BeginRequest(p) \/ Step(p),
           ~StopThrows(p), ~StopClear(p)
    PROVE  call'[p].op = "release"
<1>c. /\ call[p] \in Call /\ call[p].pc \in ResolvePCs \cup {"clear"} /\ call[p].pc # "idle"
      /\ call[p].pc \notin AdoptPCs
  BY DEF TypeOK, Alone, Placed, RequestsPrepared, ResolvePCs, AdoptPCs
<1>b. \A c : Becomes(p, c) => call'[p] = c
  BY DEF TypeOK, Becomes
<1>h. Again(p) => call'[p].op = "release"
  BY <1>b, <1>c DEF Again, Call
<1>g. \A pc : Goto(p, pc) => call'[p].op = "release"
  BY <1>b, <1>c DEF Goto, Call
<1>1. CASE Poll(p)
  BY <1>1, <1>b, <1>h, <1>g, <1>c
     DEF Poll, At, ResolvePCs, AdoptPCs, Call
<1>2. CASE TimerFires(p)
  BY <1>2, <1>b, <1>h, <1>g, <1>c
     DEF TimerFires, At, ResolvePCs, AdoptPCs, Call
<1>3. CASE BeginStart(p)
  BY <1>3, <1>b, <1>h, <1>g, <1>c
     DEF BeginStart, Begin, At, ResolvePCs, AdoptPCs, Call
<1>4. CASE BeginRemoteStart(p)
  BY <1>4, <1>b, <1>h, <1>g, <1>c
     DEF BeginRemoteStart, Begin, At, ResolvePCs, AdoptPCs, Call
<1>5. CASE BeginRemoteStop(p)
  BY <1>5, <1>b, <1>h, <1>g, <1>c
     DEF BeginRemoteStop, Begin, At, ResolvePCs, AdoptPCs, Call
<1>6. CASE BeginStop(p)
  BY <1>6, <1>b, <1>h, <1>g, <1>c
     DEF BeginStop, Begin, At, ResolvePCs, AdoptPCs, Call
<1>7. CASE BeginOther(p)
  BY <1>7, <1>b, <1>h, <1>g, <1>c
     DEF BeginOther, Begin, At, ResolvePCs, AdoptPCs, Call
<1>8. CASE BeginClearFault(p)
  BY <1>8, <1>b, <1>h, <1>g, <1>c
     DEF BeginClearFault, Begin, At, ResolvePCs, AdoptPCs, Call
<1>9. CASE Read(p)
  BY <1>9, <1>b, <1>h, <1>g, <1>c
     DEF Read, ResolveAt, At, ResolvePCs, AdoptPCs, Call
<1>10. CASE Reread(p)
  BY <1>10, <1>b, <1>h, <1>g, <1>c
     DEF Reread, At, ResolvePCs, AdoptPCs, Call
<1>11. CASE Expire(p)
  BY <1>11, <1>b, <1>h, <1>g, <1>c
     DEF Expire, At, ResolvePCs, AdoptPCs, Call
<1>12. CASE FinishHold(p)
  BY <1>12, <1>b, <1>h, <1>g, <1>c
     DEF FinishHold, At, ResolvePCs, AdoptPCs, Call
<1>13. CASE Claim(p)
  BY <1>13, <1>b, <1>h, <1>g, <1>c
     DEF Claim, At, ResolvePCs, AdoptPCs, Call
<1>14. CASE ReadClaimed(p)
  BY <1>14, <1>b, <1>h, <1>g, <1>c
     DEF ReadClaimed, At, ResolvePCs, AdoptPCs, Call
<1>15. CASE StartAccepted(p)
  BY <1>15, <1>b, <1>h, <1>g, <1>c
     DEF StartAccepted, CsmsAccepts, At, ResolvePCs, AdoptPCs, Call
<1>16. CASE StartRejected(p)
  BY <1>16, <1>b, <1>h, <1>g, <1>c
     DEF StartRejected, At, ResolvePCs, AdoptPCs, Call
<1>17. CASE StartFails(p)
  BY <1>17, <1>b, <1>h, <1>g, <1>c
     DEF StartFails, At, ResolvePCs, AdoptPCs, Call
<1>18. CASE Reject(p)
  BY <1>18, <1>b, <1>h, <1>g, <1>c
     DEF Reject, At, ResolvePCs, AdoptPCs, Call
<1>19. CASE Adopt(p)
  BY <1>19, <1>b, <1>h, <1>g, <1>c
     DEF Adopt, At, ResolvePCs, AdoptPCs, Call
<1>20. CASE ReadAdopted(p)
  BY <1>20, <1>b, <1>h, <1>g, <1>c
     DEF ReadAdopted, At, ResolvePCs, AdoptPCs, Call
<1>21. CASE CloseLost(p)
  BY <1>21, <1>b, <1>h, <1>g, <1>c
     DEF CloseLost, At, ResolvePCs, AdoptPCs, Call
<1>22. CASE Promote(p)
  BY <1>22, <1>b, <1>h, <1>g, <1>c
     DEF Promote, At, ResolvePCs, AdoptPCs, Call
<1>23. CASE ListBody(p)
  BY <1>23, <1>b, <1>h, <1>g, <1>c
     DEF ListBody, ArmLater, Body, At, ResolvePCs, AdoptPCs, Call
<1>24. CASE StartBody(p)
  BY <1>24, <1>b, <1>h, <1>g, <1>c
     DEF StartBody, ArmLater, Body, At, ResolvePCs, AdoptPCs, Call
<1>25. CASE StartThrows(p)
  BY <1>25, <1>b, <1>h, <1>g, <1>c
     DEF StartThrows, Body, At, ResolvePCs, AdoptPCs, Call
<1>26. CASE ConnectEvBody(p)
  BY <1>26, <1>b, <1>h, <1>g, <1>c
     DEF ConnectEvBody, ArmLater, Body, At, ResolvePCs, AdoptPCs, Call
<1>27. CASE DisconnectEvBody(p)
  BY <1>27, <1>b, <1>h, <1>g, <1>c
     DEF DisconnectEvBody, Body, At, ResolvePCs, AdoptPCs, Call
<1>28. CASE Unplugged(p)
  BY <1>28, <1>b, <1>h, <1>g, <1>c
     DEF Unplugged, At, ResolvePCs, AdoptPCs, Call
<1>29. CASE LockBody(p)
  BY <1>29, <1>b, <1>h, <1>g, <1>c
     DEF LockBody, Body, At, ResolvePCs, AdoptPCs, Call
<1>30. CASE Arm(p)
  BY <1>30, <1>b, <1>h, <1>g, <1>c
     DEF Arm, IsStop, At, ResolvePCs, AdoptPCs, Call
<1>31. CASE ClearFault(p)
  BY <1>31, <1>b, <1>h, <1>g, <1>c
     DEF ClearFault, At, ResolvePCs, AdoptPCs, Call
<1>32. CASE StopThrows(p)
  BY <1>32
<1>33. CASE StopNotify(p)
  BY <1>33, <1>b, <1>h, <1>g, <1>c
     DEF StopNotify, IsStop, At, ResolvePCs, AdoptPCs, Call
<1>34. CASE StopClear(p)
  BY <1>34
<1>35. CASE RemoteWait(p)
  BY <1>35, <1>b, <1>h, <1>g, <1>c
     DEF RemoteWait, Body, At, ResolvePCs, AdoptPCs, Call
<1>36. CASE CancelRemote(p)
  BY <1>36, <1>b, <1>h, <1>g, <1>c
     DEF CancelRemote, At, ResolvePCs, AdoptPCs, Call
<1>37. CASE RemoteAccepted(p)
  BY <1>37, <1>b, <1>h, <1>g, <1>c
     DEF RemoteAccepted, CsmsAccepts, At, ResolvePCs, AdoptPCs, Call
<1>38. CASE RemoteRefused(p)
  BY <1>38, <1>b, <1>h, <1>g, <1>c
     DEF RemoteRefused, At, ResolvePCs, AdoptPCs, Call
<1>39. CASE RemoteKept(p)
  BY <1>39, <1>b, <1>h, <1>g, <1>c
     DEF RemoteKept, At, ResolvePCs, AdoptPCs, Call
<1>40. CASE RemoteAdoptRead(p)
  BY <1>40, <1>b, <1>h, <1>g, <1>c
     DEF RemoteAdoptRead, At, ResolvePCs, AdoptPCs, Call
<1>41. CASE RemoteAdopt(p)
  BY <1>41, <1>b, <1>h, <1>g, <1>c
     DEF RemoteAdopt, At, ResolvePCs, AdoptPCs, Call
<1>42. CASE RemoteStopSent(p)
  BY <1>42, <1>b, <1>h, <1>g, <1>c
     DEF RemoteStopSent, At, ResolvePCs, AdoptPCs, Call
<1> QED BY <1>1, <1>2, <1>3, <1>4, <1>5, <1>6, <1>7, <1>8, <1>9, <1>10, <1>11, <1>12,
       <1>13, <1>14, <1>15, <1>16, <1>17, <1>18, <1>19, <1>20, <1>21, <1>22, <1>23,
       <1>24, <1>25, <1>26, <1>27, <1>28, <1>29, <1>30, <1>31, <1>32, <1>33, <1>34,
       <1>35, <1>36, <1>37, <1>38, <1>39, <1>40, <1>41, <1>42 DEF BeginRequest, Step

\* A handler that has cleared evConnected goes on with the cable.
LEMMA UnpluggedNext ==
    ASSUME NEW p \in Calls, At(p, "unplugged"),
           Poll(p) \/ TimerFires(p) \/ BeginRequest(p) \/ Step(p)
    PROVE  Unplugged(p)
  BY DEF BeginRequest, Begin, Step, At, Body, Poll, TimerFires, BeginStart,
     BeginRemoteStart, BeginRemoteStop, BeginStop, BeginOther, BeginClearFault, Read,
     Reread, Expire, FinishHold, Claim, ReadClaimed, StartAccepted, StartRejected,
     StartFails, Reject, Adopt, ReadAdopted, CloseLost, Promote, ListBody, StartBody,
     StartThrows, ConnectEvBody, DisconnectEvBody, LockBody, Arm, ClearFault,
     StopThrows, StopNotify, StopClear, RemoteWait, CancelRemote, RemoteAccepted,
     RemoteRefused, RemoteKept, RemoteAdoptRead, RemoteAdopt, RemoteStopSent

\* A step of an operation that stops nothing and whose vehicle is there or stays away.
LEMMA VehicleWrites ==
    ASSUME RowInv, AloneInv, VehicleInv, NEW p \in Calls, Writes(p),
           Going(row'), ~row'.evConnected
    PROVE  Unplugs(call'[p])
<1>c. /\ row \in Row /\ call[p] \in Call /\ call[p].s \in Row /\ clock \in Nat
      /\ Prepared(call[p]) /\ RowFits(row) /\ Seen(call[p], row) /\ Placed(call[p]) /\ Now # 0
      /\ Busy(call[p])
  BY WriterIsBusy
     DEF RowInv, TypeOK, Call, RequestsPrepared, AloneInv, Alone, OperationSeen, Now
<1>b. \A c : Becomes(p, c) => call'[p] = c
  BY DEF RowInv, TypeOK, Becomes
<1>w. Going(row) /\ ~row.evConnected => Unplugs(call[p])
  <2>1. \A q \in Calls : Unplugs(call[q]) => Busy(call[q])
    BY DEF Unplugs, Busy, AloneInv, Alone, Placed, ResolvePCs
  <2> QED BY <1>c, <2>1 DEF VehicleInv, AloneInv, Alone
<1>r. Release(p) => Unplugs(call'[p])
  BY <1>b DEF Release, Idle, Unplugs
<1>g. row'.activeStartedAt # 0
  BY DEF Going, Stage
<1>1. CASE StartBody(p)
  <2>1. row'.status = "Preparing" /\ row'.activeStartPending = FALSE
    BY <1>1, <1>c DEF StartBody, Row
  <2> QED BY <2>1 DEF Going, Stage
<1>2. CASE ConnectEvBody(p)
  <2>1. row' = row
    BY <1>2, <1>c DEF ConnectEvBody, Row
  <2> QED BY <1>2, <2>1, <1>w DEF ConnectEvBody, Body, At, Unplugs
<1>3. CASE DisconnectEvBody(p)
  <2>1. CASE call[p].s.evConnected
    <3>1. row'.activeStartedAt = row.activeStartedAt
      BY <1>3, <2>1, <1>c DEF DisconnectEvBody, Row
    <3>2. call[p].s.activeStartedAt # 0
      BY <1>3, <1>c, <1>g, <3>1 DEF DisconnectEvBody, Body, At, Seen
    <3>3. call'[p].pc = "unplugged" /\ call'[p].s = call[p].s
      BY <1>3, <2>1, <1>b, <1>c DEF DisconnectEvBody, Goto, Call
    <3> QED BY <3>2, <3>3 DEF Unplugs
  <2>2. CASE ~call[p].s.evConnected
    <3>1. row' = row
      BY <1>3, <2>2 DEF DisconnectEvBody
    <3> QED BY <1>3, <3>1, <1>w DEF DisconnectEvBody, Body, At, Unplugs
  <2> QED BY <2>1, <2>2
<1>4. CASE Unplugged(p)
  <2>1. call[p].s.activeStartedAt = 0 => row.activeStartedAt = 0
    BY <1>4, <1>c DEF Unplugged, At, Seen
  <2>2. row'.activeStartedAt = row.activeStartedAt
    BY <1>4, <1>c DEF Unplugged, Row
  <2> QED BY <1>4, <2>1, <2>2, <1>g, <1>r DEF Unplugged
<1>5. CASE LockBody(p)
  <2>1. /\ row'.activeStartedAt = row.activeStartedAt /\ row'.status = row.status
        /\ row'.activeStartPending = row.activeStartPending
        /\ row'.activeIsRemote = row.activeIsRemote
        /\ row'.evConnected = row.evConnected
    BY <1>5, <1>c DEF LockBody, Row
  <2>2. Going(row) /\ ~row.evConnected
    BY <2>1 DEF Going, Stage
  <2> QED BY <1>5, <2>2, <1>w DEF LockBody, Body, At, Unplugs
<1>6. CASE ClearFault(p)
  <2>1. row.activeStartedAt = 0
    BY <1>6, <1>c DEF ClearFault, At, Seen, RowFits
  <2> QED BY <1>6, <2>1, <1>g, <1>c DEF ClearFault, Row
<1>7. CASE StopClear(p)
  <2>1. row'.activeStartedAt = 0
    BY <1>7, <1>c DEF StopClear, Released, Row
  <2> QED BY <2>1, <1>g
<1>8. CASE CancelRemote(p)
  <2>1. row' = row
    <3>1. Released(row, "Available").activeStartedAt = 0
      BY <1>c DEF Released, Row
    <3> QED BY <1>8, <3>1, <1>g DEF CancelRemote
  <2> QED BY <1>8, <2>1, <1>w, <1>c DEF CancelRemote, At, Unplugs, Placed, ResolvePCs
<1>9. CASE RemoteAdopt(p)
  <2>1. row'.evConnected = row.evConnected /\ row.evConnected
    BY <1>9, <1>c DEF RemoteAdopt, At, Seen, AdoptPCs, Row
  <2> QED BY <2>1
<1> QED BY <1>1, <1>2, <1>3, <1>4, <1>5, <1>6, <1>7, <1>8, <1>9 DEF Writes

\* Without restarts, every step keeps VehicleInv.
LEMMA VehicleInvStep ==
    ASSUME "crash" \notin Faults, OneOperator, ReportInv, AloneInv, VehicleInv, [Next]_vars
    PROVE  VehicleInv'
<1>c. RowInv /\ TypeOK /\ RequestsPrepared /\ IssuedInv /\ RowFits(row) /\ Alone /\ WholeInv
  BY DEF ReportInv, RowInv, AloneInv
<1> SUFFICES ASSUME Going(row'), ~row'.evConnected
             PROVE  \E q \in Calls : Unplugs(call'[q])
  BY DEF VehicleInv, Going, Unplugs
<1>q. Quiet(row, row') => \E q \in Calls : Unplugs(call[q])
  BY DEF Quiet, VehicleInv
<1>1. ASSUME NEW p \in Calls, Poll(p) \/ TimerFires(p) \/ BeginRequest(p) \/ Step(p)
      PROVE  \E q \in Calls : Unplugs(call'[q])
  <2>1. CASE Writes(p)
    BY <1>c, <2>1, VehicleWrites
  <2>2. CASE ~Writes(p)
    <3>1. PICK q \in Calls : Unplugs(call[q])
      BY <1>c, <1>q, <1>1, <2>2, OthersQuiet
    <3>2. CASE q # p
      BY <1>c, <1>1, <3>1, <3>2, OthersWait
    <3>3. CASE q = p
      <4>1. call[p].pc # "unplugged"
        BY <1>1, <2>2, UnpluggedNext DEF Writes, At
      <4>2. call[p].op = "release"
        BY <3>1, <3>3, <4>1 DEF Unplugs
      <4>3. ~StopClear(p)
        BY <2>2 DEF Writes
      <4>4. ~StopThrows(p)
        <5>1. SUFFICES ASSUME StopThrows(p) PROVE FALSE
          OBVIOUS
        <5>2. row.activeStartedAt = 0 /\ row' = row
          BY <4>2, <5>1 DEF StopThrows, At, rowVars, AloneInv, OperationSeen, Seen, Busy
        <5> QED BY <5>2 DEF Going, Stage
      <4> QED BY <1>c, <1>1, <4>2, <4>3, <4>4, ReleaseGoesOn DEF Unplugs
    <3> QED BY <3>2, <3>3
  <2> QED BY <2>1, <2>2
<1>2. CASE Environment
  BY <1>c, <1>q, <1>2, EnvironmentQuiet DEF Crash
<1>3. CASE UNCHANGED vars
  BY <1>q, <1>3, SameQuiet DEF vars
<1> QED BY <1>1, <1>2, <1>3 DEF Next

\* With one operation at a time and no restart, a connector charges a vehicle that is there, or
\* one whose unplugging is still being worked on, whatever polls, timers, remote starts and
\* failed calls come between (ChargingHasVehicle, disconnectEv).
THEOREM VehicleIsThere ==
    ASSUME OneOperator, "crash" \notin Faults PROVE Spec => []ChargingHasVehicle
<1>1. Init => VehicleInv
  BY DEF Init, FreshRow, VehicleInv, Going, Stage
<1>2. ReportInv /\ AloneInv /\ VehicleInv /\ [Next]_vars => VehicleInv'
  BY VehicleInvStep
<1>3. ReportInv /\ VehicleInv => ChargingHasVehicle
  BY DEF ReportInv, RowInv, WholeInv, SessionIsWhole, ChargingHasTransaction, VehicleInv,
     Going, Stage, Unplugs, ChargingHasVehicle, At
<1> QED BY <1>1, <1>2, <1>3, ReportInvCorrect, AloneInvCorrect, PTL DEF Spec
=============================================================================

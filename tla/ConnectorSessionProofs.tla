---------------------- MODULE ConnectorSessionProofs -----------------------
(***************************************************************************)
(* What holds of a connector however requests, polls, timers and restarts  *)
(* interleave: types; the row's own invariants, a session's fields standing *)
(* or falling together and a Preparing connector having a deadline; and what *)
(* the CSMS is told, one StartTransaction for an attempt, and stops only for *)
(* transactions it has issued.                                             *)
(*                                                                         *)
(* Types take one step per action, and under it the variables the action can *)
(* disturb. The row's invariants are statements about the row alone, and   *)
(* every write of the row is made from a snapshot and from what the request *)
(* carries. So their proof needs one fact about each running request,      *)
(* Prepared, and none about how old its snapshot is.                       *)
(***************************************************************************)
EXTENDS ConnectorSession, TLAPS

\* Released keeps a row a row.
LEMMA ReleasedType ==
    ASSUME NEW r \in Row, NEW status \in Statuses
    PROVE  Released(r, status) \in Row
  BY DEF Released, Row, Statuses

\* A connector's first row is a row.
LEMMA FreshRowType == FreshRow \in Row
  BY DEF FreshRow, Row, Statuses

\* A request that is not running has the type of one.
LEMMA IdleType == Idle \in Call
  BY FreshRowType DEF Idle, Call, PCs

\* So has a poll that begins,
LEMMA ListedCall == [Idle EXCEPT !.op = "poll", !.pc = "read"] \in Call
  BY IdleType DEF Call, PCs

\* and a stop that a handler starts.
LEMMA ReleaseCall == [Idle EXCEPT !.op = "release", !.pc = "read"] \in Call
  BY IdleType DEF Call, PCs

\* Moving a request to a well-typed record keeps the requests well typed.
LEMMA BecomesType ==
    ASSUME TypeOK, NEW p \in Calls, NEW c \in Call, Becomes(p, c)
    PROVE  call' \in [Calls -> Call]
  BY DEF TypeOK, Becomes

\* Goto keeps the requests well typed.
LEMMA GotoType ==
    ASSUME TypeOK, NEW p \in Calls, NEW pc \in PCs, Goto(p, pc)
    PROVE  call' \in [Calls -> Call]
<1>1. [call[p] EXCEPT !.pc = pc] \in Call
  BY DEF TypeOK, Call
<1> QED BY <1>1, BecomesType DEF Goto

\* Again keeps the requests well typed.
LEMMA AgainType ==
    ASSUME TypeOK, NEW p \in Calls, Again(p)
    PROVE  call' \in [Calls -> Call]
<1>1. call[p] \in Call
  BY DEF TypeOK
<1>2. [call[p] EXCEPT !.pc = "reread", !.s = FreshRow, !.att = 0, !.attTag = NoTag,
                      !.local = 0, !.tx = 0] \in Call
  BY <1>1, FreshRowType DEF Call, PCs
<1> QED BY <1>2, BecomesType DEF Again

\* Return keeps the requests well typed.
LEMMA ReturnType ==
    ASSUME TypeOK, NEW p \in Calls, Return(p)
    PROVE  call' \in [Calls -> Call]
  BY IdleType, BecomesType DEF Return

\* List keeps the requests well typed.
LEMMA ListType ==
    ASSUME TypeOK, NEW p \in Calls, List(p)
    PROVE  call' \in [Calls -> Call]
  BY ListedCall, BecomesType DEF List

\* Release keeps the requests well typed.
LEMMA ReleaseType ==
    ASSUME TypeOK, NEW p \in Calls, Release(p)
    PROVE  call' \in [Calls -> Call]
  BY ReleaseCall, BecomesType DEF Release

\* ArmLater keeps the requests well typed.
LEMMA ArmLaterType ==
    ASSUME TypeOK, NEW p \in Calls, NEW since \in Nat, ArmLater(p, since)
    PROVE  call' \in [Calls -> Call]
<1>1. call[p] \in Call
  BY DEF TypeOK
<1>2. [call[p] EXCEPT !.pc = "arm", !.since = since] \in Call
  BY <1>1 DEF Call, PCs
<1> QED BY <1>2, BecomesType DEF ArmLater

\* A stop that is sent or queued keeps the queue and the CSMS's sets well typed.
LEMMA SendType ==
    ASSUME TypeOK, NEW t \in Nat, SendOrQueueStop(t)
    PROVE  outbox' \in Seq(Message) /\ open' \subseteq TxIds /\ issued' \subseteq TxIds
<1>1. [action |-> "StopTransaction", tx |-> t] \in Message
  BY DEF Message
<1>2. outbox' = outbox \/ outbox' = Append(outbox, [action |-> "StopTransaction", tx |-> t])
  BY DEF SendOrQueueStop
<1> HIDE DEF Message
<1>a. outbox \in Seq(Message)
  BY DEF TypeOK
<1>3. outbox' \in Seq(Message)
  BY <1>1, <1>2, <1>a
<1>4. issued' = issued /\ (open' = open \/ open' = open \ {t})
  BY DEF SendOrQueueStop
<1> QED BY <1>3, <1>4 DEF TypeOK

\* The fields of a running request that the actions use.
LEMMA CallFields ==
    ASSUME TypeOK, NEW p \in Calls
    PROVE  /\ call[p] \in Call
           /\ call[p].s \in Row /\ row \in Row
           /\ call[p].att \in Nat /\ call[p].local \in Nat /\ call[p].tx \in Nat
           /\ call[p].since \in Nat
           /\ call[p].tag \in Tags \cup {NoTag} /\ call[p].attTag \in Tags \cup {NoTag}
  BY DEF TypeOK, Call

\* The fields of a row that the actions use.
LEMMA RowFields ==
    ASSUME NEW r \in Row
    PROVE  /\ r.preparingSince \in Nat /\ r.activeTransactionId \in Nat
           /\ r.activeStartedAt \in Nat /\ r.finishingSince \in Nat
           /\ r.transactionCounter \in Nat
           /\ r.finishingNextStatus \in {"null", "Available", "Preparing"}
           /\ r.activeIdTag \in Tags \cup {NoTag}
  BY DEF Row

\* A new timestamp is a natural number.
LEMMA NowType == TypeOK => Now \in Nat
  BY DEF TypeOK, Now

\* So is the next local transaction id.
LEMMA NextLocalIdType == ASSUME NEW r \in Row PROVE NextLocalId(r) \in Nat
  BY DEF Row, NextLocalId

\* A step of a request, or its beginning, keeps every variable's type.
LEMMA TypeRequest ==
    ASSUME TypeOK, NEW p \in Calls,
           Poll(p) \/ TimerFires(p) \/ BeginRequest(p) \/ Step(p)
    PROVE  TypeOK'
<1>c. /\ call[p] \in Call /\ call[p].s \in Row /\ row \in Row
      /\ call[p].att \in Nat /\ call[p].local \in Nat /\ call[p].tx \in Nat
      /\ call[p].since \in Nat
      /\ call[p].tag \in Tags \cup {NoTag} /\ call[p].attTag \in Tags \cup {NoTag}
      /\ Now \in Nat /\ clock \in Nat
      /\ NextLocalId(call[p].s) \in Nat
  BY CallFields, NowType, NextLocalIdType DEF TypeOK
<1>f. /\ call[p].s.preparingSince \in Nat /\ call[p].s.activeTransactionId \in Nat
      /\ call[p].s.activeStartedAt \in Nat /\ call[p].s.transactionCounter \in Nat
      /\ call[p].s.finishingNextStatus \in {"null", "Available", "Preparing"}
      /\ call[p].s.activeIdTag \in Tags \cup {NoTag}
  BY <1>c, RowFields
<1>t. remoteTx \in Nat BY DEF TypeOK
<1>d. /\ FinalStatus(call[p].s) \in {"Available", "Preparing"}
      /\ \A final \in {"Available", "Preparing"} : SettledSince(final) \in Nat
      /\ PromotedTransaction(p) \in Nat
      /\ WindowStart(call[p].s) \in Nat
  BY <1>c, <1>f DEF FinalStatus, SettledSince, PromotedTransaction, WindowStart
<1>b. \A c \in Call : Becomes(p, c) => call' \in [Calls -> Call]
  BY BecomesType
<1>g. \A pc \in PCs : Goto(p, pc) => call' \in [Calls -> Call]
  BY GotoType
<1>a. \A since \in Nat : ArmLater(p, since) => call' \in [Calls -> Call]
  BY ArmLaterType
<1>h. Again(p) => call' \in [Calls -> Call]
  BY AgainType
<1>r. Return(p) => call' \in [Calls -> Call]
  BY ReturnType
<1>l. List(p) => call' \in [Calls -> Call]
  BY ListType
<1>q. \A t \in Nat : SendOrQueueStop(t) =>
          outbox' \in Seq(Message) /\ open' \subseteq TxIds /\ issued' \subseteq TxIds
  BY SendType
<1>o. outbox \in Seq(Message) /\ open \subseteq TxIds /\ issued \subseteq TxIds
  BY DEF TypeOK
<1>e. Release(p) => call' \in [Calls -> Call]
  BY ReleaseType
<1>1. CASE Poll(p)
  <2>1. row' \in Row
    BY <1>1, <1>c DEF Poll, rowVars
  <2>2. call' \in [Calls -> Call]
    BY <1>1, <1>l DEF Poll
  <2> QED BY <1>1, <2>1, <2>2, TxIdsAssumption DEF TypeOK, Poll, rowVars, csmsVars,
         linkVars
<1>2. CASE TimerFires(p)
  <2>1. row' \in Row
    BY <1>2, <1>c DEF TimerFires, rowVars
  <2>2. call' \in [Calls -> Call]
    BY <1>2, <1>l DEF TimerFires
  <2> QED BY <1>2, <2>1, <2>2, TxIdsAssumption DEF TypeOK, TimerFires, rowVars,
         csmsVars, linkVars
<1>3. CASE BeginStart(p)
  <2>1. row' \in Row
    BY <1>3, <1>c DEF BeginStart, rowVars, Begin
  <2>2. call' \in [Calls -> Call]
    BY <1>3, <1>b, IdleType, OpsAssumption DEF BeginStart, Begin, Call, PCs, AllOps
  <2> QED BY <1>3, <2>1, <2>2, TxIdsAssumption DEF TypeOK, BeginStart, rowVars,
         csmsVars, linkVars, Begin
<1>4. CASE BeginRemoteStart(p)
  <2>1. row' \in Row
    BY <1>4, <1>c DEF BeginRemoteStart, rowVars, Begin
  <2>2. call' \in [Calls -> Call]
    BY <1>4, <1>b, IdleType, OpsAssumption DEF BeginRemoteStart, Begin, Call, PCs,
      AllOps
  <2> QED BY <1>4, <2>1, <2>2, TxIdsAssumption DEF TypeOK, BeginRemoteStart,
         rowVars, csmsVars, linkVars, Begin
<1>5. CASE BeginStop(p)
  <2>1. row' \in Row
    BY <1>5, <1>c DEF BeginStop, rowVars, Begin
  <2>2. call' \in [Calls -> Call]
    BY <1>5, <1>b, IdleType, OpsAssumption DEF BeginStop, Begin, Call, PCs, AllOps
  <2> QED BY <1>5, <2>1, <2>2, TxIdsAssumption DEF TypeOK, BeginStop, rowVars,
         csmsVars, linkVars, Begin
<1>6. CASE BeginOther(p)
  <2>1. row' \in Row
    BY <1>6, <1>c DEF BeginOther, rowVars, Begin
  <2>2. call' \in [Calls -> Call]
    <3>1. PICK op \in AllOps : Becomes(p, [Idle EXCEPT !.pc = "read", !.op = op])
      BY <1>6 DEF BeginOther, Begin, AllOps
    <3> QED BY <3>1, <1>b, IdleType DEF Call, PCs
  <2> QED BY <1>6, <2>1, <2>2, TxIdsAssumption DEF TypeOK, BeginOther, rowVars,
         csmsVars, linkVars, Begin
<1>7. CASE BeginClearFault(p)
  <2>1. row' \in Row
    BY <1>7, <1>c DEF BeginClearFault, rowVars, Begin
  <2>2. call' \in [Calls -> Call]
    BY <1>7, <1>b, IdleType, OpsAssumption DEF BeginClearFault, Begin, Call, PCs,
      AllOps
  <2> QED BY <1>7, <2>1, <2>2, TxIdsAssumption DEF TypeOK, BeginClearFault, rowVars,
         csmsVars, linkVars, Begin
<1>8. CASE BeginRemoteStop(p)
  <2>1. row' \in Row
    BY <1>8, <1>c DEF BeginRemoteStop, rowVars, Begin
  <2>2. call' \in [Calls -> Call]
    BY <1>8, <1>b, <1>t, IdleType, OpsAssumption DEF BeginRemoteStop, Begin, Call,
      PCs, AllOps
  <2> QED BY <1>8, <2>1, <2>2, TxIdsAssumption DEF TypeOK, BeginRemoteStop, rowVars,
         csmsVars, linkVars, Begin
<1>9. CASE Read(p)
  <2>1. row' \in Row
    BY <1>9, <1>c DEF Read, rowVars
  <2>2. call' \in [Calls -> Call]
    BY <1>9, <1>b, <1>c DEF Read, Call, PCs, ResolveAt
  <2> QED BY <1>9, <2>1, <2>2, TxIdsAssumption DEF TypeOK, Read, rowVars, csmsVars,
         linkVars
<1>10. CASE Reread(p)
  <2>1. row' \in Row
    BY <1>10, <1>c DEF Reread, rowVars
  <2>2. call' \in [Calls -> Call]
    BY <1>10, <1>b, <1>c DEF Reread, Call, PCs
  <2> QED BY <1>10, <2>1, <2>2, TxIdsAssumption DEF TypeOK, Reread, rowVars,
         csmsVars, linkVars
<1>11. CASE Expire(p)
  <2>1. row' \in Row
    BY <1>11, <1>c, ReleasedType DEF Expire, Statuses
  <2>2. call' \in [Calls -> Call]
    BY <1>11, <1>h DEF Expire
  <2> QED BY <1>11, <2>1, <2>2, TxIdsAssumption DEF TypeOK, Expire, rowVars,
         csmsVars, linkVars
<1>12. CASE FinishHold(p)
  <2>1. ASSUME NEW final \in {"Available", "Preparing"}, NEW n \in Nat
        PROVE  [row EXCEPT !.status = final, !.locked = FALSE, !.finishingSince = 0,
                           !.finishingNextStatus = "null", !.preparingSince = n] \in Row
    BY <1>c DEF Row, Statuses
  <2>2. row' \in Row
    <3>1. CASE row.status = "Finishing"
      <4>1. row' = [row EXCEPT !.status = FinalStatus(call[p].s), !.locked = FALSE,
                               !.finishingSince = 0, !.finishingNextStatus = "null",
                               !.preparingSince = SettledSince(FinalStatus(call[p].s))]
        BY <1>12, <3>1 DEF FinishHold
      <4>2. SettledSince(FinalStatus(call[p].s)) \in Nat
        BY <1>d
      <4> QED BY <4>1, <4>2, <1>d, <2>1
    <3>2. CASE row.status # "Finishing"
      BY <1>12, <3>2, <1>c DEF FinishHold
    <3> QED BY <3>1, <3>2
  <2>3. clock' \in Nat
    BY <1>12, <1>c, <1>d DEF FinishHold
  <2>4. call' \in [Calls -> Call]
    BY <1>12, <1>b, <1>h, <1>c, <1>d, FreshRowType DEF FinishHold, Call, PCs
  <2> QED BY <1>12, <2>2, <2>3, <2>4 DEF TypeOK, FinishHold, csmsVars, linkVars
<1>13. CASE Claim(p)
  <2>1. row' \in Row
    BY <1>13, <1>c, <1>f DEF Claim, Row
  <2>2. call' \in [Calls -> Call]
    BY <1>13, <1>b, <1>h, <1>c, <1>f DEF Claim, Call, PCs
  <2> QED BY <1>13, <2>1, <2>2, TxIdsAssumption DEF TypeOK, Claim, rowVars,
         csmsVars, linkVars
<1>14. CASE ReadClaimed(p)
  <2>1. row' \in Row
    BY <1>14, <1>c DEF ReadClaimed, rowVars
  <2>2. call' \in [Calls -> Call]
    BY <1>14, <1>b, <1>c DEF ReadClaimed, Call, PCs
  <2> QED BY <1>14, <2>1, <2>2, TxIdsAssumption, <1>c DEF TypeOK, ReadClaimed,
         rowVars, csmsVars, linkVars
<1>15. CASE StartAccepted(p)
  <2>1. row' \in Row
    BY <1>15, <1>c DEF StartAccepted, rowVars
  <2>2. call' \in [Calls -> Call]
    BY <1>15, <1>b, <1>c, TxIdsAssumption DEF StartAccepted, CsmsAccepts, Call, PCs
  <2> QED BY <1>15, <2>1, <2>2, TxIdsAssumption DEF TypeOK, StartAccepted, rowVars,
         csmsVars, linkVars, CsmsAccepts
<1>16. CASE StartRejected(p)
  <2>1. row' \in Row
    BY <1>16, <1>c DEF StartRejected, rowVars
  <2>2. call' \in [Calls -> Call]
    BY <1>16, <1>g DEF StartRejected, PCs
  <2> QED BY <1>16, <2>1, <2>2, TxIdsAssumption DEF TypeOK, StartRejected, rowVars,
         csmsVars, linkVars
<1>17. CASE StartFails(p)
  <2>1. row' \in Row
    BY <1>17, <1>c DEF StartFails, rowVars
  <2>2. call' \in [Calls -> Call]
    BY <1>17, <1>b, <1>c DEF StartFails, Call, PCs
  <2> QED BY <1>17, <2>1, <2>2, TxIdsAssumption DEF TypeOK, StartFails, rowVars,
         csmsVars, linkVars, Message
<1>18. CASE Reject(p)
  <2>1. row' \in Row
    BY <1>18, <1>c, ReleasedType DEF Reject, Statuses
  <2>2. call' \in [Calls -> Call]
    BY <1>18, <1>h DEF Reject
  <2> QED BY <1>18, <2>1, <2>2, TxIdsAssumption DEF TypeOK, Reject, rowVars,
         csmsVars, linkVars
<1>19. CASE Adopt(p)
  <2>1. row' \in Row
    BY <1>19, <1>c, <1>f DEF Adopt, LaterOf, Row
  <2>2. call' \in [Calls -> Call]
    BY <1>19, <1>g DEF Adopt, PCs
  <2> QED BY <1>19, <2>1, <2>2, TxIdsAssumption DEF TypeOK, Adopt, rowVars,
         csmsVars, linkVars
<1>20. CASE ReadAdopted(p)
  <2>1. row' \in Row
    BY <1>20, <1>c DEF ReadAdopted, rowVars
  <2>2. call' \in [Calls -> Call]
    BY <1>20, <1>b, <1>c DEF ReadAdopted, Call, PCs
  <2> QED BY <1>20, <2>1, <2>2, TxIdsAssumption DEF TypeOK, ReadAdopted, rowVars,
         csmsVars, linkVars
<1>21. CASE CloseLost(p)
  <2>1. row' \in Row
    BY <1>21, <1>c DEF CloseLost, rowVars
  <2>2. call' \in [Calls -> Call]
    BY <1>21, <1>h DEF CloseLost
  <2>3. outbox' \in Seq(Message) /\ open' \subseteq TxIds /\ issued' \subseteq TxIds
    BY <1>21, <1>q, <1>c DEF CloseLost
  <2> QED BY <1>21, <2>1, <2>2, <2>3 DEF TypeOK, CloseLost, rowVars, linkVars
<1>22. CASE Promote(p)
  <2>1. ASSUME NEW t \in Nat, NEW n \in Nat
        PROVE  [row EXCEPT !.status = "Charging", !.activeStartPending = FALSE,
                           !.preparingSince = 0, !.activeStartedAt = n,
                           !.activeTransactionId = t] \in Row
    BY <1>c DEF Row, Statuses
  <2>2. row' \in Row
    BY <1>22, <1>c, <1>d, <2>1 DEF Promote
  <2>3. clock' \in Nat
    BY <1>22, <1>c DEF Promote
  <2>4. call' \in [Calls -> Call]
    BY <1>22, <1>h DEF Promote
  <2> QED BY <1>22, <2>2, <2>3, <2>4 DEF TypeOK, Promote, csmsVars, linkVars
<1>23. CASE Arm(p)
  <2>1. row' \in Row
    BY <1>23, <1>c DEF Arm, rowVars
  <2>2. call' \in [Calls -> Call]
    BY <1>23, <1>b, <1>c, <1>l, <1>r, FreshRowType DEF Arm, Call, PCs, AllOps
  <2> QED BY <1>23, <2>1, <2>2, TxIdsAssumption, <1>c DEF TypeOK, Arm, rowVars,
         csmsVars, linkVars
<1>24. CASE ListBody(p)
  <2>1. row' \in Row
    BY <1>24, <1>c DEF ListBody, rowVars
  <2>2. call' \in [Calls -> Call]
    BY <1>24, <1>c, <1>f, <1>r, <1>a DEF ListBody
  <2> QED BY <1>24, <2>1, <2>2, TxIdsAssumption DEF TypeOK, ListBody, rowVars,
         csmsVars, linkVars
<1>25. CASE StartBody(p)
  <2>0. clock' \in Nat
    BY <1>25, <1>c, <1>d DEF StartBody
  <2>1. row' \in Row
    BY <1>25, <1>c, <1>f, <1>d DEF StartBody, Row, Statuses
  <2>2. call' \in [Calls -> Call]
    BY <1>25, <1>a, <1>c, <1>f, <1>d DEF StartBody
  <2> QED BY <1>25, <2>0, <2>1, <2>2, TxIdsAssumption DEF TypeOK, StartBody,
         rowVars, csmsVars, linkVars
<1>26. CASE StartThrows(p)
  <2>1. row' \in Row
    BY <1>26, <1>c DEF StartThrows, rowVars
  <2>2. call' \in [Calls -> Call]
    BY <1>26, <1>g, <1>r DEF StartThrows, PCs
  <2> QED BY <1>26, <2>1, <2>2, TxIdsAssumption DEF TypeOK, StartThrows, rowVars,
         csmsVars, linkVars
<1>27. CASE ConnectEvBody(p)
  <2>0. clock' \in Nat
    BY <1>27, <1>c, <1>d DEF ConnectEvBody
  <2>1. row' \in Row
    BY <1>27, <1>c DEF ConnectEvBody, Row, Statuses
  <2>2. call' \in [Calls -> Call]
    BY <1>27, <1>a, <1>l, <1>c DEF ConnectEvBody
  <2> QED BY <1>27, <2>0, <2>1, <2>2, TxIdsAssumption DEF TypeOK, ConnectEvBody,
         rowVars, csmsVars, linkVars
<1>28. CASE DisconnectEvBody(p)
  <2>1. row' \in Row
    BY <1>28, <1>c DEF DisconnectEvBody, Row
  <2>2. call' \in [Calls -> Call]
    BY <1>28, <1>g, <1>l DEF DisconnectEvBody, PCs
  <2> QED BY <1>28, <2>1, <2>2, TxIdsAssumption DEF TypeOK, DisconnectEvBody,
         rowVars, csmsVars, linkVars
<1>29. CASE Unplugged(p)
  <2>1. row' \in Row
    BY <1>29, <1>c DEF Unplugged, Row, Statuses
  <2>2. call' \in [Calls -> Call]
    BY <1>29, <1>l, <1>e DEF Unplugged
  <2> QED BY <1>29, <2>1, <2>2, TxIdsAssumption DEF TypeOK, Unplugged, rowVars,
         csmsVars, linkVars
<1>30. CASE LockBody(p)
  <2>1. row' \in Row
    BY <1>30, <1>c DEF LockBody, Row
  <2>2. call' \in [Calls -> Call]
    BY <1>30, <1>l, <1>e DEF LockBody
  <2> QED BY <1>30, <2>1, <2>2, TxIdsAssumption DEF TypeOK, LockBody, rowVars,
         csmsVars, linkVars
<1>31. CASE ClearFault(p)
  <2>1. row' \in Row
    BY <1>31, <1>c DEF ClearFault, Row, Statuses
  <2>2. call' \in [Calls -> Call]
    BY <1>31, <1>l DEF ClearFault
  <2> QED BY <1>31, <2>1, <2>2, TxIdsAssumption DEF TypeOK, ClearFault, rowVars,
         csmsVars, linkVars
<1>32. CASE StopThrows(p)
  <2>1. row' \in Row
    BY <1>32, <1>c DEF StopThrows, rowVars
  <2>2. call' \in [Calls -> Call]
    BY <1>32, <1>r DEF StopThrows
  <2> QED BY <1>32, <2>1, <2>2, TxIdsAssumption DEF TypeOK, StopThrows, rowVars,
         csmsVars, linkVars
<1>33. CASE StopNotify(p)
  <2>1. [call[p] EXCEPT !.pc = IF call[p].s.evConnected THEN "arm" ELSE "clear",
                        !.since = IF call[p].s.evConnected THEN Now ELSE 0,
                        !.att = Now] \in Call
    BY <1>c DEF Call, PCs
  <2>2. call' \in [Calls -> Call]
    BY <1>33, <1>b, <2>1 DEF StopNotify
  <2>3. outbox' \in Seq(Message) /\ open' \subseteq TxIds /\ issued' \subseteq TxIds
    <4>1. CASE MustNotify(p)
      BY <1>33, <4>1, <1>q, <1>f DEF StopNotify
    <4>2. CASE ~MustNotify(p)
      BY <1>33, <4>2, <1>o DEF StopNotify, csmsVars
    <4> QED BY <4>1, <4>2
  <2>4. clock' \in Nat /\ row' \in Row
    BY <1>33, <1>c DEF StopNotify
  <2>5. UNCHANGED <<timer, horizon, requests, entry, online, remoteTx, started>>
    BY <1>33 DEF StopNotify, linkVars
  <2> QED BY <2>2, <2>3, <2>4, <2>5 DEF TypeOK
<1>34. CASE StopClear(p)
  <2>1. ASSUME NEW status \in Statuses, NEW n \in Nat, NEW m \in Nat,
               NEW idle \in {"Available", "Preparing"}
        PROVE  /\ [Released(row, status) EXCEPT !.preparingSince = n] \in Row
               /\ [[Released(row, status) EXCEPT !.preparingSince = n]
                       EXCEPT !.locked = TRUE, !.finishingSince = m,
                              !.finishingNextStatus = idle] \in Row
    <4>1. Released(row, status) \in Row
      BY <1>c, ReleasedType
    <4> QED BY <4>1 DEF Row
  <2>2. row' \in Row
    BY <1>34, <1>c, <1>f, <2>1 DEF StopClear, Statuses
  <2>3. call' \in [Calls -> Call]
    BY <1>34, <1>r, <1>l DEF StopClear
  <2> QED BY <1>34, <2>2, <2>3 DEF TypeOK, StopClear, csmsVars, linkVars
<1>35. CASE RemoteWait(p)
  <2>1. row' \in Row
    BY <1>35, <1>c DEF RemoteWait, rowVars
  <2>2. call' \in [Calls -> Call]
    BY <1>35, <1>b, <1>g, <1>c, FreshRowType DEF RemoteWait, Call, PCs
  <2> QED BY <1>35, <2>1, <2>2, TxIdsAssumption DEF TypeOK, RemoteWait, rowVars,
         csmsVars, linkVars
<1>36. CASE CancelRemote(p)
  <2>1. row' \in Row
    BY <1>36, <1>c, ReleasedType DEF CancelRemote, Statuses
  <2>2. call' \in [Calls -> Call]
    BY <1>36, <1>r DEF CancelRemote
  <2> QED BY <1>36, <2>1, <2>2, TxIdsAssumption DEF TypeOK, CancelRemote, rowVars,
         csmsVars, linkVars
<1>37. CASE RemoteAccepted(p)
  <2>1. row' \in Row
    BY <1>37, <1>c DEF RemoteAccepted, rowVars
  <2>2. call' \in [Calls -> Call]
    BY <1>37, <1>b, <1>c, TxIdsAssumption DEF RemoteAccepted, CsmsAccepts, Call, PCs
  <2> QED BY <1>37, <2>1, <2>2, TxIdsAssumption DEF TypeOK, RemoteAccepted, rowVars,
         csmsVars, linkVars, CsmsAccepts
<1>38. CASE RemoteRefused(p)
  <2>1. row' \in Row
    BY <1>38, <1>c DEF RemoteRefused, rowVars
  <2>2. call' \in [Calls -> Call]
    BY <1>38, <1>b, <1>c DEF RemoteRefused, Call, PCs
  <2> QED BY <1>38, <2>1, <2>2, TxIdsAssumption DEF TypeOK, RemoteRefused, rowVars,
         csmsVars, linkVars
<1>38a. CASE RemoteKept(p)
  <2>1. row' \in Row
    BY <1>38a, <1>c DEF RemoteKept, rowVars
  <2>2. call' \in [Calls -> Call]
    BY <1>38a, <1>b, <1>c DEF RemoteKept, Goto, Call, PCs
  <2> QED BY <1>38a, <2>1, <2>2, TxIdsAssumption, <1>c DEF TypeOK, RemoteKept,
         rowVars, csmsVars, linkVars
<1>39. CASE RemoteAdoptRead(p)
  <2>1. row' \in Row
    BY <1>39, <1>c DEF RemoteAdoptRead, rowVars
  <2>2. call' \in [Calls -> Call]
    BY <1>39, <1>b, <1>c, <1>r DEF RemoteAdoptRead, Call, PCs
  <2> QED BY <1>39, <2>1, <2>2, TxIdsAssumption, <1>c DEF TypeOK, RemoteAdoptRead,
         rowVars, csmsVars, linkVars
<1>40. CASE RemoteAdopt(p)
  <2>0. clock' \in Nat
    BY <1>40, <1>c, <1>d DEF RemoteAdopt
  <2>1. row' \in Row
    BY <1>40, <1>c, <1>f DEF RemoteAdopt, LaterOf, Row, Statuses
  <2>2. call' \in [Calls -> Call]
    BY <1>40, <1>l DEF RemoteAdopt
  <2> QED BY <1>40, <2>0, <2>1, <2>2, TxIdsAssumption DEF TypeOK, RemoteAdopt,
         rowVars, csmsVars, linkVars
<1>41. CASE RemoteStopSent(p)
  <2>1. row' \in Row
    BY <1>41, <1>c DEF RemoteStopSent, rowVars
  <2>2. call' \in [Calls -> Call]
    BY <1>41, <1>b, <1>c DEF RemoteStopSent, Call, PCs
  <2> QED BY <1>41, <2>1, <2>2, TxIdsAssumption DEF TypeOK, RemoteStopSent, rowVars,
         csmsVars, linkVars
<1> QED BY <1>1, <1>2, <1>3, <1>4, <1>5, <1>6, <1>7, <1>8, <1>9, <1>10, <1>11,
       <1>12, <1>13, <1>14, <1>15, <1>16, <1>17, <1>18, <1>19, <1>20, <1>21, <1>22,
       <1>23, <1>24, <1>25, <1>26, <1>27, <1>28, <1>29, <1>30, <1>31, <1>32, <1>33,
       <1>34, <1>35, <1>36, <1>37, <1>38, <1>38a, <1>39, <1>40, <1>41 DEF BeginRequest, Step

\* So do the steps of the surroundings.
LEMMA TypeEnvironment == TypeOK /\ Environment => TypeOK'
<1> SUFFICES ASSUME TypeOK, Environment PROVE TypeOK'
  OBVIOUS
<1>c. row \in Row /\ clock \in Nat /\ horizon \in Nat /\ call \in [Calls -> Call]
  BY DEF TypeOK
<1>1. CASE TimePasses
  <2>1. horizon' \in Nat
    BY <1>1, <1>c DEF TimePasses
  <2> QED BY <1>1, <2>1 DEF TypeOK, TimePasses, rowVars, linkVars, csmsVars
<1>2. CASE LinkUp
  BY <1>2 DEF TypeOK, LinkUp, rowVars, csmsVars
<1>3. CASE LinkDown
  BY <1>3 DEF TypeOK, LinkDown, rowVars, csmsVars
<1>4. CASE Deliver
  <2>1. outbox' \in Seq(Message)
    BY <1>4 DEF Deliver, TypeOK
  <2>2. open' \subseteq TxIds /\ issued' \subseteq TxIds
    BY <1>4 DEF Deliver, TypeOK
  <2> QED BY <1>4, <2>1, <2>2 DEF TypeOK, Deliver, rowVars, linkVars
<1>5. CASE Crash
  <2>1. call' \in [Calls -> Call]
    BY <1>5, IdleType DEF Crash
  <2> QED BY <1>5, <2>1 DEF TypeOK, Crash, csmsVars
<1>6. CASE CreateEntry
  <2>1. row' \in Row
    BY <1>6, <1>c, ReleasedType DEF CreateEntry, Statuses
  <2> QED BY <1>6, <2>1 DEF TypeOK, CreateEntry, csmsVars
<1> QED BY <1>1, <1>2, <1>3, <1>4, <1>5, <1>6 DEF Environment

\* The initial state is well typed.
LEMMA TypeInit == Init => TypeOK
  BY FreshRowType, IdleType DEF Init, TypeOK

\* Every variable has its type in every reachable state (TypeOK), for any requests,
\* tags, transaction ids and faults.
THEOREM TypeCorrect == Spec => []TypeOK
<1>1. Init => TypeOK
  BY TypeInit
<1>2. TypeOK /\ [Next]_vars => TypeOK'
  <2>1. CASE UNCHANGED vars
    BY <2>1 DEF TypeOK, vars
  <2>2. CASE Environment
    BY <2>2, TypeEnvironment
  <2>3. CASE \E p \in Calls : Poll(p) \/ TimerFires(p) \/ BeginRequest(p) \/ Step(p)
    BY <2>3, TypeRequest
  <2> QED BY <2>1, <2>2, <2>3 DEF Next
<1> QED BY <1>1, <1>2, PTL DEF Spec

-----------------------------------------------------------------------------
\* From a matching claim to the end of the attempt (connector-sessions.ts:325-427).
ClaimPCs == {"claimed", "call", "accepted", "rejected", "adopted", "closeLost", "promote"}

\* The requests that run stopChargingSession.
StopOps == {"stop", "remoteStop", "release"}

\* What a request has made sure of by the place it has reached: it starts with a
\* tag, it adopts a transaction the CSMS named, it promotes under a local id above
\* zero, it stops with a stoppedAt, and it claims a session that was there.
Prepared(c) ==
    /\ c.op \in {"start", "remoteStart", "remoteWait"} => c.tag # NoTag
    /\ c.pc \in {"remoteCall", "remoteAccepted", "remoteKept", "remoteAdopt"}
          => c.op = "remoteWait"
    /\ c.pc = "clear" => c.op \in StopOps
    /\ c.pc \in {"accepted", "closeLost", "remoteAccepted", "remoteKept", "remoteAdopt"}
          => c.tx # 0
    /\ c.pc \in ClaimPCs => c.local # 0
    /\ c.pc \in {"arm", "clear"} /\ c.op \in StopOps => c.att # 0
    /\ c.pc = "claim" => c.s.activeStartedAt # 0

\* Every request carries what it needs.
RequestsPrepared == \A p \in Calls : Prepared(call[p])

\* A request that moves to a prepared record leaves all of them prepared.
LEMMA BecomesPrepared ==
    ASSUME TypeOK, RequestsPrepared, NEW p \in Calls, NEW c, Prepared(c), Becomes(p, c)
    PROVE  RequestsPrepared'
<1>1. \A q \in Calls : call'[q] = IF q = p THEN c ELSE call[q]
  BY DEF TypeOK, Becomes
<1>2. \A q \in Calls : Prepared(call'[q])
  BY <1>1 DEF RequestsPrepared
<1> QED BY <1>2 DEF RequestsPrepared, Prepared

\* A request that is not running, lists, or releases is prepared.
LEMMA IdlePrepared ==
    /\ Prepared(Idle)
    /\ Prepared([Idle EXCEPT !.op = "poll", !.pc = "read"])
    /\ Prepared([Idle EXCEPT !.op = "release", !.pc = "read"])
  BY DEF Prepared, Idle, ClaimPCs, StopOps

\* Every step of a request keeps the requests prepared.
LEMMA PreparedRequest ==
    ASSUME TypeOK, RequestsPrepared, NEW p \in Calls,
           Poll(p) \/ TimerFires(p) \/ BeginRequest(p) \/ Step(p)
    PROVE  RequestsPrepared'
<1>c. call[p] \in Call /\ Prepared(call[p])
  BY DEF TypeOK, RequestsPrepared
<1>n. Now # 0 /\ (call[p].s.transactionCounter \in Nat => NextLocalId(call[p].s) # 0)
  BY DEF TypeOK, Now, NextLocalId
<1>s. call[p].s.transactionCounter \in Nat
  BY CallFields, RowFields
<1>b. \A c : Becomes(p, c) /\ Prepared(c) => RequestsPrepared'
  BY BecomesPrepared
<1>l. (Return(p) \/ List(p) \/ Release(p)) => RequestsPrepared'
  BY <1>b, IdlePrepared DEF Return, List, Release
<1>h. Again(p) => RequestsPrepared'
  BY <1>b, <1>c DEF Again, Prepared, Call, ClaimPCs
<1>1. CASE Poll(p)
  BY <1>1, <1>b, <1>l, <1>h, <1>c DEF Poll, At, Prepared, Call, ClaimPCs, StopOps
<1>2. CASE TimerFires(p)
  BY <1>2, <1>b, <1>l, <1>h, <1>c DEF TimerFires, At, Prepared, Call, ClaimPCs,
    StopOps
<1>3. CASE BeginStart(p)
  BY <1>3, <1>b, <1>l, <1>h, <1>c, TagsAssumption DEF BeginStart, Begin, Idle, At,
    Prepared, Call, ClaimPCs, StopOps
<1>4. CASE BeginRemoteStart(p)
  BY <1>4, <1>b, <1>l, <1>h, <1>c, TagsAssumption DEF BeginRemoteStart, Begin, Idle,
    At, Prepared, Call, ClaimPCs, StopOps
<1>5. CASE BeginRemoteStop(p)
  BY <1>5, <1>b, <1>l, <1>h, <1>c, TagsAssumption DEF BeginRemoteStop, Begin, Idle,
    At, Prepared, Call, ClaimPCs, StopOps
<1>6. CASE BeginStop(p)
  BY <1>6, <1>b, <1>l, <1>h, <1>c, TagsAssumption DEF BeginStop, Begin, Idle, At,
    Prepared, Call, ClaimPCs, StopOps
<1>7. CASE BeginOther(p)
  BY <1>7, <1>b, <1>l, <1>h, <1>c, TagsAssumption DEF BeginOther, Begin, Idle, At,
    Prepared, Call, ClaimPCs, StopOps
<1>8. CASE BeginClearFault(p)
  BY <1>8, <1>b, <1>l, <1>h, <1>c, TagsAssumption DEF BeginClearFault, Begin, Idle,
    At, Prepared, Call, ClaimPCs, StopOps
<1>9. CASE Read(p)
  BY <1>9, <1>b, <1>l, <1>h, <1>c DEF Read, ResolveAt, ClaimDue, At, Prepared, Call,
    ClaimPCs, StopOps
<1>10. CASE Reread(p)
  BY <1>10, <1>b, <1>l, <1>h, <1>c DEF Reread, At, Prepared, Call, ClaimPCs, StopOps
<1>11. CASE Expire(p)
  BY <1>11, <1>b, <1>l, <1>h, <1>c DEF Expire, At, Prepared, Call, ClaimPCs, StopOps
<1>12. CASE FinishHold(p)
  BY <1>12, <1>b, <1>l, <1>h, <1>c DEF FinishHold, At, Prepared, Call, ClaimPCs,
    StopOps
<1>13. CASE Claim(p)
  BY <1>13, <1>b, <1>l, <1>h, <1>c, <1>n, <1>s DEF Claim, At, Prepared, Call,
    ClaimPCs, StopOps
<1>14. CASE ReadClaimed(p)
  BY <1>14, <1>b, <1>l, <1>h, <1>c DEF ReadClaimed, At, Prepared, Call, ClaimPCs,
    StopOps
<1>15. CASE StartAccepted(p)
  BY <1>15, <1>b, <1>l, <1>h, <1>c, TxIdsAssumption DEF StartAccepted, CsmsAccepts,
    At, Prepared, Call, ClaimPCs, StopOps
<1>16. CASE StartRejected(p)
  BY <1>16, <1>b, <1>l, <1>h, <1>c DEF StartRejected, Goto, At, Prepared, Call,
    ClaimPCs, StopOps
<1>17. CASE StartFails(p)
  BY <1>17, <1>b, <1>l, <1>h, <1>c DEF StartFails, At, Prepared, Call, ClaimPCs,
    StopOps
<1>18. CASE Reject(p)
  BY <1>18, <1>b, <1>l, <1>h, <1>c DEF Reject, At, Prepared, Call, ClaimPCs, StopOps
<1>19. CASE Adopt(p)
  BY <1>19, <1>b, <1>l, <1>h, <1>c DEF Adopt, Goto, At, Prepared, Call, ClaimPCs,
    StopOps
<1>20. CASE ReadAdopted(p)
  BY <1>20, <1>b, <1>l, <1>h, <1>c DEF ReadAdopted, At, Prepared, Call, ClaimPCs,
    StopOps
<1>21. CASE CloseLost(p)
  BY <1>21, <1>b, <1>l, <1>h, <1>c DEF CloseLost, At, Prepared, Call, ClaimPCs,
    StopOps
<1>22. CASE Promote(p)
  BY <1>22, <1>b, <1>l, <1>h, <1>c DEF Promote, At, Prepared, Call, ClaimPCs,
    StopOps
<1>23. CASE ListBody(p)
  BY <1>23, <1>b, <1>l, <1>h, <1>c DEF ListBody, ArmLater, Body, At, Prepared, Call,
    ClaimPCs, StopOps
<1>24. CASE StartBody(p)
  BY <1>24, <1>b, <1>l, <1>h, <1>c DEF StartBody, ArmLater, Body, At, Prepared,
    Call, ClaimPCs, StopOps
<1>25. CASE StartThrows(p)
  BY <1>25, <1>b, <1>l, <1>h, <1>c DEF StartThrows, Goto, Body, At, Prepared, Call,
    ClaimPCs, StopOps
<1>26. CASE ConnectEvBody(p)
  BY <1>26, <1>b, <1>l, <1>h, <1>c DEF ConnectEvBody, ArmLater, Body, At, Prepared,
    Call, ClaimPCs, StopOps
<1>27. CASE DisconnectEvBody(p)
  BY <1>27, <1>b, <1>l, <1>h, <1>c DEF DisconnectEvBody, Goto, At, Prepared, Call,
    ClaimPCs, StopOps
<1>28. CASE Unplugged(p)
  BY <1>28, <1>b, <1>l, <1>h, <1>c DEF Unplugged, At, Prepared, Call, ClaimPCs,
    StopOps
<1>29. CASE LockBody(p)
  BY <1>29, <1>b, <1>l, <1>h, <1>c DEF LockBody, At, Prepared, Call, ClaimPCs,
    StopOps
<1>30. CASE Arm(p)
  BY <1>30, <1>b, <1>l, <1>h, <1>c DEF Arm, IsStop, At, Prepared, Call, ClaimPCs,
    StopOps
<1>31. CASE ClearFault(p)
  BY <1>31, <1>b, <1>l, <1>h, <1>c DEF ClearFault, At, Prepared, Call, ClaimPCs,
    StopOps
<1>32. CASE StopThrows(p)
  BY <1>32, <1>b, <1>l, <1>h, <1>c DEF StopThrows, At, Prepared, Call, ClaimPCs,
    StopOps
<1>33. CASE StopNotify(p)
  BY <1>33, <1>b, <1>l, <1>h, <1>c, <1>n DEF StopNotify, IsStop, At, Prepared, Call,
    ClaimPCs, StopOps
<1>34. CASE StopClear(p)
  BY <1>34, <1>b, <1>l, <1>h, <1>c DEF StopClear, At, Prepared, Call, ClaimPCs,
    StopOps
<1>35. CASE RemoteWait(p)
  BY <1>35, <1>b, <1>l, <1>h, <1>c DEF RemoteWait, Goto, Body, At, Prepared, Call,
    ClaimPCs, StopOps
<1>36. CASE CancelRemote(p)
  BY <1>36, <1>b, <1>l, <1>h, <1>c DEF CancelRemote, At, Prepared, Call, ClaimPCs,
    StopOps
<1>37. CASE RemoteAccepted(p)
  BY <1>37, <1>b, <1>l, <1>h, <1>c, TxIdsAssumption DEF RemoteAccepted, CsmsAccepts,
    At, Prepared, Call, ClaimPCs, StopOps
<1>38. CASE RemoteRefused(p)
  BY <1>38, <1>b, <1>l, <1>h, <1>c DEF RemoteRefused, At, Prepared, Call, ClaimPCs,
    StopOps
<1>38a. CASE RemoteKept(p)
  BY <1>38a, <1>b, <1>l, <1>h, <1>c DEF RemoteKept, Goto, At, Prepared,
    Call, ClaimPCs, StopOps
<1>39. CASE RemoteAdoptRead(p)
  BY <1>39, <1>b, <1>l, <1>h, <1>c DEF RemoteAdoptRead, At, Prepared, Call,
    ClaimPCs, StopOps
<1>40. CASE RemoteAdopt(p)
  BY <1>40, <1>b, <1>l, <1>h, <1>c DEF RemoteAdopt, At, Prepared, Call, ClaimPCs,
    StopOps
<1>41. CASE RemoteStopSent(p)
  BY <1>41, <1>b, <1>l, <1>h, <1>c DEF RemoteStopSent, At, Prepared, Call, ClaimPCs,
    StopOps
<1> QED BY <1>1, <1>2, <1>3, <1>4, <1>5, <1>6, <1>7, <1>8, <1>9, <1>10, <1>11,
       <1>12, <1>13, <1>14, <1>15, <1>16, <1>17, <1>18, <1>19, <1>20, <1>21, <1>22,
       <1>23, <1>24, <1>25, <1>26, <1>27, <1>28, <1>29, <1>30, <1>31, <1>32, <1>33,
       <1>34, <1>35, <1>36, <1>37, <1>38, <1>38a, <1>39, <1>40, <1>41 DEF BeginRequest, Step

\* What is proved of the row.
WholeInv == SessionIsWhole /\ PreparingHasDeadline

\* A released row is whole.
LEMMA ReleasedWhole ==
    ASSUME NEW r \in Row, row' = Released(r, "Available")
    PROVE  WholeInv'
  BY DEF WholeInv, SessionIsWhole, FieldsAgree, ChargingHasTransaction,
    FinishingIsIdle,
         PreparingHasDeadline, Released, Row

\* The steps that do not write the row.
LEMMA RowUntouched ==
    ASSUME NEW p \in Calls,
           Poll(p) \/ TimerFires(p) \/ BeginRequest(p) \/ Step(p),
           ~(\/ Expire(p) \/ FinishHold(p) \/ Claim(p) \/ Reject(p) \/ Adopt(p) \/ Promote(p)
             \/ StartBody(p) \/ ConnectEvBody(p) \/ DisconnectEvBody(p) \/ Unplugged(p)
             \/ LockBody(p) \/ ClearFault(p) \/ StopClear(p) \/ CancelRemote(p)
             \/ RemoteAdopt(p))
    PROVE  UNCHANGED row
<1>1. CASE Poll(p)
  BY <1>1 DEF Poll, rowVars
<1>2. CASE TimerFires(p)
  BY <1>2 DEF TimerFires, rowVars
<1>3. CASE BeginStart(p)
  BY <1>3 DEF BeginStart, rowVars, Begin
<1>4. CASE BeginRemoteStart(p)
  BY <1>4 DEF BeginRemoteStart, rowVars, Begin
<1>5. CASE BeginRemoteStop(p)
  BY <1>5 DEF BeginRemoteStop, rowVars, Begin
<1>6. CASE BeginStop(p)
  BY <1>6 DEF BeginStop, rowVars, Begin
<1>7. CASE BeginOther(p)
  BY <1>7 DEF BeginOther, rowVars, Begin
<1>8. CASE BeginClearFault(p)
  BY <1>8 DEF BeginClearFault, rowVars, Begin
<1>9. CASE Read(p)
  BY <1>9 DEF Read, rowVars
<1>10. CASE Reread(p)
  BY <1>10 DEF Reread, rowVars
<1>11. CASE ReadClaimed(p)
  BY <1>11 DEF ReadClaimed, rowVars
<1>12. CASE StartAccepted(p)
  BY <1>12 DEF StartAccepted, rowVars
<1>13. CASE StartRejected(p)
  BY <1>13 DEF StartRejected, rowVars
<1>14. CASE StartFails(p)
  BY <1>14 DEF StartFails, rowVars
<1>15. CASE ReadAdopted(p)
  BY <1>15 DEF ReadAdopted, rowVars
<1>16. CASE CloseLost(p)
  BY <1>16 DEF CloseLost, rowVars
<1>17. CASE ListBody(p)
  BY <1>17 DEF ListBody, rowVars
<1>18. CASE StartThrows(p)
  BY <1>18 DEF StartThrows, rowVars
<1>19. CASE Arm(p)
  BY <1>19 DEF Arm, rowVars
<1>20. CASE StopThrows(p)
  BY <1>20 DEF StopThrows, rowVars
<1>21. CASE StopNotify(p)
  BY <1>21 DEF StopNotify, rowVars
<1>22. CASE RemoteWait(p)
  BY <1>22 DEF RemoteWait, rowVars
<1>23. CASE RemoteAccepted(p)
  BY <1>23 DEF RemoteAccepted, rowVars
<1>24. CASE RemoteRefused(p)
  BY <1>24 DEF RemoteRefused, rowVars
<1>24a. CASE RemoteKept(p)
  BY <1>24a DEF RemoteKept, rowVars
<1>25. CASE RemoteAdoptRead(p)
  BY <1>25 DEF RemoteAdoptRead, rowVars
<1>26. CASE RemoteStopSent(p)
  BY <1>26 DEF RemoteStopSent, rowVars
<1> QED BY <1>1, <1>2, <1>3, <1>4, <1>5, <1>6, <1>7, <1>8, <1>9, <1>10, <1>11,
       <1>12, <1>13, <1>14, <1>15, <1>16, <1>17, <1>18, <1>19, <1>20, <1>21, <1>22,
       <1>23, <1>24, <1>24a, <1>25, <1>26 DEF BeginRequest, Step

\* No write of a request, however old its snapshot, tears a session apart.
LEMMA WholeRequest ==
    ASSUME TypeOK, RequestsPrepared, WholeInv, NEW p \in Calls,
           Poll(p) \/ TimerFires(p) \/ BeginRequest(p) \/ Step(p)
    PROVE  WholeInv'
<1> USE DEF WholeInv, SessionIsWhole, FieldsAgree, ChargingHasTransaction, FinishingIsIdle,
            PreparingHasDeadline
<1>c. call[p] \in Call /\ row \in Row /\ call[p].s \in Row /\ Prepared(call[p]) /\ Now # 0
  BY DEF TypeOK, RequestsPrepared, Now, Call
<1>1. CASE Expire(p)
  BY <1>1, ReleasedWhole, <1>c DEF Expire
<1>2. CASE FinishHold(p)
  <2>1. CASE row.status = "Finishing"
    <3>1. PICK final \in {"Available", "Preparing"}, now \in Nat :
              /\ final = "Preparing" => now # 0
              /\ row' = [row EXCEPT !.status = final, !.locked = FALSE, !.finishingSince = 0,
                                    !.finishingNextStatus = "null", !.preparingSince = now]
      <4> DEFINE final == FinalStatus(call[p].s)
      <4>1. final \in {"Available", "Preparing"}
        BY <1>c DEF FinalStatus, Row
      <4>2. /\ SettledSince(final) \in Nat
            /\ final = "Preparing" => SettledSince(final) # 0
        BY <1>c DEF SettledSince, Now, TypeOK
      <4>3. row' = [row EXCEPT !.status = final, !.locked = FALSE, !.finishingSince = 0,
                               !.finishingNextStatus = "null",
                               !.preparingSince = SettledSince(final)]
        BY <1>2, <2>1 DEF FinishHold
      <4> QED BY <4>1, <4>2, <4>3
    <3> QED BY <2>1, <3>1, <1>c DEF Row
  <2>2. CASE row.status # "Finishing"
    BY <1>2, <2>2 DEF FinishHold
  <2> QED BY <2>1, <2>2
<1>3. CASE Claim(p)
  BY <1>3, <1>c DEF Claim, ClaimMatches, At, Prepared, Row
<1>4. CASE Reject(p)
  BY <1>4, ReleasedWhole, <1>c DEF Reject
<1>5. CASE Adopt(p)
  BY <1>5, <1>c DEF Adopt, StillClaimed, Row
<1>6. CASE Promote(p)
  BY <1>6, <1>c DEF Promote, StillClaimed, PromotedTransaction, At, Prepared,
    ClaimPCs, Row
<1>7. CASE StartBody(p)
  BY <1>7, <1>c DEF StartBody, Body, Prepared, WindowStart, ReadyToStart, Row
<1>8. CASE ConnectEvBody(p)
  <2>1. \/ UNCHANGED row
        \/ row' = [row EXCEPT !.evConnected = TRUE]
        \/ row' = [row EXCEPT !.evConnected = TRUE, !.status = "Preparing",
                              !.preparingSince = Now]
    BY <1>8 DEF ConnectEvBody
  <2>2. CASE row' = [row EXCEPT !.evConnected = TRUE]
    BY <2>2, <1>c DEF Row
  <2>3. CASE row' = [row EXCEPT !.evConnected = TRUE, !.status = "Preparing",
                                !.preparingSince = Now]
    BY <2>3, <1>c DEF Row
  <2> QED BY <2>1, <2>2, <2>3
<1>9. CASE DisconnectEvBody(p)
  BY <1>9, <1>c DEF DisconnectEvBody, Row
<1>10. CASE Unplugged(p)
  BY <1>10, <1>c DEF Unplugged, Row
<1>11. CASE LockBody(p)
  BY <1>11, <1>c DEF LockBody, Row
<1>12. CASE ClearFault(p)
  BY <1>12, <1>c DEF ClearFault, Row
<1>13. CASE StopClear(p)
  BY <1>13, <1>c DEF StopClear, At, Prepared, StopOps, Released, Row
<1>14. CASE CancelRemote(p)
  BY <1>14, ReleasedWhole, <1>c DEF CancelRemote
<1>15. CASE RemoteAdopt(p)
  BY <1>15, <1>c DEF RemoteAdopt, At, Prepared, Row
<1>90. CASE UNCHANGED row
  BY <1>90
<1> QED BY <1>1, <1>2, <1>3, <1>4, <1>5, <1>6, <1>7, <1>8, <1>9, <1>10, <1>11,
       <1>12, <1>13, <1>14, <1>15, <1>90, RowUntouched

\* The surroundings release the row or leave it alone.
LEMMA WholeEnvironment ==
    ASSUME TypeOK, RequestsPrepared, WholeInv, Environment
    PROVE  RequestsPrepared' /\ WholeInv'
<1>1. CASE UNCHANGED <<row, call>>
  BY <1>1 DEF RequestsPrepared, Prepared, WholeInv, SessionIsWhole, FieldsAgree,
              ChargingHasTransaction, FinishingIsIdle, PreparingHasDeadline
<1>2. CASE Crash
  <2>1. UNCHANGED row /\ \A q \in Calls : call'[q] = Idle
    BY <1>2 DEF Crash
  <2>2. RequestsPrepared'
    BY <2>1, IdlePrepared DEF RequestsPrepared, Prepared
  <2>3. WholeInv'
    BY <2>1 DEF WholeInv, SessionIsWhole, FieldsAgree, ChargingHasTransaction,
                FinishingIsIdle, PreparingHasDeadline
  <2> QED BY <2>2, <2>3
<1>3. CASE CreateEntry
  <2>1. UNCHANGED call
    BY <1>3 DEF CreateEntry
  <2>2. CASE UNCHANGED row
    BY <2>1, <2>2, <1>1
  <2>3. CASE row' = Released(row, "Available")
    <3>1. WholeInv'
      BY <2>3, ReleasedWhole DEF TypeOK
    <3>2. RequestsPrepared'
      BY <2>1 DEF RequestsPrepared, Prepared
    <3> QED BY <3>1, <3>2
  <2> QED BY <1>3, <2>2, <2>3 DEF CreateEntry
<1>4. TimePasses \/ LinkUp \/ LinkDown \/ Deliver => UNCHANGED <<row, call>>
  BY DEF TimePasses, LinkUp, LinkDown, Deliver, rowVars
<1> QED BY <1>1, <1>2, <1>3, <1>4 DEF Environment

\* The inductive invariant of this module.
RowInv == TypeOK /\ RequestsPrepared /\ WholeInv

\* It holds at first,
LEMMA RowInvInit == Init => RowInv
<1> SUFFICES ASSUME Init PROVE RowInv
  OBVIOUS
<1>1. RequestsPrepared
  BY IdlePrepared DEF Init, RequestsPrepared
<1>2. WholeInv
  BY DEF Init, WholeInv, SessionIsWhole, FieldsAgree, ChargingHasTransaction,
         FinishingIsIdle, PreparingHasDeadline, FreshRow
<1> QED BY <1>1, <1>2, TypeInit DEF RowInv

\* and every step keeps it.
LEMMA RowInvStep == RowInv /\ [Next]_vars => RowInv'
<1> SUFFICES ASSUME RowInv, [Next]_vars PROVE RowInv'
  OBVIOUS
<1>1. CASE \E p \in Calls : Poll(p) \/ TimerFires(p) \/ BeginRequest(p) \/ Step(p)
  BY <1>1, TypeRequest, PreparedRequest, WholeRequest DEF RowInv
<1>2. CASE Environment
  BY <1>2, TypeEnvironment, WholeEnvironment DEF RowInv
<1>3. CASE UNCHANGED vars
  BY <1>3 DEF RowInv, TypeOK, RequestsPrepared, Prepared, WholeInv, SessionIsWhole,
              FieldsAgree, ChargingHasTransaction, FinishingIsIdle,
              PreparingHasDeadline, vars
<1> QED BY <1>1, <1>2, <1>3 DEF Next

\* The row is well formed and every request prepared in every reachable state.
THEOREM RowInvCorrect == Spec => []RowInv
  BY RowInvInit, RowInvStep, PTL DEF Spec

\* However many requests run and however old their snapshots, a session's fields stand
\* or fall together (SessionIsWhole; the writes of connector-sessions.ts).
THEOREM SessionStaysWhole == Spec => []SessionIsWhole
<1>1. RowInv => SessionIsWhole
  BY DEF RowInv, WholeInv
<1> QED BY <1>1, RowInvCorrect, PTL

\* A connector never becomes Preparing without a deadline (PreparingHasDeadline).
THEOREM PreparingKeepsDeadline == Spec => []PreparingHasDeadline
<1>1. RowInv => PreparingHasDeadline
  BY DEF RowInv, WholeInv
<1> QED BY <1>1, RowInvCorrect, PTL

-----------------------------------------------------------------------------
(* What the CSMS is told *)

\* p has claimed an attempt and is not done with it.
Owns(p) == call[p].pc \in ClaimPCs

\* The row still holds the attempt p has claimed.
Holds(p) == Owns(p) /\ call[p].att = row.activeStartedAt

\* A StartTransaction was sent for this attempt: if the row holds it, it is claimed.
StartedBefore(i) ==
    /\ started[i] # 0 /\ started[i] <= clock
    /\ started[i] = row.activeStartedAt => row.activeStartPending

\* A claimed attempt is one of its own, pending while the row holds it, and not yet
\* reported while its owner is about to report it.
OwnedAttempt(p) ==
    /\ call[p].att # 0 /\ call[p].att <= clock
    /\ call[p].att = row.activeStartedAt => row.activeStartPending
    /\ At(p, "claimed") => \A i \in DOMAIN started : started[i] # call[p].att

\* Why an attempt is reported once: it has one owner, its timestamp is not used
\* again, and only a connector that nobody has claimed can be claimed.
OwnersInv ==
    /\ row.activeStartedAt <= clock
    /\ \A i \in DOMAIN started : StartedBefore(i)
    /\ \A p \in Calls : Owns(p) => OwnedAttempt(p)
    /\ \A p, q \in Calls : Owns(p) /\ Owns(q) /\ call[p].att = call[q].att => p = q
    /\ OneStartPerAttempt

\* No request comes to own an attempt in this step.
NoNewOwner ==
    \A q \in Calls : Owns(q)' => /\ Owns(q) /\ call'[q].att = call[q].att
                                 /\ At(q, "claimed")' => At(q, "claimed")

\* The row keeps its attempt, and its claim if it has one;
AttemptStays ==
    /\ row'.activeStartedAt = row.activeStartedAt
    /\ row.activeStartPending => row'.activeStartPending
    /\ clock' = clock \/ clock' = Now

\* it keeps the transaction as well;
SessionStays ==
    /\ AttemptStays
    /\ row'.activeIsRemote = row.activeIsRemote
    /\ row'.activeTransactionId = row.activeTransactionId

\* it loses the attempt;
AttemptEnds == row'.activeStartedAt = 0 /\ ~row'.activeIsRemote /\ clock' = clock

\* it gets one of its own.
AttemptIsNew == row'.activeStartedAt = Now /\ clock' = Now

\* A request that moves on within its claim, or out of it, is no new owner.
LEMMA BecomesOwner ==
    ASSUME TypeOK, NEW p \in Calls, NEW c, Becomes(p, c), c.pc # "claimed",
           c.pc \in ClaimPCs => Owns(p) /\ c.att = call[p].att
    PROVE  NoNewOwner
<1>1. /\ \A q \in Calls \ {p} : call'[q] = call[q]
      /\ call'[p] = c
  BY DEF TypeOK, Becomes
<1> QED BY <1>1 DEF NoNewOwner, Owns, At

\* Steps that report nothing and claim nothing keep OwnersInv, whatever they do to
\* the attempt.
LEMMA OwnersStay ==
    ASSUME TypeOK, OwnersInv, NoNewOwner, started' = started,
           AttemptStays \/ AttemptEnds \/ AttemptIsNew
    PROVE  OwnersInv'
<1>n. clock \in Nat /\ row.activeStartedAt \in Nat /\ (\A q \in Calls : call[q].att \in Nat)
      /\ started \in Seq(Nat)
  BY DEF TypeOK, Row, Call
<1>m. clock' \in Nat /\ clock <= clock' /\ row'.activeStartedAt <= clock'
  BY <1>n DEF AttemptStays, AttemptEnds, AttemptIsNew, Now, OwnersInv
<1>e. \A n \in Nat : n # 0 /\ n <= clock /\ (n = row.activeStartedAt => row.activeStartPending)
          => n <= clock' /\ (n = row'.activeStartedAt => row'.activeStartPending)
  BY <1>n, <1>m DEF AttemptStays, AttemptEnds, AttemptIsNew, Now
<1>1. \A i \in DOMAIN started : StartedBefore(i)'
  BY <1>e, <1>n DEF OwnersInv, StartedBefore
<1>2. ASSUME NEW q \in Calls, Owns(q)' PROVE OwnedAttempt(q)'
  <2>1. Owns(q) /\ call'[q].att = call[q].att /\ (At(q, "claimed")' => At(q, "claimed"))
    BY <1>2 DEF NoNewOwner
  <2>2. OwnedAttempt(q)
    BY <2>1 DEF OwnersInv
  <2> QED BY <2>1, <2>2, <1>e, <1>n DEF OwnedAttempt
<1>3. \A q, r \in Calls : Owns(q)' /\ Owns(r)' /\ call'[q].att = call'[r].att => q = r
  BY DEF OwnersInv, NoNewOwner
<1>4. OneStartPerAttempt'
  BY DEF OwnersInv, OneStartPerAttempt
<1> QED BY <1>m, <1>1, <1>2, <1>3, <1>4 DEF OwnersInv

\* Each step of a request does one of four things to the row's attempt.
LEMMA RowSteps ==
    ASSUME TypeOK, NEW p \in Calls,
           Poll(p) \/ TimerFires(p) \/ BeginRequest(p) \/ Step(p)
    PROVE  \/ SessionStays \/ AttemptEnds \/ AttemptIsNew
           \/ Adopt(p) /\ AttemptStays
<1>c. call[p] \in Call /\ row \in Row /\ call[p].s \in Row /\ call \in [Calls -> Call]
      /\ started \in Seq(Nat) /\ clock \in Nat
  BY DEF TypeOK, Call
<1>1. CASE Poll(p)
  BY <1>1, <1>c DEF Poll, SessionStays, AttemptStays, rowVars
<1>2. CASE TimerFires(p)
  BY <1>2, <1>c DEF TimerFires, SessionStays, AttemptStays, rowVars
<1>3. CASE BeginStart(p)
  BY <1>3, <1>c DEF BeginStart, SessionStays, AttemptStays, rowVars, Begin
<1>4. CASE BeginRemoteStart(p)
  BY <1>4, <1>c DEF BeginRemoteStart, SessionStays, AttemptStays, rowVars, Begin
<1>5. CASE BeginRemoteStop(p)
  BY <1>5, <1>c DEF BeginRemoteStop, SessionStays, AttemptStays, rowVars, Begin
<1>6. CASE BeginStop(p)
  BY <1>6, <1>c DEF BeginStop, SessionStays, AttemptStays, rowVars, Begin
<1>7. CASE BeginOther(p)
  BY <1>7, <1>c DEF BeginOther, SessionStays, AttemptStays, rowVars, Begin
<1>8. CASE BeginClearFault(p)
  BY <1>8, <1>c DEF BeginClearFault, SessionStays, AttemptStays, rowVars, Begin
<1>9. CASE Read(p)
  BY <1>9, <1>c DEF Read, SessionStays, AttemptStays, rowVars
<1>10. CASE Reread(p)
  BY <1>10, <1>c DEF Reread, SessionStays, AttemptStays, rowVars
<1>11. CASE Expire(p)
  BY <1>11, <1>c DEF Expire, SessionStays, AttemptStays, AttemptEnds, AttemptIsNew,
    Row, Released
<1>12. CASE FinishHold(p)
  BY <1>12, <1>c DEF FinishHold, SessionStays, AttemptStays, AttemptEnds,
    AttemptIsNew, Row, SettledSince
<1>13. CASE Claim(p)
  BY <1>13, <1>c DEF Claim, SessionStays, AttemptStays, AttemptEnds, AttemptIsNew,
    Row
<1>14. CASE ReadClaimed(p)
  BY <1>14, <1>c DEF ReadClaimed, SessionStays, AttemptStays, rowVars
<1>15. CASE StartAccepted(p)
  BY <1>15, <1>c DEF StartAccepted, SessionStays, AttemptStays, rowVars
<1>16. CASE StartRejected(p)
  BY <1>16, <1>c DEF StartRejected, SessionStays, AttemptStays, rowVars
<1>17. CASE StartFails(p)
  BY <1>17, <1>c DEF StartFails, SessionStays, AttemptStays, rowVars
<1>18. CASE Reject(p)
  BY <1>18, <1>c DEF Reject, SessionStays, AttemptStays, AttemptEnds, AttemptIsNew,
    Row, Released
<1>19. CASE Adopt(p)
  BY <1>19, <1>c DEF Adopt, SessionStays, AttemptStays, AttemptEnds, AttemptIsNew,
    Row
<1>20. CASE ReadAdopted(p)
  BY <1>20, <1>c DEF ReadAdopted, SessionStays, AttemptStays, rowVars
<1>21. CASE CloseLost(p)
  BY <1>21, <1>c DEF CloseLost, SessionStays, AttemptStays, rowVars
<1>22. CASE Promote(p)
  BY <1>22, <1>c DEF Promote, SessionStays, AttemptStays, AttemptEnds, AttemptIsNew,
    Row
<1>23. CASE ListBody(p)
  BY <1>23, <1>c DEF ListBody, SessionStays, AttemptStays, rowVars
<1>24. CASE StartBody(p)
  BY <1>24, <1>c DEF StartBody, SessionStays, AttemptStays, AttemptEnds,
    AttemptIsNew, Row
<1>25. CASE StartThrows(p)
  BY <1>25, <1>c DEF StartThrows, SessionStays, AttemptStays, rowVars
<1>26. CASE ConnectEvBody(p)
  BY <1>26, <1>c DEF ConnectEvBody, SessionStays, AttemptStays, AttemptEnds,
    AttemptIsNew, Row
<1>27. CASE DisconnectEvBody(p)
  BY <1>27, <1>c DEF DisconnectEvBody, SessionStays, AttemptStays, AttemptEnds,
    AttemptIsNew, Row
<1>28. CASE Unplugged(p)
  BY <1>28, <1>c DEF Unplugged, SessionStays, AttemptStays, AttemptEnds,
    AttemptIsNew, Row
<1>29. CASE LockBody(p)
  BY <1>29, <1>c DEF LockBody, SessionStays, AttemptStays, AttemptEnds,
    AttemptIsNew, Row
<1>30. CASE Arm(p)
  BY <1>30, <1>c DEF Arm, SessionStays, AttemptStays, rowVars
<1>31. CASE ClearFault(p)
  BY <1>31, <1>c DEF ClearFault, SessionStays, AttemptStays, AttemptEnds,
    AttemptIsNew, Row
<1>32. CASE StopThrows(p)
  BY <1>32, <1>c DEF StopThrows, SessionStays, AttemptStays, rowVars
<1>33. CASE StopNotify(p)
  BY <1>33, <1>c DEF StopNotify, SessionStays, AttemptStays, rowVars
<1>34. CASE StopClear(p)
  BY <1>34, <1>c DEF StopClear, SessionStays, AttemptStays, AttemptEnds,
    AttemptIsNew, Row, Released
<1>35. CASE RemoteWait(p)
  BY <1>35, <1>c DEF RemoteWait, SessionStays, AttemptStays, rowVars
<1>36. CASE CancelRemote(p)
  BY <1>36, <1>c DEF CancelRemote, SessionStays, AttemptStays, AttemptEnds,
    AttemptIsNew, Row, Released
<1>37. CASE RemoteAccepted(p)
  BY <1>37, <1>c DEF RemoteAccepted, SessionStays, AttemptStays, rowVars
<1>38. CASE RemoteRefused(p)
  BY <1>38, <1>c DEF RemoteRefused, SessionStays, AttemptStays, rowVars
<1>38a. CASE RemoteKept(p)
  BY <1>38a, <1>c DEF RemoteKept, SessionStays, AttemptStays, rowVars
<1>39. CASE RemoteAdoptRead(p)
  BY <1>39, <1>c DEF RemoteAdoptRead, SessionStays, AttemptStays, rowVars
<1>40. CASE RemoteAdopt(p)
  BY <1>40, <1>c DEF RemoteAdopt, SessionStays, AttemptStays, AttemptEnds,
    AttemptIsNew, Row
<1>41. CASE RemoteStopSent(p)
  BY <1>41, <1>c DEF RemoteStopSent, SessionStays, AttemptStays, rowVars
<1> QED BY <1>1, <1>2, <1>3, <1>4, <1>5, <1>6, <1>7, <1>8, <1>9, <1>10, <1>11,
       <1>12, <1>13, <1>14, <1>15, <1>16, <1>17, <1>18, <1>19, <1>20, <1>21, <1>22,
       <1>23, <1>24, <1>25, <1>26, <1>27, <1>28, <1>29, <1>30, <1>31, <1>32, <1>33,
       <1>34, <1>35, <1>36, <1>37, <1>38, <1>38a, <1>39, <1>40, <1>41 DEF BeginRequest, Step

\* Only a claim that matches makes an owner.
LEMMA OwnerSteps ==
    ASSUME TypeOK, NEW p \in Calls,
           Poll(p) \/ TimerFires(p) \/ BeginRequest(p) \/ Step(p),
           ~(Claim(p) /\ ClaimMatches(p))
    PROVE  NoNewOwner
<1>c. call[p] \in Call /\ row \in Row /\ call[p].s \in Row /\ call \in [Calls -> Call]
      /\ started \in Seq(Nat) /\ clock \in Nat
  BY DEF TypeOK, Call
<1>b. \A c : /\ Becomes(p, c) /\ c.pc # "claimed"
             /\ c.pc \in ClaimPCs => Owns(p) /\ c.att = call[p].att
             => NoNewOwner
  BY BecomesOwner
<1>l. (Return(p) \/ List(p) \/ Release(p) \/ Again(p))
          => NoNewOwner
  BY <1>b, <1>c DEF Return, List, Release, Idle, Again, Call, ClaimPCs
<1>1. CASE Poll(p)
  BY <1>1, <1>b, <1>l, <1>c DEF Poll, Call, ClaimPCs
<1>2. CASE TimerFires(p)
  BY <1>2, <1>b, <1>l, <1>c DEF TimerFires, Call, ClaimPCs
<1>3. CASE BeginStart(p)
  BY <1>3, <1>b, <1>l, <1>c DEF BeginStart, Begin, Idle, Call, ClaimPCs
<1>4. CASE BeginRemoteStart(p)
  BY <1>4, <1>b, <1>l, <1>c DEF BeginRemoteStart, Begin, Idle, Call, ClaimPCs
<1>5. CASE BeginRemoteStop(p)
  BY <1>5, <1>b, <1>l, <1>c DEF BeginRemoteStop, Begin, Idle, Call, ClaimPCs
<1>6. CASE BeginStop(p)
  BY <1>6, <1>b, <1>l, <1>c DEF BeginStop, Begin, Idle, Call, ClaimPCs
<1>7. CASE BeginOther(p)
  BY <1>7, <1>b, <1>l, <1>c DEF BeginOther, Begin, Idle, Call, ClaimPCs
<1>8. CASE BeginClearFault(p)
  BY <1>8, <1>b, <1>l, <1>c DEF BeginClearFault, Begin, Idle, Call, ClaimPCs
<1>9. CASE Read(p)
  BY <1>9, <1>b, <1>l, <1>c DEF Read, ResolveAt, Call, ClaimPCs
<1>10. CASE Reread(p)
  BY <1>10, <1>b, <1>l, <1>c DEF Reread, Call, ClaimPCs
<1>11. CASE Expire(p)
  BY <1>11, <1>b, <1>l, <1>c DEF Expire, Call, ClaimPCs
<1>12. CASE FinishHold(p)
  BY <1>12, <1>b, <1>l, <1>c DEF FinishHold, Call, ClaimPCs
<1>13. CASE Claim(p)
  BY <1>13, <1>l DEF Claim
<1>14. CASE ReadClaimed(p)
  <2>1. PICK pc \in {"call", "promote"} :
            Becomes(p, [call[p] EXCEPT !.s = row, !.pc = pc])
    BY <1>14 DEF ReadClaimed
  <2>2. /\ [call[p] EXCEPT !.s = row, !.pc = pc].pc # "claimed"
        /\ [call[p] EXCEPT !.s = row, !.pc = pc].att = call[p].att
    BY <1>c DEF Call
  <2>3. Owns(p)
    BY <1>14 DEF ReadClaimed, At, Owns, ClaimPCs
  <2> QED BY <2>1, <2>2, <2>3, <1>b, <1>c DEF Becomes
<1>15. CASE StartAccepted(p)
  BY <1>15, <1>b, <1>l, <1>c DEF StartAccepted, CsmsAccepts, Owns, At, Call,
    ClaimPCs
<1>16. CASE StartRejected(p)
  BY <1>16, <1>b, <1>l, <1>c DEF StartRejected, Goto, Owns, At, Call, ClaimPCs
<1>17. CASE StartFails(p)
  BY <1>17, <1>b, <1>l, <1>c DEF StartFails, Owns, At, Call, ClaimPCs
<1>18. CASE Reject(p)
  BY <1>18, <1>b, <1>l, <1>c DEF Reject, Call, ClaimPCs
<1>19. CASE Adopt(p)
  BY <1>19, <1>b, <1>l, <1>c DEF Adopt, Goto, Owns, At, Call, ClaimPCs
<1>20. CASE ReadAdopted(p)
  BY <1>20, <1>b, <1>l, <1>c DEF ReadAdopted, Owns, At, Call, ClaimPCs
<1>21. CASE CloseLost(p)
  BY <1>21, <1>b, <1>l, <1>c DEF CloseLost, Call, ClaimPCs
<1>22. CASE Promote(p)
  BY <1>22, <1>b, <1>l, <1>c DEF Promote, Call, ClaimPCs
<1>23. CASE ListBody(p)
  BY <1>23, <1>b, <1>l, <1>c DEF ListBody, ArmLater, Call, ClaimPCs
<1>24. CASE StartBody(p)
  BY <1>24, <1>b, <1>l, <1>c DEF StartBody, ArmLater, Call, ClaimPCs
<1>25. CASE StartThrows(p)
  BY <1>25, <1>b, <1>l, <1>c DEF StartThrows, Goto, Call, ClaimPCs
<1>26. CASE ConnectEvBody(p)
  BY <1>26, <1>b, <1>l, <1>c DEF ConnectEvBody, ArmLater, Call, ClaimPCs
<1>27. CASE DisconnectEvBody(p)
  BY <1>27, <1>b, <1>l, <1>c DEF DisconnectEvBody, Goto, Call, ClaimPCs
<1>28. CASE Unplugged(p)
  BY <1>28, <1>b, <1>l, <1>c DEF Unplugged, Call, ClaimPCs
<1>29. CASE LockBody(p)
  BY <1>29, <1>b, <1>l, <1>c DEF LockBody, Call, ClaimPCs
<1>30. CASE Arm(p)
  BY <1>30, <1>b, <1>l, <1>c DEF Arm, Call, ClaimPCs
<1>31. CASE ClearFault(p)
  BY <1>31, <1>b, <1>l, <1>c DEF ClearFault, Call, ClaimPCs
<1>32. CASE StopThrows(p)
  BY <1>32, <1>b, <1>l, <1>c DEF StopThrows, Call, ClaimPCs
<1>33. CASE StopNotify(p)
  BY <1>33, <1>b, <1>l, <1>c DEF StopNotify, Call, ClaimPCs
<1>34. CASE StopClear(p)
  BY <1>34, <1>b, <1>l, <1>c DEF StopClear, Call, ClaimPCs
<1>35. CASE RemoteWait(p)
  BY <1>35, <1>b, <1>l, <1>c DEF RemoteWait, Goto, Call, ClaimPCs
<1>36. CASE CancelRemote(p)
  BY <1>36, <1>b, <1>l, <1>c DEF CancelRemote, Call, ClaimPCs
<1>37. CASE RemoteAccepted(p)
  BY <1>37, <1>b, <1>l, <1>c DEF RemoteAccepted, CsmsAccepts, Call, ClaimPCs
<1>38. CASE RemoteRefused(p)
  BY <1>38, <1>b, <1>l, <1>c DEF RemoteRefused, Call, ClaimPCs
<1>38a. CASE RemoteKept(p)
  BY <1>38a, <1>b, <1>l, <1>c DEF RemoteKept, Goto, Call, ClaimPCs
<1>39. CASE RemoteAdoptRead(p)
  BY <1>39, <1>b, <1>l, <1>c DEF RemoteAdoptRead, Call, ClaimPCs
<1>40. CASE RemoteAdopt(p)
  BY <1>40, <1>b, <1>l, <1>c DEF RemoteAdopt, Call, ClaimPCs
<1>41. CASE RemoteStopSent(p)
  BY <1>41, <1>b, <1>l, <1>c DEF RemoteStopSent, Call, ClaimPCs
<1> QED BY <1>1, <1>2, <1>3, <1>4, <1>5, <1>6, <1>7, <1>8, <1>9, <1>10, <1>11,
       <1>12, <1>13, <1>14, <1>15, <1>16, <1>17, <1>18, <1>19, <1>20, <1>21, <1>22,
       <1>23, <1>24, <1>25, <1>26, <1>27, <1>28, <1>29, <1>30, <1>31, <1>32, <1>33,
       <1>34, <1>35, <1>36, <1>37, <1>38, <1>38a, <1>39, <1>40, <1>41 DEF BeginRequest, Step

\* Only the step after the claim reports.
LEMMA StartedSteps ==
    ASSUME NEW p \in Calls,
           Poll(p) \/ TimerFires(p) \/ BeginRequest(p) \/ Step(p)
    PROVE  started' = started \/ ReadClaimed(p)
<1>1. CASE Poll(p)
  BY <1>1 DEF Poll
<1>2. CASE TimerFires(p)
  BY <1>2 DEF TimerFires
<1>3. CASE BeginStart(p)
  BY <1>3 DEF BeginStart, Begin
<1>4. CASE BeginRemoteStart(p)
  BY <1>4 DEF BeginRemoteStart, Begin
<1>5. CASE BeginRemoteStop(p)
  BY <1>5 DEF BeginRemoteStop, Begin
<1>6. CASE BeginStop(p)
  BY <1>6 DEF BeginStop, Begin
<1>7. CASE BeginOther(p)
  BY <1>7 DEF BeginOther, Begin
<1>8. CASE BeginClearFault(p)
  BY <1>8 DEF BeginClearFault, Begin
<1>9. CASE Read(p)
  BY <1>9 DEF Read
<1>10. CASE Reread(p)
  BY <1>10 DEF Reread
<1>11. CASE Expire(p)
  BY <1>11 DEF Expire
<1>12. CASE FinishHold(p)
  BY <1>12 DEF FinishHold
<1>13. CASE Claim(p)
  BY <1>13 DEF Claim
<1>14. CASE ReadClaimed(p)
  BY <1>14 DEF ReadClaimed
<1>15. CASE StartAccepted(p)
  BY <1>15 DEF StartAccepted
<1>16. CASE StartRejected(p)
  BY <1>16 DEF StartRejected
<1>17. CASE StartFails(p)
  BY <1>17 DEF StartFails
<1>18. CASE Reject(p)
  BY <1>18 DEF Reject
<1>19. CASE Adopt(p)
  BY <1>19 DEF Adopt
<1>20. CASE ReadAdopted(p)
  BY <1>20 DEF ReadAdopted
<1>21. CASE CloseLost(p)
  BY <1>21 DEF CloseLost
<1>22. CASE Promote(p)
  BY <1>22 DEF Promote
<1>23. CASE ListBody(p)
  BY <1>23 DEF ListBody
<1>24. CASE StartBody(p)
  BY <1>24 DEF StartBody
<1>25. CASE StartThrows(p)
  BY <1>25 DEF StartThrows
<1>26. CASE ConnectEvBody(p)
  BY <1>26 DEF ConnectEvBody
<1>27. CASE DisconnectEvBody(p)
  BY <1>27 DEF DisconnectEvBody
<1>28. CASE Unplugged(p)
  BY <1>28 DEF Unplugged
<1>29. CASE LockBody(p)
  BY <1>29 DEF LockBody
<1>30. CASE Arm(p)
  BY <1>30 DEF Arm
<1>31. CASE ClearFault(p)
  BY <1>31 DEF ClearFault
<1>32. CASE StopThrows(p)
  BY <1>32 DEF StopThrows
<1>33. CASE StopNotify(p)
  BY <1>33 DEF StopNotify
<1>34. CASE StopClear(p)
  BY <1>34 DEF StopClear
<1>35. CASE RemoteWait(p)
  BY <1>35 DEF RemoteWait
<1>36. CASE CancelRemote(p)
  BY <1>36 DEF CancelRemote
<1>37. CASE RemoteAccepted(p)
  BY <1>37 DEF RemoteAccepted
<1>38. CASE RemoteRefused(p)
  BY <1>38 DEF RemoteRefused
<1>38a. CASE RemoteKept(p)
  BY <1>38a DEF RemoteKept
<1>39. CASE RemoteAdoptRead(p)
  BY <1>39 DEF RemoteAdoptRead
<1>40. CASE RemoteAdopt(p)
  BY <1>40 DEF RemoteAdopt
<1>41. CASE RemoteStopSent(p)
  BY <1>41 DEF RemoteStopSent
<1> QED BY <1>1, <1>2, <1>3, <1>4, <1>5, <1>6, <1>7, <1>8, <1>9, <1>10, <1>11,
       <1>12, <1>13, <1>14, <1>15, <1>16, <1>17, <1>18, <1>19, <1>20, <1>21, <1>22,
       <1>23, <1>24, <1>25, <1>26, <1>27, <1>28, <1>29, <1>30, <1>31, <1>32, <1>33,
       <1>34, <1>35, <1>36, <1>37, <1>38, <1>38a, <1>39, <1>40, <1>41 DEF BeginRequest, Step

\* Every step of a request keeps OwnersInv.
LEMMA OwnersRequest ==
    ASSUME TypeOK, RequestsPrepared, OwnersInv, NEW p \in Calls,
           Poll(p) \/ TimerFires(p) \/ BeginRequest(p) \/ Step(p)
    PROVE  OwnersInv'
<1>c. call[p] \in Call /\ row \in Row /\ call[p].s \in Row /\ call \in [Calls -> Call]
      /\ started \in Seq(Nat) /\ clock \in Nat
  BY DEF TypeOK, Call
<1>1. CASE Claim(p) /\ ClaimMatches(p)
  <2>1. row' = [row EXCEPT !.activeStartPending = TRUE,
                           !.transactionCounter = NextLocalId(call[p].s)]
    BY <1>1 DEF Claim
  <2>2. row'.activeStartedAt = row.activeStartedAt /\ row'.activeStartPending = TRUE
    BY <2>1, <1>c DEF Row
  <2>3. UNCHANGED <<clock, started>>
    BY <1>1 DEF Claim
  <2>4. call' = [call EXCEPT ![p] = [call[p] EXCEPT !.pc = "claimed",
                                          !.att = call[p].s.activeStartedAt,
                                          !.attTag = call[p].s.activeIdTag,
                                          !.local = NextLocalId(call[p].s)]]
    BY <1>1 DEF Claim, Becomes
  <2>5. /\ \A q \in Calls \ {p} : call'[q] = call[q]
        /\ call'[p].att = row.activeStartedAt
    BY <2>4, <1>1, <1>c DEF ClaimMatches, Call
  <2>6. row.activeStartedAt # 0 /\ row.activeStartedAt \in Nat
    BY <1>1, <1>c DEF ClaimMatches, RequestsPrepared, Prepared, Claim, At, Row
  <2>7. \A i \in DOMAIN started : started[i] # row.activeStartedAt
    BY <1>1 DEF ClaimMatches, OwnersInv, StartedBefore
  <2>8. \A q \in Calls : Owns(q) => call[q].att # row.activeStartedAt
    BY <1>1 DEF ClaimMatches, OwnersInv, OwnedAttempt
  <2>9. \A q \in Calls : Owns(q)' => OwnedAttempt(q)'
    <3>1. OwnedAttempt(p)'
      BY <2>2, <2>3, <2>5, <2>6, <2>7 DEF OwnersInv, OwnedAttempt
    <3>2. \A q \in Calls \ {p} : Owns(q)' => OwnedAttempt(q)'
      BY <2>2, <2>3, <2>5 DEF OwnersInv, OwnedAttempt, Owns, At
    <3> QED BY <3>1, <3>2
  <2>10. \A q, r \in Calls : Owns(q)' /\ Owns(r)' /\ call'[q].att = call'[r].att => q = r
    BY <2>5, <2>8 DEF OwnersInv, Owns
  <2>11. \A i \in DOMAIN started : StartedBefore(i)'
    BY <2>2, <2>3 DEF OwnersInv, StartedBefore
  <2>12. OneStartPerAttempt'
    BY <2>3 DEF OwnersInv, OneStartPerAttempt
  <2> QED BY <2>2, <2>3, <2>9, <2>10, <2>11, <2>12 DEF OwnersInv
<1>2. CASE ReadClaimed(p)
  <2>1. NoNewOwner /\ call'[p].pc # "claimed"
    <3>1. NoNewOwner
      BY <1>2, OwnerSteps DEF Claim, ReadClaimed, At
    <3>2. PICK pc \in {"call", "promote"} :
              Becomes(p, [call[p] EXCEPT !.s = row, !.pc = pc])
      BY <1>2 DEF ReadClaimed
    <3> QED BY <3>1, <3>2, <1>c DEF Becomes, Call
  <2>2. AttemptStays /\ UNCHANGED <<row, clock>>
    BY <1>2 DEF ReadClaimed, AttemptStays, rowVars
  <2>3. CASE started' = started
    BY <2>1, <2>2, <2>3, OwnersStay
  <2>4. CASE started' = Append(started, call[p].att)
    <3>0. call[p].att \in Nat
      BY <1>c DEF Call
    <3>1. /\ DOMAIN started' = DOMAIN started \cup {Len(started) + 1}
          /\ \A i \in DOMAIN started : started'[i] = started[i]
          /\ started'[Len(started) + 1] = call[p].att
      BY <2>4, <3>0, <1>c
    <3>2. Owns(p) /\ At(p, "claimed") /\ OwnedAttempt(p)
      BY <1>2 DEF ReadClaimed, OwnersInv, Owns, At, ClaimPCs
    <3>3. \A i \in DOMAIN started' : StartedBefore(i)'
      BY <3>1, <3>2, <2>2 DEF OwnersInv, StartedBefore, OwnedAttempt
    <3>4. \A q \in Calls : Owns(q)' =>
              /\ Owns(q) /\ call'[q].att = call[q].att
              /\ At(q, "claimed")' => At(q, "claimed") /\ q # p
      BY <2>1 DEF NoNewOwner, At
    <3>5. ASSUME NEW q \in Calls, Owns(q)' PROVE OwnedAttempt(q)'
      <4>1. Owns(q) /\ call'[q].att = call[q].att /\ OwnedAttempt(q)
        BY <3>4, <3>5 DEF OwnersInv
      <4>2. At(q, "claimed")' => At(q, "claimed") /\ call[q].att # call[p].att
        BY <3>4, <3>5, <3>2, <4>1 DEF OwnersInv
      <4> QED BY <4>1, <4>2, <3>1, <2>2 DEF OwnedAttempt
    <3>6. \A q, r \in Calls : Owns(q)' /\ Owns(r)' /\ call'[q].att = call'[r].att => q = r
      BY <3>4 DEF OwnersInv
    <3>7. OneStartPerAttempt'
      BY <3>1, <3>2 DEF OwnersInv, OneStartPerAttempt, OwnedAttempt
    <3> QED BY <3>3, <3>5, <3>6, <3>7, <2>2 DEF OwnersInv
  <2> QED BY <1>2, <2>3, <2>4 DEF ReadClaimed
<1>3. CASE NoNewOwner /\ started' = started
  BY <1>3, RowSteps, OwnersStay DEF SessionStays
<1> QED BY <1>1, <1>2, <1>3, OwnerSteps, StartedSteps

\* t is null or a transaction the CSMS has issued.
Issued(t) == t # 0 => t \in issued

\* A row marked remote names no transaction but an issued one.
Reported(r) == r.activeIsRemote => Issued(r.activeTransactionId)

\* What a request carries is issued too: its snapshot and its own transaction.
KnowsIssued(c) == Reported(c.s) /\ Issued(c.tx)

\* The owner has not written the CSMS's transaction id.
Unreported == {"claimed", "call", "accepted", "rejected", "closeLost"}

\* An unclaimed attempt about to be claimed is not a remote one.
ClaimIsLocal(p) ==
    At(p, "claim") =>
        /\ call[p].s.activeStartedAt <= clock
        /\ call[p].s.activeStartedAt = row.activeStartedAt /\ ~row.activeStartPending
               => ~row.activeIsRemote

\* The row of a held attempt is marked remote only once its owner adopted an id, and
\* the owner then promotes that id, not its local one.
HeldTransaction(p) ==
    Holds(p) =>
        /\ call[p].pc \in Unreported => ~row.activeIsRemote
        /\ call[p].pc = "adopted" => row.activeTransactionId # 0
        /\ call[p].pc = "promote" /\ row.activeIsRemote
               => /\ row.activeTransactionId # 0
                  /\ call[p].s.activeTransactionId = row.activeTransactionId

\* The second half of StopNamesIssuedTransaction.
StopsIssued ==
    \A i \in DOMAIN outbox : outbox[i].action = "StopTransaction" => outbox[i].tx \in issued

\* Why no local id is reported: every id marked remote, in the row, in a snapshot or
\* in a queue, came from the CSMS.
IssuedInv ==
    /\ Reported(row) /\ Issued(remoteTx) /\ StopsIssued
    /\ \A p \in Calls : KnowsIssued(call[p]) /\ ClaimIsLocal(p) /\ HeldTransaction(p)

\* An issued transaction stays issued.
LEMMA IssuedGrows ==
    ASSUME NEW p \in Calls,
           Poll(p) \/ TimerFires(p) \/ BeginRequest(p) \/ Step(p)
    PROVE  issued \subseteq issued'
<1>1. CASE Poll(p)
  BY <1>1 DEF Poll, csmsVars
<1>2. CASE TimerFires(p)
  BY <1>2 DEF TimerFires, csmsVars
<1>3. CASE BeginStart(p)
  BY <1>3 DEF BeginStart, csmsVars, Begin
<1>4. CASE BeginRemoteStart(p)
  BY <1>4 DEF BeginRemoteStart, csmsVars, Begin
<1>5. CASE BeginRemoteStop(p)
  BY <1>5 DEF BeginRemoteStop, csmsVars, Begin
<1>6. CASE BeginStop(p)
  BY <1>6 DEF BeginStop, csmsVars, Begin
<1>7. CASE BeginOther(p)
  BY <1>7 DEF BeginOther, csmsVars, Begin
<1>8. CASE BeginClearFault(p)
  BY <1>8 DEF BeginClearFault, csmsVars, Begin
<1>9. CASE Read(p)
  BY <1>9 DEF Read, csmsVars
<1>10. CASE Reread(p)
  BY <1>10 DEF Reread, csmsVars
<1>11. CASE Expire(p)
  BY <1>11 DEF Expire, csmsVars
<1>12. CASE FinishHold(p)
  BY <1>12 DEF FinishHold, csmsVars
<1>13. CASE Claim(p)
  BY <1>13 DEF Claim, csmsVars
<1>14. CASE ReadClaimed(p)
  BY <1>14 DEF ReadClaimed, csmsVars
<1>15. CASE StartAccepted(p)
  BY <1>15 DEF StartAccepted, csmsVars, CsmsAccepts
<1>16. CASE StartRejected(p)
  BY <1>16 DEF StartRejected, csmsVars
<1>17. CASE StartFails(p)
  BY <1>17 DEF StartFails, csmsVars
<1>18. CASE Reject(p)
  BY <1>18 DEF Reject, csmsVars
<1>19. CASE Adopt(p)
  BY <1>19 DEF Adopt, csmsVars
<1>20. CASE ReadAdopted(p)
  BY <1>20 DEF ReadAdopted, csmsVars
<1>21. CASE CloseLost(p)
  BY <1>21 DEF CloseLost, csmsVars, SendOrQueueStop
<1>22. CASE Promote(p)
  BY <1>22 DEF Promote, csmsVars
<1>23. CASE ListBody(p)
  BY <1>23 DEF ListBody, csmsVars
<1>24. CASE StartBody(p)
  BY <1>24 DEF StartBody, csmsVars
<1>25. CASE StartThrows(p)
  BY <1>25 DEF StartThrows, csmsVars
<1>26. CASE ConnectEvBody(p)
  BY <1>26 DEF ConnectEvBody, csmsVars
<1>27. CASE DisconnectEvBody(p)
  BY <1>27 DEF DisconnectEvBody, csmsVars
<1>28. CASE Unplugged(p)
  BY <1>28 DEF Unplugged, csmsVars
<1>29. CASE LockBody(p)
  BY <1>29 DEF LockBody, csmsVars
<1>30. CASE Arm(p)
  BY <1>30 DEF Arm, csmsVars
<1>31. CASE ClearFault(p)
  BY <1>31 DEF ClearFault, csmsVars
<1>32. CASE StopThrows(p)
  BY <1>32 DEF StopThrows, csmsVars
<1>33. CASE StopNotify(p)
  BY <1>33 DEF StopNotify, csmsVars, SendOrQueueStop
<1>34. CASE StopClear(p)
  BY <1>34 DEF StopClear, csmsVars
<1>35. CASE RemoteWait(p)
  BY <1>35 DEF RemoteWait, csmsVars
<1>36. CASE CancelRemote(p)
  BY <1>36 DEF CancelRemote, csmsVars
<1>37. CASE RemoteAccepted(p)
  BY <1>37 DEF RemoteAccepted, csmsVars, CsmsAccepts
<1>38. CASE RemoteRefused(p)
  BY <1>38 DEF RemoteRefused, csmsVars
<1>38a. CASE RemoteKept(p)
  BY <1>38a DEF RemoteKept, csmsVars
<1>39. CASE RemoteAdoptRead(p)
  BY <1>39 DEF RemoteAdoptRead, csmsVars
<1>40. CASE RemoteAdopt(p)
  BY <1>40 DEF RemoteAdopt, csmsVars
<1>41. CASE RemoteStopSent(p)
  BY <1>41 DEF RemoteStopSent, csmsVars
<1> QED BY <1>1, <1>2, <1>3, <1>4, <1>5, <1>6, <1>7, <1>8, <1>9, <1>10, <1>11,
       <1>12, <1>13, <1>14, <1>15, <1>16, <1>17, <1>18, <1>19, <1>20, <1>21, <1>22,
       <1>23, <1>24, <1>25, <1>26, <1>27, <1>28, <1>29, <1>30, <1>31, <1>32, <1>33,
       <1>34, <1>35, <1>36, <1>37, <1>38, <1>38a, <1>39, <1>40, <1>41 DEF BeginRequest, Step

\* A request that moves to a record that knows issued transactions only.
LEMMA BecomesKnowing ==
    ASSUME TypeOK, \A q \in Calls : KnowsIssued(call[q]), issued \subseteq issued',
           NEW p \in Calls, NEW c, Becomes(p, c),
           c.s.activeIsRemote /\ c.s.activeTransactionId # 0
               => c.s.activeTransactionId \in issued',
           c.tx # 0 => c.tx \in issued'
    PROVE  \A q \in Calls : KnowsIssued(call[q])'
<1>1. /\ \A q \in Calls \ {p} : call'[q] = call[q]
      /\ call'[p] = c
  BY DEF TypeOK, Becomes
<1>2. \A q \in Calls \ {p} : KnowsIssued(call[q])'
  BY <1>1 DEF KnowsIssued, Reported, Issued
<1>3. KnowsIssued(call[p])'
  BY <1>1 DEF KnowsIssued, Reported, Issued
<1> QED BY <1>2, <1>3

\* Every step of a request keeps what the requests carry issued,
LEMMA KnowsRequest ==
    ASSUME TypeOK, IssuedInv, NEW p \in Calls,
           Poll(p) \/ TimerFires(p) \/ BeginRequest(p) \/ Step(p)
    PROVE  \A q \in Calls : KnowsIssued(call[q])'
<1>c. /\ call[p] \in Call /\ row \in Row /\ call[p].s \in Row
      /\ issued \subseteq issued'
  BY IssuedGrows DEF TypeOK, Call
<1>k. /\ call[p].s.activeIsRemote /\ call[p].s.activeTransactionId # 0
             => call[p].s.activeTransactionId \in issued'
      /\ row.activeIsRemote /\ row.activeTransactionId # 0 => row.activeTransactionId \in issued'
      /\ call[p].tx # 0 => call[p].tx \in issued'
      /\ remoteTx # 0 => remoteTx \in issued'
  BY <1>c DEF IssuedInv, KnowsIssued, Reported, Issued
<1>b. \A c : /\ Becomes(p, c)
             /\ c.s.activeIsRemote /\ c.s.activeTransactionId # 0
                    => c.s.activeTransactionId \in issued'
             /\ c.tx # 0 => c.tx \in issued'
             => \A q \in Calls : KnowsIssued(call[q])'
  BY <1>c, BecomesKnowing DEF IssuedInv
<1>l. (Return(p) \/ List(p) \/ Release(p) \/ Again(p))
          => \A q \in Calls : KnowsIssued(call[q])'
  BY <1>b, <1>c DEF Return, List, Release, Idle, FreshRow, Again, Call
<1>g. \A pc : Goto(p, pc) => \A q \in Calls : KnowsIssued(call[q])'
  BY <1>b, <1>k, <1>c DEF Goto, Call
<1>a. \A since : ArmLater(p, since) => \A q \in Calls : KnowsIssued(call[q])'
  BY <1>b, <1>k, <1>c DEF ArmLater, Call
<1>1. CASE Poll(p)
  BY <1>1, <1>b, <1>k, <1>l, <1>g, <1>a, <1>c DEF Poll, Call
<1>2. CASE TimerFires(p)
  BY <1>2, <1>b, <1>k, <1>l, <1>g, <1>a, <1>c DEF TimerFires, Call
<1>3. CASE BeginStart(p)
  BY <1>3, <1>b, <1>k, <1>l, <1>g, <1>a, <1>c DEF BeginStart, Call, Begin, Idle,
    FreshRow
<1>4. CASE BeginRemoteStart(p)
  BY <1>4, <1>b, <1>k, <1>l, <1>g, <1>a, <1>c DEF BeginRemoteStart, Call, Begin,
    Idle, FreshRow
<1>5. CASE BeginRemoteStop(p)
  BY <1>5, <1>b, <1>k, <1>l, <1>g, <1>a, <1>c DEF BeginRemoteStop, Call, Begin,
    Idle, FreshRow
<1>6. CASE BeginStop(p)
  BY <1>6, <1>b, <1>k, <1>l, <1>g, <1>a, <1>c DEF BeginStop, Call, Begin, Idle,
    FreshRow
<1>7. CASE BeginOther(p)
  BY <1>7, <1>b, <1>k, <1>l, <1>g, <1>a, <1>c DEF BeginOther, Call, Begin, Idle,
    FreshRow
<1>8. CASE BeginClearFault(p)
  BY <1>8, <1>b, <1>k, <1>l, <1>g, <1>a, <1>c DEF BeginClearFault, Call, Begin,
    Idle, FreshRow
<1>9. CASE Read(p)
  BY <1>9, <1>b, <1>k, <1>l, <1>g, <1>a, <1>c DEF Read, Call
<1>10. CASE Reread(p)
  BY <1>10, <1>b, <1>k, <1>l, <1>g, <1>a, <1>c DEF Reread, Call
<1>11. CASE Expire(p)
  BY <1>11, <1>b, <1>k, <1>l, <1>g, <1>a, <1>c DEF Expire, Call
<1>12. CASE FinishHold(p)
  BY <1>12, <1>b, <1>k, <1>l, <1>g, <1>a, <1>c DEF FinishHold, Call, FreshRow
<1>13. CASE Claim(p)
  BY <1>13, <1>b, <1>k, <1>l, <1>g, <1>a, <1>c DEF Claim, Call
<1>14. CASE ReadClaimed(p)
  BY <1>14, <1>b, <1>k, <1>l, <1>g, <1>a, <1>c DEF ReadClaimed, Call
<1>15. CASE StartAccepted(p)
  BY <1>15, <1>b, <1>k, <1>l, <1>g, <1>a, <1>c DEF StartAccepted, Call, CsmsAccepts
<1>16. CASE StartRejected(p)
  BY <1>16, <1>b, <1>k, <1>l, <1>g, <1>a, <1>c DEF StartRejected, Call
<1>17. CASE StartFails(p)
  BY <1>17, <1>b, <1>k, <1>l, <1>g, <1>a, <1>c DEF StartFails, Call
<1>18. CASE Reject(p)
  BY <1>18, <1>b, <1>k, <1>l, <1>g, <1>a, <1>c DEF Reject, Call
<1>19. CASE Adopt(p)
  BY <1>19, <1>b, <1>k, <1>l, <1>g, <1>a, <1>c DEF Adopt, Call
<1>20. CASE ReadAdopted(p)
  BY <1>20, <1>b, <1>k, <1>l, <1>g, <1>a, <1>c DEF ReadAdopted, Call
<1>21. CASE CloseLost(p)
  BY <1>21, <1>b, <1>k, <1>l, <1>g, <1>a, <1>c DEF CloseLost, Call
<1>22. CASE Promote(p)
  BY <1>22, <1>b, <1>k, <1>l, <1>g, <1>a, <1>c DEF Promote, Call
<1>23. CASE ListBody(p)
  BY <1>23, <1>b, <1>k, <1>l, <1>g, <1>a, <1>c DEF ListBody, Call
<1>24. CASE StartBody(p)
  BY <1>24, <1>b, <1>k, <1>l, <1>g, <1>a, <1>c DEF StartBody, Call
<1>25. CASE StartThrows(p)
  BY <1>25, <1>b, <1>k, <1>l, <1>g, <1>a, <1>c DEF StartThrows, Call
<1>26. CASE ConnectEvBody(p)
  BY <1>26, <1>b, <1>k, <1>l, <1>g, <1>a, <1>c DEF ConnectEvBody, Call
<1>27. CASE DisconnectEvBody(p)
  BY <1>27, <1>b, <1>k, <1>l, <1>g, <1>a, <1>c DEF DisconnectEvBody, Call
<1>28. CASE Unplugged(p)
  BY <1>28, <1>b, <1>k, <1>l, <1>g, <1>a, <1>c DEF Unplugged, Call
<1>29. CASE LockBody(p)
  BY <1>29, <1>b, <1>k, <1>l, <1>g, <1>a, <1>c DEF LockBody, Call
<1>30. CASE Arm(p)
  BY <1>30, <1>b, <1>k, <1>l, <1>g, <1>a, <1>c DEF Arm, Call, FreshRow
<1>31. CASE ClearFault(p)
  BY <1>31, <1>b, <1>k, <1>l, <1>g, <1>a, <1>c DEF ClearFault, Call
<1>32. CASE StopThrows(p)
  BY <1>32, <1>b, <1>k, <1>l, <1>g, <1>a, <1>c DEF StopThrows, Call
<1>33. CASE StopNotify(p)
  BY <1>33, <1>b, <1>k, <1>l, <1>g, <1>a, <1>c DEF StopNotify, Call
<1>34. CASE StopClear(p)
  BY <1>34, <1>b, <1>k, <1>l, <1>g, <1>a, <1>c DEF StopClear, Call
<1>35. CASE RemoteWait(p)
  BY <1>35, <1>b, <1>k, <1>l, <1>g, <1>a, <1>c DEF RemoteWait, Call, FreshRow
<1>36. CASE CancelRemote(p)
  BY <1>36, <1>b, <1>k, <1>l, <1>g, <1>a, <1>c DEF CancelRemote, Call
<1>37. CASE RemoteAccepted(p)
  BY <1>37, <1>b, <1>k, <1>l, <1>g, <1>a, <1>c DEF RemoteAccepted, Call, CsmsAccepts
<1>38. CASE RemoteRefused(p)
  BY <1>38, <1>b, <1>k, <1>l, <1>g, <1>a, <1>c DEF RemoteRefused, Call
<1>38a. CASE RemoteKept(p)
  BY <1>38a, <1>b, <1>k, <1>l, <1>g, <1>a, <1>c DEF RemoteKept, Goto, Call
<1>39. CASE RemoteAdoptRead(p)
  BY <1>39, <1>b, <1>k, <1>l, <1>g, <1>a, <1>c DEF RemoteAdoptRead, Call
<1>40. CASE RemoteAdopt(p)
  BY <1>40, <1>b, <1>k, <1>l, <1>g, <1>a, <1>c DEF RemoteAdopt, Call
<1>41. CASE RemoteStopSent(p)
  BY <1>41, <1>b, <1>k, <1>l, <1>g, <1>a, <1>c DEF RemoteStopSent, Call
<1> QED BY <1>1, <1>2, <1>3, <1>4, <1>5, <1>6, <1>7, <1>8, <1>9, <1>10, <1>11,
       <1>12, <1>13, <1>14, <1>15, <1>16, <1>17, <1>18, <1>19, <1>20, <1>21, <1>22,
       <1>23, <1>24, <1>25, <1>26, <1>27, <1>28, <1>29, <1>30, <1>31, <1>32, <1>33,
       <1>34, <1>35, <1>36, <1>37, <1>38, <1>38a, <1>39, <1>40, <1>41 DEF BeginRequest, Step

\* the transaction of remote-commands.ts issued,
LEMMA RemoteRequest ==
    ASSUME IssuedInv, NEW p \in Calls,
           Poll(p) \/ TimerFires(p) \/ BeginRequest(p) \/ Step(p)
    PROVE  Issued(remoteTx)'
<1>1. remoteTx' \in {remoteTx, 0, call[p].tx}
  <2>1. CASE Poll(p)
    BY <2>1 DEF Poll
  <2>2. CASE TimerFires(p)
    BY <2>2 DEF TimerFires
  <2>3. CASE BeginStart(p)
    BY <2>3 DEF BeginStart, Begin
  <2>4. CASE BeginRemoteStart(p)
    BY <2>4 DEF BeginRemoteStart, Begin
  <2>5. CASE BeginRemoteStop(p)
    BY <2>5 DEF BeginRemoteStop, Begin
  <2>6. CASE BeginStop(p)
    BY <2>6 DEF BeginStop, Begin
  <2>7. CASE BeginOther(p)
    BY <2>7 DEF BeginOther, Begin
  <2>8. CASE BeginClearFault(p)
    BY <2>8 DEF BeginClearFault, Begin
  <2>9. CASE Read(p)
    BY <2>9 DEF Read
  <2>10. CASE Reread(p)
    BY <2>10 DEF Reread
  <2>11. CASE Expire(p)
    BY <2>11 DEF Expire
  <2>12. CASE FinishHold(p)
    BY <2>12 DEF FinishHold
  <2>13. CASE Claim(p)
    BY <2>13 DEF Claim
  <2>14. CASE ReadClaimed(p)
    BY <2>14 DEF ReadClaimed
  <2>15. CASE StartAccepted(p)
    BY <2>15 DEF StartAccepted
  <2>16. CASE StartRejected(p)
    BY <2>16 DEF StartRejected
  <2>17. CASE StartFails(p)
    BY <2>17 DEF StartFails
  <2>18. CASE Reject(p)
    BY <2>18 DEF Reject
  <2>19. CASE Adopt(p)
    BY <2>19 DEF Adopt
  <2>20. CASE ReadAdopted(p)
    BY <2>20 DEF ReadAdopted
  <2>21. CASE CloseLost(p)
    BY <2>21 DEF CloseLost
  <2>22. CASE Promote(p)
    BY <2>22 DEF Promote
  <2>23. CASE ListBody(p)
    BY <2>23 DEF ListBody
  <2>24. CASE StartBody(p)
    BY <2>24 DEF StartBody
  <2>25. CASE StartThrows(p)
    BY <2>25 DEF StartThrows
  <2>26. CASE ConnectEvBody(p)
    BY <2>26 DEF ConnectEvBody
  <2>27. CASE DisconnectEvBody(p)
    BY <2>27 DEF DisconnectEvBody
  <2>28. CASE Unplugged(p)
    BY <2>28 DEF Unplugged
  <2>29. CASE LockBody(p)
    BY <2>29 DEF LockBody
  <2>30. CASE Arm(p)
    BY <2>30 DEF Arm
  <2>31. CASE ClearFault(p)
    BY <2>31 DEF ClearFault
  <2>32. CASE StopThrows(p)
    BY <2>32 DEF StopThrows
  <2>33. CASE StopNotify(p)
    BY <2>33 DEF StopNotify
  <2>34. CASE StopClear(p)
    BY <2>34 DEF StopClear
  <2>35. CASE RemoteWait(p)
    BY <2>35 DEF RemoteWait
  <2>36. CASE CancelRemote(p)
    BY <2>36 DEF CancelRemote
  <2>37. CASE RemoteAccepted(p)
    BY <2>37 DEF RemoteAccepted
  <2>38. CASE RemoteRefused(p)
    BY <2>38 DEF RemoteRefused
  <2>38a. CASE RemoteKept(p)
    BY <2>38a DEF RemoteKept
  <2>39. CASE RemoteAdoptRead(p)
    BY <2>39 DEF RemoteAdoptRead
  <2>40. CASE RemoteAdopt(p)
    BY <2>40 DEF RemoteAdopt
  <2>41. CASE RemoteStopSent(p)
    BY <2>41 DEF RemoteStopSent
  <2> QED BY <2>1, <2>2, <2>3, <2>4, <2>5, <2>6, <2>7, <2>8, <2>9, <2>10, <2>11,
         <2>12, <2>13, <2>14, <2>15, <2>16, <2>17, <2>18, <2>19, <2>20, <2>21,
         <2>22, <2>23, <2>24, <2>25, <2>26, <2>27, <2>28, <2>29, <2>30, <2>31,
         <2>32, <2>33, <2>34, <2>35, <2>36, <2>37, <2>38, <2>38a, <2>39, <2>40, <2>41 DEF
         BeginRequest, Step
<1> QED BY <1>1, IssuedGrows DEF IssuedInv, KnowsIssued, Issued

\* the queued stops issued,
LEMMA StopsRequest ==
    ASSUME TypeOK, RequestsPrepared, IssuedInv, NEW p \in Calls,
           Poll(p) \/ TimerFires(p) \/ BeginRequest(p) \/ Step(p)
    PROVE  StopsIssued'
<1>g. issued \subseteq issued' /\ outbox \in Seq(Message)
  BY IssuedGrows DEF TypeOK
<1>1. CASE outbox' = outbox
  BY <1>1, <1>g DEF IssuedInv, StopsIssued
<1>2. CASE outbox' = Append(outbox, [action |-> "StartTransaction", tx |-> 0])
  <2>1. [action |-> "StartTransaction", tx |-> 0] \in Message
    BY DEF Message
  <2>2. \A i \in DOMAIN outbox' : outbox'[i] = IF i = Len(outbox) + 1
            THEN [action |-> "StartTransaction", tx |-> 0] ELSE outbox[i]
    BY <1>2, <1>g, <2>1
  <2>3. \A i \in DOMAIN outbox' : i = Len(outbox) + 1 \/ i \in DOMAIN outbox
    BY <1>2, <1>g, <2>1
  <2> QED BY <2>2, <2>3, <1>g DEF IssuedInv, StopsIssued
<1>3. ASSUME NEW t \in issued, outbox' = Append(outbox, [action |-> "StopTransaction", tx |-> t])
      PROVE  StopsIssued'
  <2>1. [action |-> "StopTransaction", tx |-> t] \in Message
    BY TxIdsAssumption DEF Message, TypeOK
  <2>2. \A i \in DOMAIN outbox' : outbox'[i] = IF i = Len(outbox) + 1
            THEN [action |-> "StopTransaction", tx |-> t] ELSE outbox[i]
    BY <1>3, <1>g, <2>1
  <2>3. \A i \in DOMAIN outbox' : i = Len(outbox) + 1 \/ i \in DOMAIN outbox
    BY <1>3, <1>g, <2>1
  <2> QED BY <2>2, <2>3, <1>g DEF IssuedInv, StopsIssued
<1>4. CASE CloseLost(p)
  <2>1. call[p].tx \in issued
    BY <1>4 DEF CloseLost, IssuedInv, KnowsIssued, Issued, RequestsPrepared,
      Prepared, At
  <2> QED BY <1>4, <2>1, <1>1, <1>3 DEF CloseLost, SendOrQueueStop
<1>5. CASE StopNotify(p)
  <2>1. MustNotify(p) => call[p].s.activeTransactionId \in issued
    BY DEF MustNotify, IssuedInv, KnowsIssued, Reported, Issued
  <2> QED BY <1>5, <2>1, <1>1, <1>3 DEF StopNotify, SendOrQueueStop, csmsVars
<1>6. CASE StartFails(p)
  BY <1>6, <1>2 DEF StartFails
<1>7. outbox' = outbox \/ CloseLost(p) \/ StopNotify(p) \/ StartFails(p)
  <2>1. CASE Poll(p)
    BY <2>1 DEF Poll, csmsVars
  <2>2. CASE TimerFires(p)
    BY <2>2 DEF TimerFires, csmsVars
  <2>3. CASE BeginStart(p)
    BY <2>3 DEF BeginStart, csmsVars, Begin
  <2>4. CASE BeginRemoteStart(p)
    BY <2>4 DEF BeginRemoteStart, csmsVars, Begin
  <2>5. CASE BeginRemoteStop(p)
    BY <2>5 DEF BeginRemoteStop, csmsVars, Begin
  <2>6. CASE BeginStop(p)
    BY <2>6 DEF BeginStop, csmsVars, Begin
  <2>7. CASE BeginOther(p)
    BY <2>7 DEF BeginOther, csmsVars, Begin
  <2>8. CASE BeginClearFault(p)
    BY <2>8 DEF BeginClearFault, csmsVars, Begin
  <2>9. CASE Read(p)
    BY <2>9 DEF Read, csmsVars
  <2>10. CASE Reread(p)
    BY <2>10 DEF Reread, csmsVars
  <2>11. CASE Expire(p)
    BY <2>11 DEF Expire, csmsVars
  <2>12. CASE FinishHold(p)
    BY <2>12 DEF FinishHold, csmsVars
  <2>13. CASE Claim(p)
    BY <2>13 DEF Claim, csmsVars
  <2>14. CASE ReadClaimed(p)
    BY <2>14 DEF ReadClaimed, csmsVars
  <2>15. CASE StartAccepted(p)
    BY <2>15 DEF StartAccepted, csmsVars, CsmsAccepts
  <2>16. CASE StartRejected(p)
    BY <2>16 DEF StartRejected, csmsVars
  <2>17. CASE StartFails(p)
    BY <2>17
  <2>18. CASE Reject(p)
    BY <2>18 DEF Reject, csmsVars
  <2>19. CASE Adopt(p)
    BY <2>19 DEF Adopt, csmsVars
  <2>20. CASE ReadAdopted(p)
    BY <2>20 DEF ReadAdopted, csmsVars
  <2>21. CASE CloseLost(p)
    BY <2>21
  <2>22. CASE Promote(p)
    BY <2>22 DEF Promote, csmsVars
  <2>23. CASE ListBody(p)
    BY <2>23 DEF ListBody, csmsVars
  <2>24. CASE StartBody(p)
    BY <2>24 DEF StartBody, csmsVars
  <2>25. CASE StartThrows(p)
    BY <2>25 DEF StartThrows, csmsVars
  <2>26. CASE ConnectEvBody(p)
    BY <2>26 DEF ConnectEvBody, csmsVars
  <2>27. CASE DisconnectEvBody(p)
    BY <2>27 DEF DisconnectEvBody, csmsVars
  <2>28. CASE Unplugged(p)
    BY <2>28 DEF Unplugged, csmsVars
  <2>29. CASE LockBody(p)
    BY <2>29 DEF LockBody, csmsVars
  <2>30. CASE Arm(p)
    BY <2>30 DEF Arm, csmsVars
  <2>31. CASE ClearFault(p)
    BY <2>31 DEF ClearFault, csmsVars
  <2>32. CASE StopThrows(p)
    BY <2>32 DEF StopThrows, csmsVars
  <2>33. CASE StopNotify(p)
    BY <2>33
  <2>34. CASE StopClear(p)
    BY <2>34 DEF StopClear, csmsVars
  <2>35. CASE RemoteWait(p)
    BY <2>35 DEF RemoteWait, csmsVars
  <2>36. CASE CancelRemote(p)
    BY <2>36 DEF CancelRemote, csmsVars
  <2>37. CASE RemoteAccepted(p)
    BY <2>37 DEF RemoteAccepted, csmsVars, CsmsAccepts
  <2>38. CASE RemoteRefused(p)
    BY <2>38 DEF RemoteRefused, csmsVars
  <2>38a. CASE RemoteKept(p)
    BY <2>38a DEF RemoteKept, csmsVars
  <2>39. CASE RemoteAdoptRead(p)
    BY <2>39 DEF RemoteAdoptRead, csmsVars
  <2>40. CASE RemoteAdopt(p)
    BY <2>40 DEF RemoteAdopt, csmsVars
  <2>41. CASE RemoteStopSent(p)
    BY <2>41 DEF RemoteStopSent, csmsVars
  <2> QED BY <2>1, <2>2, <2>3, <2>4, <2>5, <2>6, <2>7, <2>8, <2>9, <2>10, <2>11,
         <2>12, <2>13, <2>14, <2>15, <2>16, <2>17, <2>18, <2>19, <2>20, <2>21,
         <2>22, <2>23, <2>24, <2>25, <2>26, <2>27, <2>28, <2>29, <2>30, <2>31,
         <2>32, <2>33, <2>34, <2>35, <2>36, <2>37, <2>38, <2>38a, <2>39, <2>40, <2>41 DEF
         BeginRequest, Step
<1> QED BY <1>1, <1>4, <1>5, <1>6, <1>7

\* and the row's remote transaction issued.
LEMMA ReportedRequest ==
    ASSUME TypeOK, IssuedInv, NEW p \in Calls,
           Poll(p) \/ TimerFires(p) \/ BeginRequest(p) \/ Step(p)
    PROVE  Reported(row)'
<1>c. row \in Row /\ issued \subseteq issued' /\ Reported(row) /\ KnowsIssued(call[p])
  BY IssuedGrows DEF TypeOK, IssuedInv
<1>s. /\ row'.activeIsRemote = row.activeIsRemote
      /\ row'.activeTransactionId = row.activeTransactionId
      => Reported(row)'
  BY <1>c DEF Reported, Issued
<1>e. ~row'.activeIsRemote => Reported(row)'
  BY DEF Reported
<1>1. CASE Poll(p)
  BY <1>1, <1>c, <1>s, <1>e DEF Poll, rowVars
<1>2. CASE TimerFires(p)
  BY <1>2, <1>c, <1>s, <1>e DEF TimerFires, rowVars
<1>3. CASE BeginStart(p)
  BY <1>3, <1>c, <1>s, <1>e DEF BeginStart, rowVars, Begin
<1>4. CASE BeginRemoteStart(p)
  BY <1>4, <1>c, <1>s, <1>e DEF BeginRemoteStart, rowVars, Begin
<1>5. CASE BeginRemoteStop(p)
  BY <1>5, <1>c, <1>s, <1>e DEF BeginRemoteStop, rowVars, Begin
<1>6. CASE BeginStop(p)
  BY <1>6, <1>c, <1>s, <1>e DEF BeginStop, rowVars, Begin
<1>7. CASE BeginOther(p)
  BY <1>7, <1>c, <1>s, <1>e DEF BeginOther, rowVars, Begin
<1>8. CASE BeginClearFault(p)
  BY <1>8, <1>c, <1>s, <1>e DEF BeginClearFault, rowVars, Begin
<1>9. CASE Read(p)
  BY <1>9, <1>c, <1>s, <1>e DEF Read, rowVars
<1>10. CASE Reread(p)
  BY <1>10, <1>c, <1>s, <1>e DEF Reread, rowVars
<1>11. CASE Expire(p)
  BY <1>11, <1>c, <1>s, <1>e DEF Expire, Row, Released
<1>12. CASE FinishHold(p)
  BY <1>12, <1>c, <1>s, <1>e DEF FinishHold, Row
<1>13. CASE Claim(p)
  BY <1>13, <1>c, <1>s, <1>e DEF Claim, Row
<1>14. CASE ReadClaimed(p)
  BY <1>14, <1>c, <1>s, <1>e DEF ReadClaimed, rowVars
<1>15. CASE StartAccepted(p)
  BY <1>15, <1>c, <1>s, <1>e DEF StartAccepted, rowVars
<1>16. CASE StartRejected(p)
  BY <1>16, <1>c, <1>s, <1>e DEF StartRejected, rowVars
<1>17. CASE StartFails(p)
  BY <1>17, <1>c, <1>s, <1>e DEF StartFails, rowVars
<1>18. CASE Reject(p)
  BY <1>18, <1>c, <1>s, <1>e DEF Reject, Row, Released
<1>19. CASE Adopt(p)
  <2>1. row'.activeTransactionId = call[p].tx \/ row' = row
    BY <1>19, <1>c DEF Adopt, Row
  <2> QED BY <2>1, <1>c DEF Reported, Issued, KnowsIssued
<1>20. CASE ReadAdopted(p)
  BY <1>20, <1>c, <1>s, <1>e DEF ReadAdopted, rowVars
<1>21. CASE CloseLost(p)
  BY <1>21, <1>c, <1>s, <1>e DEF CloseLost, rowVars
<1>22. CASE Promote(p)
  <2>1. CASE StillClaimed(p)
    <3>1. Holds(p) /\ call[p].pc = "promote"
      BY <1>22, <2>1 DEF Promote, StillClaimed, Holds, Owns, At, ClaimPCs
    <3>2. row.activeIsRemote => PromotedTransaction(p) = row.activeTransactionId
      BY <3>1 DEF IssuedInv, HeldTransaction, PromotedTransaction
    <3>3. /\ row'.activeIsRemote = row.activeIsRemote
          /\ row'.activeTransactionId = PromotedTransaction(p)
      BY <1>22, <2>1, <1>c DEF Promote, Row
    <3> QED BY <3>2, <3>3, <1>c DEF Reported, Issued
  <2>2. CASE ~StillClaimed(p)
    BY <1>22, <2>2, <1>s DEF Promote
  <2> QED BY <2>1, <2>2
<1>23. CASE ListBody(p)
  BY <1>23, <1>c, <1>s, <1>e DEF ListBody, rowVars
<1>24. CASE StartBody(p)
  <2>1. row'.activeTransactionId = 0
    BY <1>24, <1>c DEF StartBody, Row
  <2> QED BY <2>1 DEF Reported, Issued
<1>25. CASE StartThrows(p)
  BY <1>25, <1>c, <1>s, <1>e DEF StartThrows, rowVars
<1>26. CASE ConnectEvBody(p)
  BY <1>26, <1>c, <1>s, <1>e DEF ConnectEvBody, Row
<1>27. CASE DisconnectEvBody(p)
  BY <1>27, <1>c, <1>s, <1>e DEF DisconnectEvBody, Row
<1>28. CASE Unplugged(p)
  BY <1>28, <1>c, <1>s, <1>e DEF Unplugged, Row
<1>29. CASE LockBody(p)
  BY <1>29, <1>c, <1>s, <1>e DEF LockBody, Row
<1>30. CASE Arm(p)
  BY <1>30, <1>c, <1>s, <1>e DEF Arm, rowVars
<1>31. CASE ClearFault(p)
  BY <1>31, <1>c, <1>s, <1>e DEF ClearFault, Row
<1>32. CASE StopThrows(p)
  BY <1>32, <1>c, <1>s, <1>e DEF StopThrows, rowVars
<1>33. CASE StopNotify(p)
  BY <1>33, <1>c, <1>s, <1>e DEF StopNotify, rowVars
<1>34. CASE StopClear(p)
  BY <1>34, <1>c, <1>s, <1>e DEF StopClear, Row, Released
<1>35. CASE RemoteWait(p)
  BY <1>35, <1>c, <1>s, <1>e DEF RemoteWait, rowVars
<1>36. CASE CancelRemote(p)
  BY <1>36, <1>c, <1>s, <1>e DEF CancelRemote, Row, Released
<1>37. CASE RemoteAccepted(p)
  BY <1>37, <1>c, <1>s, <1>e DEF RemoteAccepted, rowVars
<1>38. CASE RemoteRefused(p)
  BY <1>38, <1>c, <1>s, <1>e DEF RemoteRefused, rowVars
<1>38a. CASE RemoteKept(p)
  BY <1>38a, <1>c, <1>s, <1>e DEF RemoteKept, rowVars
<1>39. CASE RemoteAdoptRead(p)
  BY <1>39, <1>c, <1>s, <1>e DEF RemoteAdoptRead, rowVars
<1>40. CASE RemoteAdopt(p)
  <2>1. row'.activeTransactionId = call[p].tx
    BY <1>40, <1>c DEF RemoteAdopt, Row
  <2> QED BY <2>1, <1>c DEF Reported, Issued, KnowsIssued
<1>41. CASE RemoteStopSent(p)
  BY <1>41, <1>c, <1>s, <1>e DEF RemoteStopSent, rowVars
<1> QED BY <1>1, <1>2, <1>3, <1>4, <1>5, <1>6, <1>7, <1>8, <1>9, <1>10, <1>11,
       <1>12, <1>13, <1>14, <1>15, <1>16, <1>17, <1>18, <1>19, <1>20, <1>21, <1>22,
       <1>23, <1>24, <1>25, <1>26, <1>27, <1>28, <1>29, <1>30, <1>31, <1>32, <1>33,
       <1>34, <1>35, <1>36, <1>37, <1>38, <1>38a, <1>39, <1>40, <1>41 DEF BeginRequest, Step

\* Only a read leads to a claim.
LEMMA ClaimSteps ==
    ASSUME TypeOK, NEW p \in Calls,
           Poll(p) \/ TimerFires(p) \/ BeginRequest(p) \/ Step(p)
    PROVE  \/ \A q \in Calls : At(q, "claim")' => At(q, "claim") /\ call'[q].s = call[q].s
           \/ Read(p)
<1> DEFINE NoNewClaim == \A q \in Calls : At(q, "claim")' => At(q, "claim") /\ call'[q].s = call[q].s
<1>c. call \in [Calls -> Call] /\ call[p] \in Call
  BY DEF TypeOK
<1>b. \A c : Becomes(p, c) /\ c.pc # "claim" => NoNewClaim
  BY <1>c DEF Becomes, At
<1> HIDE DEF NoNewClaim
<1>l. (Return(p) \/ List(p) \/ Release(p) \/ Again(p))
          => NoNewClaim
  BY <1>b, <1>c DEF Return, List, Release, Idle, Again, Call
<1>1. CASE Poll(p)
  <2>1. NoNewClaim
    BY <1>1, <1>b, <1>l, <1>c DEF Poll, Call
  <2> QED BY <2>1 DEF NoNewClaim
<1>2. CASE TimerFires(p)
  <2>1. NoNewClaim
    BY <1>2, <1>b, <1>l, <1>c DEF TimerFires, Call
  <2> QED BY <2>1 DEF NoNewClaim
<1>3. CASE BeginStart(p)
  <2>1. NoNewClaim
    BY <1>3, <1>b, <1>l, <1>c DEF BeginStart, Begin, Idle, Call
  <2> QED BY <2>1 DEF NoNewClaim
<1>4. CASE BeginRemoteStart(p)
  <2>1. NoNewClaim
    BY <1>4, <1>b, <1>l, <1>c DEF BeginRemoteStart, Begin, Idle, Call
  <2> QED BY <2>1 DEF NoNewClaim
<1>5. CASE BeginRemoteStop(p)
  <2>1. NoNewClaim
    BY <1>5, <1>b, <1>l, <1>c DEF BeginRemoteStop, Begin, Idle, Call
  <2> QED BY <2>1 DEF NoNewClaim
<1>6. CASE BeginStop(p)
  <2>1. NoNewClaim
    BY <1>6, <1>b, <1>l, <1>c DEF BeginStop, Begin, Idle, Call
  <2> QED BY <2>1 DEF NoNewClaim
<1>7. CASE BeginOther(p)
  <2>1. NoNewClaim
    BY <1>7, <1>b, <1>l, <1>c DEF BeginOther, Begin, Idle, Call
  <2> QED BY <2>1 DEF NoNewClaim
<1>8. CASE BeginClearFault(p)
  <2>1. NoNewClaim
    BY <1>8, <1>b, <1>l, <1>c DEF BeginClearFault, Begin, Idle, Call
  <2> QED BY <2>1 DEF NoNewClaim
<1>9. CASE Read(p)
  BY <1>9
<1>10. CASE Reread(p)
  <2>1. NoNewClaim
    BY <1>10, <1>b, <1>l, <1>c DEF Reread, Call
  <2> QED BY <2>1 DEF NoNewClaim
<1>11. CASE Expire(p)
  <2>1. NoNewClaim
    BY <1>11, <1>b, <1>l, <1>c DEF Expire, Call
  <2> QED BY <2>1 DEF NoNewClaim
<1>12. CASE FinishHold(p)
  <2>1. NoNewClaim
    BY <1>12, <1>b, <1>l, <1>c DEF FinishHold, Call
  <2> QED BY <2>1 DEF NoNewClaim
<1>13. CASE Claim(p)
  <2>1. NoNewClaim
    BY <1>13, <1>b, <1>l, <1>c DEF Claim, Call
  <2> QED BY <2>1 DEF NoNewClaim
<1>14. CASE ReadClaimed(p)
  <2>1. NoNewClaim
    BY <1>14, <1>b, <1>l, <1>c DEF ReadClaimed, Call
  <2> QED BY <2>1 DEF NoNewClaim
<1>15. CASE StartAccepted(p)
  <2>1. NoNewClaim
    BY <1>15, <1>b, <1>l, <1>c DEF StartAccepted, CsmsAccepts, Call
  <2> QED BY <2>1 DEF NoNewClaim
<1>16. CASE StartRejected(p)
  <2>1. NoNewClaim
    BY <1>16, <1>b, <1>l, <1>c DEF StartRejected, Goto, Call
  <2> QED BY <2>1 DEF NoNewClaim
<1>17. CASE StartFails(p)
  <2>1. NoNewClaim
    BY <1>17, <1>b, <1>l, <1>c DEF StartFails, Call
  <2> QED BY <2>1 DEF NoNewClaim
<1>18. CASE Reject(p)
  <2>1. NoNewClaim
    BY <1>18, <1>b, <1>l, <1>c DEF Reject, Call
  <2> QED BY <2>1 DEF NoNewClaim
<1>19. CASE Adopt(p)
  <2>1. NoNewClaim
    BY <1>19, <1>b, <1>l, <1>c DEF Adopt, Goto, Call
  <2> QED BY <2>1 DEF NoNewClaim
<1>20. CASE ReadAdopted(p)
  <2>1. NoNewClaim
    BY <1>20, <1>b, <1>l, <1>c DEF ReadAdopted, Call
  <2> QED BY <2>1 DEF NoNewClaim
<1>21. CASE CloseLost(p)
  <2>1. NoNewClaim
    BY <1>21, <1>b, <1>l, <1>c DEF CloseLost, Call
  <2> QED BY <2>1 DEF NoNewClaim
<1>22. CASE Promote(p)
  <2>1. NoNewClaim
    BY <1>22, <1>b, <1>l, <1>c DEF Promote, Call
  <2> QED BY <2>1 DEF NoNewClaim
<1>23. CASE ListBody(p)
  <2>1. NoNewClaim
    BY <1>23, <1>b, <1>l, <1>c DEF ListBody, ArmLater, Call
  <2> QED BY <2>1 DEF NoNewClaim
<1>24. CASE StartBody(p)
  <2>1. NoNewClaim
    BY <1>24, <1>b, <1>l, <1>c DEF StartBody, ArmLater, Call
  <2> QED BY <2>1 DEF NoNewClaim
<1>25. CASE StartThrows(p)
  <2>1. NoNewClaim
    BY <1>25, <1>b, <1>l, <1>c DEF StartThrows, Goto, Call
  <2> QED BY <2>1 DEF NoNewClaim
<1>26. CASE ConnectEvBody(p)
  <2>1. NoNewClaim
    BY <1>26, <1>b, <1>l, <1>c DEF ConnectEvBody, ArmLater, Call
  <2> QED BY <2>1 DEF NoNewClaim
<1>27. CASE DisconnectEvBody(p)
  <2>1. NoNewClaim
    BY <1>27, <1>b, <1>l, <1>c DEF DisconnectEvBody, Goto, Call
  <2> QED BY <2>1 DEF NoNewClaim
<1>28. CASE Unplugged(p)
  <2>1. NoNewClaim
    BY <1>28, <1>b, <1>l, <1>c DEF Unplugged, Call
  <2> QED BY <2>1 DEF NoNewClaim
<1>29. CASE LockBody(p)
  <2>1. NoNewClaim
    BY <1>29, <1>b, <1>l, <1>c DEF LockBody, Call
  <2> QED BY <2>1 DEF NoNewClaim
<1>30. CASE Arm(p)
  <2>1. NoNewClaim
    BY <1>30, <1>b, <1>l, <1>c DEF Arm, Call
  <2> QED BY <2>1 DEF NoNewClaim
<1>31. CASE ClearFault(p)
  <2>1. NoNewClaim
    BY <1>31, <1>b, <1>l, <1>c DEF ClearFault, Call
  <2> QED BY <2>1 DEF NoNewClaim
<1>32. CASE StopThrows(p)
  <2>1. NoNewClaim
    BY <1>32, <1>b, <1>l, <1>c DEF StopThrows, Call
  <2> QED BY <2>1 DEF NoNewClaim
<1>33. CASE StopNotify(p)
  <2>1. NoNewClaim
    BY <1>33, <1>b, <1>l, <1>c DEF StopNotify, Call
  <2> QED BY <2>1 DEF NoNewClaim
<1>34. CASE StopClear(p)
  <2>1. NoNewClaim
    BY <1>34, <1>b, <1>l, <1>c DEF StopClear, Call
  <2> QED BY <2>1 DEF NoNewClaim
<1>35. CASE RemoteWait(p)
  <2>1. NoNewClaim
    BY <1>35, <1>b, <1>l, <1>c DEF RemoteWait, Goto, Call
  <2> QED BY <2>1 DEF NoNewClaim
<1>36. CASE CancelRemote(p)
  <2>1. NoNewClaim
    BY <1>36, <1>b, <1>l, <1>c DEF CancelRemote, Call
  <2> QED BY <2>1 DEF NoNewClaim
<1>37. CASE RemoteAccepted(p)
  <2>1. NoNewClaim
    BY <1>37, <1>b, <1>l, <1>c DEF RemoteAccepted, CsmsAccepts, Call
  <2> QED BY <2>1 DEF NoNewClaim
<1>38. CASE RemoteRefused(p)
  <2>1. NoNewClaim
    BY <1>38, <1>b, <1>l, <1>c DEF RemoteRefused, Call
  <2> QED BY <2>1 DEF NoNewClaim
<1>38a. CASE RemoteKept(p)
  <2>1. NoNewClaim
    BY <1>38a, <1>b, <1>l, <1>c DEF RemoteKept, Goto, Call
  <2> QED BY <2>1 DEF NoNewClaim
<1>39. CASE RemoteAdoptRead(p)
  <2>1. NoNewClaim
    BY <1>39, <1>b, <1>l, <1>c DEF RemoteAdoptRead, Call
  <2> QED BY <2>1 DEF NoNewClaim
<1>40. CASE RemoteAdopt(p)
  <2>1. NoNewClaim
    BY <1>40, <1>b, <1>l, <1>c DEF RemoteAdopt, Call
  <2> QED BY <2>1 DEF NoNewClaim
<1>41. CASE RemoteStopSent(p)
  <2>1. NoNewClaim
    BY <1>41, <1>b, <1>l, <1>c DEF RemoteStopSent, Call
  <2> QED BY <2>1 DEF NoNewClaim
<1> QED BY <1>1, <1>2, <1>3, <1>4, <1>5, <1>6, <1>7, <1>8, <1>9, <1>10, <1>11,
       <1>12, <1>13, <1>14, <1>15, <1>16, <1>17, <1>18, <1>19, <1>20, <1>21, <1>22,
       <1>23, <1>24, <1>25, <1>26, <1>27, <1>28, <1>29, <1>30, <1>31, <1>32, <1>33,
       <1>34, <1>35, <1>36, <1>37, <1>38, <1>38a, <1>39, <1>40, <1>41 DEF BeginRequest, Step

\* Every step of a request keeps ClaimIsLocal:
\* a row that took on another session has another timestamp.
LEMMA ClaimLocalRequest ==
    ASSUME TypeOK, OwnersInv, IssuedInv, NEW p \in Calls,
           Poll(p) \/ TimerFires(p) \/ BeginRequest(p) \/ Step(p)
    PROVE  \A q \in Calls : ClaimIsLocal(q)'
<1>c. /\ row \in Row /\ clock \in Nat /\ call[p] \in Call /\ call \in [Calls -> Call]
      /\ row.activeStartedAt <= clock /\ row.activeStartedAt \in Nat
      /\ \A q \in Calls : call[q].s.activeStartedAt \in Nat
  BY DEF TypeOK, OwnersInv, Row, Call
<1>1. CASE Read(p)
  <2>1. UNCHANGED <<row, clock>> /\ \A q \in Calls \ {p} : call'[q] = call[q]
    BY <1>1, <1>c DEF Read, rowVars, Becomes
  <2>2. call'[p].s = row /\ (call'[p].pc = "claim" => ClaimDue(row))
    BY <1>1, <1>c DEF Read, Becomes, ResolveAt, Call
  <2>3. ClaimIsLocal(p)'
    <3>1. At(p, "claim")' => ~row'.activeIsRemote
      BY <2>1, <2>2 DEF At, ClaimDue
    <3>2. call'[p].s.activeStartedAt <= clock'
      BY <2>1, <2>2, <1>c
    <3> QED BY <3>1, <3>2 DEF ClaimIsLocal
  <2>4. \A q \in Calls \ {p} : ClaimIsLocal(q)'
    BY <2>1 DEF ClaimIsLocal, IssuedInv, At
  <2> QED BY <2>3, <2>4
<1>2. CASE \A q \in Calls : At(q, "claim")' => At(q, "claim") /\ call'[q].s = call[q].s
  <2> SUFFICES ASSUME NEW q \in Calls, At(q, "claim")'
               PROVE  /\ call[q].s.activeStartedAt <= clock'
                      /\ call[q].s.activeStartedAt = row'.activeStartedAt /\ ~row'.activeStartPending
                             => ~row'.activeIsRemote
    BY <1>2 DEF ClaimIsLocal
  <2>1. At(q, "claim") /\ call'[q].s = call[q].s /\ ClaimIsLocal(q)
    BY <1>2 DEF IssuedInv
  <2>2. /\ call[q].s.activeStartedAt <= clock /\ call[q].s.activeStartedAt \in Nat
        /\ call[q].s.activeStartedAt = row.activeStartedAt /\ ~row.activeStartPending
               => ~row.activeIsRemote
    BY <2>1, <1>c DEF ClaimIsLocal
  <2>3. CASE SessionStays
    BY <2>2, <2>3, <1>c DEF SessionStays, AttemptStays, Now
  <2>4. CASE AttemptEnds
    BY <2>2, <2>4, <1>c DEF AttemptEnds
  <2>5. CASE AttemptIsNew
    BY <2>2, <2>5, <1>c DEF AttemptIsNew, Now
  <2>6. CASE Adopt(p) /\ AttemptStays
    <3>1. UNCHANGED clock /\ (UNCHANGED row \/ row.activeStartPending)
      BY <2>6 DEF Adopt, StillClaimed
    <3> QED BY <2>2, <2>6, <3>1 DEF AttemptStays
  <2> QED BY <2>3, <2>4, <2>5, <2>6, RowSteps
<1> QED BY <1>1, <1>2, ClaimSteps

\* An owner that goes on as one, adopting nothing, writes nothing.
LEMMA OwnerProgress ==
    ASSUME TypeOK, NEW p \in Calls, call'[p].pc \in ClaimPCs,
           ~(Claim(p) /\ ClaimMatches(p)), ~Adopt(p),
           Poll(p) \/ TimerFires(p) \/ BeginRequest(p) \/ Step(p)
    PROVE  /\ UNCHANGED row
           /\ \/ call[p].pc \in Unreported /\ call'[p].pc \in Unreported \cup {"promote"}
              \/ call[p].pc = "accepted" /\ call'[p].pc = "promote"
              \/ call[p].pc = "adopted" /\ call'[p].pc = "promote" /\ call'[p].s = row
<1>c. call \in [Calls -> Call] /\ call[p] \in Call
  BY DEF TypeOK
<1>o. call[p].pc \in ClaimPCs
  BY OwnerSteps DEF NoNewOwner, Owns
<1>b. \A c : Becomes(p, c) => call'[p] = c
  BY <1>c DEF Becomes
<1>h. ~Again(p)
  BY <1>b, <1>c DEF Again, Call, ClaimPCs
<1>g. \A pc : Goto(p, pc) => call'[p].pc = pc
  BY <1>b, <1>c DEF Goto, Call
<1>1. CASE Poll(p)
  BY <1>1, <1>o DEF Poll, At, ClaimPCs
<1>2. CASE TimerFires(p)
  BY <1>2, <1>o DEF TimerFires, At, ClaimPCs
<1>3. CASE BeginStart(p)
  BY <1>3, <1>o DEF BeginStart, At, ClaimPCs, Begin
<1>4. CASE BeginRemoteStart(p)
  BY <1>4, <1>o DEF BeginRemoteStart, At, ClaimPCs, Begin
<1>5. CASE BeginRemoteStop(p)
  BY <1>5, <1>o DEF BeginRemoteStop, At, ClaimPCs, Begin
<1>6. CASE BeginStop(p)
  BY <1>6, <1>o DEF BeginStop, At, ClaimPCs, Begin
<1>7. CASE BeginOther(p)
  BY <1>7, <1>o DEF BeginOther, At, ClaimPCs, Begin
<1>8. CASE BeginClearFault(p)
  BY <1>8, <1>o DEF BeginClearFault, At, ClaimPCs, Begin
<1>9. CASE Read(p)
  BY <1>9, <1>o DEF Read, At, ClaimPCs
<1>10. CASE Reread(p)
  BY <1>10, <1>o DEF Reread, At, ClaimPCs
<1>11. CASE Expire(p)
  BY <1>11, <1>o DEF Expire, At, ClaimPCs
<1>12. CASE FinishHold(p)
  BY <1>12, <1>o DEF FinishHold, At, ClaimPCs
<1>13. CASE Claim(p)
  BY <1>13, <1>b, <1>g, <1>h, <1>o, <1>c DEF Claim, Call, ClaimPCs, Unreported, At,
    rowVars
<1>14. CASE ReadClaimed(p)
  BY <1>14, <1>b, <1>g, <1>h, <1>o, <1>c DEF ReadClaimed, Call, ClaimPCs,
    Unreported, At, rowVars
<1>15. CASE StartAccepted(p)
  BY <1>15, <1>b, <1>g, <1>h, <1>o, <1>c DEF StartAccepted, CsmsAccepts, Call,
    ClaimPCs, Unreported, At, rowVars
<1>16. CASE StartRejected(p)
  BY <1>16, <1>b, <1>g, <1>h, <1>o, <1>c DEF StartRejected, Call, ClaimPCs,
    Unreported, At, rowVars
<1>17. CASE StartFails(p)
  BY <1>17, <1>b, <1>g, <1>h, <1>o, <1>c DEF StartFails, Call, ClaimPCs, Unreported,
    At, rowVars
<1>18. CASE Reject(p)
  BY <1>18, <1>b, <1>g, <1>h, <1>o, <1>c DEF Reject, Call, ClaimPCs, Unreported, At,
    rowVars
<1>19. CASE Adopt(p)
  BY <1>19, <1>b, <1>g, <1>h, <1>o, <1>c DEF Adopt, Call, ClaimPCs, Unreported, At,
    rowVars
<1>20. CASE ReadAdopted(p)
  BY <1>20, <1>b, <1>g, <1>h, <1>o, <1>c DEF ReadAdopted, Call, ClaimPCs,
    Unreported, At, rowVars
<1>21. CASE CloseLost(p)
  BY <1>21, <1>b, <1>g, <1>h, <1>o, <1>c DEF CloseLost, Call, ClaimPCs, Unreported,
    At, rowVars
<1>22. CASE Promote(p)
  BY <1>22, <1>b, <1>g, <1>h, <1>o, <1>c DEF Promote, Call, ClaimPCs, Unreported,
    At, rowVars
<1>23. CASE ListBody(p)
  BY <1>23, <1>o DEF ListBody, At, ClaimPCs, Body
<1>24. CASE StartBody(p)
  BY <1>24, <1>o DEF StartBody, At, ClaimPCs, Body
<1>25. CASE StartThrows(p)
  BY <1>25, <1>o DEF StartThrows, At, ClaimPCs, Body
<1>26. CASE ConnectEvBody(p)
  BY <1>26, <1>o DEF ConnectEvBody, At, ClaimPCs, Body
<1>27. CASE DisconnectEvBody(p)
  BY <1>27, <1>o DEF DisconnectEvBody, At, ClaimPCs, Body
<1>28. CASE Unplugged(p)
  BY <1>28, <1>o DEF Unplugged, At, ClaimPCs
<1>29. CASE LockBody(p)
  BY <1>29, <1>o DEF LockBody, At, ClaimPCs, Body
<1>30. CASE Arm(p)
  BY <1>30, <1>o DEF Arm, At, ClaimPCs
<1>31. CASE ClearFault(p)
  BY <1>31, <1>o DEF ClearFault, At, ClaimPCs
<1>32. CASE StopThrows(p)
  BY <1>32, <1>o DEF StopThrows, At, ClaimPCs
<1>33. CASE StopNotify(p)
  BY <1>33, <1>o DEF StopNotify, At, ClaimPCs
<1>34. CASE StopClear(p)
  BY <1>34, <1>o DEF StopClear, At, ClaimPCs
<1>35. CASE RemoteWait(p)
  BY <1>35, <1>o DEF RemoteWait, At, ClaimPCs, Body
<1>36. CASE CancelRemote(p)
  BY <1>36, <1>o DEF CancelRemote, At, ClaimPCs
<1>37. CASE RemoteAccepted(p)
  BY <1>37, <1>o DEF RemoteAccepted, At, ClaimPCs
<1>38. CASE RemoteRefused(p)
  BY <1>38, <1>o DEF RemoteRefused, At, ClaimPCs
<1>38a. CASE RemoteKept(p)
  BY <1>38a, <1>o DEF RemoteKept, At, ClaimPCs
<1>39. CASE RemoteAdoptRead(p)
  BY <1>39, <1>o DEF RemoteAdoptRead, At, ClaimPCs
<1>40. CASE RemoteAdopt(p)
  BY <1>40, <1>o DEF RemoteAdopt, At, ClaimPCs
<1>41. CASE RemoteStopSent(p)
  BY <1>41, <1>o DEF RemoteStopSent, At, ClaimPCs
<1> QED BY <1>1, <1>2, <1>3, <1>4, <1>5, <1>6, <1>7, <1>8, <1>9, <1>10, <1>11,
       <1>12, <1>13, <1>14, <1>15, <1>16, <1>17, <1>18, <1>19, <1>20, <1>21, <1>22,
       <1>23, <1>24, <1>25, <1>26, <1>27, <1>28, <1>29, <1>30, <1>31, <1>32, <1>33,
       <1>34, <1>35, <1>36, <1>37, <1>38, <1>38a, <1>39, <1>40, <1>41 DEF BeginRequest, Step

\* A step of p moves no other request.
LEMMA OthersWait ==
    ASSUME TypeOK, NEW p \in Calls,
           Poll(p) \/ TimerFires(p) \/ BeginRequest(p) \/ Step(p)
    PROVE  \A q \in Calls \ {p} : call'[q] = call[q]
<1>b. \A c : Becomes(p, c) => \A q \in Calls \ {p} : call'[q] = call[q]
  BY DEF TypeOK, Becomes
<1>l. (Return(p) \/ List(p) \/ Release(p) \/ Again(p))
          => \A q \in Calls \ {p} : call'[q] = call[q]
  BY <1>b DEF Return, List, Release, Again
<1>g. \A pc : Goto(p, pc) => \A q \in Calls \ {p} : call'[q] = call[q]
  BY <1>b DEF Goto
<1>a. \A since : ArmLater(p, since) => \A q \in Calls \ {p} : call'[q] = call[q]
  BY <1>b DEF ArmLater
<1>1. CASE Poll(p)
  BY <1>1, <1>b, <1>l, <1>g, <1>a DEF Poll
<1>2. CASE TimerFires(p)
  BY <1>2, <1>b, <1>l, <1>g, <1>a DEF TimerFires
<1>3. CASE BeginStart(p)
  BY <1>3, <1>b, <1>l, <1>g, <1>a DEF BeginStart, Begin
<1>4. CASE BeginRemoteStart(p)
  BY <1>4, <1>b, <1>l, <1>g, <1>a DEF BeginRemoteStart, Begin
<1>5. CASE BeginRemoteStop(p)
  BY <1>5, <1>b, <1>l, <1>g, <1>a DEF BeginRemoteStop, Begin
<1>6. CASE BeginStop(p)
  BY <1>6, <1>b, <1>l, <1>g, <1>a DEF BeginStop, Begin
<1>7. CASE BeginOther(p)
  BY <1>7, <1>b, <1>l, <1>g, <1>a DEF BeginOther, Begin
<1>8. CASE BeginClearFault(p)
  BY <1>8, <1>b, <1>l, <1>g, <1>a DEF BeginClearFault, Begin
<1>9. CASE Read(p)
  BY <1>9, <1>b, <1>l, <1>g, <1>a DEF Read
<1>10. CASE Reread(p)
  BY <1>10, <1>b, <1>l, <1>g, <1>a DEF Reread
<1>11. CASE Expire(p)
  BY <1>11, <1>b, <1>l, <1>g, <1>a DEF Expire
<1>12. CASE FinishHold(p)
  BY <1>12, <1>b, <1>l, <1>g, <1>a DEF FinishHold
<1>13. CASE Claim(p)
  BY <1>13, <1>b, <1>l, <1>g, <1>a DEF Claim
<1>14. CASE ReadClaimed(p)
  BY <1>14, <1>b, <1>l, <1>g, <1>a DEF ReadClaimed
<1>15. CASE StartAccepted(p)
  BY <1>15, <1>b, <1>l, <1>g, <1>a DEF StartAccepted, CsmsAccepts
<1>16. CASE StartRejected(p)
  BY <1>16, <1>b, <1>l, <1>g, <1>a DEF StartRejected
<1>17. CASE StartFails(p)
  BY <1>17, <1>b, <1>l, <1>g, <1>a DEF StartFails
<1>18. CASE Reject(p)
  BY <1>18, <1>b, <1>l, <1>g, <1>a DEF Reject
<1>19. CASE Adopt(p)
  BY <1>19, <1>b, <1>l, <1>g, <1>a DEF Adopt
<1>20. CASE ReadAdopted(p)
  BY <1>20, <1>b, <1>l, <1>g, <1>a DEF ReadAdopted
<1>21. CASE CloseLost(p)
  BY <1>21, <1>b, <1>l, <1>g, <1>a DEF CloseLost
<1>22. CASE Promote(p)
  BY <1>22, <1>b, <1>l, <1>g, <1>a DEF Promote
<1>23. CASE ListBody(p)
  BY <1>23, <1>b, <1>l, <1>g, <1>a DEF ListBody
<1>24. CASE StartBody(p)
  BY <1>24, <1>b, <1>l, <1>g, <1>a DEF StartBody
<1>25. CASE StartThrows(p)
  BY <1>25, <1>b, <1>l, <1>g, <1>a DEF StartThrows
<1>26. CASE ConnectEvBody(p)
  BY <1>26, <1>b, <1>l, <1>g, <1>a DEF ConnectEvBody
<1>27. CASE DisconnectEvBody(p)
  BY <1>27, <1>b, <1>l, <1>g, <1>a DEF DisconnectEvBody
<1>28. CASE Unplugged(p)
  BY <1>28, <1>b, <1>l, <1>g, <1>a DEF Unplugged
<1>29. CASE LockBody(p)
  BY <1>29, <1>b, <1>l, <1>g, <1>a DEF LockBody
<1>30. CASE Arm(p)
  BY <1>30, <1>b, <1>l, <1>g, <1>a DEF Arm
<1>31. CASE ClearFault(p)
  BY <1>31, <1>b, <1>l, <1>g, <1>a DEF ClearFault
<1>32. CASE StopThrows(p)
  BY <1>32, <1>b, <1>l, <1>g, <1>a DEF StopThrows
<1>33. CASE StopNotify(p)
  BY <1>33, <1>b, <1>l, <1>g, <1>a DEF StopNotify
<1>34. CASE StopClear(p)
  BY <1>34, <1>b, <1>l, <1>g, <1>a DEF StopClear
<1>35. CASE RemoteWait(p)
  BY <1>35, <1>b, <1>l, <1>g, <1>a DEF RemoteWait
<1>36. CASE CancelRemote(p)
  BY <1>36, <1>b, <1>l, <1>g, <1>a DEF CancelRemote
<1>37. CASE RemoteAccepted(p)
  BY <1>37, <1>b, <1>l, <1>g, <1>a DEF RemoteAccepted, CsmsAccepts
<1>38. CASE RemoteRefused(p)
  BY <1>38, <1>b, <1>l, <1>g, <1>a DEF RemoteRefused
<1>38a. CASE RemoteKept(p)
  BY <1>38a, <1>b, <1>l, <1>g, <1>a DEF RemoteKept
<1>39. CASE RemoteAdoptRead(p)
  BY <1>39, <1>b, <1>l, <1>g, <1>a DEF RemoteAdoptRead
<1>40. CASE RemoteAdopt(p)
  BY <1>40, <1>b, <1>l, <1>g, <1>a DEF RemoteAdopt
<1>41. CASE RemoteStopSent(p)
  BY <1>41, <1>b, <1>l, <1>g, <1>a DEF RemoteStopSent
<1> QED BY <1>1, <1>2, <1>3, <1>4, <1>5, <1>6, <1>7, <1>8, <1>9, <1>10, <1>11,
       <1>12, <1>13, <1>14, <1>15, <1>16, <1>17, <1>18, <1>19, <1>20, <1>21, <1>22,
       <1>23, <1>24, <1>25, <1>26, <1>27, <1>28, <1>29, <1>30, <1>31, <1>32, <1>33,
       <1>34, <1>35, <1>36, <1>37, <1>38, <1>38a, <1>39, <1>40, <1>41 DEF BeginRequest, Step

\* Every step of a request keeps HeldTransaction.
LEMMA HeldRequest ==
    ASSUME TypeOK, RequestsPrepared, OwnersInv, IssuedInv, NEW p \in Calls,
           Poll(p) \/ TimerFires(p) \/ BeginRequest(p) \/ Step(p)
    PROVE  \A q \in Calls : HeldTransaction(q)'
<1>c. /\ row \in Row /\ clock \in Nat /\ call[p] \in Call /\ call \in [Calls -> Call]
      /\ \A q \in Calls : call[q].att \in Nat
      /\ \A q \in Calls \ {p} : call'[q] = call[q]
  <2>1. \A q \in Calls \ {p} : call'[q] = call[q]
    BY OthersWait DEF TypeOK
  <2> QED BY <2>1 DEF TypeOK, Call
<1> SUFFICES ASSUME NEW q \in Calls, Holds(q)' PROVE HeldTransaction(q)'
  BY DEF HeldTransaction
<1>1. CASE Claim(p) /\ ClaimMatches(p)
  <2>1. /\ call'[p].pc = "claimed" /\ row'.activeStartedAt = row.activeStartedAt
        /\ row'.activeIsRemote = row.activeIsRemote /\ ~row.activeStartPending
        /\ row.activeStartedAt = call[p].s.activeStartedAt /\ At(p, "claim")
    <3>1. row' = [row EXCEPT !.activeStartPending = TRUE,
                             !.transactionCounter = NextLocalId(call[p].s)]
      BY <1>1 DEF Claim
    <3>2. call'[p] = [call[p] EXCEPT !.pc = "claimed", !.att = call[p].s.activeStartedAt,
                                     !.attTag = call[p].s.activeIdTag,
                                     !.local = NextLocalId(call[p].s)]
      BY <1>1, <1>c DEF Claim, Becomes
    <3>3. call'[p].pc = "claimed"
      BY <3>2, <1>c DEF Call
    <3> QED BY <1>1, <3>1, <3>3, <1>c DEF Claim, ClaimMatches, Row
  <2>2. ~row.activeIsRemote
    BY <2>1 DEF IssuedInv, ClaimIsLocal
  <2>3. q # p => Holds(q)
    BY <2>1, <1>c DEF Holds, Owns
  <2>4. q = p
    BY <2>1, <2>3 DEF OwnersInv, OwnedAttempt, Holds
  <2> QED BY <2>1, <2>2, <2>4 DEF HeldTransaction
<1>2. CASE ~(Claim(p) /\ ClaimMatches(p))
  <2>1. Owns(q) /\ call'[q].att = call[q].att /\ call[q].att # 0 /\ call[q].att <= clock
    BY <1>2, OwnerSteps DEF NoNewOwner, Holds, OwnersInv, OwnedAttempt
  <2>2. ~AttemptEnds /\ ~AttemptIsNew
    BY <2>1, <1>c DEF AttemptEnds, AttemptIsNew, Holds, Now
  <2>3. CASE SessionStays /\ ~Adopt(p)
    <3>1. Holds(q) /\ HeldTransaction(q)
      BY <2>1, <2>3 DEF Holds, SessionStays, AttemptStays, IssuedInv
    <3>2. CASE q # p
      BY <3>1, <3>2, <2>3, <1>c DEF HeldTransaction, SessionStays
    <3>3. CASE q = p
      <4>1. call'[p].pc \in ClaimPCs
        BY <3>3 DEF Holds, Owns
      <4> QED BY <4>1, <3>1, <3>3, <1>2, <2>3, OwnerProgress DEF HeldTransaction,
             Unreported
    <3> QED BY <3>2, <3>3
  <2>4. CASE Adopt(p)
    <3>1. CASE StillClaimed(p)
      <4>1. /\ row'.activeStartedAt = row.activeStartedAt /\ call[p].att = row.activeStartedAt
            /\ row'.activeTransactionId = call[p].tx /\ At(p, "accepted")
            /\ call'[p].pc = "adopted"
        <5>1. /\ row' = [row EXCEPT !.activeTransactionId = call[p].tx,
                                    !.activeIsRemote = TRUE,
                                    !.transactionCounter =
                                        LaterOf(call[p].s.transactionCounter, call[p].tx)]
              /\ Goto(p, "adopted") /\ At(p, "accepted")
          BY <2>4, <3>1 DEF Adopt
        <5>2. call'[p].pc = "adopted"
          BY <5>1, <1>c DEF Goto, Becomes, Call
        <5> QED BY <5>1, <5>2, <3>1, <1>c DEF StillClaimed, Row
      <4>2. call[p].tx # 0 /\ Owns(p)
        BY <4>1 DEF RequestsPrepared, Prepared, At, Owns, ClaimPCs
      <4>3. q = p
        BY <2>1, <4>1, <4>2 DEF Holds, OwnersInv
      <4> QED BY <4>1, <4>2, <4>3 DEF HeldTransaction, Unreported
    <3>2. CASE ~StillClaimed(p)
      <4>1. UNCHANGED row /\ call'[p].pc = "closeLost" /\ At(p, "accepted")
        BY <2>4, <3>2, <1>c DEF Adopt, Goto, Becomes, Call
      <4>2. Holds(q) /\ HeldTransaction(q)
        BY <2>1, <4>1 DEF Holds, IssuedInv
      <4> QED BY <4>1, <4>2, <1>c DEF HeldTransaction, Unreported, At
    <3> QED BY <3>1, <3>2
  <2> QED BY <2>2, <2>3, <2>4, RowSteps
<1> QED BY <1>1, <1>2

\* A request that stands still holds what it held.
LEMMA StandStill ==
    ASSUME UNCHANGED <<row, clock, call>>, issued \subseteq issued', IssuedInv
    PROVE  /\ Reported(row)'
           /\ \A q \in Calls : (KnowsIssued(call[q]) /\ ClaimIsLocal(q) /\ HeldTransaction(q))'
<1>1. Reported(row)'
  BY DEF IssuedInv, Reported, Issued
<1>2. \A q \in Calls : KnowsIssued(call[q])'
  BY DEF IssuedInv, KnowsIssued, Reported, Issued
<1>3. \A q \in Calls : ClaimIsLocal(q)' /\ HeldTransaction(q)'
  BY DEF IssuedInv, ClaimIsLocal, HeldTransaction, Holds, Owns, At
<1> QED BY <1>1, <1>2, <1>3

\* A restart leaves no owner; the surroundings deliver stops and issue transactions.
LEMMA ReportsEnvironment ==
    ASSUME TypeOK, OwnersInv, IssuedInv, Environment
    PROVE  OwnersInv' /\ IssuedInv'
<1>c. /\ row \in Row /\ clock \in Nat /\ outbox \in Seq(Message)
      /\ \A q \in Calls : call[q].att \in Nat
  BY DEF TypeOK, Call
<1>1. CASE UNCHANGED <<row, clock, call, started, remoteTx, issued, outbox>>
  <2>1. NoNewOwner /\ AttemptStays
    BY <1>1 DEF NoNewOwner, AttemptStays, Owns, At
  <2>2. OwnersInv'
    BY <1>1, <2>1, OwnersStay
  <2>3. Issued(remoteTx)' /\ StopsIssued'
    BY <1>1 DEF IssuedInv, Issued, StopsIssued
  <2> QED BY <1>1, <2>2, <2>3, StandStill DEF IssuedInv
<1>2. CASE Deliver
  <2>1. UNCHANGED <<row, clock, call, started, remoteTx>> /\ issued \subseteq issued'
    BY <1>2 DEF Deliver, rowVars
  <2>2. NoNewOwner /\ AttemptStays
    BY <2>1 DEF NoNewOwner, AttemptStays, Owns, At
  <2>3. OwnersInv'
    BY <2>1, <2>2, OwnersStay
  <2>4. Issued(remoteTx)'
    BY <2>1 DEF IssuedInv, Issued
  <2>5. StopsIssued'
    <3>1. outbox # <<>> /\ outbox' = Tail(outbox)
      BY <1>2 DEF Deliver
    <3>2. \A i \in DOMAIN outbox' : i + 1 \in DOMAIN outbox /\ outbox'[i] = outbox[i + 1]
      BY <3>1, <1>c
    <3> QED BY <2>1, <3>2 DEF IssuedInv, StopsIssued
  <2> QED BY <2>1, <2>3, <2>4, <2>5, StandStill DEF IssuedInv
<1>3. CASE Crash
  <2>1. /\ UNCHANGED <<row, clock, started, issued, outbox>> /\ remoteTx' = 0
        /\ \A q \in Calls : call'[q] = Idle
    BY <1>3 DEF Crash, csmsVars
  <2>2. \A q \in Calls : ~Owns(q)' /\ ~At(q, "claim")'
    BY <2>1 DEF Owns, At, Idle, ClaimPCs
  <2>3. OwnersInv'
    BY <2>1, <2>2, OwnersStay DEF NoNewOwner, AttemptStays
  <2>4. Reported(row)' /\ Issued(remoteTx)' /\ StopsIssued'
    BY <2>1 DEF IssuedInv, Reported, Issued, StopsIssued
  <2>5. \A q \in Calls : KnowsIssued(call[q])'
    BY <2>1 DEF KnowsIssued, Reported, Issued, Idle, FreshRow
  <2>6. \A q \in Calls : ClaimIsLocal(q)' /\ HeldTransaction(q)'
    BY <2>2 DEF ClaimIsLocal, HeldTransaction, Holds
  <2> QED BY <2>3, <2>4, <2>5, <2>6 DEF IssuedInv
<1>4. CASE CreateEntry
  <2>1. UNCHANGED <<clock, call, started, remoteTx, issued, outbox>>
    BY <1>4 DEF CreateEntry, csmsVars
  <2>2. CASE UNCHANGED row
    BY <2>1, <2>2, <1>1
  <2>3. CASE row' = Released(row, "Available")
    <3>1. AttemptEnds
      BY <2>1, <2>3, <1>c DEF AttemptEnds, Released, Row
    <3>2. OwnersInv'
      BY <2>1, <3>1, OwnersStay DEF NoNewOwner, Owns, At
    <3>3. Reported(row)' /\ Issued(remoteTx)' /\ StopsIssued'
      BY <2>1, <3>1 DEF AttemptEnds, IssuedInv, Reported, Issued, StopsIssued
    <3>4. \A q \in Calls : KnowsIssued(call[q])'
      BY <2>1 DEF IssuedInv, KnowsIssued, Reported, Issued
    <3>5. \A q \in Calls : ClaimIsLocal(q)'
      BY <2>1, <3>1 DEF AttemptEnds, IssuedInv, ClaimIsLocal, At
    <3>6. \A q \in Calls : ~Holds(q)'
      BY <2>1, <3>1 DEF AttemptEnds, OwnersInv, OwnedAttempt, Holds, Owns
    <3>7. \A q \in Calls : HeldTransaction(q)'
      BY <3>6 DEF HeldTransaction
    <3> QED BY <3>2, <3>3, <3>4, <3>5, <3>7 DEF IssuedInv
  <2> QED BY <1>4, <2>2, <2>3 DEF CreateEntry
<1>5. TimePasses \/ LinkUp \/ LinkDown
          => UNCHANGED <<row, clock, call, started, remoteTx, issued, outbox>>
  BY DEF TimePasses, LinkUp, LinkDown, rowVars, csmsVars
<1> QED BY <1>1, <1>2, <1>3, <1>4, <1>5 DEF Environment

\* The inductive invariant of this module.
ReportInv == RowInv /\ OwnersInv /\ IssuedInv

\* It holds at first,
LEMMA ReportInvInit == Init => ReportInv
<1> SUFFICES ASSUME Init PROVE ReportInv
  OBVIOUS
<1>1. OwnersInv
  BY DEF Init, OwnersInv, OneStartPerAttempt, FreshRow, Owns, Idle, ClaimPCs
<1>2. IssuedInv
  BY DEF Init, IssuedInv, Reported, Issued, StopsIssued, KnowsIssued, ClaimIsLocal,
         HeldTransaction, Holds, Owns, At, FreshRow, Idle, ClaimPCs
<1> QED BY <1>1, <1>2, RowInvInit DEF ReportInv

\* and every step keeps it.
LEMMA ReportInvStep == ReportInv /\ [Next]_vars => ReportInv'
<1> SUFFICES ASSUME ReportInv, [Next]_vars PROVE ReportInv'
  OBVIOUS
<1>0. TypeOK /\ RequestsPrepared /\ OwnersInv /\ IssuedInv /\ RowInv'
  BY RowInvStep DEF ReportInv, RowInv
<1>1. CASE \E p \in Calls : Poll(p) \/ TimerFires(p) \/ BeginRequest(p) \/ Step(p)
  <2>1. OwnersInv'
    BY <1>0, <1>1, OwnersRequest
  <2>2. Reported(row)' /\ Issued(remoteTx)' /\ StopsIssued'
    BY <1>0, <1>1, ReportedRequest, RemoteRequest, StopsRequest
  <2>3. \A q \in Calls : KnowsIssued(call[q])' /\ ClaimIsLocal(q)' /\ HeldTransaction(q)'
    BY <1>0, <1>1, KnowsRequest, ClaimLocalRequest, HeldRequest
  <2> QED BY <1>0, <2>1, <2>2, <2>3 DEF ReportInv, IssuedInv
<1>2. CASE Environment
  BY <1>0, <1>2, ReportsEnvironment DEF ReportInv
<1>3. CASE UNCHANGED vars
  <2>1. OwnersInv'
    BY <1>0, <1>3, OwnersStay DEF NoNewOwner, AttemptStays, Owns, At, vars
  <2>2. Issued(remoteTx)' /\ StopsIssued'
    BY <1>0, <1>3 DEF IssuedInv, Issued, StopsIssued, vars
  <2> QED BY <1>0, <1>3, <2>1, <2>2, StandStill DEF ReportInv, IssuedInv, vars
<1> QED BY <1>1, <1>2, <1>3 DEF Next

\* Attempts have one owner and remote ids are issued in every reachable state.
THEOREM ReportInvCorrect == Spec => []ReportInv
  BY ReportInvInit, ReportInvStep, PTL DEF Spec

\* However many pollers find the handshake complete, an attempt is reported by one
\* StartTransaction (OneStartPerAttempt, connector-sessions.ts:325-343).
THEOREM AttemptReportedOnce == Spec => []OneStartPerAttempt
<1>1. ReportInv => OneStartPerAttempt
  BY DEF ReportInv, OwnersInv
<1> QED BY <1>1, ReportInvCorrect, PTL

\* A stop that is sent names a transaction the CSMS has issued: the row's, when it is
\* marked remote, and every queued one (StopNamesIssuedTransaction).
THEOREM StopsNameIssued == Spec => []StopNamesIssuedTransaction
<1>1. ReportInv => StopNamesIssuedTransaction
  BY DEF ReportInv, IssuedInv, Reported, Issued, StopsIssued, StopNamesIssuedTransaction
<1> QED BY <1>1, ReportInvCorrect, PTL
=============================================================================

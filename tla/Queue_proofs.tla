---------------------------- MODULE Queue_proofs ----------------------------
(***************************************************************************)
(* Proofs about Queue, for any number of messages, nodes and rules and any *)
(* lease, limits and slowness of the workers: the inductive invariant,     *)
(* type correctness, the rows of queue, its log and the customer status,   *)
(* which move together, then leases, the budget of attempts, holds and     *)
(* notices to the sender, and the theorems.                                *)
(***************************************************************************)
EXTENDS Queue, TLAPS

Kinds == {"delivered", "failed", "dropped"}

(* The inductive invariant: the properties, and what they rest on. *)

\* A message has no history before its submission commits.
IdsFresh ==
    \A m \in Msgs :
      /\ m \notin used => staged[m] = "no"
      /\ m \notin used \/ staged[m] # "no" =>
           /\ m \notin enqueued /\ m \notin logHeld /\ m \notin held /\ m \notin delayed
           /\ attempts[m] = 0 /\ leasedBy[m] = None
           /\ terminal[m] = <<>> /\ warnings[m] = 0 /\ status[m] = "none"
           /\ failNotices[m] = 0 /\ delayNotices[m] = 0
      /\ m \in enqueued => m \in used /\ staged[m] = "no"

\* A failure notice that is owed is owed by one process, for a message settled
\* as failed, and was not sent yet.
FailOwed ==
    /\ \A n \in Nodes : pc[n] = "onFailed" =>
         /\ terminal[cur[n]] = <<"failed">> /\ failNotices[cur[n]] = 0
         /\ dsn # cur[n]
         /\ \A k \in Nodes : pc[k] = "onFailed" /\ cur[k] = cur[n] => k = n
    /\ dsn # None => terminal[dsn] = <<"failed">> /\ failNotices[dsn] = 0

\* delayed_dsn records what the log and the hook calls say.
DelayOwed ==
    /\ \A m \in Msgs :
         /\ warnings[m] \in {0, 1} /\ delayNotices[m] \in {0, 1}
         /\ m \in live => (m \in delayed <=> warnings[m] = 1)
         /\ m \in live /\ delayNotices[m] = 1 => warnings[m] = 1
    /\ \A n \in Nodes : pc[n] = "onDelayed" =>
         /\ warnings[cur[n]] = 1 /\ delayNotices[cur[n]] = 0
         /\ \A k \in Nodes : pc[k] = "onDelayed" /\ cur[k] = cur[n] => k = n

\* A worker that is to retire a message as delivered saw Deliver return nil.
OutcomeCarried ==
    \A n \in Nodes : pc[n] \in {"record", "finish"} /\ out[n] = "ok" => cur[n] \in accepted

IInv ==
    /\ TypeOK /\ ProjectionIsFold /\ IdsFresh
    /\ OutcomeAgrees
    /\ OutcomeCarried /\ DeliveredMeansAccepted
    /\ FenceIdentifiesAttempt /\ BudgetLeft
    /\ FailOwed /\ FailureNoticeOnce
    /\ DelayOwed
    /\ LoggedHoldKept

-----------------------------------------------------------------------------
(* Type correctness. *)

\* The initial state has the types.
LEMMA TypeInit == Init => TypeOK
  BY QueueAssumption DEF Init, TypeOK, TableType, LogType, WorkerType, RestType,
     Busy

-----------------------------------------------------------------------------
(* Timely workers: a lease outlasts the delivery made under it. *)

Sending == {"start", "deliver"}

\* A worker between renewLease and the end of Deliver has its message to
\* itself, and holds a lease that covers the time it may still take.
LeaseOutlasts ==
    \A n \in Nodes : pc[n] \in Sending =>
      /\ cur[n] \in used /\ staged[cur[n]] = "no"
      /\ \A k \in Nodes : pc[k] \in Sending /\ cur[k] = cur[n] => k = n
      /\ cur[n] \in live =>
           /\ leasedBy[cur[n]] = n
           /\ pc[n] = "start" => lease[cur[n]] >= left[n] + deliveryTimeout
           /\ pc[n] = "deliver" => lease[cur[n]] >= left[n]

\* A step leaves the workers that are sending, their rows and leases alone.
Undisturbed ==
    \A n \in Nodes : pc'[n] \in Sending =>
      /\ pc[n] = pc'[n] /\ cur'[n] = cur[n] /\ left'[n] = left[n]
      /\ cur[n] \in used' /\ staged'[cur[n]] = "no"
      /\ cur[n] \in live' => /\ cur[n] \in live
                             /\ leasedBy'[cur[n]] = leasedBy[cur[n]]
                             /\ lease'[cur[n]] = lease[cur[n]]

\* What the invariant says of a row: its submission committed.
RowsCommitted == \A m \in live : m \in used /\ staged[m] = "no"

\* deliveryTimeout is a duration.
LEMMA TimeoutType == deliveryTimeout \in Nat
  BY QueueAssumption DEF deliveryTimeout, MaxOf

\* A step that disturbs no lease and no countdown keeps LeaseOutlasts.
LEMMA OutlastsUndisturbed ==
  ASSUME LeaseOutlasts, Undisturbed
  PROVE  LeaseOutlasts'
  BY DEF LeaseOutlasts, Undisturbed, Sending

\* A renewed lease is long enough for the delivery it is renewed for.
LEMMA OutlastsRenew ==
  ASSUME TypeOK, LeaseOutlasts, RowsCommitted, StartSlack + deliveryTimeout <= Lease,
         NEW n \in Nodes, NEW m \in Msgs, renewLease(n, m)
  PROVE  LeaseOutlasts'
  <1>1. \A k \in Nodes : pc[k] \in Sending => cur[k] # m
      BY DEF LeaseOutlasts, renewLease, StillLeased, Sending
  <1>2. \A k \in Nodes : k # n => pc'[k] = pc[k] /\ cur'[k] = cur[k] /\ left'[k] = left[k]
      BY Zenon DEF renewLease, TypeOK, WorkerType
  <1>3. pc'[n] = "start" /\ cur'[n] = m /\ left'[n] = StartSlack
      BY Zenon DEF renewLease, TypeOK, WorkerType
  <1>4. /\ m \in used /\ staged[m] = "no" /\ leasedBy[m] = n /\ lease'[m] = Lease
        /\ \A x \in Msgs : x # m => lease'[x] = lease[x]
        /\ UNCHANGED <<live, leasedBy, used, staged>>
      BY Zenon DEF renewLease, StillLeased, RowsCommitted, TypeOK, TableType, submission
  <1>5. \A k \in Nodes : pc[k] \in Sending => cur[k] \in Msgs
      BY Zenon DEF TypeOK, WorkerType, Busy, Sending
  <1> QED
      BY <1>1, <1>2, <1>3, <1>4, <1>5 DEF LeaseOutlasts, Sending

\* A delivery that starts in time ends within the lease.
LEMMA OutlastsStart ==
  ASSUME TypeOK, LeaseOutlasts, NEW n \in Nodes, DeliverStart(n)
  PROVE  LeaseOutlasts'
  <1>1. \A k \in Nodes : k # n => pc'[k] = pc[k] /\ left'[k] = left[k]
      BY Zenon DEF DeliverStart, TypeOK, WorkerType
  <1>2. pc[n] = "start" /\ pc'[n] = "deliver" /\ left'[n] = deliveryTimeout /\ left[n] \in Nat
      BY Zenon DEF DeliverStart, TypeOK, WorkerType
  <1>3. UNCHANGED <<live, leasedBy, lease, used, staged, cur>>
      BY Zenon DEF DeliverStart, table, submission
  <1>4. cur[n] \in Msgs /\ lease[cur[n]] \in Int
      BY <1>2, QueueAssumption DEF TypeOK, TableType, WorkerType, Busy
  <1> QED
      BY <1>1, <1>2, <1>3, <1>4, TimeoutType DEF LeaseOutlasts, Sending

\* Time runs for the lease and for the worker alike.
LEMMA OutlastsTick ==
  ASSUME TypeOK, LeaseOutlasts, Timely, Tick
  PROVE  LeaseOutlasts'
  <1>1. UNCHANGED <<live, leasedBy, used, staged, pc, cur>>
      BY Zenon DEF Tick, submission
  <1>2. ASSUME NEW n \in Nodes, pc[n] \in Sending
        PROVE  /\ left[n] \in Nat /\ left'[n] = left[n] - 1
               /\ cur[n] \in Msgs /\ lease[cur[n]] \in Int
               /\ lease'[cur[n]] >= lease[cur[n]] - 1 /\ lease'[cur[n]] \in Int
    <2>1. left[n] \in Nat /\ cur[n] \in Msgs /\ lease[cur[n]] \in Int
        BY <1>2, QueueAssumption DEF TypeOK, TableType, WorkerType, Busy, Sending
    <2>2. left[n] # 0
        BY Zenon, <1>2 DEF Tick, Hurried, Sending
    <2> QED
        BY <2>1, <2>2 DEF Tick, MaxOf
  <1> QED
      BY <1>1, <1>2, TimeoutType DEF LeaseOutlasts, Sending

\* Steps that leave the workers alone: what they do to rows they do to rows
\* of other messages, or by deleting them.
LEMMA UndisturbedRows ==
  ASSUME TypeOK, LeaseOutlasts, UNCHANGED <<pc, cur, left>>,
         \A m \in used : staged[m] = "no" =>
           /\ m \in used' /\ staged'[m] = "no"
           /\ m \in live' => /\ m \in live /\ leasedBy'[m] = leasedBy[m]
                             /\ lease'[m] = lease[m]
  PROVE  Undisturbed
  BY Zenon DEF LeaseOutlasts, Undisturbed

\* All other steps leave leases and countdowns of deliveries alone.
LEMMA UndisturbedOthers ==
  ASSUME TypeOK, LeaseOutlasts, [Next]_vars,
         \A n \in Nodes : ~DeliverStart(n) /\ \A m \in Msgs : ~renewLease(n, m),
         ~Tick
  PROVE  Undisturbed
  <1>1. ASSUME NEW m \in Msgs, EnqueueTx(m) PROVE Undisturbed
      BY Zenon, <1>1, UndisturbedRows DEF EnqueueTx, TypeOK, RestType, table, worker
  <1>2. ASSUME EnqueueCommit PROVE Undisturbed
      BY Zenon, <1>2, UndisturbedRows DEF EnqueueCommit, TypeOK, RestType, worker
  <1>3. ASSUME EnqueueAbort PROVE Undisturbed
      BY Zenon, <1>3, UndisturbedRows DEF EnqueueAbort, TypeOK, RestType, table, worker
  <1>4. ASSUME NEW S \in SUBSET Msgs, NEW kind, Remove(S, kind),
               UNCHANGED <<used, staged>>,
               \A n \in Nodes : pc'[n] \in Sending =>
                 pc[n] = pc'[n] /\ cur'[n] = cur[n] /\ left'[n] = left[n]
        PROVE  Undisturbed
      BY Zenon, <1>4 DEF Remove, Put, LeaseOutlasts, Undisturbed, TypeOK, TableType, WorkerType,
         Busy, Sending
  <1>5. ASSUME UNCHANGED <<live, leasedBy, lease, used, staged>>,
               \A n \in Nodes : pc'[n] \in Sending =>
                 pc[n] = pc'[n] /\ cur'[n] = cur[n] /\ left'[n] = left[n]
        PROVE  Undisturbed
      BY Zenon, <1>5 DEF LeaseOutlasts, Undisturbed
  <1>6. ASSUME NEW n \in Nodes, claim(n) PROVE Undisturbed
    <2>1. PICK S \in SUBSET {m \in Msgs : Due(m)} :
            leasedBy' = Put(leasedBy, S, n) /\ lease' = Put(lease, S, Lease)
        BY Zenon, <1>6 DEF claim
    <2>2. ASSUME NEW k \in Nodes, pc[k] \in Sending, cur[k] \in live PROVE cur[k] \notin S
        BY <2>1, <2>2, QueueAssumption, TimeoutType DEF LeaseOutlasts, Due, TypeOK, TableType,
           WorkerType, Busy, Sending
    <2>3. \A k \in Nodes : pc[k] \in Sending => left'[k] = left[k]
        BY Zenon, <1>6 DEF claim, TypeOK, WorkerType, Sending
    <2>4. UNCHANGED <<live, pc, cur, used, staged>>
        BY Zenon, <1>6 DEF claim, submission
    <2> QED
        BY Zenon, <2>1, <2>2, <2>3, <2>4 DEF LeaseOutlasts, Undisturbed, Put, TypeOK, WorkerType,
           Busy, Sending
  <1>7. ASSUME NEW n \in Nodes,
               (\E m \in Msgs : RenewLost(n, m) \/ RenewError(n, m)) \/ DeliverEnd(n)
                 \/ recordResult(n) \/ RecordError(n) \/ FinishError(n) \/ OnFailed(n)
                 \/ OnDelayed(n) \/ Crash(n)
        PROVE  Undisturbed
    <2>1. UNCHANGED <<live, leasedBy, lease, used, staged>>
        BY Zenon, <1>7 DEF RenewLost, RenewError, Skip, DeliverEnd, recordResult,
           RecordError, FinishError, OnFailed, OnDelayed, Crash, table, submission
    <2>2. \A k \in Nodes : pc'[k] \in Sending =>
            pc[k] = pc'[k] /\ cur'[k] = cur[k] /\ left'[k] = left[k]
        BY <1>7 DEF RenewLost, RenewError, Skip, DeliverEnd, recordResult, RecordError,
           FinishError, OnFailed, OnDelayed, Crash, NextMsg, Sending, TypeOK, WorkerType
    <2> QED
        BY Zenon, <1>5, <2>1, <2>2
  <1>8. ASSUME NEW n \in Nodes, pc[n] = "finish", NextMsg(n) \/ \E h \in Busy \ Sending : Hooked(n, h)
        PROVE  \A k \in Nodes : pc'[k] \in Sending =>
                 pc[k] = pc'[k] /\ cur'[k] = cur[k] /\ left'[k] = left[k]
      BY ZenonT(60), <1>8 DEF NextMsg, Hooked, Sending, TypeOK, WorkerType
  <1>9. ASSUME NEW n \in Nodes, FinishDelivered(n) \/ GiveUp(n) PROVE Undisturbed
    <2>1. pc[n] = "finish" /\ UNCHANGED <<used, staged>> /\ cur[n] \in Msgs
        BY Zenon, <1>9 DEF FinishDelivered, GiveUp, submission, TypeOK, WorkerType, Busy
    <2>2. NextMsg(n) \/ Hooked(n, "onFailed")
        BY Zenon, <1>9 DEF FinishDelivered, GiveUp
    <2>3. Remove({cur[n]}, "delivered") \/ Remove({cur[n]}, "failed")
            \/ UNCHANGED <<live, leasedBy, lease>>
        BY Zenon, <1>9 DEF FinishDelivered, GiveUp, retire, table
    <2>4. \A k \in Nodes : pc'[k] \in Sending =>
            pc[k] = pc'[k] /\ cur'[k] = cur[k] /\ left'[k] = left[k]
        BY Zenon, <1>8, <2>1, <2>2 DEF Busy, Sending
    <2> QED
        BY Zenon, <1>4, <1>5, <2>1, <2>3, <2>4
  <1>10. ASSUME NEW n \in Nodes, reschedule(n) PROVE Undisturbed
    <2>1. pc[n] = "finish" /\ UNCHANGED <<used, staged>> /\ cur[n] \in Msgs
        BY Zenon, <1>10 DEF reschedule, submission, TypeOK, WorkerType, Busy
    <2>2. NextMsg(n) \/ Hooked(n, "onDelayed")
        BY Zenon, <1>10 DEF reschedule, Retry
    <2>3. \A k \in Nodes : pc'[k] \in Sending =>
            pc[k] = pc'[k] /\ cur'[k] = cur[k] /\ left'[k] = left[k]
        BY Zenon, <1>8, <2>1, <2>2 DEF Busy, Sending
    <2>4. CASE Owns(n, cur[n])
      <3>1. /\ live' = live
            /\ leasedBy' = [leasedBy EXCEPT ![cur[n]] = None]
            /\ lease' = [lease EXCEPT ![cur[n]] = -1]
          BY Zenon, <1>10, <2>4 DEF reschedule, Retry
      <3>2. \A k \in Nodes : pc[k] \in Sending => cur[k] # cur[n]
          BY Zenon, <2>1, <2>4 DEF LeaseOutlasts, Owns, Sending
      <3> QED
          BY SMTT(30), <2>1, <2>3, <3>1, <3>2 DEF LeaseOutlasts, Undisturbed, TypeOK, TableType
    <2>5. CASE ~Owns(n, cur[n])
      <3>1. UNCHANGED <<live, leasedBy, lease>>
          BY Zenon, <1>10, <2>5 DEF reschedule, table
      <3> QED
          BY Zenon, <1>5, <2>1, <2>3, <3>1
    <2> QED
        BY Zenon, <2>4, <2>5
  <1>11. ASSUME NEW S \in SUBSET Msgs, Drop(S) PROVE Undisturbed
    <2>1. Remove(S \cap live, "dropped") /\ UNCHANGED <<used, staged, pc, cur, left>>
        BY Zenon, <1>11 DEF Drop, submission, worker
    <2> QED
        BY Zenon, <1>4, <2>1
  <1>12. ASSUME NEW m \in Msgs, FailRow(m) PROVE Undisturbed
    <2>1. /\ Remove({m}, "failed") \/ UNCHANGED <<live, leasedBy, lease>>
          /\ UNCHANGED <<used, staged, pc, cur, left>>
        BY Zenon, <1>12 DEF FailRow, submission, worker, table
    <2> QED
        BY Zenon, <1>4, <1>5, <2>1
  <1>13. ASSUME \/ FailDSN \/ FailCrash \/ UNCHANGED vars
                \/ \E m \in Msgs : GrowOld(m) \/ CleanupRetired(m)
                \/ \E S \in SUBSET Msgs : \/ Kick(S) \/ Schedule(S) \/ FailSelect(S)
                                          \/ \E h \in BOOLEAN : HoldSet(S, h)
                \/ \E r \in Rules : HoldRuleAdd(r) \/ HoldRuleRemove(r)
         PROVE  Undisturbed
    <2>1. UNCHANGED <<live, leasedBy, lease, used, staged, pc, cur, left>>
        BY Zenon, <1>13 DEF FailDSN, FailCrash, GrowOld, CleanupRetired, Kick, Schedule,
           FailSelect, HoldSet, HoldRuleAdd, HoldRuleRemove, vars, table, submission, worker
    <2> QED
        BY Zenon, <1>5, <2>1
  <1> QED
      BY Zenon, <1>1, <1>2, <1>3, <1>6, <1>7, <1>9, <1>10, <1>11, <1>12, <1>13
         DEF Next, WorkerStep, FaultStep, AdminStep

\* Every step keeps LeaseOutlasts.
LEMMA OutlastsNext ==
  ASSUME Timely, StartSlack + deliveryTimeout <= Lease,
         TypeOK, RowsCommitted, LeaseOutlasts, [Next]_vars
  PROVE  LeaseOutlasts'
  BY Zenon, OutlastsRenew, OutlastsStart, OutlastsTick, UndisturbedOthers,
     OutlastsUndisturbed

\* The rows keep their types.
LEMMA TableTypeNext ==
  ASSUME TypeOK, [Next]_vars
  PROVE  TableType'
  <1>1. ASSUME UNCHANGED table PROVE TableType'
      BY Zenon, <1>1 DEF TypeOK, TableType, table
  <1>2. ASSUME NEW S \in SUBSET Msgs, NEW kind, Remove(S, kind) PROVE TableType'
      BY <1>2, QueueAssumption DEF TypeOK, TableType, Remove, Put
  <1>3. ASSUME EnqueueCommit PROVE TableType'
      BY <1>3, QueueAssumption DEF TypeOK, TableType, EnqueueCommit, Put
  <1>4. ASSUME NEW n \in Nodes, claim(n) PROVE TableType'
      BY <1>4, QueueAssumption DEF TypeOK, TableType, claim, Put
  <1>5. ASSUME NEW n \in Nodes, NEW m \in Msgs, renewLease(n, m) PROVE TableType'
      BY <1>5, QueueAssumption DEF TypeOK, TableType, renewLease, Put
  <1>6. ASSUME NEW n \in Nodes, FinishDelivered(n) \/ GiveUp(n) PROVE TableType'
      BY Zenon, <1>1, <1>2, <1>6 DEF FinishDelivered, GiveUp, retire, Owns, TypeOK, TableType
  <1>7. ASSUME NEW n \in Nodes, NEW m \in live, Retry(n, m) PROVE TableType'
      BY SMTT(30), <1>7, QueueAssumption DEF TypeOK, TableType, Retry
  <1>8. ASSUME NEW n \in Nodes, reschedule(n) PROVE TableType'
      BY Zenon, <1>1, <1>7, <1>8 DEF reschedule, Owns
  <1>9. ASSUME NEW S \in SUBSET Msgs, Kick(S) \/ Schedule(S) PROVE TableType'
      BY <1>9, QueueAssumption DEF TypeOK, TableType, Kick, Schedule, SetHold, Put
  <1>10. ASSUME NEW S \in SUBSET Msgs, NEW h \in BOOLEAN, HoldSet(S, h) PROVE TableType'
      BY Zenon, <1>10 DEF TypeOK, TableType, HoldSet, SetHold
  <1>11. ASSUME NEW S \in SUBSET Msgs, Drop(S) PROVE TableType'
      BY Zenon, <1>2, <1>11 DEF Drop
  <1>12. ASSUME NEW m \in Msgs, FailRow(m) PROVE TableType'
      BY Zenon, <1>1, <1>2, <1>12 DEF FailRow
  <1>13. ASSUME NEW r \in Rules, HoldRuleAdd(r) PROVE TableType'
      BY Zenon, <1>13, QueueAssumption DEF TypeOK, TableType, HoldRuleAdd
  <1>14. ASSUME Tick PROVE TableType'
      BY <1>14, QueueAssumption DEF TypeOK, TableType, Tick, MaxOf
  <1>15. ASSUME \/ EnqueueAbort \/ FailDSN \/ FailCrash
                \/ \E m \in Msgs : EnqueueTx(m) \/ GrowOld(m) \/ CleanupRetired(m)
                \/ \E n \in Nodes : \/ \E m \in Msgs : RenewLost(n, m) \/ RenewError(n, m)
                                    \/ DeliverStart(n) \/ DeliverEnd(n) \/ recordResult(n)
                                    \/ RecordError(n) \/ FinishError(n) \/ OnFailed(n)
                                    \/ OnDelayed(n) \/ Crash(n)
                \/ \E S \in SUBSET Msgs : FailSelect(S)
                \/ \E r \in Rules : HoldRuleRemove(r)
                \/ UNCHANGED vars
         PROVE  UNCHANGED table
      BY ZenonT(60), <1>15 DEF EnqueueAbort, FailDSN, FailCrash, EnqueueTx, GrowOld,
         CleanupRetired, RenewLost, RenewError, Skip, DeliverStart, DeliverEnd,
         recordResult, RecordError, FinishError, OnFailed, OnDelayed, Crash, FailSelect,
         HoldRuleRemove, vars
  <1> QED
      BY Zenon, <1>1, <1>3, <1>4, <1>5, <1>6, <1>8, <1>9, <1>10, <1>11, <1>12, <1>13,
         <1>14, <1>15 DEF Next, WorkerStep, FaultStep, AdminStep

\* So do the log and the customer's view.
LEMMA LogTypeNext ==
  ASSUME TypeOK, [Next]_vars
  PROVE  LogType'
  <1>1. ASSUME UNCHANGED <<journal, customer>> PROVE LogType'
      BY Zenon, <1>1 DEF TypeOK, LogType, journal, customer
  <1>2. ASSUME NEW S \in SUBSET Msgs, NEW kind \in Kinds, Remove(S, kind) PROVE LogType'
    <2>1. terminal' \in [Msgs -> Seq({"delivered", "failed", "dropped"})]
        BY <1>2 DEF TypeOK, LogType, Kinds, Remove, Settle
    <2>2. status' \in [Msgs -> {"none", "queued", "delivering", "retrying",
                                "delivered", "failed"}]
        BY Zenon, <1>2 DEF TypeOK, LogType, Kinds, Remove, Settle, Put
    <2> QED
        BY Zenon, <1>2, <2>1, <2>2 DEF TypeOK, LogType, Remove
  <1>3. ASSUME EnqueueCommit PROVE LogType'
      BY Zenon, <1>3 DEF TypeOK, LogType, EnqueueCommit, Put
  <1>4. ASSUME NEW n \in Nodes, NEW m \in Msgs, renewLease(n, m) PROVE LogType'
    <2>1. 0 .. AttemptCap = {i \in Nat : i <= AttemptCap}
        BY QueueAssumption
    <2>2. attempts[m] + 1 \in Nat
      <3>1. attempts[m] \in 0 .. AttemptCap
          BY Zenon DEF TypeOK, TableType
      <3> QED
          BY <3>1, QueueAssumption
    <2> QED
        BY Zenon, <1>4, <2>1, <2>2 DEF TypeOK, LogType, TableType, renewLease, Put, journal
  <1>5. ASSUME NEW n \in Nodes, FinishDelivered(n) \/ GiveUp(n) PROVE LogType'
      BY Zenon, <1>1, <1>2, <1>5 DEF FinishDelivered, GiveUp, retire, Owns, Kinds, TypeOK, TableType
  <1>6. ASSUME NEW n \in Nodes, NEW m \in Msgs, Retry(n, m) PROVE LogType'
    <2>1. warnings' \in [Msgs -> Nat]
        BY <1>6 DEF TypeOK, LogType, Retry
    <2>2. /\ attemptCount' \in [Msgs -> 0 .. AttemptCap]
          /\ status' \in [Msgs -> {"none", "queued", "delivering", "retrying",
                                   "delivered", "failed"}]
        BY Zenon, <1>6 DEF TypeOK, LogType, WorkerType, Retry, Put
    <2> QED
        BY ZenonT(60), <1>6, <2>1, <2>2 DEF TypeOK, LogType, Retry
  <1>7. ASSUME NEW n \in Nodes, reschedule(n) PROVE LogType'
      BY Zenon, <1>1, <1>6, <1>7 DEF reschedule, Owns, TypeOK, TableType
  <1>8. ASSUME NEW n \in Nodes, recordResult(n) PROVE LogType'
      BY Zenon, <1>8 DEF TypeOK, LogType, WorkerType, recordResult, Put, journal
  <1>9. ASSUME NEW S \in SUBSET Msgs, Kick(S) \/ \E h \in BOOLEAN : HoldSet(S, h) PROVE LogType'
      BY Zenon, <1>9 DEF TypeOK, LogType, Kick, HoldSet, SetHold, Unleased, customer
  <1>10. ASSUME NEW S \in SUBSET Msgs, Drop(S) PROVE LogType'
      BY Zenon, <1>2, <1>10 DEF Drop, Kinds
  <1>11. ASSUME NEW m \in Msgs, FailRow(m) PROVE LogType'
      BY Zenon, <1>1, <1>2, <1>11 DEF FailRow, Kinds
  <1>12. ASSUME NEW m \in Msgs, CleanupRetired(m) PROVE LogType'
      BY <1>12 DEF TypeOK, LogType, CleanupRetired, customer
  <1>13. ASSUME \/ EnqueueAbort \/ FailDSN \/ FailCrash \/ Tick
                \/ \E m \in Msgs : EnqueueTx(m) \/ GrowOld(m)
                \/ \E n \in Nodes : \/ \E m \in Msgs : RenewLost(n, m) \/ RenewError(n, m)
                                    \/ claim(n) \/ DeliverStart(n) \/ DeliverEnd(n)
                                    \/ RecordError(n) \/ FinishError(n) \/ OnFailed(n)
                                    \/ OnDelayed(n) \/ Crash(n)
                \/ \E S \in SUBSET Msgs : FailSelect(S) \/ Schedule(S)
                \/ \E r \in Rules : HoldRuleAdd(r) \/ HoldRuleRemove(r)
                \/ UNCHANGED vars
         PROVE  UNCHANGED <<journal, customer>>
      BY ZenonT(60), <1>13 DEF EnqueueAbort, FailDSN, FailCrash, Tick, EnqueueTx, GrowOld,
         RenewLost, RenewError, Skip, claim, DeliverStart, DeliverEnd, RecordError,
         FinishError, OnFailed, OnDelayed, Crash, FailSelect, Schedule, HoldRuleAdd,
         HoldRuleRemove, vars
  <1> QED
      BY Zenon, <1>1, <1>3, <1>4, <1>5, <1>7, <1>8, <1>9, <1>10, <1>11, <1>12, <1>13
         DEF Next, WorkerStep, FaultStep, AdminStep

\* RunOnce's locals keep theirs.
LEMMA WorkerTypeNext ==
  ASSUME TypeOK, [Next]_vars
  PROVE  WorkerType'
  <1>1. ASSUME UNCHANGED worker PROVE WorkerType'
      BY Zenon, <1>1 DEF TypeOK, WorkerType, worker
  <1>2. ASSUME NEW n \in Nodes, NextMsg(n) PROVE WorkerType'
      BY <1>2, QueueAssumption DEF TypeOK, WorkerType, Busy, NextMsg
  <1>3. ASSUME NEW n \in Nodes, NEW h \in Busy, pc[n] \in Busy, Hooked(n, h) PROVE WorkerType'
      BY Zenon, <1>3 DEF TypeOK, WorkerType, Hooked
  <1>4. ASSUME NEW n \in Nodes, claim(n) PROVE WorkerType'
      BY SMTT(30), <1>4, QueueAssumption DEF TypeOK, WorkerType, claim
  <1>5. ASSUME NEW n \in Nodes, NEW m \in Msgs, renewLease(n, m) PROVE WorkerType'
      BY <1>5, QueueAssumption DEF TypeOK, WorkerType, Busy, TableType, renewLease
  <1>6. ASSUME NEW n \in Nodes, NEW m \in Msgs, Skip(n, m) PROVE WorkerType'
      BY Zenon, <1>6, QueueAssumption DEF TypeOK, WorkerType, Skip
  <1>7. ASSUME NEW n \in Nodes, DeliverStart(n) PROVE WorkerType'
      BY Zenon, <1>7, TimeoutType DEF TypeOK, WorkerType, Busy, DeliverStart
  <1>8. ASSUME NEW n \in Nodes, DeliverEnd(n) PROVE WorkerType'
      BY <1>8, QueueAssumption DEF TypeOK, WorkerType, Busy, DeliverEnd
  <1>9. ASSUME NEW n \in Nodes, recordResult(n) \/ RecordError(n) PROVE WorkerType'
      BY Zenon, <1>9 DEF TypeOK, WorkerType, Busy, recordResult, RecordError
  <1>10. ASSUME NEW n \in Nodes,
                \/ FinishDelivered(n) \/ GiveUp(n) \/ reschedule(n) \/ FinishError(n)
                \/ OnFailed(n) \/ OnDelayed(n)
         PROVE  \/ NextMsg(n)
                \/ pc[n] \in Busy /\ (Hooked(n, "onFailed") \/ Hooked(n, "onDelayed"))
      BY Zenon, <1>10 DEF FinishDelivered, GiveUp, reschedule, Retry, FinishError, OnFailed,
         OnDelayed, Busy
  <1>11. ASSUME NEW n \in Nodes, Crash(n) PROVE WorkerType'
      BY SMTT(30), <1>11, QueueAssumption DEF TypeOK, WorkerType, Busy, Crash
  <1>12. ASSUME Tick PROVE WorkerType'
      BY <1>12 DEF TypeOK, WorkerType, Tick, MaxOf
  <1>13. ASSUME \/ EnqueueCommit \/ EnqueueAbort \/ FailDSN \/ FailCrash
                \/ \E m \in Msgs : \/ EnqueueTx(m) \/ GrowOld(m) \/ CleanupRetired(m)
                                   \/ FailRow(m)
                \/ \E S \in SUBSET Msgs : \/ Kick(S) \/ Schedule(S) \/ FailSelect(S) \/ Drop(S)
                                          \/ \E h \in BOOLEAN : HoldSet(S, h)
                \/ \E r \in Rules : HoldRuleAdd(r) \/ HoldRuleRemove(r)
                \/ UNCHANGED vars
         PROVE  UNCHANGED worker
      BY Zenon, <1>13 DEF EnqueueCommit, EnqueueAbort, FailDSN, FailCrash, EnqueueTx,
         GrowOld, CleanupRetired, FailRow, Kick, Schedule, FailSelect, Drop, HoldSet,
         HoldRuleAdd, HoldRuleRemove, vars
  <1>14. "onFailed" \in Busy /\ "onDelayed" \in Busy
      BY Zenon DEF Busy
  <1> QED
      BY Zenon, <1>1, <1>2, <1>3, <1>4, <1>5, <1>6, <1>7, <1>8, <1>9, <1>10, <1>11,
         <1>12, <1>13, <1>14
         DEF Next, WorkerStep, FaultStep, AdminStep, RenewLost, RenewError

\* And so does the rest.
LEMMA RestTypeNext ==
  ASSUME TypeOK, [Next]_vars
  PROVE  RestType'
  <1>1. ASSUME UNCHANGED <<submission, rules, admin, history>>,
               UNCHANGED budget \/ Fault \/ AdminOp
        PROVE  RestType'
      BY SMTT(30), <1>1, QueueAssumption DEF TypeOK, RestType, submission, admin, history, budget,
         Fault, AdminOp
  <1>2. ASSUME NEW m \in Msgs, EnqueueTx(m) PROVE RestType'
      BY Zenon, <1>2, QueueAssumption DEF TypeOK, RestType, EnqueueTx, admin, history, budget
  <1>3. ASSUME EnqueueCommit \/ EnqueueAbort PROVE RestType'
      BY SMTT(30), <1>3, QueueAssumption DEF TypeOK, RestType, EnqueueCommit, EnqueueAbort, Fault,
         admin, history, budget
  <1>4. ASSUME NEW n \in Nodes, DeliverEnd(n) PROVE RestType'
      BY ZenonT(60), <1>4, QueueAssumption DEF TypeOK, RestType, WorkerType, Busy, DeliverEnd,
         submission, admin, budget
  <1>5. ASSUME NEW n \in Nodes, OnFailed(n) \/ OnDelayed(n) PROVE RestType'
      BY SMTT(30), <1>5, QueueAssumption DEF TypeOK, RestType, WorkerType, Busy, OnFailed, OnDelayed,
         submission, admin, budget
  <1>6. ASSUME NEW m \in Msgs, GrowOld(m) \/ FailRow(m) PROVE RestType'
      BY Zenon, <1>6, QueueAssumption DEF TypeOK, RestType, GrowOld, FailRow, submission, admin,
         history, budget
  <1>7. ASSUME NEW S \in SUBSET Msgs, FailSelect(S) PROVE RestType'
      BY SMTT(30), <1>7, QueueAssumption DEF TypeOK, RestType, FailSelect, AdminOp, submission, history
  <1>8. ASSUME FailDSN \/ FailCrash PROVE RestType'
      BY <1>8, QueueAssumption DEF TypeOK, RestType, FailDSN, FailCrash, Fault, submission,
         history, budget
  <1>9. ASSUME NEW r \in Rules, HoldRuleAdd(r) \/ HoldRuleRemove(r) PROVE RestType'
      BY <1>9, QueueAssumption DEF TypeOK, RestType, HoldRuleAdd, HoldRuleRemove, AdminOp,
         submission, admin, history
  <1>10. ASSUME \/ Tick \/ UNCHANGED vars
                \/ \E m \in Msgs : CleanupRetired(m)
                \/ \E n \in Nodes : \/ \E m \in Msgs : \/ RenewLost(n, m) \/ RenewError(n, m)
                                                       \/ renewLease(n, m)
                                    \/ claim(n) \/ DeliverStart(n) \/ recordResult(n)
                                    \/ RecordError(n) \/ FinishDelivered(n) \/ GiveUp(n)
                                    \/ reschedule(n) \/ FinishError(n) \/ Crash(n)
                \/ \E S \in SUBSET Msgs : \/ Kick(S) \/ Schedule(S) \/ Drop(S)
                                          \/ \E h \in BOOLEAN : HoldSet(S, h)
         PROVE  /\ UNCHANGED <<submission, rules, admin, history>>
                /\ UNCHANGED budget \/ Fault \/ AdminOp
      BY ZenonT(60), <1>10 DEF Tick, vars, CleanupRetired, RenewLost, RenewError, Skip,
         renewLease, claim, DeliverStart, recordResult, RecordError, FinishDelivered,
         GiveUp, reschedule, FinishError, Crash, Kick, Schedule, Drop, HoldSet
  <1> QED
      BY Zenon, <1>1, <1>2, <1>3, <1>4, <1>5, <1>6, <1>7, <1>8, <1>9, <1>10
         DEF Next, WorkerStep, FaultStep, AdminStep

\* Every step keeps the types.
LEMMA TypeNext == TypeOK /\ [Next]_vars => TypeOK'
  BY Zenon, TableTypeNext, LogTypeNext, WorkerTypeNext, RestTypeNext DEF TypeOK
-----------------------------------------------------------------------------
(* The rows, the log and the customer status. *)

\* The first terminal fact is the only one.
LEMMA AppendToEmpty ==
  ASSUME NEW T, NEW s \in Seq(T), NEW x \in T, s = <<>>
  PROVE  Append(s, x) = <<x>> /\ Len(Append(s, x)) = 1 /\ Append(s, x)[1] = x
  OBVIOUS

\* What Remove does to rows that are there, and to all others.
LEMMA RemoveEffect ==
  ASSUME TypeOK, ProjectionIsFold, NEW S \in SUBSET live,
         NEW kind \in Kinds, Remove(S, kind),
         NEW m \in Msgs
  PROVE  /\ m \in S => /\ terminal'[m] = <<kind>> /\ Len(terminal'[m]) = 1
                       /\ terminal'[m][1] = kind /\ terminal'[m] # <<>>
                       /\ m \notin live'
                       /\ m \in Linked => status'[m] = IF kind = "delivered"
                                                       THEN kind ELSE "failed"
         /\ m \notin S => /\ terminal'[m] = terminal[m] /\ status'[m] = status[m]
                          /\ attempts'[m] = attempts[m] /\ leasedBy'[m] = leasedBy[m]
                          /\ m \in live' <=> m \in live
                          /\ m \in held' <=> m \in held
                          /\ m \in delayed' <=> m \in delayed
  <1>1. m \in S => terminal[m] = <<>> /\ terminal[m] \in Seq({"delivered", "failed", "dropped"})
      BY Zenon DEF TypeOK, TableType, LogType, ProjectionIsFold
  <1>2. terminal'[m] = IF m \in S THEN Append(terminal[m], kind) ELSE terminal[m]
      BY Zenon DEF Remove, Settle
  <1>3. status'[m] = IF m \in S \cap Linked
                     THEN IF kind = "delivered" THEN kind ELSE "failed" ELSE status[m]
      BY Zenon DEF Remove, Settle, Put
  <1>4. m \in S => terminal'[m] = <<kind>> /\ Len(terminal'[m]) = 1 /\ terminal'[m][1] = kind
      BY <1>1, <1>2, AppendToEmpty DEF Kinds
  <1>5. m \in S => terminal'[m] # <<>>
      BY SMTT(30), <1>4
  <1>6. m \notin S => attempts'[m] = attempts[m] /\ leasedBy'[m] = leasedBy[m]
      BY Zenon DEF Remove, Put
  <1> QED
      BY Zenon, <1>2, <1>3, <1>4, <1>5, <1>6 DEF Remove

\* In particular the terminal facts, when one row is removed.
LEMMA RemoveOne ==
  ASSUME TypeOK, ProjectionIsFold, NEW r \in live, NEW kind \in Kinds, Remove({r}, kind)
  PROVE  \A m \in Msgs : terminal'[m] = IF m = r THEN <<kind>> ELSE terminal[m]
  <1> SUFFICES ASSUME NEW m \in Msgs
               PROVE  terminal'[m] = IF m = r THEN <<kind>> ELSE terminal[m]
      BY Zenon
  <1> DEFINE S == {r}
  <1>1. S \in SUBSET live /\ (m \in S <=> m = r) /\ Remove(S, kind)
      BY Zenon
  <1> HIDE DEF S
  <1>2. m \in S => terminal'[m] = <<kind>>
      BY Zenon, <1>1, RemoveEffect
  <1>3. m \notin S => terminal'[m] = terminal[m]
      BY Zenon, <1>1, RemoveEffect
  <1> QED
      BY Zenon, <1>1, <1>2, <1>3

\* Every step keeps the table the fold of the log.
LEMMA FoldNext ==
  ASSUME IInv, [Next]_vars
  PROVE  ProjectionIsFold'
  <1>1. ASSUME UNCHANGED <<live, enqueued, terminal>>
        PROVE ProjectionIsFold'
      BY Zenon, <1>1 DEF IInv, ProjectionIsFold
  <1>2. ASSUME NEW S \in SUBSET live, NEW kind \in Kinds, Remove(S, kind)
        PROVE ProjectionIsFold'
    <2> SUFFICES ASSUME NEW m \in Msgs
                 PROVE  /\ m \in live' <=> m \in enqueued' /\ terminal'[m] = <<>>
                        /\ Len(terminal'[m]) <= 1
        BY Zenon DEF ProjectionIsFold
    <2>1. CASE m \in S
      <3>1. m \notin live' /\ terminal'[m] # <<>> /\ Len(terminal'[m]) = 1
          BY Zenon, <1>2, <2>1, RemoveEffect DEF IInv
      <3> QED
          BY <3>1
    <2>2. CASE m \notin S
      <3>1. /\ terminal'[m] = terminal[m] /\ (m \in live' <=> m \in live)
            /\ enqueued' = enqueued
          BY ZenonT(60), <1>2, <2>2, RemoveEffect DEF IInv, Remove
      <3> QED
          BY Zenon, <3>1 DEF IInv, ProjectionIsFold
    <2> QED
        BY Zenon, <2>1, <2>2
  <1>3. ASSUME EnqueueCommit PROVE ProjectionIsFold'
      BY Zenon, <1>3 DEF IInv, ProjectionIsFold, IdsFresh, EnqueueCommit
  <1>4. ASSUME NEW n \in Nodes, FinishDelivered(n) PROVE ProjectionIsFold'
      BY Zenon, <1>4, <1>1, <1>2 DEF IInv, Kinds, TypeOK, WorkerType, Busy,
         FinishDelivered,
         retire, Owns, NextMsg, table, journal, customer, submission, admin, history
  <1>5. ASSUME NEW n \in Nodes, GiveUp(n) PROVE ProjectionIsFold'
      BY Zenon, <1>5, <1>1, <1>2 DEF IInv, Kinds, TypeOK, WorkerType, Busy, GiveUp, retire,
         Owns, table, journal, customer, submission, admin, history
  <1>6. ASSUME NEW S \in SUBSET Msgs, Drop(S) PROVE ProjectionIsFold'
      BY Zenon, <1>6, <1>1, <1>2 DEF IInv, Kinds, Drop, table, journal, customer,
         submission,
         admin, history
  <1>7. ASSUME NEW m \in Msgs, FailRow(m) PROVE ProjectionIsFold'
      BY Zenon, <1>7, <1>1, <1>2 DEF IInv, Kinds, FailRow, table, journal, customer,
         submission, admin, history
  <1>8. ASSUME NEW m \in Msgs, CleanupRetired(m) PROVE ProjectionIsFold'
      BY SMTT(30), <1>8 DEF IInv, ProjectionIsFold, TypeOK, LogType, CleanupRetired, table
  <1>9. ASSUME EnqueueAbort \/ FailDSN \/ FailCrash \/ Tick
         PROVE UNCHANGED <<live, enqueued, terminal>>
      BY Zenon, <1>9 DEF EnqueueAbort, FailDSN, FailCrash, Tick, Fault, table, journal,
         customer, submission, worker, admin, history, budget
  <1>10. ASSUME NEW n \in Nodes, claim(n) \/ (\E m \in Msgs : renewLease(n, m)) \/
         (\E m \in Msgs : RenewLost(n, m)) \/ (\E m \in Msgs : RenewError(n, m)) \/
         DeliverStart(n) \/ DeliverEnd(n) \/ recordResult(n) \/ RecordError(n) \/
         reschedule(n) \/ FinishError(n) \/ OnFailed(n) \/ OnDelayed(n) \/ Crash(n)
         PROVE UNCHANGED <<live, enqueued, terminal>>
      BY Zenon, <1>10 DEF claim, renewLease, RenewLost, RenewError, DeliverStart,
         DeliverEnd, recordResult, RecordError, reschedule, FinishError, OnFailed,
         OnDelayed, Crash, Skip, Fault, Retry, Hooked, NextMsg, table, journal,
         customer, submission, worker, admin, history, budget
  <1>11. ASSUME NEW m \in Msgs, EnqueueTx(m) \/ GrowOld(m)
         PROVE UNCHANGED <<live, enqueued, terminal>>
      BY Zenon, <1>11 DEF EnqueueTx, GrowOld, table, journal, customer, submission, worker,
         admin, history, budget
  <1>12. ASSUME NEW S \in SUBSET Msgs, Kick(S) \/ Schedule(S) \/ (\E h \in BOOLEAN :
         HoldSet(S, h)) \/ FailSelect(S)
         PROVE UNCHANGED <<live, enqueued, terminal>>
      BY Zenon, <1>12 DEF Kick, Schedule, HoldSet, FailSelect, AdminOp, SetHold, table,
         journal, customer, submission, worker, admin, history, budget
  <1>13. ASSUME NEW r \in Rules, HoldRuleAdd(r) \/ HoldRuleRemove(r)
         PROVE UNCHANGED <<live, enqueued, terminal>>
      BY Zenon, <1>13 DEF HoldRuleAdd, HoldRuleRemove, AdminOp, table, journal, customer,
         submission, worker, admin, history, budget
  <1> QED
      BY Zenon, <1>1, <1>2, <1>3, <1>4, <1>5, <1>6, <1>7, <1>8, <1>9, <1>10, <1>11, <1>12,
         <1>13
         DEF Next, WorkerStep, FaultStep, AdminStep, vars, table, journal, customer,
             submission, worker, admin, history, budget

\* Every step keeps IdsFresh.
LEMMA FreshNext ==
  ASSUME IInv, [Next]_vars
  PROVE  IdsFresh'
  <1>1. ASSUME UNCHANGED <<status, enqueued, terminal, used, staged, logHeld, held,
                delayed, attempts, leasedBy, warnings, failNotices, delayNotices>>
        PROVE IdsFresh'
      BY Zenon, <1>1 DEF IInv, IdsFresh
  <1>2. ASSUME NEW S \in SUBSET live, NEW kind \in Kinds, Remove(S, kind), UNCHANGED
                <<used, staged, failNotices, delayNotices>>
        PROVE IdsFresh'
    <2>1. \A m \in S : m \in used /\ staged[m] = "no"
        BY Zenon DEF IInv, IdsFresh, ProjectionIsFold, TypeOK, TableType
    <2>2. \A m \in Msgs \ S : /\ terminal'[m] = terminal[m] /\ status'[m] = status[m]
                             /\ attempts'[m] = attempts[m] /\ leasedBy'[m] = leasedBy[m]
        BY ZenonT(60), <1>2, RemoveEffect DEF IInv
    <2> QED
        BY ZenonT(60), <1>2, <2>1, <2>2 DEF IInv, IdsFresh, Remove
  <1>3. ASSUME NEW m \in Msgs, EnqueueTx(m) PROVE IdsFresh'
      BY Zenon, <1>3 DEF IInv, IdsFresh, TypeOK, RestType, EnqueueTx, table, journal,
         customer, history
  <1>4. ASSUME EnqueueCommit PROVE IdsFresh'
      BY Zenon, <1>4 DEF IInv, IdsFresh, EnqueueCommit, Put, history
  <1>5. ASSUME EnqueueAbort PROVE IdsFresh'
      BY Zenon, <1>5 DEF IInv, IdsFresh, EnqueueAbort, table, journal, history, customer
  <1>6. ASSUME NEW n \in Nodes, claim(n) PROVE IdsFresh'
      BY ZenonT(60), <1>6 DEF IInv, IdsFresh, ProjectionIsFold, claim, Due, Put, journal,
         submission, history, customer
  <1>7. ASSUME NEW n \in Nodes, NEW m \in Msgs, renewLease(n, m) PROVE IdsFresh'
      BY ZenonT(60), <1>7 DEF IInv, IdsFresh, ProjectionIsFold, TypeOK, TableType, renewLease,
         StillLeased, Put,
         journal, submission, history
  <1>8. ASSUME NEW n \in Nodes, FinishDelivered(n) PROVE IdsFresh'
      BY Zenon, <1>8, <1>1, <1>2 DEF IInv, Kinds, TypeOK, WorkerType, Busy,
         FinishDelivered,
         retire, Owns, NextMsg, table, journal, customer, submission, admin, history
  <1>9. ASSUME NEW n \in Nodes, GiveUp(n) PROVE IdsFresh'
      BY Zenon, <1>9, <1>1, <1>2 DEF IInv, Kinds, TypeOK, WorkerType, Busy, GiveUp, retire,
         Owns, table, journal, customer, submission, admin, history
  <1>10. ASSUME NEW n \in Nodes, reschedule(n) PROVE IdsFresh'
    <2>1. CASE ~Owns(n, cur[n])
        BY Zenon, <1>1, <1>10, <2>1 DEF reschedule, table, journal, customer, submission,
           history
    <2>2. CASE Owns(n, cur[n])
      <3> DEFINE o == cur[n]
      <3>1. o \in live /\ o \in Msgs
          BY Zenon, <1>10, <2>2 DEF IInv, TypeOK, TableType, Owns, reschedule
      <3>2. o \in used /\ staged[o] = "no"
          BY Zenon, <3>1 DEF IInv, IdsFresh, ProjectionIsFold
      <3>3. Retry(n, o) /\ UNCHANGED <<used, staged, failNotices, delayNotices>>
          BY Zenon, <1>10, <2>2 DEF reschedule, submission, history
      <3>4. UNCHANGED <<live, attempts, held, enqueued, terminal, logHeld>>
          BY Zenon, <3>3 DEF Retry
      <3>5. delayed' \subseteq delayed \cup {o}
          BY Zenon, <3>3 DEF Retry
      <3>6. \A m \in Msgs \ {o} : leasedBy'[m] = leasedBy[m] /\ status'[m] = status[m]
          BY Zenon, <3>3 DEF IInv, TypeOK, TableType, Retry, Put
      <3>7. \A m \in Msgs \ {o} : warnings'[m] = warnings[m]
          BY Zenon, <3>3 DEF IInv, TypeOK, LogType, Retry
      <3> HIDE DEF o
      <3> QED
          BY ZenonT(60), <3>2, <3>3, <3>4, <3>5, <3>6, <3>7 DEF IInv, IdsFresh
    <2> QED
        BY Zenon, <2>1, <2>2
  <1>11. ASSUME NEW n \in Nodes, OnFailed(n) PROVE IdsFresh'
    <2>0. terminal[cur[n]] = <<"failed">>
        BY Zenon, <1>11 DEF IInv, FailOwed, OnFailed
    <2>1. terminal[cur[n]] # <<>>
        BY <2>0
    <2> QED
      BY Zenon, <1>11, <2>1 DEF IInv, IdsFresh, TypeOK, RestType, OnFailed, table, journal,
         submission, customer
  <1>12. ASSUME NEW n \in Nodes, OnDelayed(n) PROVE IdsFresh'
    <2>1. warnings[cur[n]] = 1
        BY Zenon, <1>12 DEF IInv, DelayOwed, OnDelayed
    <2>2. warnings[cur[n]] # 0
        BY <2>1
    <2> QED
        BY Zenon, <1>12, <2>2 DEF IInv, IdsFresh, TypeOK, RestType, OnDelayed, table,
           journal, submission, customer
  <1>13. ASSUME NEW S \in SUBSET Msgs, Kick(S) PROVE IdsFresh'
      BY Zenon, <1>13 DEF IInv, IdsFresh, Kick, SetHold, submission, history, customer
  <1>14. ASSUME NEW S \in SUBSET Msgs, NEW h \in BOOLEAN, HoldSet(S, h) PROVE IdsFresh'
      BY Zenon, <1>14 DEF IInv, IdsFresh, ProjectionIsFold, HoldSet, SetHold, submission,
         history, customer
  <1>15. ASSUME NEW S \in SUBSET Msgs, Drop(S) PROVE IdsFresh'
      BY Zenon, <1>15, <1>1, <1>2 DEF IInv, Kinds, Drop, table, journal, customer,
         submission,
         admin, history
  <1>16. ASSUME NEW m \in Msgs, FailRow(m) PROVE IdsFresh'
      BY Zenon, <1>16, <1>1, <1>2 DEF IInv, Kinds, FailRow, table, journal, customer,
         submission, admin, history
  <1>17. ASSUME FailDSN PROVE IdsFresh'
    <2>1. terminal[dsn] # <<>>
      <3>1. terminal[dsn] = <<"failed">>
          BY Zenon, <1>17 DEF IInv, FailOwed, FailDSN
      <3> QED
          BY <3>1
    <2> QED
      BY Zenon, <1>17, <2>1 DEF IInv, IdsFresh, TypeOK, RestType, FailDSN, table, journal,
         submission, customer
  <1>18. ASSUME NEW r \in Rules, HoldRuleAdd(r) PROVE IdsFresh'
      BY Zenon, <1>18 DEF IInv, IdsFresh, ProjectionIsFold, HoldRuleAdd, journal,
         submission, history, customer
  <1>19. ASSUME NEW m \in Msgs, CleanupRetired(m) PROVE IdsFresh'
      BY Zenon, <1>19 DEF IInv, IdsFresh, TypeOK, LogType, CleanupRetired, table,
         submission, history, customer
  <1>20. ASSUME FailCrash \/ Tick
         PROVE UNCHANGED <<status, enqueued, terminal, used, staged, logHeld, held,
               delayed, attempts, leasedBy, warnings, failNotices, delayNotices>>
      BY Zenon, <1>20 DEF FailCrash, Tick, Fault, table, journal, customer, submission,
         worker, admin, history, budget
  <1>21. ASSUME NEW n \in Nodes, (\E m \in Msgs : RenewLost(n, m)) \/ (\E m \in Msgs
         : RenewError(n, m)) \/ DeliverStart(n) \/ DeliverEnd(n) \/ recordResult(n)
         \/ RecordError(n) \/ FinishError(n) \/ Crash(n)
         PROVE UNCHANGED <<status, enqueued, terminal, used, staged, logHeld, held,
               delayed, attempts, leasedBy, warnings, failNotices, delayNotices>>
      BY Zenon, <1>21 DEF RenewLost, RenewError, DeliverStart, DeliverEnd, recordResult,
         RecordError, FinishError, Crash, Skip, Fault, NextMsg, table, journal,
         customer, submission, worker, admin, history, budget
  <1>22. ASSUME NEW m \in Msgs, GrowOld(m)
         PROVE UNCHANGED <<status, enqueued, terminal, used, staged, logHeld, held,
               delayed, attempts, leasedBy, warnings, failNotices, delayNotices>>
      BY Zenon, <1>22 DEF GrowOld, table, journal, customer, submission, worker, admin,
         history, budget
  <1>23. ASSUME NEW S \in SUBSET Msgs, Schedule(S) \/ FailSelect(S)
         PROVE UNCHANGED <<status, enqueued, terminal, used, staged, logHeld, held,
               delayed, attempts, leasedBy, warnings, failNotices, delayNotices>>
      BY Zenon, <1>23 DEF Schedule, FailSelect, AdminOp, table, journal, customer,
         submission, worker, admin, history, budget
  <1>24. ASSUME NEW r \in Rules, HoldRuleRemove(r)
         PROVE UNCHANGED <<status, enqueued, terminal, used, staged, logHeld, held,
               delayed, attempts, leasedBy, warnings, failNotices, delayNotices>>
      BY Zenon, <1>24 DEF HoldRuleRemove, AdminOp, table, journal, customer, submission,
         worker, admin, history, budget
  <1> QED
      BY Zenon, <1>1, <1>2, <1>3, <1>4, <1>5, <1>6, <1>7, <1>8, <1>9, <1>10, <1>11, <1>12,
         <1>13, <1>14, <1>15, <1>16, <1>17, <1>18, <1>19, <1>20, <1>21, <1>22,
         <1>23, <1>24
         DEF Next, WorkerStep, FaultStep, AdminStep, vars, table, journal, customer,
             submission, worker, admin, history, budget

\* Every step keeps the customer's view in agreement with the log.
LEMMA OutcomeNext ==
  ASSUME IInv, [Next]_vars
  PROVE  OutcomeAgrees'
  <1>1. ASSUME UNCHANGED <<live, terminal, status>>
        PROVE OutcomeAgrees'
      BY Zenon, <1>1 DEF IInv, OutcomeAgrees
  <1>2. ASSUME NEW S \in SUBSET live, NEW kind \in Kinds, Remove(S, kind)
        PROVE OutcomeAgrees'
    <2> SUFFICES ASSUME NEW m \in Linked
                 PROVE  /\ m \in live' => status'[m] \in {"queued", "delivering", "retrying"}
                        /\ terminal'[m] # <<>> =>
                             status'[m] = IF terminal'[m][1] = "delivered"
                                          THEN "delivered" ELSE "failed"
        BY Zenon DEF OutcomeAgrees
    <2>1. CASE m \in S
      <3>1. m \in Msgs /\ TypeOK /\ ProjectionIsFold
          BY Zenon, QueueAssumption DEF IInv
      <3> QED
          BY ZenonT(60), <1>2, <2>1, <3>1, RemoveEffect
    <2>2. CASE m \notin S
      <3>1. m \in Msgs /\ TypeOK /\ ProjectionIsFold /\ OutcomeAgrees
          BY Zenon, QueueAssumption DEF IInv
      <3>2. /\ terminal'[m] = terminal[m] /\ status'[m] = status[m]
            /\ m \in live' <=> m \in live
          BY ZenonT(60), <1>2, <2>2, <3>1, RemoveEffect
      <3> QED
          BY Zenon, <3>1, <3>2 DEF OutcomeAgrees
    <2> QED
        BY Zenon, <2>1, <2>2
  <1>3. ASSUME EnqueueCommit PROVE OutcomeAgrees'
      BY Zenon, <1>3, QueueAssumption DEF IInv, OutcomeAgrees, IdsFresh, EnqueueCommit, Put
  <1>4. ASSUME NEW n \in Nodes, NEW m \in Msgs, renewLease(n, m) PROVE OutcomeAgrees'
      BY Zenon, <1>4, QueueAssumption DEF IInv, OutcomeAgrees, ProjectionIsFold,
         renewLease, StillLeased, Put, journal
  <1>5. ASSUME NEW n \in Nodes, FinishDelivered(n) PROVE OutcomeAgrees'
      BY Zenon, <1>5, <1>1, <1>2 DEF IInv, Kinds, TypeOK, WorkerType, Busy,
         FinishDelivered,
         retire, Owns, NextMsg, table, journal, customer, submission, admin, history
  <1>6. ASSUME NEW n \in Nodes, GiveUp(n) PROVE OutcomeAgrees'
      BY Zenon, <1>6, <1>1, <1>2 DEF IInv, Kinds, TypeOK, WorkerType, Busy, GiveUp, retire,
         Owns, table, journal, customer, submission, admin, history
  <1>7. ASSUME NEW n \in Nodes, reschedule(n) PROVE OutcomeAgrees'
      BY Zenon, <1>7, QueueAssumption DEF IInv, OutcomeAgrees, ProjectionIsFold,
         reschedule, Retry, Owns, Put, table, journal,
        customer
  <1>8. ASSUME NEW S \in SUBSET Msgs, Drop(S) PROVE OutcomeAgrees'
      BY Zenon, <1>8, <1>1, <1>2 DEF IInv, Kinds, Drop, table, journal, customer,
         submission,
         admin, history
  <1>9. ASSUME NEW m \in Msgs, FailRow(m) PROVE OutcomeAgrees'
      BY Zenon, <1>9, <1>1, <1>2 DEF IInv, Kinds, FailRow, table, journal, customer,
         submission, admin, history
  <1>10. ASSUME NEW m \in Msgs, CleanupRetired(m) PROVE OutcomeAgrees'
      BY Zenon, <1>10, QueueAssumption DEF IInv, OutcomeAgrees, TypeOK, LogType,
         CleanupRetired, table, customer
  <1>11. ASSUME EnqueueAbort \/ FailDSN \/ FailCrash \/ Tick
         PROVE UNCHANGED <<live, terminal, status>>
      BY Zenon, <1>11 DEF EnqueueAbort, FailDSN, FailCrash, Tick, Fault, table, journal,
         customer, submission, worker, admin, history, budget
  <1>12. ASSUME NEW n \in Nodes, claim(n) \/ (\E m \in Msgs : RenewLost(n, m)) \/
         (\E m \in Msgs : RenewError(n, m)) \/ DeliverStart(n) \/ DeliverEnd(n) \/
         recordResult(n) \/ RecordError(n) \/ FinishError(n) \/ OnFailed(n) \/
         OnDelayed(n) \/ Crash(n)
         PROVE UNCHANGED <<live, terminal, status>>
      BY Zenon, <1>12 DEF claim, RenewLost, RenewError, DeliverStart, DeliverEnd,
         recordResult, RecordError, FinishError, OnFailed, OnDelayed, Crash, Skip,
         Fault, NextMsg, table, journal, customer, submission, worker, admin,
         history, budget
  <1>13. ASSUME NEW m \in Msgs, EnqueueTx(m) \/ GrowOld(m)
         PROVE UNCHANGED <<live, terminal, status>>
      BY Zenon, <1>13 DEF EnqueueTx, GrowOld, table, journal, customer, submission, worker,
         admin, history, budget
  <1>14. ASSUME NEW S \in SUBSET Msgs, Kick(S) \/ Schedule(S) \/ (\E h \in BOOLEAN :
         HoldSet(S, h)) \/ FailSelect(S)
         PROVE UNCHANGED <<live, terminal, status>>
      BY Zenon, <1>14 DEF Kick, Schedule, HoldSet, FailSelect, AdminOp, SetHold, table,
         journal, customer, submission, worker, admin, history, budget
  <1>15. ASSUME NEW r \in Rules, HoldRuleAdd(r) \/ HoldRuleRemove(r)
         PROVE UNCHANGED <<live, terminal, status>>
      BY Zenon, <1>15 DEF HoldRuleAdd, HoldRuleRemove, AdminOp, table, journal, customer,
         submission, worker, admin, history, budget
  <1> QED
      BY Zenon, <1>1, <1>2, <1>3, <1>4, <1>5, <1>6, <1>7, <1>8, <1>9, <1>10, <1>11, <1>12,
         <1>13, <1>14, <1>15
         DEF Next, WorkerStep, FaultStep, AdminStep, vars, table, journal, customer,
             submission, worker, admin, history, budget

\* Every step keeps OutcomeCarried.
LEMMA CarriedNext ==
  ASSUME IInv, [Next]_vars
  PROVE  OutcomeCarried'
  <1>1. ASSUME UNCHANGED <<accepted, pc, cur, out>>
        PROVE OutcomeCarried'
      BY Zenon, <1>1 DEF IInv, OutcomeCarried
  <1>2. ASSUME NEW n \in Nodes, NEW m \in Msgs, renewLease(n, m) PROVE OutcomeCarried'
      BY Zenon, <1>2 DEF IInv, OutcomeCarried, TypeOK, WorkerType, Busy, renewLease,
         StillLeased, Put, table, journal, customer, submission, worker, admin,
         history, budget
  <1>3. ASSUME NEW n \in Nodes, DeliverStart(n) PROVE OutcomeCarried'
      BY Zenon, <1>3 DEF IInv, OutcomeCarried, TypeOK, WorkerType, Busy, DeliverStart,
         deliveryTimeout, MaxOf, table, journal, customer, submission, worker,
         admin, history, budget
  <1>4. ASSUME NEW n \in Nodes, DeliverEnd(n) PROVE OutcomeCarried'
      BY Zenon, <1>4 DEF IInv, OutcomeCarried, TypeOK, WorkerType, Busy, DeliverEnd, table,
         journal, customer, submission, worker, admin, history, budget
  <1>5. ASSUME NEW n \in Nodes, recordResult(n) PROVE OutcomeCarried'
      BY Zenon, <1>5 DEF IInv, OutcomeCarried, TypeOK, WorkerType, Busy, recordResult, Put,
         table, journal, customer, submission, worker, admin, history, budget
  <1>6. ASSUME NEW n \in Nodes, RecordError(n) PROVE OutcomeCarried'
      BY Zenon, <1>6 DEF IInv, OutcomeCarried, TypeOK, WorkerType, Busy, RecordError,
         Fault,
         table, journal, customer, submission, worker, admin, history, budget
  <1>7. ASSUME NEW n \in Nodes, FinishDelivered(n) PROVE OutcomeCarried'
      BY Zenon, <1>7 DEF IInv, OutcomeCarried, TypeOK, WorkerType, FinishDelivered,
         NextMsg, history
  <1>8. ASSUME NEW n \in Nodes, GiveUp(n) PROVE OutcomeCarried'
      BY <1>8 DEF IInv, OutcomeCarried, TypeOK, WorkerType, GiveUp, NextMsg, Hooked,
         history
  <1>9. ASSUME NEW n \in Nodes, reschedule(n) PROVE OutcomeCarried'
      BY ZenonT(60), <1>9 DEF IInv, OutcomeCarried, TypeOK, WorkerType, reschedule, Retry,
         NextMsg, Hooked, history
  <1>10. ASSUME NEW n \in Nodes, FinishError(n) PROVE OutcomeCarried'
      BY Zenon, <1>10 DEF IInv, OutcomeCarried, TypeOK, WorkerType, Busy, FinishError,
         NextMsg, Fault, table, journal, customer, submission, worker, admin,
         history, budget
  <1>11. ASSUME NEW n \in Nodes, OnFailed(n) PROVE OutcomeCarried'
      BY Zenon, <1>11 DEF IInv, OutcomeCarried, TypeOK, WorkerType, Busy, OnFailed,
         NextMsg,
         table, journal, customer, submission, worker, admin, history, budget
  <1>12. ASSUME NEW n \in Nodes, OnDelayed(n) PROVE OutcomeCarried'
      BY Zenon, <1>12 DEF IInv, OutcomeCarried, TypeOK, WorkerType, Busy, OnDelayed,
         NextMsg,
         table, journal, customer, submission, worker, admin, history, budget
  <1>13. ASSUME NEW n \in Nodes, Crash(n) PROVE OutcomeCarried'
      BY Zenon, <1>13 DEF IInv, OutcomeCarried, TypeOK, WorkerType, Busy, Crash, Fault,
         table,
         journal, customer, submission, worker, admin, history, budget
  <1>14. ASSUME EnqueueCommit \/ EnqueueAbort \/ FailDSN \/ FailCrash \/ Tick
         PROVE UNCHANGED <<accepted, pc, cur, out>>
      BY Zenon, <1>14 DEF EnqueueCommit, EnqueueAbort, FailDSN, FailCrash, Tick, Fault,
         table, journal, customer, submission, worker, admin, history, budget
  <1>15. ASSUME NEW n \in Nodes, claim(n) \/ (\E m \in Msgs : RenewLost(n, m)) \/
         (\E m \in Msgs : RenewError(n, m))
         PROVE UNCHANGED <<accepted, pc, cur, out>>
      BY Zenon, <1>15 DEF claim, RenewLost, RenewError, Skip, Fault, table, journal,
         customer, submission, worker, admin, history, budget
  <1>16. ASSUME NEW m \in Msgs, EnqueueTx(m) \/ GrowOld(m) \/ FailRow(m) \/
         CleanupRetired(m)
         PROVE UNCHANGED <<accepted, pc, cur, out>>
      BY Zenon, <1>16 DEF EnqueueTx, GrowOld, FailRow, CleanupRetired, Remove, Settle,
         table, journal, customer, submission, worker, admin, history, budget
  <1>17. ASSUME NEW S \in SUBSET Msgs, Kick(S) \/ Schedule(S) \/ (\E h \in BOOLEAN :
         HoldSet(S, h)) \/ Drop(S) \/ FailSelect(S)
         PROVE UNCHANGED <<accepted, pc, cur, out>>
      BY Zenon, <1>17 DEF Kick, Schedule, HoldSet, Drop, FailSelect, AdminOp, SetHold,
         Remove, Settle, table, journal, customer, submission, worker, admin,
         history, budget
  <1>18. ASSUME NEW r \in Rules, HoldRuleAdd(r) \/ HoldRuleRemove(r)
         PROVE UNCHANGED <<accepted, pc, cur, out>>
      BY Zenon, <1>18 DEF HoldRuleAdd, HoldRuleRemove, AdminOp, table, journal, customer,
         submission, worker, admin, history, budget
  <1> QED
      BY Zenon, <1>1, <1>2, <1>3, <1>4, <1>5, <1>6, <1>7, <1>8, <1>9, <1>10, <1>11, <1>12,
         <1>13, <1>14, <1>15, <1>16, <1>17, <1>18
         DEF Next, WorkerStep, FaultStep, AdminStep, vars, table, journal, customer,
             submission, worker, admin, history, budget

\* Every step keeps DeliveredMeansAccepted.
LEMMA AcceptedNext ==
  ASSUME IInv, [Next]_vars
  PROVE  DeliveredMeansAccepted'
  <1>1. ASSUME UNCHANGED <<terminal, accepted>>
        PROVE DeliveredMeansAccepted'
      BY Zenon, <1>1 DEF IInv, DeliveredMeansAccepted
  <1>2. ASSUME NEW S \in SUBSET live, NEW kind \in Kinds, Remove(S, kind), UNCHANGED
                <<accepted>>, kind = "delivered" => S \subseteq accepted
        PROVE DeliveredMeansAccepted'
    <2> SUFFICES ASSUME NEW m \in Msgs, terminal'[m] = <<"delivered">>
                 PROVE  m \in accepted
        BY Zenon, <1>2 DEF DeliveredMeansAccepted
    <2>1. CASE m \in S
      <3>1. terminal'[m][1] = kind
          BY ZenonT(60), <1>2, <2>1, RemoveEffect DEF IInv
      <3> QED
          BY <1>2, <2>1, <3>1
    <2>2. CASE m \notin S
        BY ZenonT(60), <1>2, <2>2, RemoveEffect DEF IInv, DeliveredMeansAccepted
    <2> QED
        BY Zenon, <2>1, <2>2
  <1>3. ASSUME NEW n \in Nodes, DeliverEnd(n) PROVE DeliveredMeansAccepted'
      BY Zenon, <1>3 DEF IInv, DeliveredMeansAccepted, DeliverEnd, journal
  <1>4. ASSUME NEW n \in Nodes, FinishDelivered(n) PROVE DeliveredMeansAccepted'
      BY Zenon, <1>4, <1>1, <1>2 DEF IInv, OutcomeCarried, Kinds, TypeOK, WorkerType, Busy,
         FinishDelivered,
         retire, Owns, journal, history
  <1>5. ASSUME NEW n \in Nodes, GiveUp(n) PROVE DeliveredMeansAccepted'
      BY Zenon, <1>5, <1>1, <1>2 DEF IInv, Kinds, TypeOK, WorkerType, Busy, GiveUp,
         retire, Owns, journal, history
  <1>6. ASSUME NEW S \in SUBSET Msgs, Drop(S) PROVE DeliveredMeansAccepted'
      BY Zenon, <1>6, <1>1, <1>2 DEF IInv, Kinds, Drop, table, journal, customer,
         submission,
         admin, history
  <1>7. ASSUME NEW m \in Msgs, FailRow(m) PROVE DeliveredMeansAccepted'
      BY Zenon, <1>7, <1>1, <1>2 DEF IInv, Kinds, FailRow, table, journal, customer,
         submission, admin, history
  <1>8. ASSUME NEW m \in Msgs, CleanupRetired(m) PROVE DeliveredMeansAccepted'
      BY Zenon, <1>8 DEF IInv, DeliveredMeansAccepted, TypeOK, LogType, CleanupRetired,
         history
  <1>9. ASSUME EnqueueCommit \/ EnqueueAbort \/ FailDSN \/ FailCrash \/ Tick
         PROVE UNCHANGED <<terminal, accepted>>
      BY Zenon, <1>9 DEF EnqueueCommit, EnqueueAbort, FailDSN, FailCrash, Tick, Fault,
         table, journal, customer, submission, worker, admin, history, budget
  <1>10. ASSUME NEW n \in Nodes, claim(n) \/ (\E m \in Msgs : renewLease(n, m)) \/
         (\E m \in Msgs : RenewLost(n, m)) \/ (\E m \in Msgs : RenewError(n, m)) \/
         DeliverStart(n) \/ recordResult(n) \/ RecordError(n) \/ reschedule(n) \/
         FinishError(n) \/ OnFailed(n) \/ OnDelayed(n) \/ Crash(n)
         PROVE UNCHANGED <<terminal, accepted>>
      BY Zenon, <1>10 DEF claim, renewLease, RenewLost, RenewError, DeliverStart,
         recordResult, RecordError, reschedule, FinishError, OnFailed, OnDelayed,
         Crash, Skip, Fault, Retry, Hooked, NextMsg, table, journal, customer,
         submission, worker, admin, history, budget
  <1>11. ASSUME NEW m \in Msgs, EnqueueTx(m) \/ GrowOld(m)
         PROVE UNCHANGED <<terminal, accepted>>
      BY Zenon, <1>11 DEF EnqueueTx, GrowOld, table, journal, customer, submission, worker,
         admin, history, budget
  <1>12. ASSUME NEW S \in SUBSET Msgs, Kick(S) \/ Schedule(S) \/ (\E h \in BOOLEAN :
         HoldSet(S, h)) \/ FailSelect(S)
         PROVE UNCHANGED <<terminal, accepted>>
      BY Zenon, <1>12 DEF Kick, Schedule, HoldSet, FailSelect, AdminOp, SetHold, table,
         journal, customer, submission, worker, admin, history, budget
  <1>13. ASSUME NEW r \in Rules, HoldRuleAdd(r) \/ HoldRuleRemove(r)
         PROVE UNCHANGED <<terminal, accepted>>
      BY Zenon, <1>13 DEF HoldRuleAdd, HoldRuleRemove, AdminOp, table, journal, customer,
         submission, worker, admin, history, budget
  <1> QED
      BY Zenon, <1>1, <1>2, <1>3, <1>4, <1>5, <1>6, <1>7, <1>8, <1>9, <1>10, <1>11, <1>12,
         <1>13
         DEF Next, WorkerStep, FaultStep, AdminStep, vars, table, journal, customer,
             submission, worker, admin, history, budget

-----------------------------------------------------------------------------
(* Leases, the budget of attempts and holds. *)

\* Every step keeps FenceIdentifiesAttempt.
LEMMA FenceNext ==
  ASSUME IInv, [Next]_vars
  PROVE  FenceIdentifiesAttempt'
  <1>1. ASSUME UNCHANGED <<live, leasedBy, attempts, pc, cur, att>>
        PROVE FenceIdentifiesAttempt'
      BY Zenon, <1>1 DEF IInv, FenceIdentifiesAttempt, Owns
  <1>2. ASSUME \A m \in Msgs : m \in live' =>
                 m \in live /\ attempts'[m] = attempts[m] /\ leasedBy'[m] \in {leasedBy[m], None},
               \A n \in Nodes : pc'[n] \in {"start", "deliver", "record", "finish"} =>
                 /\ pc[n] \in {"start", "deliver", "record", "finish"}
                 /\ cur'[n] = cur[n] /\ cur[n] \in Msgs /\ att'[n] = att[n]
        PROVE  FenceIdentifiesAttempt'
    <2>1. FenceIdentifiesAttempt
        BY Zenon DEF IInv
    <2> QED
        BY SMTT(30), <1>2, <2>1, QueueAssumption DEF FenceIdentifiesAttempt, Owns
  <1>3. ASSUME EnqueueCommit PROVE FenceIdentifiesAttempt'
    <2>1. /\ FenceIdentifiesAttempt /\ IdsFresh
          /\ \A n \in Nodes : pc[n] \in Busy => cur[n] \in Msgs
        BY Zenon DEF IInv, TypeOK, WorkerType
    <2>2. /\ live' = live \cup {m \in Msgs : staged[m] # "no"}
          /\ UNCHANGED <<attempts, leasedBy, pc, cur, att>>
        BY Zenon, <1>3 DEF EnqueueCommit, worker
    <2> QED
        BY SMTT(30), <2>1, <2>2, QueueAssumption DEF FenceIdentifiesAttempt, IdsFresh, Busy, Owns
  <1>4. ASSUME NEW n \in Nodes, claim(n) PROVE FenceIdentifiesAttempt'
      BY SMTT(30), <1>4 DEF IInv, FenceIdentifiesAttempt, TypeOK, TableType, WorkerType, Busy,
         claim, Put, Owns
  <1>5. ASSUME NEW n \in Nodes, NEW m \in Msgs, renewLease(n, m) PROVE FenceIdentifiesAttempt'
      BY Zenon, <1>5 DEF IInv, FenceIdentifiesAttempt, TypeOK, TableType, WorkerType, Busy,
         renewLease, StillLeased, Owns
  <1>6. ASSUME NEW n \in Nodes, DeliverStart(n) PROVE FenceIdentifiesAttempt'
      BY Zenon, <1>6, <1>2 DEF IInv, TypeOK, WorkerType, Busy, DeliverStart, table
  <1>7. ASSUME NEW n \in Nodes, DeliverEnd(n) PROVE FenceIdentifiesAttempt'
      BY Zenon, <1>7, <1>2 DEF IInv, TypeOK, WorkerType, Busy, DeliverEnd, table
  <1>8. ASSUME NEW n \in Nodes, recordResult(n) PROVE FenceIdentifiesAttempt'
      BY Zenon, <1>8, <1>2 DEF IInv, TypeOK, WorkerType, Busy, recordResult, table
  <1>9. ASSUME NEW n \in Nodes, RecordError(n) PROVE FenceIdentifiesAttempt'
      BY Zenon, <1>9, <1>2 DEF IInv, TypeOK, WorkerType, Busy, RecordError, table
  <1>10. ASSUME NEW n \in Nodes, FinishDelivered(n) PROVE FenceIdentifiesAttempt'
    <2>1. \A m \in Msgs : m \in live' =>
            m \in live /\ attempts'[m] = attempts[m] /\ leasedBy'[m] \in {leasedBy[m], None}
        BY ZenonT(60), <1>10, RemoveEffect DEF IInv, TypeOK, WorkerType, Busy, Kinds,
           FinishDelivered, retire, Owns, table
    <2> QED
        BY Zenon, <1>10, <1>2, <2>1 DEF IInv, TypeOK, WorkerType, Busy, FinishDelivered,
           NextMsg
  <1>11. ASSUME NEW n \in Nodes, GiveUp(n) PROVE FenceIdentifiesAttempt'
    <2>1. \A m \in Msgs : m \in live' =>
            m \in live /\ attempts'[m] = attempts[m] /\ leasedBy'[m] \in {leasedBy[m], None}
        BY ZenonT(60), <1>11, RemoveEffect DEF IInv, TypeOK, WorkerType, Busy, Kinds, GiveUp,
           retire, Owns, table
    <2> QED
      <3>1. Hooked(n, "onFailed") \/ NextMsg(n)
          BY Zenon, <1>11 DEF GiveUp
      <3>2. \A k \in Nodes : pc'[k] \in {"start", "deliver", "record", "finish"} =>
              k # n /\ pc'[k] = pc[k] /\ cur'[k] = cur[k] /\ att'[k] = att[k]
          BY Zenon, <3>1 DEF IInv, TypeOK, WorkerType, NextMsg, Hooked
      <3> QED
          BY Zenon, <1>2, <2>1, <3>2 DEF IInv, TypeOK, WorkerType, Busy
  <1>12. ASSUME NEW n \in Nodes, reschedule(n) PROVE FenceIdentifiesAttempt'
    <2>1. \A m \in Msgs : m \in live' =>
            m \in live /\ attempts'[m] = attempts[m] /\ leasedBy'[m] \in {leasedBy[m], None}
        BY Zenon, <1>12 DEF IInv, TypeOK, TableType, reschedule, Retry, table
    <2>2. \A k \in Nodes : pc'[k] \in {"start", "deliver", "record", "finish"} =>
            k # n /\ pc'[k] = pc[k] /\ cur'[k] = cur[k] /\ att'[k] = att[k]
      <3>1. Hooked(n, "onDelayed") \/ NextMsg(n)
          BY Zenon, <1>12 DEF reschedule, Retry
      <3> QED
          BY ZenonT(60), <3>1 DEF IInv, TypeOK, WorkerType, NextMsg, Hooked
    <2> QED
        BY Zenon, <1>2, <2>1, <2>2 DEF IInv, TypeOK, WorkerType, Busy
  <1>13. ASSUME NEW n \in Nodes, FinishError(n) PROVE FenceIdentifiesAttempt'
      BY Zenon, <1>13, <1>2 DEF IInv, TypeOK, WorkerType, Busy, FinishError, NextMsg, table
  <1>14. ASSUME NEW n \in Nodes, OnFailed(n) PROVE FenceIdentifiesAttempt'
      BY Zenon, <1>14, <1>2 DEF IInv, TypeOK, WorkerType, Busy, OnFailed, NextMsg, table
  <1>15. ASSUME NEW n \in Nodes, OnDelayed(n) PROVE FenceIdentifiesAttempt'
      BY Zenon, <1>15, <1>2 DEF IInv, TypeOK, WorkerType, Busy, OnDelayed, NextMsg, table
  <1>16. ASSUME NEW n \in Nodes, Crash(n) PROVE FenceIdentifiesAttempt'
      BY Zenon, <1>16, <1>2 DEF IInv, TypeOK, WorkerType, Busy, Crash, table
  <1>17. ASSUME NEW S \in SUBSET Msgs, Drop(S) PROVE FenceIdentifiesAttempt'
    <2>1. \A m \in Msgs : m \in live' =>
            m \in live /\ attempts'[m] = attempts[m] /\ leasedBy'[m] \in {leasedBy[m], None}
        BY Zenon, <1>17, RemoveEffect DEF IInv, TypeOK, WorkerType, Busy, Kinds, Drop,
           table
    <2> QED
        BY Zenon, <1>17, <1>2, <2>1 DEF IInv, TypeOK, WorkerType, Busy, Drop, worker
  <1>18. ASSUME NEW f \in Msgs, FailRow(f) PROVE FenceIdentifiesAttempt'
    <2>1. \A m \in Msgs : m \in live' =>
            m \in live /\ attempts'[m] = attempts[m] /\ leasedBy'[m] \in {leasedBy[m], None}
      <3>1. CASE f \in live
        <4>1. Remove({f}, "failed") /\ "failed" \in Kinds /\ {f} \in SUBSET live
            BY Zenon, <1>18, <3>1 DEF FailRow, Kinds
        <4>2. TypeOK /\ ProjectionIsFold
            BY Zenon DEF IInv
        <4> QED
            BY Zenon, <4>1, <4>2, RemoveEffect
      <3>2. CASE f \notin live
          BY Zenon, <1>18, <3>2 DEF FailRow, table
      <3> QED
          BY Zenon, <3>1, <3>2
    <2> QED
        BY Zenon, <1>18, <1>2, <2>1 DEF IInv, TypeOK, WorkerType, Busy, FailRow, worker
  <1>19. ASSUME EnqueueAbort \/ FailDSN \/ FailCrash \/ Tick
         PROVE UNCHANGED <<live, leasedBy, attempts, pc, cur, att>>
      BY Zenon, <1>19 DEF EnqueueAbort, FailDSN, FailCrash, Tick, Fault, table, journal,
         customer, submission, worker, admin, history, budget
  <1>20. ASSUME NEW n \in Nodes, (\E m \in Msgs : RenewLost(n, m)) \/ (\E m \in Msgs
         : RenewError(n, m))
         PROVE UNCHANGED <<live, leasedBy, attempts, pc, cur, att>>
      BY Zenon, <1>20 DEF RenewLost, RenewError, Skip, Fault, table, journal, customer,
         submission, worker, admin, history, budget
  <1>21. ASSUME NEW m \in Msgs, EnqueueTx(m) \/ GrowOld(m) \/ CleanupRetired(m)
         PROVE UNCHANGED <<live, leasedBy, attempts, pc, cur, att>>
      BY Zenon, <1>21 DEF EnqueueTx, GrowOld, CleanupRetired, table, journal, customer,
         submission, worker, admin, history, budget
  <1>22. ASSUME NEW S \in SUBSET Msgs, Kick(S) \/ Schedule(S) \/ (\E h \in BOOLEAN :
         HoldSet(S, h)) \/ FailSelect(S)
         PROVE UNCHANGED <<live, leasedBy, attempts, pc, cur, att>>
      BY Zenon, <1>22 DEF Kick, Schedule, HoldSet, FailSelect, AdminOp, SetHold, table,
         journal, customer, submission, worker, admin, history, budget
  <1>23. ASSUME NEW r \in Rules, HoldRuleAdd(r) \/ HoldRuleRemove(r)
         PROVE UNCHANGED <<live, leasedBy, attempts, pc, cur, att>>
      BY Zenon, <1>23 DEF HoldRuleAdd, HoldRuleRemove, AdminOp, table, journal, customer,
         submission, worker, admin, history, budget
  <1> QED
      BY Zenon, <1>1, <1>2, <1>3, <1>4, <1>5, <1>6, <1>7, <1>8, <1>9, <1>10, <1>11, <1>12,
         <1>13, <1>14, <1>15, <1>16, <1>17, <1>18, <1>19, <1>20, <1>21, <1>22, <1>23
         DEF Next, WorkerStep, FaultStep, AdminStep, vars, table, journal, customer,
             submission, worker, admin, history, budget

\* Every step keeps BudgetLeft.
LEMMA BudgetNext ==
  ASSUME IInv, [Next]_vars
  PROVE  BudgetLeft'
  <1>1. ASSUME UNCHANGED <<live, leasedBy, attempts>>
        PROVE BudgetLeft'
      BY Zenon, <1>1 DEF IInv, BudgetLeft
  <1>2. ASSUME NEW S \in SUBSET live, NEW kind \in Kinds, Remove(S, kind)
        PROVE BudgetLeft'
      BY Zenon, <1>2, RemoveEffect DEF IInv, BudgetLeft, TypeOK, TableType, Remove
  <1>3. ASSUME EnqueueCommit PROVE BudgetLeft'
    <2>1. BudgetLeft /\ IdsFresh
        BY Zenon DEF IInv
    <2> QED
        BY SMTT(30), <1>3, <2>1, QueueAssumption DEF BudgetLeft, IdsFresh, EnqueueCommit
  <1>4. ASSUME NEW n \in Nodes, claim(n) PROVE BudgetLeft'
      BY <1>4, QueueAssumption DEF IInv, BudgetLeft, TypeOK, TableType, claim, Put
  <1>5. ASSUME NEW n \in Nodes, NEW m \in Msgs, renewLease(n, m) PROVE BudgetLeft'
      BY Zenon, <1>5, QueueAssumption DEF IInv, BudgetLeft, TypeOK, TableType, renewLease,
         StillLeased
  <1>6. ASSUME NEW n \in Nodes, FinishDelivered(n) PROVE BudgetLeft'
      BY Zenon, <1>6, <1>1, <1>2 DEF IInv, Kinds, TypeOK, WorkerType, Busy,
         FinishDelivered,
         retire, Owns, NextMsg, table, journal, customer, submission, admin, history
  <1>7. ASSUME NEW n \in Nodes, GiveUp(n) PROVE BudgetLeft'
      BY Zenon, <1>7, <1>1, <1>2 DEF IInv, Kinds, TypeOK, WorkerType, Busy, GiveUp, retire,
         Owns, table, journal, customer, submission, admin, history
  <1>8. ASSUME NEW n \in Nodes, reschedule(n) PROVE BudgetLeft'
    <2>1. CASE Owns(n, cur[n])
      <3>1. cur[n] \in live /\ attempts[cur[n]] = att[n] /\ att[n] < MaxAttempts
          BY SMTT(30), <1>8, <2>1, QueueAssumption
             DEF IInv, FenceIdentifiesAttempt, TypeOK, WorkerType, reschedule, Owns,
                Exhausted
      <3>2. UNCHANGED <<live, attempts>> /\ leasedBy' = [leasedBy EXCEPT ![cur[n]] = None]
          BY Zenon, <1>8, <2>1 DEF reschedule, Retry
      <3> QED
          BY Zenon, <3>1, <3>2 DEF IInv, BudgetLeft, TypeOK, TableType
    <2>2. CASE ~Owns(n, cur[n])
        BY Zenon, <1>8, <1>1, <2>2 DEF reschedule, table
    <2> QED
        BY Zenon, <2>1, <2>2
  <1>9. ASSUME NEW S \in SUBSET Msgs, Drop(S) PROVE BudgetLeft'
      BY Zenon, <1>9, <1>1, <1>2 DEF IInv, Kinds, Drop, table, journal, customer,
         submission,
         admin, history
  <1>10. ASSUME NEW m \in Msgs, FailRow(m) PROVE BudgetLeft'
      BY Zenon, <1>10, <1>1, <1>2 DEF IInv, Kinds, FailRow, table, journal, customer,
         submission, admin, history
  <1>11. ASSUME EnqueueAbort \/ FailDSN \/ FailCrash \/ Tick
         PROVE UNCHANGED <<live, leasedBy, attempts>>
      BY Zenon, <1>11 DEF EnqueueAbort, FailDSN, FailCrash, Tick, Fault, table, journal,
         customer, submission, worker, admin, history, budget
  <1>12. ASSUME NEW n \in Nodes, (\E m \in Msgs : RenewLost(n, m)) \/ (\E m \in Msgs
         : RenewError(n, m)) \/ DeliverStart(n) \/ DeliverEnd(n) \/ recordResult(n)
         \/ RecordError(n) \/ FinishError(n) \/ OnFailed(n) \/ OnDelayed(n) \/
         Crash(n)
         PROVE UNCHANGED <<live, leasedBy, attempts>>
      BY Zenon, <1>12 DEF RenewLost, RenewError, DeliverStart, DeliverEnd, recordResult,
         RecordError, FinishError, OnFailed, OnDelayed, Crash, Skip, Fault, NextMsg,
         table, journal, customer, submission, worker, admin, history, budget
  <1>13. ASSUME NEW m \in Msgs, EnqueueTx(m) \/ GrowOld(m) \/ CleanupRetired(m)
         PROVE UNCHANGED <<live, leasedBy, attempts>>
      BY Zenon, <1>13 DEF EnqueueTx, GrowOld, CleanupRetired, table, journal, customer,
         submission, worker, admin, history, budget
  <1>14. ASSUME NEW S \in SUBSET Msgs, Kick(S) \/ Schedule(S) \/ (\E h \in BOOLEAN :
         HoldSet(S, h)) \/ FailSelect(S)
         PROVE UNCHANGED <<live, leasedBy, attempts>>
      BY Zenon, <1>14 DEF Kick, Schedule, HoldSet, FailSelect, AdminOp, SetHold, table,
         journal, customer, submission, worker, admin, history, budget
  <1>15. ASSUME NEW r \in Rules, HoldRuleAdd(r) \/ HoldRuleRemove(r)
         PROVE UNCHANGED <<live, leasedBy, attempts>>
      BY Zenon, <1>15 DEF HoldRuleAdd, HoldRuleRemove, AdminOp, table, journal, customer,
         submission, worker, admin, history, budget
  <1> QED
      BY Zenon, <1>1, <1>2, <1>3, <1>4, <1>5, <1>6, <1>7, <1>8, <1>9, <1>10, <1>11, <1>12,
         <1>13, <1>14, <1>15
         DEF Next, WorkerStep, FaultStep, AdminStep, vars, table, journal, customer,
             submission, worker, admin, history, budget

\* Every step keeps LoggedHoldKept.
LEMMA HoldNext ==
  ASSUME IInv, [Next]_vars
  PROVE  LoggedHoldKept'
  <1>1. ASSUME UNCHANGED <<live, logHeld, held>>
        PROVE LoggedHoldKept'
      BY Zenon, <1>1 DEF IInv, LoggedHoldKept
  <1>2. ASSUME NEW S \in SUBSET live, NEW kind \in Kinds, Remove(S, kind)
        PROVE LoggedHoldKept'
      BY Zenon, <1>2, RemoveEffect DEF IInv, LoggedHoldKept, TypeOK, TableType, Remove
  <1>3. ASSUME EnqueueCommit PROVE LoggedHoldKept'
      BY Zenon, <1>3 DEF IInv, LoggedHoldKept, IdsFresh, EnqueueCommit
  <1>4. ASSUME NEW n \in Nodes, FinishDelivered(n) PROVE LoggedHoldKept'
      BY Zenon, <1>4, <1>1, <1>2 DEF IInv, Kinds, TypeOK, WorkerType, Busy,
         FinishDelivered,
         retire, Owns, NextMsg, table, journal, customer, submission, admin, history
  <1>5. ASSUME NEW n \in Nodes, GiveUp(n) PROVE LoggedHoldKept'
      BY Zenon, <1>5, <1>1, <1>2 DEF IInv, Kinds, TypeOK, WorkerType, Busy, GiveUp, retire,
         Owns, table, journal, customer, submission, admin, history
  <1>6. ASSUME NEW S \in SUBSET Msgs, Kick(S) PROVE LoggedHoldKept'
      BY Zenon, <1>6 DEF IInv, LoggedHoldKept, Kick, SetHold
  <1>7. ASSUME NEW S \in SUBSET Msgs, NEW h \in BOOLEAN, HoldSet(S, h) PROVE LoggedHoldKept'
      BY Zenon, <1>7 DEF IInv, LoggedHoldKept, HoldSet, SetHold
  <1>8. ASSUME NEW S \in SUBSET Msgs, Drop(S) PROVE LoggedHoldKept'
      BY Zenon, <1>8, <1>1, <1>2 DEF IInv, Kinds, Drop, table, journal, customer,
         submission,
         admin, history
  <1>9. ASSUME NEW m \in Msgs, FailRow(m) PROVE LoggedHoldKept'
      BY Zenon, <1>9, <1>1, <1>2 DEF IInv, Kinds, FailRow, table, journal, customer,
         submission, admin, history
  <1>10. ASSUME NEW r \in Rules, HoldRuleAdd(r) PROVE LoggedHoldKept'
      BY Zenon, <1>10 DEF IInv, LoggedHoldKept, HoldRuleAdd, journal
  <1>11. ASSUME NEW m \in Msgs, CleanupRetired(m) PROVE LoggedHoldKept'
      BY Zenon, <1>11 DEF IInv, LoggedHoldKept, CleanupRetired, table
  <1>12. ASSUME EnqueueAbort \/ FailDSN \/ FailCrash \/ Tick
         PROVE UNCHANGED <<live, logHeld, held>>
      BY Zenon, <1>12 DEF EnqueueAbort, FailDSN, FailCrash, Tick, Fault, table, journal,
         customer, submission, worker, admin, history, budget
  <1>13. ASSUME NEW n \in Nodes, claim(n) \/ (\E m \in Msgs : renewLease(n, m)) \/
         (\E m \in Msgs : RenewLost(n, m)) \/ (\E m \in Msgs : RenewError(n, m)) \/
         DeliverStart(n) \/ DeliverEnd(n) \/ recordResult(n) \/ RecordError(n) \/
         reschedule(n) \/ FinishError(n) \/ OnFailed(n) \/ OnDelayed(n) \/ Crash(n)
         PROVE UNCHANGED <<live, logHeld, held>>
      BY Zenon, <1>13 DEF claim, renewLease, RenewLost, RenewError, DeliverStart,
         DeliverEnd, recordResult, RecordError, reschedule, FinishError, OnFailed,
         OnDelayed, Crash, Skip, Fault, Retry, Hooked, NextMsg, table, journal,
         customer, submission, worker, admin, history, budget
  <1>14. ASSUME NEW m \in Msgs, EnqueueTx(m) \/ GrowOld(m)
         PROVE UNCHANGED <<live, logHeld, held>>
      BY Zenon, <1>14 DEF EnqueueTx, GrowOld, table, journal, customer, submission, worker,
         admin, history, budget
  <1>15. ASSUME NEW S \in SUBSET Msgs, Schedule(S) \/ FailSelect(S)
         PROVE UNCHANGED <<live, logHeld, held>>
      BY Zenon, <1>15 DEF Schedule, FailSelect, AdminOp, table, journal, customer,
         submission, worker, admin, history, budget
  <1>16. ASSUME NEW r \in Rules, HoldRuleRemove(r)
         PROVE UNCHANGED <<live, logHeld, held>>
      BY Zenon, <1>16 DEF HoldRuleRemove, AdminOp, table, journal, customer, submission,
         worker, admin, history, budget
  <1> QED
      BY Zenon, <1>1, <1>2, <1>3, <1>4, <1>5, <1>6, <1>7, <1>8, <1>9, <1>10, <1>11, <1>12,
         <1>13, <1>14, <1>15, <1>16
         DEF Next, WorkerStep, FaultStep, AdminStep, vars, table, journal, customer,
             submission, worker, admin, history, budget

-----------------------------------------------------------------------------
(* Each notice to the sender is owed by one process and sent once. *)

\* A row that is there has no outcome, and nobody owes or has sent a notice of its
\* failure.
LEMMA RemovedWasOpen ==
  ASSUME IInv, NEW m \in live
  PROVE  /\ m \in Msgs /\ terminal[m] = <<>>
         /\ terminal[m] # <<"failed">>
         /\ failNotices[m] = 0 /\ dsn # m
         /\ \A n \in Nodes : pc[n] = "onFailed" => cur[n] # m
  <1>1. m \in Msgs /\ terminal[m] = <<>>
      BY Zenon DEF IInv, TypeOK, TableType, ProjectionIsFold
  <1>2. terminal[m] # <<"failed">>
      BY <1>1
  <1>3. failNotices[m] = 0
      BY Zenon, <1>1 DEF IInv, FailureNoticeOnce, TypeOK, RestType
  <1> QED
      BY Zenon, <1>1, <1>2, <1>3, QueueAssumption DEF IInv, FailOwed

\* Every step keeps FailOwed.
LEMMA FailOwedNext ==
  ASSUME IInv, [Next]_vars
  PROVE  FailOwed'
  <1>1. ASSUME UNCHANGED <<terminal, failNotices, pc, cur, dsn>>
        PROVE FailOwed'
      BY Zenon, <1>1 DEF IInv, FailOwed
  <1>2. ASSUME \A m \in Msgs : terminal[m] = <<"failed">> => terminal'[m] = terminal[m],
               UNCHANGED failNotices, dsn' \in {dsn, None},
               \A n \in Nodes : pc'[n] = "onFailed" => pc[n] = "onFailed" /\ cur'[n] = cur[n]
        PROVE  FailOwed'
      BY SMTT(30), <1>2, QueueAssumption DEF IInv, FailOwed, TypeOK, WorkerType, RestType,
         Busy
  <1>3. ASSUME NEW n \in Nodes, NEW m \in Msgs, renewLease(n, m) PROVE FailOwed'
      BY Zenon, <1>3, <1>2 DEF IInv, TypeOK, WorkerType, renewLease, journal, worker,
         admin,
         history
  <1>4. ASSUME NEW n \in Nodes, DeliverStart(n) PROVE FailOwed'
      BY Zenon, <1>4, <1>2 DEF IInv, TypeOK, WorkerType, DeliverStart, journal, worker,
         admin, history
  <1>5. ASSUME NEW n \in Nodes, DeliverEnd(n) PROVE FailOwed'
      BY Zenon, <1>5, <1>2 DEF IInv, TypeOK, WorkerType, DeliverEnd, journal, worker,
         admin,
         history
  <1>6. ASSUME NEW n \in Nodes, recordResult(n) PROVE FailOwed'
      BY Zenon, <1>6, <1>2 DEF IInv, TypeOK, WorkerType, recordResult, journal, worker,
         admin, history
  <1>7. ASSUME NEW n \in Nodes, RecordError(n) PROVE FailOwed'
      BY Zenon, <1>7, <1>2 DEF IInv, TypeOK, WorkerType, RecordError, journal, worker,
         admin,
         history
  <1>8. ASSUME NEW n \in Nodes, FinishDelivered(n) PROVE FailOwed'
    <2>1. \A m \in Msgs : terminal[m] = <<"failed">> => terminal'[m] = terminal[m]
      <3>1. CASE Owns(n, cur[n])
        <4>1. cur[n] \in live /\ Remove({cur[n]}, "delivered")
            BY Zenon, <1>8, <3>1 DEF FinishDelivered, retire, Owns
        <4> QED
            BY SMTT(30), <4>1, RemovedWasOpen, RemoveEffect DEF IInv, Kinds
      <3>2. CASE ~Owns(n, cur[n])
          BY Zenon, <1>8, <3>2 DEF FinishDelivered, retire, journal
      <3> QED
          BY Zenon, <3>1, <3>2
    <2> QED
        BY Zenon, <1>8, <1>2, <2>1 DEF IInv, TypeOK, WorkerType, FinishDelivered, NextMsg,
           admin, history
  <1>9. ASSUME NEW n \in Nodes, GiveUp(n) PROVE FailOwed'
    <2>1. CASE Owns(n, cur[n])
      <3>1. cur[n] \in live /\ cur[n] \in Msgs
          BY Zenon, <2>1 DEF IInv, TypeOK, TableType, Owns
      <3>2. Remove({cur[n]}, "failed") /\ Hooked(n, "onFailed")
          BY Zenon, <1>9, <2>1 DEF GiveUp, retire
      <3>3. \A m \in Msgs : terminal'[m] = IF m = cur[n] THEN <<"failed">> ELSE terminal[m]
        <4>1. "failed" \in Kinds /\ TypeOK /\ ProjectionIsFold
            BY Zenon DEF Kinds, IInv
        <4> QED
            BY Zenon, <3>1, <3>2, <4>1, RemoveOne
      <3>4. \A k \in Nodes : cur'[k] = cur[k] /\ (pc'[k] = "onFailed" <=> pc[k] = "onFailed" \/ k = n)
          BY Zenon, <3>2 DEF IInv, TypeOK, WorkerType, Hooked
      <3>5. UNCHANGED <<failNotices, dsn>>
          BY Zenon, <1>9 DEF GiveUp, admin, history
      <3>6. \A k \in Nodes : pc[k] = "onFailed" => cur[k] \in Msgs \ {cur[n]}
          BY Zenon, <3>1, RemovedWasOpen DEF IInv, TypeOK, WorkerType, Busy
      <3>7. failNotices[cur[n]] = 0 /\ dsn # cur[n]
          BY Zenon, <3>1, RemovedWasOpen
      <3> QED
        <4>1. FailOwed /\ dsn \in Msgs \cup {None}
            BY Zenon DEF IInv, TypeOK, RestType
        <4> QED
            BY SMTT(30), <3>1, <3>3, <3>4, <3>5, <3>6, <3>7, <4>1, QueueAssumption DEF FailOwed
    <2>2. CASE ~Owns(n, cur[n])
        BY SMTT(30), <1>9, <1>2, <2>2 DEF IInv, TypeOK, WorkerType, GiveUp, retire, NextMsg,
           journal, admin, history
    <2> QED
        BY Zenon, <2>1, <2>2
  <1>10. ASSUME NEW n \in Nodes, reschedule(n) PROVE FailOwed'
    <2>1. UNCHANGED <<terminal, failNotices, dsn>>
        BY Zenon, <1>10 DEF reschedule, Retry, journal, admin, history
    <2>2. \A k \in Nodes : pc'[k] = "onFailed" => pc[k] = "onFailed" /\ cur'[k] = cur[k]
      <3>1. Hooked(n, "onDelayed") \/ NextMsg(n)
          BY Zenon, <1>10 DEF reschedule, Retry
      <3> QED
          BY Zenon, <3>1 DEF IInv, TypeOK, WorkerType, NextMsg, Hooked
    <2> QED
        BY Zenon, <1>2, <2>1, <2>2
  <1>11. ASSUME NEW n \in Nodes, FinishError(n) PROVE FailOwed'
      BY Zenon, <1>11, <1>2 DEF IInv, TypeOK, WorkerType, FinishError, NextMsg, journal,
         worker, admin, history
  <1>12. ASSUME NEW n \in Nodes, OnFailed(n) PROVE FailOwed'
      BY ZenonT(60), <1>12 DEF IInv, FailOwed, TypeOK, WorkerType, RestType, Busy, OnFailed,
         NextMsg, journal, admin
  <1>13. ASSUME NEW n \in Nodes, OnDelayed(n) PROVE FailOwed'
      BY Zenon, <1>13, <1>2 DEF IInv, TypeOK, WorkerType, OnDelayed, NextMsg, journal,
         worker,
         admin, history
  <1>14. ASSUME NEW n \in Nodes, Crash(n) PROVE FailOwed'
      BY Zenon, <1>14, <1>2 DEF IInv, TypeOK, WorkerType, Crash, journal, worker, admin,
         history
  <1>15. ASSUME NEW S \in SUBSET Msgs, Drop(S) PROVE FailOwed'
    <2>1. \A m \in Msgs : terminal[m] = <<"failed">> => terminal'[m] = terminal[m]
      <3> DEFINE rows == S \cap live
      <3>1. "dropped" \in Kinds /\ rows \in SUBSET live /\ TypeOK /\ ProjectionIsFold
          BY Zenon DEF Kinds, IInv
      <3>2. Remove(rows, "dropped") /\ \A m \in rows : m \in live
          BY Zenon, <1>15 DEF Drop
      <3> HIDE DEF rows
      <3>3. \A m \in Msgs : m \notin rows => terminal'[m] = terminal[m]
          BY ZenonT(60), <3>1, <3>2, RemoveEffect
      <3>4. \A m \in live : terminal[m] # <<"failed">>
          BY Zenon, RemovedWasOpen
      <3> QED
          BY Zenon, <3>2, <3>3, <3>4
    <2> QED
        BY Zenon, <1>15, <1>2, <2>1 DEF IInv, TypeOK, WorkerType, Drop, worker, admin,
           history
  <1>16. ASSUME NEW m \in Msgs, FailRow(m) PROVE FailOwed'
    <2>1. CASE m \in live
      <3>1. Remove({m}, "failed") /\ dsn' = m
          BY Zenon, <1>16, <2>1 DEF FailRow
      <3>2. \A k \in Msgs : terminal'[k] = IF k = m THEN <<"failed">> ELSE terminal[k]
        <4>1. "failed" \in Kinds /\ TypeOK /\ ProjectionIsFold
            BY Zenon DEF Kinds, IInv
        <4> QED
            BY Zenon, <2>1, <3>1, <4>1, RemoveOne
      <3> QED
          BY ZenonT(60), <1>16, <2>1, <3>1, <3>2, RemovedWasOpen
             DEF IInv, FailOwed, TypeOK, WorkerType, RestType, Busy, FailRow,
                worker, history
    <2>2. CASE m \notin live
        BY Zenon, <1>16, <1>2, <2>2 DEF FailRow, journal, worker, history
    <2> QED
        BY Zenon, <2>1, <2>2
  <1>17. ASSUME FailDSN PROVE FailOwed'
      BY ZenonT(60), <1>17, QueueAssumption DEF IInv, FailOwed, TypeOK, WorkerType, RestType,
         Busy, FailDSN, journal, worker
  <1>18. ASSUME FailCrash PROVE FailOwed'
      BY Zenon, <1>18, <1>2 DEF IInv, TypeOK, WorkerType, FailCrash, journal, worker,
         admin,
         history
  <1>19. ASSUME NEW m \in Msgs, CleanupRetired(m) PROVE FailOwed'
      BY Zenon, <1>19 DEF IInv, FailOwed, TypeOK, WorkerType, LogType, RestType, Busy,
         CleanupRetired, worker, admin, history
  <1>20. ASSUME EnqueueCommit \/ EnqueueAbort \/ Tick
         PROVE UNCHANGED <<terminal, failNotices, pc, cur, dsn>>
      BY Zenon, <1>20 DEF EnqueueCommit, EnqueueAbort, Tick, Fault, table, journal,
         customer, submission, worker, admin, history, budget
  <1>21. ASSUME NEW n \in Nodes, claim(n) \/ (\E m \in Msgs : RenewLost(n, m)) \/
         (\E m \in Msgs : RenewError(n, m))
         PROVE UNCHANGED <<terminal, failNotices, pc, cur, dsn>>
      BY Zenon, <1>21 DEF claim, RenewLost, RenewError, Skip, Fault, table, journal,
         customer, submission, worker, admin, history, budget
  <1>22. ASSUME NEW m \in Msgs, EnqueueTx(m) \/ GrowOld(m)
         PROVE UNCHANGED <<terminal, failNotices, pc, cur, dsn>>
      BY Zenon, <1>22 DEF EnqueueTx, GrowOld, table, journal, customer, submission, worker,
         admin, history, budget
  <1>23. ASSUME NEW S \in SUBSET Msgs, Kick(S) \/ Schedule(S) \/ (\E h \in BOOLEAN :
         HoldSet(S, h)) \/ FailSelect(S)
         PROVE UNCHANGED <<terminal, failNotices, pc, cur, dsn>>
      BY Zenon, <1>23 DEF Kick, Schedule, HoldSet, FailSelect, AdminOp, SetHold, table,
         journal, customer, submission, worker, admin, history, budget
  <1>24. ASSUME NEW r \in Rules, HoldRuleAdd(r) \/ HoldRuleRemove(r)
         PROVE UNCHANGED <<terminal, failNotices, pc, cur, dsn>>
      BY Zenon, <1>24 DEF HoldRuleAdd, HoldRuleRemove, AdminOp, table, journal, customer,
         submission, worker, admin, history, budget
  <1> QED
      BY Zenon, <1>1, <1>2, <1>3, <1>4, <1>5, <1>6, <1>7, <1>8, <1>9, <1>10, <1>11, <1>12,
         <1>13, <1>14, <1>15, <1>16, <1>17, <1>18, <1>19, <1>20, <1>21, <1>22,
         <1>23, <1>24
         DEF Next, WorkerStep, FaultStep, AdminStep, vars, table, journal, customer,
             submission, worker, admin, history, budget

\* Every step keeps FailureNoticeOnce.
LEMMA NoticeNext ==
  ASSUME IInv, [Next]_vars
  PROVE  FailureNoticeOnce'
  <1>1. ASSUME UNCHANGED <<live, terminal, failNotices>>
        PROVE FailureNoticeOnce'
      BY Zenon, <1>1 DEF IInv, FailureNoticeOnce
  <1>2. ASSUME NEW S \in SUBSET live, NEW kind \in Kinds, Remove(S, kind), UNCHANGED
                <<failNotices>>
        PROVE FailureNoticeOnce'
    <2>1. \A m \in Msgs : m \in S => failNotices[m] = 0
        BY Zenon, RemovedWasOpen
    <2>2. \A m \in Msgs \ S : terminal'[m] = terminal[m] /\ (m \in live' => m \in live)
        BY Zenon, <1>2, RemoveEffect DEF IInv
    <2> QED
        BY Zenon, <1>2, <2>1, <2>2 DEF IInv, FailureNoticeOnce
  <1>3. ASSUME EnqueueCommit PROVE FailureNoticeOnce'
      BY Zenon, <1>3 DEF IInv, FailureNoticeOnce, IdsFresh, EnqueueCommit, history
  <1>4. ASSUME NEW n \in Nodes, FinishDelivered(n) PROVE FailureNoticeOnce'
      BY Zenon, <1>4, <1>1, <1>2 DEF IInv, Kinds, TypeOK, WorkerType, Busy,
         FinishDelivered,
         retire, Owns, NextMsg, table, journal, customer, submission, admin, history
  <1>5. ASSUME NEW n \in Nodes, GiveUp(n) PROVE FailureNoticeOnce'
      BY Zenon, <1>5, <1>1, <1>2 DEF IInv, Kinds, TypeOK, WorkerType, Busy, GiveUp, retire,
         Owns, table, journal, customer, submission, admin, history
  <1>6. ASSUME NEW n \in Nodes, OnFailed(n) PROVE FailureNoticeOnce'
    <2>1. cur[n] \in Msgs /\ terminal[cur[n]] = <<"failed">> /\ failNotices[cur[n]] = 0
        BY Zenon, <1>6 DEF IInv, FailOwed, TypeOK, WorkerType, RestType, Busy, OnFailed
    <2>2. cur[n] \notin live
        BY Zenon, <2>1, RemovedWasOpen
    <2>3. UNCHANGED <<live, terminal>> /\ failNotices' = [failNotices EXCEPT ![cur[n]] = @ + 1]
        BY Zenon, <1>6 DEF OnFailed, table, journal
    <2>4. \A m \in Msgs : failNotices'[m] = IF m = cur[n] THEN 1 ELSE failNotices[m]
      <3>1. failNotices \in [Msgs -> Nat]
          BY Zenon DEF IInv, TypeOK, RestType
      <3>2. 0 + 1 = 1
          OBVIOUS
      <3> QED
          BY Zenon, <2>1, <2>3, <3>1, <3>2
    <2> QED
        BY ZenonT(60), <2>1, <2>2, <2>3, <2>4 DEF IInv, FailureNoticeOnce
  <1>7. ASSUME NEW S \in SUBSET Msgs, Drop(S) PROVE FailureNoticeOnce'
      BY Zenon, <1>7, <1>1, <1>2 DEF IInv, Kinds, Drop, table, journal, customer,
         submission,
         admin, history
  <1>8. ASSUME NEW m \in Msgs, FailRow(m) PROVE FailureNoticeOnce'
      BY Zenon, <1>8, <1>1, <1>2 DEF IInv, Kinds, FailRow, table, journal, customer,
         submission, admin, history
  <1>9. ASSUME FailDSN PROVE FailureNoticeOnce'
    <2>1. dsn \in Msgs /\ terminal[dsn] = <<"failed">> /\ failNotices[dsn] = 0
        BY Zenon, <1>9 DEF IInv, FailOwed, TypeOK, WorkerType, RestType, Busy, FailDSN
    <2>2. dsn \notin live
        BY Zenon, <2>1, RemovedWasOpen
    <2>3. UNCHANGED <<live, terminal>> /\ failNotices' = [failNotices EXCEPT ![dsn] = @ + 1]
        BY Zenon, <1>9 DEF FailDSN, table, journal
    <2>4. \A m \in Msgs : failNotices'[m] = IF m = dsn THEN 1 ELSE failNotices[m]
        BY <2>1, <2>3 DEF IInv, TypeOK, RestType
    <2> QED
        BY Zenon, <2>1, <2>2, <2>3, <2>4 DEF IInv, FailureNoticeOnce
  <1>10. ASSUME NEW m \in Msgs, CleanupRetired(m) PROVE FailureNoticeOnce'
      BY Zenon, <1>10 DEF IInv, FailureNoticeOnce, TypeOK, LogType, CleanupRetired, table,
         history
  <1>11. ASSUME EnqueueAbort \/ FailCrash \/ Tick
         PROVE UNCHANGED <<live, terminal, failNotices>>
      BY Zenon, <1>11 DEF EnqueueAbort, FailCrash, Tick, Fault, table, journal, customer,
         submission, worker, admin, history, budget
  <1>12. ASSUME NEW n \in Nodes, claim(n) \/ (\E m \in Msgs : renewLease(n, m)) \/
         (\E m \in Msgs : RenewLost(n, m)) \/ (\E m \in Msgs : RenewError(n, m)) \/
         DeliverStart(n) \/ DeliverEnd(n) \/ recordResult(n) \/ RecordError(n) \/
         reschedule(n) \/ FinishError(n) \/ OnDelayed(n) \/ Crash(n)
         PROVE UNCHANGED <<live, terminal, failNotices>>
      BY Zenon, <1>12 DEF claim, renewLease, RenewLost, RenewError, DeliverStart,
         DeliverEnd, recordResult, RecordError, reschedule, FinishError, OnDelayed,
         Crash, Skip, Fault, Retry, Hooked, NextMsg, table, journal, customer,
         submission, worker, admin, history, budget
  <1>13. ASSUME NEW m \in Msgs, EnqueueTx(m) \/ GrowOld(m)
         PROVE UNCHANGED <<live, terminal, failNotices>>
      BY Zenon, <1>13 DEF EnqueueTx, GrowOld, table, journal, customer, submission, worker,
         admin, history, budget
  <1>14. ASSUME NEW S \in SUBSET Msgs, Kick(S) \/ Schedule(S) \/ (\E h \in BOOLEAN :
         HoldSet(S, h)) \/ FailSelect(S)
         PROVE UNCHANGED <<live, terminal, failNotices>>
      BY Zenon, <1>14 DEF Kick, Schedule, HoldSet, FailSelect, AdminOp, SetHold, table,
         journal, customer, submission, worker, admin, history, budget
  <1>15. ASSUME NEW r \in Rules, HoldRuleAdd(r) \/ HoldRuleRemove(r)
         PROVE UNCHANGED <<live, terminal, failNotices>>
      BY Zenon, <1>15 DEF HoldRuleAdd, HoldRuleRemove, AdminOp, table, journal, customer,
         submission, worker, admin, history, budget
  <1> QED
      BY Zenon, <1>1, <1>2, <1>3, <1>4, <1>5, <1>6, <1>7, <1>8, <1>9, <1>10, <1>11, <1>12,
         <1>13, <1>14, <1>15
         DEF Next, WorkerStep, FaultStep, AdminStep, vars, table, journal, customer,
             submission, worker, admin, history, budget

\* Every step keeps DelayOwed.
LEMMA DelayNext ==
  ASSUME IInv, [Next]_vars
  PROVE  DelayOwed'
  <1>1. ASSUME UNCHANGED <<live, delayed, warnings, delayNotices, pc, cur>>
        PROVE DelayOwed'
      BY Zenon, <1>1 DEF IInv, DelayOwed
  <1>2. ASSUME UNCHANGED <<warnings, delayNotices>>,
               \A m \in Msgs : m \in live' => m \in live /\ (m \in delayed' <=> m \in delayed),
               \A n \in Nodes : pc'[n] = "onDelayed" => pc[n] = "onDelayed" /\ cur'[n] = cur[n]
        PROVE  DelayOwed'
      BY ZenonT(60), <1>2 DEF IInv, DelayOwed
  <1>3. ASSUME EnqueueCommit PROVE DelayOwed'
    <2>1. /\ UNCHANGED <<delayed, warnings, delayNotices, pc, cur>>
          /\ live' = live \cup {m \in Msgs : staged[m] # "no"}
        BY Zenon, <1>3 DEF EnqueueCommit, worker, history
    <2>2. \A m \in Msgs : staged[m] # "no" =>
            m \notin delayed /\ warnings[m] = 0 /\ delayNotices[m] = 0
        BY Zenon DEF IInv, IdsFresh
    <2> QED
      <3>1. DelayOwed
          BY Zenon DEF IInv
      <3> QED
          BY SMTT(30), <2>1, <2>2, <3>1 DEF DelayOwed
  <1>4. ASSUME NEW n \in Nodes, NEW m \in Msgs, renewLease(n, m) PROVE DelayOwed'
      BY Zenon, <1>4, <1>2 DEF IInv, TypeOK, WorkerType, renewLease, table, journal,
         history
  <1>5. ASSUME NEW n \in Nodes, DeliverStart(n) PROVE DelayOwed'
      BY Zenon, <1>5, <1>2 DEF IInv, TypeOK, WorkerType, DeliverStart, table, journal,
         history
  <1>6. ASSUME NEW n \in Nodes, DeliverEnd(n) PROVE DelayOwed'
      BY Zenon, <1>6, <1>2 DEF IInv, TypeOK, WorkerType, DeliverEnd, table, journal,
         history
  <1>7. ASSUME NEW n \in Nodes, recordResult(n) PROVE DelayOwed'
      BY Zenon, <1>7, <1>2 DEF IInv, TypeOK, WorkerType, recordResult, table, journal,
         history
  <1>8. ASSUME NEW n \in Nodes, RecordError(n) PROVE DelayOwed'
      BY Zenon, <1>8, <1>2 DEF IInv, TypeOK, WorkerType, RecordError, table, journal,
         history
  <1>9. ASSUME NEW n \in Nodes, FinishDelivered(n) PROVE DelayOwed'
    <2>1. \A m \in Msgs : m \in live' => m \in live /\ (m \in delayed' <=> m \in delayed)
        BY ZenonT(60), <1>9 DEF FinishDelivered, retire, Remove, table
    <2>2. UNCHANGED <<warnings, delayNotices>>
        BY Zenon, <1>9 DEF FinishDelivered, retire, Remove, journal, history
    <2>3. \A k \in Nodes : pc'[k] = "onDelayed" => pc[k] = "onDelayed" /\ cur'[k] = cur[k]
        BY Zenon, <1>9 DEF IInv, TypeOK, WorkerType, FinishDelivered, NextMsg
    <2> QED
        BY Zenon, <1>2, <2>1, <2>2, <2>3
  <1>10. ASSUME NEW n \in Nodes, GiveUp(n) PROVE DelayOwed'
    <2>1. \A m \in Msgs : m \in live' => m \in live /\ (m \in delayed' <=> m \in delayed)
        BY Zenon, <1>10 DEF GiveUp, retire, Remove, table
    <2>2. UNCHANGED <<warnings, delayNotices>>
        BY Zenon, <1>10 DEF GiveUp, retire, Remove, journal, history
    <2>3. \A k \in Nodes : pc'[k] = "onDelayed" => pc[k] = "onDelayed" /\ cur'[k] = cur[k]
        BY <1>10 DEF IInv, TypeOK, WorkerType, GiveUp, NextMsg, Hooked
    <2> QED
        BY Zenon, <1>2, <2>1, <2>2, <2>3
  <1>11. ASSUME NEW n \in Nodes, reschedule(n) PROVE DelayOwed'
    <2>1. CASE Owns(n, cur[n]) /\ firedDelay(n)
      <3>1. cur[n] \in live /\ cur[n] \in Msgs /\ cur[n] \notin delayed
          BY Zenon, <2>1 DEF IInv, TypeOK, TableType, Owns, firedDelay
      <3>2. warnings[cur[n]] = 0 /\ delayNotices[cur[n]] = 0
          BY Zenon, <3>1 DEF IInv, DelayOwed
      <3>3. /\ UNCHANGED <<live, delayNotices, cur>> /\ delayed' = delayed \cup {cur[n]}
            /\ warnings' = [warnings EXCEPT ![cur[n]] = @ + 1]
            /\ pc' = [pc EXCEPT ![n] = "onDelayed"]
          BY Zenon, <1>11, <2>1 DEF reschedule, Retry, firedDelay, Hooked, history
      <3>4. warnings'[cur[n]] = 1 /\ \A m \in Msgs : m # cur[n] => warnings'[m] = warnings[m]
          BY SMTT(30), <3>1, <3>2, <3>3 DEF IInv, TypeOK, LogType
      <3>5. \A k \in Nodes : pc[k] = "onDelayed" => cur[k] \in Msgs /\ cur[k] # cur[n]
          BY SMTT(30), <3>2 DEF IInv, DelayOwed, TypeOK, WorkerType, Busy
      <3> QED
          BY <3>1, <3>2, <3>3, <3>4, <3>5 DEF IInv, DelayOwed, TypeOK, WorkerType
    <2>2. CASE Owns(n, cur[n]) /\ ~firedDelay(n)
      <3>1. UNCHANGED <<live, warnings, delayNotices>> /\ delayed' = delayed /\ NextMsg(n)
          BY ZenonT(60), <1>11, <2>2 DEF reschedule, Retry, firedDelay, history
      <3> QED
          BY Zenon, <1>2, <3>1 DEF IInv, TypeOK, WorkerType, NextMsg
    <2>3. CASE ~Owns(n, cur[n])
        BY ZenonT(60), <1>11, <1>2, <2>3 DEF IInv, TypeOK, WorkerType, reschedule, NextMsg,
           table, journal, history
    <2> QED
        BY Zenon, <2>1, <2>2, <2>3
  <1>12. ASSUME NEW n \in Nodes, FinishError(n) PROVE DelayOwed'
      BY Zenon, <1>12, <1>2 DEF IInv, TypeOK, WorkerType, FinishError, NextMsg, table,
         journal, history
  <1>13. ASSUME NEW n \in Nodes, OnFailed(n) PROVE DelayOwed'
      BY Zenon, <1>13, <1>2 DEF IInv, TypeOK, WorkerType, OnFailed, NextMsg, table,
         journal,
         history
  <1>14. ASSUME NEW n \in Nodes, OnDelayed(n) PROVE DelayOwed'
      BY SMTT(30), <1>14 DEF IInv, DelayOwed, TypeOK, WorkerType, RestType, Busy, OnDelayed,
         NextMsg, table, journal
  <1>15. ASSUME NEW n \in Nodes, Crash(n) PROVE DelayOwed'
      BY Zenon, <1>15, <1>2 DEF IInv, TypeOK, WorkerType, Crash, table, journal, history
  <1>16. ASSUME NEW S \in SUBSET Msgs, Drop(S) PROVE DelayOwed'
    <2>1. \A m \in Msgs : m \in live' => m \in live /\ (m \in delayed' <=> m \in delayed)
        BY Zenon, <1>16 DEF Drop, Remove, table
    <2>2. UNCHANGED <<warnings, delayNotices>>
        BY Zenon, <1>16 DEF Drop, Remove, journal, history
    <2>3. \A k \in Nodes : pc'[k] = "onDelayed" => pc[k] = "onDelayed" /\ cur'[k] = cur[k]
        BY Zenon, <1>16 DEF IInv, TypeOK, WorkerType, Drop, worker
    <2> QED
        BY Zenon, <1>2, <2>1, <2>2, <2>3
  <1>17. ASSUME NEW f \in Msgs, FailRow(f) PROVE DelayOwed'
    <2>1. \A m \in Msgs : m \in live' => m \in live /\ (m \in delayed' <=> m \in delayed)
        BY Zenon, <1>17 DEF FailRow, Remove, table
    <2>2. UNCHANGED <<warnings, delayNotices>>
        BY Zenon, <1>17 DEF FailRow, Remove, journal, history
    <2>3. \A k \in Nodes : pc'[k] = "onDelayed" => pc[k] = "onDelayed" /\ cur'[k] = cur[k]
        BY Zenon, <1>17 DEF IInv, TypeOK, WorkerType, FailRow, worker
    <2> QED
        BY Zenon, <1>2, <2>1, <2>2, <2>3
  <1>18. ASSUME NEW m \in Msgs, CleanupRetired(m) PROVE DelayOwed'
      BY ZenonT(60), <1>18 DEF IInv, DelayOwed, ProjectionIsFold, TypeOK, WorkerType, LogType,
         Busy, CleanupRetired,
         table, worker, history
  <1>19. ASSUME EnqueueAbort \/ FailDSN \/ FailCrash \/ Tick
         PROVE UNCHANGED <<live, delayed, warnings, delayNotices, pc, cur>>
      BY Zenon, <1>19 DEF EnqueueAbort, FailDSN, FailCrash, Tick, Fault, table, journal,
         customer, submission, worker, admin, history, budget
  <1>20. ASSUME NEW n \in Nodes, claim(n) \/ (\E m \in Msgs : RenewLost(n, m)) \/
         (\E m \in Msgs : RenewError(n, m))
         PROVE UNCHANGED <<live, delayed, warnings, delayNotices, pc, cur>>
      BY Zenon, <1>20 DEF claim, RenewLost, RenewError, Skip, Fault, table, journal,
         customer, submission, worker, admin, history, budget
  <1>21. ASSUME NEW m \in Msgs, EnqueueTx(m) \/ GrowOld(m)
         PROVE UNCHANGED <<live, delayed, warnings, delayNotices, pc, cur>>
      BY Zenon, <1>21 DEF EnqueueTx, GrowOld, table, journal, customer, submission, worker,
         admin, history, budget
  <1>22. ASSUME NEW S \in SUBSET Msgs, Kick(S) \/ Schedule(S) \/ (\E h \in BOOLEAN :
         HoldSet(S, h)) \/ FailSelect(S)
         PROVE UNCHANGED <<live, delayed, warnings, delayNotices, pc, cur>>
      BY Zenon, <1>22 DEF Kick, Schedule, HoldSet, FailSelect, AdminOp, SetHold, table,
         journal, customer, submission, worker, admin, history, budget
  <1>23. ASSUME NEW r \in Rules, HoldRuleAdd(r) \/ HoldRuleRemove(r)
         PROVE UNCHANGED <<live, delayed, warnings, delayNotices, pc, cur>>
      BY Zenon, <1>23 DEF HoldRuleAdd, HoldRuleRemove, AdminOp, table, journal, customer,
         submission, worker, admin, history, budget
  <1> QED
      BY ZenonT(60), <1>1, <1>2, <1>3, <1>4, <1>5, <1>6, <1>7, <1>8, <1>9, <1>10, <1>11, <1>12,
         <1>13, <1>14, <1>15, <1>16, <1>17, <1>18, <1>19, <1>20, <1>21, <1>22, <1>23
         DEF Next, WorkerStep, FaultStep, AdminStep, vars, table, journal, customer,
             submission, worker, admin, history, budget

-----------------------------------------------------------------------------
(* The theorems. *)

\* The invariant holds initially,
LEMMA IInvInit == Init => IInv
  <1> SUFFICES ASSUME Init PROVE IInv
      BY Zenon
  <1>1. TypeOK
      BY Zenon, TypeInit
  <1>2. ProjectionIsFold /\ OutcomeAgrees /\ DeliveredMeansAccepted /\ LoggedHoldKept
      BY QueueAssumption DEF Init, ProjectionIsFold, OutcomeAgrees,
         DeliveredMeansAccepted, LoggedHoldKept
  <1>3. IdsFresh /\ OutcomeCarried /\ FenceIdentifiesAttempt /\ BudgetLeft
      BY Zenon, QueueAssumption DEF Init, IdsFresh, OutcomeCarried, FenceIdentifiesAttempt,
         BudgetLeft, Owns
  <1>4. FailOwed /\ FailureNoticeOnce /\ DelayOwed
      BY Zenon, QueueAssumption DEF Init, FailOwed, FailureNoticeOnce, DelayOwed
  <1> QED
      BY Zenon, <1>1, <1>2, <1>3, <1>4 DEF IInv

\* every step keeps it,
LEMMA IInvNext == IInv /\ [Next]_vars => IInv'
  <1> SUFFICES ASSUME IInv, [Next]_vars PROVE IInv'
      BY Zenon
  <1>1. TypeOK'
      BY Zenon, TypeNext DEF IInv
  <1>2. /\ ProjectionIsFold' /\ IdsFresh' /\ OutcomeAgrees' /\ OutcomeCarried'
        /\ DeliveredMeansAccepted' /\ FenceIdentifiesAttempt' /\ BudgetLeft'
        /\ FailOwed' /\ FailureNoticeOnce' /\ DelayOwed' /\ LoggedHoldKept'
      BY Zenon, FoldNext, FreshNext, OutcomeNext, CarriedNext, AcceptedNext, FenceNext,
         BudgetNext, FailOwedNext, NoticeNext, DelayNext, HoldNext
  <1> QED
      BY Zenon, <1>1, <1>2 DEF IInv

\* so it holds in every state.
LEMMA Invariance == Spec => []IInv
  BY IInvInit, IInvNext, PTL DEF Spec

\* The variables keep the types of the columns and of RunOnce's locals.
THEOREM TypeCorrect == Spec => []TypeOK
  <1>1. IInv => TypeOK
      BY Zenon DEF IInv
  <1> QED
      BY <1>1, Invariance, PTL

\* The table queue is the fold of queue_log and no message is settled twice,
\* for any number of nodes and messages and however late a worker is.
THEOREM QueueIsFoldOfLog == Spec => []ProjectionIsFold
  <1>1. IInv => ProjectionIsFold
      BY Zenon DEF IInv
  <1> QED
      BY <1>1, Invariance, PTL

\* outbound_deliveries shows the outcome of the terminal fact, and shows none
\* while the message is queued.
THEOREM CustomerViewAgrees == Spec => []OutcomeAgrees
  <1>1. IInv => OutcomeAgrees
      BY Zenon DEF IInv
  <1> QED
      BY <1>1, Invariance, PTL

\* retire as delivered follows a Deliver call that returned nil.
THEOREM DeliveredOnlyIfAccepted == Spec => []DeliveredMeansAccepted
  <1>1. IInv => DeliveredMeansAccepted
      BY Zenon DEF IInv
  <1> QED
      BY <1>1, Invariance, PTL

\* The leased_by fence of retire and reschedule admits only the worker of the
\* latest attempt.
THEOREM FencingIsEnough == Spec => []FenceIdentifiesAttempt
  <1>1. IInv => FenceIdentifiesAttempt
      BY Zenon DEF IInv
  <1> QED
      BY <1>1, Invariance, PTL

\* OnFailed and the DSN of Fail are never both fired for a message, nor one
\* of them twice.
THEOREM AtMostOneFailureNotice == Spec => []FailureNoticeOnce
  <1>1. IInv => FailureNoticeOnce
      BY Zenon DEF IInv
  <1> QED
      BY <1>1, Invariance, PTL

\* OnDelayed is called at most once per message.
THEOREM AtMostOneDelayNotice == Spec => []DelayNoticeOnce
  <1>1. IInv => DelayNoticeOnce
      BY DEF IInv, DelayOwed, DelayNoticeOnce
  <1> QED
      BY <1>1, Invariance, PTL

\* reschedule never puts back a message whose attempts are used up.
THEOREM NeverWaitsExhausted == Spec => []BudgetLeft
  <1>1. IInv => BudgetLeft
      BY Zenon DEF IInv
  <1> QED
      BY <1>1, Invariance, PTL

\* No operation releases a hold without logging it.
THEOREM HoldKept == Spec => []LoggedHoldKept
  <1>1. IInv => LoggedHoldKept
      BY Zenon DEF IInv
  <1> QED
      BY <1>1, Invariance, PTL

\* Two workers never transmit one message at the same time, if a worker
\* starts within StartSlack of its renewLease and that slack fits in the
\* headroom deliveryTimeout leaves: the delivery then ends before the lease.
THEOREM NeverTwoTransmissions ==
  ASSUME Timely, StartSlack + deliveryTimeout <= Lease
  PROVE  Spec => []NoConcurrentTransmission
  <1>1. Init => LeaseOutlasts
      BY Zenon DEF Init, LeaseOutlasts, Sending
  <1>2. IInv => TypeOK /\ RowsCommitted
      BY Zenon DEF IInv, TypeOK, TableType, ProjectionIsFold, IdsFresh, RowsCommitted
  <1>3. IInv /\ LeaseOutlasts /\ [Next]_vars => LeaseOutlasts'
      BY Zenon, <1>2, OutlastsNext
  <1>4. LeaseOutlasts => NoConcurrentTransmission
      BY Zenon DEF LeaseOutlasts, Sending, NoConcurrentTransmission
  <1> QED
      BY <1>1, <1>3, <1>4, Invariance, PTL DEF Spec

StatusKept ==
  \A m \in Msgs : status[m] \in {"delivered", "failed"} => status'[m] = status[m]

\* No step changes a customer's final status.
LEMMA StatusStep ==
  ASSUME IInv, [Next]_vars
  PROVE  StatusKept
  <1>1. ASSUME UNCHANGED <<status>>
        PROVE StatusKept
      BY Zenon, <1>1 DEF StatusKept
  <1>2. ASSUME NEW S \in SUBSET live, NEW kind \in Kinds, Remove(S, kind)
        PROVE StatusKept
      BY Zenon, <1>2 DEF IInv, OutcomeAgrees, StatusKept, Remove, Settle, Put
  <1>3. ASSUME EnqueueCommit PROVE StatusKept
      BY Zenon, <1>3 DEF IInv, IdsFresh, StatusKept, EnqueueCommit, Put
  <1>4. ASSUME NEW n \in Nodes, NEW m \in Msgs, renewLease(n, m) PROVE StatusKept
      BY Zenon, <1>4 DEF IInv, OutcomeAgrees, StatusKept, renewLease, StillLeased, Put
  <1>5. ASSUME NEW n \in Nodes, FinishDelivered(n) PROVE StatusKept
      BY Zenon, <1>5, <1>1, <1>2 DEF IInv, Kinds, TypeOK, WorkerType, Busy,
         FinishDelivered,
         retire, Owns, NextMsg, table, journal, customer, submission, admin, history
  <1>6. ASSUME NEW n \in Nodes, GiveUp(n) PROVE StatusKept
      BY Zenon, <1>6, <1>1, <1>2 DEF IInv, Kinds, TypeOK, WorkerType, Busy, GiveUp, retire,
         Owns, table, journal, customer, submission, admin, history
  <1>7. ASSUME NEW n \in Nodes, reschedule(n) PROVE StatusKept
      BY Zenon, <1>7, <1>1 DEF IInv, OutcomeAgrees, StatusKept, reschedule, Retry, Owns,
         Put, customer
  <1>8. ASSUME NEW S \in SUBSET Msgs, Drop(S) PROVE StatusKept
      BY Zenon, <1>8, <1>1, <1>2 DEF IInv, Kinds, Drop, table, journal, customer,
         submission,
         admin, history
  <1>9. ASSUME NEW m \in Msgs, FailRow(m) PROVE StatusKept
      BY Zenon, <1>9, <1>1, <1>2 DEF IInv, Kinds, FailRow, table, journal, customer,
         submission, admin, history
  <1>10. ASSUME EnqueueAbort \/ FailDSN \/ FailCrash \/ Tick
         PROVE UNCHANGED <<status>>
      BY Zenon, <1>10 DEF EnqueueAbort, FailDSN, FailCrash, Tick, Fault, table, journal,
         customer, submission, worker, admin, history, budget
  <1>11. ASSUME NEW n \in Nodes, claim(n) \/ (\E m \in Msgs : RenewLost(n, m)) \/
         (\E m \in Msgs : RenewError(n, m)) \/ DeliverStart(n) \/ DeliverEnd(n) \/
         recordResult(n) \/ RecordError(n) \/ FinishError(n) \/ OnFailed(n) \/
         OnDelayed(n) \/ Crash(n)
         PROVE UNCHANGED <<status>>
      BY Zenon, <1>11 DEF claim, RenewLost, RenewError, DeliverStart, DeliverEnd,
         recordResult, RecordError, FinishError, OnFailed, OnDelayed, Crash, Skip,
         Fault, NextMsg, table, journal, customer, submission, worker, admin,
         history, budget
  <1>12. ASSUME NEW m \in Msgs, EnqueueTx(m) \/ GrowOld(m) \/ CleanupRetired(m)
         PROVE UNCHANGED <<status>>
      BY Zenon, <1>12 DEF EnqueueTx, GrowOld, CleanupRetired, table, journal, customer,
         submission, worker, admin, history, budget
  <1>13. ASSUME NEW S \in SUBSET Msgs, Kick(S) \/ Schedule(S) \/ (\E h \in BOOLEAN :
         HoldSet(S, h)) \/ FailSelect(S)
         PROVE UNCHANGED <<status>>
      BY Zenon, <1>13 DEF Kick, Schedule, HoldSet, FailSelect, AdminOp, SetHold, table,
         journal, customer, submission, worker, admin, history, budget
  <1>14. ASSUME NEW r \in Rules, HoldRuleAdd(r) \/ HoldRuleRemove(r)
         PROVE UNCHANGED <<status>>
      BY Zenon, <1>14 DEF HoldRuleAdd, HoldRuleRemove, AdminOp, table, journal, customer,
         submission, worker, admin, history, budget
  <1> QED
      BY Zenon, <1>1, <1>2, <1>3, <1>4, <1>5, <1>6, <1>7, <1>8, <1>9, <1>10, <1>11, <1>12,
         <1>13, <1>14
         DEF Next, WorkerStep, FaultStep, AdminStep, vars, table, journal, customer,
             submission, worker, admin, history, budget

\* A status of delivered or failed is final: no step of a late worker, of an
\* administrator or of a new submission changes it.
THEOREM SettledIsFinal == Spec => OutcomeFinal
  <1>1. IInv /\ [Next]_vars => [StatusKept]_vars
      BY Zenon, StatusStep
  <1> QED
      BY <1>1, Invariance, PTL DEF Spec, OutcomeFinal, StatusKept

-----------------------------------------------------------------------------
(* Refinement. *)

\* Every step is a step of Lifecycle, or changes nothing it sees.
LEMMA PhaseStep ==
  ASSUME IInv, [Next]_vars
  PROVE  L!Next \/ UNCHANGED <<Phase, Told>>
  <1>1. ASSUME UNCHANGED <<live, terminal, used, staged, failNotices>>
        PROVE L!Next \/ UNCHANGED <<Phase, Told>>
      BY Zenon, <1>1 DEF Phase, phaseOf, Told
  <1>2. ASSUME NEW S \in SUBSET live, NEW kind \in Kinds, Remove(S, kind), UNCHANGED
                <<used, staged, failNotices>>
        PROVE L!Next \/ UNCHANGED <<Phase, Told>>
    <2>1. \A m \in S : Phase[m] = "queued"
        BY Zenon DEF IInv, TypeOK, TableType, Phase, phaseOf
    <2>2. \A m \in Msgs : Phase'[m] = IF m \in S THEN kind ELSE Phase[m]
      <3> SUFFICES ASSUME NEW m \in Msgs
                   PROVE  phaseOf(m)' = IF m \in S THEN kind ELSE phaseOf(m)
          BY Zenon DEF Phase
      <3>1. CASE m \in S
        <4>1. m \notin live' /\ terminal'[m] # <<>> /\ terminal'[m][1] = kind
            BY Zenon, <1>2, <3>1, RemoveEffect DEF IInv
        <4> QED
            BY Zenon, <3>1, <4>1 DEF phaseOf
      <3>2. CASE m \notin S
        <4>1. /\ terminal'[m] = terminal[m] /\ (m \in live' <=> m \in live)
              /\ attempts'[m] = attempts[m] /\ leasedBy'[m] = leasedBy[m]
              /\ status'[m] = status[m]
            BY ZenonT(60), <1>2, <3>2, RemoveEffect DEF IInv
        <4> QED
            BY Zenon, <1>2, <3>2, <4>1 DEF phaseOf
      <3> QED
          BY Zenon, <3>1, <3>2
    <2>3. Phase' = [m \in Msgs |-> IF m \in S THEN kind ELSE Phase[m]]
        BY Zenon, <2>2 DEF Phase
    <2>4. UNCHANGED Told
        BY Zenon, <1>2 DEF Told
    <2> QED
        BY Zenon, <2>1, <2>3, <2>4 DEF IInv, TypeOK, TableType, Kinds, L!Next, L!Settle,
           L!Move, L!Outcomes
  <1>3. ASSUME NEW m \in Msgs, EnqueueTx(m) PROVE L!Next \/ UNCHANGED <<Phase, Told>>
    <2>1. UNCHANGED Phase
        BY Zenon, <1>3 DEF IInv, IdsFresh, TypeOK, RestType, Phase, phaseOf, EnqueueTx,
           table, journal
    <2> QED
        BY Zenon, <1>3, <2>1 DEF Told, EnqueueTx, history
  <1>4. ASSUME EnqueueCommit PROVE L!Next \/ UNCHANGED <<Phase, Told>>
    <2> DEFINE S == {m \in Msgs : staged[m] # "no"}
    <2>1. \A m \in S : Phase[m] = "new"
        BY ZenonT(60) DEF IInv, IdsFresh, ProjectionIsFold, Phase, phaseOf
    <2>2. Phase' = [m \in Msgs |-> IF m \in S THEN "queued" ELSE Phase[m]]
        BY Zenon, <1>4 DEF Phase, phaseOf, EnqueueCommit
    <2>3. UNCHANGED Told
        BY Zenon, <1>4 DEF Told, EnqueueCommit, history
    <2> QED
        BY Zenon, <2>1, <2>2, <2>3 DEF L!Next, L!Accept, L!Move
  <1>5. ASSUME EnqueueAbort PROVE L!Next \/ UNCHANGED <<Phase, Told>>
    <2> DEFINE S == {m \in Msgs : staged[m] # "no"}
    <2>1. \A m \in S : Phase[m] = "new"
        BY Zenon DEF IInv, IdsFresh, ProjectionIsFold, Phase, phaseOf
    <2>2. Phase' = [m \in Msgs |-> IF m \in S THEN "closed" ELSE Phase[m]]
        BY ZenonT(60), <1>5 DEF IInv, IdsFresh, ProjectionIsFold, Phase, phaseOf, EnqueueAbort,
           table, journal
    <2>3. UNCHANGED Told
        BY Zenon, <1>5 DEF Told, EnqueueAbort, history
    <2> QED
        BY Zenon, <2>1, <2>2, <2>3 DEF L!Next, L!Close, L!Move
  <1>6. ASSUME NEW n \in Nodes, FinishDelivered(n) PROVE L!Next \/ UNCHANGED <<Phase, Told>>
      BY Zenon, <1>6, <1>1, <1>2 DEF IInv, Kinds, TypeOK, WorkerType, Busy,
         FinishDelivered,
         retire, Owns, NextMsg, table, journal, customer, submission, admin, history
  <1>7. ASSUME NEW n \in Nodes, GiveUp(n) PROVE L!Next \/ UNCHANGED <<Phase, Told>>
      BY Zenon, <1>7, <1>1, <1>2 DEF IInv, Kinds, TypeOK, WorkerType, Busy, GiveUp, retire,
         Owns, table, journal, customer, submission, admin, history
  <1>8. ASSUME NEW n \in Nodes, OnFailed(n) PROVE L!Next \/ UNCHANGED <<Phase, Told>>
    <2>1. cur[n] \in Msgs /\ terminal[cur[n]] = <<"failed">> /\ failNotices[cur[n]] = 0
        BY Zenon, <1>8 DEF IInv, FailOwed, TypeOK, WorkerType, RestType, Busy, OnFailed
    <2>2. Phase[cur[n]] = "failed"
      <3>1. cur[n] \notin live /\ terminal[cur[n]] # <<>> /\ terminal[cur[n]][1] = "failed"
        <4>1. <<"failed">> # <<>> /\ <<"failed">>[1] = "failed"
            OBVIOUS
        <4>2. cur[n] \notin live
            BY Zenon, <2>1, RemovedWasOpen
        <4> QED
            BY Zenon, <2>1, <4>1, <4>2
      <3> QED
          BY Zenon, <2>1, <3>1 DEF Phase, phaseOf
    <2>3. UNCHANGED Phase
        BY ZenonT(60), <1>8 DEF Phase, phaseOf, OnFailed, table, journal, submission
    <2>4. Told' = Told \cup {cur[n]} /\ cur[n] \notin Told
      <3>1. failNotices \in [Msgs -> Nat] /\ failNotices' = [failNotices EXCEPT ![cur[n]] = @ + 1]
          BY Zenon, <1>8 DEF IInv, TypeOK, RestType, OnFailed
      <3>2. failNotices[cur[n]] = 0 /\ cur[n] \in Msgs
          BY Zenon, <2>1
      <3>3. 0 + 1 # 0
          OBVIOUS
      <3>4. \A m \in Msgs : failNotices'[m] = IF m = cur[n] THEN 0 + 1 ELSE failNotices[m]
          BY Zenon, <3>1, <3>2
      <3> QED
          BY Zenon, <3>2, <3>3, <3>4 DEF Told
    <2> QED
        BY Zenon, <2>1, <2>2, <2>3, <2>4 DEF L!Next, L!Tell
  <1>9. ASSUME NEW S \in SUBSET Msgs, Drop(S) PROVE L!Next \/ UNCHANGED <<Phase, Told>>
      BY Zenon, <1>9, <1>1, <1>2 DEF IInv, Kinds, Drop, table, journal, customer,
         submission,
         admin, history
  <1>10. ASSUME NEW m \in Msgs, FailRow(m) PROVE L!Next \/ UNCHANGED <<Phase, Told>>
      BY Zenon, <1>10, <1>1, <1>2 DEF IInv, Kinds, FailRow, table, journal, customer,
         submission, admin, history
  <1>11. ASSUME FailDSN PROVE L!Next \/ UNCHANGED <<Phase, Told>>
    <2>1. dsn \in Msgs /\ terminal[dsn] = <<"failed">> /\ failNotices[dsn] = 0
        BY Zenon, <1>11 DEF IInv, FailOwed, TypeOK, WorkerType, RestType, Busy, FailDSN
    <2>2. Phase[dsn] = "failed"
      <3>1. dsn \notin live /\ terminal[dsn] # <<>> /\ terminal[dsn][1] = "failed"
        <4>1. <<"failed">> # <<>> /\ <<"failed">>[1] = "failed"
            OBVIOUS
        <4>2. dsn \notin live
            BY Zenon, <2>1, RemovedWasOpen
        <4> QED
            BY Zenon, <2>1, <4>1, <4>2
      <3> QED
          BY Zenon, <2>1, <3>1 DEF Phase, phaseOf
    <2>3. UNCHANGED Phase
        BY Zenon, <1>11 DEF Phase, phaseOf, FailDSN, table, journal, submission
    <2>4. Told' = Told \cup {dsn} /\ dsn \notin Told
      <3>1. failNotices \in [Msgs -> Nat] /\ failNotices' = [failNotices EXCEPT ![dsn] = @ + 1]
          BY Zenon, <1>11 DEF IInv, TypeOK, RestType, FailDSN
      <3>2. failNotices[dsn] = 0 /\ dsn \in Msgs
          BY Zenon, <2>1
      <3>3. 0 + 1 # 0
          OBVIOUS
      <3>4. \A m \in Msgs : failNotices'[m] = IF m = dsn THEN 0 + 1 ELSE failNotices[m]
          BY Zenon, <3>1, <3>2
      <3> QED
          BY Zenon, <3>2, <3>3, <3>4 DEF Told
    <2> QED
        BY Zenon, <2>1, <2>2, <2>3, <2>4 DEF L!Next, L!Tell
  <1>12. ASSUME NEW m \in Msgs, CleanupRetired(m) PROVE L!Next \/ UNCHANGED <<Phase, Told>>
    <2>1. m \in used /\ staged[m] = "no" /\ m \notin live
        BY Zenon, <1>12 DEF IInv, IdsFresh, ProjectionIsFold, CleanupRetired
    <2>2. terminal[m][1] \in Kinds
        BY SMTT(30), <1>12 DEF IInv, ProjectionIsFold, TypeOK, LogType, Kinds, CleanupRetired
    <2>3. Phase[m] \in L!Outcomes
        BY Zenon, <1>12, <2>1, <2>2 DEF Phase, phaseOf, Kinds, L!Outcomes, CleanupRetired
    <2>4. Phase' = [k \in Msgs |-> IF k \in {m} THEN "closed" ELSE Phase[k]]
        BY Zenon, <1>12, <2>1 DEF IInv, TypeOK, LogType, Phase, phaseOf, CleanupRetired,
           table, submission
    <2>5. UNCHANGED Told
        BY Zenon, <1>12 DEF Told, CleanupRetired, history
    <2> QED
        BY Zenon, <2>3, <2>4, <2>5 DEF L!Next, L!Close, L!Move
  <1>13. ASSUME FailCrash \/ Tick
         PROVE UNCHANGED <<live, terminal, used, staged, failNotices>>
      BY Zenon, <1>13 DEF FailCrash, Tick, Fault, table, journal, customer, submission,
         worker, admin, history, budget
  <1>14. ASSUME NEW n \in Nodes, claim(n) \/ (\E m \in Msgs : renewLease(n, m)) \/
         (\E m \in Msgs : RenewLost(n, m)) \/ (\E m \in Msgs : RenewError(n, m)) \/
         DeliverStart(n) \/ DeliverEnd(n) \/ recordResult(n) \/ RecordError(n) \/
         reschedule(n) \/ FinishError(n) \/ OnDelayed(n) \/ Crash(n)
         PROVE UNCHANGED <<live, terminal, used, staged, failNotices>>
      BY Zenon, <1>14 DEF claim, renewLease, RenewLost, RenewError, DeliverStart,
         DeliverEnd, recordResult, RecordError, reschedule, FinishError, OnDelayed,
         Crash, Skip, Fault, Retry, Hooked, NextMsg, table, journal, customer,
         submission, worker, admin, history, budget
  <1>15. ASSUME NEW m \in Msgs, GrowOld(m)
         PROVE UNCHANGED <<live, terminal, used, staged, failNotices>>
      BY Zenon, <1>15 DEF GrowOld, table, journal, customer, submission, worker, admin,
         history, budget
  <1>16. ASSUME NEW S \in SUBSET Msgs, Kick(S) \/ Schedule(S) \/ (\E h \in BOOLEAN :
         HoldSet(S, h)) \/ FailSelect(S)
         PROVE UNCHANGED <<live, terminal, used, staged, failNotices>>
      BY Zenon, <1>16 DEF Kick, Schedule, HoldSet, FailSelect, AdminOp, SetHold, table,
         journal, customer, submission, worker, admin, history, budget
  <1>17. ASSUME NEW r \in Rules, HoldRuleAdd(r) \/ HoldRuleRemove(r)
         PROVE UNCHANGED <<live, terminal, used, staged, failNotices>>
      BY Zenon, <1>17 DEF HoldRuleAdd, HoldRuleRemove, AdminOp, table, journal, customer,
         submission, worker, admin, history, budget
  <1> QED
      BY Zenon, <1>1, <1>2, <1>3, <1>4, <1>5, <1>6, <1>7, <1>8, <1>9, <1>10, <1>11, <1>12,
         <1>13, <1>14, <1>15, <1>16, <1>17
         DEF Next, WorkerStep, FaultStep, AdminStep, vars, table, journal, customer,
             submission, worker, admin, history, budget

\* The queue implements the life cycle: seen through phaseOf, every step of a
\* worker, an administrator, a crash or a submission is one of its steps.
THEOREM QueueImplementsLifecycle == Spec => ImplementsLifecycle
  <1>1. Init => L!Init
      BY DEF Init, L!Init, Phase, phaseOf, Told
  <1>2. IInv /\ [Next]_vars => [L!Next]_(L!vars)
      BY Zenon, PhaseStep DEF L!vars
  <1> QED
      BY <1>1, <1>2, Invariance, PTL DEF Spec, ImplementsLifecycle, L!Spec
=============================================================================

------------------------------- MODULE Queue -------------------------------
(***************************************************************************)
(* The outbound delivery queue (mailflow/queue/queue.go, admin.go).        *)
(*                                                                         *)
(* A message is a row of the table queue, a set of facts in queue_log and, *)
(* when it is linked to a Sent message, a customer-visible row of          *)
(* outbound_deliveries.  Every node runs one sequential Worker (RunOnce on *)
(* a ticker); administrators act on the same tables.  Each action is one   *)
(* database transaction, or one step of the worker between two of them.    *)
(*                                                                         *)
(* Time is kept as countdowns: wait is the time until next_attempt, lease  *)
(* the time until lease_until; -1 is a lease that is NULL or in the past.  *)
(* One tick is one second.                                                 *)
(***************************************************************************)
EXTENDS Integers, Sequences, FiniteSets

CONSTANTS
    Msgs,           \* queue ids handed out by the sequence
    Linked,         \* the messages with MessageID # 0
    Nodes,          \* NodeIDs of the workers
    None,           \* SQL NULL, and "no message"
    Lease,          \* Worker.Lease
    Batch,          \* Worker.Batch
    MaxAttempts,    \* queue.max_attempts
    DelayThreshold, \* Worker.DelayThreshold
    BaseBackoff,    \* Worker.Backoff
    MaxBackoff,     \* Worker.MaxBackoff
    Rules,          \* ids of hold rules
    Matches,        \* Matches[r]: the messages rule r matches
    Timely,         \* TRUE: workers keep up with the slacks below
    StartSlack,     \* the delay of a worker before it starts a delivery
    FinishSlack,    \* the delay of a worker after a delivery
    MaxWait,        \* bound on next_attempt - now
    MaxFaults,      \* bound on crashes and failed transactions
    MaxAdminOps,    \* bound on administrative operations
    AttemptCap      \* bound on the attempts of one message

ASSUME QueueAssumption ==
    /\ Linked \subseteq Msgs
    /\ None \notin Nodes /\ None \notin Msgs
    /\ Lease \in Nat \ {0} /\ Batch \in Nat \ {0}
    /\ MaxAttempts \in Nat \ {0} /\ DelayThreshold \in Nat
    /\ BaseBackoff \in Nat \ {0} /\ MaxBackoff \in Nat \ {0}
    /\ Matches \in [Rules -> SUBSET Msgs]
    /\ Timely \in BOOLEAN
    /\ StartSlack \in Nat /\ FinishSlack \in Nat
    /\ MaxWait \in Nat /\ MaxFaults \in Nat /\ MaxAdminOps \in Nat
    /\ AttemptCap \in Nat

VARIABLES
    \* the table queue: the ids that have a row, and its columns
    live, attempts, leasedBy, lease, wait, held, delayed,
    \* queue_log: the messages with an enqueued entry, the terminal entries,
    \* the messages the log says are held, the number of delayed entries
    enqueued, terminal, logHeld, warnings,
    \* outbound_deliveries, the customer's view
    status, attemptCount,
    \* submission: ids handed out, and EnqueueTx inside an open transaction
    used, staged,
    \* queue_hold_rules
    rules,
    \* RunOnce on each node: where it is, the rest of its batch, its message,
    \* attempt number and outcome, and the time it has left
    pc, todo, cur, att, out, left,
    \* admin Fail: selected rows still to process, and the DSN to be fired
    failing, dsn,
    \* history: calls of OnFailed (or the DSN), of OnDelayed, messages some
    \* Deliver call returned nil for, messages older than MaxLifetime
    failNotices, delayNotices, accepted, aged,
    \* the bounded budgets
    faults, ops

table == <<live, attempts, leasedBy, lease, wait, held, delayed>>
journal == <<enqueued, terminal, logHeld, warnings>>
customer == <<status, attemptCount>>
submission == <<used, staged>>
worker == <<pc, todo, cur, att, out, left>>
admin == <<failing, dsn>>
history == <<failNotices, delayNotices, accepted, aged>>
budget == <<faults, ops>>

vars == <<table, journal, customer, submission, rules, worker, admin, history, budget>>

-----------------------------------------------------------------------------
(* Worker parameters. *)

MinOf(a, b) == IF a < b THEN a ELSE b
MaxOf(a, b) == IF a > b THEN a ELSE b

\* Mutation: a delivery may use the whole lease.
deliveryTimeout_NoMargin == Lease

\* The lease minus 20% headroom, of at least a second.
deliveryTimeout ==
    LET margin == MaxOf(Lease \div 5, 1)
    IN  IF margin >= Lease THEN Lease ELSE Lease - margin

\* d after k doublings: the loop stops at 512*base and at the cap.
Doubled[k \in Nat] ==
    IF k = 0 THEN BaseBackoff
    ELSE LET d == Doubled[k - 1]
         IN  IF d < 512 * BaseBackoff /\ d < MaxBackoff
             THEN MinOf(2 * d, MaxBackoff) ELSE d

\* The delays backoffFor may return after `tries' attempts: the capped
\* interval with 10% jitter, rounded outwards to ticks.
backoffFor(tries) ==
    LET d == MinOf(Doubled[tries - 1], MaxBackoff)
    IN  ((9 * d) \div 10) .. ((11 * d + 9) \div 10)

-----------------------------------------------------------------------------
(* The tables. *)

\* UPDATE ... SET f = v for the messages of S.
Put(f, S, v) == [m \in Msgs |-> IF m \in S THEN v ELSE f[m]]

\* Append the terminal fact of the messages of S and settle the status of
\* those that are linked.
Settle(S, kind) ==
    /\ terminal' = [m \in Msgs |-> IF m \in S THEN Append(terminal[m], kind) ELSE terminal[m]]
    /\ status' = Put(status, S \cap Linked, IF kind = "delivered" THEN kind ELSE "failed")

\* DELETE the rows of S with their terminal fact, in one transaction.
Remove(S, kind) ==
    /\ live' = live \ S
    /\ attempts' = Put(attempts, S, 0)
    /\ leasedBy' = Put(leasedBy, S, None)
    /\ lease' = Put(lease, S, -1)
    /\ wait' = Put(wait, S, 0)
    /\ held' = held \ S
    /\ delayed' = delayed \ S
    /\ Settle(S, kind)
    /\ UNCHANGED <<enqueued, logHeld, warnings, attemptCount>>

\* hold is set for the rows of S, and logged.
SetHold(S, h) ==
    /\ held' = IF h THEN held \cup S ELSE held \ S
    /\ logHeld' = IF h THEN logHeld \cup S ELSE logHeld \ S

matchesHoldRule(m) == \E r \in rules : m \in Matches[r]

Init ==
    /\ live = {} /\ held = {} /\ delayed = {}
    /\ attempts = [m \in Msgs |-> 0]
    /\ leasedBy = [m \in Msgs |-> None]
    /\ lease = [m \in Msgs |-> -1]
    /\ wait = [m \in Msgs |-> 0]
    /\ enqueued = {} /\ logHeld = {}
    /\ terminal = [m \in Msgs |-> <<>>]
    /\ warnings = [m \in Msgs |-> 0]
    /\ status = [m \in Msgs |-> "none"]
    /\ attemptCount = [m \in Msgs |-> 0]
    /\ used = {} /\ staged = [m \in Msgs |-> "no"]
    /\ rules = {}
    /\ pc = [n \in Nodes |-> "next"]
    /\ todo = [n \in Nodes |-> {}]
    /\ cur = [n \in Nodes |-> None]
    /\ att = [n \in Nodes |-> 0]
    /\ out = [n \in Nodes |-> "ok"]
    /\ left = [n \in Nodes |-> 0]
    /\ failing = {} /\ dsn = None
    /\ failNotices = [m \in Msgs |-> 0]
    /\ delayNotices = [m \in Msgs |-> 0]
    /\ accepted = {} /\ aged = {}
    /\ faults = 0 /\ ops = 0

-----------------------------------------------------------------------------
(* Submission. *)

\* EnqueueTx reads the hold rules and inserts; nothing is visible yet.
EnqueueTx(m) ==
    /\ m \notin used
    /\ used' = used \cup {m}
    /\ staged' = [staged EXCEPT ![m] = IF matchesHoldRule(m) THEN "held" ELSE "free"]
    /\ UNCHANGED <<table, journal, customer, rules, worker, admin, history, budget>>

\* The submission's transaction commits all its recipients; NotBefore may
\* defer their first attempt.
EnqueueCommit ==
    LET S == {m \in Msgs : staged[m] # "no"}
        H == {m \in Msgs : staged[m] = "held"}
    IN
    /\ S # {}
    /\ live' = live \cup S
    /\ held' = held \cup H
    /\ \E w \in {0, MaxWait} : wait' = Put(wait, S, w)
    /\ enqueued' = enqueued \cup S
    /\ logHeld' = logHeld \cup H
    /\ status' = Put(status, S \cap Linked, "queued")
    /\ staged' = [m \in Msgs |-> "no"]
    /\ UNCHANGED <<attempts, leasedBy, lease, delayed, terminal, warnings,
                   attemptCount, used, rules, worker, admin, history, budget>>

Fault == faults < MaxFaults /\ faults' = faults + 1 /\ UNCHANGED ops

\* A failed submission leaves nothing but the ids it used up.
EnqueueAbort ==
    /\ \E m \in Msgs : staged[m] # "no"
    /\ Fault
    /\ staged' = [m \in Msgs |-> "no"]
    /\ UNCHANGED <<table, journal, customer, used, rules, worker, admin, history>>

-----------------------------------------------------------------------------
(* The worker. *)

\* Mutation: expired leases are not reclaimed.
Due_NoExpiry(m) == m \in live \ held /\ wait[m] = 0 /\ leasedBy[m] = None

Due(m) == m \in live \ held /\ wait[m] = 0 /\ lease[m] < 0

\* claim: lease up to Batch due rows (rows locked by others are skipped).
claim(n) ==
    /\ pc[n] = "next" /\ todo[n] = {}
    /\ \E S \in SUBSET {m \in Msgs : Due(m)} :
         /\ S # {} /\ Cardinality(S) <= Batch
         /\ leasedBy' = Put(leasedBy, S, n)
         /\ lease' = Put(lease, S, Lease)
         /\ todo' = [todo EXCEPT ![n] = S]
    /\ left' = [left EXCEPT ![n] = StartSlack]
    /\ UNCHANGED <<live, attempts, wait, held, delayed, journal, customer, submission,
                   rules, pc, cur, att, out, admin, history, budget>>

\* Mutation: the UPDATE is not fenced.
StillLeased_NoFence(n, m) == m \in live

\* The fence of renewLease: the row is still leased to n.
StillLeased(n, m) == m \in live /\ leasedBy[m] = n /\ lease[m] > 0

\* renewLease, still the holder: a fresh window, and the attempt is counted
\* before the delivery starts.
renewLease(n, m) ==
    LET a == attempts[m] + 1 IN
    /\ pc[n] = "next" /\ m \in todo[n]
    /\ StillLeased(n, m)
    /\ a <= AttemptCap
    /\ lease' = [lease EXCEPT ![m] = Lease]
    /\ attempts' = [attempts EXCEPT ![m] = a]
    /\ status' = Put(status, {m} \cap Linked, "delivering")
    /\ attemptCount' = Put(attemptCount, {m} \cap Linked, a)
    /\ pc' = [pc EXCEPT ![n] = "start"]
    /\ todo' = [todo EXCEPT ![n] = @ \ {m}]
    /\ cur' = [cur EXCEPT ![n] = m]
    /\ att' = [att EXCEPT ![n] = a]
    /\ left' = [left EXCEPT ![n] = StartSlack]
    /\ UNCHANGED <<live, leasedBy, wait, held, delayed, journal, submission, rules,
                   out, admin, history, budget>>

\* RunOnce skips the message.
Skip(n, m) ==
    /\ pc[n] = "next" /\ m \in todo[n]
    /\ todo' = [todo EXCEPT ![n] = @ \ {m}]
    /\ left' = [left EXCEPT ![n] = StartSlack]
    /\ UNCHANGED <<table, journal, customer, submission, rules, pc, cur, att, out,
                   admin, history>>

\* renewLease finds the lease lost.
RenewLost(n, m) == ~StillLeased(n, m) /\ Skip(n, m) /\ UNCHANGED budget

\* renewLease returns an error; the lease runs out.
RenewError(n, m) == Fault /\ Skip(n, m)

\* Deliver is called with a context of deliveryTimeout.
DeliverStart(n) ==
    /\ pc[n] = "start"
    /\ pc' = [pc EXCEPT ![n] = "deliver"]
    /\ left' = [left EXCEPT ![n] = deliveryTimeout]
    /\ UNCHANGED <<table, journal, customer, submission, rules, todo, cur, att, out,
                   admin, history, budget>>

\* Deliver returns: nil, a permanent (5xx) error, or any other error.
DeliverEnd(n) ==
    /\ pc[n] = "deliver"
    /\ \E o \in {"ok", "temp", "perm"} :
         /\ out' = [out EXCEPT ![n] = o]
         /\ accepted' = IF o = "ok" THEN accepted \cup {cur[n]} ELSE accepted
    /\ pc' = [pc EXCEPT ![n] = "record"]
    /\ left' = [left EXCEPT ![n] = FinishSlack]
    /\ UNCHANGED <<table, journal, customer, submission, rules, todo, cur, att,
                   admin, failNotices, delayNotices, aged, budget>>

\* recordResult writes the attempt's number to outbound_deliveries, whoever
\* holds the lease (attempt entries of the log are not modelled).
recordResult(n) ==
    /\ pc[n] = "record"
    /\ attemptCount' = Put(attemptCount, {cur[n]} \cap Linked, att[n])
    /\ pc' = [pc EXCEPT ![n] = "finish"]
    /\ UNCHANGED <<table, journal, status, submission, rules, todo, cur, att, out,
                   left, admin, history, budget>>

\* A result-log error does not keep RunOnce from settling the message.
RecordError(n) ==
    /\ pc[n] = "record"
    /\ Fault
    /\ pc' = [pc EXCEPT ![n] = "finish"]
    /\ UNCHANGED <<table, journal, customer, submission, rules, todo, cur, att, out,
                   left, admin, history>>

\* Mutation: RowsAffected is not looked at.
Owns_NoFence(n, m) == TRUE

\* The fence of retire and reschedule: leased_by = NodeID.
Owns(n, m) == m \in live /\ leasedBy[m] = n

\* RunOnce goes on to the next message of the batch.
NextMsg(n) ==
    /\ pc' = [pc EXCEPT ![n] = "next"]
    /\ cur' = [cur EXCEPT ![n] = None]
    /\ att' = [att EXCEPT ![n] = 0]
    /\ out' = [out EXCEPT ![n] = "ok"]
    /\ left' = [left EXCEPT ![n] = StartSlack]
    /\ UNCHANGED todo

\* RunOnce has a hook to call before it goes on.
Hooked(n, h) ==
    /\ pc' = [pc EXCEPT ![n] = h]
    /\ UNCHANGED <<todo, cur, att, out, left>>

\* The transaction of retire.
retire(n, m, kind) ==
    IF Owns(n, m) THEN Remove({m}, kind) ELSE UNCHANGED <<table, journal, customer>>

FinishDelivered(n) ==
    /\ pc[n] = "finish" /\ out[n] = "ok"
    /\ retire(n, cur[n], "delivered")
    /\ NextMsg(n)
    /\ UNCHANGED <<submission, rules, admin, history, budget>>

\* Mutation: off by one.
Exhausted_OffByOne(n) == att[n] > MaxAttempts

Exhausted(n) == att[n] >= MaxAttempts

\* reschedule gives up on a permanent error, on the message's age, or when
\* the attempts are used up; OnFailed follows only if retire acted.
GiveUp(n) ==
    /\ pc[n] = "finish" /\ out[n] # "ok"
    /\ out[n] = "perm" \/ cur[n] \in aged \/ Exhausted(n)
    /\ retire(n, cur[n], "failed")
    /\ IF Owns(n, cur[n]) THEN Hooked(n, "onFailed") ELSE NextMsg(n)
    /\ UNCHANGED <<submission, rules, admin, history, budget>>

wantDelay(n) == DelayThreshold > 0 /\ att[n] >= DelayThreshold

\* The warning is due now: asked for, and delayed_dsn was not set.
firedDelay(n) == wantDelay(n) /\ cur[n] \notin delayed

\* The transaction of reschedule: it releases the lease, backs off and flips
\* delayed_dsn once.
Retry(n, m) ==
    /\ leasedBy' = [leasedBy EXCEPT ![m] = None]
    /\ lease' = [lease EXCEPT ![m] = -1]
    /\ \E w \in backoffFor(att[n]) \cap (0 .. MaxWait) : wait' = [wait EXCEPT ![m] = w]
    /\ delayed' = IF wantDelay(n) THEN delayed \cup {m} ELSE delayed
    /\ status' = Put(status, {m} \cap Linked, "retrying")
    /\ attemptCount' = Put(attemptCount, {m} \cap Linked, att[n])
    /\ warnings' = IF firedDelay(n) THEN [warnings EXCEPT ![m] = @ + 1] ELSE warnings
    /\ IF firedDelay(n) THEN Hooked(n, "onDelayed") ELSE NextMsg(n)
    /\ UNCHANGED <<live, attempts, held, enqueued, terminal, logHeld>>

reschedule(n) ==
    /\ pc[n] = "finish" /\ out[n] = "temp"
    /\ cur[n] \notin aged /\ ~Exhausted(n)
    /\ IF Owns(n, cur[n]) THEN Retry(n, cur[n])
       ELSE NextMsg(n) /\ UNCHANGED <<table, journal, customer>>
    /\ UNCHANGED <<submission, rules, admin, history, budget>>

\* MaxLifetime (days) has passed since the message was enqueued.
GrowOld(m) ==
    /\ m \in live \ aged
    /\ aged' = aged \cup {m}
    /\ UNCHANGED <<table, journal, customer, submission, rules, worker, admin,
                   failNotices, delayNotices, accepted, budget>>

\* The transaction of retire or reschedule fails; RunOnce goes on.
FinishError(n) ==
    /\ pc[n] = "finish"
    /\ Fault
    /\ NextMsg(n)
    /\ UNCHANGED <<table, journal, customer, submission, rules, admin, history>>

\* OnFailed is called, after the transaction.
OnFailed(n) ==
    /\ pc[n] = "onFailed"
    /\ failNotices' = [failNotices EXCEPT ![cur[n]] = @ + 1]
    /\ NextMsg(n)
    /\ UNCHANGED <<table, journal, customer, submission, rules, admin, delayNotices,
                   accepted, aged, budget>>

\* OnDelayed is called, after the transaction.
OnDelayed(n) ==
    /\ pc[n] = "onDelayed"
    /\ delayNotices' = [delayNotices EXCEPT ![cur[n]] = @ + 1]
    /\ NextMsg(n)
    /\ UNCHANGED <<table, journal, customer, submission, rules, admin, failNotices,
                   accepted, aged, budget>>

\* The node dies and comes back with the same NodeID: RunOnce's locals are
\* gone, the rows it leased stay leased.
Crash(n) ==
    /\ pc[n] # "next" \/ todo[n] # {}
    /\ Fault
    /\ pc' = [pc EXCEPT ![n] = "next"]
    /\ todo' = [todo EXCEPT ![n] = {}]
    /\ cur' = [cur EXCEPT ![n] = None]
    /\ att' = [att EXCEPT ![n] = 0]
    /\ out' = [out EXCEPT ![n] = "ok"]
    /\ left' = [left EXCEPT ![n] = 0]
    /\ UNCHANGED <<table, journal, customer, submission, rules, admin, history>>

-----------------------------------------------------------------------------
(* Administration.  A Filter selects any set of messages. *)

AdminOp == ops < MaxAdminOps /\ ops' = ops + 1 /\ UNCHANGED faults

\* The selected rows with leased_by NULL.
Unleased(S) == {m \in S \cap live : leasedBy[m] = None}

\* Kick: due now, not held, logged.
Kick(S) ==
    /\ AdminOp /\ Unleased(S) # {}
    /\ wait' = Put(wait, Unleased(S), 0)
    /\ SetHold(Unleased(S), FALSE)
    /\ UNCHANGED <<live, attempts, leasedBy, lease, delayed, enqueued, terminal,
                   warnings, customer, submission, rules, worker, admin, history>>

\* Schedule and ScheduleAt: a new next_attempt.
Schedule(S) ==
    /\ AdminOp /\ Unleased(S) # {}
    /\ \E w \in 0 .. MaxWait : wait' = Put(wait, Unleased(S), w)
    /\ UNCHANGED <<live, attempts, leasedBy, lease, held, delayed, journal, customer,
                   submission, rules, worker, admin, history>>

HoldSet(S, h) ==
    /\ AdminOp /\ S \cap live # {}
    /\ SetHold(S \cap live, h)
    /\ UNCHANGED <<live, attempts, leasedBy, lease, wait, delayed, enqueued, terminal,
                   warnings, customer, submission, rules, worker, admin, history>>

\* Drop deletes leased rows too, and sends no DSN.
Drop(S) ==
    /\ AdminOp /\ S \cap live # {}
    /\ Remove(S \cap live, "dropped")
    /\ UNCHANGED <<submission, rules, worker, admin, history>>

\* Fail first selects the rows ...
FailSelect(S) ==
    /\ AdminOp /\ failing = {} /\ dsn = None /\ S \cap live # {}
    /\ failing' = S \cap live
    /\ UNCHANGED <<table, journal, customer, submission, rules, worker, dsn, history>>

\* Mutation: the DSN is fired for rows somebody else removed, too.
FailRow_AlwaysDSN(m) ==
    /\ m \in failing /\ dsn = None
    /\ failing' = failing \ {m}
    /\ dsn' = m
    /\ IF m \in live THEN Remove({m}, "failed") ELSE UNCHANGED <<table, journal, customer>>
    /\ UNCHANGED <<submission, rules, worker, history, budget>>

\* ... then removes each in a transaction of its own, if it is still there ...
FailRow(m) ==
    /\ m \in failing /\ dsn = None
    /\ failing' = failing \ {m}
    /\ IF m \in live THEN Remove({m}, "failed") /\ dsn' = m
       ELSE UNCHANGED <<table, journal, customer, dsn>>
    /\ UNCHANGED <<submission, rules, worker, history, budget>>

\* ... and fires the DSN of a row it removed.
FailDSN ==
    /\ dsn # None
    /\ failNotices' = [failNotices EXCEPT ![dsn] = @ + 1]
    /\ dsn' = None
    /\ UNCHANGED <<table, journal, customer, submission, rules, worker, failing,
                   delayNotices, accepted, aged, budget>>

\* The process running Fail dies.
FailCrash ==
    /\ failing # {} \/ dsn # None
    /\ Fault
    /\ failing' = {} /\ dsn' = None
    /\ UNCHANGED <<table, journal, customer, submission, rules, worker, history>>

\* HoldRuleAdd holds the matching rows it sees; it appends no log entry.
HoldRuleAdd(r) ==
    /\ AdminOp /\ r \notin rules
    /\ rules' = rules \cup {r}
    /\ held' = held \cup (Matches[r] \cap live)
    /\ UNCHANGED <<live, attempts, leasedBy, lease, wait, delayed, journal, customer,
                   submission, worker, admin, history>>

HoldRuleRemove(r) ==
    /\ AdminOp /\ r \in rules
    /\ rules' = rules \ {r}
    /\ UNCHANGED <<table, journal, customer, submission, worker, admin, history>>

\* CleanupRetired deletes the whole log of a message past its retention,
\* which outlasts (days against seconds) every attempt in flight.
CleanupRetired(m) ==
    /\ terminal[m] # <<>>
    /\ \A n \in Nodes : cur[n] # m
    /\ dsn # m
    /\ enqueued' = enqueued \ {m}
    /\ terminal' = [terminal EXCEPT ![m] = <<>>]
    /\ logHeld' = logHeld \ {m}
    /\ warnings' = [warnings EXCEPT ![m] = 0]
    /\ UNCHANGED <<table, customer, submission, rules, worker, admin, history, budget>>

-----------------------------------------------------------------------------
\* A worker the clock may not leave behind when Timely.
Hurried(n) ==
    /\ left[n] = 0
    /\ pc[n] \in {"start", "deliver", "record", "finish"} \/ todo[n] # {}

\* A second passes.
Tick ==
    /\ Timely => \A n \in Nodes : ~Hurried(n)
    /\ lease' = [m \in Msgs |-> MaxOf(lease[m] - 1, -1)]
    /\ wait' = [m \in Msgs |-> MaxOf(wait[m] - 1, 0)]
    /\ left' = [n \in Nodes |-> MaxOf(left[n] - 1, 0)]
    /\ UNCHANGED <<live, attempts, leasedBy, held, delayed, journal, customer,
                   submission, rules, pc, todo, cur, att, out, admin, history,
                   budget>>

WorkerStep(n) ==
    \/ claim(n)
    \/ \E m \in Msgs : renewLease(n, m) \/ RenewLost(n, m)
    \/ DeliverStart(n) \/ DeliverEnd(n) \/ recordResult(n)
    \/ FinishDelivered(n) \/ GiveUp(n) \/ reschedule(n) \/ OnFailed(n) \/ OnDelayed(n)

FaultStep ==
    \/ \E n \in Nodes : \/ \E m \in Msgs : RenewError(n, m)
                        \/ RecordError(n) \/ FinishError(n) \/ Crash(n)
    \/ FailCrash \/ EnqueueAbort

AdminStep ==
    \/ \E S \in SUBSET Msgs : \/ Kick(S) \/ Schedule(S) \/ Drop(S) \/ FailSelect(S)
                              \/ \E h \in BOOLEAN : HoldSet(S, h)
    \/ \E m \in Msgs : FailRow(m) \/ CleanupRetired(m)
    \/ FailDSN
    \/ \E r \in Rules : HoldRuleAdd(r) \/ HoldRuleRemove(r)

Next ==
    \/ \E m \in Msgs : EnqueueTx(m) \/ GrowOld(m)
    \/ EnqueueCommit
    \/ \E n \in Nodes : WorkerStep(n)
    \/ FaultStep
    \/ AdminStep
    \/ Tick

Spec == Init /\ [][Next]_vars

\* Every node's ticker keeps calling RunOnce, a Deliver call returns by its
\* timeout, and time passes.
Fairness == (\A n \in Nodes : WF_vars(WorkerStep(n))) /\ WF_vars(Tick)

FairSpec == Spec /\ Fairness

-----------------------------------------------------------------------------
(* Properties. *)

Busy == {"start", "deliver", "record", "finish", "onFailed", "onDelayed"}

TableType ==
    /\ live \subseteq Msgs /\ held \subseteq Msgs /\ delayed \subseteq Msgs
    /\ attempts \in [Msgs -> 0 .. AttemptCap]
    /\ leasedBy \in [Msgs -> Nodes \cup {None}]
    /\ lease \in [Msgs -> -1 .. Lease]
    /\ wait \in [Msgs -> 0 .. MaxWait]

LogType ==
    /\ enqueued \subseteq Msgs /\ logHeld \subseteq Msgs
    /\ terminal \in [Msgs -> Seq({"delivered", "failed", "dropped"})]
    /\ warnings \in [Msgs -> Nat]
    /\ status \in [Msgs -> {"none", "queued", "delivering", "retrying",
                            "delivered", "failed"}]
    /\ attemptCount \in [Msgs -> 0 .. AttemptCap]

WorkerType ==
    /\ pc \in [Nodes -> Busy \cup {"next"}]
    /\ todo \in [Nodes -> SUBSET Msgs]
    /\ cur \in [Nodes -> Msgs \cup {None}]
    /\ att \in [Nodes -> 0 .. AttemptCap]
    /\ out \in [Nodes -> {"ok", "temp", "perm"}]
    /\ left \in [Nodes -> Nat]
    /\ \A n \in Nodes : pc[n] \in Busy => cur[n] \in Msgs

RestType ==
    /\ used \subseteq Msgs /\ staged \in [Msgs -> {"no", "held", "free"}]
    /\ rules \subseteq Rules
    /\ failing \subseteq Msgs /\ dsn \in Msgs \cup {None}
    /\ failNotices \in [Msgs -> Nat] /\ delayNotices \in [Msgs -> Nat]
    /\ accepted \subseteq Msgs /\ aged \subseteq Msgs
    /\ faults \in 0 .. MaxFaults /\ ops \in 0 .. MaxAdminOps

\* The variables have the types of the code's columns and fields, and a
\* worker past renewLease has a current message (RunOnce's loop variable).
TypeOK == TableType /\ LogType /\ WorkerType /\ RestType

\* The table queue is the fold of queue_log: a message has a row exactly when
\* its log has the enqueued fact and no terminal one, whatever workers,
\* administrators and crashes do; and no message is ever settled twice.
ProjectionIsFold ==
    \A m \in Msgs :
      /\ m \in live <=> m \in enqueued /\ terminal[m] = <<>>
      /\ Len(terminal[m]) <= 1

\* The customer's view agrees with the log: outbound_deliveries shows
\* delivered or failed as soon as the message is settled, with the outcome of
\* its terminal fact, and never while it is still queued.
OutcomeAgrees ==
    \A m \in Linked :
      /\ m \in live => status[m] \in {"queued", "delivering", "retrying"}
      /\ terminal[m] # <<>> =>
           status[m] = IF terminal[m][1] = "delivered"
                                  THEN "delivered" ELSE "failed"

\* A message is retired as delivered only if some Deliver call returned nil.
DeliveredMeansAccepted ==
    \A m \in Msgs : terminal[m] = <<"delivered">> => m \in accepted

\* Fencing by leased_by is enough to identify the attempt: a worker that is
\* past renewLease and still named in leased_by is the one that made the
\* row's latest attempt, so retire and reschedule never settle the attempt of
\* another worker or of an earlier life of the node.
FenceIdentifiesAttempt ==
    \A n \in Nodes :
      pc[n] \in {"start", "deliver", "record", "finish"} /\ Owns(n, cur[n]) =>
        attempts[cur[n]] = att[n]

\* A sender hears of a permanent failure at most once, from OnFailed or from
\* the DSN of admin Fail, and only of a message settled as failed.
FailureNoticeOnce ==
    \A m \in Msgs : failNotices[m] # 0 =>
      /\ failNotices[m] = 1
      /\ m \notin live
      /\ terminal[m] \in {<<>>, <<"failed">>}

\* The delayed warning is logged once and OnDelayed called at most once per
\* message, across lease re-claims and crashes.
DelayNoticeOnce ==
    \A m \in Msgs : delayNotices[m] <= 1 /\ warnings[m] <= 1

\* A message whose attempts are used up never waits unleased for another one:
\* only a lease that ran out before its worker settled the message takes the
\* attempts past max_attempts.
BudgetLeft ==
    \A m \in live : leasedBy[m] = None => attempts[m] < MaxAttempts

\* A row is never released from a hold that the log says it is under.
LoggedHoldKept ==
    \A m \in live : m \in logHeld => m \in held

\* Two workers never transmit the same message at the same time, as long as
\* workers start and finish within the margin deliveryTimeout leaves.
NoConcurrentTransmission ==
    \A n1, n2 \in Nodes :
      pc[n1] = "deliver" /\ pc[n2] = "deliver"
        /\ cur[n1] = cur[n2] => n1 = n2

\* Once outbound_deliveries shows delivered or failed it never changes again:
\* no late worker, admin or retry takes a settled message back.
OutcomeFinal ==
    [][\A m \in Msgs : status[m] \in {"delivered", "failed"} =>
         status'[m] = status[m]]_vars

\* A queued message is eventually settled, unless it is put on hold: leases
\* of crashed nodes run out and retries come to an end.
EventuallySettled ==
    \A m \in Msgs : (m \in live) ~> (m \notin live \/ m \in held)

\* What the queue promises of a message, read off its row and its log.
phaseOf(m) ==
    IF m \in live THEN "queued"
    ELSE IF terminal[m] # <<>> THEN terminal[m][1]
    ELSE IF m \notin used \/ staged[m] # "no" THEN "new" ELSE "closed"

Phase == [m \in Msgs |-> phaseOf(m)]

Told == {m \in Msgs : failNotices[m] # 0}

L == INSTANCE Lifecycle WITH phase <- Phase, told <- Told

\* The queue with its leases, crashes and administrators implements the life
\* cycle of Lifecycle: every message goes once from queued to one outcome.
ImplementsLifecycle == L!Spec

=============================================================================

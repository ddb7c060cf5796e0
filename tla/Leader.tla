------------------------------- MODULE Leader -------------------------------
(***************************************************************************)
(* Leader election for one cluster singleton: ops/ha Leader and            *)
(* Coordinator on every node, the leader_lease row, and the PostgreSQL     *)
(* servers with their session advisory locks.                              *)
(*                                                                         *)
(* An advisory lock belongs to a session of one server and is not          *)
(* replicated; the lease row is, so one copy stands for it and only a      *)
(* session of the primary may write it.  A promotion changes the primary;  *)
(* sessions of the old one may die or go on read-only.                     *)
(*                                                                         *)
(* Each node has two goroutines: the campaign loop of Coordinator.Run (pc) *)
(* and at most one Tick (wpc), whose job is a series of FenceExec calls.   *)
(***************************************************************************)
EXTENDS Integers, FiniteSets

CONSTANTS
    Nodes, Servers, None,
    MaxEvents,      \* bound on crashes, lost sessions, failed statements,
                    \* failovers of the database and orderly shutdowns
    MaxTenures      \* bound on acquisitions

ASSUME LeaderAssumption ==
    /\ None \notin Nodes /\ None \notin Servers
    /\ MaxEvents \in Nat /\ MaxTenures \in Nat

VARIABLES
    primary,               \* the server that accepts writes
    lock, stranded,        \* advisory lock of each server: the node whose
                           \* session has it; held by a pooled session too
    holder, epoch,         \* the leader_lease row; holder None: no row
    rowlock,               \* the node whose FenceExec has the row FOR UPDATE
    conn, dead,            \* leadership connection, also while it is being
                           \* acquired; its backend is gone
    myEpoch, wasLeader,    \* Leader.epoch, Coordinator.wasLeader
    pc, stopping,          \* campaign loop; its context is cancelled
    balance,               \* history: OnElected calls minus OnLost calls
    wpc, wEpoch,           \* Tick: its step, the epoch FenceExec read
    tenure, latest,        \* history: number of acquisitions, the last one's node
    events                 \* how many of the bounded events have happened

server == <<primary, lock, stranded>>
lease == <<holder, epoch, rowlock>>
leader == <<conn, dead, myEpoch>>
campaign == <<pc, stopping, wasLeader, balance>>
tick == <<wpc, wEpoch>>
history == <<tenure, latest>>

vars == <<primary, lock, stranded, holder, epoch, rowlock, conn, dead, myEpoch,
          wasLeader, pc, stopping, balance, wpc, wEpoch, tenure,
          latest, events>>

Init ==
    /\ primary \in Servers
    /\ lock = [s \in Servers |-> None] /\ stranded = {}
    /\ holder = None /\ epoch = 0 /\ rowlock = None
    /\ conn = [n \in Nodes |-> None] /\ dead = {}
    /\ myEpoch = [n \in Nodes |-> 0]
    /\ wasLeader = {}
    /\ pc = [n \in Nodes |-> "idle"] /\ stopping = {}
    /\ balance = [n \in Nodes |-> 0]
    /\ wpc = [n \in Nodes |-> "none"]
    /\ wEpoch = [n \in Nodes |-> 0]
    /\ tenure = 0 /\ latest = None
    /\ events = 0

------------------------------------------------------------------------------
\* The connection of n and the lease row.

Live(n) == conn[n] # None /\ n \notin dead

\* A statement of n can be answered: its context is not cancelled.
Answered(n) == Live(n) /\ n \notin stopping

\* One more fault, failover or shutdown.
Eventful == events < MaxEvents /\ events' = events + 1

\* A statement fails and the connection stays open: a cancelled context, or a
\* blip of the server.
Blip(n) ==
    \/ n \in stopping /\ UNCHANGED events
    \/ n \notin stopping /\ Eventful

\* WHERE key=$1 AND holder=$2 AND epoch=$3
Mine(n, e) == holder = n /\ epoch = e

\* A write of the row through server s; it waits for a FOR UPDATE lock.
Writable(s) == s = primary /\ rowlock = None

\* The lock that conn[n] has on its server, gone when that session unlocks
\* once; a pooled session that kept an earlier hold keeps the lock.
Unlocked(n) ==
    [s \in Servers |->
        IF s = conn[n] /\ lock[s] = n /\ s \notin stranded THEN None ELSE lock[s]]

\* release: unlock, give the connection back to the pool, clear the epoch.  A
\* dead session has lost its lock already; an unlock that fails on a live one
\* leaves the lock with the pooled session.
Drop(n) ==
    /\ conn' = [conn EXCEPT ![n] = None]
    /\ dead' = dead \ {n}
    /\ myEpoch' = [myEpoch EXCEPT ![n] = 0]

Unlock(n) ==
    /\ lock' = IF Live(n) THEN Unlocked(n) ELSE lock
    /\ UNCHANGED stranded

Strand(n) ==
    /\ stranded' = stranded \union {s \in Servers : s = conn[n] /\ lock[s] = n}
    /\ UNCHANGED lock

release(n) ==
    /\ Drop(n)
    /\ \/ (Live(n) => n \notin stopping) /\ Unlock(n) /\ UNCHANGED events
       \/ Live(n) /\ Blip(n) /\ Strand(n)

\* launchTick: at most one Tick per node.
launchTick(n) ==
    wpc' = IF wpc[n] = "none" THEN [wpc EXCEPT ![n] = "start"] ELSE wpc

\* The end of campaign(): wasLeader is published, the callback called on a
\* change, and Tick launched while leader.
Conclude(n, now) ==
    /\ pc' = [pc EXCEPT ![n] = "idle"]
    /\ wasLeader' = IF now THEN wasLeader \union {n} ELSE wasLeader \ {n}
    /\ balance' =
         [balance EXCEPT ![n] =
             @ + (IF now /\ n \notin wasLeader THEN 1 ELSE 0)
               - (IF ~now /\ n \in wasLeader THEN 1 ELSE 0)]
    /\ IF now THEN launchTick(n) ELSE UNCHANGED wpc
    /\ UNCHANGED <<stopping, wEpoch>>

------------------------------------------------------------------------------
\* The campaign loop.

\* IsLeader: asks the leadership session whether it still has the lock.  On a
\* dead connection the node goes on to re-acquire in the same campaign; a
\* failed statement on a live one leaves it leader.
IsLeader(n) ==
    /\ pc[n] = "idle" /\ n \in wasLeader
    /\ \/ /\ Answered(n) /\ lock[conn[n]] = n
          /\ pc' = [pc EXCEPT ![n] = "beat"]
          /\ UNCHANGED <<server, leader, events>>
       \/ /\ Live(n) /\ Blip(n)
          /\ pc' = [pc EXCEPT ![n] = "beat"]
          /\ UNCHANGED <<server, leader>>
       \/ /\ n \in dead \/ (Answered(n) /\ lock[conn[n]] # n)
          /\ release(n)
          /\ pc' = [pc EXCEPT ![n] = "acquire"]
          /\ UNCHANGED primary
    /\ UNCHANGED <<lease, stopping, wasLeader, balance, tick, history>>

\* Mutation: a campaign that finds the lease taken ends without OnLost.
Fenced_Silent(n) ==
    /\ release(n)
    /\ pc' = [pc EXCEPT ![n] = "idle"]
    /\ wasLeader' = wasLeader \ {n}
    /\ UNCHANGED <<stopping, balance, tick>>

\* The lease is another's, or the connection is dead: step down, no campaign
\* before the next interval.
Fenced(n) == release(n) /\ Conclude(n, FALSE)

\* Heartbeat: renew the lease row through the leadership session.  No row
\* matched: fenced.  A statement that fails on a live connection, the write on
\* a read-only server among them, leaves the node leader.
Heartbeat(n) ==
    /\ pc[n] = "beat"
    /\ \/ /\ Answered(n) /\ Mine(n, myEpoch[n]) /\ Writable(conn[n])
          /\ Conclude(n, TRUE)
          /\ UNCHANGED <<server, leader, events>>
       \/ /\ Answered(n) /\ conn[n] # primary
          /\ Conclude(n, TRUE)
          /\ UNCHANGED <<server, leader, events>>
       \/ /\ Live(n) /\ Blip(n)
          /\ Conclude(n, TRUE)
          /\ UNCHANGED <<server, leader>>
       \/ /\ \/ Answered(n) /\ conn[n] = primary /\ ~Mine(n, myEpoch[n])
             \/ n \in dead
          /\ Fenced(n)
          /\ UNCHANGED primary
    /\ UNCHANGED <<lease, history>>

\* TryAcquire, first statement: a pooled connection to some server; a replica
\* is refused by pg_is_in_recovery().
TryAcquire(n) ==
    /\ \/ pc[n] = "idle" /\ n \notin wasLeader
       \/ pc[n] = "acquire"
    /\ \/ /\ n \notin stopping
          /\ conn' = [conn EXCEPT ![n] = primary]
          /\ pc' = [pc EXCEPT ![n] = "lock"]
          /\ UNCHANGED <<dead, myEpoch, wasLeader, stopping, balance, tick, events>>
       \/ /\ n \notin stopping /\ Servers # {primary}
          /\ Conclude(n, FALSE)
          /\ UNCHANGED <<leader, events>>
       \/ Blip(n) /\ Conclude(n, FALSE) /\ UNCHANGED leader
    /\ UNCHANGED <<server, lease, history>>

\* Mutation: the campaign goes on without the lock.
TryLock_Ignored(n) ==
    /\ pc[n] = "lock"
    /\ Answered(n)
    /\ pc' = [pc EXCEPT ![n] = "claim"]
    /\ UNCHANGED <<server, leader, events, lease, stopping, wasLeader, balance, tick, history>>

\* TryAcquire, second statement: pg_try_advisory_lock, re-entrant in a pooled
\* session that kept the lock.
TryLock(n) ==
    /\ pc[n] = "lock"
    /\ \/ /\ Answered(n)
          /\ \/ lock[conn[n]] = None
             \/ lock[conn[n]] = n /\ conn[n] \in stranded
          /\ lock' = [lock EXCEPT ![conn[n]] = n]
          /\ pc' = [pc EXCEPT ![n] = "claim"]
          /\ UNCHANGED <<primary, stranded, leader, events, stopping, wasLeader, balance, tick>>
       \/ /\ Answered(n) /\ lock[conn[n]] # None
          /\ Drop(n) /\ Conclude(n, FALSE)
          /\ UNCHANGED <<server, events>>
       \/ /\ n \in dead
          /\ Drop(n) /\ Conclude(n, FALSE)
          /\ UNCHANGED <<server, events>>
       \/ /\ Live(n) /\ Blip(n)
          /\ Drop(n) /\ Conclude(n, FALSE)
          /\ UNCHANGED server
    /\ UNCHANGED <<lease, history>>

\* Mutation: the claim does not wait for the row.
Claimed_NoWait(n) ==
    /\ conn[n] = primary /\ tenure < MaxTenures
    /\ holder' = n
    /\ epoch' = IF holder = None THEN 1 ELSE epoch + 1
    /\ tenure' = tenure + 1
    /\ latest' = n
    /\ UNCHANGED rowlock

\* INSERT INTO leader_lease ... ON CONFLICT (key) DO UPDATE SET epoch+1.
Claimed(n) ==
    /\ Writable(conn[n]) /\ tenure < MaxTenures
    /\ holder' = n
    /\ epoch' = IF holder = None THEN 1 ELSE epoch + 1
    /\ tenure' = tenure + 1
    /\ latest' = n
    /\ UNCHANGED rowlock

\* Mutation: the lease of a dead leader is respected.
ClaimLease_IfVacant(n) ==
    /\ pc[n] = "claim"
    /\ IF Answered(n) /\ holder \in {None, n}
       THEN /\ Claimed(n)
            /\ myEpoch' = [myEpoch EXCEPT ![n] = epoch']
            /\ Conclude(n, TRUE)
            /\ UNCHANGED <<server, conn, dead, events>>
       ELSE /\ release(n) /\ Conclude(n, FALSE)
            /\ UNCHANGED <<primary, lease, history>>

\* TryAcquire, third statement, and the end of the campaign: the lease is
\* claimed, whatever it says.  When the statement fails, or its answer is lost
\* with the connection, the lock is given up.
ClaimLease(n) ==
    /\ pc[n] = "claim"
    /\ \/ /\ Answered(n) /\ Claimed(n)
          /\ myEpoch' = [myEpoch EXCEPT ![n] = epoch']
          /\ Conclude(n, TRUE)
          /\ UNCHANGED <<server, conn, dead, events>>
       \/ /\ Answered(n) /\ Claimed(n)
          /\ Eventful
          /\ lock' = [lock EXCEPT ![conn[n]] = None]
          /\ stranded' = stranded \ {conn[n]}
          /\ Drop(n) /\ Conclude(n, FALSE)
          /\ UNCHANGED primary
       \/ /\ n \in dead \/ (Answered(n) /\ conn[n] # primary)
          /\ release(n) /\ Conclude(n, FALSE)
          /\ UNCHANGED <<primary, lease, history>>
       \/ /\ Live(n) /\ Blip(n) /\ Drop(n)
          /\ (n \notin stopping /\ Unlock(n)) \/ Strand(n)
          /\ Conclude(n, FALSE)
          /\ UNCHANGED <<primary, lease, history>>

\* Run sees its context cancelled between two campaigns and returns.
Return(n) ==
    /\ n \in stopping /\ pc[n] = "idle"
    /\ pc' = [pc EXCEPT ![n] = "drain"]
    /\ UNCHANGED <<server, lease, leader, stopping, wasLeader, balance, tick,
                   history, events>>

\* DELETE FROM leader_lease, if it is still ours at our epoch.
DeleteLease(n) ==
    IF Live(n) /\ conn[n] = primary /\ Mine(n, myEpoch[n])
    THEN rowlock = None /\ holder' = None /\ epoch' = 0
    ELSE UNCHANGED <<holder, epoch>>

\* The deferred function of Run: wait for Tick, OnLost, then Resign, with a
\* context of its own: the lease row goes if it is still ours, the lock is
\* unlocked.  The process is then at its end.
Resign(n) ==
    /\ pc[n] = "drain" /\ wpc[n] = "none"
    /\ wasLeader' = wasLeader \ {n}
    /\ balance' = [balance EXCEPT ![n] = IF n \in wasLeader THEN @ - 1 ELSE @]
    /\ Drop(n) /\ Unlock(n)
    /\ DeleteLease(n)
    /\ pc' = [pc EXCEPT ![n] = "exited"]
    /\ UNCHANGED <<primary, rowlock, stopping, tick, history, events>>

------------------------------------------------------------------------------
\* Tick: a job that calls FenceExec, any number of times.

TickEnds(n) ==
    /\ wpc' = [wpc EXCEPT ![n] = "none"]
    /\ wEpoch' = [wEpoch EXCEPT ![n] = 0]

\* The goroutine starts: the cached leadership is looked at once more.
TickStart(n) ==
    /\ wpc[n] = "start"
    /\ IF n \in wasLeader /\ n \notin stopping
       THEN wpc' = [wpc EXCEPT ![n] = "job"] /\ UNCHANGED wEpoch
       ELSE TickEnds(n)
    /\ UNCHANGED <<server, lease, leader, campaign, history, events>>

\* FenceExec reads the epoch; 0 is ErrFenced, which ends the job.
FenceRead(n) ==
    /\ wpc[n] = "job"
    /\ IF myEpoch[n] = 0
       THEN TickEnds(n)
       ELSE /\ wpc' = [wpc EXCEPT ![n] = "check"]
            /\ wEpoch' = [wEpoch EXCEPT ![n] = myEpoch[n]]
    /\ UNCHANGED <<server, lease, leader, campaign, history, events>>

\* SELECT ... FOR UPDATE of the row at that epoch, on a pooled connection.
FenceCheck(n) ==
    /\ wpc[n] = "check" /\ n \notin stopping
    /\ \/ /\ Mine(n, wEpoch[n]) /\ rowlock = None
          /\ rowlock' = n
          /\ wpc' = [wpc EXCEPT ![n] = "fn"]
          /\ UNCHANGED wEpoch
       \/ ~Mine(n, wEpoch[n]) /\ TickEnds(n) /\ UNCHANGED rowlock
    /\ UNCHANGED <<server, holder, epoch, leader, campaign, history, events>>

\* fn has run and the transaction commits.
FenceCommit(n) ==
    /\ wpc[n] = "fn" /\ n \notin stopping
    /\ rowlock' = None
    /\ wpc' = [wpc EXCEPT ![n] = "after"]
    /\ UNCHANGED <<server, holder, epoch, leader, campaign, wEpoch,
                   history, events>>

\* The check, fn or the commit fails: a read-only server, a serialization
\* failure, a cancelled context.  The transaction is rolled back.
FenceError(n) ==
    /\ wpc[n] \in {"check", "fn"}
    /\ Blip(n)
    /\ rowlock' = IF rowlock = n THEN None ELSE rowlock
    /\ wpc' = [wpc EXCEPT ![n] = "after"]
    /\ UNCHANGED <<server, holder, epoch, leader, campaign, wEpoch, history>>

\* The job goes on to its next item, or is over.
TickNext(n) ==
    /\ wpc[n] = "after"
    /\ \/ wpc' = [wpc EXCEPT ![n] = "job"] /\ UNCHANGED wEpoch
       \/ TickEnds(n)
    /\ UNCHANGED <<server, lease, leader, campaign, history, events>>

------------------------------------------------------------------------------
\* Faults.

\* The leadership session of n has the lock of s.
Has(n, s) == lock[s] = n /\ conn[n] = s /\ pc[n] # "lock"

\* The locks left when the leadership sessions of the nodes in K are gone.
LocksWithout(K) ==
    [s \in Servers |->
        IF \E n \in K : Has(n, s) THEN None ELSE lock[s]]

\* The backend of a leadership connection is terminated.
SessionLost(n) ==
    /\ Live(n) /\ Eventful
    /\ dead' = dead \union {n}
    /\ lock' = LocksWithout({n})
    /\ stranded' = {s \in stranded : lock'[s] # None}
    /\ UNCHANGED <<primary, lease, conn, myEpoch, campaign, tick, history>>

\* The pool closes an idle session that kept a lock.
PoolRecycles(s) ==
    /\ s \in stranded
    /\ \A n \in Nodes : ~Has(n, s)
    /\ stranded' = stranded \ {s}
    /\ lock' = [lock EXCEPT ![s] = None]
    /\ UNCHANGED <<primary, lease, leader, campaign, tick, history, events>>

\* The state of a process that has just started, all its sessions gone.
Restarted(n) ==
    /\ conn' = [conn EXCEPT ![n] = None]
    /\ dead' = dead \ {n}
    /\ myEpoch' = [myEpoch EXCEPT ![n] = 0]
    /\ lock' = [s \in Servers |-> IF lock[s] = n THEN None ELSE lock[s]]
    /\ stranded' = {s \in stranded : lock[s] # n}
    /\ rowlock' = IF rowlock = n THEN None ELSE rowlock
    /\ pc' = [pc EXCEPT ![n] = "idle"]
    /\ stopping' = stopping \ {n}
    /\ wasLeader' = wasLeader \ {n}
    /\ balance' = [balance EXCEPT ![n] = 0]
    /\ TickEnds(n)
    /\ UNCHANGED <<primary, holder, epoch, history>>

Crash(n) == pc[n] # "exited" /\ Eventful /\ Restarted(n)

\* The server is asked to shut down.
Stop(n) ==
    /\ pc[n] # "exited" /\ n \notin stopping
    /\ Eventful
    /\ stopping' = stopping \union {n}
    /\ UNCHANGED <<server, lease, leader, pc, wasLeader, balance, tick, history>>

\* The process has ended, its pool with it, and is started again.
Start(n) == pc[n] = "exited" /\ Restarted(n) /\ UNCHANGED events

\* Another server is promoted.  The sessions on the old primary die, or some go
\* on read-only; an open fenced transaction cannot commit.
Promote ==
    /\ Eventful
    /\ \E s \in Servers \ {primary} : primary' = s
    /\ \E K \in SUBSET {n \in Nodes : Live(n) /\ conn[n] = primary} :
         /\ dead' = dead \union K
         /\ lock' = LocksWithout(K)
    /\ stranded' = {s \in stranded : lock'[s] # None}
    /\ rowlock' = None
    /\ wpc' = [n \in Nodes |-> IF wpc[n] = "fn" THEN "after" ELSE wpc[n]]
    /\ UNCHANGED <<holder, epoch, conn, myEpoch, campaign, wEpoch,
                   history>>

------------------------------------------------------------------------------
Campaign(n) ==
    \/ IsLeader(n) \/ Heartbeat(n) \/ TryAcquire(n) \/ TryLock(n)
    \/ ClaimLease(n) \/ Return(n) \/ Resign(n)

Fault(n) == SessionLost(n) \/ Crash(n) \/ Stop(n) \/ Start(n)

Tick(n) ==
    \/ TickStart(n) \/ FenceRead(n) \/ FenceCheck(n) \/ FenceCommit(n)
    \/ FenceError(n) \/ TickNext(n)

Next ==
    \/ \E n \in Nodes : Campaign(n) \/ Tick(n) \/ Fault(n)
    \/ \E s \in Servers : PoolRecycles(s)
    \/ Promote

Spec == Init /\ [][Next]_vars

\* The ticker fires and the statements of the campaign loop are answered; a
\* node that keeps asking for a connection is given one to the primary again
\* and again, and one that waits for the lease row gets it when its turn comes;
\* Tick goes on and ends; idle sessions of a pool are closed.
Fairness ==
    /\ \A n \in Nodes :
         /\ WF_vars(Campaign(n))
         /\ SF_vars(TryAcquire(n) /\ pc'[n] = "lock")
         /\ SF_vars(ClaimLease(n))
         /\ WF_vars(Tick(n))
         /\ SF_vars(TickNext(n) /\ wpc'[n] = "none")
    /\ \A s \in Servers : WF_vars(PoolRecycles(s))

FairSpec == Spec /\ Fairness

------------------------------------------------------------------------------
\* Types of the variables; epoch 0, which stands for "not leader", is the epoch
\* of no lease row.
TypeOK ==
    /\ primary \in Servers
    /\ lock \in [Servers -> Nodes \union {None}]
    /\ stranded \subseteq Servers
    /\ holder \in Nodes \union {None} /\ epoch \in 0 .. MaxTenures
    /\ epoch = 0 <=> holder = None
    /\ rowlock \in Nodes \union {None}
    /\ conn \in [Nodes -> Servers \union {None}] /\ dead \subseteq Nodes
    /\ myEpoch \in [Nodes -> 0 .. MaxTenures]
    /\ wasLeader \subseteq Nodes /\ stopping \subseteq Nodes
    /\ pc \in [Nodes -> {"idle", "beat", "acquire", "lock", "claim", "drain", "exited"}]
    /\ balance \in [Nodes -> Int]
    /\ wpc \in [Nodes -> {"none", "start", "job", "check", "fn", "after"}]
    /\ wEpoch \in [Nodes -> 0 .. MaxTenures]
    /\ tenure \in 0 .. MaxTenures /\ latest \in Nodes \union {None}
    /\ events \in 0 .. MaxEvents

\* n leads: the campaign loop says so and its session has the lock of the
\* primary.
Leading(n) == n \in wasLeader /\ Live(n) /\ conn[n] = primary /\ lock[primary] = n

\* A connection that completed TryAcquire and whose backend lives has the
\* advisory lock of its server: no two nodes lead on one server, whatever is
\* lost, cancelled or retried in between.
LeaderHasLock ==
    \A n \in Nodes : Live(n) /\ myEpoch[n] # 0 => lock[conn[n]] = n

\* OnElected and OnLost alternate on every node, and say what IsLeader of the
\* coordinator says.
CallbacksAlternate ==
    \A n \in Nodes : balance[n] = IF n \in wasLeader THEN 1 ELSE 0

\* What FenceExec commits is written by the node that acquired last: no other
\* node acquires between its check of the lease and its commit, and a node
\* that was superseded does not pass the check.
FencedWriteByLatest ==
    [][\A n \in Nodes : wpc[n] = "fn" /\ wpc'[n] = "after" /\ rowlock = n
            /\ events' = events => latest = n]_vars

\* n leads on a demoted server that kept its session.
Astray(n) == n \in wasLeader /\ Live(n) /\ conn[n] # primary

\* Once the faults are over there is a leader on the primary for good, as long as
\* a node runs that a demoted server has not kept: no lock is left behind by a
\* crash, a lost session, a fenced leader, a shutdown or a promotion.
EventuallyLed ==
    <>[](\/ \E n \in Nodes : Leading(n)
         \/ \A n \in Nodes : Astray(n) \/ pc[n] = "exited")

=============================================================================

---------------------------- MODULE Leader_proofs ----------------------------
(***************************************************************************)
(* Proofs about Leader, for any nodes, servers, faults and acquisitions:   *)
(* a leader has the lock of its server, its callbacks alternate, and what  *)
(* FenceExec commits is the latest leader's.                               *)
(***************************************************************************)
EXTENDS Leader, TLAPS

\* What a node has between two statements: no connection and no epoch before it
\* campaigns, a connection and no epoch while it acquires.
Seats ==
    \A n \in Nodes :
      /\ n \in dead => conn[n] # None
      /\ pc[n] = "acquire" \/ (pc[n] = "idle" /\ n \notin wasLeader)
           => conn[n] = None /\ myEpoch[n] = 0
      /\ pc[n] \in {"lock", "claim"} => conn[n] # None /\ myEpoch[n] = 0

\* LeaderHasLock, from the moment the lock is taken.
HoldsLock ==
    \A n \in Nodes :
      Live(n) /\ (myEpoch[n] # 0 \/ pc[n] = "claim") => lock[conn[n]] = n

\* The row names the node that acquired last, until it is deleted, and it does not
\* change while a FenceExec has it locked.
RowFenced ==
    /\ holder # None => latest = holder
    /\ rowlock # None => holder = rowlock
    /\ epoch <= tenure

\* The inductive invariant.
IInv == TypeOK /\ Seats /\ HoldsLock /\ RowFenced /\ CallbacksAlternate

------------------------------------------------------------------------------
\* The steps of the campaign loop.
Places == {"idle", "beat", "acquire", "lock", "claim", "drain", "exited"}

\* The variables of the connections and of the locks have their types.
Connected ==
    /\ lock \in [Servers -> Nodes \union {None}] /\ stranded \subseteq Servers
    /\ conn \in [Nodes -> Servers \union {None}] /\ dead \subseteq Nodes
    /\ myEpoch \in [Nodes -> 0 .. MaxTenures]

\* The variables of the campaign loop and of Tick have theirs.
Campaigning ==
    /\ wasLeader \subseteq Nodes /\ stopping \subseteq Nodes
    /\ pc \in [Nodes -> Places] /\ balance \in [Nodes -> Int]
    /\ wpc \in [Nodes -> {"none", "start", "job", "check", "fn", "after"}]
    /\ wEpoch \in [Nodes -> 0 .. MaxTenures]

\* The variables of the lease row, the history and the counter have theirs.
Leased ==
    /\ holder \in Nodes \union {None} /\ epoch \in 0 .. MaxTenures
    /\ epoch = 0 <=> holder = None
    /\ rowlock \in Nodes \union {None}
    /\ tenure \in 0 .. MaxTenures /\ latest \in Nodes \union {None}

\* What a step has to keep.
LEMMA Assemble ==
    ASSUME (primary \in Servers)', (events \in 0 .. MaxEvents)', Connected',
           Campaigning', Leased', Seats', HoldsLock', RowFenced', CallbacksAlternate'
    PROVE  IInv'
BY Zenon DEF IInv, TypeOK, Connected, Campaigning, Leased, Places

\* Init: nobody has campaigned and there is no row.
LEMMA IInvInit == Init => IInv
<1> SUFFICES ASSUME Init PROVE IInv
  BY Zenon
<1>1. TypeOK
  BY LeaderAssumption DEF Init, TypeOK
<1>2. Seats /\ HoldsLock
  BY Zenon DEF Init, Seats, HoldsLock, Live
<1>3. RowFenced /\ CallbacksAlternate
  BY DEF Init, RowFenced, CallbacksAlternate
<1> QED
  BY Zenon, <1>1, <1>2, <1>3 DEF IInv

\* Nothing but the counter of events changes in the row.
LEMMA RowKept ==
    ASSUME IInv, UNCHANGED <<lease, history>>
    PROVE  Leased' /\ RowFenced'
BY Zenon DEF IInv, TypeOK, Leased, RowFenced, lease, history

\* A bounded event, or none.
LEMMA EventKept ==
    ASSUME IInv, Eventful \/ UNCHANGED events
    PROVE  events' \in 0 .. MaxEvents
BY LeaderAssumption DEF IInv, TypeOK, Eventful

LEMMA BlipKept == ASSUME NEW n \in Nodes, Blip(n) PROVE Eventful \/ UNCHANGED events
BY Zenon DEF Blip

\* The end of campaign(): the callback matches the change of wasLeader.
LEMMA ConcludeKept ==
    ASSUME IInv, NEW n \in Nodes, NEW now \in BOOLEAN, Conclude(n, now)
    PROVE  /\ Campaigning' /\ CallbacksAlternate'
           /\ pc' = [pc EXCEPT ![n] = "idle"]
           /\ n \in wasLeader' <=> now
           /\ \A m \in Nodes \ {n} : m \in wasLeader' <=> m \in wasLeader
<1>1. Campaigning'
  BY DEF IInv, TypeOK, Campaigning, Places, Conclude, launchTick
<1>2. CallbacksAlternate'
  BY DEF IInv, TypeOK, CallbacksAlternate, Conclude
<1> QED
  BY Zenon, <1>1, <1>2 DEF Conclude

\* What Unlock and Strand do to the locks of the other nodes: nothing.
LEMMA UnlockKept ==
    ASSUME IInv, NEW n \in Nodes, Unlock(n) \/ Strand(n)
    PROVE  /\ lock' \in [Servers -> Nodes \union {None}] /\ stranded' \subseteq Servers
           /\ \A s \in Servers : lock[s] # n => lock'[s] = lock[s]
BY Zenon DEF IInv, TypeOK, Unlock, Strand, Unlocked

LEMMA ReleaseKept ==
    ASSUME IInv, NEW n \in Nodes, release(n)
    PROVE  /\ Drop(n) /\ (Unlock(n) \/ Strand(n))
           /\ events' \in 0 .. MaxEvents
<1>1. Drop(n) /\ (Unlock(n) \/ Strand(n)) /\ (Eventful \/ UNCHANGED events)
  BY Zenon, BlipKept DEF release
<1> QED
  BY Zenon, <1>1, EventKept

\* A node gives its connection up and campaigns no further: the locks that are not
\* its own stay.
LEMMA DropKept ==
    ASSUME IInv, NEW n \in Nodes, NEW p \in {"idle", "acquire", "exited"},
           Drop(n), pc' = [pc EXCEPT ![n] = p],
           \A m \in Nodes \ {n} : m \in wasLeader' <=> m \in wasLeader,
           lock' \in [Servers -> Nodes \union {None}], stranded' \subseteq Servers,
           \A s \in Servers : lock[s] # n => lock'[s] = lock[s]
    PROVE  Connected' /\ Seats' /\ HoldsLock'
<1>1. Connected'
  BY LeaderAssumption DEF IInv, TypeOK, Connected, Drop
<1>2. Seats'
  BY Zenon DEF IInv, TypeOK, Seats, Drop
<1>3. HoldsLock'
  BY Zenon DEF IInv, TypeOK, HoldsLock, Live, Drop
<1> QED
  BY Zenon, <1>1, <1>2, <1>3

\* A node concludes a campaign without a connection.
LEMMA DropConclude ==
    ASSUME IInv, NEW n \in Nodes, Drop(n), Conclude(n, FALSE),
           lock' \in [Servers -> Nodes \union {None}], stranded' \subseteq Servers,
           \A s \in Servers : lock[s] # n => lock'[s] = lock[s]
    PROVE  Connected' /\ Seats' /\ HoldsLock' /\ Campaigning' /\ CallbacksAlternate'
BY Zenon, ConcludeKept, DropKept

\* A node that keeps its connection and its epoch ends a campaign, goes on to
\* renew the lease or leaves the loop.
LEMMA StayKept ==
    ASSUME IInv, NEW n \in Nodes, NEW p \in {"idle", "beat", "drain"},
           UNCHANGED <<lock, stranded, leader>>, pc' = [pc EXCEPT ![n] = p],
           p = "idle" => n \in wasLeader' \/ (conn[n] = None /\ myEpoch[n] = 0),
           \A m \in Nodes \ {n} : m \in wasLeader' <=> m \in wasLeader
    PROVE  Connected' /\ Seats' /\ HoldsLock'
<1>1. Connected'
  BY Zenon DEF IInv, TypeOK, Connected, leader
<1>2. Seats'
  BY Zenon DEF IInv, TypeOK, Seats, leader
<1>3. HoldsLock'
  BY Zenon DEF IInv, TypeOK, HoldsLock, Live, leader
<1> QED
  BY Zenon, <1>1, <1>2, <1>3

\* pc moves and nothing else of the campaign loop and of Tick does.
LEMMA MoveKept ==
    ASSUME IInv, NEW n \in Nodes, NEW p \in Places, pc' = [pc EXCEPT ![n] = p],
           UNCHANGED <<stopping, wasLeader, balance, tick>>
    PROVE  Campaigning' /\ CallbacksAlternate'
BY Zenon DEF IInv, TypeOK, Campaigning, CallbacksAlternate, Places, tick

------------------------------------------------------------------------------
\* The campaign loop.

LEMMA IsLeaderStep == ASSUME IInv, NEW n \in Nodes, IsLeader(n) PROVE IInv'
<1>1. Leased' /\ RowFenced'
  BY Zenon, RowKept DEF IsLeader
<1>2. primary' \in Servers
  BY Zenon DEF IsLeader, server, IInv, TypeOK
<1>3. CASE /\ UNCHANGED <<server, leader>>
           /\ pc' = [pc EXCEPT ![n] = "beat"]
           /\ Eventful \/ UNCHANGED events
  <2>1. Connected' /\ Seats' /\ HoldsLock'
    BY Zenon, <1>3, StayKept DEF IsLeader, server
  <2>2. Campaigning' /\ CallbacksAlternate'
    BY Zenon, <1>3, MoveKept DEF IsLeader, Places
  <2> QED
    BY Zenon, <1>1, <1>2, <1>3, <2>1, <2>2, EventKept, Assemble
<1>4. CASE release(n) /\ pc' = [pc EXCEPT ![n] = "acquire"]
  <2>1. Connected' /\ Seats' /\ HoldsLock'
    BY Zenon, <1>4, ReleaseKept, UnlockKept, DropKept DEF IsLeader
  <2>2. Campaigning' /\ CallbacksAlternate'
    BY Zenon, <1>4, MoveKept DEF IsLeader, Places
  <2> QED
    BY Zenon, <1>1, <1>2, <1>4, <2>1, <2>2, ReleaseKept, Assemble
<1> QED
  BY Zenon, <1>3, <1>4, BlipKept DEF IsLeader

LEMMA HeartbeatStep == ASSUME IInv, NEW n \in Nodes, Heartbeat(n) PROVE IInv'
<1>1. Leased' /\ RowFenced'
  BY Zenon, RowKept DEF Heartbeat
<1>2. primary' \in Servers
  BY Zenon DEF Heartbeat, server, IInv, TypeOK
<1>3. CASE /\ UNCHANGED <<server, leader>>
           /\ Conclude(n, TRUE)
           /\ Eventful \/ UNCHANGED events
  <2>1. Campaigning' /\ CallbacksAlternate'
    BY Zenon, <1>3, ConcludeKept
  <2>2. /\ pc' = [pc EXCEPT ![n] = "idle"] /\ n \in wasLeader'
        /\ \A m \in Nodes \ {n} : m \in wasLeader' <=> m \in wasLeader
    BY Zenon, <1>3, ConcludeKept
  <2>3. Connected' /\ Seats' /\ HoldsLock'
    BY Zenon, <1>3, <2>2, StayKept DEF server
  <2> QED
    BY Zenon, <1>1, <1>2, <1>3, <2>1, <2>3, EventKept, Assemble
<1>4. CASE Fenced(n)
  <2>1. /\ Connected' /\ Seats' /\ HoldsLock' /\ Campaigning' /\ CallbacksAlternate'
        /\ events' \in 0 .. MaxEvents
    BY Zenon, <1>4, ReleaseKept, UnlockKept, DropConclude DEF Fenced
  <2> QED
    BY Zenon, <1>1, <1>2, <2>1, Assemble
<1> QED
  BY Zenon, <1>3, <1>4, BlipKept DEF Heartbeat

\* TryAcquire: a node without a connection gets one, and has neither lock nor epoch
\* on it yet.
LEMMA TryAcquireStep == ASSUME IInv, NEW n \in Nodes, TryAcquire(n) PROVE IInv'
<1>1. Leased' /\ RowFenced'
  BY Zenon, RowKept DEF TryAcquire
<1>2. primary' \in Servers
  BY Zenon DEF TryAcquire, server, IInv, TypeOK
<1>3. conn[n] = None /\ myEpoch[n] = 0 /\ n \notin dead
  BY Zenon DEF TryAcquire, IInv, Seats
<1>4. CASE /\ conn' = [conn EXCEPT ![n] = primary]
           /\ pc' = [pc EXCEPT ![n] = "lock"]
           /\ UNCHANGED <<dead, myEpoch, wasLeader, stopping, balance, tick, events>>
  <2>1. Connected'
    BY Zenon, <1>4 DEF TryAcquire, server, IInv, TypeOK, Connected
  <2>2. Seats'
    BY Zenon, <1>3, <1>4, LeaderAssumption DEF IInv, TypeOK, Seats
  <2>3. HoldsLock'
    BY Zenon, <1>3, <1>4 DEF TryAcquire, server, IInv, TypeOK, HoldsLock, Live
  <2>4. Campaigning' /\ CallbacksAlternate'
    BY Zenon, <1>4, MoveKept DEF Places
  <2> QED
    BY Zenon, <1>1, <1>2, <1>4, <2>1, <2>2, <2>3, <2>4, EventKept, Assemble
<1>5. CASE /\ Conclude(n, FALSE) /\ UNCHANGED leader
           /\ Eventful \/ UNCHANGED events
  <2>1. Campaigning' /\ CallbacksAlternate'
    BY Zenon, <1>5, ConcludeKept
  <2>2. Connected' /\ Seats' /\ HoldsLock'
    BY Zenon, <1>3, <1>5, ConcludeKept, StayKept DEF TryAcquire, server
  <2> QED
    BY Zenon, <1>1, <1>2, <1>5, <2>1, <2>2, EventKept, Assemble
<1> QED
  BY Zenon, <1>4, <1>5, BlipKept DEF TryAcquire

\* TryLock: a lock is taken from nobody else.
LEMMA TryLockStep == ASSUME IInv, NEW n \in Nodes, TryLock(n) PROVE IInv'
<1>1. Leased' /\ RowFenced'
  BY Zenon, RowKept DEF TryLock
<1>2. primary' \in Servers
  BY Zenon DEF TryLock, server, IInv, TypeOK
<1>3. CASE /\ lock[conn[n]] \in {None, n}
           /\ lock' = [lock EXCEPT ![conn[n]] = n]
           /\ pc' = [pc EXCEPT ![n] = "claim"]
           /\ UNCHANGED <<stranded, leader, events, stopping, wasLeader, balance, tick>>
  <2>1. conn[n] \in Servers /\ myEpoch[n] = 0
    BY Zenon DEF TryLock, IInv, TypeOK, Seats
  <2>2. Connected'
    BY Zenon, <1>3 DEF IInv, TypeOK, Connected, leader
  <2>3. Seats'
    BY Zenon, <1>3, <2>1, LeaderAssumption DEF IInv, TypeOK, Seats, leader
  <2>4. HoldsLock'
    BY <1>3, <2>1, LeaderAssumption DEF IInv, TypeOK, HoldsLock, Live, leader
  <2>5. Campaigning' /\ CallbacksAlternate'
    BY Zenon, <1>3, MoveKept DEF Places
  <2> QED
    BY Zenon, <1>1, <1>2, <1>3, <2>2, <2>3, <2>4, <2>5, EventKept, Assemble
<1>4. CASE Drop(n) /\ Conclude(n, FALSE) /\ UNCHANGED server
  <2>1. Eventful \/ UNCHANGED events
    BY Zenon, <1>4, BlipKept DEF TryLock
  <2>2. /\ lock' \in [Servers -> Nodes \union {None}] /\ stranded' \subseteq Servers
        /\ \A s \in Servers : lock[s] # n => lock'[s] = lock[s]
    BY Zenon, <1>4 DEF IInv, TypeOK, server
  <2>3. Connected' /\ Seats' /\ HoldsLock' /\ Campaigning' /\ CallbacksAlternate'
    BY Zenon, <1>4, <2>2, DropConclude
  <2> QED
    BY Zenon, <1>1, <1>2, <2>1, <2>3, EventKept, Assemble
<1> QED
  BY Zenon, <1>3, <1>4 DEF TryLock

\* Claimed: the row is nobody's FOR UPDATE, and names the node that acquired last.
LEMMA ClaimedKept ==
    ASSUME IInv, NEW n \in Nodes, Claimed(n)
    PROVE  Leased' /\ RowFenced' /\ epoch' \in 1 .. MaxTenures
BY LeaderAssumption DEF IInv, TypeOK, Leased, RowFenced, Claimed, Writable

\* ClaimLease: the node has the lock, and either an epoch from now on or neither.
LEMMA ClaimLeaseStep == ASSUME IInv, NEW n \in Nodes, ClaimLease(n) PROVE IInv'
<1>1. conn[n] \in Servers
  BY Zenon DEF ClaimLease, IInv, TypeOK, Seats
<1>2. primary' \in Servers
  BY Zenon DEF ClaimLease, server, IInv, TypeOK
<1>3. CASE /\ Answered(n) /\ Claimed(n)
           /\ myEpoch' = [myEpoch EXCEPT ![n] = epoch']
           /\ Conclude(n, TRUE)
           /\ UNCHANGED <<server, conn, dead, events>>
  <2>1. Leased' /\ RowFenced' /\ epoch' \in 1 .. MaxTenures
    BY Zenon, <1>3, ClaimedKept
  <2>2. /\ Campaigning' /\ CallbacksAlternate'
        /\ pc' = [pc EXCEPT ![n] = "idle"] /\ n \in wasLeader'
        /\ \A m \in Nodes \ {n} : m \in wasLeader' <=> m \in wasLeader
    BY Zenon, <1>3, ConcludeKept
  <2>3. Connected'
    BY <1>3, <2>1 DEF IInv, TypeOK, Connected, server
  <2>4. Seats'
    BY Zenon, <1>3, <2>2 DEF IInv, TypeOK, Seats, Answered, Live
  <2>5. HoldsLock'
    BY Zenon, <1>3, <2>2 DEF ClaimLease, IInv, TypeOK, HoldsLock, Answered, Live, server
  <2> QED
    BY Zenon, <1>2, <1>3, <2>1, <2>2, <2>3, <2>4, <2>5, EventKept, Assemble
<1>4. CASE /\ Answered(n) /\ Claimed(n) /\ Eventful
           /\ lock' = [lock EXCEPT ![conn[n]] = None]
           /\ stranded' = stranded \ {conn[n]}
           /\ Drop(n) /\ Conclude(n, FALSE)
  <2>1. Leased' /\ RowFenced'
    BY Zenon, <1>4, ClaimedKept
  <2>2. lock[conn[n]] = n
    BY Zenon, <1>4 DEF ClaimLease, IInv, HoldsLock, Answered
  <2>3. /\ lock' \in [Servers -> Nodes \union {None}] /\ stranded' \subseteq Servers
        /\ \A s \in Servers : lock[s] # n => lock'[s] = lock[s]
    BY Zenon, <1>1, <1>4, <2>2 DEF IInv, TypeOK
  <2>4. Connected' /\ Seats' /\ HoldsLock' /\ Campaigning' /\ CallbacksAlternate'
    BY Zenon, <1>4, <2>3, DropConclude
  <2> QED
    BY Zenon, <1>2, <1>4, <2>1, <2>4, EventKept, Assemble
<1>5. CASE /\ Drop(n) /\ (Unlock(n) \/ Strand(n)) /\ events' \in 0 .. MaxEvents
           /\ Conclude(n, FALSE) /\ UNCHANGED <<lease, history>>
  <2>1. Leased' /\ RowFenced'
    BY Zenon, <1>5, RowKept
  <2>2. Connected' /\ Seats' /\ HoldsLock' /\ Campaigning' /\ CallbacksAlternate'
    BY Zenon, <1>5, UnlockKept, DropConclude
  <2> QED
    BY Zenon, <1>2, <1>5, <2>1, <2>2, Assemble
<1> QED
  BY Zenon, <1>3, <1>4, <1>5, ReleaseKept, BlipKept, EventKept DEF ClaimLease

LEMMA ReturnStep == ASSUME IInv, NEW n \in Nodes, Return(n) PROVE IInv'
<1>1. Leased' /\ RowFenced' /\ (primary \in Servers)' /\ (events \in 0 .. MaxEvents)'
  BY Zenon, RowKept DEF Return, IInv, TypeOK, server
<1>2. Connected' /\ Seats' /\ HoldsLock'
  BY Zenon, StayKept DEF Return, server
<1>3. Campaigning' /\ CallbacksAlternate'
  BY Zenon, MoveKept DEF Return, Places
<1> QED
  BY Zenon, <1>1, <1>2, <1>3, Assemble

\* Resign: the row is deleted only when no FenceExec has it.
LEMMA ResignStep == ASSUME IInv, NEW n \in Nodes, Resign(n) PROVE IInv'
<1>1. (primary \in Servers)' /\ (events \in 0 .. MaxEvents)'
  BY Zenon DEF Resign, IInv, TypeOK
<1>2. Leased' /\ RowFenced'
  <2>1. CASE UNCHANGED <<holder, epoch>>
    BY Zenon, <2>1, RowKept DEF Resign, lease
  <2>2. CASE rowlock = None /\ holder' = None /\ epoch' = 0
    BY <2>2, LeaderAssumption DEF Resign, IInv, TypeOK, Leased, RowFenced, history
  <2> QED
    BY Zenon, <2>1, <2>2 DEF Resign, DeleteLease
<1>3. Campaigning' /\ CallbacksAlternate'
  BY DEF Resign, IInv, TypeOK, Campaigning, CallbacksAlternate, Places, tick
<1>4. Connected' /\ Seats' /\ HoldsLock'
  <2>1. /\ Drop(n) /\ pc' = [pc EXCEPT ![n] = "exited"]
        /\ \A m \in Nodes \ {n} : m \in wasLeader' <=> m \in wasLeader
    BY Zenon DEF Resign
  <2>2. /\ lock' \in [Servers -> Nodes \union {None}] /\ stranded' \subseteq Servers
        /\ \A s \in Servers : lock[s] # n => lock'[s] = lock[s]
    BY Zenon, UnlockKept DEF Resign
  <2> QED
    BY Zenon, <2>1, <2>2, DropKept
<1> QED
  BY Zenon, <1>1, <1>2, <1>3, <1>4, Assemble

LEMMA CampaignStep == ASSUME IInv, NEW n \in Nodes, Campaign(n) PROVE IInv'
BY Zenon, IsLeaderStep, HeartbeatStep, TryAcquireStep, TryLockStep, ClaimLeaseStep,
   ReturnStep, ResignStep DEF Campaign

------------------------------------------------------------------------------
\* Tick.

\* A step of Tick touches neither the connections nor the campaign loop.
LEMMA TickKept ==
    ASSUME IInv, UNCHANGED <<server, leader, campaign>>,
           wpc' \in [Nodes -> {"none", "start", "job", "check", "fn", "after"}],
           wEpoch' \in [Nodes -> 0 .. MaxTenures],
           Leased', RowFenced', Eventful \/ UNCHANGED events
    PROVE  IInv'
<1>1. (primary \in Servers)' /\ Connected' /\ Campaigning'
  BY Zenon DEF IInv, TypeOK, Connected, Campaigning, Places, server, leader, campaign
<1>2. Seats' /\ HoldsLock' /\ CallbacksAlternate'
  BY Zenon DEF IInv, Seats, HoldsLock, Live, CallbacksAlternate, server, leader, campaign
<1> QED
  BY Zenon, <1>1, <1>2, EventKept, Assemble

\* The steps that do not touch the row.
LEMMA TickLocalStep ==
    ASSUME IInv, NEW n \in Nodes, TickStart(n) \/ FenceRead(n) \/ TickNext(n)
    PROVE  IInv'
<1>1. UNCHANGED <<server, leader, campaign, lease, history, events>>
  BY Zenon DEF TickStart, FenceRead, TickNext
<1>2. /\ wpc' \in [Nodes -> {"none", "start", "job", "check", "fn", "after"}]
      /\ wEpoch' \in [Nodes -> 0 .. MaxTenures]
  BY LeaderAssumption DEF TickStart, FenceRead, TickNext, TickEnds, IInv, TypeOK
<1> QED
  BY Zenon, <1>1, <1>2, RowKept, TickKept

\* FenceCheck: the row that is locked is the node's own.
LEMMA FenceCheckStep == ASSUME IInv, NEW n \in Nodes, FenceCheck(n) PROVE IInv'
<1>1. UNCHANGED <<server, leader, campaign, events>>
  BY Zenon DEF FenceCheck
<1>2. /\ wpc' \in [Nodes -> {"none", "start", "job", "check", "fn", "after"}]
      /\ wEpoch' \in [Nodes -> 0 .. MaxTenures]
  BY LeaderAssumption DEF FenceCheck, TickEnds, IInv, TypeOK
<1>3. Leased' /\ RowFenced'
  BY Zenon DEF FenceCheck, Mine, IInv, TypeOK, Leased, RowFenced, history
<1> QED
  BY Zenon, <1>1, <1>2, <1>3, TickKept

\* The transaction commits or is rolled back, and the row lock goes.
LEMMA FenceEndStep ==
    ASSUME IInv, NEW n \in Nodes, FenceCommit(n) \/ FenceError(n)
    PROVE  IInv'
<1>1. /\ UNCHANGED <<server, leader, campaign, holder, epoch, wEpoch, history>>
      /\ rowlock' \in {None, rowlock} /\ wpc' = [wpc EXCEPT ![n] = "after"]
  BY Zenon DEF FenceCommit, FenceError
<1>2. Eventful \/ UNCHANGED events
  BY Zenon, BlipKept DEF FenceCommit, FenceError
<1>3. /\ wpc' \in [Nodes -> {"none", "start", "job", "check", "fn", "after"}]
      /\ wEpoch' \in [Nodes -> 0 .. MaxTenures]
  BY Zenon, <1>1 DEF IInv, TypeOK
<1>4. Leased' /\ RowFenced'
  BY Zenon, <1>1 DEF IInv, TypeOK, Leased, RowFenced, history
<1> QED
  BY Zenon, <1>1, <1>2, <1>3, <1>4, TickKept

LEMMA TickStep == ASSUME IInv, NEW n \in Nodes, Tick(n) PROVE IInv'
BY Zenon, TickLocalStep, FenceCheckStep, FenceEndStep DEF Tick

------------------------------------------------------------------------------
\* Faults.

\* A session is lost and its lock with it, no other's.
LEMMA SessionLostStep == ASSUME IInv, NEW n \in Nodes, SessionLost(n) PROVE IInv'
<1>1. Leased' /\ RowFenced' /\ (primary \in Servers)' /\ (events \in 0 .. MaxEvents)'
  BY Zenon, RowKept, EventKept DEF SessionLost, IInv, TypeOK
<1>2. Campaigning' /\ CallbacksAlternate'
  BY Zenon DEF SessionLost, IInv, TypeOK, Campaigning, CallbacksAlternate, Places,
     campaign, tick
<1>3. Connected'
  BY Zenon, LeaderAssumption DEF SessionLost, LocksWithout, IInv, TypeOK, Connected
<1>4. Seats'
  BY Zenon DEF SessionLost, Live, IInv, Seats, campaign
<1>5. HoldsLock'
  BY Zenon DEF SessionLost, LocksWithout, Has, Live, IInv, TypeOK, HoldsLock, campaign
<1> QED
  BY Zenon, <1>1, <1>2, <1>3, <1>4, <1>5, Assemble

\* A process that starts anew has nothing left.
LEMMA RestartedStep ==
    ASSUME IInv, NEW n \in Nodes, Restarted(n), Eventful \/ UNCHANGED events
    PROVE  IInv'
<1>1. Leased' /\ RowFenced' /\ (primary \in Servers)'
  BY Zenon DEF Restarted, IInv, TypeOK, Leased, RowFenced, history
<1>2. Campaigning' /\ CallbacksAlternate'
  BY LeaderAssumption DEF Restarted, TickEnds, IInv, TypeOK, Campaigning,
     CallbacksAlternate, Places
<1>3. Connected' /\ Seats' /\ HoldsLock'
  <2>1. /\ Drop(n) /\ pc' = [pc EXCEPT ![n] = "idle"]
        /\ \A m \in Nodes \ {n} : m \in wasLeader' <=> m \in wasLeader
    BY Zenon DEF Restarted, Drop
  <2>2. /\ lock' \in [Servers -> Nodes \union {None}] /\ stranded' \subseteq Servers
        /\ \A s \in Servers : lock[s] # n => lock'[s] = lock[s]
    BY Zenon DEF Restarted, IInv, TypeOK
  <2> QED
    BY Zenon, <2>1, <2>2, DropKept
<1> QED
  BY Zenon, <1>1, <1>2, <1>3, EventKept, Assemble

LEMMA StopStep == ASSUME IInv, NEW n \in Nodes, Stop(n) PROVE IInv'
<1>1. Leased' /\ RowFenced' /\ (primary \in Servers)' /\ (events \in 0 .. MaxEvents)'
  BY Zenon, RowKept, EventKept DEF Stop, server, IInv, TypeOK
<1>2. Campaigning' /\ CallbacksAlternate'
  BY Zenon DEF Stop, IInv, TypeOK, Campaigning, CallbacksAlternate, Places, tick
<1>3. Connected'
  BY Zenon DEF Stop, IInv, TypeOK, Connected, server, leader
<1>4. Seats' /\ HoldsLock'
  BY Zenon DEF Stop, IInv, Seats, HoldsLock, Live, server, leader
<1> QED
  BY Zenon, <1>1, <1>2, <1>3, <1>4, Assemble

LEMMA FaultStep == ASSUME IInv, NEW n \in Nodes, Fault(n) PROVE IInv'
BY Zenon, SessionLostStep, RestartedStep, StopStep DEF Fault, Crash, Start

\* The pool closes a session only of a server whose lock no leader has: a leader
\* and a node that is about to claim have passed pc = "lock".
LEMMA PoolRecyclesStep == ASSUME IInv, NEW s \in Servers, PoolRecycles(s) PROVE IInv'
<1>1. Leased' /\ RowFenced' /\ (primary \in Servers)' /\ (events \in 0 .. MaxEvents)'
  BY Zenon, RowKept DEF PoolRecycles, IInv, TypeOK
<1>2. Campaigning' /\ CallbacksAlternate'
  BY Zenon DEF PoolRecycles, IInv, TypeOK, Campaigning, CallbacksAlternate, Places,
     campaign, tick
<1>3. Connected'
  BY Zenon DEF PoolRecycles, IInv, TypeOK, Connected, leader
<1>4. Seats'
  BY Zenon DEF PoolRecycles, IInv, Seats, leader, campaign
<1>5. HoldsLock'
  BY Zenon DEF PoolRecycles, Has, Live, IInv, TypeOK, Seats, HoldsLock, leader, campaign
<1> QED
  BY Zenon, <1>1, <1>2, <1>3, <1>4, <1>5, Assemble

\* A promotion: the sessions that die lose their locks and no other does, and no
\* fenced transaction survives it.
LEMMA PromoteStep == ASSUME IInv, Promote PROVE IInv'
<1>1. Leased' /\ RowFenced'
  BY Zenon DEF Promote, IInv, TypeOK, Leased, RowFenced, history
<1>2. (primary \in Servers)' /\ (events \in 0 .. MaxEvents)'
  BY Zenon, EventKept DEF Promote
<1>3. Campaigning' /\ CallbacksAlternate'
  BY Zenon DEF Promote, IInv, TypeOK, Campaigning, CallbacksAlternate, Places, campaign
<1>4. PICK K \in SUBSET {n \in Nodes : Live(n) /\ conn[n] = primary} :
          dead' = dead \union K /\ lock' = LocksWithout(K)
  BY Zenon DEF Promote
<1>5. Connected'
  BY Zenon, <1>4 DEF Promote, LocksWithout, IInv, TypeOK, Connected
<1>6. Seats'
  BY Zenon, <1>4 DEF Promote, Live, IInv, Seats, campaign
<1>7. HoldsLock'
  BY <1>4 DEF Promote, LocksWithout, Has, Live, IInv, TypeOK, HoldsLock, campaign
<1> QED
  BY Zenon, <1>1, <1>2, <1>3, <1>5, <1>6, <1>7, Assemble

LEMMA IInvStutter == IInv /\ UNCHANGED vars => IInv'
<1> SUFFICES ASSUME IInv, UNCHANGED vars PROVE IInv'
  BY Zenon
<1>1. UNCHANGED <<server, leader, campaign, lease, history, tick, events>>
  BY Zenon DEF vars, server, leader, campaign, lease, history, tick
<1>2. /\ wpc' \in [Nodes -> {"none", "start", "job", "check", "fn", "after"}]
      /\ wEpoch' \in [Nodes -> 0 .. MaxTenures]
  BY Zenon, <1>1 DEF tick, IInv, TypeOK
<1> QED
  BY Zenon, <1>1, <1>2, RowKept, TickKept

------------------------------------------------------------------------------
\* The inductive invariant holds in every reachable state.
THEOREM Invariance == Spec => []IInv
<1>1. IInv /\ [Next]_vars => IInv'
  BY Zenon, CampaignStep, TickStep, FaultStep, PoolRecyclesStep, PromoteStep,
     IInvStutter DEF Next
<1> QED
  BY <1>1, IInvInit, PTL DEF Spec

\* A connection that completed TryAcquire and lives has the advisory lock of its
\* server, however many nodes campaign and whatever sessions, processes and
\* servers are lost.
THEOREM LeadersHaveLocks == Spec => []LeaderHasLock
<1>1. IInv => LeaderHasLock
  BY Zenon DEF IInv, HoldsLock, LeaderHasLock
<1> QED
  BY <1>1, Invariance, PTL

\* OnElected and OnLost of the Coordinator alternate on every node.
THEOREM CallbacksDoAlternate == Spec => []CallbacksAlternate
<1>1. IInv => CallbacksAlternate
  BY Zenon DEF IInv
<1> QED
  BY <1>1, Invariance, PTL

\* The row that FenceExec locks keeps every later acquisition out until it commits:
\* what is committed is written by the node that acquired last.
THEOREM FencedWrites == Spec => FencedWriteByLatest
<1>1. ASSUME IInv, NEW n \in Nodes, rowlock = n PROVE latest = n
  BY Zenon, <1>1, LeaderAssumption DEF IInv, RowFenced
<1>2. IInv /\ [Next]_vars =>
        [\A n \in Nodes : wpc[n] = "fn" /\ wpc'[n] = "after" /\ rowlock = n
             /\ events' = events => latest = n]_vars
  BY Zenon, <1>1
<1> QED
  BY <1>2, Invariance, PTL DEF Spec, FencedWriteByLatest

=============================================================================

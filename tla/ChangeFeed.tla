----------------------------- MODULE ChangeFeed -----------------------------
(***************************************************************************)
(* The change stream of one account: how the entries of its change log     *)
(* reach the subscribers (IMAP IDLE and NOTIFY, JMAP push) of every node   *)
(* (storage/postgres: account.go Tx, store.go publish and registerComm,    *)
(* coordinator.go, replay.go).                                             *)
(*                                                                         *)
(* A write commits under the account's advisory lock and is published      *)
(* after it has let go of the lock: first to the subscribers of the        *)
(* writer's node, then as a NOTIFY to the coordinator of every node, which *)
(* replays the log from its subscribers' cursors.  A cursor and a channel  *)
(* are separate objects: a send and the advance that follows it are two    *)
(* steps, for writers and for coordinators.                                *)
(***************************************************************************)
EXTENDS Integers, Sequences, FiniteSets

CONSTANTS
    Nodes, Writers, Subs, None,
    Coordinated,    \* nodes whose coordinator is followed; one without
                    \* subscribers finds none of them behind and is left out
    Homes,          \* placements: the node of each write handler and session
    Buf,            \* capacity of Comm.Changes
    MaxSeq,         \* bound on the log
    MaxTx,          \* bound on the number of transactions
    MaxDrops,       \* bound on losses of a LISTEN connection
    MaxFaults       \* bound on failed queries

ASSUME FeedAssumption ==
    /\ Coordinated \subseteq Nodes
    /\ Homes \subseteq [Writers \cup Subs -> Nodes]
    /\ None \notin Subs
    /\ Buf \in Nat \ {0}
    /\ MaxSeq \in Nat /\ MaxTx \in Nat /\ MaxDrops \in Nat /\ MaxFaults \in Nat

VARIABLES
    head,      \* accounts.changelog_seq; the log is the positions 1 .. head
    author,    \* history: the node that wrote each entry
    home,      \* the node of each write handler and subscriber
    wpc, wlo, whi, wtodo, wsent, \* Tx and publish of each writer: the entries
                                 \* wlo+1 .. whi, the subscribers still to do,
                                 \* and the one just sent to
    spc, last, queued,           \* subscriber: state, lastSeq, channel length
    listening, inbox,            \* LISTEN connection of each node's coordinator
    cpc, behind, cmin, chead, csub, ccur, \* its onRemoteChange
    \* history: the head when the subscriber took its cursor and when it was
    \* registered, what was sent to it in order, what a full channel refused
    from, since, sent, refused,
    txs, drops, faults

writers == <<wpc, wlo, whi, wtodo, wsent>>
subscriber == <<spc, last, queued>>
listener == <<listening, inbox>>
replayer == <<cpc, behind, cmin, chead, csub, ccur>>
history == <<from, since, sent, refused>>
budget == <<txs, drops, faults>>

log == <<head, author, home>>

vars == <<log, writers, subscriber, listener, replayer, history, budget>>

Interval(lo, hi) == [i \in 1 .. hi - lo |-> lo + i]

Registered(n) == {s \in Subs : home[s] = n /\ spc[s] = "on"}

Fault == faults < MaxFaults /\ faults' = faults + 1 /\ UNCHANGED <<txs, drops>>

Init ==
    /\ head = 0 /\ author = <<>> /\ home \in Homes
    /\ wpc = [w \in Writers |-> "idle"]
    /\ wlo = [w \in Writers |-> 0] /\ whi = [w \in Writers |-> 0]
    /\ wtodo = [w \in Writers |-> {}] /\ wsent = [w \in Writers |-> None]
    /\ spc = [s \in Subs |-> "off"]
    /\ last = [s \in Subs |-> 0] /\ queued = [s \in Subs |-> 0]
    /\ listening = Coordinated /\ inbox = [n \in Nodes |-> <<>>]
    /\ cpc = [n \in Nodes |-> "wait"]
    /\ behind = [n \in Nodes |-> {}]
    /\ cmin = [n \in Nodes |-> 0] /\ chead = [n \in Nodes |-> 0]
    /\ csub = [n \in Nodes |-> None] /\ ccur = [n \in Nodes |-> 0]
    /\ from = [s \in Subs |-> 0] /\ since = [s \in Subs |-> 0]
    /\ sent = [s \in Subs |-> <<>>] /\ refused = [s \in Subs |-> {}]
    /\ txs = 0 /\ drops = 0 /\ faults = 0

-----------------------------------------------------------------------------
(* Sending to a subscriber. *)

\* The non-blocking send of positions lo+1 .. hi on s's channel.
Send(s, lo, hi) ==
    /\ queued[s] < Buf
    /\ queued' = [queued EXCEPT ![s] = @ + 1]
    /\ sent' = [sent EXCEPT ![s] = @ \o Interval(lo, hi)]
    /\ UNCHANGED refused

\* The channel is full: the default branch.
Refuse(s, lo, hi) ==
    /\ queued[s] = Buf
    /\ refused' = [refused EXCEPT ![s] = @ \cup (lo + 1 .. hi)]
    /\ UNCHANGED <<queued, sent>>

advance(s, seq) == last' = [last EXCEPT ![s] = IF seq > @ THEN seq ELSE @]

-----------------------------------------------------------------------------
(* Writers. *)

\* Tx: fn records k changes (none, when it finds nothing to do), flush
\* appends them and the transaction commits.
Tx(w, k) ==
    /\ wpc[w] = "idle" /\ txs < MaxTx /\ head + k <= MaxSeq
    /\ head' = head + k
    /\ author' = author \o [i \in 1 .. k |-> home[w]]
    /\ wlo' = [wlo EXCEPT ![w] = head]
    /\ whi' = [whi EXCEPT ![w] = head + k]
    /\ wpc' = [wpc EXCEPT ![w] = "snapshot"]
    /\ txs' = txs + 1
    /\ UNCHANGED <<home, wtodo, wsent, subscriber, listener, replayer, history, drops,
                   faults>>

\* publish copies the list of subscribers.
publish(w) ==
    /\ wpc[w] = "snapshot"
    /\ wtodo' = [wtodo EXCEPT ![w] = Registered(home[w])]
    /\ wpc' = [wpc EXCEPT ![w] = "publish"]
    /\ UNCHANGED <<log, wlo, whi, wsent, subscriber, listener, replayer, history, budget>>

\* Mutation: what the cursor says was delivered is not sent.
PublishSend_Checks(w, s) ==
    /\ wpc[w] = "publish" /\ wsent[w] = None /\ s \in wtodo[w]
    /\ wtodo' = [wtodo EXCEPT ![w] = @ \ {s}]
    /\ \/ last[s] < whi[w] /\ Send(s, wlo[w], whi[w]) /\ wsent' = [wsent EXCEPT ![w] = s]
       \/ last[s] >= whi[w] /\ UNCHANGED <<queued, sent, refused, wsent>>
       \/ Refuse(s, wlo[w], whi[w]) /\ UNCHANGED wsent
    /\ UNCHANGED <<log, wpc, wlo, whi, spc, last, listener, replayer, from, since, budget>>

PublishSend(w, s) ==
    /\ wpc[w] = "publish" /\ wsent[w] = None /\ s \in wtodo[w]
    /\ wtodo' = [wtodo EXCEPT ![w] = @ \ {s}]
    /\ \/ Send(s, wlo[w], whi[w]) /\ wsent' = [wsent EXCEPT ![w] = s]
       \/ Refuse(s, wlo[w], whi[w]) /\ UNCHANGED wsent
    /\ UNCHANGED <<log, wpc, wlo, whi, spc, last, listener, replayer, from, since, budget>>

PublishAdvance(w) ==
    /\ wpc[w] = "publish" /\ wsent[w] # None
    /\ advance(wsent[w], whi[w])
    /\ wsent' = [wsent EXCEPT ![w] = None]
    /\ UNCHANGED <<log, wpc, wlo, whi, wtodo, spc, queued, listener, replayer, history,
                   budget>>

Published(w) == wpc[w] = "publish" /\ wsent[w] = None /\ wtodo[w] = {}

\* The doorbell rings at every node that is listening, the writer's included.
emitNotify(w) ==
    /\ Published(w)
    /\ inbox' = [n \in Nodes |-> IF n \in listening THEN Append(inbox[n], whi[w]) ELSE inbox[n]]
    /\ wpc' = [wpc EXCEPT ![w] = "idle"]
    /\ UNCHANGED <<log, wlo, whi, wtodo, wsent, subscriber, listening, replayer, history,
                   budget>>

\* The error of pg_notify is ignored.
NotifyError(w) ==
    /\ Published(w) /\ Fault
    /\ wpc' = [wpc EXCEPT ![w] = "idle"]
    /\ UNCHANGED <<log, wlo, whi, wtodo, wsent, subscriber, listener, replayer, history>>

-----------------------------------------------------------------------------
(* Subscribers. *)

\* registerComm starts at the head (at 0 if the query fails) ...
registerComm(s) ==
    /\ spc[s] = "off"
    /\ spc' = [spc EXCEPT ![s] = "registering"]
    /\ \/ last' = [last EXCEPT ![s] = head] /\ from' = [from EXCEPT ![s] = head]
          /\ UNCHANGED budget
       \/ Fault /\ UNCHANGED <<last, from>>
    /\ UNCHANGED <<log, writers, queued, listener, replayer, since, sent, refused>>

\* ... and then enters the list of subscribers.
Register(s) ==
    /\ spc[s] = "registering"
    /\ spc' = [spc EXCEPT ![s] = "on"]
    /\ since' = [since EXCEPT ![s] = head]
    /\ UNCHANGED <<log, writers, last, queued, listener, replayer, from, sent, refused,
                   budget>>

\* The session reads from its channel.
Receive(s) ==
    /\ spc[s] = "on" /\ queued[s] > 0
    /\ queued' = [queued EXCEPT ![s] = @ - 1]
    /\ UNCHANGED <<log, writers, spc, last, listener, replayer, history, budget>>

\* Comm.Close: who copied the list before may still send.
Close(s) ==
    /\ spc[s] = "on"
    /\ spc' = [spc EXCEPT ![s] = "closed"]
    /\ UNCHANGED <<log, writers, last, queued, listener, replayer, history, budget>>

-----------------------------------------------------------------------------
(* The coordinator of a node. *)

MinCursor(B) == CHOOSE c \in {last[s] : s \in B} : \A s \in B : c <= last[s]

\* onRemoteChange copies the list and looks for subscribers behind seq.
Select(n, seq) ==
    LET B == {s \in Registered(n) : last[s] < seq} IN
    /\ behind' = [behind EXCEPT ![n] = B]
    /\ IF B = {} THEN cpc' = [cpc EXCEPT ![n] = "wait"] /\ UNCHANGED cmin
       ELSE /\ cpc' = [cpc EXCEPT ![n] = "replay"]
            /\ cmin' = [cmin EXCEPT ![n] = MinCursor(B)]

onRemoteChange(n) ==
    /\ cpc[n] = "wait" /\ n \in listening /\ inbox[n] # <<>>
    /\ Select(n, Head(inbox[n]))
    /\ inbox' = [inbox EXCEPT ![n] = Tail(@)]
    /\ UNCHANGED <<log, writers, subscriber, listening, chead, csub, ccur, history, budget>>

\* One query: the entries past the smallest cursor.
replayWithSeqs(n) ==
    /\ cpc[n] = "replay"
    /\ chead' = [chead EXCEPT ![n] = head]
    /\ cpc' = [cpc EXCEPT ![n] = "fan"]
    /\ UNCHANGED <<log, writers, subscriber, listener, behind, cmin, csub, ccur,
                   history, budget>>

ReplayError(n) ==
    /\ cpc[n] = "replay" /\ Fault
    /\ behind' = [behind EXCEPT ![n] = {}]
    /\ cmin' = [cmin EXCEPT ![n] = 0]
    /\ cpc' = [cpc EXCEPT ![n] = "wait"]
    /\ UNCHANGED <<log, writers, subscriber, listener, chead, csub, ccur, history>>

\* The next subscriber's cursor is read again.
FanRead(n, s) ==
    /\ cpc[n] = "fan" /\ s \in behind[n]
    /\ behind' = [behind EXCEPT ![n] = @ \ {s}]
    /\ csub' = [csub EXCEPT ![n] = s]
    /\ ccur' = [ccur EXCEPT ![n] = last[s]]
    /\ cpc' = [cpc EXCEPT ![n] = "send"]
    /\ UNCHANGED <<log, writers, subscriber, listener, cmin, chead, history, budget>>

\* The replayed entries past the cursor that was read.
Tailed(n) == IF ccur[n] < cmin[n] THEN cmin[n] ELSE ccur[n]

\* Mutation: a full channel advances the cursor, too.
FanSend_AdvancesDropped(n) ==
    /\ cpc[n] = "send"
    /\ \/ /\ Tailed(n) < chead[n]
          /\ \/ Send(csub[n], Tailed(n), chead[n])
             \/ Refuse(csub[n], Tailed(n), chead[n])
          /\ cpc' = [cpc EXCEPT ![n] = "advance"]
       \/ /\ Tailed(n) >= chead[n]
          /\ cpc' = [cpc EXCEPT ![n] = "fan"] /\ UNCHANGED <<queued, sent, refused>>
    /\ UNCHANGED <<log, writers, spc, last, listener, behind, cmin, chead, csub, ccur,
                   from, since, budget>>

\* It is sent the entries past that cursor, if there are any.
FanSend(n) ==
    /\ cpc[n] = "send"
    /\ \/ /\ Tailed(n) < chead[n] /\ Send(csub[n], Tailed(n), chead[n])
          /\ cpc' = [cpc EXCEPT ![n] = "advance"]
       \/ /\ Tailed(n) < chead[n] /\ Refuse(csub[n], Tailed(n), chead[n])
          /\ cpc' = [cpc EXCEPT ![n] = "fan"]
       \/ /\ Tailed(n) >= chead[n]
          /\ cpc' = [cpc EXCEPT ![n] = "fan"] /\ UNCHANGED <<queued, sent, refused>>
    /\ UNCHANGED <<log, writers, spc, last, listener, behind, cmin, chead, csub, ccur,
                   from, since, budget>>

FanAdvance(n) ==
    /\ cpc[n] = "advance"
    /\ advance(csub[n], chead[n])
    /\ cpc' = [cpc EXCEPT ![n] = "fan"]
    /\ UNCHANGED <<log, writers, spc, queued, listener, behind, cmin, chead, csub,
                   ccur, history, budget>>

FanDone(n) ==
    /\ cpc[n] = "fan" /\ behind[n] = {}
    /\ cpc' = [cpc EXCEPT ![n] = "wait"]
    /\ cmin' = [cmin EXCEPT ![n] = 0] /\ chead' = [chead EXCEPT ![n] = 0]
    /\ csub' = [csub EXCEPT ![n] = None] /\ ccur' = [ccur EXCEPT ![n] = 0]
    /\ UNCHANGED <<log, writers, subscriber, listener, behind, history, budget>>

\* WaitForNotification fails: notifications are lost from now on.
ConnectionLost(n) ==
    /\ n \in listening /\ cpc[n] = "wait" /\ drops < MaxDrops
    /\ listening' = listening \ {n}
    /\ inbox' = [inbox EXCEPT ![n] = <<>>]
    /\ drops' = drops + 1
    /\ UNCHANGED <<log, writers, subscriber, replayer, history, txs, faults>>

\* Mutation: no resync after the outage.
superviseListen_NoResync(n) ==
    /\ n \notin listening /\ cpc[n] = "wait"
    /\ listening' = listening \cup {n}
    /\ UNCHANGED <<log, writers, subscriber, inbox, replayer, history, budget>>

\* superviseListen is LISTENing again and goes on to resyncAll.
superviseListen(n) ==
    /\ n \notin listening /\ cpc[n] = "wait"
    /\ listening' = listening \cup {n}
    /\ cpc' = [cpc EXCEPT ![n] = "resync"]
    /\ UNCHANGED <<log, writers, subscriber, inbox, behind, cmin, chead, csub, ccur,
                   history, budget>>

\* resyncAll reads the head (an error skips the account) and replays up to it.
resyncAll(n) ==
    /\ cpc[n] = "resync"
    /\ \/ Select(n, head) /\ UNCHANGED budget
       \/ Fault /\ cpc' = [cpc EXCEPT ![n] = "wait"] /\ UNCHANGED <<behind, cmin>>
    /\ UNCHANGED <<log, writers, subscriber, listener, chead, csub, ccur, history>>

-----------------------------------------------------------------------------
WriterStep(w) ==
    publish(w) \/ (\E s \in Subs : PublishSend(w, s)) \/ PublishAdvance(w) \/ emitNotify(w)

Coordinate(n) ==
    \/ onRemoteChange(n) \/ replayWithSeqs(n)
    \/ \E s \in Subs : FanRead(n, s)
    \/ FanSend(n) \/ FanAdvance(n) \/ FanDone(n)
    \/ superviseListen(n) \/ resyncAll(n)

Next ==
    \/ \E w \in Writers : (\E k \in 0 .. 1 : Tx(w, k)) \/ WriterStep(w) \/ NotifyError(w)
    \/ \E s \in Subs : registerComm(s) \/ Register(s) \/ Receive(s) \/ Close(s)
    \/ \E n \in Coordinated : Coordinate(n) \/ ReplayError(n) \/ ConnectionLost(n)

Spec == Init /\ [][Next]_vars

\* A committed writer publishes, and a coordinator keeps reading its
\* notifications and reconnecting.
Fairness ==
    /\ \A w \in Writers : WF_vars(WriterStep(w))
    /\ \A n \in Coordinated : WF_vars(Coordinate(n))

FairSpec == Spec /\ Fairness

-----------------------------------------------------------------------------
(* Properties. *)

\* Types of the variables: cursors and snapshots stay within the log, and a
\* channel (Comm.Changes) never holds more than its capacity.
TypeOK ==
    /\ home \in Homes
    /\ head \in 0 .. MaxSeq /\ author \in Seq(Nodes) /\ Len(author) = head
    /\ wpc \in [Writers -> {"idle", "snapshot", "publish"}]
    /\ wlo \in [Writers -> 0 .. MaxSeq] /\ whi \in [Writers -> 0 .. MaxSeq]
    /\ wtodo \in [Writers -> SUBSET Subs] /\ wsent \in [Writers -> Subs \cup {None}]
    /\ spc \in [Subs -> {"off", "registering", "on", "closed"}]
    /\ last \in [Subs -> 0 .. MaxSeq] /\ queued \in [Subs -> 0 .. Buf]
    /\ listening \subseteq Coordinated /\ inbox \in [Nodes -> Seq(0 .. MaxSeq)]
    /\ cpc \in [Nodes -> {"wait", "replay", "fan", "send", "advance", "resync"}]
    /\ behind \in [Nodes -> SUBSET Subs]
    /\ cmin \in [Nodes -> 0 .. MaxSeq] /\ chead \in [Nodes -> 0 .. MaxSeq]
    /\ csub \in [Nodes -> Subs \cup {None}] /\ ccur \in [Nodes -> 0 .. MaxSeq]
    /\ from \in [Subs -> 0 .. MaxSeq] /\ since \in [Subs -> 0 .. MaxSeq]
    /\ sent \in [Subs -> Seq(1 .. MaxSeq)] /\ refused \in [Subs -> SUBSET (1 .. MaxSeq)]
    /\ txs \in 0 .. MaxTx /\ drops \in 0 .. MaxDrops /\ faults \in 0 .. MaxFaults

Sent(s) == {sent[s][i] : i \in DOMAIN sent[s]}

\* The entries of a local transaction that publish has yet to send to s.
Pending(s) ==
    UNION {wlo[w] + 1 .. whi[w] : w \in {v \in Writers :
        home[v] = home[s] /\ (wpc[v] = "snapshot" \/ s \in wtodo[v])}}

\* The log position up to which s was sent entries: its cursor, or the end of
\* the replay whose advance is still to come.
Reached(s) ==
    LET n == home[s] IN
    IF cpc[n] = "advance" /\ csub[n] = s THEN chead[n] ELSE last[s]

ReaderNode(n) == \A w \in Writers : home[w] # n

\* On a node that does not write to the account itself, a subscriber is sent
\* every entry past the head it registered at, once and in log order, through
\* lost connections, lost notifications, full channels and failed queries.
ReaderExact ==
    \A s \in Subs : ReaderNode(home[s]) => sent[s] = Interval(from[s], Reached(s))

\* What a writer commits is sent to every subscriber registered on its own
\* node by then, or refused by a full channel: writers publish after they let
\* go of the lock, in any order, and none hides another's entries.
OwnNodeDelivered ==
    \A s \in Subs : spc[s] = "on" =>
      {p \in since[s] + 1 .. head : author[p] = home[s]}
        \subseteq Sent(s) \cup refused[s] \cup Pending(s)

\* On a node that does not write itself, an entry committed after a
\* subscriber was registered is eventually sent to it, also when the
\* listening connection is lost, unless its channel was full or a query failed.
CatchesUp ==
    \A s \in Subs : \A p \in 1 .. MaxSeq :
      (ReaderNode(home[s]) /\ spc[s] = "on" /\ since[s] < p /\ p <= head)
        ~> (p \in Sent(s) \cup refused[s] \/ spc[s] # "on" \/ faults > 0)
=============================================================================

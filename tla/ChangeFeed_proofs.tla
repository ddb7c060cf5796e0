------------------------- MODULE ChangeFeed_proofs -------------------------
(***************************************************************************)
(* Proofs about ChangeFeed, for any nodes, writers, subscribers and        *)
(* placements, any channel capacity and any losses: a subscriber of a node *)
(* that does not write is sent the log from where it registered, and what  *)
(* a node's own writers commit is sent or refused.                         *)
(***************************************************************************)
EXTENDS ChangeFeed, TLAPS, WellFoundedInduction

(* The inductive invariant. *)

\* A subscriber of node n that was in the list when it was copied.
Seen(n, s) == s \in Subs /\ home[s] = n /\ spc[s] \in {"on", "closed"}

\* What publish has in hand: subscribers of the writer's own node, and none
\* before it copied the list and after it has sent to all.
WriterPlaces ==
    \A w \in Writers :
      /\ wpc[w] # "publish" => wtodo[w] = {}
      /\ \A s \in wtodo[w] : Seen(home[w], s)
      /\ wsent[w] # None => Seen(home[w], wsent[w])

\* A cursor starts at the head that was read and only advances.
Cursors ==
    \A s \in Subs : from[s] <= last[s] /\ (spc[s] = "off" => last[s] = from[s])

\* A replay starts at or before the cursors of those it is for; where nobody
\* else advances a cursor, the one that was read is current until the advance.
ReplayPlace(n) ==
    /\ \A s \in behind[n] : Seen(n, s)
    /\ cpc[n] \in {"replay", "fan", "send", "advance"} =>
         \A s \in behind[n] : cmin[n] <= last[s]
    /\ cpc[n] \in {"send", "advance"} => Seen(n, csub[n])
    /\ cpc[n] = "send" =>
         cmin[n] <= ccur[n] /\ (ReaderNode(n) => ccur[n] = last[csub[n]])
    /\ cpc[n] = "advance" /\ ReaderNode(n) => last[csub[n]] <= chead[n]

ReplayPlaces == \A n \in Nodes : ReplayPlace(n)

IInv ==
    TypeOK /\ WriterPlaces /\ Cursors /\ ReplayPlaces /\ ReaderExact /\ OwnNodeDelivered

-----------------------------------------------------------------------------
(* Intervals of the log, and the smallest cursor. *)

\* Two replays that meet are one: what FanSend appends continues what was sent.
LEMMA IntervalJoin ==
  ASSUME NEW lo \in Nat, NEW mid \in Nat, NEW hi \in Nat, lo <= mid, mid <= hi
  PROVE  Interval(lo, mid) \o Interval(mid, hi) = Interval(lo, hi)
  BY DEF Interval

\* A send of lo+1 .. hi is a sequence of positions of the log, and these are its
\* elements.
LEMMA IntervalSeq ==
  ASSUME NEW lo \in 0 .. MaxSeq, NEW hi \in 0 .. MaxSeq
  PROVE  /\ Interval(lo, hi) \in Seq(1 .. MaxSeq)
         /\ \A p \in lo + 1 .. hi : \E i \in DOMAIN Interval(lo, hi) : Interval(lo, hi)[i] = p
  <1>1. Interval(lo, hi) \in Seq(1 .. MaxSeq)
      BY FeedAssumption DEF Interval
  <1>2. ASSUME NEW p \in lo + 1 .. hi
        PROVE  \E i \in DOMAIN Interval(lo, hi) : Interval(lo, hi)[i] = p
    <2>1. p - lo \in 1 .. hi - lo
        OBVIOUS
    <2>2. p - lo \in DOMAIN Interval(lo, hi) /\ Interval(lo, hi)[p - lo] = p
        BY <2>1 DEF Interval
    <2> QED
        BY Zenon, <2>2
  <1> QED
      BY Zenon, <1>1, <1>2

\* Appending to a channel's history keeps what was sent.
LEMMA AppendRange ==
  ASSUME NEW S, NEW a \in Seq(S), NEW b \in Seq(S)
  PROVE  /\ a \o b \in Seq(S)
         /\ \A i \in DOMAIN a : i \in DOMAIN (a \o b) /\ (a \o b)[i] = a[i]
         /\ \A i \in DOMAIN b : \E j \in DOMAIN (a \o b) : (a \o b)[j] = b[i]
  <1>1. a \o b \in Seq(S)
      OBVIOUS
  <1>2. \A i \in DOMAIN a : i \in DOMAIN (a \o b) /\ (a \o b)[i] = a[i]
      OBVIOUS
  <1>3. ASSUME NEW i \in DOMAIN b
        PROVE  \E j \in DOMAIN (a \o b) : (a \o b)[j] = b[i]
    <2>1. Len(a) + i \in DOMAIN (a \o b) /\ (a \o b)[Len(a) + i] = b[i]
        OBVIOUS
    <2> QED
        BY Zenon, <2>1
  <1> QED
      BY Zenon, <1>1, <1>2, <1>3

\* The smallest cursor of a list with somebody behind is one, and no larger than
\* any of them.
LEMMA MinCursorIs ==
  ASSUME TypeOK, NEW B \in SUBSET Subs, B # {}
  PROVE  MinCursor(B) \in 0 .. MaxSeq /\ \A s \in B : MinCursor(B) <= last[s]
  <1> DEFINE T == {last[s] : s \in B}
  <1> DEFINE R == {ss \in Nat \X Nat : ss[1] < ss[2]}
  <1>1. IsWellFoundedOn(R, Nat)
      BY NatLessThanWellFounded, Zenon DEF OpToRel
  <1> HIDE DEF R
  <1>2. last \in [Subs -> 0 .. MaxSeq]
      BY Zenon DEF TypeOK
  <1>3. T \subseteq 0 .. MaxSeq /\ T # {}
      BY Zenon, <1>2
  <1>4. T \subseteq Nat
      BY <1>3, FeedAssumption
  <1>5. PICK c \in T : \A d \in T : ~ (<<d, c>> \in R)
      BY Zenon, <1>1, <1>3, <1>4, WFMin
  <1>6. ASSUME NEW s \in B PROVE c <= last[s]
    <2>1. last[s] \in T /\ c \in Nat /\ last[s] \in Nat
        BY Zenon, <1>4
    <2> HIDE DEF T
    <2>2. last[s] < c => <<last[s], c>> \in R
        BY Zenon, <2>1 DEF R
    <2> QED
        BY <1>5, <2>1, <2>2
  <1>7. \E x \in T : \A s \in B : x <= last[s]
      BY Zenon, <1>6
  <1> QED
      BY Zenon, <1>3, <1>7 DEF MinCursor

-----------------------------------------------------------------------------
(* Type correctness. *)

\* The types of the log, of Tx and publish, of the subscribers, of the LISTEN
\* connections, of onRemoteChange, of the history and of the counters.
LogType ==
    /\ home \in Homes
    /\ head \in 0 .. MaxSeq /\ author \in Seq(Nodes) /\ Len(author) = head

WriterType ==
    /\ wpc \in [Writers -> {"idle", "snapshot", "publish"}]
    /\ wlo \in [Writers -> 0 .. MaxSeq] /\ whi \in [Writers -> 0 .. MaxSeq]
    /\ wtodo \in [Writers -> SUBSET Subs] /\ wsent \in [Writers -> Subs \cup {None}]

SubscriberType ==
    /\ spc \in [Subs -> {"off", "registering", "on", "closed"}]
    /\ last \in [Subs -> 0 .. MaxSeq] /\ queued \in [Subs -> 0 .. Buf]

ListenerType ==
    listening \subseteq Coordinated /\ inbox \in [Nodes -> Seq(0 .. MaxSeq)]

ReplayType ==
    /\ cpc \in [Nodes -> {"wait", "replay", "fan", "send", "advance", "resync"}]
    /\ behind \in [Nodes -> SUBSET Subs]
    /\ cmin \in [Nodes -> 0 .. MaxSeq] /\ chead \in [Nodes -> 0 .. MaxSeq]
    /\ csub \in [Nodes -> Subs \cup {None}] /\ ccur \in [Nodes -> 0 .. MaxSeq]

HistoryType ==
    /\ from \in [Subs -> 0 .. MaxSeq] /\ since \in [Subs -> 0 .. MaxSeq]
    /\ sent \in [Subs -> Seq(1 .. MaxSeq)] /\ refused \in [Subs -> SUBSET (1 .. MaxSeq)]

BudgetType == txs \in 0 .. MaxTx /\ drops \in 0 .. MaxDrops /\ faults \in 0 .. MaxFaults

\* TypeOK is the types of the parts.
LEMMA TypeParts ==
  TypeOK <=> /\ LogType /\ WriterType /\ SubscriberType /\ ListenerType
             /\ ReplayType /\ HistoryType /\ BudgetType
  BY Zenon DEF TypeOK, LogType, WriterType, SubscriberType, ListenerType, ReplayType,
     HistoryType, BudgetType

\* The types of the parts after a step make up TypeOK.
LEMMA TypeAssemble ==
  ASSUME LogType', WriterType', SubscriberType', ListenerType',
         ReplayType', HistoryType', BudgetType'
  PROVE  TypeOK'
  BY Zenon DEF TypeOK, LogType, WriterType, SubscriberType, ListenerType, ReplayType,
     HistoryType, BudgetType

\* The initial state has the types.
LEMMA TypeInit == Init => TypeOK
  <1> SUFFICES ASSUME Init PROVE TypeOK
      OBVIOUS
  <1>1. 0 \in 0 .. MaxSeq /\ 0 \in 0 .. Buf /\ <<>> \in Seq(0 .. MaxSeq)
        /\ <<>> \in Seq(1 .. MaxSeq) /\ <<>> \in Seq(Nodes) /\ Len(<<>>) = 0
      BY FeedAssumption
  <1>2. BudgetType
      BY FeedAssumption DEF Init, BudgetType
  <1>3. LogType /\ WriterType /\ SubscriberType
      BY Zenon, <1>1 DEF Init, LogType, WriterType, SubscriberType
  <1>4. ListenerType /\ ReplayType /\ HistoryType
      BY Zenon, <1>1 DEF Init, ListenerType, ReplayType, HistoryType
  <1> QED
      BY Zenon, <1>2, <1>3, <1>4, TypeParts

\* The send of a range of the log keeps the types of a channel and its history.
LEMMA SendTypes ==
  ASSUME TypeOK, NEW s \in Subs, NEW lo \in 0 .. MaxSeq, NEW hi \in 0 .. MaxSeq,
         Send(s, lo, hi) \/ Refuse(s, lo, hi), UNCHANGED <<spc, last, from, since>>
  PROVE  SubscriberType' /\ HistoryType'
  <1>1. SubscriberType /\ HistoryType
      BY Zenon, TypeParts
  <1>2. CASE Send(s, lo, hi)
    <2>1. queued' \in [Subs -> 0 .. Buf]
        BY <1>1, <1>2, FeedAssumption DEF Send, SubscriberType
    <2>2. sent[s] \o Interval(lo, hi) \in Seq(1 .. MaxSeq)
        BY Zenon, <1>1, IntervalSeq, AppendRange DEF HistoryType
    <2>3. sent' \in [Subs -> Seq(1 .. MaxSeq)]
        BY Zenon, <1>1, <1>2, <2>2 DEF Send, HistoryType
    <2> QED
        BY Zenon, <1>1, <1>2, <2>1, <2>3 DEF Send, SubscriberType, HistoryType
  <1>3. CASE Refuse(s, lo, hi)
    <2>1. lo + 1 .. hi \subseteq 1 .. MaxSeq
        BY FeedAssumption
    <2>2. refused' \in [Subs -> SUBSET (1 .. MaxSeq)]
        BY Zenon, <1>1, <1>3, <2>1 DEF Refuse, HistoryType
    <2> QED
        BY Zenon, <1>1, <1>3, <2>2 DEF Refuse, SubscriberType, HistoryType
  <1> QED
      BY Zenon, <1>2, <1>3

\* So does the advance of a cursor.
LEMMA AdvanceType ==
  ASSUME TypeOK, NEW s \in Subs, NEW hi \in 0 .. MaxSeq, advance(s, hi),
         UNCHANGED <<spc, queued>>
  PROVE  SubscriberType'
  BY Zenon, TypeParts DEF advance, SubscriberType

\* So do the counters of a fault, and what onRemoteChange selects.
LEMMA FaultType ==
  ASSUME TypeOK, Fault \/ UNCHANGED budget
  PROVE  BudgetType'
  BY FeedAssumption, TypeParts DEF Fault, budget, BudgetType

\* onRemoteChange's choice of subscribers keeps the types.
LEMMA SelectTypes ==
  ASSUME TypeOK, NEW n \in Nodes, NEW q, Select(n, q), UNCHANGED <<chead, csub, ccur>>
  PROVE  ReplayType'
  <1> DEFINE B == {s \in Registered(n) : last[s] < q}
  <1>1. ReplayType
      BY Zenon, TypeParts
  <1>2. B \in SUBSET Subs
      BY Zenon DEF Registered
  <1>3. B # {} => MinCursor(B) \in 0 .. MaxSeq
      BY Zenon, <1>2, MinCursorIs
  <1>4. /\ behind' = [behind EXCEPT ![n] = B]
        /\ cpc' \in {[cpc EXCEPT ![n] = "wait"], [cpc EXCEPT ![n] = "replay"]}
        /\ cmin' = cmin \/ (B # {} /\ cmin' = [cmin EXCEPT ![n] = MinCursor(B)])
      BY Zenon DEF Select
  <1> HIDE DEF B
  <1> QED
      BY Zenon, <1>1, <1>2, <1>3, <1>4 DEF ReplayType

\* Every step keeps the types.
LEMMA TypeNext ==
  ASSUME TypeOK, ReplayPlaces, [Next]_vars
  PROVE  TypeOK'
  <1> USE DEF log, writers, subscriber, listener, replayer, history
  <1>0. /\ LogType /\ WriterType /\ SubscriberType /\ ListenerType
        /\ ReplayType /\ HistoryType /\ BudgetType
      BY Zenon, TypeParts
  <1>1. ASSUME UNCHANGED log PROVE LogType'
      BY Zenon, <1>0, <1>1 DEF LogType
  <1>2. ASSUME UNCHANGED writers PROVE WriterType'
      BY Zenon, <1>0, <1>2 DEF WriterType
  <1>3. ASSUME UNCHANGED subscriber PROVE SubscriberType'
      BY Zenon, <1>0, <1>3 DEF SubscriberType
  <1>4. ASSUME UNCHANGED listener PROVE ListenerType'
      BY Zenon, <1>0, <1>4 DEF ListenerType
  <1>5. ASSUME UNCHANGED replayer PROVE ReplayType'
      BY Zenon, <1>0, <1>5 DEF ReplayType
  <1>6. ASSUME UNCHANGED history PROVE HistoryType'
      BY Zenon, <1>0, <1>6 DEF HistoryType
  <1>7. Coordinated \subseteq Nodes /\ 0 \in 0 .. MaxSeq
      BY FeedAssumption
  <1>8. ASSUME NEW w \in Writers, NEW k \in 0 .. 1, Tx(w, k) PROVE TypeOK'
    <2>1. home[w] \in Nodes
        BY Zenon, <1>0, FeedAssumption DEF LogType
    <2>2. /\ [i \in 1 .. k |-> home[w]] \in Seq(Nodes)
          /\ Len([i \in 1 .. k |-> home[w]]) = k
        BY <2>1
    <2>3. LogType'
        BY <1>0, <1>8, <2>2, FeedAssumption DEF LogType, Tx
    <2>4. head \in 0 .. MaxSeq /\ head + k \in 0 .. MaxSeq
        BY <1>0, <1>8, FeedAssumption DEF LogType, Tx
    <2>5. WriterType'
        BY Zenon, <1>0, <1>8, <2>4 DEF WriterType, Tx
    <2>6. BudgetType'
        BY <1>0, <1>8, FeedAssumption DEF BudgetType, Tx
    <2> QED
        BY Zenon, <1>3, <1>4, <1>5, <1>6, <1>8, <2>3, <2>5, <2>6, TypeAssemble DEF Tx
  <1>9. ASSUME NEW w \in Writers, publish(w) PROVE TypeOK'
    <2>1. WriterType'
        BY Zenon, <1>0, <1>9 DEF WriterType, publish, Registered
    <2> QED
        BY Zenon, <1>1, <1>3, <1>4, <1>5, <1>6, <1>9, <2>1, FaultType, TypeAssemble DEF publish
  <1>10. ASSUME NEW w \in Writers, NEW s \in Subs, PublishSend(w, s) PROVE TypeOK'
    <2>1. WriterType'
        BY Zenon, <1>0, <1>10 DEF WriterType, PublishSend
    <2>2. wlo[w] \in 0 .. MaxSeq /\ whi[w] \in 0 .. MaxSeq
        BY Zenon, <1>0 DEF WriterType
    <2>3. SubscriberType' /\ HistoryType'
        BY Zenon, <1>10, <2>2, SendTypes DEF PublishSend
    <2> QED
        BY Zenon, <1>1, <1>4, <1>5, <1>10, <2>1, <2>3, FaultType, TypeAssemble DEF PublishSend
  <1>11. ASSUME NEW w \in Writers, PublishAdvance(w) PROVE TypeOK'
    <2>1. WriterType'
        BY Zenon, <1>0, <1>11 DEF WriterType, PublishAdvance
    <2>2. wsent[w] \in Subs /\ whi[w] \in 0 .. MaxSeq
        BY Zenon, <1>0, <1>11 DEF WriterType, PublishAdvance
    <2>3. SubscriberType'
        BY Zenon, <1>11, <2>2, AdvanceType DEF PublishAdvance
    <2> QED
        BY Zenon, <1>1, <1>4, <1>5, <1>6, <1>11, <2>1, <2>3, FaultType, TypeAssemble
           DEF PublishAdvance
  <1>12. ASSUME NEW w \in Writers, emitNotify(w) \/ NotifyError(w) PROVE TypeOK'
    <2>1. WriterType'
        BY Zenon, <1>0, <1>12 DEF WriterType, emitNotify, NotifyError
    <2>2. whi[w] \in 0 .. MaxSeq
        BY Zenon, <1>0 DEF WriterType
    <2>3. \A n \in Nodes : Append(inbox[n], whi[w]) \in Seq(0 .. MaxSeq)
        BY <1>0, <2>2 DEF ListenerType
    <2>4. ListenerType'
        BY Zenon, <1>0, <1>12, <2>3 DEF ListenerType, emitNotify, NotifyError
    <2> QED
        BY Zenon, <1>1, <1>3, <1>5, <1>6, <1>12, <2>1, <2>4, FaultType, TypeAssemble
           DEF emitNotify, NotifyError
  <1>13. ASSUME NEW s \in Subs, registerComm(s) PROVE TypeOK'
    <2>0. head \in 0 .. MaxSeq
        BY Zenon, <1>0 DEF LogType
    <2>1. SubscriberType' /\ HistoryType'
      <3>1. spc' \in [Subs -> {"off", "registering", "on", "closed"}] /\ queued' = queued
          BY Zenon, <1>0, <1>13 DEF SubscriberType, registerComm
      <3>2. last' \in [Subs -> 0 .. MaxSeq]
          BY Zenon, <1>0, <1>13, <2>0 DEF SubscriberType, registerComm
      <3>3. HistoryType'
          BY Zenon, <1>0, <1>13, <2>0 DEF HistoryType, registerComm
      <3> QED
          BY Zenon, <1>0, <3>1, <3>2, <3>3 DEF SubscriberType
    <2>2. BudgetType'
        BY Zenon, <1>13, FaultType DEF registerComm
    <2> QED
        BY Zenon, <1>1, <1>2, <1>4, <1>5, <1>13, <2>1, <2>2, TypeAssemble DEF registerComm
  <1>14. ASSUME NEW s \in Subs, Register(s) \/ Receive(s) \/ Close(s) PROVE TypeOK'
    <2>1. HistoryType'
        BY Zenon, <1>0, <1>14 DEF HistoryType, LogType, Register, Receive, Close
    <2>2. queued[s] > 0 => queued[s] - 1 \in 0 .. Buf
        BY <1>0, FeedAssumption DEF SubscriberType
    <2>3. SubscriberType'
        BY Zenon, <1>0, <1>14, <2>2 DEF SubscriberType, Register, Receive, Close
    <2> QED
        BY Zenon, <1>1, <1>2, <1>4, <1>5, <1>14, <2>1, <2>3, FaultType, TypeAssemble
           DEF Register, Receive, Close
  <1>15. ASSUME NEW n \in Nodes, onRemoteChange(n) PROVE TypeOK'
    <2>1. ReplayType'
        BY Zenon, <1>15, SelectTypes DEF onRemoteChange
    <2>2. Tail(inbox[n]) \in Seq(0 .. MaxSeq)
        BY <1>0, <1>15 DEF ListenerType, onRemoteChange
    <2>3. ListenerType'
        BY Zenon, <1>0, <1>15, <2>2 DEF ListenerType, onRemoteChange
    <2> QED
        BY Zenon, <1>1, <1>2, <1>3, <1>6, <1>15, <2>1, <2>3, FaultType, TypeAssemble
           DEF onRemoteChange
  <1>16. ASSUME NEW n \in Nodes, resyncAll(n) PROVE TypeOK'
    <2>1. ReplayType'
        BY Zenon, <1>0, <1>16, SelectTypes DEF resyncAll, ReplayType
    <2>2. BudgetType'
        BY Zenon, <1>16, FaultType DEF resyncAll
    <2> QED
        BY Zenon, <1>1, <1>2, <1>3, <1>4, <1>6, <1>16, <2>1, <2>2, TypeAssemble DEF resyncAll
  <1>17. ASSUME NEW n \in Nodes, replayWithSeqs(n) \/ ReplayError(n) \/ FanDone(n)
         PROVE  TypeOK'
    <2>1. ReplayType'
      <3>1. CASE replayWithSeqs(n)
          BY Zenon, <1>0, <3>1 DEF ReplayType, LogType, replayWithSeqs
      <3>2. CASE ReplayError(n)
          BY Zenon, <1>0, <1>7, <3>2 DEF ReplayType, ReplayError
      <3>3. CASE FanDone(n)
          BY Zenon, <1>0, <1>7, <3>3 DEF ReplayType, FanDone
      <3> QED
          BY Zenon, <1>17, <3>1, <3>2, <3>3
    <2> QED
        BY Zenon, <1>1, <1>2, <1>3, <1>4, <1>6, <1>17, <2>1, FaultType, TypeAssemble
           DEF replayWithSeqs, ReplayError, FanDone
  <1>18. ASSUME NEW n \in Nodes, NEW s \in Subs, FanRead(n, s) PROVE TypeOK'
    <2>1. ReplayType'
        BY Zenon, <1>0, <1>18 DEF ReplayType, SubscriberType, FanRead
    <2> QED
        BY Zenon, <1>1, <1>2, <1>3, <1>4, <1>6, <1>18, <2>1, FaultType, TypeAssemble DEF FanRead
  <1>19. ASSUME NEW n \in Nodes, FanSend(n) PROVE TypeOK'
    <2>1. csub[n] \in Subs
        BY Zenon, <1>19 DEF FanSend, ReplayPlaces, ReplayPlace, Seen
    <2>2. Tailed(n) \in 0 .. MaxSeq /\ chead[n] \in 0 .. MaxSeq
        BY Zenon, <1>0 DEF ReplayType, Tailed
    <2>3. SubscriberType' /\ HistoryType'
      <3>1. CASE Send(csub[n], Tailed(n), chead[n]) \/ Refuse(csub[n], Tailed(n), chead[n])
          BY Zenon, <1>19, <2>1, <2>2, <3>1, SendTypes DEF FanSend
      <3>2. CASE UNCHANGED <<queued, sent, refused>>
          BY Zenon, <1>3, <1>6, <1>19, <3>2 DEF FanSend
      <3> QED
          BY Zenon, <1>19, <3>1, <3>2 DEF FanSend
    <2>4. ReplayType'
        BY Zenon, <1>0, <1>19 DEF ReplayType, FanSend
    <2> QED
        BY Zenon, <1>1, <1>2, <1>4, <1>19, <2>3, <2>4, FaultType, TypeAssemble DEF FanSend
  <1>20. ASSUME NEW n \in Nodes, FanAdvance(n) PROVE TypeOK'
    <2>1. csub[n] \in Subs
        BY Zenon, <1>20 DEF FanAdvance, ReplayPlaces, ReplayPlace, Seen
    <2>2. ReplayType' /\ chead[n] \in 0 .. MaxSeq
        BY Zenon, <1>0, <1>20 DEF ReplayType, FanAdvance
    <2>3. SubscriberType'
        BY Zenon, <1>20, <2>1, <2>2, AdvanceType DEF FanAdvance
    <2> QED
        BY Zenon, <1>1, <1>2, <1>4, <1>6, <1>20, <2>2, <2>3, FaultType, TypeAssemble
           DEF FanAdvance
  <1>21. ASSUME NEW n \in Coordinated, ConnectionLost(n) \/ superviseListen(n) PROVE TypeOK'
    <2>1. <<>> \in Seq(0 .. MaxSeq)
        OBVIOUS
    <2>2. ListenerType'
        BY Zenon, <1>0, <1>21, <2>1 DEF ListenerType, ConnectionLost, superviseListen
    <2>3. ReplayType'
        BY Zenon, <1>0, <1>21 DEF ReplayType, ConnectionLost, superviseListen
    <2>4. BudgetType'
      <3>1. CASE ConnectionLost(n)
          BY <1>0, <3>1, FeedAssumption DEF BudgetType, ConnectionLost
      <3>2. CASE superviseListen(n)
          BY Zenon, <3>2, FaultType DEF superviseListen
      <3> QED
          BY Zenon, <1>21, <3>1, <3>2
    <2> QED
        BY Zenon, <1>1, <1>2, <1>3, <1>6, <1>21, <2>2, <2>3, <2>4, TypeAssemble
           DEF ConnectionLost, superviseListen
  <1>22. ASSUME UNCHANGED vars PROVE TypeOK'
      BY Zenon, <1>1, <1>2, <1>3, <1>4, <1>5, <1>6, <1>22, FaultType, TypeAssemble DEF vars
  <1> QED
    <2>1. CASE \E w \in Writers : (\E k \in 0 .. 1 : Tx(w, k)) \/ WriterStep(w) \/ NotifyError(w)
        BY Zenon, <2>1, <1>8, <1>9, <1>10, <1>11, <1>12 DEF WriterStep
    <2>2. CASE \E s \in Subs : registerComm(s) \/ Register(s) \/ Receive(s) \/ Close(s)
        BY Zenon, <2>2, <1>13, <1>14
    <2>3. CASE \E n \in Coordinated : Coordinate(n) \/ ReplayError(n) \/ ConnectionLost(n)
        BY Zenon, <2>3, <1>7, <1>15, <1>16, <1>17, <1>18, <1>19, <1>20, <1>21 DEF Coordinate
    <2> QED
        BY Zenon, <1>22, <2>1, <2>2, <2>3 DEF Next

-----------------------------------------------------------------------------
(* Lists of subscribers, and cursors. *)

\* Handlers and sessions stay on their node.
LEMMA HomeNext ==
  ASSUME [Next]_vars
  PROVE  home' = home
  <1>1. CASE \E w \in Writers : (\E k \in 0 .. 1 : Tx(w, k)) \/ WriterStep(w) \/ NotifyError(w)
      BY Zenon, <1>1 DEF Tx, WriterStep, NotifyError, publish, PublishSend, PublishAdvance,
         emitNotify, log
  <1>2. CASE \E s \in Subs : registerComm(s) \/ Register(s) \/ Receive(s) \/ Close(s)
      BY Zenon, <1>2 DEF registerComm, Register, Receive, Close, log
  <1>3. CASE \E n \in Coordinated : Coordinate(n) \/ ReplayError(n) \/ ConnectionLost(n)
      BY Zenon, <1>3 DEF Coordinate, ReplayError, ConnectionLost, onRemoteChange,
         replayWithSeqs, FanRead, FanSend, FanAdvance, FanDone, superviseListen, resyncAll, log
  <1> QED
      BY Zenon, <1>1, <1>2, <1>3 DEF Next, vars, log

\* Once registered, a session is on or closed.
LEMMA SeenNext ==
  ASSUME TypeOK, [Next]_vars
  PROVE  \A n \in Nodes : \A s : Seen(n, s) => Seen(n, s)'
  <1>1. ASSUME NEW s \in Subs, spc[s] \in {"on", "closed"}
        PROVE  spc'[s] \in {"on", "closed"}
    <2>1. spc \in [Subs -> {"off", "registering", "on", "closed"}]
        BY Zenon DEF TypeOK
    <2>2. CASE UNCHANGED spc
        BY Zenon, <1>1, <2>2
    <2>3. ASSUME NEW t \in Subs, registerComm(t) \/ Register(t) \/ Close(t)
          PROVE  spc'[s] \in {"on", "closed"}
        BY Zenon, <1>1, <2>1, <2>3 DEF registerComm, Register, Close
    <2>4. CASE \E w \in Writers : (\E k \in 0 .. 1 : Tx(w, k)) \/ WriterStep(w) \/ NotifyError(w)
        BY Zenon, <2>2, <2>4 DEF Tx, WriterStep, NotifyError, publish, PublishSend,
           PublishAdvance, emitNotify, subscriber
    <2>5. CASE \E n \in Coordinated : Coordinate(n) \/ ReplayError(n) \/ ConnectionLost(n)
        BY Zenon, <2>2, <2>5 DEF Coordinate, ReplayError, ConnectionLost, onRemoteChange,
           replayWithSeqs, FanRead, FanSend, FanAdvance, FanDone, superviseListen, resyncAll,
           subscriber
    <2> QED
        BY Zenon, <2>2, <2>3, <2>4, <2>5 DEF Next, vars, subscriber, Receive
  <1> QED
      BY Zenon, <1>1, HomeNext DEF Seen

\* Every step keeps WriterPlaces.
LEMMA WriterPlacesNext ==
  ASSUME TypeOK, WriterPlaces, [Next]_vars
  PROVE  WriterPlaces'
  <1>0. /\ WriterType /\ home' = home
        /\ \A w \in Writers : \A s : Seen(home[w], s) => Seen(home[w], s)'
    <2>1. WriterType /\ LogType
        BY Zenon, TypeParts
    <2>2. \A w \in Writers : home[w] \in Nodes
        BY Zenon, <2>1, FeedAssumption DEF LogType
    <2> QED
        BY Zenon, <2>1, <2>2, HomeNext, SeenNext
  <1>1. ASSUME UNCHANGED <<wpc, wtodo, wsent>> PROVE WriterPlaces'
      BY Zenon, <1>0, <1>1 DEF WriterPlaces
  <1>2. ASSUME NEW w \in Writers, NEW k \in 0 .. 1, Tx(w, k) PROVE WriterPlaces'
      BY Zenon, <1>0, <1>2 DEF WriterPlaces, WriterType, Tx
  <1>3. ASSUME NEW w \in Writers, publish(w) PROVE WriterPlaces'
    <2>1. \A s \in Registered(home[w]) : Seen(home[w], s)
        BY Zenon DEF Registered, Seen
    <2> QED
        BY Zenon, <1>0, <1>3, <2>1 DEF WriterPlaces, WriterType, publish
  <1>4. ASSUME NEW w \in Writers, NEW s \in Subs, PublishSend(w, s) PROVE WriterPlaces'
      BY Zenon, <1>0, <1>4 DEF WriterPlaces, WriterType, PublishSend
  <1>5. ASSUME NEW w \in Writers, PublishAdvance(w) PROVE WriterPlaces'
      BY Zenon, <1>0, <1>5 DEF WriterPlaces, WriterType, PublishAdvance
  <1>6. ASSUME NEW w \in Writers, emitNotify(w) \/ NotifyError(w) PROVE WriterPlaces'
      BY Zenon, <1>0, <1>6 DEF WriterPlaces, WriterType, emitNotify, NotifyError, Published
  <1>7. CASE \E s \in Subs : registerComm(s) \/ Register(s) \/ Receive(s) \/ Close(s)
      BY Zenon, <1>1, <1>7 DEF registerComm, Register, Receive, Close, writers
  <1>8. CASE \E n \in Coordinated : Coordinate(n) \/ ReplayError(n) \/ ConnectionLost(n)
      BY Zenon, <1>1, <1>8 DEF Coordinate, ReplayError, ConnectionLost, onRemoteChange,
         replayWithSeqs, FanRead, FanSend, FanAdvance, FanDone, superviseListen, resyncAll,
         writers
  <1> QED
      BY Zenon, <1>1, <1>2, <1>3, <1>4, <1>5, <1>6, <1>7, <1>8
         DEF Next, WriterStep, vars, writers

\* What an advance does to the cursors.
LEMMA AdvanceEffect ==
  ASSUME TypeOK, NEW s \in Subs, NEW q \in 0 .. MaxSeq, advance(s, q)
  PROVE  /\ \A t \in Subs : t # s => last'[t] = last[t]
         /\ last'[s] \in 0 .. MaxSeq /\ last[s] <= last'[s]
         /\ last[s] <= q => last'[s] = q
  <1>1. last \in [Subs -> 0 .. MaxSeq]
      BY Zenon DEF TypeOK
  <1> QED
      BY <1>1, FeedAssumption DEF advance

\* Who moves a cursor: registerComm, publish and onRemoteChange.
LEMMA CursorMoves ==
  ASSUME [Next]_vars
  PROVE  \/ UNCHANGED <<last, from>>
         \/ \E s \in Subs : registerComm(s)
         \/ \E w \in Writers : PublishAdvance(w)
         \/ \E n \in Coordinated : FanAdvance(n)
  <1>1. ASSUME NEW w \in Writers,
               (\E k \in 0 .. 1 : Tx(w, k)) \/ WriterStep(w) \/ NotifyError(w)
        PROVE  UNCHANGED <<last, from>> \/ PublishAdvance(w)
      BY Zenon, <1>1 DEF Tx, WriterStep, NotifyError, publish, PublishSend, emitNotify,
         subscriber, history
  <1>2. ASSUME NEW s \in Subs, registerComm(s) \/ Register(s) \/ Receive(s) \/ Close(s)
        PROVE  UNCHANGED <<last, from>> \/ registerComm(s)
      BY Zenon, <1>2 DEF Register, Receive, Close, history
  <1>3. ASSUME NEW n \in Coordinated, Coordinate(n) \/ ReplayError(n) \/ ConnectionLost(n)
        PROVE  UNCHANGED <<last, from>> \/ FanAdvance(n)
      BY Zenon, <1>3 DEF Coordinate, ReplayError, ConnectionLost, onRemoteChange,
         replayWithSeqs, FanRead, FanSend, FanDone, superviseListen, resyncAll, subscriber,
         history
  <1> QED
      BY Zenon, <1>1, <1>2, <1>3 DEF Next, vars, subscriber, history

\* After registerComm a cursor never moves back, and on a node without writers
\* only the coordinator moves it.
LEMMA CursorsGrow ==
  ASSUME TypeOK, WriterPlaces, ReplayPlaces, [Next]_vars, NEW s \in Subs
  PROVE  \/ registerComm(s)
         \/ /\ from'[s] = from[s] /\ last[s] <= last'[s]
            /\ \/ last'[s] = last[s]
               \/ /\ spc[s] \in {"on", "closed"}
                  /\ \/ ~ReaderNode(home[s])
                     \/ FanAdvance(home[s]) /\ csub[home[s]] = s
  <1>1. /\ last \in [Subs -> 0 .. MaxSeq] /\ whi \in [Writers -> 0 .. MaxSeq]
        /\ chead \in [Nodes -> 0 .. MaxSeq] /\ Coordinated \subseteq Nodes
        /\ from \in [Subs -> 0 .. MaxSeq]
      BY Zenon, FeedAssumption DEF TypeOK
  <1>2. \A x : x = last[s] => last[s] <= x
      BY <1>1, FeedAssumption
  <1>3. CASE UNCHANGED <<last, from>>
      BY Zenon, <1>2, <1>3
  <1>4. ASSUME NEW t \in Subs, registerComm(t), t # s
        PROVE  last'[s] = last[s] /\ from'[s] = from[s]
      BY Zenon, <1>1, <1>4 DEF registerComm
  <1>5. ASSUME NEW w \in Writers, PublishAdvance(w)
        PROVE  /\ from'[s] = from[s] /\ last[s] <= last'[s]
               /\ \/ last'[s] = last[s]
                  \/ home[w] = home[s] /\ spc[s] \in {"on", "closed"}
    <2>1. Seen(home[w], wsent[w]) /\ advance(wsent[w], whi[w]) /\ from' = from
        BY Zenon, <1>5 DEF WriterPlaces, PublishAdvance, history
    <2>2. /\ wsent[w] \in Subs /\ home[wsent[w]] = home[w] /\ whi[w] \in 0 .. MaxSeq
          /\ spc[wsent[w]] \in {"on", "closed"}
        BY Zenon, <1>1, <2>1 DEF Seen
    <2> QED
        BY Zenon, <1>2, <2>1, <2>2, AdvanceEffect
  <1>6. ASSUME NEW n \in Coordinated, FanAdvance(n)
        PROVE  /\ from'[s] = from[s] /\ last[s] <= last'[s]
               /\ \/ last'[s] = last[s]
                  \/ n = home[s] /\ csub[n] = s /\ spc[s] \in {"on", "closed"}
    <2>1. Seen(n, csub[n]) /\ advance(csub[n], chead[n]) /\ from' = from
        BY Zenon, <1>1, <1>6 DEF ReplayPlaces, ReplayPlace, FanAdvance, history
    <2>2. /\ csub[n] \in Subs /\ home[csub[n]] = n /\ chead[n] \in 0 .. MaxSeq
          /\ spc[csub[n]] \in {"on", "closed"}
        BY Zenon, <1>1, <2>1 DEF Seen
    <2> QED
        BY Zenon, <1>2, <2>1, <2>2, AdvanceEffect
  <1> QED
      BY Zenon, <1>2, <1>3, <1>4, <1>5, <1>6, CursorMoves DEF ReaderNode

\* A session does not go back to before it registered.
LEMMA OffBefore ==
  ASSUME TypeOK, [Next]_vars, NEW s \in Subs, spc'[s] = "off"
  PROVE  spc[s] = "off" /\ ~registerComm(s)
  <1>1. spc \in [Subs -> {"off", "registering", "on", "closed"}]
      BY Zenon DEF TypeOK
  <1> SUFFICES spc[s] = "off"
      BY Zenon, <1>1 DEF registerComm
  <1>2. ASSUME NEW t \in Subs, registerComm(t) \/ Register(t) \/ Close(t) PROVE spc[s] = "off"
      BY Zenon, <1>1, <1>2 DEF registerComm, Register, Close
  <1>3. CASE UNCHANGED spc
      BY Zenon, <1>3
  <1>4. CASE \E w \in Writers : (\E k \in 0 .. 1 : Tx(w, k)) \/ WriterStep(w) \/ NotifyError(w)
      BY Zenon, <1>3, <1>4 DEF Tx, WriterStep, NotifyError, publish, PublishSend,
         PublishAdvance, emitNotify, subscriber
  <1>5. CASE \E n \in Coordinated : Coordinate(n) \/ ReplayError(n) \/ ConnectionLost(n)
      BY Zenon, <1>3, <1>5 DEF Coordinate, ReplayError, ConnectionLost, onRemoteChange,
         replayWithSeqs, FanRead, FanSend, FanAdvance, FanDone, superviseListen, resyncAll,
         subscriber
  <1> QED
      BY Zenon, <1>2, <1>3, <1>4, <1>5 DEF Next, vars, subscriber, Receive

\* Every step keeps Cursors.
LEMMA CursorsNext ==
  ASSUME TypeOK, WriterPlaces, ReplayPlaces, Cursors, [Next]_vars
  PROVE  Cursors'
  <1> SUFFICES ASSUME NEW s \in Subs
               PROVE  from'[s] <= last'[s] /\ (spc'[s] = "off" => last'[s] = from'[s])
      BY Zenon DEF Cursors
  <1>1. /\ last \in [Subs -> 0 .. MaxSeq] /\ from \in [Subs -> 0 .. MaxSeq]
        /\ head \in 0 .. MaxSeq
        /\ from[s] <= last[s] /\ (spc[s] = "off" => last[s] = from[s])
      BY Zenon DEF TypeOK, Cursors
  <1>2. last'[s] \in 0 .. MaxSeq
      BY Zenon, TypeNext DEF TypeOK
  <1>3. CASE registerComm(s)
    <2>1. \/ last'[s] = head /\ from'[s] = head
          \/ last'[s] = last[s] /\ from'[s] = from[s]
        BY Zenon, <1>1, <1>3 DEF registerComm
    <2>2. head <= head
        BY <1>1, FeedAssumption
    <2> QED
        BY Zenon, <1>1, <1>3, <2>1, <2>2, OffBefore
  <1>4. CASE from'[s] = from[s] /\ last[s] <= last'[s]
    <2>1. from'[s] <= last'[s]
        BY <1>1, <1>2, <1>4, FeedAssumption
    <2>2. spc'[s] = "off" => last'[s] = from'[s]
        BY Zenon, <1>1, <1>4, OffBefore, CursorsGrow
    <2> QED
        BY Zenon, <2>1, <2>2
  <1> QED
      BY Zenon, <1>3, <1>4, CursorsGrow

\* The steps of others keep the place of a coordinator.
LEMMA PlaceKept ==
  ASSUME TypeOK, WriterPlaces, ReplayPlaces, [Next]_vars, NEW n \in Nodes,
         cpc'[n] = cpc[n], behind'[n] = behind[n], cmin'[n] = cmin[n],
         chead'[n] = chead[n], csub'[n] = csub[n], ccur'[n] = ccur[n]
  PROVE  ReplayPlace(n)'
  <1>1. ReplayPlace(n) /\ (ReplayPlace(n) => \A s \in behind[n] : Seen(n, s))
      BY Zenon DEF ReplayPlaces, ReplayPlace
  <1>2. home' = home /\ ReplayType /\ SubscriberType /\ SubscriberType'
    <2>1. TypeOK'
        BY Zenon, TypeNext
    <2> QED
        BY Zenon, <2>1, HomeNext, TypeParts DEF TypeOK, SubscriberType
  <1>3. ReaderNode(n)' <=> ReaderNode(n)
      BY Zenon, <1>2 DEF ReaderNode
  <1>4. ASSUME NEW s, Seen(n, s)
        PROVE  /\ Seen(n, s)' /\ last[s] \in 0 .. MaxSeq /\ last'[s] \in 0 .. MaxSeq
               /\ last[s] <= last'[s] /\ (ReaderNode(n) => last'[s] = last[s])
    <2>1. s \in Subs /\ home[s] = n /\ spc[s] \in {"on", "closed"} /\ ~registerComm(s)
        BY Zenon, <1>4 DEF Seen, registerComm
    <2>2. ~FanAdvance(n)
        BY Zenon, <1>2 DEF FanAdvance, ReplayType
    <2> QED
        BY Zenon, <1>2, <1>4, <2>1, <2>2, SeenNext, CursorsGrow DEF SubscriberType
  <1>5. \A s \in behind'[n] : Seen(n, s)'
      BY Zenon, <1>1, <1>4
  <1>6. cpc'[n] \in {"send", "advance"} => Seen(n, csub[n])'
      BY Zenon, <1>1, <1>4 DEF ReplayPlace
  <1>7. cpc'[n] \in {"replay", "fan", "send", "advance"} =>
          \A s \in behind'[n] : cmin'[n] <= last'[s]
    <2> SUFFICES ASSUME cpc[n] \in {"replay", "fan", "send", "advance"}, NEW s \in behind[n]
                 PROVE  cmin[n] <= last'[s]
        BY Zenon
    <2>1. cmin[n] <= last[s] /\ Seen(n, s) /\ cmin[n] \in 0 .. MaxSeq
        BY Zenon, <1>1, <1>2 DEF ReplayPlace, ReplayType
    <2> QED
        BY <1>4, <2>1, FeedAssumption
  <1>8. cpc'[n] = "send" =>
          cmin'[n] <= ccur'[n] /\ (ReaderNode(n)' => ccur'[n] = last'[csub'[n]])
      BY Zenon, <1>1, <1>3, <1>4 DEF ReplayPlace
  <1>9. cpc'[n] = "advance" /\ ReaderNode(n)' => last'[csub'[n]] <= chead'[n]
      BY Zenon, <1>1, <1>3, <1>4 DEF ReplayPlace
  <1> QED
      BY Zenon, <1>5, <1>6, <1>7, <1>8, <1>9 DEF ReplayPlace

\* What onRemoteChange selects has its smallest cursor as the start of the replay.
LEMMA SelectPlace ==
  ASSUME TypeOK, NEW n \in Nodes, NEW q, Select(n, q), UNCHANGED <<home, spc, last>>
  PROVE  ReplayPlace(n)'
  <1> DEFINE B == {s \in Registered(n) : last[s] < q}
  <1>1. ReplayType
      BY Zenon, TypeParts
  <1>2. B \in SUBSET Subs /\ \A s \in B : Seen(n, s)
      BY Zenon DEF Registered, Seen
  <1>3. B # {} => \A s \in B : MinCursor(B) <= last[s]
      BY Zenon, <1>2, MinCursorIs
  <1>4. /\ behind'[n] = B
        /\ \/ cpc'[n] = "wait"
           \/ B # {} /\ cpc'[n] = "replay" /\ cmin'[n] = MinCursor(B)
      BY Zenon, <1>1 DEF Select, ReplayType
  <1>5. \A s \in B : Seen(n, s)'
      BY Zenon, <1>2 DEF Seen
  <1> HIDE DEF B
  <1> QED
      BY Zenon, <1>3, <1>4, <1>5 DEF ReplayPlace

\* Every step keeps ReplayPlaces.
LEMMA ReplayPlacesNext ==
  ASSUME TypeOK, WriterPlaces, ReplayPlaces, [Next]_vars
  PROVE  ReplayPlaces'
  <1>0. ReplayType /\ SubscriberType /\ Coordinated \subseteq Nodes
      BY Zenon, TypeParts, FeedAssumption
  <1>1. ASSUME UNCHANGED replayer PROVE ReplayPlaces'
      BY Zenon, <1>1, PlaceKept DEF ReplayPlaces, replayer
  <1>2. ASSUME NEW n \in Nodes, ReplayPlace(n)',
               \A m \in Nodes \ {n} :
                 /\ cpc'[m] = cpc[m] /\ behind'[m] = behind[m] /\ cmin'[m] = cmin[m]
                 /\ chead'[m] = chead[m] /\ csub'[m] = csub[m] /\ ccur'[m] = ccur[m]
        PROVE  ReplayPlaces'
      BY Zenon, <1>2, PlaceKept DEF ReplayPlaces
  \* The coordinator has no replay under way after this step.
  <1>3. ASSUME NEW n \in Nodes, cpc'[n] \in {"wait", "resync"},
               \A s \in behind'[n] : s \in behind[n]
        PROVE  ReplayPlace(n)'
    <2>1. \A s \in behind'[n] : Seen(n, s)'
        BY Zenon, <1>3, SeenNext DEF ReplayPlaces, ReplayPlace
    <2> QED
        BY Zenon, <1>3, <2>1 DEF ReplayPlace
  \* It goes on with the next subscriber.
  <1>4. ASSUME NEW n \in Nodes, cpc[n] \in {"replay", "send", "advance"}, cpc'[n] = "fan",
               behind'[n] = behind[n], cmin'[n] = cmin[n]
        PROVE  ReplayPlace(n)'
    <2>1. ASSUME NEW s \in behind[n]
          PROVE  Seen(n, s)' /\ cmin[n] <= last'[s]
      <3>1. /\ Seen(n, s) /\ cmin[n] <= last[s] /\ cmin[n] \in 0 .. MaxSeq
            /\ (Seen(n, s) => s \in Subs /\ spc[s] # "off")
          BY Zenon, <1>0, <1>4 DEF ReplayPlaces, ReplayPlace, ReplayType, Seen
      <3>2. last[s] <= last'[s] /\ Seen(n, s)'
          BY Zenon, <3>1, SeenNext, CursorsGrow DEF registerComm
      <3>3. last[s] \in 0 .. MaxSeq /\ last'[s] \in 0 .. MaxSeq
          BY Zenon, <1>0, <3>1, TypeNext DEF SubscriberType, TypeOK
      <3> QED
          BY <3>1, <3>2, <3>3, FeedAssumption
    <2> QED
        BY Zenon, <1>4, <2>1 DEF ReplayPlace
  <1>5. ASSUME NEW n \in Nodes, onRemoteChange(n) PROVE ReplayPlaces'
    <2>1. ReplayPlace(n)'
        BY Zenon, <1>5, SelectPlace DEF onRemoteChange, log, subscriber
    <2> QED
        BY Zenon, <1>0, <1>2, <1>5, <2>1 DEF onRemoteChange, Select, ReplayType
  <1>6. ASSUME NEW n \in Nodes, resyncAll(n) PROVE ReplayPlaces'
    <2>1. CASE Select(n, head)
      <3>1. ReplayPlace(n)'
          BY Zenon, <1>6, <2>1, SelectPlace DEF resyncAll, log, subscriber
      <3> QED
          BY Zenon, <1>0, <1>2, <1>6, <2>1, <3>1 DEF resyncAll, Select, ReplayType
    <2>2. CASE cpc' = [cpc EXCEPT ![n] = "wait"] /\ UNCHANGED <<behind, cmin>>
      <3>1. ReplayPlace(n)'
          BY Zenon, <1>0, <1>3, <2>2 DEF ReplayType
      <3> QED
          BY Zenon, <1>0, <1>2, <1>6, <2>2, <3>1 DEF resyncAll, ReplayType
    <2> QED
        BY Zenon, <1>6, <2>1, <2>2 DEF resyncAll
  <1>7. ASSUME NEW n \in Nodes, ReplayError(n) \/ FanDone(n) \/ superviseListen(n)
        PROVE  ReplayPlaces'
    <2>1. ReplayPlace(n)'
        BY Zenon, <1>0, <1>3, <1>7 DEF ReplayType, ReplayError, FanDone, superviseListen
    <2> QED
        BY Zenon, <1>0, <1>2, <1>7, <2>1 DEF ReplayType, ReplayError, FanDone, superviseListen
  <1>8. ASSUME NEW n \in Nodes, replayWithSeqs(n) \/ FanAdvance(n) PROVE ReplayPlaces'
    <2>1. ReplayPlace(n)'
        BY Zenon, <1>0, <1>4, <1>8 DEF ReplayType, replayWithSeqs, FanAdvance
    <2> QED
        BY Zenon, <1>0, <1>2, <1>8, <2>1 DEF ReplayType, replayWithSeqs, FanAdvance
  <1>9. ASSUME NEW n \in Nodes, NEW s \in Subs, FanRead(n, s) PROVE ReplayPlaces'
    <2>1. /\ cpc'[n] = "send" /\ csub'[n] = s /\ ccur'[n] = last[s] /\ cmin'[n] = cmin[n]
          /\ behind'[n] = behind[n] \ {s} /\ s \in behind[n] /\ last' = last /\ cpc[n] = "fan"
        BY Zenon, <1>0, <1>9 DEF FanRead, ReplayType, subscriber
    <2>2. \A t \in behind[n] : Seen(n, t)' /\ cmin[n] <= last[t]
        BY Zenon, <2>1, SeenNext DEF ReplayPlaces, ReplayPlace
    <2>3. ReplayPlace(n)'
        BY Zenon, <2>1, <2>2 DEF ReplayPlace
    <2> QED
        BY Zenon, <1>0, <1>2, <1>9, <2>3 DEF ReplayType, FanRead
  <1>10. ASSUME NEW n \in Nodes, FanSend(n) PROVE ReplayPlaces'
    <2>1. /\ cpc[n] = "send" /\ last' = last /\ behind' = behind /\ cmin' = cmin
          /\ chead' = chead /\ csub' = csub /\ home' = home
          /\ \/ cpc'[n] = "fan"
             \/ cpc'[n] = "advance" /\ Tailed(n) < chead[n]
        BY Zenon, <1>0, <1>10 DEF FanSend, ReplayType, log
    <2>2. CASE cpc'[n] = "fan"
      <3>1. ReplayPlace(n)'
          BY Zenon, <1>4, <2>1, <2>2
      <3> QED
          BY Zenon, <1>0, <1>2, <1>10, <3>1 DEF ReplayType, FanSend
    <2>3. CASE cpc'[n] = "advance" /\ Tailed(n) < chead[n]
      <3>1. /\ \A t \in behind[n] : Seen(n, t)' /\ cmin[n] <= last[t]
            /\ Seen(n, csub[n])' /\ csub[n] \in Subs
            /\ cmin[n] <= ccur[n] /\ (ReaderNode(n) => ccur[n] = last[csub[n]])
        <4>1. /\ \A t \in behind[n] : Seen(n, t) /\ cmin[n] <= last[t]
              /\ Seen(n, csub[n])
              /\ cmin[n] <= ccur[n] /\ (ReaderNode(n) => ccur[n] = last[csub[n]])
            BY Zenon, <2>1 DEF ReplayPlaces, ReplayPlace
        <4>2. csub[n] \in Subs
            BY Zenon, <4>1 DEF Seen
        <4>3. \A t : Seen(n, t) => Seen(n, t)'
            BY Zenon, SeenNext
        <4>4. Seen(n, csub[n])'
            BY Zenon, <2>1, <4>1, <4>3 DEF Seen
        <4> QED
            BY Zenon, <4>1, <4>2, <4>3, <4>4
      <3>2. /\ cmin[n] \in 0 .. MaxSeq /\ ccur[n] \in 0 .. MaxSeq /\ chead[n] \in 0 .. MaxSeq
          BY Zenon, <1>0 DEF ReplayType
      <3>3. ccur[n] <= chead[n]
          BY <2>3, <3>1, <3>2, FeedAssumption DEF Tailed
      <3>4. ReaderNode(n)' => last[csub[n]] <= chead[n]
          BY Zenon, <2>1, <3>1, <3>3 DEF ReaderNode
      <3>5. ReplayPlace(n)'
          BY Zenon, <2>1, <2>3, <3>1, <3>4 DEF ReplayPlace
      <3> QED
          BY Zenon, <1>0, <1>2, <1>10, <3>5 DEF ReplayType, FanSend
    <2> QED
        BY Zenon, <2>1, <2>2, <2>3
  <1> QED
    <2>1. CASE \E w \in Writers : (\E k \in 0 .. 1 : Tx(w, k)) \/ WriterStep(w) \/ NotifyError(w)
        BY Zenon, <1>1, <2>1 DEF Tx, WriterStep, NotifyError, publish, PublishSend,
           PublishAdvance, emitNotify
    <2>2. CASE \E s \in Subs : registerComm(s) \/ Register(s) \/ Receive(s) \/ Close(s)
        BY Zenon, <1>1, <2>2 DEF registerComm, Register, Receive, Close
    <2>3. CASE \E n \in Coordinated : Coordinate(n) \/ ReplayError(n) \/ ConnectionLost(n)
        BY Zenon, <1>0, <1>1, <1>5, <1>6, <1>7, <1>8, <1>9, <1>10, <2>3
           DEF Coordinate, ConnectionLost
    <2> QED
        BY Zenon, <1>1, <2>1, <2>2, <2>3 DEF Next, vars

-----------------------------------------------------------------------------
(* What a subscriber of a node without writers is sent. *)

\* A send reaches one subscriber, which then has the entries or refused them, and
\* nothing that was sent or refused is forgotten.
LEMMA SendEffect ==
  ASSUME TypeOK, NEW s \in Subs, NEW lo \in 0 .. MaxSeq, NEW hi \in 0 .. MaxSeq,
         Send(s, lo, hi) \/ Refuse(s, lo, hi)
  PROVE  /\ \A t \in Subs : t # s => sent'[t] = sent[t]
         /\ \A t \in Subs : Sent(t) \subseteq Sent(t)' /\ refused[t] \subseteq refused'[t]
         /\ \A p \in lo + 1 .. hi : p \in Sent(s)' \/ p \in refused'[s]
  <1>1. sent \in [Subs -> Seq(1 .. MaxSeq)] /\ refused \in [Subs -> SUBSET (1 .. MaxSeq)]
      BY Zenon DEF TypeOK
  <1>2. CASE Refuse(s, lo, hi)
      BY Zenon, <1>1, <1>2 DEF Refuse, Sent
  <1>3. CASE Send(s, lo, hi)
    <2>1. /\ sent'[s] = sent[s] \o Interval(lo, hi) /\ refused' = refused
          /\ \A t \in Subs : t # s => sent'[t] = sent[t]
        BY Zenon, <1>1, <1>3 DEF Send
    <2>2. /\ Interval(lo, hi) \in Seq(1 .. MaxSeq)
          /\ \A p \in lo + 1 .. hi : \E i \in DOMAIN Interval(lo, hi) : Interval(lo, hi)[i] = p
        BY Zenon, IntervalSeq
    <2>3. /\ \A i \in DOMAIN sent[s] : i \in DOMAIN sent'[s] /\ sent'[s][i] = sent[s][i]
          /\ \A i \in DOMAIN Interval(lo, hi) :
               \E j \in DOMAIN sent'[s] : sent'[s][j] = Interval(lo, hi)[i]
      <3> DEFINE old == sent[s]
                 new == Interval(lo, hi)
                 both == old \o new
      <3>1. old \in Seq(1 .. MaxSeq) /\ new \in Seq(1 .. MaxSeq)
          BY Zenon, <1>1, <2>2
      <3> HIDE DEF old, new
      <3>2. /\ \A i \in DOMAIN old : i \in DOMAIN both /\ both[i] = old[i]
            /\ \A i \in DOMAIN new : \E j \in DOMAIN both : both[j] = new[i]
          BY <3>1, AppendRange
      <3> QED
          BY Zenon, <2>1, <3>2 DEF old, new
    <2>4. Sent(s) \subseteq Sent(s)'
        BY Zenon, <2>3 DEF Sent
    <2>5. \A p \in lo + 1 .. hi : p \in Sent(s)'
        BY Zenon, <2>2, <2>3 DEF Sent
    <2>6. \A t \in Subs : t # s => Sent(t)' = Sent(t)
        BY Zenon, <2>1 DEF Sent
    <2> QED
        BY Zenon, <2>1, <2>4, <2>5, <2>6
  <1> QED
      BY Zenon, <1>2, <1>3

\* Only publish and a coordinator's fan-out send.
LEMMA SentMoves ==
  ASSUME [Next]_vars
  PROVE  \/ UNCHANGED <<sent, refused>>
         \/ \E w \in Writers : \E s \in Subs : PublishSend(w, s)
         \/ \E n \in Coordinated : FanSend(n)
  <1>1. ASSUME NEW w \in Writers,
               (\E k \in 0 .. 1 : Tx(w, k)) \/ WriterStep(w) \/ NotifyError(w)
        PROVE  UNCHANGED <<sent, refused>> \/ \E s \in Subs : PublishSend(w, s)
      BY Zenon, <1>1 DEF Tx, WriterStep, NotifyError, publish, PublishAdvance, emitNotify,
         history
  <1>2. ASSUME NEW s \in Subs, registerComm(s) \/ Register(s) \/ Receive(s) \/ Close(s)
        PROVE  UNCHANGED <<sent, refused>>
      BY Zenon, <1>2 DEF registerComm, Register, Receive, Close, history
  <1>3. ASSUME NEW n \in Coordinated, Coordinate(n) \/ ReplayError(n) \/ ConnectionLost(n)
        PROVE  UNCHANGED <<sent, refused>> \/ FanSend(n)
      BY Zenon, <1>3 DEF Coordinate, ReplayError, ConnectionLost, onRemoteChange, resyncAll,
         replayWithSeqs, FanRead, FanAdvance, FanDone, superviseListen, history
  <1> QED
      BY Zenon, <1>1, <1>2, <1>3 DEF Next, vars, history

\* A coordinator comes to its advance and leaves it with nothing but the send and the
\* advance.
LEMMA AdvancePlace ==
  ASSUME TypeOK, [Next]_vars, NEW n \in Nodes, cpc[n] = "advance" \/ cpc'[n] = "advance",
         ~FanSend(n), ~FanAdvance(n)
  PROVE  cpc'[n] = cpc[n] /\ csub'[n] = csub[n] /\ chead'[n] = chead[n]
  <1>0. ReplayType
      BY Zenon, TypeParts
  <1>1. ASSUME UNCHANGED replayer
        PROVE  cpc'[n] = cpc[n] /\ csub'[n] = csub[n] /\ chead'[n] = chead[n]
      BY Zenon, <1>1 DEF replayer
  <1>2. CASE \E w \in Writers : (\E k \in 0 .. 1 : Tx(w, k)) \/ WriterStep(w) \/ NotifyError(w)
      BY Zenon, <1>1, <1>2 DEF Tx, WriterStep, NotifyError, publish, PublishSend,
         PublishAdvance, emitNotify
  <1>3. CASE \E s \in Subs : registerComm(s) \/ Register(s) \/ Receive(s) \/ Close(s)
      BY Zenon, <1>1, <1>3 DEF registerComm, Register, Receive, Close
  <1>4. ASSUME NEW m \in Coordinated, Coordinate(m) \/ ReplayError(m) \/ ConnectionLost(m)
        PROVE  cpc'[n] = cpc[n] /\ csub'[n] = csub[n] /\ chead'[n] = chead[n]
    <2>1. CASE m # n
      <3>1. CASE onRemoteChange(m) \/ resyncAll(m)
          BY Zenon, <1>0, <2>1, <3>1 DEF ReplayType, onRemoteChange, resyncAll, Select
      <3>2. CASE replayWithSeqs(m) \/ (\E s \in Subs : FanRead(m, s)) \/ FanSend(m)
          BY Zenon, <1>0, <2>1, <3>2 DEF ReplayType, replayWithSeqs, FanRead, FanSend
      <3>3. CASE FanAdvance(m) \/ FanDone(m) \/ superviseListen(m) \/ ReplayError(m)
          BY Zenon, <1>0, <2>1, <3>3 DEF ReplayType, FanAdvance, FanDone, superviseListen,
             ReplayError
      <3>4. CASE ConnectionLost(m)
          BY Zenon, <1>1, <3>4 DEF ConnectionLost
      <3> QED
          BY Zenon, <1>4, <3>1, <3>2, <3>3, <3>4 DEF Coordinate
    <2>2. CASE m = n
      <3>1. CASE ConnectionLost(m)
          BY Zenon, <1>1, <3>1 DEF ConnectionLost
      <3>2. CASE onRemoteChange(m) \/ resyncAll(m)
          BY Zenon, <1>0, <2>2, <3>2 DEF ReplayType, onRemoteChange, resyncAll, Select
      <3>3. CASE replayWithSeqs(m) \/ ReplayError(m) \/ (\E s \in Subs : FanRead(m, s))
          BY Zenon, <1>0, <2>2, <3>3 DEF ReplayType, replayWithSeqs, FanRead, ReplayError
      <3>4. CASE FanDone(m) \/ superviseListen(m)
          BY Zenon, <1>0, <2>2, <3>4 DEF ReplayType, FanDone, superviseListen
      <3> QED
          BY Zenon, <1>4, <2>2, <3>1, <3>2, <3>3, <3>4 DEF Coordinate
    <2> QED
        BY Zenon, <2>1, <2>2
  <1> QED
      BY Zenon, <1>1, <1>2, <1>3, <1>4 DEF Next, vars

\* Where no writer is, the position a subscriber was sent up to changes with its
\* registration and with the fan-out of its own node's coordinator.
LEMMA ReachedKept ==
  ASSUME TypeOK, WriterPlaces, ReplayPlaces, [Next]_vars, NEW s \in Subs,
         ReaderNode(home[s]), ~registerComm(s), ~FanSend(home[s]), ~FanAdvance(home[s])
  PROVE  Reached(s)' = Reached(s) /\ from'[s] = from[s] /\ sent'[s] = sent[s]
  <1>1. /\ home' = home /\ home[s] \in Nodes /\ Coordinated \subseteq Nodes
        /\ \A w \in Writers : home[w] \in Nodes
    <2>1. LogType
        BY Zenon, TypeParts
    <2> QED
        BY Zenon, <2>1, HomeNext, FeedAssumption DEF LogType
  <1>2. last'[s] = last[s] /\ from'[s] = from[s]
      BY Zenon, CursorsGrow
  <1>3. Reached(s)' = Reached(s)
      BY Zenon, <1>1, <1>2, AdvancePlace DEF Reached
  <1>4. sent \in [Subs -> Seq(1 .. MaxSeq)]
      BY Zenon DEF TypeOK
  <1>5. ASSUME NEW w \in Writers, NEW t \in Subs, PublishSend(w, t)
        PROVE  sent'[s] = sent[s]
    <2>1. home[t] = home[w]
        BY Zenon, <1>5 DEF WriterPlaces, PublishSend, Seen
    <2>2. t # s
        BY Zenon, <2>1 DEF ReaderNode
    <2> QED
        BY Zenon, <1>4, <1>5, <2>2 DEF PublishSend, Send, Refuse
  <1>6. ASSUME NEW n \in Coordinated, FanSend(n) PROVE sent'[s] = sent[s]
    <2>1. home[csub[n]] = n
        BY Zenon, <1>1, <1>6 DEF ReplayPlaces, ReplayPlace, FanSend, Seen
    <2>2. csub[n] # s
        BY Zenon, <1>6, <2>1
    <2> QED
        BY Zenon, <1>4, <1>6, <2>2 DEF FanSend, Send, Refuse
  <1> QED
      BY Zenon, <1>2, <1>3, <1>5, <1>6, SentMoves

\* Every step keeps ReaderExact.
LEMMA ReaderExactNext ==
  ASSUME TypeOK, WriterPlaces, Cursors, ReplayPlaces, ReaderExact, [Next]_vars
  PROVE  ReaderExact'
  <1>0. /\ home' = home /\ SubscriberType /\ ReplayType /\ HistoryType
        /\ \A s \in Subs : home[s] \in Nodes
    <2>1. LogType /\ SubscriberType /\ ReplayType /\ HistoryType
        BY Zenon, TypeParts
    <2> QED
        BY Zenon, <2>1, HomeNext, FeedAssumption DEF LogType
  <1> SUFFICES ASSUME NEW s \in Subs, ReaderNode(home[s])
               PROVE  sent'[s] = Interval(from'[s], Reached(s)')
      BY Zenon, <1>0 DEF ReaderExact, ReaderNode
  <1> DEFINE n == home[s]
  <1>1. n \in Nodes /\ sent[s] = Interval(from[s], Reached(s)) /\ ReplayPlace(n)
      BY Zenon, <1>0 DEF ReaderExact, ReplayPlaces
  <1>2. CASE registerComm(s)
    <2>1. /\ spc[s] = "off" /\ sent' = sent /\ UNCHANGED replayer
          /\ \/ last'[s] = head /\ from'[s] = head
             \/ last' = last /\ from' = from
        BY Zenon, <1>0, <1>2 DEF registerComm, SubscriberType, HistoryType
    <2>2. ~(cpc[n] = "advance" /\ csub[n] = s)
        BY Zenon, <1>1, <2>1 DEF ReplayPlace, Seen
    <2>3. last[s] = from[s]
        BY Zenon, <2>1 DEF Cursors
    <2>4. Reached(s) = from[s] /\ Reached(s)' = from'[s]
        BY Zenon, <1>0, <2>1, <2>2, <2>3 DEF Reached, replayer
    <2>5. from[s] \in Int /\ from'[s] \in Int
      <3>1. TypeOK'
          BY Zenon, TypeNext
      <3>2. from[s] \in 0 .. MaxSeq /\ from'[s] \in 0 .. MaxSeq
          BY Zenon, <3>1 DEF TypeOK
      <3> QED
          BY <3>2, FeedAssumption
    <2>6. Interval(from'[s], from'[s]) = Interval(from[s], from[s])
        BY <2>5 DEF Interval
    <2> QED
        BY Zenon, <1>1, <2>1, <2>4, <2>6
  <1>3. CASE FanSend(n)
    <2>1. /\ cpc[n] = "send" /\ last' = last /\ from' = from /\ csub' = csub /\ chead' = chead
        BY Zenon, <1>3 DEF FanSend
    <2>2. /\ csub[n] \in Subs /\ cmin[n] <= ccur[n] /\ ccur[n] = last[csub[n]]
          /\ Reached(s) = last[s]
        BY Zenon, <1>1, <2>1 DEF ReplayPlace, Seen, Reached
    <2>3. /\ cmin[n] \in 0 .. MaxSeq /\ ccur[n] \in 0 .. MaxSeq /\ chead[n] \in 0 .. MaxSeq
          /\ from[s] \in 0 .. MaxSeq /\ last[s] \in 0 .. MaxSeq /\ from[s] <= last[s]
        BY Zenon, <1>0, <1>1 DEF ReplayType, HistoryType, SubscriberType, Cursors
    <2>4. Tailed(n) = ccur[n]
        BY <2>2, <2>3, FeedAssumption DEF Tailed
    <2>5. CASE cpc'[n] = "fan" /\ sent' = sent
        BY Zenon, <1>0, <1>1, <2>1, <2>2, <2>5 DEF Reached
    <2>6. CASE /\ ccur[n] < chead[n] /\ Send(csub[n], ccur[n], chead[n])
               /\ cpc'[n] = "advance"
      <3>1. CASE csub[n] = s
        <4>1. sent'[s] = Interval(from[s], last[s]) \o Interval(last[s], chead[n])
            BY Zenon, <1>0, <1>1, <2>2, <2>6, <3>1 DEF Send, HistoryType
        <4>2. last[s] < chead[n]
            BY Zenon, <2>2, <2>6, <3>1
        <4>3. Interval(from[s], last[s]) \o Interval(last[s], chead[n])
                = Interval(from[s], chead[n])
          <5>1. /\ from[s] \in Nat /\ last[s] \in Nat /\ chead[n] \in Nat
                /\ last[s] <= chead[n]
              BY <2>3, <4>2, FeedAssumption
          <5> QED
              BY Zenon, <2>3, <5>1, IntervalJoin
        <4>4. Reached(s)' = chead[n]
            BY Zenon, <1>0, <2>1, <2>6, <3>1 DEF Reached
        <4> QED
            BY Zenon, <2>1, <4>1, <4>3, <4>4
      <3>2. CASE csub[n] # s
        <4>1. sent'[s] = sent[s]
            BY Zenon, <1>0, <2>6, <3>2 DEF Send, HistoryType
        <4>2. Reached(s)' = last[s]
            BY Zenon, <1>0, <2>1, <3>2 DEF Reached
        <4> QED
            BY Zenon, <1>1, <2>1, <2>2, <4>1, <4>2
      <3> QED
          BY Zenon, <3>1, <3>2
    <2> QED
        BY Zenon, <1>0, <1>1, <1>3, <2>4, <2>5, <2>6 DEF FanSend, Refuse, ReplayType
  <1>4. CASE FanAdvance(n)
    <2>1. /\ cpc[n] = "advance" /\ cpc'[n] = "fan" /\ sent' = sent /\ from' = from
          /\ advance(csub[n], chead[n]) /\ chead[n] \in 0 .. MaxSeq
        BY Zenon, <1>0, <1>1, <1>4 DEF FanAdvance, ReplayType, history
    <2>2. csub[n] \in Subs /\ last[csub[n]] <= chead[n]
        BY Zenon, <1>1, <2>1 DEF ReplayPlace, Seen
    <2>3. /\ last'[csub[n]] = chead[n]
          /\ csub[n] # s => last'[s] = last[s]
        BY Zenon, <2>1, <2>2, AdvanceEffect
    <2>4. Reached(s)' = last'[s]
        BY Zenon, <1>0, <2>1 DEF Reached
    <2>5. Reached(s) = last'[s]
        BY Zenon, <2>1, <2>3 DEF Reached
    <2> QED
        BY Zenon, <1>1, <2>1, <2>4, <2>5
  <1> QED
      BY Zenon, <1>1, <1>2, <1>3, <1>4, ReachedKept

-----------------------------------------------------------------------------
(* What the writers of a node commit. *)

\* Nothing that was sent to a subscriber or refused by its channel is forgotten.
LEMMA SentGrow ==
  ASSUME TypeOK, WriterPlaces, ReplayPlaces, [Next]_vars, NEW s \in Subs
  PROVE  Sent(s) \subseteq Sent(s)' /\ refused[s] \subseteq refused'[s]
  <1>0. WriterType /\ ReplayType /\ Coordinated \subseteq Nodes
      BY Zenon, TypeParts, FeedAssumption
  <1>1. ASSUME NEW w \in Writers, NEW t \in Subs, PublishSend(w, t)
        PROVE  Sent(s) \subseteq Sent(s)' /\ refused[s] \subseteq refused'[s]
      BY Zenon, <1>0, <1>1, SendEffect DEF PublishSend, WriterType
  <1>2. ASSUME NEW n \in Coordinated, FanSend(n)
        PROVE  Sent(s) \subseteq Sent(s)' /\ refused[s] \subseteq refused'[s]
    <2>1. /\ csub[n] \in Subs /\ Tailed(n) \in 0 .. MaxSeq /\ chead[n] \in 0 .. MaxSeq
        BY Zenon, <1>0, <1>2 DEF FanSend, ReplayPlaces, ReplayPlace, Seen, ReplayType, Tailed
    <2>2. CASE UNCHANGED <<sent, refused>>
        BY Zenon, <2>2 DEF Sent
    <2> QED
        BY Zenon, <1>2, <2>1, <2>2, SendEffect DEF FanSend
  <1>3. CASE UNCHANGED <<sent, refused>>
      BY Zenon, <1>3 DEF Sent
  <1> QED
      BY Zenon, <1>1, <1>2, <1>3, SentMoves

\* Writer w has yet to send position p to s.
Owes(w, s, p) ==
    /\ home[w] = home[s] /\ p \in wlo[w] + 1 .. whi[w]
    /\ wpc[w] = "snapshot" \/ s \in wtodo[w]

\* A position is pending when a writer owes it,
LEMMA PendingIs ==
  ASSUME NEW s, NEW p
  PROVE  p \in Pending(s) <=> \E w \in Writers : Owes(w, s, p)
  BY Zenon DEF Pending, Owes

\* after a step too.
LEMMA PendingIsNext ==
  ASSUME NEW s, NEW p, \E w \in Writers : Owes(w, s, p)'
  PROVE  p \in Pending(s)'
  BY Zenon DEF Pending, Owes

\* What a writer owes a registered subscriber it still owes after a step, unless the
\* step sends it or finds the channel full.
LEMMA OwesNext ==
  ASSUME TypeOK, WriterPlaces, ReplayPlaces, [Next]_vars, NEW w \in Writers, NEW s \in Subs,
         NEW p, Owes(w, s, p), spc[s] = "on"
  PROVE  Owes(w, s, p)' \/ p \in Sent(s)' \/ p \in refused'[s]
  <1>0. WriterType /\ home' = home
      BY Zenon, TypeParts, HomeNext
  <1>1. ASSUME wlo'[w] = wlo[w], whi'[w] = whi[w],
               wpc'[w] = "snapshot" \/ s \in wtodo'[w]
        PROVE  Owes(w, s, p)'
      BY Zenon, <1>0, <1>1 DEF Owes
  <1>2. ASSUME wpc'[w] = wpc[w], wlo'[w] = wlo[w], whi'[w] = whi[w], wtodo'[w] = wtodo[w]
        PROVE  Owes(w, s, p)'
      BY Zenon, <1>1, <1>2 DEF Owes
  <1>3. ASSUME UNCHANGED writers PROVE Owes(w, s, p)'
      BY Zenon, <1>2, <1>3 DEF writers
  \* A writer with nothing in hand, or with all of it sent, owes nothing.
  <1>4. ~(wpc[w] = "idle") /\ ~Published(w)
      BY Zenon DEF Owes, WriterPlaces, Published
  <1>5. ASSUME NEW v \in Writers,
               (\E k \in 0 .. 1 : Tx(v, k)) \/ WriterStep(v) \/ NotifyError(v)
        PROVE  Owes(w, s, p)' \/ p \in Sent(s)' \/ p \in refused'[s]
    <2>1. CASE \E k \in 0 .. 1 : Tx(v, k)
      <3>1. v # w
          BY Zenon, <1>4, <2>1 DEF Tx
      <3> QED
          BY Zenon, <1>0, <1>2, <2>1, <3>1 DEF Tx, WriterType
    <2>2. CASE publish(v)
      <3>1. CASE v # w
          BY Zenon, <1>0, <1>2, <2>2, <3>1 DEF publish, WriterType
      <3>2. CASE v = w
        <4>1. s \in Registered(home[w])
            BY Zenon DEF Registered, Owes
        <4>2. s \in wtodo'[w] /\ wlo' = wlo /\ whi' = whi
            BY Zenon, <1>0, <2>2, <3>2, <4>1 DEF publish, WriterType
        <4> QED
            BY Zenon, <1>1, <4>2
      <3> QED
          BY Zenon, <3>1, <3>2
    <2>3. ASSUME NEW t \in Subs, PublishSend(v, t)
          PROVE  Owes(w, s, p)' \/ p \in Sent(s)' \/ p \in refused'[s]
      <3>1. CASE v = w /\ t = s
        <4>1. Send(s, wlo[w], whi[w]) \/ Refuse(s, wlo[w], whi[w])
            BY Zenon, <2>3, <3>1 DEF PublishSend
        <4>2. wlo[w] \in 0 .. MaxSeq /\ whi[w] \in 0 .. MaxSeq /\ p \in wlo[w] + 1 .. whi[w]
            BY Zenon, <1>0 DEF WriterType, Owes
        <4> QED
            BY Zenon, <4>1, <4>2, SendEffect
      <3>2. CASE v = w /\ t # s
        <4>1. /\ wpc[w] = "publish" /\ wlo' = wlo /\ whi' = whi
              /\ wtodo'[w] = wtodo[w] \ {t}
            BY Zenon, <1>0, <2>3, <3>2 DEF PublishSend, WriterType
        <4>2. s \in wtodo'[w]
            BY Zenon, <3>2, <4>1 DEF Owes
        <4> QED
            BY Zenon, <1>1, <4>1, <4>2
      <3>3. CASE v # w
          BY Zenon, <1>0, <1>2, <2>3, <3>3 DEF PublishSend, WriterType
      <3> QED
          BY Zenon, <3>1, <3>2, <3>3
    <2>4. CASE PublishAdvance(v)
        BY Zenon, <1>2, <2>4 DEF PublishAdvance
    <2>5. CASE emitNotify(v) \/ NotifyError(v)
      <3>1. v # w
          BY Zenon, <1>4, <2>5 DEF emitNotify, NotifyError
      <3> QED
          BY Zenon, <1>0, <1>2, <2>5, <3>1 DEF emitNotify, NotifyError, WriterType
    <2> QED
        BY Zenon, <1>5, <2>1, <2>2, <2>3, <2>4, <2>5 DEF WriterStep
  <1>6. CASE \E t \in Subs : registerComm(t) \/ Register(t) \/ Receive(t) \/ Close(t)
      BY Zenon, <1>3, <1>6 DEF registerComm, Register, Receive, Close
  <1>7. CASE \E n \in Coordinated : Coordinate(n) \/ ReplayError(n) \/ ConnectionLost(n)
      BY Zenon, <1>3, <1>7 DEF Coordinate, ReplayError, ConnectionLost, onRemoteChange,
         resyncAll, replayWithSeqs, FanRead, FanSend, FanAdvance, FanDone, superviseListen
  <1> QED
      BY Zenon, <1>3, <1>5, <1>6, <1>7 DEF Next, vars

\* Tx appends its entries to the log under the writer's name, and it is then to
\* publish exactly those.
LEMMA TxEffect ==
  ASSUME TypeOK, NEW w \in Writers, NEW k \in 0 .. 1, Tx(w, k), NEW p \in 1 .. head'
  PROVE  \/ p \in 1 .. head /\ author'[p] = author[p]
         \/ /\ author'[p] = home[w] /\ wpc'[w] = "snapshot"
            /\ p \in wlo'[w] + 1 .. whi'[w]
  <1>1. /\ wlo'[w] = head /\ whi'[w] = head + k /\ wpc'[w] = "snapshot"
        /\ head' = head + k /\ author' = author \o [i \in 1 .. k |-> home[w]]
        /\ head \in 0 .. MaxSeq /\ author \in Seq(Nodes) /\ Len(author) = head
      BY Zenon DEF Tx, TypeOK
  <1>2. home[w] \in Nodes
    <2>1. LogType
        BY Zenon, TypeParts
    <2> QED
        BY Zenon, <2>1, FeedAssumption DEF LogType
  <1>3. p <= head => author'[p] = author[p]
      BY <1>1, <1>2, FeedAssumption
  <1>4. ~(p <= head) => author'[p] = home[w]
      BY <1>1, <1>2, FeedAssumption
  <1>5. (p <= head => p \in 1 .. head) /\ (~(p <= head) => p \in head + 1 .. head + k)
      BY <1>1, FeedAssumption
  <1> QED
      BY Zenon, <1>1, <1>3, <1>4, <1>5

\* Only a transaction writes to the log.
LEMMA LogMoves ==
  ASSUME [Next]_vars
  PROVE  UNCHANGED <<head, author>> \/ \E w \in Writers : \E k \in 0 .. 1 : Tx(w, k)
  <1>1. CASE \E w \in Writers : (\E k \in 0 .. 1 : Tx(w, k)) \/ WriterStep(w) \/ NotifyError(w)
      BY Zenon, <1>1 DEF WriterStep, NotifyError, publish, PublishSend, PublishAdvance,
         emitNotify, log
  <1>2. CASE \E s \in Subs : registerComm(s) \/ Register(s) \/ Receive(s) \/ Close(s)
      BY Zenon, <1>2 DEF registerComm, Register, Receive, Close, log
  <1>3. CASE \E n \in Coordinated : Coordinate(n) \/ ReplayError(n) \/ ConnectionLost(n)
    <2>1. UNCHANGED log
        BY Zenon, <1>3 DEF Coordinate, ReplayError, ConnectionLost, onRemoteChange, resyncAll,
           replayWithSeqs, FanRead, FanSend, FanAdvance, FanDone, superviseListen
    <2> QED
        BY Zenon, <2>1 DEF log
  <1> QED
      BY Zenon, <1>1, <1>2, <1>3 DEF Next, vars, log

\* A subscriber in the list entered it with Register and keeps the head of that moment.
LEMMA OnBefore ==
  ASSUME TypeOK, [Next]_vars, NEW s \in Subs, spc'[s] = "on", ~Register(s)
  PROVE  spc[s] = "on" /\ since'[s] = since[s]
  <1>1. SubscriberType /\ HistoryType
      BY Zenon, TypeParts
  <1>2. CASE UNCHANGED <<spc, since>>
      BY Zenon, <1>2
  <1>3. ASSUME NEW t \in Subs, registerComm(t) \/ Register(t) \/ Receive(t) \/ Close(t)
        PROVE  spc[s] = "on" /\ since'[s] = since[s]
    <2>1. CASE registerComm(t)
        BY Zenon, <1>1, <2>1 DEF registerComm, SubscriberType
    <2>2. CASE Register(t)
      <3>1. t # s
          BY Zenon, <2>2
      <3> QED
          BY Zenon, <1>1, <2>2, <3>1 DEF Register, SubscriberType, HistoryType
    <2>3. CASE Receive(t)
        BY Zenon, <1>2, <2>3 DEF Receive, history
    <2>4. CASE Close(t)
        BY Zenon, <1>1, <2>4 DEF Close, SubscriberType, history
    <2> QED
        BY Zenon, <1>3, <2>1, <2>2, <2>3, <2>4
  <1>4. CASE \E w \in Writers : (\E k \in 0 .. 1 : Tx(w, k)) \/ WriterStep(w) \/ NotifyError(w)
      BY Zenon, <1>2, <1>4 DEF Tx, WriterStep, NotifyError, publish, PublishSend,
         PublishAdvance, emitNotify, subscriber, history
  <1>5. CASE \E n \in Coordinated : Coordinate(n) \/ ReplayError(n) \/ ConnectionLost(n)
      BY Zenon, <1>2, <1>5 DEF Coordinate, ReplayError, ConnectionLost, onRemoteChange,
         resyncAll, replayWithSeqs, FanRead, FanSend, FanAdvance, FanDone, superviseListen,
         subscriber, history
  <1> QED
      BY Zenon, <1>2, <1>3, <1>4, <1>5 DEF Next, vars, subscriber, history

\* Every step keeps OwnNodeDelivered.
LEMMA OwnNodeDeliveredNext ==
  ASSUME TypeOK, WriterPlaces, ReplayPlaces, OwnNodeDelivered, [Next]_vars
  PROVE  OwnNodeDelivered'
  <1>0. home' = home /\ TypeOK'
      BY Zenon, HomeNext, TypeNext
  <1> SUFFICES ASSUME NEW s \in Subs, spc'[s] = "on",
                      NEW p \in since'[s] + 1 .. head', author'[p] = home[s]
               PROVE  p \in Sent(s)' \/ p \in refused'[s] \/ p \in Pending(s)'
      BY Zenon, <1>0 DEF OwnNodeDelivered
  <1>1. since'[s] \in 0 .. MaxSeq /\ head' \in 0 .. MaxSeq /\ head \in 0 .. MaxSeq
      BY Zenon, <1>0 DEF TypeOK
  <1>2. CASE Register(s)
    <2>1. since'[s] = head /\ head' = head
        BY Zenon, <1>2 DEF Register, log, TypeOK
    <2>2. FALSE
        BY <1>1, <2>1, FeedAssumption
    <2> QED
        BY Zenon, <2>2
  <1>3. CASE ~Register(s)
    <2>1. spc[s] = "on" /\ since'[s] = since[s]
        BY Zenon, <1>3, OnBefore
    <2>2. ASSUME p \in 1 .. head, author[p] = home[s]
          PROVE  p \in Sent(s)' \/ p \in refused'[s] \/ p \in Pending(s)'
      <3>1. p \in since[s] + 1 .. head
          BY <1>1, <2>1, <2>2, FeedAssumption
      <3>2. p \in Sent(s) \/ p \in refused[s] \/ p \in Pending(s)
          BY Zenon, <2>1, <2>2, <3>1 DEF OwnNodeDelivered
      <3>3. CASE p \in Pending(s)
          BY Zenon, <2>1, <3>3, PendingIs, PendingIsNext, OwesNext
      <3> QED
          BY Zenon, <3>2, <3>3, SentGrow
    <2>3. p \in 1 .. head'
        BY <1>1, FeedAssumption
    <2>4. CASE UNCHANGED <<head, author>>
        BY Zenon, <2>2, <2>3, <2>4
    <2>5. ASSUME NEW w \in Writers, NEW k \in 0 .. 1, Tx(w, k)
          PROVE  p \in Sent(s)' \/ p \in refused'[s] \/ p \in Pending(s)'
      <3>1. CASE p \in 1 .. head /\ author'[p] = author[p]
          BY Zenon, <2>2, <3>1
      <3>2. CASE author'[p] = home[w] /\ wpc'[w] = "snapshot" /\ p \in wlo'[w] + 1 .. whi'[w]
        <4>1. Owes(w, s, p)'
            BY Zenon, <1>0, <3>2 DEF Owes
        <4> QED
            BY Zenon, <4>1, PendingIsNext
      <3> QED
          BY Zenon, <2>3, <2>5, <3>1, <3>2, TxEffect
    <2> QED
        BY Zenon, <2>4, <2>5, LogMoves
  <1> QED
      BY Zenon, <1>2, <1>3

-----------------------------------------------------------------------------
(* The theorems. *)

\* The invariant holds initially,
LEMMA IInvInit == Init => IInv
  <1> SUFFICES ASSUME Init PROVE IInv
      OBVIOUS
  <1>1. TypeOK
      BY Zenon, TypeInit
  <1>2. WriterPlaces
      BY Zenon DEF Init, WriterPlaces
  <1>3. Cursors
      BY DEF Init, Cursors
  <1>4. ReplayPlaces
      BY Zenon DEF Init, ReplayPlaces, ReplayPlace
  <1>5. ReaderExact
    <2>1. Interval(0, 0) = <<>>
        BY DEF Interval
    <2>2. ASSUME NEW s \in Subs PROVE sent[s] = Interval(from[s], Reached(s))
      <3>1. home[s] \in Nodes
        <4>1. LogType
            BY Zenon, <1>1, TypeParts
        <4> QED
            BY Zenon, <4>1, FeedAssumption DEF LogType
      <3>2. cpc[home[s]] = "wait" /\ last[s] = 0 /\ from[s] = 0 /\ sent[s] = <<>>
          BY Zenon, <3>1 DEF Init
      <3> QED
          BY Zenon, <2>1, <3>2 DEF Reached
    <2> QED
        BY Zenon, <2>2 DEF ReaderExact
  <1>6. OwnNodeDelivered
      BY Zenon DEF Init, OwnNodeDelivered
  <1> QED
      BY Zenon, <1>1, <1>2, <1>3, <1>4, <1>5, <1>6 DEF IInv

\* every step keeps it,
LEMMA IInvNext == IInv /\ [Next]_vars => IInv'
  BY Zenon, TypeNext, WriterPlacesNext, CursorsNext, ReplayPlacesNext, ReaderExactNext,
     OwnNodeDeliveredNext DEF IInv

\* so it holds in every state.
LEMMA Invariance == Spec => []IInv
  BY IInvInit, IInvNext, PTL DEF Spec

\* Cursors, snapshots and replays stay within the log, and a channel (Comm.Changes)
\* never holds more than its capacity, whatever the writers, coordinators and sessions do.
THEOREM TypeCorrect == Spec => []TypeOK
  <1>1. IInv => TypeOK
      BY Zenon DEF IInv
  <1> QED
      BY <1>1, Invariance, PTL

\* On a node that does not write to the account, the coordinator (onRemoteChange,
\* replayWithSeqs, resyncAll) sends a subscriber the log from the head registerComm
\* read, each entry once and in order, up to its cursor: with any number of nodes and
\* writers, any channel capacity, and lost connections, notifications and queries.
THEOREM ReplayExact == Spec => []ReaderExact
  <1>1. IInv => ReaderExact
      BY Zenon DEF IInv
  <1> QED
      BY <1>1, Invariance, PTL

\* Whatever order the writers of a node publish in after Tx has let go of the account's
\* lock, each entry they commit is sent to every subscriber registered there by then,
\* refused by its full channel, or still in the hands of the writer's publish.
THEOREM PublishDelivers == Spec => []OwnNodeDelivered
  <1>1. IInv => OwnNodeDelivered
      BY Zenon DEF IInv
  <1> QED
      BY <1>1, Invariance, PTL
============================================================================

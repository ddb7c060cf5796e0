---------------------------- MODULE BlobGC_proofs ----------------------------
(***************************************************************************)
(* No committed row is left without its body: BodyExists of BlobGC, for    *)
(* any number of rows, bodies, writers and collectors.                     *)
(*                                                                         *)
(* BodyExists is not inductive: a writer commits its row long after it has *)
(* looked for the body, and a collector removes a body long after it has   *)
(* looked for referrers.  BodyHeld says what the writer's look is worth,   *)
(* Unwanted what the collector's is.                                       *)
(***************************************************************************)
EXTENDS BlobGC, TLAPS

\* A writer at work and a collector about to remove have a body, and the rows a
\* sweep has locked are expunged.
Bound ==
    /\ \A w \in Writers : wpc[w] # "idle" => wref[w] \in Refs
    /\ \A g \in Collectors : gpc[g] = "remove" => gref[g] \in Refs
    /\ \A g \in Collectors : \A r \in batch[g] : row[r] = "expunged"

\* A writer whose Put has returned has a body that is stored, or that was removed
\* under a writer.
BodyHeld ==
    \A w \in Writers : wpc[w] = "commit" => wref[w] \in stored \union raced

\* No row refers to the body f and no writer has looked for it.
Forgotten(f) ==
    /\ \A r \in Rows : row[r] = "live" => rref[r] # f
    /\ \A q \in QRows : qrow[q] = "live" => qref[q] # f
    /\ \A w \in Writers : wpc[w] \in {"rename", "commit"} => wref[w] # f

\* Between its re-check and its delete a collector that no writer came upon is
\* about to remove a body that nothing refers to.
Unwanted ==
    \A g \in Collectors : gpc[g] = "remove" /\ ~late[g] => Forgotten(gref[g])

\* The inductive invariant.
IInv == TypeOK /\ Bound /\ BodyExists /\ BodyHeld /\ Unwanted

------------------------------------------------------------------------------
\* Init: nothing is stored, and nobody is at work.
LEMMA IInvInit == Init => IInv
<1> SUFFICES ASSUME Init PROVE IInv
  BY Zenon
<1>1. TypeOK
  BY BlobAssumption DEF Init, TypeOK
<1>2. Bound /\ BodyExists /\ BodyHeld /\ Unwanted
  BY Zenon DEF Init, Bound, BodyExists, BodyHeld, Unwanted
<1> QED
  BY Zenon, <1>1, <1>2 DEF IInv

\* A step that changes nothing.
LEMMA IInvStutter == IInv /\ UNCHANGED vars => IInv'
BY DEF IInv, TypeOK, Bound, BodyExists, BodyHeld, Unwanted, Forgotten, vars

------------------------------------------------------------------------------
\* Writers.

\* A writer sets to work on a body of its own or on one it has read from a live
\* row: it has not looked for the blob yet, so it promises nothing.
LEMMA WritesStep ==
    ASSUME IInv, NEW w \in Writers, NEW kind \in {"message", "queue"},
           NEW f \in Refs, NEW src \in Rows \union {None}, Writes(w, kind, f, src)
    PROVE  IInv'
<1> USE DEF Writes, rows, collector, history
<1>1. TypeOK'
  BY Zenon DEF IInv, TypeOK
<1>2. Bound'
  BY DEF IInv, TypeOK, Bound
<1>3. BodyExists' /\ BodyHeld'
  BY DEF IInv, TypeOK, BodyExists, BodyHeld
<1>4. Unwanted'
  BY DEF IInv, TypeOK, Unwanted, Forgotten
<1> QED
  BY Zenon, <1>1, <1>2, <1>3, <1>4 DEF IInv

\* Begin, Copy and Send: the body of a live row is a body.
LEMMA BeginStep ==
    ASSUME IInv, NEW w \in Writers, Begin(w) \/ Copy(w) \/ Send(w)
    PROVE  IInv'
<1>1. ASSUME NEW r \in Rows, row[r] = "live" PROVE rref[r] \in Refs
  BY <1>1 DEF IInv, TypeOK
<1>2. CASE Begin(w)
  BY Zenon, <1>2, WritesStep DEF Begin
<1>3. CASE Copy(w)
  BY Zenon, <1>3, <1>1, WritesStep DEF Copy
<1>4. CASE Send(w)
  BY Zenon, <1>4, <1>1, WritesStep DEF Send
<1> QED
  BY Zenon, <1>2, <1>3, <1>4

\* Put: whoever is about to remove the body is marked late before the writer relies
\* on it.
LEMMA PutStep == ASSUME IInv, NEW w \in Writers, Put(w) PROVE IInv'
<1> USE DEF Put, rows, collector
<1>1. TypeOK'
  BY Zenon DEF IInv, TypeOK, Overtakes
<1>2. Bound'
  BY Zenon DEF IInv, TypeOK, Bound
<1>3. BodyExists' /\ BodyHeld'
  BY Zenon DEF IInv, TypeOK, BodyExists, BodyHeld
<1>4. Unwanted'
  <2> SUFFICES ASSUME NEW g \in Collectors, gpc[g] = "remove", ~late'[g]
               PROVE  Forgotten(gref[g])'
    BY Zenon DEF Unwanted
  <2>1. ~late[g] /\ gref[g] # wref[w]
    BY Zenon DEF Overtakes
  <2>2. Forgotten(gref[g])
    BY Zenon, <2>1 DEF IInv, Unwanted
  <2> QED
    BY Zenon, <2>1, <2>2 DEF IInv, TypeOK, Forgotten
<1> QED
  BY Zenon, <1>1, <1>2, <1>3, <1>4 DEF IInv

\* PutRename: the body is stored, whatever was removed under a writer before.
LEMMA PutRenameStep == ASSUME IInv, NEW w \in Writers, PutRename(w) PROVE IInv'
<1> USE DEF PutRename, rows, collector
<1>1. TypeOK'
  BY DEF IInv, TypeOK, Bound
<1>2. Bound'
  BY DEF IInv, TypeOK, Bound
<1>3. BodyExists' /\ BodyHeld'
  BY Zenon DEF IInv, TypeOK, BodyExists, BodyHeld
<1>4. Unwanted'
  BY DEF IInv, TypeOK, Unwanted, Forgotten
<1> QED
  BY Zenon, <1>1, <1>2, <1>3, <1>4 DEF IInv

\* Commit: the row takes over what Put has secured, and no collector that is about
\* to remove the body has missed its writer.
LEMMA CommitStep == ASSUME IInv, NEW w \in Writers, Commit(w) PROVE IInv'
<1> USE DEF WriterDone, collector, history
<1>1. CASE /\ Commit(w)
           /\ UNCHANGED <<qrow, qref>>
           /\ \E r \in Rows : /\ row[r] = "free"
                             /\ row' = [row EXCEPT ![r] = "live"]
                             /\ rref' = [rref EXCEPT ![r] = wref[w]]
  <2> PICK r \in Rows : /\ row[r] = "free"
                        /\ row' = [row EXCEPT ![r] = "live"]
                        /\ rref' = [rref EXCEPT ![r] = wref[w]]
    BY Zenon, <1>1
  <2>1. TypeOK'
    BY <1>1, BlobAssumption DEF IInv, TypeOK, Bound, Commit
  <2>2. Bound'
    BY <1>1 DEF IInv, TypeOK, Bound, Commit
  <2>3. BodyExists' /\ BodyHeld'
    BY <1>1 DEF IInv, TypeOK, BodyExists, BodyHeld, Commit
  <2>4. Unwanted'
    BY <1>1 DEF IInv, TypeOK, Unwanted, Forgotten, Commit
  <2> QED
    BY Zenon, <2>1, <2>2, <2>3, <2>4 DEF IInv
<1>2. CASE /\ Commit(w)
           /\ UNCHANGED <<row, rref>>
           /\ \E q \in QRows : /\ qrow[q] = "free"
                              /\ qrow' = [qrow EXCEPT ![q] = "live"]
                              /\ qref' = [qref EXCEPT ![q] = wref[w]]
  <2> PICK q \in QRows : /\ qrow[q] = "free"
                         /\ qrow' = [qrow EXCEPT ![q] = "live"]
                         /\ qref' = [qref EXCEPT ![q] = wref[w]]
    BY Zenon, <1>2
  <2>1. TypeOK'
    BY <1>2 DEF IInv, TypeOK, Bound, Commit
  <2>2. Bound'
    BY <1>2 DEF IInv, TypeOK, Bound, Commit
  <2>3. BodyExists' /\ BodyHeld'
    BY <1>2 DEF IInv, TypeOK, BodyExists, BodyHeld, Commit
  <2>4. Unwanted'
    BY <1>2 DEF IInv, TypeOK, Unwanted, Forgotten, Commit
  <2> QED
    BY Zenon, <2>1, <2>2, <2>3, <2>4 DEF IInv
<1> QED
  BY Zenon, <1>1, <1>2 DEF Commit

\* Abort: a writer that gives up leaves the body behind.
LEMMA AbortStep == ASSUME IInv, NEW w \in Writers, Abort(w) PROVE IInv'
<1> USE DEF Abort, WriterDone, rows, collector, history
<1>1. TypeOK'
  BY BlobAssumption DEF IInv, TypeOK
<1>2. Bound'
  BY DEF IInv, TypeOK, Bound
<1>3. BodyExists' /\ BodyHeld'
  BY DEF IInv, TypeOK, BodyExists, BodyHeld
<1>4. Unwanted'
  BY DEF IInv, TypeOK, Unwanted, Forgotten
<1> QED
  BY Zenon, <1>1, <1>2, <1>3, <1>4 DEF IInv

LEMMA WriteStep == ASSUME IInv, NEW w \in Writers, Write(w) PROVE IInv'
BY Zenon, BeginStep, PutStep, PutRenameStep, CommitStep, AbortStep DEF Write

------------------------------------------------------------------------------
\* Rows that go.

\* A message is expunged: one live row less, and no sweep has locked it.
LEMMA ExpungeStep == ASSUME IInv, NEW r \in Rows, Expunge(r) PROVE IInv'
<1> USE DEF Expunge, writer, collector, history
<1>1. TypeOK'
  BY DEF IInv, TypeOK
<1>2. Bound'
  BY Zenon DEF IInv, TypeOK, Bound
<1>3. BodyExists' /\ BodyHeld'
  BY DEF IInv, TypeOK, BodyExists, BodyHeld
<1>4. Unwanted'
  BY DEF IInv, TypeOK, Unwanted, Forgotten
<1> QED
  BY Zenon, <1>1, <1>2, <1>3, <1>4 DEF IInv

\* A queued message goes: one referrer less.
LEMMA DequeueStep == ASSUME IInv, NEW q \in QRows, Dequeue(q) PROVE IInv'
<1> USE DEF Dequeue, writer, collector, history
<1>1. TypeOK'
  BY Zenon DEF IInv, TypeOK
<1>2. Bound'
  BY Zenon DEF IInv, TypeOK, Bound
<1>3. BodyExists' /\ BodyHeld'
  BY DEF IInv, TypeOK, BodyExists, BodyHeld
<1>4. Unwanted'
  BY DEF IInv, TypeOK, Unwanted, Forgotten
<1> QED
  BY Zenon, <1>1, <1>2, <1>3, <1>4 DEF IInv

------------------------------------------------------------------------------
\* CollectGarbage.

\* Select: SKIP LOCKED keeps the batches apart.
LEMMA SelectStep == ASSUME IInv, NEW g \in Collectors, Select(g) PROVE IInv'
<1> USE DEF Select, Doomed, rows, writer, history
<1>1. TypeOK'
  BY DEF IInv, TypeOK
<1>2. Bound'
  BY DEF IInv, TypeOK, Bound
<1>3. BodyExists' /\ BodyHeld'
  BY Zenon DEF IInv, TypeOK, BodyExists, BodyHeld
<1>4. Unwanted'
  BY DEF IInv, TypeOK, Unwanted, Forgotten
<1> QED
  BY Zenon, <1>1, <1>2, <1>3, <1>4 DEF IInv

\* DeleteRows: the rows of the batch were expunged, so no live row goes.
LEMMA DeleteRowsStep == ASSUME IInv, NEW g \in Collectors, DeleteRows(g) PROVE IInv'
<1> USE DEF DeleteRows, writer, history
<1>1. TypeOK'
  BY DEF IInv, TypeOK, Bound, FreedBy
<1>2. Bound'
  BY DEF IInv, TypeOK, Bound
<1>3. BodyExists' /\ BodyHeld'
  BY Zenon DEF IInv, TypeOK, BodyExists, BodyHeld
<1>4. Unwanted'
  BY DEF IInv, TypeOK, Unwanted, Forgotten
<1> QED
  BY Zenon, <1>1, <1>2, <1>3, <1>4 DEF IInv

\* RefCheck: a body that passes it is referred to by no row, and a writer that has
\* looked for it makes the collector late from the start.
LEMMA RefCheckStep == ASSUME IInv, NEW g \in Collectors, RefCheck(g) PROVE IInv'
<1> USE DEF RefCheck, rows, writer
<1> PICK f \in freed[g] :
           /\ freed' = [freed EXCEPT ![g] = @ \ {f}]
           /\ IF Referenced(f)
              THEN UNCHANGED <<gpc, gref, late>>
              ELSE /\ gpc' = [gpc EXCEPT ![g] = "remove"]
                   /\ gref' = [gref EXCEPT ![g] = f]
                   /\ late' = [late EXCEPT ![g] = Awaited(f)]
  BY Zenon
<1>1. TypeOK'
  <2>1. late' \in [Collectors -> BOOLEAN]
    BY ZenonT(60) DEF IInv, TypeOK, Awaited
  <2>2. freed' \in [Collectors -> SUBSET Refs] /\ f \in Refs
    BY Zenon DEF IInv, TypeOK
  <2> QED
    BY <2>1, <2>2 DEF IInv, TypeOK
<1>2. Bound'
  BY DEF IInv, TypeOK, Bound
<1>3. BodyExists' /\ BodyHeld'
  BY Zenon DEF IInv, TypeOK, BodyExists, BodyHeld
<1>4. Unwanted'
  BY DEF IInv, TypeOK, Unwanted, Forgotten, Referenced, Awaited
<1> QED
  BY Zenon, <1>1, <1>2, <1>3, <1>4 DEF IInv

\* Remove: the body that goes is forgotten, or a writer came upon the collector and
\* it counts as raced.
LEMMA RemoveStep == ASSUME IInv, NEW g \in Collectors, Remove(g) PROVE IInv'
<1> USE DEF Remove, rows, writer
<1>1. TypeOK'
  BY DEF IInv, TypeOK, Bound
<1>2. Bound'
  BY DEF IInv, TypeOK, Bound
<1>3. BodyExists' /\ BodyHeld'
  BY Zenon DEF IInv, TypeOK, BodyExists, BodyHeld, Unwanted, Forgotten
<1>4. Unwanted'
  BY DEF IInv, TypeOK, Unwanted, Forgotten
<1> QED
  BY Zenon, <1>1, <1>2, <1>3, <1>4 DEF IInv

\* Finish: the sweep is over.
LEMMA FinishStep == ASSUME IInv, NEW g \in Collectors, Finish(g) PROVE IInv'
<1> USE DEF Finish, rows, writer, history
<1>1. TypeOK'
  BY Zenon DEF IInv, TypeOK
<1>2. Bound'
  BY DEF IInv, TypeOK, Bound
<1>3. BodyExists' /\ BodyHeld'
  BY Zenon DEF IInv, TypeOK, BodyExists, BodyHeld
<1>4. Unwanted'
  BY DEF IInv, TypeOK, Unwanted, Forgotten
<1> QED
  BY Zenon, <1>1, <1>2, <1>3, <1>4 DEF IInv

\* Fail: the batch is rolled back and nothing more is removed.
LEMMA FailStep == ASSUME IInv, NEW g \in Collectors, Fail(g) PROVE IInv'
<1> USE DEF Fail, rows, writer
<1>1. TypeOK'
  BY BlobAssumption DEF IInv, TypeOK
<1>2. Bound'
  BY DEF IInv, TypeOK, Bound
<1>3. BodyExists' /\ BodyHeld'
  BY Zenon DEF IInv, TypeOK, BodyExists, BodyHeld
<1>4. Unwanted'
  BY DEF IInv, TypeOK, Unwanted, Forgotten
<1> QED
  BY Zenon, <1>1, <1>2, <1>3, <1>4 DEF IInv

LEMMA CollectStep ==
    ASSUME IInv, NEW g \in Collectors, CollectGarbage(g) \/ Fail(g)
    PROVE  IInv'
BY Zenon, SelectStep, DeleteRowsStep, RefCheckStep, RemoveStep, FinishStep, FailStep
   DEF CollectGarbage

------------------------------------------------------------------------------
\* The inductive invariant holds in every reachable state of a writer, row and
\* collector system of any size.
THEOREM Invariance == Spec => []IInv
<1>1. IInv /\ [Next]_vars => IInv'
  <2> SUFFICES ASSUME IInv, [Next]_vars PROVE IInv'
    BY Zenon
  <2>1. CASE UNCHANGED vars
    BY Zenon, <2>1, IInvStutter
  <2>2. CASE Next
    BY Zenon, <2>2, WriteStep, ExpungeStep, DequeueStep, CollectStep DEF Next
  <2> QED
    BY Zenon, <2>1, <2>2
<1> QED
  BY <1>1, IInvInit, PTL DEF Spec

\* "Never a live row pointing at a missing blob" (gc.go), whatever MessageAdd, Copy,
\* submit, MessageRemove and any number of concurrent CollectGarbage do, except for
\* a body removed under a writer that had looked for it and not yet committed.
THEOREM BodiesExist == Spec => []BodyExists
<1>1. IInv => BodyExists
  BY Zenon DEF IInv
<1> QED
  BY <1>1, Invariance, PTL

=============================================================================

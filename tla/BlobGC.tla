------------------------------- MODULE BlobGC -------------------------------
(***************************************************************************)
(* Message bodies and their garbage collection in one tenant: the          *)
(* content-addressed blob store (storage/blob), the rows of messages and   *)
(* queue that refer to it, and CollectGarbage (storage/postgres/gc.go),    *)
(* which every node runs hourly.                                           *)
(*                                                                         *)
(* A body is its content, so two writers may store the same one.  A writer *)
(* stores the body first and commits the row that refers to it afterwards; *)
(* a collector deletes rows in a transaction and looks for other referrers *)
(* of their bodies after it has committed.  Only committed rows are seen.  *)
(***************************************************************************)
EXTENDS Integers, FiniteSets

CONSTANTS
    Rows, QRows,   \* rows of messages and of queue that are ever inserted
    Refs,          \* contents of bodies
    Writers, Collectors, None,
    Scenes         \* writers at work, bound on failed transactions, crashes, deletes

ASSUME BlobAssumption ==
    /\ \A s \in Scenes : s.writers \subseteq Writers /\ s.faults \in Nat
    /\ None \notin Refs /\ None \notin Rows

VARIABLES
    row, rref,         \* messages: state, blob_ref
    qrow, qref,        \* queue: state, blob_ref
    stored,            \* the blobs that exist
    wpc, wkind, wref, wsrc, \* writer: step, table it writes, body, row it has it from
    gpc, batch, freed, gref, \* collector: step, rows locked, refs to look at, ref
    late, raced,       \* history: a writer came to the body a collector is about to
                       \* remove; bodies that were removed under such a writer
    faults,
    scene              \* the member of Scenes that is played

rows == <<row, rref, qrow, qref>>
writer == <<wpc, wkind, wref, wsrc>>
collector == <<gpc, batch, freed, gref>>
history == <<late, raced>>

vars == <<row, rref, qrow, qref, stored, wpc, wkind, wref, wsrc, gpc, batch,
          freed, gref, late, raced, faults, scene>>

Init ==
    /\ row = [r \in Rows |-> "free"] /\ rref = [r \in Rows |-> None]
    /\ qrow = [q \in QRows |-> "free"] /\ qref = [q \in QRows |-> None]
    /\ stored = {}
    /\ wpc = [w \in Writers |-> "idle"] /\ wkind = [w \in Writers |-> None]
    /\ wref = [w \in Writers |-> None] /\ wsrc = [w \in Writers |-> None]
    /\ gpc = [g \in Collectors |-> "idle"]
    /\ batch = [g \in Collectors |-> {}] /\ freed = [g \in Collectors |-> {}]
    /\ gref = [g \in Collectors |-> None]
    /\ late = [g \in Collectors |-> FALSE] /\ raced = {}
    /\ faults = 0 /\ scene \in Scenes

------------------------------------------------------------------------------
\* Writers.

Writes(w, kind, f, src) ==
    /\ w \in scene.writers /\ wpc[w] = "idle"
    /\ wpc' = [wpc EXCEPT ![w] = "stat"]
    /\ wkind' = [wkind EXCEPT ![w] = kind]
    /\ wref' = [wref EXCEPT ![w] = f]
    /\ wsrc' = [wsrc EXCEPT ![w] = src]
    /\ UNCHANGED <<rows, stored, collector, history, faults, scene>>

\* A delivery, an APPEND or a draft (MessageAdd), or a submission (submit).
Begin(w) ==
    \E kind \in {"message", "queue"}, f \in Refs : Writes(w, kind, f, None)

\* COPY, MOVE and AddSibling: the body of a message is read and added again, in
\* one transaction under the account's lock.
Copy(w) ==
    \E r \in Rows :
        /\ row[r] = "live" /\ rref[r] \in stored
        /\ Writes(w, "message", rref[r], r)

\* A message of the account is submitted: the Sent copy that the web API has just
\* committed, or the e-mail of a JMAP EmailSubmission.  No lock is held by now.
Send(w) ==
    \E r \in Rows :
        /\ row[r] = "live" /\ rref[r] \in stored
        /\ Writes(w, "queue", rref[r], r)

\* History: the collectors that have decided to remove w's body.
Overtakes(w) ==
    [g \in Collectors |-> late[g] \/ (gpc[g] = "remove" /\ gref[g] = wref[w])]

\* Put: hash the body, look whether its blob exists ...
Put(w) ==
    /\ wpc[w] = "stat"
    /\ wpc' = [wpc EXCEPT ![w] = IF wref[w] \in stored THEN "commit" ELSE "rename"]
    /\ late' = Overtakes(w)
    /\ UNCHANGED <<rows, stored, wkind, wref, wsrc, collector, raced, faults, scene>>

\* ... and move it into place if not.
PutRename(w) ==
    /\ wpc[w] = "rename"
    /\ stored' = stored \union {wref[w]}
    /\ wpc' = [wpc EXCEPT ![w] = "commit"]
    /\ raced' = raced \ {wref[w]}
    /\ UNCHANGED <<rows, wkind, wref, wsrc, collector, late, faults, scene>>

WriterDone(w) ==
    /\ wpc' = [wpc EXCEPT ![w] = "idle"]
    /\ wkind' = [wkind EXCEPT ![w] = None]
    /\ wref' = [wref EXCEPT ![w] = None]
    /\ wsrc' = [wsrc EXCEPT ![w] = None]

\* The row that refers to the body is committed: MessageAdd, EnqueueTx.
Commit(w) ==
    /\ wpc[w] = "commit"
    /\ \/ /\ wkind[w] = "message"
          /\ \E r \in Rows :
               /\ row[r] = "free"
               /\ row' = [row EXCEPT ![r] = "live"]
               /\ rref' = [rref EXCEPT ![r] = wref[w]]
          /\ UNCHANGED <<qrow, qref>>
       \/ /\ wkind[w] = "queue"
          /\ \E q \in QRows :
               /\ qrow[q] = "free"
               /\ qrow' = [qrow EXCEPT ![q] = "live"]
               /\ qref' = [qref EXCEPT ![q] = wref[w]]
          /\ UNCHANGED <<row, rref>>
    /\ WriterDone(w)
    /\ UNCHANGED <<stored, collector, history, faults, scene>>

\* The transaction fails, or the process dies, at any point.
Abort(w) ==
    /\ wpc[w] # "idle"
    /\ faults < scene.faults /\ faults' = faults + 1
    /\ WriterDone(w)
    /\ UNCHANGED <<rows, stored, collector, history, scene>>

\* MessageRemove: a soft delete, under the account's lock.
Expunge(r) ==
    /\ row[r] = "live"
    /\ \A w \in Writers : wsrc[w] = r => wkind[w] = "queue"
    /\ row' = [row EXCEPT ![r] = "expunged"]
    /\ UNCHANGED <<rref, qrow, qref, stored, writer, collector, history, faults, scene>>

\* A queued message is retired or dropped.
Dequeue(q) ==
    /\ qrow[q] = "live"
    /\ qrow' = [qrow EXCEPT ![q] = "gone"]
    /\ UNCHANGED <<row, rref, qref, stored, writer, collector, history, faults, scene>>

------------------------------------------------------------------------------
\* CollectGarbage.

\* FOR UPDATE SKIP LOCKED leaves out the rows of another collector.
Doomed == {r \in Rows : row[r] = "expunged" /\ \A h \in Collectors : r \notin batch[h]}

\* The transaction: select, delete, commit.
Select(g) ==
    /\ gpc[g] = "idle"
    /\ Doomed # {}
    /\ batch' = [batch EXCEPT ![g] = Doomed]
    /\ gpc' = [gpc EXCEPT ![g] = "delete"]
    /\ UNCHANGED <<rows, stored, writer, freed, gref, history, faults, scene>>

FreedBy(g) == {rref[r] : r \in batch[g]}

DeleteRows(g) ==
    /\ gpc[g] = "delete"
    /\ row' = [r \in Rows |-> IF r \in batch[g] THEN "gone" ELSE row[r]]
    /\ freed' = [freed EXCEPT ![g] = FreedBy(g)]
    /\ batch' = [batch EXCEPT ![g] = {}]
    /\ gpc' = [gpc EXCEPT ![g] = "check"]
    /\ UNCHANGED <<rref, qrow, qref, stored, writer, gref, history, faults, scene>>

\* Mutation: the queue is forgotten.
Referenced_NoQueue(f) == \E r \in Rows : row[r] \in {"live", "expunged"} /\ rref[r] = f

\* The re-check: any row of messages, expunged or not, or of queue.
Referenced(f) ==
    \/ \E r \in Rows : row[r] \in {"live", "expunged"} /\ rref[r] = f
    \/ \E q \in QRows : qrow[q] = "live" /\ qref[q] = f

\* Mutation: the first body that is still referenced ends the loop.
RefCheck_Break(g) ==
    /\ gpc[g] = "check"
    /\ \E f \in freed[g] :
         IF Referenced(f)
         THEN freed' = [freed EXCEPT ![g] = {}] /\ UNCHANGED <<gpc, gref>>
         ELSE /\ freed' = [freed EXCEPT ![g] = @ \ {f}]
              /\ gpc' = [gpc EXCEPT ![g] = "remove"]
              /\ gref' = [gref EXCEPT ![g] = f]
    /\ UNCHANGED <<rows, stored, writer, batch, history, faults, scene>>

\* History: a writer has looked for the body, or is about to move it into place.
Awaited(f) == \E w \in Writers : wpc[w] \in {"rename", "commit"} /\ wref[w] = f

RefCheck(g) ==
    /\ gpc[g] = "check"
    /\ \E f \in freed[g] :
         /\ freed' = [freed EXCEPT ![g] = @ \ {f}]
         /\ IF Referenced(f)
            THEN UNCHANGED <<gpc, gref, late>>
            ELSE /\ gpc' = [gpc EXCEPT ![g] = "remove"]
                 /\ gref' = [gref EXCEPT ![g] = f]
                 /\ late' = [late EXCEPT ![g] = Awaited(f)]
    /\ UNCHANGED <<rows, stored, writer, batch, raced, faults, scene>>

Remove(g) ==
    /\ gpc[g] = "remove"
    /\ stored' = stored \ {gref[g]}
    /\ gref' = [gref EXCEPT ![g] = None]
    /\ gpc' = [gpc EXCEPT ![g] = "check"]
    /\ raced' = IF late[g] THEN raced \union {gref[g]} ELSE raced
    /\ late' = [late EXCEPT ![g] = FALSE]
    /\ UNCHANGED <<rows, writer, batch, freed, faults, scene>>

Finish(g) ==
    /\ gpc[g] = "check" /\ freed[g] = {}
    /\ gpc' = [gpc EXCEPT ![g] = "idle"]
    /\ UNCHANGED <<rows, stored, writer, batch, freed, gref, history, faults, scene>>

\* A statement or a blob delete fails, or the process dies: CollectGarbage
\* returns, a transaction still open is rolled back.
Fail(g) ==
    /\ gpc[g] # "idle"
    /\ faults < scene.faults /\ faults' = faults + 1
    /\ gpc' = [gpc EXCEPT ![g] = "idle"]
    /\ batch' = [batch EXCEPT ![g] = {}] /\ freed' = [freed EXCEPT ![g] = {}]
    /\ gref' = [gref EXCEPT ![g] = None]
    /\ late' = [late EXCEPT ![g] = FALSE]
    /\ UNCHANGED <<rows, stored, writer, raced, scene>>

------------------------------------------------------------------------------
Write(w) == Begin(w) \/ Copy(w) \/ Send(w) \/ Put(w) \/ PutRename(w) \/ Commit(w) \/ Abort(w)

CollectGarbage(g) ==
    Select(g) \/ DeleteRows(g) \/ RefCheck(g) \/ Remove(g) \/ Finish(g)

Next ==
    \/ \E w \in Writers : Write(w)
    \/ \E r \in Rows : Expunge(r)
    \/ \E q \in QRows : Dequeue(q)
    \/ \E g \in Collectors : CollectGarbage(g) \/ Fail(g)

Spec == Init /\ [][Next]_vars

\* Every node collects again and again, and a sweep goes on to its end.
FairSpec == Spec /\ \A g \in Collectors : WF_vars(CollectGarbage(g))

------------------------------------------------------------------------------
\* Types of the variables; a row that was inserted has a blob_ref.
TypeOK ==
    /\ row \in [Rows -> {"free", "live", "expunged", "gone"}]
    /\ rref \in [Rows -> Refs \union {None}]
    /\ \A r \in Rows : row[r] = "free" <=> rref[r] = None
    /\ qrow \in [QRows -> {"free", "live", "gone"}]
    /\ qref \in [QRows -> Refs \union {None}]
    /\ stored \subseteq Refs /\ raced \subseteq Refs
    /\ wpc \in [Writers -> {"idle", "stat", "rename", "commit"}]
    /\ wkind \in [Writers -> {None, "message", "queue"}]
    /\ wref \in [Writers -> Refs \union {None}]
    /\ wsrc \in [Writers -> Rows \union {None}]
    /\ gpc \in [Collectors -> {"idle", "delete", "check", "remove"}]
    /\ batch \in [Collectors -> SUBSET Rows]
    /\ \A g, h \in Collectors : g # h => batch[g] \intersect batch[h] = {}
    /\ freed \in [Collectors -> SUBSET Refs]
    /\ gref \in [Collectors -> Refs \union {None}]
    /\ late \in [Collectors -> BOOLEAN]
    /\ scene \in Scenes /\ faults \in 0 .. scene.faults

\* A committed row of messages that is live, or of queue, refers to a blob that
\* exists: "never a live row pointing at a missing blob" (gc.go).  The re-check
\* "is authoritative at delete time" for every committed row; what it cannot see is
\* a writer that has looked for the body, or stored it, and commits its row later,
\* so a body removed under such a writer is the one exception.
BodyExists ==
    /\ \A r \in Rows : row[r] = "live" => rref[r] \in stored \union raced
    /\ \A q \in QRows : qrow[q] = "live" => qref[q] \in stored \union raced

\* A stored blob that no row refers to and no writer is about to.
Orphan(f) ==
    /\ f \in stored /\ ~Referenced(f)
    /\ \A w \in Writers : wref[w] # f

\* A body that was never queued and whose last row a sweep has deleted is deleted
\* too, as long as no sweep fails: two collectors that each delete one of its rows
\* do not leave it to each other.
Reclaimed ==
    \A f \in Refs :
        (/\ Orphan(f)
         /\ \E r \in Rows : row[r] = "gone" /\ rref[r] = f
         /\ \A q \in QRows : qref[q] # f) ~> (~Orphan(f) \/ faults > 0)

=============================================================================

------------------------------ MODULE Mailstore ------------------------------
(***************************************************************************)
(* One account of the change-log store (storage/postgres): its mailboxes,  *)
(* messages, counters, quota and change log, the IMAP, JMAP and web API    *)
(* operations that change them, and the two ways a client catches up: IMAP *)
(* QRESYNC (imapd qresyncReport) and JMAP Email/changes (EmailChanges).    *)
(*                                                                         *)
(* Tx holds the account's advisory lock, so a transaction is one step; its *)
(* body is a composition of operators from a database to a database.  A    *)
(* transaction that fails (quota, taken name) is rolled back.              *)
(***************************************************************************)
EXTENDS Integers, FiniteSets, Sequences, SequencesExt, FiniteSetsExt

CONSTANTS
    Names,      \* mailbox names; deliveries go to Inbox
    Inbox,
    Sizes,      \* sizes of messages
    Quota,      \* accounts.quota_bytes
    MaxMsgs, MaxBoxes, MaxHead, \* bounds on rows and on the log
    OpSets,     \* the sets of operations explored together
    MaxChanges, \* maxChanges of a client that pages Email/changes
    None

ASSUME StoreAssumption ==
    /\ Inbox \in Names /\ Sizes \subseteq Nat /\ Quota \in Nat
    /\ {MaxMsgs, MaxBoxes, MaxHead, MaxChanges} \subseteq Nat

Flags == {"seen", "deleted"}

VARIABLES
    ops,   \* the operations of this behaviour
    db,    \* the account's rows
    imap,  \* an IMAP client's copy of a mailbox and how far its SELECT has got
    jmap,  \* a JMAP client's copy of the account
    combined  \* a patch has changed keywords and mailboxIds together

vars == <<ops, db, imap, jmap, combined>>

Ids == 1 .. MaxMsgs
NoMsg == [state |-> "free"]

\* Rows as sets of ids.
BoxIds(d) == DOMAIN d.box
HasState(d, i, s) == d.msg[i].state = s
Live(d) == {i \in Ids : HasState(d, i, "live")}
LiveIn(d, b) == {i \in Live(d) : d.msg[i].mailbox = b}
Group(d, e) == {i \in Live(d) : d.msg[i].email = e}
Emails(d) == {d.msg[i].email : i \in Live(d)}

\* findMailbox, by name; QueryMailbox().List() and findMailboxByID.
findMailbox(d, name) == {b \in BoxIds(d) : d.box[b].name = name /\ ~d.box[b].expunged}
Listed(d) == {b \in BoxIds(d) : ~d.box[b].expunged}

Init ==
    /\ ops \in OpSets
    /\ db = [head |-> 0, uvnext |-> 1, box |-> <<>>, msg |-> [i \in Ids |-> NoMsg],
             log |-> <<>>, used |-> 0, ok |-> TRUE]
    /\ imap = [pc |-> "none"]
    /\ jmap = [state |-> None]
    /\ combined = FALSE

------------------------------------------------------------------------------
\* The pieces a transaction is made of (account.go, message.go, tx.go, mailbox.go).

\* nextModSeq and record: a change takes the next position of the log, which for
\* a change of a message or mailbox is its modseq.
record(d, change) ==
    [d EXCEPT !.head = @ + 1, !.log = Append(@, change)]

bumpCounts(d, b, dTotal, dSize, dUnseen, dDeleted) ==
    [d EXCEPT !.box[b].total = @ + dTotal, !.box[b].size = @ + dSize,
              !.box[b].unseen = @ + dUnseen, !.box[b].deleted = @ + dDeleted]

NotIn(f, fl) == IF f \in fl THEN 0 ELSE 1

nextUIDValidity(d) == [d EXCEPT !.uvnext = @ + 1]

\* ensureMailbox; a mailbox created for a delivery is subscribed as well.
ensureMailbox(d, name, subscribe) ==
    IF findMailbox(d, name) # {} THEN d
    ELSE LET d1 == nextUIDValidity(d)
             row == [name |-> name, uidvalidity |-> d.uvnext, uidnext |-> 1,
                     modseq |-> d.head + 1, expunged |-> FALSE,
                     total |-> 0, size |-> 0, unseen |-> 0, deleted |-> 0]
             d2 == record([d1 EXCEPT !.box = Append(@, row)],
                          [kind |-> "addmailbox", mailbox |-> Len(d.box) + 1, name |-> name])
         IN  IF subscribe THEN record(d2, [kind |-> "subscribe", name |-> name]) ELSE d2

\* The mailbox of that name after ensureMailbox.
TheMailbox(d, name) == CHOOSE b \in BoxIds(d) : b \in findMailbox(d, name)

NextId(d) == Cardinality({i \in Ids : ~HasState(d, i, "free")}) + 1

CanAddMessageSize(d, size) == d.used + size <= Quota

\* MessageAdd into mailbox b; email = None makes the row an e-mail of its own.
MessageAdd(d, b, flags, size, email) ==
    IF ~CanAddMessageSize(d, size) THEN [d EXCEPT !.ok = FALSE]
    ELSE LET i == NextId(d)
             e == IF email = None THEN i ELSE email
             row == [state |-> "live", mailbox |-> b, uid |-> d.box[b].uidnext,
                     createseq |-> d.head + 1, modseq |-> d.head + 1,
                     flags |-> flags, size |-> size, email |-> e]
             d1 == [d EXCEPT !.box[b].uidnext = @ + 1, !.msg[i] = row, !.used = @ + size]
             d2 == bumpCounts(d1, b, 1, size, NotIn("seen", flags), 1 - NotIn("deleted", flags))
         IN  record(d2, [kind |-> "add", mailbox |-> b, uid |-> row.uid, email |-> e,
                         existed |-> email # None, flags |-> flags])

\* Mutation: c_deleted is left to the expunge.
Update_NoDeleted(d, i, m, flags) ==
    LET old == d.msg[i].flags
        d1 == [d EXCEPT !.msg[i].flags = flags, !.msg[i].modseq = d.head + 1]
        d2 == bumpCounts(d1, m.mailbox, 0, 0, NotIn("seen", flags) - NotIn("seen", old), 0)
    IN  record(d2, [kind |-> "flags", mailbox |-> m.mailbox, uid |-> m.uid,
                    email |-> m.email, flags |-> flags])

\* Mutation: the row keeps its modseq.
Update_NoModSeq(d, i, m, flags) ==
    LET old == d.msg[i].flags
        d2 == bumpCounts([d EXCEPT !.msg[i].flags = flags], m.mailbox, 0, 0,
                         NotIn("seen", flags) - NotIn("seen", old),
                         NotIn("deleted", old) - NotIn("deleted", flags))
    IN  record(d2, [kind |-> "flags", mailbox |-> m.mailbox, uid |-> m.uid,
                    email |-> m.email, flags |-> flags])

\* Update of row i, read as m: the counters move by the difference to the row.
Update(d, i, m, flags) ==
    LET old == d.msg[i].flags
        d1 == [d EXCEPT !.msg[i].flags = flags, !.msg[i].modseq = d.head + 1]
        d2 == bumpCounts(d1, m.mailbox, 0, 0,
                         NotIn("seen", flags) - NotIn("seen", old),
                         NotIn("deleted", old) - NotIn("deleted", flags))
    IN  record(d2, [kind |-> "flags", mailbox |-> m.mailbox, uid |-> m.uid,
                    email |-> m.email, flags |-> flags])

\* MessageRemove of the rows S of mailbox b, read as ms: the counters move by the
\* flags and sizes that were read.
MessageRemove(d, b, S, ms) ==
    LET size == MapThenSumSet(LAMBDA i : ms[i].size, S)
        d1 == [d EXCEPT !.msg = [i \in Ids |-> IF i \in S
                                 THEN [d.msg[i] EXCEPT !.state = "expunged", !.modseq = d.head + 1]
                                 ELSE d.msg[i]],
                        !.used = @ - size]
        d2 == bumpCounts(d1, b, -Cardinality(S), -size,
                         -MapThenSumSet(LAMBDA i : NotIn("seen", ms[i].flags), S),
                         -Cardinality({i \in S : "deleted" \in ms[i].flags}))
    IN  record(d2, [kind |-> "remove", mailbox |-> b, uids |-> {ms[i].uid : i \in S},
                    emails |-> {ms[i].email : i \in S}])

InOrder(S) == SetToSortSeq(S, <)

------------------------------------------------------------------------------
\* A transaction commits when it succeeded; rows and log stay within the bounds.
Fits(d) == Len(d.box) <= MaxBoxes /\ d.head <= MaxHead

Room(n) == NextId(db) + n - 1 <= MaxMsgs

TxOf(op, d, both) ==
    /\ op \in ops
    /\ d.ok /\ Fits(d)
    /\ db' = d
    /\ combined' = (combined \/ both)
    /\ UNCHANGED <<ops, imap, jmap>>

Tx(op, d) == TxOf(op, d, FALSE)

\* DeliverMailbox: an inbound message; the same body with other flags is APPEND,
\* a draft or a Sent copy.
DeliverMailbox ==
    \E size \in Sizes :
        /\ Room(1)
        /\ LET d == ensureMailbox(db, Inbox, TRUE)
           IN  Tx("deliver", MessageAdd(d, TheMailbox(d, Inbox), {}, size, None))

cmdAppend ==
    \E name \in Names, size \in Sizes, flags \in SUBSET Flags :
        /\ Room(1)
        /\ LET d == ensureMailbox(db, name, FALSE)
           IN  Tx("append", MessageAdd(d, TheMailbox(d, name), flags, size, None))

\* STORE and UID STORE on the selected mailbox, which another session may have
\* deleted meanwhile; with UNCHANGEDSINCE fewer messages are chosen.
cmdStore ==
    \E b \in BoxIds(db), f \in Flags, on \in BOOLEAN :
        \E S \in (SUBSET LiveIn(db, b)) \ {{}} :
            LET set(d, i) == Update(d, i, db.msg[i],
                                    IF on THEN db.msg[i].flags \union {f}
                                    ELSE db.msg[i].flags \ {f})
            IN  Tx("store", FoldLeft(set, db, InOrder(S)))

\* EXPUNGE, UID EXPUNGE and CLOSE.
cmdExpunge ==
    \E b \in BoxIds(db) :
        \E S \in (SUBSET {i \in LiveIn(db, b) : "deleted" \in db.msg[i].flags}) \ {{}} :
            Tx("expunge", MessageRemove(db, b, S, db.msg))

\* COPY and MOVE: copies are e-mails of their own.
cmdCopyMove ==
    \E b \in BoxIds(db), dst \in Names, move \in BOOLEAN :
        \E S \in (SUBSET LiveIn(db, b)) \ {{}} :
            /\ Room(Cardinality(S))
            /\ LET d0 == ensureMailbox(db, dst, FALSE)
                   copy(d, i) == MessageAdd(d, TheMailbox(d0, dst), db.msg[i].flags,
                                            db.msg[i].size, None)
                   d1 == FoldLeft(copy, d0, InOrder(S))
               IN  Tx("copy", IF move THEN MessageRemove(d1, b, S, db.msg) ELSE d1)

\* REPLACE, and the web API's update of a draft: add the new one, expunge the old.
cmdReplace ==
    \E b \in BoxIds(db), name \in Names, size \in Sizes, flags \in SUBSET Flags :
        \E i \in LiveIn(db, b) :
            /\ Room(1)
            /\ LET d0 == ensureMailbox(db, name, FALSE)
                   d1 == MessageAdd(d0, TheMailbox(d0, name), flags, size, None)
               IN  Tx("replace", MessageRemove(d1, b, {i}, db.msg))

\* Mailbox CREATE, DELETE and RENAME, by IMAP and JMAP Mailbox/set.
cmdCreate ==
    \E name \in Names :
        /\ findMailbox(db, name) = {}
        /\ Tx("create", ensureMailbox(db, name, FALSE))

MailboxDelete ==
    \E b \in Listed(db) :
        Tx("mailbox",
           record([db EXCEPT !.box[b].expunged = TRUE, !.box[b].modseq = db.head + 1],
                  [kind |-> "removemailbox", mailbox |-> b]))

\* The partial unique index rejects a name that is taken.
MailboxRename ==
    \E b \in Listed(db), dst \in Names :
        /\ findMailbox(db, dst) \subseteq {b}
        /\ Tx("mailbox",
              record([db EXCEPT !.box[b].name = dst, !.box[b].modseq = db.head + 1],
                     [kind |-> "renamemailbox", mailbox |-> b, name |-> dst]))

------------------------------------------------------------------------------
\* JMAP Email/set and the web API's PATCH and DELETE.

\* tx.Update of every row of the group.
SetKeywords(d, G, flags) ==
    LET set(x, i) == Update(x, i, db.msg[i], flags)
    IN  FoldLeft(set, d, InOrder(G))

\* AddSibling of the group's first row, as it was read.
AddSibling(d, rep, b) == MessageAdd(d, b, rep.flags, rep.size, rep.email)

AddTo(d, rep, B) ==
    LET add(x, b) == AddSibling(x, rep, b)
    IN  FoldLeft(add, d, InOrder(B))

\* The rows in mailboxes that still exist are removed one by one.
RemoveRows(d, G) ==
    LET remove(x, i) == MessageRemove(x, db.msg[i].mailbox, {i}, db.msg)
    IN  FoldLeft(remove, d, InOrder({i \in G : db.msg[i].mailbox \in Listed(db)}))

\* emailUpdate: the keyword part, then the mailboxIds part, both from the group as
\* it was read at the start.
emailUpdate ==
    \E e \in Emails(db), kw \in (SUBSET Flags) \union {None},
       want \in (SUBSET BoxIds(db)) \union {None} :
        /\ kw # None \/ want # None
        /\ LET G == Group(db, e)
               now == {db.msg[i].mailbox : i \in G}
               rep == db.msg[CHOOSE i \in G : \A j \in G : db.msg[i].mailbox <= db.msg[j].mailbox]
               d1 == IF kw = None THEN db ELSE SetKeywords(db, G, kw)
               both == kw # None /\ want # None
           IN  IF want = None THEN TxOf("email", d1, both)
               ELSE /\ Room(Cardinality(want \ now))
                    /\ IF want \ now \subseteq Listed(db)
                       THEN TxOf("email",
                                 RemoveRows(AddTo(d1, rep, want \ now),
                                            {i \in G : db.msg[i].mailbox \notin want}), both)
                       \* notUpdated, but the transaction goes on and commits
                       ELSE \E B \in SUBSET ((want \ now) \intersect Listed(db)) :
                               TxOf("email", AddTo(d1, rep, B), both)

\* Email/set destroy.
emailDestroy ==
    \E e \in Emails(db) :
        Tx("email", RemoveRows(db, Group(db, e)))

\* CollectGarbage hard-deletes expunged rows, without the account's lock.
CollectGarbage ==
    LET dead == {i \in Ids : HasState(db, i, "expunged")}
    IN  /\ dead # {}
        /\ Tx("gc", [db EXCEPT !.msg = [i \in Ids |->
                        IF i \in dead THEN [db.msg[i] EXCEPT !.state = "gone"] ELSE db.msg[i]]])

------------------------------------------------------------------------------
\* An IMAP client.  A view maps the UIDs of a mailbox to their flags.

View(d, b) ==
    [u \in {d.msg[i].uid : i \in LiveIn(d, b)} |->
        (CHOOSE m \in {d.msg[i] : i \in LiveIn(d, b)} : m.uid = u).flags]

\* A first SELECT and a FETCH of everything; the client may resynchronise later
\* from HIGHESTMODSEQ as it was reported, or from any modseq it has seen since.
cmdSelect ==
    \E b \in Listed(db) :
        \E since \in db.box[b].modseq .. db.head :
            /\ "select" \in ops /\ imap.pc = "none"
            /\ imap' = [pc |-> "away", name |-> db.box[b].name,
                        uidvalidity |-> db.box[b].uidvalidity, modseq |-> since,
                        view |-> View(db, b)]
            /\ UNCHANGED <<ops, db, jmap, combined>>

\* The mailbox the client knows, if there is one of that name and UIDVALIDITY.
Known(d) ==
    {b \in findMailbox(d, imap.name) : d.box[b].uidvalidity = imap.uidvalidity}

\* SELECT with QRESYNC: the transaction reads the mailbox and its messages ...
cmdSelectQResync ==
    /\ imap.pc = "away"
    /\ \E b \in Known(db) :
         imap' = [imap EXCEPT !.pc = "reading"]
                   @@ [box |-> b, at |-> db.head,
                       msgs |-> {db.msg[i] : i \in LiveIn(db, b)}]
    /\ UNCHANGED <<ops, db, jmap, combined>>

\* Mutation: VANISHED is taken from the rows that are still there.
ExpungedUIDsSince_Rows(d, b, since) ==
    {d.msg[i].uid : i \in {j \in Ids : HasState(d, j, "expunged")
                             /\ d.msg[j].mailbox = b /\ d.msg[j].modseq > since}}

ExpungedUIDsSince(d, b, since) ==
    UNION {d.log[s].uids : s \in {x \in since + 1 .. d.head :
                                    d.log[x].kind = "remove" /\ d.log[x].mailbox = b}}

\* ... and qresyncReport reads the log after it.  The client drops what vanished
\* and then takes over what is listed as changed.
qresyncReport ==
    /\ imap.pc = "reading"
    /\ LET gone == ExpungedUIDsSince(db, imap.box, imap.modseq)
           changed == {m \in imap.msgs : m.modseq > imap.modseq}
           view == [u \in (DOMAIN imap.view \ gone) \union {m.uid : m \in changed} |->
                      IF \E m \in changed : m.uid = u
                      THEN (CHOOSE m \in changed : m.uid = u).flags
                      ELSE imap.view[u]]
       IN  imap' = [pc |-> "synced", box |-> imap.box, view |-> view,
                   at |-> imap.at, head |-> db.head]
    /\ UNCHANGED <<ops, db, jmap, combined>>

------------------------------------------------------------------------------
\* A JMAP client.

\* Email/get of everything: mailboxIds, and the keywords of each row.
Contents(d) ==
    [e \in Emails(d) |-> {<<d.msg[i].mailbox, d.msg[i].flags>> : i \in Group(d, e)}]

emailGet ==
    /\ "get" \in ops /\ jmap.state = None
    /\ jmap' = [state |-> db.head, emails |-> Contents(db)]
    /\ UNCHANGED <<ops, db, imap, combined>>

\* changeEmailIDs: the e-mails a change is about, and whether they existed before.
changeEmailIDs(c) ==
    CASE c.kind \in {"add", "flags"} -> {c.email}
      [] c.kind = "remove" -> c.emails
      [] OTHER -> {}

ExistedBefore(c) == IF c.kind = "add" THEN c.existed ELSE TRUE

Impacts(from, to) == UNION {changeEmailIDs(db.log[s]) : s \in from + 1 .. to}

\* emailExistsAt: by the rows, as far as they have not been collected.
emailExistsAt(e, s) ==
    \E i \in Ids :
        /\ HasState(db, i, "live") \/ HasState(db, i, "expunged")
        /\ db.msg[i].email = e /\ db.msg[i].createseq <= s
        /\ HasState(db, i, "live") \/ db.msg[i].modseq > s

\* Mutation: the rows alone decide what existed at the old state.
ExistedAt_Rows(e, since, position) == emailExistsAt(e, since)

\* By the rows, or by the first change that is about the e-mail.
ExistedAt(e, since, position) ==
    \/ emailExistsAt(e, since)
    \/ LET s == Min({x \in since + 1 .. position : e \in changeEmailIDs(db.log[x])})
       IN  ExistedBefore(db.log[s])

\* EmailChanges: as many changes as concern at most max e-mails.
EmailChanges(since, max) ==
    LET position == Max({p \in since .. db.head : Cardinality(Impacts(since, p)) <= max})
        ids == Impacts(since, position)
        old(e) == ExistedAt(e, since, position)
        new(e) == emailExistsAt(e, position)
    IN  [newState |-> position,
         cannot |-> position < db.head /\ ids = {},
         created |-> {e \in ids : ~old(e) /\ new(e)},
         updated |-> {e \in ids : old(e) /\ new(e)},
         destroyed |-> {e \in ids : old(e) /\ ~new(e)}]

------------------------------------------------------------------------------
Change ==
    \/ DeliverMailbox \/ cmdAppend \/ cmdStore \/ cmdExpunge \/ cmdCopyMove \/ cmdReplace
    \/ cmdCreate \/ MailboxDelete \/ MailboxRename
    \/ emailUpdate \/ emailDestroy
    \/ CollectGarbage

Next ==
    \/ Change
    \/ cmdSelect \/ cmdSelectQResync \/ qresyncReport
    \/ emailGet

Spec == Init /\ [][Next]_vars

------------------------------------------------------------------------------
\* Types of the variables; a committed database is one whose transaction succeeded.
TypeOK ==
    /\ db.head \in 0 .. MaxHead /\ db.uvnext \in 1 .. MaxBoxes + 1 /\ db.ok
    /\ Len(db.log) = db.head
    /\ \A b \in BoxIds(db) :
         /\ db.box[b].name \in Names
         /\ db.box[b].uidvalidity \in 1 .. db.uvnext - 1
         /\ db.box[b].uidnext \in 1 .. MaxMsgs + 1
         /\ db.box[b].modseq \in 1 .. db.head
    /\ \A i \in Ids : ~HasState(db, i, "free") =>
         /\ db.msg[i].state \in {"live", "expunged", "gone"}
         /\ db.msg[i].mailbox \in BoxIds(db)
         /\ db.msg[i].createseq <= db.msg[i].modseq /\ db.msg[i].modseq <= db.head
         /\ db.msg[i].flags \subseteq Flags
    /\ imap.pc \in {"none", "away", "reading", "synced"}
    /\ jmap.state \in 0 .. MaxHead \union {None}

\* A mailbox's counters are what counting its messages gives, after any sequence
\* of adds, flag changes, copies, moves and expunges: "Keep the mailbox
\* unseen/unread AND deleted projections in step with the flag change" (tx.go).
\* The exception is a JMAP patch of keywords and mailboxIds together, whose two
\* parts each move the unseen and deleted counters of the rows that it removes.
\* The bytes counted against the account's quota are those of its messages, and
\* never more than the limit, which a copy of many messages may reach in the
\* middle of its transaction (CanAddMessageSize, bumpQuota).
CountsAgree ==
    /\ \A b \in BoxIds(db) :
        LET L == LiveIn(db, b)
        IN  /\ db.box[b].total = Cardinality(L)
            /\ db.box[b].size = MapThenSumSet(LAMBDA i : db.msg[i].size, L)
            /\ ~combined =>
                 /\ db.box[b].unseen = Cardinality({i \in L : "seen" \notin db.msg[i].flags})
                 /\ db.box[b].deleted = Cardinality({i \in L : "deleted" \in db.msg[i].flags})
    /\ db.used = MapThenSumSet(LAMBDA i : db.msg[i].size, Live(db))
    /\ db.used <= Quota

\* What the log says of mailboxes and messages: positions of its entries.
Positions(kinds, b) ==
    {s \in 1 .. db.head : db.log[s].kind \in kinds /\ db.log[s].mailbox = b}
About(b, u) == {s \in Positions({"add", "flags"}, b) : db.log[s].uid = u}
Added(b) == {db.log[s].uid : s \in Positions({"add"}, b)}
Removed(b) == UNION {db.log[s].uids : s \in Positions({"remove"}, b)}

\* The rows of mailboxes and messages can be rebuilt from the log: which exist,
\* their names, flags and modseqs ("derived, rebuildable folds of the log",
\* 03_projections.sql).
ProjectionIsFold ==
    /\ Listed(db) = {b \in BoxIds(db) : Positions({"removemailbox"}, b) = {}}
    /\ \A b \in BoxIds(db) :
         /\ db.box[b].name = db.log[Max(Positions({"addmailbox", "renamemailbox"}, b))].name
         /\ {db.msg[i].uid : i \in LiveIn(db, b)} = Added(b) \ Removed(b)
         /\ \A i \in LiveIn(db, b) :
              LET last == Max(About(b, db.msg[i].uid))
              IN  /\ db.msg[i].modseq = last
                  /\ db.msg[i].flags = db.log[last].flags
                  /\ db.msg[i].createseq = Min(About(b, db.msg[i].uid))

\* The UIDs of b that the log mentions after position since.
Touched(b, since) ==
    {u \in Added(b) : \E s \in About(b, u) : s > since} \union ExpungedUIDsSince(db, b, since)

\* A client that has just resynchronised has exactly the mailbox's messages and
\* flags, whatever happened since it was there last: messages expunged and
\* collected, mailboxes renamed, deleted and created again ("so a reconnecting
\* client converges its view", qresyncReport). Only a message that was changed
\* between the two reads of the answer may be out of date.
QResyncConverges ==
    (imap.pc = "synced" /\ imap.head = db.head) =>
        LET now == View(db, imap.box)
        IN  \A u \in (DOMAIN imap.view \union DOMAIN now) \ Touched(imap.box, imap.at) :
                /\ u \in DOMAIN imap.view /\ u \in DOMAIN now
                /\ imap.view[u] = now[u]

\* The e-mails a client learns of that pages through Email/changes from a state.
Paged[s \in 0 .. MaxHead] ==
    IF s >= db.head THEN [ok |-> TRUE, ids |-> {}]
    ELSE LET c == EmailChanges(s, MaxChanges)
         IN  IF c.cannot THEN [ok |-> FALSE, ids |-> {}]
             ELSE LET rest == Paged[c.newState]
                  IN  [ok |-> rest.ok,
                       ids |-> rest.ids \union c.created \union c.updated \union c.destroyed]

\* A client that follows Email/changes page by page and fetches what was created
\* or updated ends with the account's e-mails: no change is skipped between two
\* pages, whatever their size, unless the server says it cannot tell. One page up
\* to now says exactly what came and what went, although the rows of destroyed
\* e-mails may have been collected ("stable Email identity transitions",
\* email_changes.go).
JmapConverges ==
    jmap.state # None =>
        LET p == Paged[jmap.state]
            c == EmailChanges(jmap.state, MaxMsgs)
        IN  /\ p.ok => \A e \in (DOMAIN jmap.emails \union Emails(db)) \ p.ids :
                          /\ e \in DOMAIN jmap.emails /\ e \in Emails(db)
                          /\ jmap.emails[e] = Contents(db)[e]
            /\ c.created = Emails(db) \ DOMAIN jmap.emails
            /\ c.destroyed = DOMAIN jmap.emails \ Emails(db)

=============================================================================

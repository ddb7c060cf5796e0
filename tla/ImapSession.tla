---------------------------- MODULE ImapSession ----------------------------
(***************************************************************************)
(* One IMAP connection (protocol/imapd) and the client at its other end.   *)
(*                                                                         *)
(* The server keeps no snapshot of the selected mailbox: every command     *)
(* lists the mailbox again and numbers the messages by position.  The      *)
(* client numbers them by what it has been told, so the two numberings     *)
(* agree only if the responses are right.  Three writers share the         *)
(* connection: the command loop, whose responses are computed in a         *)
(* transaction and written after it; IDLE, which pushes changes while it   *)
(* lasts; and the NOTIFY pusher, a goroutine that writes at any time and   *)
(* may outlive the registration it was started for.  Other sessions and    *)
(* deliveries change the mailboxes meanwhile.                              *)
(*                                                                         *)
(* A connection is used for one thing at a time: "client" is the set of    *)
(* commands its client issues, chosen at the start from Clients.  A client *)
(* that does not issue LOGIN starts logged in, over TLS.                   *)
(***************************************************************************)
EXTENDS ImapQueries

CONSTANTS
    Box,            \* mailboxes of the account
    Start,          \* [Box -> sequence of kinds]: the messages at the start
    Kinds,          \* contents of new messages
    Attr,           \* what SEARCH, SORT and THREAD look at in each content
    Clients,        \* sets of commands, one of which the client uses
    Sets,           \* message sets the client writes
    Sinces,         \* MODSEQs of CHANGEDSINCE/UNCHANGEDSINCE, -1 for none
    Criteria,       \* SEARCH criteria, as trees
    SortKeys,       \* SORT key lists
    Names, Subscribed, Patterns,    \* LIST: mailbox names and patterns
    MaxSize,        \* bytes one command may retain, 0 for no limit
    Batches,        \* APPEND commands: sequences of sequences of parts
    Minters,        \* connections that use URLAUTH
    TLSConfig,      \* is TLS configured?
    MaxFails,       \* failed logins the limiter's window allows
    None,           \* nothing selected, listening, asked or answered
    MaxHead,        \* [Clients -> Nat]: bound on the commits beside each client
    MaxUid, MaxQueue, MaxKey  \* bounds on UIDs, unread changes, URLAUTH keys

ASSUME ImapAssumption ==
    /\ MaxSize \in Nat /\ MaxFails \in Nat /\ MaxUid \in Nat
    /\ MaxHead \in [Clients -> Nat] /\ MaxQueue \in Nat /\ MaxKey \in Nat /\ TLSConfig \in BOOLEAN
    /\ \A s \in Sinces : s \in Int /\ s >= -1

VARIABLES
    box,        \* [Box -> [list, next]]: messages in UID order, next UID
    head,       \* the account's last MODSEQ
    conn,       \* the connection's state
    pend,       \* responses of the running command, not yet written
    comm,       \* [idle, notify] -> registered change listener or None
    late,       \* changes a stopped pusher had taken and has yet to write
    fails,      \* failed logins in the limiter's window
    client,     \* the commands the client issues
    view,       \* client: UID (0 if not known) of each sequence number
    lost,       \* may the client's numbers be wrong, for a reason SeqAgrees names?
    search,     \* the running SEARCH: its tree and the hits read for it
    indexed,    \* messages the full-text projection has indexed
    ans,        \* the last answer to a query
    held,       \* bytes the last APPEND retained
    url         \* URLAUTH: keys, pending mints, URLs handed out

vars == <<box, head, conn, pend, comm, late, fails, client, view, lost,
          search, indexed, ans, held, url>>

mail == <<box, head>>
wire == <<pend, comm, late, view, lost>>
query == <<search, indexed, ans>>

-----------------------------------------------------------------------------
(* Mailboxes.  A commit gives each changed row a MODSEQ and broadcasts its *)
(* changes to every registered listener.                                   *)

List(b) == box[b].list
UidsOf(list) == [i \in DOMAIN list |-> list[i].uid]
LastUid(list) == IF list = <<>> THEN 0 ELSE Last(list).uid

Row(b, kind, flags) == [uid |-> box[b].next, kind |-> kind, flags |-> flags, mod |-> head + 1]

(* Appending messages to b gives them the next UIDs. *)
Added(bx, b, rows) ==
    [bx EXCEPT ![b] = [list |-> @.list \o [i \in DOMAIN rows |-> [rows[i] EXCEPT !.uid = bx[b].next + i - 1]],
                       next |-> @.next + Len(rows)]]

Removed(bx, b, uids) == [bx EXCEPT ![b].list = SelectSeq(@, LAMBDA m : m.uid \notin uids)]

Heard(c, changes) == IF c = None THEN None ELSE [c EXCEPT !.q = @ \o changes]

(* Every commit: new contents, one MODSEQ, a broadcast. *)
Commit(bx, changes) ==
    /\ head < MaxHead[client]
    /\ \A b \in Box : bx[b].next <= MaxUid + 1
    /\ \A w \in DOMAIN comm : comm[w] # None => Len(comm[w].q) + Len(changes) <= MaxQueue
    /\ box' = bx
    /\ head' = head + 1

Broadcast(cm, changes) == [w \in DOMAIN cm |-> Heard(cm[w], changes)]

AddUID(b) == [kind |-> "add", box |-> b, uids |-> {}]
FlagsOf(b, u) == [kind |-> "flags", box |-> b, uids |-> {u}]
RemoveUIDs(b, us) == [kind |-> "remove", box |-> b, uids |-> us]

-----------------------------------------------------------------------------
(* The client: what a response line does to its numbering.                 *)

Line(kind, n, uids) == [kind |-> kind, n |-> n, uids |-> uids]
Exists(n) == Line("exists", n, {})
Expunge(n) == Line("expunge", n, {})
Vanished(us) == Line("vanished", 0, us)
Fetched(n, u) == Line("fetch", n, {u})

Hear(v, line) ==
    CASE line.kind = "exists" ->
           [i \in 1 .. line.n |-> IF i <= Len(v) THEN v[i] ELSE 0]
      [] line.kind = "expunge" ->
           IF line.n <= Len(v) THEN RemoveAt(v, line.n) ELSE v
      [] line.kind = "vanished" -> SelectSeq(v, LAMBDA u : u \notin line.uids)
      [] line.kind = "fetch" ->
           IF line.n <= Len(v) THEN [v EXCEPT ![line.n] = CHOOSE u \in line.uids : TRUE] ELSE v

(* The client has heard v; once misled, it has no numbering to speak of.   *)
Told(v, misled) ==
    /\ lost' = (lost \/ misled)
    /\ view' = IF lost \/ misled THEN <<>> ELSE v

(* A UID the client must remove and cannot place. *)
Unplaced(v, line) == line.kind = "vanished" /\ line.uids \ ToSet(v) # {} /\ 0 \in ToSet(v)

Initially(b) == [i \in DOMAIN Start[b] |-> [uid |-> i, kind |-> Start[b][i], flags |-> {}, mod |-> 0]]

Init ==
    /\ client \in Clients
    /\ box = [b \in Box |-> [list |-> Initially(b), next |-> Len(Start[b]) + 1]]
    /\ head = 0
    /\ conn = [open |-> TRUE, tls |-> "login" \notin client, compress |-> FALSE,
               acc |-> "login" \notin client, sel |-> None,
               ro |-> FALSE, qresync |-> FALSE, uidonly |-> FALSE, saved |-> {}]
    /\ pend = <<>>
    /\ comm = [idle |-> None, notify |-> None]
    /\ late = {}
    /\ fails = 0
    /\ view = <<>>
    /\ lost = FALSE
    /\ search = None
    /\ indexed = [b \in Box |-> 1 .. Len(Start[b])]
    /\ ans = None
    /\ held = 0
    /\ url = [key |-> [b \in Box |-> 0], last |-> 0, asked |-> [k \in Minters |-> None],
              urls |-> {}, raced |-> {}, revoked |-> {}]

(* The command loop reads a command when it has answered the last one. *)
Ready(cmd) == conn.open /\ pend = <<>> /\ comm.idle = None /\ search = None /\ ans = None /\ cmd \in client
Authed(cmd) == Ready(cmd) /\ conn.acc
Selected(cmd) == Authed(cmd) /\ conn.sel # None
BySeq(byUID) == byUID \/ ~conn.uidonly
-----------------------------------------------------------------------------
(* Connecting and logging in.                                              *)

StartTLS ==
    /\ Ready("starttls") /\ TLSConfig /\ ~conn.tls
    /\ \/ conn' = [conn EXCEPT !.tls = TRUE]
       \/ conn' = [conn EXCEPT !.open = FALSE]      \* the handshake failed
    /\ UNCHANGED <<mail, wire, fails, client, query, held, url>>

Compress ==
    /\ Authed("compress") /\ ~conn.compress
    /\ conn' = [conn EXCEPT !.compress = TRUE]
    /\ UNCHANGED <<mail, wire, fails, client, query, held, url>>

(* Plaintext LOGIN needs TLS where TLS is configured; a full window refuses *)
(* before the password is looked at, and only failures fill the window.    *)
Login(good) ==
    /\ Ready("login") /\ ~conn.acc
    /\ TLSConfig => conn.tls
    /\ fails < MaxFails
    /\ IF good THEN conn' = [conn EXCEPT !.acc = TRUE] /\ UNCHANGED fails
               ELSE fails' = fails + 1 /\ UNCHANGED conn
    /\ UNCHANGED <<mail, wire, client, query, held, url>>

(* SCRAM: allowed before TLS, its channel-binding form only over TLS.  A   *)
(* failed proof is counted; a connection lost between the messages closes. *)
Authenticate(plus, outcome) ==
    /\ Ready("auth") /\ ~conn.acc
    /\ plus => conn.tls
    /\ fails < MaxFails
    /\ conn' = [conn EXCEPT !.acc = (outcome = "proved"), !.open = (outcome # "lost")]
    /\ fails' = fails + (IF outcome = "failed" THEN 1 ELSE 0)
    /\ UNCHANGED <<mail, wire, client, query, held, url>>

WindowRolls ==
    /\ fails > 0
    /\ fails' = 0
    /\ UNCHANGED <<mail, wire, conn, client, query, held, url>>

Enable(cap) ==
    /\ Ready("enable")
    /\ ~conn[cap]
    /\ conn' = [conn EXCEPT ![cap] = TRUE]
    /\ UNCHANGED <<mail, wire, fails, client, query, held, url>>

(* The pusher is cancelled; changes it has taken from its channel but not  *)
(* written are still written by the goroutine.                             *)
stopNotify(cm, lt) ==
    <<[cm EXCEPT !.notify = None],
      IF cm.notify # None /\ cm.notify.taken # <<>>
      THEN lt \cup {[box |-> cm.notify.box, change |-> Head(cm.notify.taken)]} ELSE lt>>

Listener(b) == [box |-> b, q |-> <<>>, taken |-> <<>>]
startNotify(cm, b) == [cm EXCEPT !.notify = Listener(b)]

Logout ==
    /\ Ready("logout")
    /\ conn' = [conn EXCEPT !.open = FALSE]
    /\ comm' = [comm EXCEPT !.notify = None]
    /\ UNCHANGED <<mail, pend, late, view, lost, fails, client, query, held, url>>

-----------------------------------------------------------------------------
(* Selecting.  An active NOTIFY is re-pointed at the new mailbox before    *)
(* the mailbox's EXISTS is written.                                        *)

cmdSelect(b, readOnly) ==
    /\ Authed(IF readOnly THEN "examine" ELSE "select")
    /\ conn' = [conn EXCEPT !.sel = b, !.ro = readOnly]
    /\ IF comm.notify # None
       THEN LET stopped == stopNotify(comm, late)
            IN  comm' = startNotify(stopped[1], b) /\ late' = stopped[2]
       ELSE UNCHANGED <<comm, late>>
    /\ pend' = <<Exists(Len(List(b)))>>
    /\ view' = <<>>
    /\ lost' = FALSE
    /\ UNCHANGED <<mail, fails, client, query, held, url>>

(* CLOSE (expunge) removes \Deleted messages without telling; neither it   *)
(* nor UNSELECT stops NOTIFY.                                              *)
cmdClose(expunge) ==
    /\ Selected("close")
    /\ LET b == conn.sel
           gone == {m.uid : m \in {n \in ToSet(List(b)) : "deleted" \in n.flags}}
       IN  IF expunge /\ ~conn.ro /\ gone # {}
           THEN /\ Commit(Removed(box, b, gone), <<RemoveUIDs(b, gone)>>)
                /\ comm' = Broadcast(comm, <<RemoveUIDs(b, gone)>>)
           ELSE UNCHANGED <<mail, comm>>
    /\ conn' = [conn EXCEPT !.sel = None, !.ro = FALSE]
    /\ view' = <<>>
    /\ lost' = FALSE
    /\ UNCHANGED <<pend, late, fails, client, query, held, url>>

-----------------------------------------------------------------------------
(* Commands on the selected mailbox.                                       *)

(* The positions of a listing a set selects, by UID or by position. *)
Chosen(list, set, byUID) ==
    LET sel == parseUIDSet(set, IF byUID THEN LastUid(list) ELSE Len(list))
    IN  SelectSeq([i \in 1 .. Len(list) |-> i],
                  LAMBDA i : (IF byUID THEN list[i].uid ELSE i) \in sel)

(* With CHANGEDSINCE the listing, and so the numbering, is of the changed  *)
(* messages only.  A UIDONLY session's responses carry no numbers.         *)
cmdFetch(set, byUID, since) ==
    /\ Selected("fetch") /\ BySeq(byUID)
    /\ LET list == SelectSeq(List(conn.sel), LAMBDA m : m.mod > since)
           lines == [k \in DOMAIN Chosen(list, set, byUID) |->
                        LET i == Chosen(list, set, byUID)[k] IN Fetched(i, list[i].uid)]
       IN  /\ pend' = IF conn.uidonly THEN <<>> ELSE lines
           /\ Told(view, \E k \in DOMAIN lines : List(conn.sel)[lines[k].n].uid \notin lines[k].uids)
    /\ UNCHANGED <<mail, conn, comm, late, fails, client, query, held, url>>

Flagged(m, op, flags) ==
    CASE op = "FLAGS" -> flags
      [] op = "+FLAGS" -> m.flags \cup flags
      [] op = "-FLAGS" -> m.flags \ flags

(* STORE: rows changed since "since" are left alone.  Its FETCH responses  *)
(* are written inside the transaction.                                     *)
cmdStore(set, byUID, op, flags, since) ==
    /\ Selected("store") /\ BySeq(byUID) /\ ~conn.ro
    /\ LET b == conn.sel
           list == List(b)
           hit == {i \in ToSet(Chosen(list, set, byUID)) : since >= 0 => list[i].mod <= since}
           order == SetToSortSeq(hit, LAMBDA i, j : i < j)
           changes == [k \in DOMAIN order |-> FlagsOf(b, list[order[k]].uid)]
           new == [i \in DOMAIN list |->
                     IF i \in hit THEN [list[i] EXCEPT !.flags = Flagged(list[i], op, flags), !.mod = head + 1] ELSE list[i]]
       IN  /\ hit # {}
           /\ Commit([box EXCEPT ![b].list = new], changes)
           /\ comm' = Broadcast(comm, changes)
           /\ Told(IF conn.uidonly THEN view
                   ELSE FoldLeft(Hear, view, [k \in DOMAIN order |-> Fetched(order[k], list[order[k]].uid)]), FALSE)
    /\ UNCHANGED <<conn, pend, late, fails, client, query, held, url>>

(* Mutation: the numbers are sent from the lowest up. *)
Expunges_Ascending(order) == [k \in DOMAIN order |-> Expunge(order[k])]

(* One EXPUNGE per removed message, from the highest number down. *)
Expunges(order) == Reverse([k \in DOMAIN order |-> Expunge(order[k])])

cmdExpunge(set, byUID) ==
    /\ Selected("expunge") /\ ~conn.ro
    /\ LET b == conn.sel
           list == List(b)
           named == IF byUID THEN ToSet(Chosen(list, set, TRUE)) ELSE DOMAIN list
           order == SelectSeq([i \in 1 .. Len(list) |-> i],
                              LAMBDA i : i \in named /\ "deleted" \in list[i].flags)
           gone == {list[i].uid : i \in ToSet(order)}
       IN  /\ gone # {}
           /\ Commit(Removed(box, b, gone), <<RemoveUIDs(b, gone)>>)
           /\ comm' = Broadcast(comm, <<RemoveUIDs(b, gone)>>)
           /\ pend' = IF conn.qresync \/ conn.uidonly THEN <<Vanished(gone)>> ELSE Expunges(order)
    /\ UNCHANGED <<conn, late, view, lost, fails, client, query, held, url>>

(* COPY and MOVE add copies to dst; MOVE then removes the originals.  The  *)
(* mailbox may be selected read-only, and MOVE answers with EXPUNGEs even  *)
(* to a QRESYNC client.                                                    *)
cmdCopyMove(set, byUID, dst, move) ==
    /\ Selected("copy") /\ BySeq(byUID)
    /\ LET b == conn.sel
           list == List(b)
           order == Chosen(list, set, byUID)
           gone == {list[i].uid : i \in ToSet(order)}
           added == Added(box, dst, [k \in DOMAIN order |->
                              [list[order[k]] EXCEPT !.mod = head + 1]])
           changes == [k \in DOMAIN order |-> AddUID(dst)]
                        \o (IF move THEN <<RemoveUIDs(b, gone)>> ELSE <<>>)
       IN  /\ order # <<>>
           /\ Commit(IF move THEN Removed(added, b, gone) ELSE added, changes)
           /\ comm' = Broadcast(comm, changes)
           /\ pend' = IF move THEN Expunges(order) ELSE <<>>
    /\ UNCHANGED <<conn, late, view, lost, fails, client, query, held, url>>

(* REPLACE removes the first message the set selects and adds the new one  *)
(* to dst, in one transaction.  It is not refused to a UIDONLY session.    *)
cmdReplace(set, byUID, dst, kind) ==
    /\ Selected("replace") /\ ~conn.ro
    /\ LET b == conn.sel
           list == List(b)
           order == Chosen(list, set, byUID)
           added == Added(box, dst, <<Row(dst, kind, {})>>)
           changes == <<AddUID(dst), RemoveUIDs(b, {list[Head(order)].uid})>>
       IN  /\ order # <<>>
           /\ Commit(Removed(added, b, {list[Head(order)].uid}), changes)
           /\ comm' = Broadcast(comm, changes)
           /\ pend' = <<Expunge(Head(order))>>
    /\ UNCHANGED <<conn, late, view, lost, fails, client, query, held, url>>

(* The next response of the running command is written. *)
Respond ==
    /\ conn.open /\ pend # <<>>
    /\ Told(Hear(view, Head(pend)), Unplaced(view, Head(pend)))
    /\ pend' = Tail(pend)
    /\ UNCHANGED <<mail, conn, comm, late, fails, client, query, held, url>>

-----------------------------------------------------------------------------
(* Unsolicited responses.                                                  *)

(* IDLE listens from the moment it is issued: nothing is said of what      *)
(* changed before.                                                         *)
cmdIdle ==
    /\ Selected("idle")
    /\ comm' = [comm EXCEPT !.idle = Listener(conn.sel)]
    /\ UNCHANGED <<mail, conn, pend, late, view, lost, fails, client, query, held, url>>

Done ==
    /\ conn.open /\ comm.idle # None
    /\ comm' = [comm EXCEPT !.idle = None]
    /\ UNCHANGED <<mail, conn, pend, late, view, lost, fails, client, query, held, url>>

(* A flag change is pushed with the UID in place of the sequence number. *)
Pushed(b, change, removals) ==
    CASE change.box # b -> <<>>
      [] change.kind = "add" -> <<Exists(Len(List(b)))>>
      [] change.kind = "flags" -> LET u == CHOOSE x \in change.uids : TRUE IN <<Fetched(u, u)>>
      [] change.kind = "remove" -> IF removals THEN <<Vanished(change.uids)>> ELSE <<>>

(* Is a number pushed for a flag change another message's number? *)
Misnumbered(line) ==
    /\ line.kind = "fetch"
    /\ \/ line.n > Len(List(conn.sel))
       \/ List(conn.sel)[line.n].uid \notin line.uids

(* The client hears pushed lines; raced ones, and those it cannot place or *)
(* that carry another message's number, mislead it.                        *)
Push(lines, raced) ==
    Told(FoldLeft(Hear, view, lines),
         \E k \in DOMAIN lines : \/ raced
                                 \/ Unplaced(view, lines[k])
                                 \/ conn.sel # None /\ Misnumbered(lines[k]))

pushChanges ==
    /\ conn.open /\ comm.idle # None /\ comm.idle.q # <<>>
    /\ Push(Pushed(comm.idle.box, Head(comm.idle.q), FALSE), FALSE)
    /\ comm' = [comm EXCEPT !.idle.q = Tail(@)]
    /\ UNCHANGED <<mail, conn, pend, late, fails, client, query, held, url>>

cmdNotify(set) ==
    /\ Authed("notify")
    /\ set \/ comm.notify # None
    /\ LET stopped == stopNotify(comm, late)
       IN  /\ comm' = IF set /\ conn.sel # None THEN startNotify(stopped[1], conn.sel) ELSE stopped[1]
           /\ late' = stopped[2]
    /\ UNCHANGED <<mail, conn, pend, view, lost, fails, client, query, held, url>>

(* The pusher takes a change from its channel, then writes its lines. *)
TakeNotify ==
    /\ conn.open /\ comm.notify # None /\ comm.notify.q # <<>> /\ comm.notify.taken = <<>>
    /\ comm' = [comm EXCEPT !.notify.q = Tail(@), !.notify.taken = <<Head(comm.notify.q)>>]
    /\ UNCHANGED <<mail, conn, pend, late, view, lost, fails, client, query, held, url>>

pushNotify ==
    /\ conn.open /\ comm.notify # None /\ comm.notify.taken # <<>>
    /\ LET lines == Pushed(comm.notify.box, Head(comm.notify.taken), TRUE)
       IN  Push(lines, \/ comm.notify.box # conn.sel
                       \/ pend # <<>> /\ \E k \in DOMAIN lines : lines[k].kind = "vanished")
    /\ comm' = [comm EXCEPT !.notify.taken = <<>>]
    /\ UNCHANGED <<mail, conn, pend, late, fails, client, query, held, url>>

pushLate ==
    /\ conn.open
    /\ \E l \in late :
          /\ Push(Pushed(l.box, l.change, TRUE), TRUE)
          /\ late' = late \ {l}
    /\ UNCHANGED <<mail, conn, pend, comm, fails, client, query, held, url>>

-----------------------------------------------------------------------------
(* Other sessions and deliveries.                                          *)

Deliver(b, kind) ==
    /\ "deliver" \in client
    /\ Commit(Added(box, b, <<Row(b, kind, {})>>), <<AddUID(b)>>)
    /\ comm' = Broadcast(comm, <<AddUID(b)>>)
    /\ UNCHANGED <<conn, pend, late, view, lost, fails, client, query, held, url>>

OtherRemove(b, u) ==
    /\ "remove" \in client /\ u \in ToSet(UidsOf(List(b)))
    /\ Commit(Removed(box, b, {u}), <<RemoveUIDs(b, {u})>>)
    /\ comm' = Broadcast(comm, <<RemoveUIDs(b, {u})>>)
    /\ Told(view, b = conn.sel)
    /\ UNCHANGED <<conn, pend, late, fails, client, query, held, url>>

OtherFlag(b, u, flags) ==
    /\ "flag" \in client /\ u \in ToSet(UidsOf(List(b)))
    /\ Commit([box EXCEPT ![b].list = [i \in DOMAIN @ |->
                   IF @[i].uid = u THEN [@[i] EXCEPT !.flags = flags, !.mod = head + 1] ELSE @[i]]],
              <<FlagsOf(b, u)>>)
    /\ comm' = Broadcast(comm, <<FlagsOf(b, u)>>)
    /\ UNCHANGED <<conn, pend, late, view, lost, fails, client, query, held, url>>

-----------------------------------------------------------------------------
(* Queries.  What SEARCH, SORT and THREAD look at in a message.            *)

Seen(list) == [i \in DOMAIN list |-> Attr[list[i].kind] @@ [uid |-> list[i].uid, flags |-> list[i].flags]]

(* The command line of a criteria tree, as a client writes it. *)
Word(k) == [key |-> k, val |-> ""]
Arg(v) == [key |-> "arg", val |-> v]
KeyOf(table, v) == CHOOSE k \in DOMAIN table : table[k] = v

RECURSIVE Words(_)
Words(n) ==
    CASE n.op = "all" -> <<Word("ALL")>>
      [] n.op = "flag" -> <<Word(KeyOf(FlagKey, n.arg))>>
      [] n.op = "not" -> <<Word("NOT")>> \o Words(n.arg[1])
      [] n.op = "or" -> <<Word("OR")>> \o Words(n.arg[1]) \o Words(n.arg[2])
      [] n.op = "and" -> <<Word("(")>> \o Words(n.arg[1]) \o Words(n.arg[2]) \o <<Word(")")>>
      [] n.op = "header" -> IF n.arg[1] \in HeaderKeys THEN <<Word(n.arg[1]), Arg(n.arg[2])>>
                            ELSE <<Word("HEADER"), Arg(n.arg[1]), Arg(n.arg[2])>>
      [] n.op = "saved" -> <<Word("$")>>
      [] n.op = "seqset" -> <<[key |-> "set", val |-> n.arg]>>
      [] OTHER -> <<Word(KeyOf(ArgKey, n.op)), Arg(n.arg)>>

(* SEARCH, SORT and THREAD parse their criteria, read the full-text hits   *)
(* of each term in transactions of their own, and list the mailbox after.  *)
(* ESEARCH names the mailboxes to search, one after the other; they need   *)
(* not be selected.                                                        *)
SearchTerms(b, tree, cmd) ==
    /\ Authed("search")
    /\ cmd # "esearch" => b = conn.sel
    /\ LET p == parseSearchSeq(Words(tree), 1, <<>>)
       IN  /\ p.ok
           /\ search' = [box |-> b, tree |-> tree, node |-> p.node, cmd |-> cmd,
                         hits |-> [t \in collectTextTerms(p.node) |->
                                     {m.uid : m \in {n \in ToSet(List(b)) :
                                        n.uid \in indexed[b] /\ t \in Attr[n.kind].text}}]]
    /\ UNCHANGED <<mail, conn, wire, fails, client, indexed, ans, held, url>>

(* Clock for OLDER/YOUNGER. *)
Now == 10

(* What the client may have asked of the matches. *)
Ways(q) ==
    IF q = None THEN {}
    ELSE CASE q.cmd = "sort" -> SortKeys
           [] q.cmd = "thread" -> {"REFERENCES", "ORDEREDSUBJECT"}
           [] OTHER -> {{}, {"MIN", "MAX", "COUNT"}, {"SAVE"}}

(* SEARCH implies ALL only if it is not asked to SAVE either. *)
ReturnOpts(opts) == IF "SAVE" \in opts THEN opts ELSE parseESearchReturnOpts(opts)

SearchList(how) ==
    /\ conn.open /\ search # None
    /\ LET list == Seen(List(search.box))
           found == searchMatches(search.node, list, search.hits, conn.saved, Now)
           uids == [k \in DOMAIN found |-> list[found[k]].uid]
       IN  /\ ans' = [cmd |-> search.cmd, tree |-> search.tree, list |-> list, hits |-> search.hits,
                      saved |-> conn.saved, found |-> found,
                      reply |-> CASE search.cmd = "sort" -> cmdSort(list, found, how)
                                  [] search.cmd = "thread" -> cmdThread(list, found, how)
                                  [] search.cmd = "search" -> ESearch(found, ReturnOpts(how))
                                  [] search.cmd = "uidsearch" -> ESearch(uids, ReturnOpts(how))
                                  [] OTHER -> ESearch(uids, parseESearchReturnOpts(how))]
           /\ conn' = IF search.cmd \in {"search", "uidsearch"} /\ "SAVE" \in how
                      THEN [conn EXCEPT !.saved = ToSet(uids)] ELSE conn
    /\ search' = None
    /\ UNCHANGED <<mail, wire, fails, client, indexed, held, url>>

(* The client reads the answer and goes on. *)
ReadAnswer ==
    /\ ans # None
    /\ ans' = None /\ held' = 0
    /\ UNCHANGED <<mail, conn, wire, fails, client, search, indexed, url>>

(* The full-text projection catches up with a message. *)
Index(b) ==
    /\ "search" \in client
    /\ \E m \in ToSet(List(b)) :
          /\ m.uid \notin indexed[b]
          /\ indexed' = [indexed EXCEPT ![b] = @ \cup {m.uid}]
    /\ UNCHANGED <<mail, conn, wire, fails, client, search, ans, held, url>>

List_(patterns, selSubscribed) ==
    /\ Authed("list")
    /\ ans' = [cmd |-> "list", patterns |-> patterns, sub |-> selSubscribed,
               listed |-> cmdList(Names, Subscribed, patterns, selSubscribed)]
    /\ UNCHANGED <<mail, conn, wire, fails, client, search, indexed, held, url>>

-----------------------------------------------------------------------------
(* APPEND: a batch of messages, each a sequence of parts (one literal, or  *)
(* the parts of CATENATE).  The budget bounds what the command retains.    *)

(* Mutation: an exhausted budget is taken for no limit. *)
chargeBudget_Sentinel(left, n) == left <= 0 \/ n <= left

chargeBudget(left, n) == MaxSize = 0 \/ n <= left

(* Reading the parts in turn: each is charged and kept, up to the first    *)
(* that is refused.  A part is a plain literal ("sync", "plus") or, within *)
(* CATENATE, a literal ("csync", "cplus") or a message named by "url".     *)
readPart(st, p) ==
    IF st.ok /\ chargeBudget(st.left, p.size)
    THEN [st EXCEPT !.left = @ - p.size, !.held = @ + p.size, !.read = @ + 1]
    ELSE [st EXCEPT !.ok = FALSE]

(* Is some of a refused command then read as a command of its own?  The    *)
(* refused literal is drained, and a client asked for a synchronizing one  *)
(* sends nothing more; but what follows a non-synchronizing literal (a     *)
(* ")", more messages) is already on the wire.                             *)
Strays(parts, read) ==
    LET p == parts[read + 1]
        more == read + 1 < Len(parts)
    IN  \/ p.kind = "cplus" \/ (p.kind = "plus" /\ more)
        \/ p.kind = "url" /\ more /\ parts[read + 2].kind = "cplus"

readAppend(batch) ==
    LET parts == FlattenSeq(batch)
        r == FoldLeft(readPart, [ok |-> TRUE, left |-> MaxSize, held |-> 0, read |-> 0], parts)
    IN  [ok |-> r.ok, held |-> r.held, stray |-> ~r.ok /\ Strays(parts, r.read)]

(* All messages of the batch are added in one transaction, or none. *)
cmdAppend(batch, b, kind) ==
    /\ Authed("append")
    /\ LET r == readAppend(batch)
           changes == [k \in DOMAIN batch |-> AddUID(b)]
       IN  /\ held' = r.held
           /\ ans' = [cmd |-> "append", batch |-> batch, ok |-> r.ok, stray |-> r.stray]
           /\ IF r.ok
              THEN /\ Commit(Added(box, b, [k \in DOMAIN batch |-> Row(b, kind, {})]), changes)
                   /\ comm' = Broadcast(comm, changes)
              ELSE UNCHANGED <<mail, comm>>
    /\ UNCHANGED <<conn, pend, late, view, lost, fails, client, search, indexed, url>>

-----------------------------------------------------------------------------
(* URLAUTH, used by the connections Minters: a URL is signed with the      *)
(* mailbox's key, which is made on first use.                              *)

(* Mutation: RESETKEY of all keys forgets nothing. *)
NoKeys_Kept(u) == u.key

NoKeys(u) == [b \in Box |-> 0]

urlUnchanged == UNCHANGED <<mail, conn, wire, fails, client, query, held>>

(* GENURLAUTH with a key at hand; without one, a key is to be made. *)
GenUrlAuth(k, b) ==
    /\ "urlauth" \in client /\ url.asked[k] = None
    /\ url' = IF url.key[b] # 0
              THEN [url EXCEPT !.urls = @ \cup {[box |-> b, key |-> url.key[b]]}]
              ELSE [url EXCEPT !.asked[k] = [box |-> b, mint |-> TRUE]]
    /\ urlUnchanged

(* URLFETCH compares with the current key, and makes one if there is none. *)
UrlFetch(k, b) ==
    /\ "urlauth" \in client /\ url.asked[k] = None /\ url.key[b] = 0
    /\ url' = [url EXCEPT !.asked[k] = [box |-> b, mint |-> FALSE]]
    /\ urlUnchanged

(* The insert overwrites a key another connection has made meanwhile. *)
URLAuthKey(k) ==
    /\ url.asked[k] # None /\ url.last < MaxKey
    /\ LET b == url.asked[k].box
           new == url.last + 1
       IN  url' = [url EXCEPT !.key[b] = new, !.last = new, !.asked[k] = None,
                              !.raced = @ \cup {u \in url.urls : u.box = b},
                              !.urls = IF url.asked[k].mint THEN @ \cup {[box |-> b, key |-> new]} ELSE @]
    /\ urlUnchanged

(* RESETKEY of a mailbox, or of all: the URLs handed out are revoked. *)
ResetKey(b) ==
    /\ "urlauth" \in client /\ url.last < MaxKey
    /\ url' = [url EXCEPT !.key[b] = url.last + 1, !.last = @ + 1,
                          !.urls = {u \in @ : u.box # b},
                          !.revoked = @ \cup {u \in url.urls : u.box = b}]
    /\ urlUnchanged

ResetAll ==
    /\ "urlauth" \in client
    /\ url' = [url EXCEPT !.key = NoKeys(url), !.urls = {}, !.revoked = @ \cup url.urls]
    /\ urlUnchanged

-----------------------------------------------------------------------------
Connection ==
    \/ StartTLS \/ Compress \/ WindowRolls \/ Logout
    \/ \E good \in BOOLEAN : Login(good)
    \/ \E plus \in BOOLEAN, outcome \in {"proved", "failed", "malformed", "lost"} :
          Authenticate(plus, outcome)
    \/ \E cap \in {"qresync", "uidonly"} : Enable(cap)

Flags == {"deleted"}

Mailbox ==
    \/ \E b \in Box, ro \in BOOLEAN : cmdSelect(b, ro)
    \/ \E expunge \in BOOLEAN : cmdClose(expunge)
    \/ \E set \in Sets, byUID \in BOOLEAN :
          \/ \E since \in Sinces : cmdFetch(set, byUID, since)
          \/ \E since \in Sinces, op \in {"FLAGS", "+FLAGS", "-FLAGS"} :
                cmdStore(set, byUID, op, Flags, since)
          \/ cmdExpunge(set, byUID)
          \/ \E dst \in Box, move \in BOOLEAN : cmdCopyMove(set, byUID, dst, move)
          \/ \E dst \in Box, kind \in Kinds : cmdReplace(set, byUID, dst, kind)
    \/ Respond

Unsolicited ==
    \/ cmdIdle \/ Done \/ pushChanges
    \/ \E set \in BOOLEAN : cmdNotify(set)
    \/ TakeNotify \/ pushNotify \/ pushLate

Others ==
    \E b \in Box : \/ \E kind \in Kinds : Deliver(b, kind)
                   \/ \E u \in 1 .. MaxUid : OtherRemove(b, u) \/ OtherFlag(b, u, Flags)

Queries ==
    \/ \E b \in Box, tree \in Criteria, cmd \in {"search", "uidsearch", "esearch", "sort", "thread"} :
          SearchTerms(b, tree, cmd)
    \/ \E how \in Ways(search) : SearchList(how)
    \/ ReadAnswer
    \/ \E b \in Box : Index(b)
    \/ \E p \in Patterns, sub \in BOOLEAN : List_({p}, sub)

Appends == \E batch \in Batches, b \in Box, kind \in Kinds : cmdAppend(batch, b, kind)

UrlAuth ==
    \/ \E k \in Minters : (\E b \in Box : GenUrlAuth(k, b) \/ UrlFetch(k, b)) \/ URLAuthKey(k)
    \/ \E b \in Box : ResetKey(b)
    \/ ResetAll

Next == Connection \/ Mailbox \/ Unsolicited \/ Others \/ Queries \/ Appends \/ UrlAuth

Spec == Init /\ [][Next]_vars

-----------------------------------------------------------------------------
(* Properties.                                                             *)

(* The client's sequence numbers are the server's.  Whenever a command has *)
(* been answered in full, every number the client has a UID for denotes    *)
(* that message at the server, and the client has no number too many: a    *)
(* STORE, MOVE or FETCH by number then means the message the client means. *)
(* The exceptions are exactly these: another session removed a message     *)
(* (IDLE says nothing of removals), a NOTIFY push raced with a command or  *)
(* outlived its mailbox's selection, FETCH with CHANGEDSINCE numbered the  *)
(* changed messages only, a flag change was pushed with the UID as its     *)
(* number, or a VANISHED named a UID the client had never been told.       *)
SeqAgrees ==
    conn.open /\ conn.sel # None /\ pend = <<>> /\ ~lost =>
        /\ Len(view) <= Len(List(conn.sel))
        /\ \A i \in DOMAIN view : view[i] # 0 => view[i] = List(conn.sel)[i].uid

(* What a criteria tree means, by set algebra over the listing. *)
RECURSIVE Denotes(_, _)
Denotes(n, a) ==
    LET all == {a.list[i].uid : i \in DOMAIN a.list}
        Those(P(_)) == {a.list[i].uid : i \in {j \in DOMAIN a.list : P(a.list[j])}}
    IN  CASE n.op = "all" -> all
          [] n.op = "not" -> all \ Denotes(n.arg[1], a)
          [] n.op = "and" -> Denotes(n.arg[1], a) \cap Denotes(n.arg[2], a)
          [] n.op = "or" -> Denotes(n.arg[1], a) \cup Denotes(n.arg[2], a)
          [] n.op = "flag" -> Those(LAMBDA m : (n.arg[1] \in m.flags) <=> n.arg[2])
          [] n.op = "header" -> Those(LAMBDA m : n.arg \in m.head)
          [] n.op = "text" -> a.hits[n.arg] \cap all
          [] n.op = "saved" -> a.saved \cap all
          [] n.op = "uid" -> all \cap parseUIDSet(n.arg, Max(all \cup {0}))
          [] n.op = "seqset" -> {a.list[i].uid : i \in DOMAIN a.list
                                                     \cap parseUIDSet(n.arg, Len(a.list))}
          [] n.op = "larger" -> Those(LAMBDA m : m.size > n.arg)
          [] n.op = "smaller" -> Those(LAMBDA m : m.size < n.arg)
          [] n.op \in {"since", "on", "before"} ->
               Those(LAMBDA m : <<n.op, m.recv>> \in {<<"since", t>> : t \in n.arg .. Now}
                                 \cup {<<"on", n.arg>>} \cup {<<"before", t>> : t \in 0 .. n.arg - 1})
          [] n.op \in {"savedsince", "savedon", "savedbefore"} ->
               Those(LAMBDA m : <<n.op, m.saved>> \in {<<"savedsince", t>> : t \in n.arg .. Now}
                                 \cup {<<"savedon", n.arg>>} \cup {<<"savedbefore", t>> : t \in 0 .. n.arg - 1})
          [] n.op = "older" -> Those(LAMBDA m : m.recv <= Now - n.arg)
          [] n.op = "younger" -> Those(LAMBDA m : m.recv >= Now - n.arg)

(* SEARCH answers what its criteria mean.  Printed as a command line and   *)
(* parsed back, a criteria tree selects the messages it denotes, where the *)
(* full-text hits are those of the moment they were read; SORT returns     *)
(* them all in key order, THREAD divides them into groups, and the ranges  *)
(* of ESEARCH's ALL denote them and nothing else.                          *)
SearchExact ==
    ans # None /\ ans.cmd \in {"search", "uidsearch", "esearch", "sort", "thread"} =>
        LET found == [k \in DOMAIN ans.found |-> ans.list[ans.found[k]].uid]
        IN  /\ ToSet(found) = Denotes(ans.tree, ans)
            /\ ans.cmd = "sort" => ToSet(ans.reply) = ToSet(ans.found) /\ Len(ans.reply) = Len(ans.found)
            /\ ans.cmd = "thread" =>
                  /\ UNION {ToSet(ans.reply[g]) : g \in DOMAIN ans.reply} = ToSet(ans.found)
                  /\ FoldLeft(LAMBDA x, g : x + Len(g), 0, ans.reply) = Len(ans.found)
            /\ ans.cmd \in {"search", "uidsearch", "esearch"} /\ ans.reply.all # <<>> =>
                  parseUIDSet(ans.reply.all, 0) = ToSet(IF ans.cmd = "search" THEN ans.found ELSE found)

(* What a LIST pattern means: "*" is any string, "%" any within a level. *)
RECURSIVE Means(_, _)
Means(pat, s) ==
    IF pat = <<>> THEN s = <<>>
    ELSE CASE Head(pat) = "*" -> \E k \in 0 .. Len(s) : Means(Tail(pat), SubSeq(s, k + 1, Len(s)))
           [] Head(pat) = "%" -> \E k \in 0 .. Len(s) :
                                     /\ "/" \notin ToSet(SubSeq(s, 1, k))
                                     /\ Means(Tail(pat), SubSeq(s, k + 1, Len(s)))
           [] OTHER -> s # <<>> /\ Head(s) = Head(pat) /\ Means(Tail(pat), Tail(s))

Before(pat, x, y) == \E i, j \in DOMAIN pat : i < j /\ pat[i] = x /\ pat[j] = y

(* LIST matches as its pattern means.  A mailbox is listed only if its     *)
(* name matches the pattern, unless a "%" stands before a "/" (the matcher *)
(* lets it grow across levels); a mailbox whose name matches is listed,    *)
(* unless a "*" stands before a "%" (the matcher forgets the "*").         *)
ListExact ==
    ans # None /\ ans.cmd = "list" =>
        \A p \in ans.patterns, n \in Names :
            /\ n \in DOMAIN ans.listed /\ ~Means(p, n) => Before(p, "%", "/")
            /\ Means(p, n) /\ n \notin DOMAIN ans.listed =>
                  Before(p, "*", "%") \/ (ans.sub /\ n \notin Subscribed)

(* The queries answer what they mean: the messages of SEARCH, SORT, THREAD *)
(* and ESEARCH (SearchExact) and the mailboxes of LIST (ListExact).        *)
QueriesExact == SearchExact /\ ListExact

(* One command never retains more than MaxSize, whatever mixture of        *)
(* literals and URL parts it is made of; a batch that fits, to the last    *)
(* octet, is accepted; and a refused plain literal leaves the command      *)
(* stream aligned, so that nothing of it is read as a command.             *)
CommandBounded ==
    MaxSize > 0 =>
        /\ held <= MaxSize
        /\ ans # None /\ ans.cmd = "append" =>
              LET parts == FlattenSeq(ans.batch)
              IN  /\ ans.ok <=> FoldLeft(LAMBDA x, p : x + p.size, 0, parts) <= MaxSize
                  /\ Len(parts) = 1 /\ parts[1].kind = "plus" => ~ans.stray

(* A URL handed out by GENURLAUTH resolves until its mailbox's key is      *)
(* reset, and no longer: the only exception is a key made by two           *)
(* connections at once on its first use, where the second overwrites.      *)
UrlsLive ==
    /\ \A u \in url.urls : url.key[u.box] = u.key \/ u \in url.raced
    /\ \A u \in url.revoked : url.key[u.box] # u.key
=============================================================================

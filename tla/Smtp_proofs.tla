---------------------------- MODULE Smtp_proofs ----------------------------
(***************************************************************************)
(* Proofs about Smtp, for any connections, accounts, addresses, contents   *)
(* and scenarios and any number of faults.                                 *)
(***************************************************************************)
EXTENDS Smtp, TLAPS, FiniteSetTheorems

(* The inductive invariant. *)

Lists == [Kinds -> Seq(Recipients)]
Pcs == {"cmd", "decide", "deliver", "record"}
Boxes == {"none", "Inbox", "Folder", "Junk"}
Params == {"none", "hold"}
Answers == {"none", "accepted", "deferred", "rejected"}

Conn == [tls: BOOLEAN, auth: Accounts \cup {None}, have: BOOLEAN,
         from: Senders \cup {None}, params: Params, to: Lists, bdat: Seq(Chunks),
         pc: Pcs, body: Seq(Chunks), tx: Nat, i: Nat, mailbox: Boxes,
         ruled: SUBSET Accounts]

View == [from: Senders \cup {None}, params: Params, to: Seq(Recipients), chunks: Seq(Chunks)]

Handed == [from: Senders \cup {None}, params: Params, to: Seq(Recipients),
           body: Seq(Chunks), spf: BOOLEAN, answer: Answers]

Typed ==
  /\ scen \in ScenarioType
  /\ conns \in [Conns -> Conn] /\ view \in [Conns -> View]
  /\ txs \in Seq(Handed)
  /\ rep \in [Keys -> [ham: Nat, junk: Nat]]

\* A connection is authenticated over TLS where the server has it, the sender of a
\* submission is the account's, and a mailbox recipient is local.
Authorized(c) ==
  /\ conns[c].auth # None => (scen.tls => conns[c].tls)
  /\ conns[c].have => conns[c].from \in Senders
  /\ conns[c].have /\ Submission =>
       conns[c].auth # None /\ conns[c].from \in Local /\ Owner[conns[c].from] = conns[c].auth
  /\ \A j \in DOMAIN conns[c].to["rcpts"] : conns[c].to["rcpts"][j] \in Local

\* All recipients of the transaction are in the list k.
OnlyList(c, k) ==
  /\ k = "sub" <=> Submission
  /\ \A l \in Kinds \ {k} : conns[c].to[l] = <<>>

\* The client of an open transaction believes to be in that transaction.
Agrees(c) ==
  conns[c].have /\ conns[c].pc = "cmd" =>
    /\ view[c].from = conns[c].from /\ view[c].params = conns[c].params
    /\ view[c].chunks = conns[c].bdat
    /\ \E k \in Kinds : OnlyList(c, k) /\ view[c].to = conns[c].to[k]

Busy(c) == conns[c].pc # "cmd"

\* A loop that is at recipient i, in state p, has delivered to recipient j.
Copied(i, p, j) == j < i \/ (j = i /\ p = "record")

\* Exactly the recipients in D the loop has come by have a copy of t among those in S,
\* and the one it is at has its copy in mailbox b.
Match(S, t, D, i, p, b) ==
  /\ \A j \in D : Copied(i, p, j) => \E m \in S : m.tx = t /\ m.i = j
  /\ \A m \in S : m.tx = t => Copied(i, p, m.i) /\ (m.i = i => m.mailbox = b)

\* A is the set of accounts whose rules have seen t, according to R, and of those with
\* a copy of t in their Inbox among the recipients before i.
Seen(S, R, t, i, A) ==
  \A a \in Accounts :
    /\ a \in A <=> \E r \in R : r.tx = t /\ r.acct = a
    /\ a \in A <=> \E m \in S : m.tx = t /\ m.i < i /\ m.mailbox = "Inbox" /\ Owner[m.to] = a

\* processData's loop works on the transaction it was handed, which is not answered yet.
Working(c) ==
  Busy(c) =>
    /\ conns[c].have /\ ~Submission
    /\ conns[c].tx \in DOMAIN txs /\ conns[c].i \in DOMAIN conns[c].to["rcpts"]
    /\ txs[conns[c].tx].from = conns[c].from /\ txs[conns[c].tx].body = conns[c].body
    /\ txs[conns[c].tx].to = conns[c].to["rcpts"] /\ txs[conns[c].tx].answer = "none"
    /\ Match(stored, conns[c].tx, DOMAIN conns[c].to["rcpts"], conns[c].i, conns[c].pc,
             conns[c].mailbox)

\* Between messages no rules have been run.
Shown(c) ==
  /\ ~Busy(c) => conns[c].ruled = {}
  /\ Busy(c) => Seen(stored, ruled, conns[c].tx, conns[c].i, conns[c].ruled)

\* Two sessions never work on the same transaction.
Distinct ==
  \A c, d \in Conns : Busy(c) /\ Busy(d) /\ conns[c].tx = conns[d].tx => c = d

Sessions == \A c \in Conns : Authorized(c) /\ Agrees(c) /\ Working(c) /\ Shown(c)

\* Whatever was done was done for a transaction that was handed over.
Recorded ==
  /\ \A m \in stored : m.tx \in DOMAIN txs /\ m.i \in DOMAIN txs[m.tx].to
  /\ \A q \in queued : q.tx \in DOMAIN txs
  /\ \A h \in handled : h.tx \in DOMAIN txs
  /\ \A r \in ruled : r.tx \in DOMAIN txs

\* RulesOnce without counting.
Ruled ==
  /\ \A r, s \in ruled : r.tx = s.tx /\ r.acct = s.acct => r = s
  /\ \A t \in DOMAIN txs : txs[t].answer = "accepted" =>
       \A a \in Accounts :
         (\E r \in ruled : r.tx = t /\ r.acct = a) <=>
         (\E m \in stored : m.tx = t /\ m.mailbox = "Inbox" /\ Owner[m.to] = a)

\* The vouched messages that count for k, and those of them that no session has yet
\* to record.
Vouched(k, junk) ==
  {m \in stored : /\ txs[m.tx].spf /\ Owner[m.to] = k[1] /\ m.from = k[2]
                  /\ junk = (m.mailbox = "Junk")}

Pending(m) == \E c \in Conns : conns[c].pc = "record" /\ conns[c].tx = m.tx /\ conns[c].i = m.i

Counted(k, junk) == {m \in Vouched(k, junk) : ~Pending(m)}

Earned ==
  /\ IsFiniteSet(stored)
  /\ \A k \in Keys : /\ rep[k].ham <= scen.rep.ham + Cardinality(Counted(k, FALSE))
                      /\ rep[k].junk <= scen.rep.junk + Cardinality(Counted(k, TRUE))

IInv ==
  /\ Typed /\ Sessions /\ Distinct /\ Recorded /\ Ruled /\ Earned
  /\ NothingInherited /\ AcceptedReachesAll /\ SenderOwned

-----------------------------------------------------------------------------
(* The fields of a connection. *)

\* The fields of a connection have their types.
LEMMA ConnFields ==
  ASSUME NEW r \in Conn
  PROVE  /\ r.tls \in BOOLEAN /\ r.auth \in Accounts \cup {None} /\ r.have \in BOOLEAN
         /\ r.from \in Senders \cup {None} /\ r.params \in Params
         /\ r.to \in Lists /\ r.bdat \in Seq(Chunks) /\ r.pc \in Pcs
         /\ r.body \in Seq(Chunks) /\ r.tx \in Nat /\ r.i \in Nat
         /\ r.mailbox \in Boxes /\ r.ruled \in SUBSET Accounts
  BY Zenon DEF Conn

\* The empty lists that reset assigns have their types.
LEMMA Nothing ==
  /\ NoRcpts \in Lists /\ <<>> \in Seq(Chunks) /\ <<>> \in Seq(Recipients) /\ 0 \in Nat
  BY DEF NoRcpts, Lists

\* reset leaves no mailbox recipient.
LEMMA NoneLocal == NoRcpts["rcpts"] = <<>> /\ \A j \in DOMAIN NoRcpts["rcpts"] : FALSE
  BY DEF NoRcpts, Kinds

\* A new connection has no transaction and no account.
LEMMA FreshIs ==
  /\ Fresh \in Conn /\ NoView \in View
  /\ ~Fresh.have /\ Fresh.pc = "cmd" /\ Fresh.auth = None /\ Fresh.to = NoRcpts
  /\ Fresh.ruled = {}
  <1>1. Fresh \in Conn
      BY Zenon, Nothing DEF Conn, Fresh, Params, Pcs, Boxes
  <1>2. NoView \in View
      BY Zenon, Nothing DEF View, NoView, Params
  <1> QED
      BY Zenon, <1>1, <1>2 DEF Fresh

\* What reset clears and what it keeps.
LEMMA ResetIs ==
  ASSUME NEW r \in Conn
  PROVE  /\ reset(r) \in Conn /\ ~reset(r).have /\ reset(r).to = NoRcpts
         /\ reset(r).bdat = <<>> /\ reset(r).pc = r.pc /\ reset(r).auth = r.auth
         /\ reset(r).tls = r.tls /\ reset(r).ruled = r.ruled
  <1>1. reset(r) \in Conn
      BY Zenon, Nothing DEF Conn, reset, Params
  <1>2. ~reset(r).have
      BY Zenon DEF reset, Conn
  <1>3. reset(r).to = NoRcpts
      BY Zenon DEF reset, Conn
  <1>4. reset(r).bdat = <<>>
      BY Zenon DEF reset, Conn
  <1>5. reset(r).pc = r.pc
      BY Zenon DEF reset, Conn
  <1>6. reset(r).auth = r.auth
      BY Zenon DEF reset, Conn
  <1>7. reset(r).tls = r.tls
      BY Zenon DEF reset, Conn
  <1>8. reset(r).ruled = r.ruled
      BY Zenon DEF reset, Conn
  <1> QED
      BY Zenon, <1>1, <1>2, <1>3, <1>4, <1>5, <1>6, <1>7, <1>8

\* The end of processData leaves what reset leaves.
LEMMA DoneIs ==
  ASSUME NEW r \in Conn
  PROVE  /\ Done(r) \in Conn /\ ~Done(r).have /\ Done(r).to = NoRcpts /\ Done(r).pc = "cmd"
         /\ Done(r).auth = r.auth /\ Done(r).tls = r.tls /\ Done(r).ruled = {}
  <1>1. PICK x \in Conn : x = reset(r)
      BY Zenon, ResetIs
  <1>2. Done(r) = [x EXCEPT !.pc = "cmd", !.body = <<>>, !.tx = 0, !.i = 0,
                            !.mailbox = "none", !.ruled = {}]
      BY Zenon, <1>1 DEF Done
  <1>3. Done(r) \in Conn
      BY ZenonT(60), <1>2, Nothing DEF Conn, Pcs, Boxes
  <1>4. Done(r).have = x.have
      BY Zenon, <1>2 DEF Conn
  <1>5. Done(r).to = x.to
      BY Zenon, <1>2 DEF Conn
  <1>6. Done(r).pc = "cmd"
      BY Zenon, <1>2 DEF Conn
  <1>7. Done(r).auth = x.auth
      BY Zenon, <1>2 DEF Conn
  <1>8. Done(r).tls = x.tls
      BY Zenon, <1>2 DEF Conn
  <1>9. Done(r).ruled = {}
      BY Zenon, <1>2 DEF Conn
  <1> QED
      BY Zenon, <1>1, <1>3, <1>4, <1>5, <1>6, <1>7, <1>8, <1>9, ResetIs

\* STARTTLS drops the account and changes nothing else of the transaction.
LEMMA TLSIs ==
  ASSUME NEW r \in Conn, NEW x, x = [r EXCEPT !.tls = TRUE, !.auth = None]
  PROVE  /\ x \in Conn /\ x.have = r.have /\ x.to = r.to /\ x.pc = r.pc
         /\ x.auth = None /\ x.ruled = r.ruled
  BY Zenon DEF Conn

-----------------------------------------------------------------------------
(* Commands that leave the mail alone. *)

\* A command of connection c that commits nothing.
Talks(c) ==
  /\ conns[c].pc = "cmd" /\ conns'[c].pc = "cmd"
  /\ \A d \in Conns : d # c => conns'[d] = conns[d] /\ view'[d] = view[d]
  /\ UNCHANGED <<scen, mail>>

\* It leaves the connection authorized and in agreement with its client.
Commanded(c) ==
  /\ Typed' /\ Talks(c)
  /\ Authorized(c)' /\ Agrees(c)' /\ conns'[c].ruled = {}

\* A command changes the connection it is given on, and no other.
LEMMA Becomes ==
  ASSUME Typed, NEW c \in Conns, NEW x \in Conn, NEW w \in View, Become(c, x, w)
  PROVE  /\ conns' \in [Conns -> Conn] /\ view' \in [Conns -> View]
         /\ conns'[c] = x /\ view'[c] = w
         /\ \A d \in Conns : d # c => conns'[d] = conns[d] /\ view'[d] = view[d]
  BY Zenon DEF Typed, Become

\* A command that only talks keeps the types and touches no mail.
LEMMA TalkBecomes ==
  ASSUME Typed, NEW c \in Conns, NEW x \in Conn, NEW w \in View, Become(c, x, w),
         conns[c].pc = "cmd", x.pc = "cmd", UNCHANGED <<scen, mail>>
  PROVE  Typed' /\ Talks(c) /\ conns'[c] = x /\ view'[c] = w
  BY ZenonT(60), Becomes DEF Typed, Talks, mail

\* Without a transaction there is nothing to agree on.
LEMMA Cleared ==
  ASSUME NEW c \in Conns, scen' = scen, ~conns'[c].have, conns'[c].to = NoRcpts,
         conns'[c].auth # None => (scen.tls => conns'[c].tls)
  PROVE  Authorized(c)' /\ Agrees(c)'
  BY Zenon, NoneLocal DEF Authorized, Agrees

\* A command that resets leaves a connection as the invariant wants it.
LEMMA ResetCommanded ==
  ASSUME Typed, NEW c \in Conns, Authorized(c), conns[c].pc = "cmd", conns[c].ruled = {},
         NEW x \in Conn, NEW w \in View, Become(c, x, w), UNCHANGED <<scen, mail>>,
         ~x.have, x.to = NoRcpts, x.pc = "cmd", x.ruled = {},
         x.auth # None => (scen.tls => x.tls)
  PROVE  Commanded(c)
  <1>1. Typed' /\ Talks(c) /\ conns'[c] = x /\ scen' = scen
      BY Zenon, TalkBecomes
  <1>2. Authorized(c)' /\ Agrees(c)'
      BY Zenon, <1>1, Cleared
  <1> QED
      BY Zenon, <1>1, <1>2 DEF Commanded

\* RSET, QUIT, STARTTLS, AUTH, an oversized message and a refused MAIL end the
\* transaction.
LEMMA EndsCommanded ==
  ASSUME Typed, NEW c \in Conns, Authorized(c), conns[c].pc = "cmd", conns[c].ruled = {},
         \/ RSET(c) \/ QUIT(c) \/ cmdStartTLS(c)
         \/ \E a \in Accounts : cmdAuth(c, a)
         \/ TooLarge(c)
         \/ Become(c, reset(conns[c]), view[c]) /\ UNCHANGED <<scen, mail>>
  PROVE  Commanded(c)
  <1>1. conns[c] \in Conn /\ view[c] \in View
      BY Zenon DEF Typed
  <1> DEFINE x == reset(conns[c])
  <1>2. /\ x \in Conn /\ ~x.have /\ x.to = NoRcpts /\ x.pc = "cmd" /\ x.ruled = {}
        /\ x.auth = conns[c].auth /\ x.tls = conns[c].tls
        /\ x.auth # None => (scen.tls => x.tls)
      BY Zenon, <1>1, ResetIs DEF Authorized
  <1> HIDE DEF x
  <1>3. CASE \/ RSET(c) \/ TooLarge(c)
             \/ Become(c, reset(conns[c]), view[c]) /\ UNCHANGED <<scen, mail>>
      BY Zenon, <1>1, <1>2, <1>3, ResetCommanded, FreshIs DEF RSET, TooLarge, x
  <1>4. CASE QUIT(c)
    <2>1. Become(c, Fresh, NoView) /\ UNCHANGED <<scen, mail>>
        BY Zenon, <1>4 DEF QUIT
    <2> QED
        BY Zenon, <2>1, FreshIs, ResetCommanded
  <1>5. CASE cmdStartTLS(c)
    <2>0. PICK y : y = [x EXCEPT !.tls = TRUE, !.auth = None]
        BY Zenon
    <2>1. Become(c, y, NoView) /\ UNCHANGED <<scen, mail>>
        BY Zenon, <1>5, <2>0 DEF cmdStartTLS, x
    <2>2. /\ y \in Conn /\ ~y.have /\ y.to = NoRcpts /\ y.pc = "cmd" /\ y.ruled = {}
          /\ y.auth = None
        BY Zenon, <1>2, <2>0, TLSIs
    <2> QED
        BY Zenon, <2>1, <2>2, FreshIs, ResetCommanded
  <1>6. ASSUME NEW a \in Accounts, cmdAuth(c, a) PROVE Commanded(c)
    <2>0. PICK y : y = [x EXCEPT !.auth = a]
        BY Zenon
    <2>1. Become(c, y, NoView) /\ UNCHANGED <<scen, mail>> /\ (conns[c].tls \/ ~scen.tls)
        BY Zenon, <1>6, <2>0 DEF cmdAuth, authAllowed, x
    <2>2. /\ y \in Conn /\ ~y.have /\ y.to = NoRcpts /\ y.pc = "cmd" /\ y.ruled = {}
          /\ y.tls = conns[c].tls
      <3>1. y \in Conn /\ y.have = x.have /\ y.to = x.to /\ y.pc = x.pc
          BY Zenon, <1>2, <1>6, <2>0 DEF Conn
      <3>2. y.ruled = x.ruled /\ y.tls = x.tls
          BY Zenon, <1>2, <1>6, <2>0 DEF Conn
      <3> QED
          BY Zenon, <1>2, <3>1, <3>2
    <2> QED
        BY Zenon, <2>1, <2>2, FreshIs, ResetCommanded
  <1> QED
      BY Zenon, <1>3, <1>4, <1>5, <1>6

\* An accepted MAIL begins a transaction.
LEMMA MailCommanded ==
  ASSUME Typed, NEW c \in Conns, Authorized(c), conns[c].ruled = {},
         NEW from \in scen.from, NEW hold \in {"none", "hold", "bad"}, cmdMail(c, from, hold)
  PROVE  Commanded(c)
  <1> DEFINE params == IF Submission THEN hold ELSE "none"
             accepted == Submission => senderOwned(c, from) /\ hold # "bad"
  <1>1. conns[c] \in Conn /\ scen \in ScenarioType /\ conns[c].pc = "cmd"
      BY Zenon DEF Typed, cmdMail, Ready
  <1>2. from \in Senders
      BY Zenon, <1>1 DEF ScenarioType
  <1>3. CASE ~accepted
      BY Zenon, <1>1, <1>3, EndsCommanded DEF cmdMail
  <1>4. CASE accepted
    <2>0. PICK x, w : /\ x = [reset(conns[c]) EXCEPT !.have = TRUE, !.from = from,
                                                     !.params = params]
                      /\ w = [NoView EXCEPT !.from = from, !.params = params]
        BY Zenon
    <2>1. Become(c, x, w) /\ UNCHANGED <<scen, mail>>
        BY Zenon, <1>4, <2>0 DEF cmdMail
    <2>2. params \in Params
        BY Zenon, <1>4 DEF Params
    <2> HIDE DEF params
    <2>3. /\ x \in Conn /\ x.have /\ x.from = from /\ x.params = params
          /\ x.to = NoRcpts /\ x.bdat = <<>> /\ x.pc = "cmd" /\ x.ruled = {}
          /\ x.auth = conns[c].auth /\ x.tls = conns[c].tls
      <3>1. PICK r \in Conn : r = reset(conns[c])
          BY Zenon, <1>1, ResetIs
      <3>2. /\ r.to = NoRcpts /\ r.bdat = <<>> /\ r.pc = "cmd" /\ r.ruled = {}
            /\ r.auth = conns[c].auth /\ r.tls = conns[c].tls
          BY Zenon, <1>1, <3>1, ResetIs
      <3>3. x = [r EXCEPT !.have = TRUE, !.from = from, !.params = params]
          BY Zenon, <2>0, <3>1
      <3>4. x \in Conn /\ x.have /\ x.from = from /\ x.params = params
          BY Zenon, <1>2, <2>2, <3>1, <3>3 DEF Conn
      <3>5. /\ x.to = r.to /\ x.bdat = r.bdat /\ x.pc = r.pc
            /\ x.auth = r.auth /\ x.tls = r.tls /\ x.ruled = r.ruled
          BY Zenon, <3>1, <3>3 DEF Conn
      <3> QED
          BY Zenon, <3>2, <3>4, <3>5
    <2>4. w \in View /\ w.from = from /\ w.params = params /\ w.to = <<>> /\ w.chunks = <<>>
        BY Zenon, <1>2, <2>0, <2>2, Nothing DEF NoView, View
    <2>5. Typed' /\ Talks(c) /\ conns'[c] = x /\ view'[c] = w /\ scen' = scen
        BY ZenonT(60), <1>1, <2>1, <2>3, <2>4, TalkBecomes
    <2>6. Authorized(c)'
      <3>1. Submission => x.auth # None /\ from \in Local /\ Owner[from] = x.auth
          BY Zenon, <1>4, <2>3 DEF senderOwned
      <3> QED
          BY Zenon, <1>2, <2>3, <2>5, <3>1, NoneLocal DEF Authorized, Submission
    <2>7. Agrees(c)'
      <3>1. \A k \in Kinds : NoRcpts[k] = <<>>
          BY Zenon DEF NoRcpts
      <3>2. \E k \in Kinds : k = "sub" <=> Submission
          BY Zenon DEF Kinds
      <3> QED
          BY Zenon, <2>3, <2>4, <2>5, <3>1, <3>2 DEF Agrees, OnlyList, Submission
    <2> QED
        BY Zenon, <2>3, <2>5, <2>6, <2>7 DEF Commanded
  <1> QED
      BY Zenon, <1>3, <1>4

\* cmdRcpt adds to the one list the transaction has.
LEMMA RcptKindIs ==
  ASSUME NEW c \in Conns, Agrees(c), conns[c].have, conns[c].pc = "cmd", NEW to,
         RcptKind(c, to) # None
  PROVE  /\ RcptKind(c, to) \in Kinds /\ OnlyList(c, RcptKind(c, to))
         /\ view[c].to = conns[c].to[RcptKind(c, to)]
         /\ RcptKind(c, to) = "rcpts" => to \in Local
  <1>1. PICK l \in Kinds : OnlyList(c, l) /\ view[c].to = conns[c].to[l]
      BY Zenon DEF Agrees
  <1>2. CASE Submission
    <2>1. RcptKind(c, to) = "sub"
        BY Zenon, <1>2 DEF RcptKind
    <2>2. l = "sub"
        BY Zenon, <1>1, <1>2 DEF OnlyList
    <2> QED
        BY Zenon, <1>1, <2>1, <2>2
  <1>3. CASE ~Submission
    <2>1. conns[c].to["sub"] = <<>> /\ l # "sub"
        BY Zenon, <1>1, <1>3 DEF OnlyList, Kinds
    <2>2. /\ RcptKind(c, to) \in Kinds \ {"sub"}
          /\ \A k \in Kinds \ {"sub", RcptKind(c, to)} : conns[c].to[k] = <<>>
          /\ RcptKind(c, to) = "rcpts" => to \in Local
      <3>1. CASE to \in Bounces
          BY Zenon, <1>3, <3>1 DEF RcptKind, Kinds
      <3>2. CASE to \notin Bounces /\ to \in Reports
          BY Zenon, <1>3, <3>2 DEF RcptKind, Kinds
      <3>3. CASE to \notin Bounces /\ to \notin Reports
          BY Zenon, <1>3, <3>3 DEF RcptKind, Kinds
      <3> QED
          BY Zenon, <3>1, <3>2, <3>3
    <2>3. OnlyList(c, RcptKind(c, to))
        BY Zenon, <1>3, <2>1, <2>2 DEF OnlyList
    <2>4. l # RcptKind(c, to) =>
            conns[c].to[l] = <<>> /\ conns[c].to[RcptKind(c, to)] = <<>>
        BY Zenon, <1>1, <2>2, <2>3 DEF OnlyList
    <2> QED
        BY Zenon, <1>1, <2>2, <2>3, <2>4
  <1> QED
      BY Zenon, <1>2, <1>3

\* So does RCPT: it appends to one list, and so does its client.
LEMMA RcptCommanded ==
  ASSUME Typed, NEW c \in Conns, Authorized(c), Agrees(c), conns[c].ruled = {},
         NEW to \in scen.to, cmdRcpt(c, to)
  PROVE  Commanded(c)
  <1>0. PICK k : k = RcptKind(c, to)
      BY Zenon
  <1>1. /\ conns[c] \in Conn /\ view[c] \in View /\ scen \in ScenarioType
        /\ conns[c].have /\ conns[c].pc = "cmd" /\ k # None
      BY Zenon, <1>0 DEF Typed, cmdRcpt, Ready
  <1>2. to \in Recipients
      BY Zenon, <1>1 DEF ScenarioType
  <1>3. /\ k \in Kinds /\ OnlyList(c, k) /\ view[c].to = conns[c].to[k]
        /\ k = "rcpts" => to \in Local
      BY Zenon, <1>0, <1>1, RcptKindIs
  <1>4. PICK x, w : x = [conns[c] EXCEPT !.to[k] = Append(@, to)]
                    /\ w = [view[c] EXCEPT !.to = Append(@, to)]
      BY Zenon
  <1>5. Become(c, x, w) /\ UNCHANGED <<scen, mail>>
      BY Zenon, <1>0, <1>4 DEF cmdRcpt
  <1>6. /\ x \in Conn /\ x.have /\ x.from = conns[c].from /\ x.params = conns[c].params
        /\ x.to = [conns[c].to EXCEPT ![k] = Append(conns[c].to[k], to)]
        /\ x.bdat = conns[c].bdat /\ x.pc = "cmd" /\ x.auth = conns[c].auth
        /\ x.tls = conns[c].tls /\ x.ruled = {}
    <2>1. [conns[c].to EXCEPT ![k] = Append(conns[c].to[k], to)] \in Lists
      <3>1. conns[c].to \in Lists
          BY Zenon, <1>1, ConnFields
      <3> QED
          BY <1>2, <1>3, <3>1 DEF Lists
    <2>2. x \in Conn /\ x.to = [conns[c].to EXCEPT ![k] = Append(conns[c].to[k], to)]
        BY Zenon, <1>1, <1>4, <2>1 DEF Conn
    <2>3. /\ x.have = conns[c].have /\ x.from = conns[c].from
          /\ x.params = conns[c].params /\ x.bdat = conns[c].bdat /\ x.pc = conns[c].pc
        BY Zenon, <1>1, <1>4 DEF Conn
    <2>4. x.auth = conns[c].auth /\ x.tls = conns[c].tls /\ x.ruled = conns[c].ruled
        BY Zenon, <1>1, <1>4 DEF Conn
    <2> QED
        BY Zenon, <1>1, <2>2, <2>3, <2>4
  <1>7. /\ w \in View /\ w.from = view[c].from /\ w.params = view[c].params
        /\ w.to = Append(view[c].to, to) /\ w.chunks = view[c].chunks
    <2>1. view[c].to \in Seq(Recipients)
        BY Zenon, <1>1 DEF View
    <2>2. Append(view[c].to, to) \in Seq(Recipients)
        BY <1>2, <2>1
    <2> QED
        BY Zenon, <1>1, <1>4, <2>2 DEF View
  <1>8. Typed' /\ Talks(c) /\ conns'[c] = x /\ view'[c] = w /\ scen' = scen
      BY ZenonT(60), <1>1, <1>5, <1>6, <1>7, TalkBecomes
  <1>9. conns[c].to \in Lists
      BY Zenon, <1>1, ConnFields
  <1>10. x.to[k] = Append(conns[c].to[k], to) /\ \A l \in Kinds \ {k} : x.to[l] = conns[c].to[l]
      BY ZenonT(60), <1>3, <1>6, <1>9 DEF Lists
  <1>11. \A j \in DOMAIN x.to["rcpts"] : x.to["rcpts"][j] \in Local
    <2>1. "rcpts" \in Kinds /\ \A j \in DOMAIN conns[c].to["rcpts"] : conns[c].to["rcpts"][j] \in Local
        BY Zenon DEF Authorized, Kinds
    <2>2. CASE k # "rcpts"
        BY Zenon, <1>10, <2>1, <2>2
    <2>3. CASE k = "rcpts"
      <3>1. PICK s \in Seq(Recipients) : s = conns[c].to["rcpts"]
          BY Zenon, <1>9, <2>1 DEF Lists
      <3>2. \A j \in DOMAIN Append(s, to) : \/ j \in DOMAIN s /\ Append(s, to)[j] = s[j]
                                            \/ Append(s, to)[j] = to
          OBVIOUS
      <3> QED
          BY Zenon, <1>3, <1>10, <2>1, <2>3, <3>1, <3>2
    <2> QED
        BY Zenon, <2>2, <2>3
  <1>12. Authorized(c)'
      BY Zenon, <1>1, <1>6, <1>8, <1>11 DEF Authorized, Submission
  <1>13. Agrees(c)'
    <2>1. OnlyList(c, k)'
        BY Zenon, <1>3, <1>8, <1>10 DEF OnlyList, Submission
    <2>2. view'[c].to = conns'[c].to[k]
        BY Zenon, <1>3, <1>7, <1>8, <1>10
    <2>3. /\ view[c].from = conns[c].from /\ view[c].params = conns[c].params
          /\ view[c].chunks = conns[c].bdat
        BY Zenon, <1>1 DEF Agrees
    <2> QED
        BY Zenon, <1>3, <1>6, <1>7, <1>8, <2>1, <2>2, <2>3 DEF Agrees
  <1> QED
      BY Zenon, <1>6, <1>8, <1>12, <1>13 DEF Commanded

\* A chunk that is not the last is added to both.
LEMMA ChunkCommanded ==
  ASSUME Typed, NEW c \in Conns, Authorized(c), Agrees(c), conns[c].ruled = {},
         conns[c].have, conns[c].pc = "cmd", NEW b \in Seq(Chunks),
         Become(c, [conns[c] EXCEPT !.bdat = b], [view[c] EXCEPT !.chunks = b]),
         UNCHANGED <<scen, mail>>
  PROVE  Commanded(c)
  <1>1. conns[c] \in Conn /\ view[c] \in View
      BY Zenon DEF Typed
  <1>2. PICK x, w : x = [conns[c] EXCEPT !.bdat = b] /\ w = [view[c] EXCEPT !.chunks = b]
      BY Zenon
  <1>3. /\ x \in Conn /\ x.have /\ x.from = conns[c].from /\ x.params = conns[c].params
        /\ x.to = conns[c].to /\ x.bdat = b /\ x.pc = "cmd" /\ x.auth = conns[c].auth
        /\ x.tls = conns[c].tls /\ x.ruled = {}
    <2>1. x \in Conn /\ x.bdat = b /\ x.have = conns[c].have /\ x.from = conns[c].from
        BY Zenon, <1>1, <1>2 DEF Conn
    <2>2. x.params = conns[c].params /\ x.to = conns[c].to /\ x.pc = conns[c].pc
        BY Zenon, <1>1, <1>2 DEF Conn
    <2>3. x.auth = conns[c].auth /\ x.tls = conns[c].tls /\ x.ruled = conns[c].ruled
        BY Zenon, <1>1, <1>2 DEF Conn
    <2> QED
        BY Zenon, <2>1, <2>2, <2>3
  <1>4. /\ w \in View /\ w.from = view[c].from /\ w.params = view[c].params
        /\ w.to = view[c].to /\ w.chunks = b
      BY Zenon, <1>1, <1>2 DEF View
  <1>5. Typed' /\ Talks(c) /\ conns'[c] = x /\ view'[c] = w /\ scen' = scen
      BY ZenonT(60), <1>2, <1>3, <1>4, TalkBecomes
  <1>6. Authorized(c)'
      BY Zenon, <1>3, <1>5 DEF Authorized, Submission
  <1>7. Agrees(c)'
      BY ZenonT(60), <1>3, <1>4, <1>5 DEF Agrees, OnlyList, Submission
  <1> QED
      BY Zenon, <1>3, <1>5, <1>6, <1>7 DEF Commanded

-----------------------------------------------------------------------------
(* What a step leaves alone. *)

\* Transactions are added and answered, and otherwise keep what they were.
Grows ==
  /\ txs' \in Seq(Handed)
  /\ \A t \in DOMAIN txs :
       /\ t \in DOMAIN txs'
       /\ txs'[t].from = txs[t].from /\ txs'[t].params = txs[t].params
       /\ txs'[t].to = txs[t].to /\ txs'[t].body = txs[t].body /\ txs'[t].spf = txs[t].spf

\* Transactions that do not change have not lost anything,
LEMMA SameGrows ==
  ASSUME Typed, txs' = txs
  PROVE  Grows
  BY Zenon DEF Typed, Grows

\* nor have those to which a new one is appended,
LEMMA AppendGrows ==
  ASSUME Typed, NEW x \in Handed, txs' = Append(txs, x)
  PROVE  /\ Grows
         /\ Len(txs) + 1 \notin DOMAIN txs /\ Len(txs) + 1 \in DOMAIN txs'
         /\ Len(txs) + 1 \in Nat /\ txs'[Len(txs) + 1] = x
         /\ \A t \in DOMAIN txs : txs'[t] = txs[t]
         /\ \A t \in DOMAIN txs' : t \in DOMAIN txs \/ t = Len(txs) + 1
  <1>1. txs \in Seq(Handed)
      BY Zenon DEF Typed
  <1>2. /\ txs' \in Seq(Handed)
        /\ Len(txs) + 1 \notin DOMAIN txs /\ Len(txs) + 1 \in DOMAIN txs'
        /\ Len(txs) + 1 \in Nat /\ txs'[Len(txs) + 1] = x
        /\ \A t \in DOMAIN txs : t \in DOMAIN txs' /\ txs'[t] = txs[t]
        /\ \A t \in DOMAIN txs' : t \in DOMAIN txs \/ t = Len(txs) + 1
      BY <1>1
  <1> QED
      BY Zenon, <1>2 DEF Grows

\* nor those of which one is answered.
LEMMA AnswerGrows ==
  ASSUME Typed, NEW t \in DOMAIN txs, NEW a \in Answers,
         txs' = [txs EXCEPT ![t].answer = a]
  PROVE  /\ Grows /\ DOMAIN txs' = DOMAIN txs /\ txs'[t].answer = a
         /\ \A u \in DOMAIN txs : u # t => txs'[u] = txs[u]
  <1>1. txs \in Seq(Handed)
      BY Zenon DEF Typed
  <1>2. txs[t] \in Handed
      BY <1>1
  <1>3. PICK y : y = [txs[t] EXCEPT !.answer = a]
      BY Zenon
  <1>4. /\ y \in Handed /\ y.answer = a /\ y.from = txs[t].from /\ y.params = txs[t].params
        /\ y.to = txs[t].to /\ y.body = txs[t].body /\ y.spf = txs[t].spf
      BY Zenon, <1>2, <1>3 DEF Handed
  <1>5. txs' = [txs EXCEPT ![t] = y]
      BY Zenon, <1>3
  <1>6. /\ txs' \in Seq(Handed) /\ DOMAIN txs' = DOMAIN txs /\ txs'[t] = y
        /\ \A u \in DOMAIN txs : u # t => txs'[u] = txs[u]
      BY <1>1, <1>4, <1>5
  <1> QED
      BY Zenon, <1>4, <1>6 DEF Grows

\* Arithmetic of the loop over the recipients.
LEMMA Before ==
  ASSUME NEW i \in Nat, NEW j \in Nat
  PROVE  ~(i < i) /\ (j < i + 1 <=> j < i \/ j = i) /\ (j < i => j # i) /\ i + 1 # i
  OBVIOUS

\* What other transactions store does not disturb the copies of t,
LEMMA MatchKept ==
  ASSUME NEW S, NEW T, NEW t, NEW D, NEW i, NEW p, NEW b, Match(S, t, D, i, p, b),
         \A m \in S : m \in T, \A m \in T : m \in S \/ m.tx # t
  PROVE  Match(T, t, D, i, p, b)
  BY Zenon DEF Match

\* nor what the rules have seen of it.
LEMMA SeenKept ==
  ASSUME NEW S, NEW T, NEW R, NEW Q, NEW t, NEW i, NEW A, Seen(S, R, t, i, A),
         \A m \in S : m \in T, \A m \in T : m \in S \/ m.tx # t,
         \A r \in R : r \in Q, \A r \in Q : r \in R \/ r.tx # t
  PROVE  Seen(T, Q, t, i, A)
  BY Zenon DEF Seen

\* A session that does not take the step, and whose transaction and copies the step
\* leaves alone, is where it was.
LEMMA OthersKept ==
  ASSUME NEW d \in Conns, Authorized(d), Agrees(d), Working(d), Shown(d),
         conns'[d] = conns[d], view'[d] = view[d], scen' = scen, Grows,
         \A m \in stored : m \in stored', \A r \in ruled : r \in ruled',
         Busy(d) => /\ txs'[conns[d].tx].answer = txs[conns[d].tx].answer
                    /\ \A m \in stored' : m \in stored \/ m.tx # conns[d].tx
                    /\ \A r \in ruled' : r \in ruled \/ r.tx # conns[d].tx
  PROVE  Authorized(d)' /\ Agrees(d)' /\ Working(d)' /\ Shown(d)'
  <1>1. Authorized(d)'
      BY Zenon DEF Authorized, Submission
  <1>2. Agrees(d)'
      BY ZenonT(60) DEF Agrees, OnlyList, Submission
  <1>3. Busy(d)' <=> Busy(d)
      BY Zenon DEF Busy
  <1>4. ASSUME Busy(d) PROVE Working(d)'
    <2>1. /\ conns'[d].have /\ ~Submission'
          /\ conns[d].tx \in DOMAIN txs' /\ conns'[d].i \in DOMAIN conns'[d].to["rcpts"]
          /\ txs'[conns[d].tx].from = conns[d].from /\ txs'[conns[d].tx].body = conns[d].body
          /\ txs'[conns[d].tx].to = conns[d].to["rcpts"]
          /\ txs'[conns[d].tx].answer = "none"
        BY Zenon, <1>4 DEF Working, Grows, Submission
    <2>2. Match(stored, conns[d].tx, DOMAIN conns[d].to["rcpts"], conns[d].i, conns[d].pc,
                conns[d].mailbox)
        BY Zenon, <1>4 DEF Working
    <2>3. Match(stored', conns[d].tx, DOMAIN conns[d].to["rcpts"], conns[d].i, conns[d].pc,
                conns[d].mailbox)
        BY Zenon, <1>4, <2>2, MatchKept
    <2> QED
        BY Zenon, <2>1, <2>3 DEF Working
  <1>5. ASSUME Busy(d) PROVE Shown(d)'
    <2>1. Seen(stored, ruled, conns[d].tx, conns[d].i, conns[d].ruled)
        BY Zenon, <1>5 DEF Shown
    <2>2. Seen(stored', ruled', conns[d].tx, conns[d].i, conns[d].ruled)
        BY Zenon, <1>5, <2>1, SeenKept
    <2> QED
        BY Zenon, <1>3, <1>5, <2>2 DEF Shown
  <1>6. ASSUME ~Busy(d) PROVE Working(d)' /\ Shown(d)'
      BY Zenon, <1>3, <1>6 DEF Working, Shown
  <1> QED
      BY Zenon, <1>1, <1>2, <1>4, <1>5, <1>6

\* Sessions that take on no new transaction stay on distinct ones.
LEMMA DistinctKept ==
  ASSUME Distinct, \A c \in Conns : Busy(c)' => Busy(c) /\ conns'[c].tx = conns[c].tx
  PROVE  Distinct'
  BY Zenon DEF Distinct

\* What holds of each copy, row and call: it belongs to a transaction and agrees with it.
CopyOf(m) ==
  /\ m.tx \in DOMAIN txs /\ m.i \in DOMAIN txs[m.tx].to
  /\ m.from = txs[m.tx].from /\ m.body = txs[m.tx].body /\ m.to = txs[m.tx].to[m.i]

RowOf(q) ==
  /\ q.tx \in DOMAIN txs
  /\ q.from = txs[q.tx].from /\ q.body = txs[q.tx].body
  /\ q.to = txs[q.tx].to /\ q.params = txs[q.tx].params
  /\ Owner[q.from] = q.acct /\ (scen.tls => q.tls)

CallOf(h) ==
  /\ h.tx \in DOMAIN txs /\ h.body = txs[h.tx].body /\ h.to \in Range(txs[h.tx].to)

\* The invariant, one stored, queued or handed on message at a time.
LEMMA EachOf ==
  ASSUME Recorded, NothingInherited, SenderOwned
  PROVE  /\ \A m \in stored : CopyOf(m)
         /\ \A q \in queued : RowOf(q)
         /\ \A h \in handled : CallOf(h)
         /\ \A r \in ruled : r.tx \in DOMAIN txs
  <1>1. \A m \in stored : CopyOf(m)
      BY Zenon DEF Recorded, NothingInherited, CopyOf
  <1>2. \A q \in queued : RowOf(q)
      BY Zenon DEF Recorded, NothingInherited, SenderOwned, RowOf
  <1>3. \A h \in handled : CallOf(h)
      BY Zenon DEF Recorded, NothingInherited, CallOf
  <1>4. \A r \in ruled : r.tx \in DOMAIN txs
      BY Zenon DEF Recorded
  <1> QED
      BY Zenon, <1>1, <1>2, <1>3, <1>4

\* Everything kept still agrees, so only what the step adds has to be looked at.
LEMMA MailKept ==
  ASSUME Recorded, NothingInherited, SenderOwned, Grows, scen' = scen,
         \A m \in stored' : m \in stored \/ CopyOf(m)',
         \A q \in queued' : q \in queued \/ RowOf(q)',
         \A h \in handled' : h \in handled \/ CallOf(h)',
         \A r \in ruled' : r \in ruled \/ r.tx \in DOMAIN txs'
  PROVE  Recorded' /\ NothingInherited' /\ SenderOwned'
  <1>1. \A m \in stored' : CopyOf(m)'
    <2>1. \A m \in stored : CopyOf(m)'
        BY Zenon, EachOf DEF CopyOf, Grows
    <2> QED
        BY Zenon, <2>1
  <1>2. \A q \in queued' : RowOf(q)'
    <2>1. \A q \in queued : RowOf(q)'
        BY Zenon, EachOf DEF RowOf, Grows
    <2> QED
        BY Zenon, <2>1
  <1>3. \A h \in handled' : CallOf(h)'
    <2>1. \A h \in handled : CallOf(h)'
        BY Zenon, EachOf DEF CallOf, Grows
    <2> QED
        BY Zenon, <2>1
  <1>4. \A r \in ruled' : r.tx \in DOMAIN txs'
      BY Zenon, EachOf DEF Grows
  <1>5. Recorded'
      BY Zenon, <1>1, <1>2, <1>3, <1>4 DEF Recorded, CopyOf, RowOf, CallOf
  <1>6. NothingInherited'
      BY Zenon, <1>1, <1>2, <1>3 DEF NothingInherited, CopyOf, RowOf, CallOf
  <1>7. SenderOwned'
      BY Zenon, <1>2 DEF SenderOwned, RowOf
  <1> QED
      BY Zenon, <1>5, <1>6, <1>7

\* Transaction t has reached recipient i.
Reaches(t, i) ==
  \/ \E m \in stored : m.tx = t /\ m.i = i
  \/ \E q \in queued : q.tx = t
  \/ \E h \in handled : h.tx = t /\ h.to = txs[t].to[i]

\* AcceptedReachesAll is kept if each newly accepted transaction has reached everybody.
LEMMA AcceptedKept ==
  ASSUME AcceptedReachesAll, Grows,
         \A m \in stored : m \in stored', \A q \in queued : q \in queued',
         \A h \in handled : h \in handled',
         \A t \in DOMAIN txs' : txs'[t].answer = "accepted" =>
           \/ t \in DOMAIN txs /\ txs[t].answer = "accepted"
           \/ \A i \in DOMAIN txs'[t].to : Reaches(t, i)'
  PROVE  AcceptedReachesAll'
  <1>1. SUFFICES ASSUME NEW t \in DOMAIN txs', txs'[t].answer = "accepted",
                        NEW i \in DOMAIN txs'[t].to
                 PROVE  Reaches(t, i)'
      BY Zenon DEF AcceptedReachesAll, Reaches
  <1>2. CASE t \in DOMAIN txs /\ txs[t].answer = "accepted"
    <2>1. i \in DOMAIN txs[t].to /\ txs'[t].to = txs[t].to
        BY Zenon, <1>1, <1>2 DEF Grows
    <2>2. Reaches(t, i)
        BY Zenon, <1>2, <2>1 DEF AcceptedReachesAll, Reaches
    <2> QED
        BY Zenon, <2>1, <2>2 DEF Reaches
  <1> QED
      BY Zenon, <1>1, <1>2

\* The rules have seen transaction t for the accounts with a copy of it in their Inbox.
RulesFor(t) ==
  \A a \in Accounts :
    (\E r \in ruled : r.tx = t /\ r.acct = a) <=>
    (\E m \in stored : m.tx = t /\ m.mailbox = "Inbox" /\ Owner[m.to] = a)

\* Ruled is kept if each newly accepted transaction has had its rules run,
LEMMA RuledKept ==
  ASSUME Ruled, \A m \in stored : m \in stored', \A r \in ruled : r \in ruled',
         \A r, s \in ruled' : r.tx = s.tx /\ r.acct = s.acct => r = s,
         \A t \in DOMAIN txs' : txs'[t].answer = "accepted" =>
           \/ /\ t \in DOMAIN txs /\ txs[t].answer = "accepted"
              /\ \A m \in stored' : m \in stored \/ m.tx # t
              /\ \A r \in ruled' : r \in ruled \/ r.tx # t
           \/ RulesFor(t)'
  PROVE  Ruled'
  <1>1. SUFFICES ASSUME NEW t \in DOMAIN txs', txs'[t].answer = "accepted"
                 PROVE  RulesFor(t)'
      BY Zenon DEF Ruled, RulesFor
  <1>2. CASE /\ t \in DOMAIN txs /\ txs[t].answer = "accepted"
             /\ \A m \in stored' : m \in stored \/ m.tx # t
             /\ \A r \in ruled' : r \in ruled \/ r.tx # t
    <2>1. RulesFor(t)
        BY Zenon, <1>2 DEF Ruled, RulesFor
    <2> QED
        BY ZenonT(60), <1>2, <2>1 DEF RulesFor
  <1> QED
      BY Zenon, <1>1, <1>2

\* in particular when nothing was stored and no rules were run.
LEMMA RuledSame ==
  ASSUME Ruled, stored' = stored, ruled' = ruled,
         \A t \in DOMAIN txs' : txs'[t].answer = "accepted" =>
           \/ t \in DOMAIN txs /\ txs[t].answer = "accepted"
           \/ RulesFor(t)'
  PROVE  Ruled'
  <1>1. \A r, s \in ruled' : r.tx = s.tx /\ r.acct = s.acct => r = s
      BY Zenon DEF Ruled
  <1> QED
      BY Zenon, <1>1, RuledKept

\* Part of Earned: the counts of one account and sender are covered.
Covered(k) ==
  /\ rep[k].ham <= scen.rep.ham + Cardinality(Counted(k, FALSE))
  /\ rep[k].junk <= scen.rep.junk + Cardinality(Counted(k, TRUE))

\* A part of a finite set has no more members than the set.
LEMMA Bigger ==
  ASSUME NEW S, NEW T, IsFiniteSet(T), \A x \in S : x \in T
  PROVE  /\ IsFiniteSet(S) /\ Cardinality(S) \in Nat /\ Cardinality(T) \in Nat
         /\ Cardinality(S) <= Cardinality(T)
  <1>1. S \in SUBSET T
      BY Zenon
  <1> QED
      BY Zenon, <1>1, FS_Subset, FS_CardinalityType

\* What counts is finite,
LEMMA CountedFinite ==
  ASSUME IsFiniteSet(stored)
  PROVE  \A k, b : IsFiniteSet(Counted(k, b)) /\ Cardinality(Counted(k, b)) \in Nat
  <1> SUFFICES ASSUME NEW k, NEW b
               PROVE  IsFiniteSet(Counted(k, b)) /\ Cardinality(Counted(k, b)) \in Nat
      BY Zenon
  <1>1. \A m \in Counted(k, b) : m \in stored
      BY Zenon DEF Counted, Vouched
  <1> QED
      BY Zenon, <1>1, Bigger

\* after a step too.
LEMMA CountedFiniteAfter ==
  ASSUME IsFiniteSet(stored')
  PROVE  \A k, b : IsFiniteSet(Counted(k, b)') /\ Cardinality(Counted(k, b)') \in Nat
  <1> SUFFICES ASSUME NEW k, NEW b
               PROVE  IsFiniteSet(Counted(k, b)') /\ Cardinality(Counted(k, b)') \in Nat
      BY Zenon
  <1>1. \A m \in Counted(k, b)' : m \in stored'
      BY Zenon DEF Counted, Vouched
  <1> QED
      BY Zenon, <1>1, Bigger

\* Copies keep counting while no session begins to record one of them.
LEMMA CountedKept ==
  ASSUME Recorded, Grows, \A m \in stored : m \in stored',
         \A m \in stored : Pending(m)' => Pending(m)
  PROVE  \A k, b : \A m \in Counted(k, b) : m \in Counted(k, b)'
  <1> SUFFICES ASSUME NEW k, NEW b, NEW m \in Counted(k, b)
               PROVE  m \in Counted(k, b)'
      BY Zenon
  <1>1. m \in stored /\ ~Pending(m) /\ txs[m.tx].spf /\ Owner[m.to] = k[1] /\ m.from = k[2]
        /\ b = (m.mailbox = "Junk")
      BY Zenon DEF Counted, Vouched
  <1>2. m \in stored' /\ txs'[m.tx].spf
      BY Zenon, <1>1 DEF Recorded, Grows
  <1>3. ~Pending(m)'
      BY Zenon, <1>1
  <1>4. m \in Vouched(k, b)'
      BY Zenon, <1>1, <1>2 DEF Vouched
  <1> QED
      BY Zenon, <1>3, <1>4 DEF Counted

\* Counts that do not change stay covered while what counts only grows,
LEMMA CoveredKept ==
  ASSUME Typed, NEW k \in Keys, Covered(k), scen' = scen, rep'[k] = rep[k],
         IsFiniteSet(stored'),
         \A b : \A m \in Counted(k, b) : m \in Counted(k, b)'
  PROVE  Covered(k)'
  <1>1. rep[k].ham \in Nat /\ rep[k].junk \in Nat
      BY Zenon DEF Typed
  <1>2. scen.rep.ham \in Nat /\ scen.rep.junk \in Nat
      BY Zenon DEF Typed, ScenarioType
  <1>3. \A b : /\ Cardinality(Counted(k, b)) \in Nat /\ Cardinality(Counted(k, b)') \in Nat
               /\ Cardinality(Counted(k, b)) <= Cardinality(Counted(k, b)')
      BY Zenon, CountedFiniteAfter, Bigger
  <1>4. PICK x, y, xx, yy :
          /\ x = Cardinality(Counted(k, FALSE)) /\ xx = Cardinality(Counted(k, FALSE)')
          /\ y = Cardinality(Counted(k, TRUE)) /\ yy = Cardinality(Counted(k, TRUE)')
      BY Zenon
  <1>5. /\ x \in Nat /\ xx \in Nat /\ x <= xx /\ y \in Nat /\ yy \in Nat /\ y <= yy
      BY Zenon, <1>3, <1>4
  <1>6. rep[k].ham <= scen.rep.ham + x /\ rep[k].junk <= scen.rep.junk + y
      BY Zenon, <1>4 DEF Covered
  <1>7. rep[k].ham <= scen.rep.ham + xx /\ rep[k].junk <= scen.rep.junk + yy
    <2> HIDE DEF Covered
    <2> QED
        BY <1>1, <1>2, <1>5, <1>6
  <1>8. /\ rep'[k].ham <= scen'.rep.ham + Cardinality(Counted(k, FALSE)')
        /\ rep'[k].junk <= scen'.rep.junk + Cardinality(Counted(k, TRUE)')
      BY Zenon, <1>4, <1>7
  <1> QED
      BY Zenon, <1>8 DEF Covered

\* for all accounts and senders.
LEMMA EarnedKept ==
  ASSUME Typed, Earned, scen' = scen, rep' = rep, IsFiniteSet(stored'),
         \A k, b : \A m \in Counted(k, b) : m \in Counted(k, b)'
  PROVE  Earned'
  <1>1. \A k \in Keys : Covered(k)
      BY Zenon DEF Earned, Covered
  <1>2. \A k \in Keys : Covered(k)'
      BY Zenon, <1>1, CoveredKept
  <1> QED
      BY Zenon, <1>2 DEF Earned, Covered

-----------------------------------------------------------------------------
(* Steps. *)

\* Only connection c takes a step, and it touches only the transaction it works on.
Alone(c) ==
  /\ scen' = scen /\ Grows
  /\ \A d \in Conns : d # c => conns'[d] = conns[d] /\ view'[d] = view[d]
  /\ \A m \in stored : m \in stored'
  /\ \A r \in ruled : r \in ruled'
  /\ \A t \in DOMAIN txs : ~(Busy(c) /\ t = conns[c].tx) =>
       /\ txs'[t].answer = txs[t].answer
       /\ \A m \in stored' : m \in stored \/ m.tx # t
       /\ \A r \in ruled' : r \in ruled \/ r.tx # t

\* A step of c keeps what the invariant says of the other connections.
LEMMA OtherSessions ==
  ASSUME Sessions, Distinct, NEW c \in Conns, Alone(c)
  PROVE  \A d \in Conns : d # c => Authorized(d)' /\ Agrees(d)' /\ Working(d)' /\ Shown(d)'
  <1> SUFFICES ASSUME NEW d \in Conns, d # c
               PROVE  Authorized(d)' /\ Agrees(d)' /\ Working(d)' /\ Shown(d)'
      BY Zenon
  <1>1. Authorized(d) /\ Agrees(d) /\ Working(d) /\ Shown(d)
      BY Zenon DEF Sessions
  <1>2. /\ conns'[d] = conns[d] /\ view'[d] = view[d] /\ scen' = scen /\ Grows
        /\ \A m \in stored : m \in stored'
        /\ \A r \in ruled : r \in ruled'
      BY Zenon DEF Alone
  <1>3. ASSUME Busy(d)
        PROVE  /\ txs'[conns[d].tx].answer = txs[conns[d].tx].answer
               /\ \A m \in stored' : m \in stored \/ m.tx # conns[d].tx
               /\ \A r \in ruled' : r \in ruled \/ r.tx # conns[d].tx
    <2>1. conns[d].tx \in DOMAIN txs
        BY Zenon, <1>1, <1>3 DEF Working
    <2>2. ~(Busy(c) /\ conns[d].tx = conns[c].tx)
        BY Zenon, <1>3 DEF Distinct
    <2> QED
        BY Zenon, <2>1, <2>2 DEF Alone
  <1> QED
      BY Zenon, <1>1, <1>2, <1>3, OthersKept

\* What the other sessions do not work on is done with.
LEMMA SessionsIf ==
  ASSUME Sessions, Distinct, NEW c \in Conns, Alone(c),
         Authorized(c)', Agrees(c)', Working(c)', Shown(c)'
  PROVE  Sessions'
  <1>1. \A d \in Conns : d # c => Authorized(d)' /\ Agrees(d)' /\ Working(d)' /\ Shown(d)'
      BY Zenon, OtherSessions
  <1>2. \A d \in Conns : Authorized(d)' /\ Agrees(d)' /\ Working(d)' /\ Shown(d)'
      BY Zenon, <1>1
  <1> QED
      BY Zenon, <1>2 DEF Sessions

\* A step of c that starts no loop keeps the loops on distinct transactions.
LEMMA DistinctIf ==
  ASSUME Distinct, NEW c \in Conns, Alone(c),
         Busy(c)' => Busy(c) /\ conns'[c].tx = conns[c].tx
  PROVE  Distinct'
  <1>1. \A d \in Conns : Busy(d)' => Busy(d) /\ conns'[d].tx = conns[d].tx
      BY Zenon DEF Alone, Busy
  <1> QED
      BY Zenon, <1>1, DistinctKept

\* No copy becomes pending as long as no session starts to record.
LEMMA NoneStarts ==
  ASSUME NEW c \in Conns, Alone(c), conns'[c].pc # "record"
  PROVE  \A m : Pending(m)' => Pending(m)
  BY Zenon DEF Pending, Alone

\* Between messages there is no loop to say anything of.
LEMMA Idle ==
  ASSUME NEW c \in Conns, conns'[c].pc = "cmd", conns'[c].ruled = {}
  PROVE  ~Busy(c)' /\ Working(c)' /\ Shown(c)'
  BY Zenon DEF Busy, Working, Shown

\* A command that commits nothing.
LEMMA TalkStep ==
  ASSUME IInv, NEW c \in Conns, Commanded(c)
  PROVE  IInv'
  <1>1. /\ Typed /\ Sessions /\ Distinct /\ Recorded /\ Ruled /\ Earned
        /\ NothingInherited /\ AcceptedReachesAll /\ SenderOwned
      BY Zenon DEF IInv
  <1>2. /\ Typed' /\ Authorized(c)' /\ Agrees(c)' /\ conns'[c].ruled = {} /\ conns'[c].pc = "cmd"
        /\ scen' = scen /\ txs' = txs /\ stored' = stored /\ queued' = queued
        /\ handled' = handled /\ ruled' = ruled /\ rep' = rep
        /\ \A d \in Conns : d # c => conns'[d] = conns[d] /\ view'[d] = view[d]
      BY Zenon DEF Commanded, Talks, mail
  <1>3. Grows
      BY Zenon, <1>1, <1>2, SameGrows
  <1>4. Alone(c)
      BY Zenon, <1>2, <1>3 DEF Alone
  <1>5. ~Busy(c)' /\ Working(c)' /\ Shown(c)'
      BY Zenon, <1>2, Idle
  <1>6. Sessions' /\ Distinct'
      BY Zenon, <1>1, <1>2, <1>4, <1>5, SessionsIf, DistinctIf
  <1>7. Recorded' /\ NothingInherited' /\ SenderOwned'
      BY Zenon, <1>1, <1>2, <1>3, MailKept
  <1>8. AcceptedReachesAll'
      BY Zenon, <1>1, <1>2, <1>3, AcceptedKept
  <1>9. Ruled'
      BY Zenon, <1>1, <1>2, RuledSame
  <1>10. Earned'
    <2>1. \A m : Pending(m)' => Pending(m)
        BY Zenon, <1>2, <1>4, NoneStarts
    <2>2. \A k, b : \A m \in Counted(k, b) : m \in Counted(k, b)'
        BY Zenon, <1>1, <1>2, <1>3, <2>1, CountedKept
    <2>3. IsFiniteSet(stored')
        BY Zenon, <1>1, <1>2 DEF Earned
    <2> QED
        BY Zenon, <1>1, <1>2, <2>2, <2>3, EarnedKept
  <1> QED
      BY Zenon, <1>2, <1>6, <1>7, <1>8, <1>9, <1>10 DEF IInv

\* A transaction nobody has heard of has no copies and no rules have seen it.
LEMMA Unheard ==
  ASSUME Recorded, NEW n, n \notin DOMAIN txs, stored' = stored, ruled' = ruled
  PROVE  RulesFor(n)'
  BY Zenon DEF RulesFor, Recorded

\* The invariant without the sessions.
Settled ==
  /\ Typed /\ Recorded /\ Ruled /\ Earned
  /\ NothingInherited /\ AcceptedReachesAll /\ SenderOwned

\* processData commits rows and calls that agree with their transactions.
Commits ==
  /\ scen' = scen /\ stored' = stored /\ ruled' = ruled /\ rep' = rep
  /\ \A q \in queued : q \in queued'
  /\ \A q \in queued' : q \in queued \/ RowOf(q)'
  /\ \A h \in handled : h \in handled'
  /\ \A h \in handled' : h \in handled \/ CallOf(h)'

\* The part of the invariant a newly handed over transaction cannot disturb.
LEMMA HandedOver ==
  ASSUME IInv, NEW c \in Conns, ~Busy(c),
         NEW x \in Handed, txs' = Append(txs, x),
         NEW y \in Conn, NEW w \in View, Become(c, y, w), y.pc # "record",
         Commits,
         NEW n, n = Len(txs) + 1,
         x.answer = "accepted" => \A i \in DOMAIN x.to : Reaches(n, i)'
  PROVE  Settled' /\ Alone(c) /\ conns'[c] = y /\ view'[c] = w
  <1>1. /\ Typed /\ Sessions /\ Distinct /\ Recorded /\ Ruled /\ Earned
        /\ NothingInherited /\ AcceptedReachesAll /\ SenderOwned
      BY Zenon DEF IInv
  <1>0. /\ scen' = scen /\ stored' = stored /\ ruled' = ruled /\ rep' = rep
        /\ \A q \in queued : q \in queued'
        /\ \A q \in queued' : q \in queued \/ RowOf(q)'
        /\ \A h \in handled : h \in handled'
        /\ \A h \in handled' : h \in handled \/ CallOf(h)'
      BY Zenon DEF Commits
  <1>2. /\ conns' \in [Conns -> Conn] /\ view' \in [Conns -> View]
        /\ conns'[c] = y /\ view'[c] = w
        /\ \A d \in Conns : d # c => conns'[d] = conns[d] /\ view'[d] = view[d]
      BY Zenon, <1>1, Becomes
  <1>4. /\ Grows /\ n \notin DOMAIN txs /\ n \in DOMAIN txs' /\ txs'[n] = x
        /\ \A t \in DOMAIN txs : txs'[t] = txs[t]
        /\ \A t \in DOMAIN txs' : t \in DOMAIN txs \/ t = n
      BY Zenon, <1>1, AppendGrows
  <1>5. Typed'
      BY Zenon, <1>0, <1>1, <1>2, <1>4 DEF Typed, Grows
  <1>6. Alone(c)
      BY Zenon, <1>0, <1>2, <1>4 DEF Alone
  <1>7. Recorded' /\ NothingInherited' /\ SenderOwned'
      BY Zenon, <1>0, <1>1, <1>4, MailKept
  <1>8. AcceptedReachesAll'
    <2>1. \A t \in DOMAIN txs' : txs'[t].answer = "accepted" =>
            \/ t \in DOMAIN txs /\ txs[t].answer = "accepted"
            \/ \A i \in DOMAIN txs'[t].to : Reaches(t, i)'
        BY Zenon, <1>4
    <2>2. \A m \in stored : m \in stored'
        BY Zenon, <1>0
    <2> QED
        BY Zenon, <1>0, <1>1, <1>4, <2>1, <2>2, AcceptedKept
  <1>9. Ruled'
    <2>1. RulesFor(n)'
        BY Zenon, <1>0, <1>1, <1>4, Unheard
    <2> QED
        BY Zenon, <1>0, <1>1, <1>4, <2>1, RuledSame
  <1>10. Earned'
    <2>1. \A m : Pending(m)' => Pending(m)
        BY Zenon, <1>2, <1>6, NoneStarts
    <2>2. \A k, b : \A m \in Counted(k, b) : m \in Counted(k, b)'
        BY Zenon, <1>0, <1>1, <1>4, <2>1, CountedKept
    <2>3. IsFiniteSet(stored')
        BY Zenon, <1>0, <1>1 DEF Earned
    <2> QED
        BY Zenon, <1>0, <1>1, <2>2, <2>3, EarnedKept
  <1> QED
      BY Zenon, <1>2, <1>5, <1>6, <1>7, <1>8, <1>9, <1>10 DEF Settled

\* processData answers at once.
LEMMA FinishStep ==
  ASSUME IInv, NEW c \in Conns, conns[c].pc = "cmd", NEW sent \in Seq(Chunks),
         NEW answer \in Answers, Finish(c, sent, answer),
         Commits,
         NEW n, n = Len(txs) + 1,
         answer = "accepted" => \A i \in DOMAIN view[c].to : Reaches(n, i)'
  PROVE  IInv'
  <1>1. /\ Typed /\ Sessions /\ Distinct /\ Authorized(c) /\ ~Busy(c) /\ Shown(c)
      BY Zenon DEF IInv, Sessions, Busy
  <1>2. conns[c] \in Conn /\ conns[c].ruled = {}
      BY Zenon, <1>1 DEF Typed, Shown
  <1>3. PICK x : x = Tx(c, sent, FALSE, answer)
      BY Zenon
  <1>4. x \in Handed /\ x.answer = answer /\ x.to = view[c].to /\ txs' = Append(txs, x)
    <2>1. txs' = Append(txs, x)
        BY Zenon, <1>3 DEF Finish
    <2>2. view[c] \in View
        BY Zenon, <1>1 DEF Typed
    <2>3. x \in Handed /\ x.answer = answer /\ x.to = view[c].to
        BY Zenon, <1>3, <2>2 DEF Tx, Handed, View
    <2> QED
        BY Zenon, <2>1, <2>3
  <1>5. PICK y : y = reset(conns[c])
      BY Zenon
  <1>6. /\ y \in Conn /\ ~y.have /\ y.to = NoRcpts /\ y.pc = "cmd" /\ y.ruled = {}
        /\ y.auth = conns[c].auth /\ y.tls = conns[c].tls
      BY Zenon, <1>2, <1>5, ResetIs
  <1>7. Become(c, y, NoView) /\ NoView \in View /\ y.pc # "record"
      BY Zenon, <1>5, <1>6, FreshIs DEF Finish
  <1>8. Settled' /\ Alone(c) /\ conns'[c] = y
    <2>1. x.answer = "accepted" => \A i \in DOMAIN x.to : Reaches(n, i)'
        BY Zenon, <1>4
    <2> QED
        BY <1>1, <1>4, <1>6, <1>7, <2>1, HandedOver
  <1>9. Authorized(c)' /\ Agrees(c)'
      BY Zenon, <1>1, <1>6, <1>8, Cleared DEF Authorized, Alone
  <1>10. ~Busy(c)' /\ Working(c)' /\ Shown(c)'
      BY Zenon, <1>6, <1>8, Idle
  <1>11. Sessions' /\ Distinct'
      BY Zenon, <1>1, <1>8, <1>9, <1>10, SessionsIf, DistinctIf
  <1> QED
      BY Zenon, <1>8, <1>11 DEF IInv, Settled

\* Of the client's recipients none is in another list than the one that is not empty.
LEMMA OneList ==
  ASSUME NEW c \in Conns, Agrees(c), conns[c].have, conns[c].pc = "cmd",
         NEW k \in Kinds, conns[c].to[k] # <<>>
  PROVE  /\ view[c].to = conns[c].to[k] /\ OnlyList(c, k)
         /\ view[c].from = conns[c].from /\ view[c].params = conns[c].params
  <1>1. PICK l \in Kinds : OnlyList(c, l) /\ view[c].to = conns[c].to[l]
      BY Zenon DEF Agrees
  <1>2. l = k
      BY Zenon, <1>1 DEF OnlyList
  <1> QED
      BY Zenon, <1>1, <1>2 DEF Agrees

\* What Finish hands over.
LEMMA Finished ==
  ASSUME Typed, NEW c \in Conns, NEW sent \in Seq(Chunks), NEW answer \in Answers,
         Finish(c, sent, answer), NEW n, n = Len(txs) + 1
  PROVE  /\ n \in DOMAIN txs' /\ txs'[n].from = view[c].from
         /\ txs'[n].params = view[c].params /\ txs'[n].to = view[c].to
         /\ txs'[n].body = sent
  <1>1. PICK x : x = Tx(c, sent, FALSE, answer)
      BY Zenon
  <1>2. view[c] \in View /\ txs' = Append(txs, x)
      BY Zenon, <1>1 DEF Typed, Finish
  <1>3. /\ x \in Handed /\ x.from = view[c].from /\ x.params = view[c].params
        /\ x.to = view[c].to /\ x.body = sent
      BY Zenon, <1>1, <1>2 DEF Tx, Handed, View
  <1> QED
      BY Zenon, <1>2, <1>3, AppendGrows

\* Mail for the bounce or the report handler.
LEMMA HandleStep ==
  ASSUME IInv, NEW c \in Conns, conns[c].pc = "cmd", conns[c].have,
         NEW body \in Seq(Chunks), Handle(c, body, body), UNCHANGED <<scen, ruled, rep>>
  PROVE  IInv'
  <1>1. Typed /\ Agrees(c)
      BY Zenon DEF IInv, Sessions
  <1>2. PICK k : k = IF conns[c].to["bounce"] # <<>> THEN "bounce" ELSE "report"
      BY Zenon
  <1>3. PICK n : n = Len(txs) + 1
      BY Zenon
  <1>4. k \in Kinds /\ conns[c].to[k] # <<>>
      BY Zenon, <1>2 DEF Kinds, Handle
  <1>5. /\ handled' = handled \cup {[tx |-> n, to |-> a, body |-> body] : a \in Range(conns[c].to[k])}
        /\ Finish(c, body, "accepted") /\ stored' = stored /\ queued' = queued
      BY Zenon, <1>2, <1>3 DEF Handle
  <1>6. "accepted" \in Answers /\ view[c].to = conns[c].to[k]
      BY Zenon, <1>1, <1>4, OneList DEF Answers
  <1>7. n \in DOMAIN txs' /\ txs'[n].to = view[c].to /\ txs'[n].body = body
      BY Zenon, <1>1, <1>3, <1>5, <1>6, Finished
  <1>8. Commits
    <2>1. \A h \in handled' : h \in handled \/ CallOf(h)'
      <3> SUFFICES ASSUME NEW a \in Range(conns[c].to[k]),
                          NEW h, h = [tx |-> n, to |-> a, body |-> body]
                   PROVE  CallOf(h)'
          BY Zenon, <1>5
      <3>1. h.tx = n /\ h.to = a /\ h.body = body
          BY Zenon
      <3> QED
          BY Zenon, <1>6, <1>7, <3>1 DEF CallOf
    <2>2. \A h \in handled : h \in handled'
        BY Zenon, <1>5
    <2> QED
        BY Zenon, <1>5, <2>1, <2>2 DEF Commits
  <1>9. \A i \in DOMAIN view[c].to : Reaches(n, i)'
    <2> SUFFICES ASSUME NEW i \in DOMAIN view[c].to
                 PROVE  Reaches(n, i)'
        BY Zenon
    <2>1. PICK h : h = [tx |-> n, to |-> view[c].to[i], body |-> body]
        BY Zenon
    <2>2. h.tx = n /\ h.to = txs'[n].to[i]
        BY Zenon, <1>7, <2>1
    <2>3. view[c].to[i] \in Range(conns[c].to[k])
        BY Zenon, <1>6 DEF Range
    <2>4. h \in handled'
        BY Zenon, <1>5, <2>1, <2>3
    <2> QED
        BY Zenon, <2>2, <2>4 DEF Reaches
  <1> QED
      BY Zenon, <1>3, <1>5, <1>6, <1>8, <1>9, FinishStep

\* A submission goes to the queue.
LEMMA EnqueueStep ==
  ASSUME IInv, NEW c \in Conns, conns[c].pc = "cmd", conns[c].have,
         NEW body \in Seq(Chunks), Enqueue(c, body, body), conns[c].to["sub"] # <<>>,
         UNCHANGED <<scen, ruled, rep>>
  PROVE  IInv'
  <1>1. Typed /\ Agrees(c) /\ Authorized(c) /\ Submission
      BY Zenon DEF IInv, Sessions, Enqueue
  <1>2. PICK n : n = Len(txs) + 1
      BY Zenon
  <1>3. PICK row : row = [tx |-> n, acct |-> conns[c].auth, tls |-> conns[c].tls,
                          from |-> conns[c].from, params |-> conns[c].params,
                          to |-> conns[c].to["sub"], body |-> body]
      BY Zenon
  <1>4. PICK answer \in Answers :
          /\ Finish(c, body, answer) /\ stored' = stored /\ handled' = handled
          /\ \/ queued' = queued \cup {row}
             \/ answer # "accepted" /\ queued' = queued
    <2>1. "accepted" \in Answers /\ "deferred" \in Answers /\ "deferred" # "accepted"
        BY Zenon DEF Answers
    <2>2. CASE queued' = queued \cup {row} /\ Finish(c, body, "accepted")
        BY Zenon, <2>1, <2>2 DEF Enqueue
    <2>3. CASE queued' \in {queued, queued \cup {row}} /\ Finish(c, body, "deferred")
        BY Zenon, <2>1, <2>3 DEF Enqueue
    <2> QED
        BY Zenon, <1>2, <1>3, <2>2, <2>3 DEF Enqueue
  <1>5. /\ view[c].to = conns[c].to["sub"]
        /\ view[c].from = conns[c].from /\ view[c].params = conns[c].params
      BY Zenon, <1>1, OneList DEF Kinds
  <1>6. /\ n \in DOMAIN txs' /\ txs'[n].from = view[c].from
        /\ txs'[n].params = view[c].params /\ txs'[n].to = view[c].to
        /\ txs'[n].body = body
      BY ZenonT(60), <1>1, <1>2, <1>4, Finished
  <1>7. /\ row.tx = n /\ row.acct = conns[c].auth /\ row.tls = conns[c].tls
        /\ row.from = conns[c].from /\ row.params = conns[c].params
        /\ row.to = conns[c].to["sub"] /\ row.body = body
      BY Zenon, <1>3
  <1>8. RowOf(row)'
    <2>1. Owner[conns[c].from] = conns[c].auth /\ (scen.tls => conns[c].tls)
        BY Zenon, <1>1 DEF Authorized
    <2> QED
        BY Zenon, <1>5, <1>6, <1>7, <2>1 DEF RowOf
  <1>9. Commits
    <2>1. (\A q \in queued : q \in queued') /\ \A q \in queued' : q \in queued \/ q = row
        BY Zenon, <1>4
    <2> QED
        BY Zenon, <1>4, <1>8, <2>1 DEF Commits
  <1>10. answer = "accepted" => \A i \in DOMAIN view[c].to : Reaches(n, i)'
    <2>1. answer = "accepted" => row \in queued'
        BY Zenon, <1>4
    <2> QED
        BY Zenon, <1>7, <2>1 DEF Reaches
  <1> QED
      BY Zenon, <1>2, <1>4, <1>9, <1>10, FinishStep

\* The loop over the recipients begins.
LEMMA BeginStep ==
  ASSUME IInv, NEW c \in Conns, conns[c].pc = "cmd", conns[c].have, ~Submission,
         NEW body \in Seq(Chunks), NEW spf \in BOOLEAN,
         txs' = Append(txs, Tx(c, body, spf, "none")),
         NEW n, n = Len(txs) + 1,
         Become(c, [conns[c] EXCEPT !.pc = "decide", !.i = 1, !.tx = n, !.body = body], NoView),
         UNCHANGED <<scen, stored, queued, handled, ruled, rep>>, conns[c].to["rcpts"] # <<>>
  PROVE  IInv'
  <1>1. /\ Typed /\ Sessions /\ Distinct /\ Recorded /\ Authorized(c) /\ Agrees(c)
        /\ ~Busy(c) /\ Shown(c)
      BY Zenon DEF IInv, Sessions, Busy
  <1>2. conns[c] \in Conn /\ conns[c].ruled = {}
      BY Zenon, <1>1 DEF Typed, Shown
  <1>3. PICK x : x = Tx(c, body, spf, "none")
      BY Zenon
  <1>4. /\ txs' = Append(txs, x) /\ x \in Handed /\ x.from = view[c].from
        /\ x.to = view[c].to /\ x.body = body /\ x.answer = "none"
    <2>1. "none" \in Answers /\ view[c] \in View
        BY Zenon, <1>1 DEF Answers, Typed
    <2> QED
        BY Zenon, <1>3, <2>1 DEF Tx, Handed, View
  <1>5. /\ n \in Nat /\ n \notin DOMAIN txs /\ n \in DOMAIN txs' /\ txs'[n] = x
      BY Zenon, <1>1, <1>4, AppendGrows
  <1>6. PICK y : y = [conns[c] EXCEPT !.pc = "decide", !.i = 1, !.tx = n, !.body = body]
      BY Zenon
  <1>7. /\ y \in Conn /\ y.have /\ y.from = conns[c].from /\ y.to = conns[c].to
        /\ y.pc = "decide" /\ y.i = 1 /\ y.tx = n /\ y.body = body
        /\ y.auth = conns[c].auth /\ y.tls = conns[c].tls /\ y.ruled = {}
    <2>0. 1 \in Nat /\ "decide" \in Pcs
        BY DEF Pcs
    <2>1. y \in Conn /\ y.pc = "decide" /\ y.i = 1
        BY Zenon, <1>2, <1>5, <1>6, <2>0 DEF Conn
    <2>2. y.tx = n /\ y.body = body /\ y.have = conns[c].have /\ y.from = conns[c].from
        BY Zenon, <1>2, <1>6 DEF Conn
    <2>3. /\ y.to = conns[c].to /\ y.auth = conns[c].auth
          /\ y.tls = conns[c].tls /\ y.ruled = conns[c].ruled
        BY Zenon, <1>2, <1>6 DEF Conn
    <2> QED
        BY Zenon, <1>2, <2>1, <2>2, <2>3
  <1>8. Commits
      BY Zenon DEF Commits
  <1>9. Settled' /\ Alone(c) /\ conns'[c] = y
    <2>1. Become(c, y, NoView) /\ NoView \in View /\ y.pc # "record"
        BY Zenon, <1>6, <1>7, FreshIs
    <2>2. x.answer # "accepted"
        BY Zenon, <1>4
    <2> QED
        BY <1>1, <1>4, <1>7, <1>8, <2>1, <2>2, HandedOver
  <1>10. /\ view[c].to = conns[c].to["rcpts"] /\ view[c].from = conns[c].from
      BY Zenon, <1>1, OneList DEF Kinds
  <1>11. Authorized(c)' /\ Agrees(c)'
      BY Zenon, <1>1, <1>7, <1>9 DEF Authorized, Agrees, Submission
  <1>12. Working(c)'
    <2>1. conns[c].to["rcpts"] \in Seq(Recipients)
        BY Zenon, <1>2, ConnFields DEF Lists, Kinds
    <2>2. 1 \in DOMAIN conns[c].to["rcpts"] /\ \A j \in DOMAIN conns[c].to["rcpts"] : ~(j < 1)
        BY <2>1
    <2>3. \A m \in stored' : m.tx # n
        BY Zenon, <1>1, <1>5 DEF Recorded
    <2>4. Match(stored', n, DOMAIN conns[c].to["rcpts"], 1, "decide", y.mailbox)
        BY Zenon, <2>2, <2>3 DEF Match, Copied
    <2>5. ~Submission'
        BY Zenon DEF Submission
    <2> QED
        BY ZenonT(60), <1>4, <1>5, <1>7, <1>9, <1>10, <2>2, <2>4, <2>5 DEF Working
  <1>13. Busy(c)'
      BY Zenon, <1>7, <1>9 DEF Busy
  <1>14. Shown(c)'
    <2>1. (\A m \in stored' : m.tx # n) /\ \A r \in ruled' : r.tx # n
        BY Zenon, <1>1, <1>5 DEF Recorded
    <2>2. Seen(stored', ruled', n, 1, {})
        BY Zenon, <2>1 DEF Seen
    <2> QED
        BY Zenon, <1>7, <1>9, <1>13, <2>2 DEF Shown
  <1>15. Sessions'
      BY Zenon, <1>1, <1>9, <1>11, <1>12, <1>14, SessionsIf
  <1>16. Distinct'
    <2>1. \A d \in Conns : d # c /\ Busy(d)' => Busy(d) /\ conns'[d].tx = conns[d].tx
        BY Zenon, <1>9 DEF Alone, Busy
    <2>2. \A d \in Conns : Busy(d) => conns[d].tx # n
        BY Zenon, <1>1, <1>5 DEF Sessions, Working
    <2>3. \A d \in Conns : d # c /\ Busy(d)' => conns'[d].tx # conns'[c].tx
        BY Zenon, <1>7, <1>9, <2>1, <2>2
    <2>4. ASSUME NEW d \in Conns, NEW e \in Conns, Busy(d)', Busy(e)', conns'[d].tx = conns'[e].tx
          PROVE  d = e
      <3>1. CASE d = c \/ e = c
          BY Zenon, <2>3, <2>4, <3>1
      <3>2. CASE d # c /\ e # c
          BY Zenon, <1>1, <2>1, <2>4, <3>2 DEF Distinct
      <3> QED
          BY Zenon, <3>1, <3>2
    <2> QED
        BY Zenon, <2>4 DEF Distinct
  <1> QED
      BY Zenon, <1>9, <1>15, <1>16 DEF IInv, Settled

\* processData, given a client that agrees on the content.
LEMMA ProcessStep ==
  ASSUME IInv, NEW c \in Conns, conns[c].pc = "cmd", conns[c].have,
         NEW body \in Seq(Chunks), processData(c, body, body),
         NEW k \in Kinds, conns[c].to[k] # <<>>
  PROVE  IInv'
  <1>1. UNCHANGED <<scen, ruled, rep>>
      BY Zenon DEF processData
  <1>2. CASE conns[c].to["bounce"] # <<>> \/ conns[c].to["report"] # <<>>
      BY Zenon, <1>1, <1>2, HandleStep DEF processData
  <1>3. CASE conns[c].to["bounce"] = <<>> /\ conns[c].to["report"] = <<>>
    <2>1. OnlyList(c, k)
        BY Zenon, OneList DEF IInv, Sessions
    <2>2. Enqueue(c, body, body) \/ Receive(c, body, body)
        BY Zenon, <1>3 DEF processData
    <2>3. CASE Enqueue(c, body, body)
      <3>1. conns[c].to["sub"] # <<>>
          BY Zenon, <2>1, <2>3 DEF OnlyList, Enqueue
      <3> QED
          BY Zenon, <1>1, <2>3, <3>1, EnqueueStep
    <2>4. CASE Receive(c, body, body)
      <3>1. ~Submission /\ UNCHANGED <<scen, stored, queued, handled, ruled, rep>>
          BY Zenon, <1>1, <2>4 DEF Receive
      <3>2. k = "rcpts"
          BY Zenon, <1>3, <2>1, <3>1 DEF OnlyList, Kinds
      <3>3. PICK n : n = Len(txs) + 1
          BY Zenon
      <3>4. CASE Finish(c, body, "rejected")
        <4>1. Commits /\ "rejected" \in Answers /\ "rejected" # "accepted"
            BY Zenon, <3>1 DEF Commits, Answers
        <4> QED
            BY Zenon, <3>3, <3>4, <4>1, FinishStep
      <3>5. CASE \E spf \in BOOLEAN :
                   /\ txs' = Append(txs, Tx(c, body, spf, "none"))
                   /\ Become(c, [conns[c] EXCEPT !.pc = "decide", !.i = 1, !.tx = n,
                                                 !.body = body], NoView)
          BY ZenonT(60), <3>1, <3>2, <3>3, <3>5, BeginStep
      <3> QED
          BY Zenon, <2>4, <3>3, <3>4, <3>5 DEF Receive
    <2> QED
        BY Zenon, <2>2, <2>3, <2>4
  <1> QED
      BY Zenon, <1>2, <1>3

\* DATA keeps the invariant.
LEMMA DataStep ==
  ASSUME IInv, NEW c \in Conns, NEW body \in Chunks, NEW fits \in BOOLEAN,
         cmdData(c, body, fits)
  PROVE  IInv'
  <1>1. conns[c].pc = "cmd" /\ conns[c].have
      BY Zenon DEF cmdData, Ready
  <1>2. CASE fits
    <2>1. \E k \in Kinds : conns[c].to[k] # <<>>
        BY Zenon DEF cmdData, Kinds
    <2>2. <<body>> \in Seq(Chunks)
        OBVIOUS
    <2> QED
        BY Zenon, <1>1, <1>2, <2>1, <2>2, ProcessStep DEF cmdData
  <1>3. CASE ~fits
    <2>1. Typed /\ Authorized(c) /\ conns[c].ruled = {}
        BY Zenon, <1>1 DEF IInv, Sessions, Shown, Busy
    <2> QED
        BY Zenon, <1>1, <1>3, <2>1, EndsCommanded, TalkStep DEF cmdData
  <1> QED
      BY Zenon, <1>2, <1>3

\* BDAT keeps the invariant, whether its chunk is the last or not.
LEMMA BDATStep ==
  ASSUME IInv, NEW c \in Conns, NEW chunk \in Chunks, NEW last \in BOOLEAN,
         cmdBDAT(c, chunk, last)
  PROVE  IInv'
  <1>1. conns[c].pc = "cmd" /\ conns[c].have /\ RcptCount(c) > 0
      BY Zenon DEF cmdBDAT, Ready
  <1>2. Typed /\ Authorized(c) /\ Agrees(c) /\ conns[c].ruled = {}
      BY Zenon, <1>1 DEF IInv, Sessions, Shown, Busy
  <1>3. PICK buf : buf = Append(conns[c].bdat, chunk)
      BY Zenon
  <1>4. buf = Append(view[c].chunks, chunk)
      BY Zenon, <1>1, <1>2, <1>3 DEF Agrees
  <1>5. conns[c].bdat \in Seq(Chunks) /\ conns[c].to \in [Kinds -> Seq(Recipients)]
      BY Zenon, <1>2, ConnFields DEF Typed, Lists
  <1>6. buf \in Seq(Chunks) /\ Len(buf) \in Nat
      BY <1>3, <1>5
  <1>7. scen.size \in Nat
      BY Zenon, <1>2 DEF Typed, ScenarioType
  <1>8. CASE Len(buf) > scen.size /\ ~(Len(buf) <= scen.size)
    <2>1. TooLarge(c)
        BY Zenon, <1>3, <1>8 DEF cmdBDAT
    <2> QED
        BY Zenon, <1>1, <1>2, <2>1, EndsCommanded, TalkStep
  <1>9. CASE Len(buf) <= scen.size /\ ~(Len(buf) > scen.size) /\ last
    <2>1. processData(c, buf, buf)
        BY Zenon, <1>3, <1>4, <1>9 DEF cmdBDAT
    <2>2. \E k \in Kinds : conns[c].to[k] # <<>>
      <3>1. SUFFICES ASSUME \A k \in Kinds : conns[c].to[k] = <<>> PROVE FALSE
          BY Zenon
      <3>2. /\ conns[c].to["rcpts"] = <<>> /\ conns[c].to["sub"] = <<>>
            /\ conns[c].to["bounce"] = <<>> /\ conns[c].to["report"] = <<>>
          BY Zenon, <3>1 DEF Kinds
      <3>3. Len(<<>>) + Len(<<>>) + Len(<<>>) + Len(<<>>) > 0
          BY Zenon, <1>1, <3>2 DEF RcptCount
      <3> QED
          BY <3>3
    <2> QED
        BY Zenon, <1>1, <1>6, <2>1, <2>2, ProcessStep
  <1>10. CASE Len(buf) <= scen.size /\ ~(Len(buf) > scen.size) /\ ~last
    <2>1. /\ Become(c, [conns[c] EXCEPT !.bdat = buf], [view[c] EXCEPT !.chunks = buf])
          /\ UNCHANGED <<scen, mail>>
        BY Zenon, <1>3, <1>4, <1>10 DEF cmdBDAT
    <2> QED
        BY Zenon, <1>1, <1>2, <1>6, <2>1, ChunkCommanded, TalkStep
  <1> QED
      BY <1>6, <1>7, <1>8, <1>9, <1>10

-----------------------------------------------------------------------------
(* The loop over the recipients. *)

\* What holds of a session in the loop.
LEMMA AtWork ==
  ASSUME IInv, NEW c \in Conns, Busy(c)
  PROVE  /\ conns[c] \in Conn /\ conns[c].have /\ ~Submission
         /\ conns[c].tx \in DOMAIN txs /\ conns[c].i \in DOMAIN conns[c].to["rcpts"]
         /\ txs[conns[c].tx].from = conns[c].from /\ txs[conns[c].tx].body = conns[c].body
         /\ txs[conns[c].tx].to = conns[c].to["rcpts"] /\ txs[conns[c].tx].answer = "none"
         /\ conns[c].i \in Nat /\ DOMAIN conns[c].to["rcpts"] \subseteq Nat
         /\ conns[c].to["rcpts"] \in Seq(Recipients)
         /\ \A m \in stored : m.tx = conns[c].tx => m.i \in DOMAIN conns[c].to["rcpts"]
  <1>1. Typed /\ Working(c) /\ Recorded
      BY Zenon DEF IInv, Sessions
  <1>2. conns[c] \in Conn
      BY Zenon, <1>1 DEF Typed
  <1>3. conns[c].to["rcpts"] \in Seq(Recipients) /\ conns[c].i \in Nat
      BY Zenon, <1>2, ConnFields DEF Lists, Kinds
  <1>4. DOMAIN conns[c].to["rcpts"] \subseteq Nat
      BY <1>3
  <1> QED
      BY Zenon, <1>1, <1>2, <1>3, <1>4 DEF Working, Recorded

\* Decide lets the message pass or ends it.
Passes(c) ==
  \E folder \in Boxes :
    /\ conns' = [conns EXCEPT ![c].pc = "deliver", ![c].mailbox = folder]
    /\ UNCHANGED txs

Ends(c) ==
  \E answer \in {"deferred", "rejected"} :
    /\ txs' = [txs EXCEPT ![conns[c].tx].answer = answer]
    /\ conns' = [conns EXCEPT ![c] = Done(conns[c])]

\* Decide passes the recipient on to the delivery or ends the message.
LEMMA DecideIs ==
  ASSUME NEW c \in Conns, NEW score, NEW force, NEW token,
         NEW dest \in {None, "Inbox", "Folder"}, NEW fault,
         Decide(c, score, force, dest, token, fault)
  PROVE  /\ conns[c].pc = "decide"
         /\ UNCHANGED <<scen, view, stored, queued, handled, ruled, rep>>
         /\ Passes(c) \/ Ends(c)
  <1> DEFINE k == <<Owner[conns[c].to["rcpts"][conns[c].i]], conns[c].from>>
             h == IF fault = "reputation" THEN NoHistory ELSE rep[k]
             authed == txs[conns[c].tx].spf
             v == Verdict(h, authed, score)
             asked == ~Trusted(h, authed) /\ ~KnownBad(h) /\ fault # "greylist"
             folder == CASE dest # None -> dest
                         [] dest = None /\ ~force /\ v = "junk" -> "Junk"
                         [] OTHER -> "Inbox"
             End(answer) == /\ txs' = [txs EXCEPT ![conns[c].tx].answer = answer]
                            /\ conns' = [conns EXCEPT ![c] = Done(conns[c])]
             Accept == /\ conns' = [conns EXCEPT ![c].pc = "deliver", ![c].mailbox = folder]
                       /\ UNCHANGED txs
             stops == asked /\ greylisted(k)
  <1>1. /\ conns[c].pc = "decide"
        /\ UNCHANGED <<scen, view, stored, queued, handled, ruled, rep>>
      BY Zenon DEF Decide
  <1>2. Accept \/ End("deferred") \/ End("rejected")
    <2>1. /\ force => Accept
          /\ ~force => CASE stops -> End("deferred")
                         [] ~stops /\ v = "reject" ->
                              IF ~scen.subjectpass THEN End("rejected")
                              ELSE IF token THEN Accept ELSE End("deferred")
                         [] OTHER -> Accept
        BY Zenon DEF Decide
    <2> HIDE DEF Accept, End, stops, v
    <2> QED
        BY Zenon, <2>1
  <1>3. folder \in Boxes
    <2> HIDE DEF v
    <2> QED
        BY Zenon DEF Boxes
  <1> QED
      BY Zenon, <1>1, <1>2, <1>3 DEF Passes, Ends

\* Everything outside the sessions is kept by a step that stores and rules nothing
\* and accepts nothing.
LEMMA SettledKept ==
  ASSUME IInv, NEW c \in Conns, Alone(c), conns' \in [Conns -> Conn], view' = view,
         conns'[c].pc # "record",
         stored' = stored, queued' = queued, handled' = handled, ruled' = ruled, rep' = rep,
         DOMAIN txs' = DOMAIN txs,
         \A t \in DOMAIN txs : txs'[t].answer = "accepted" => txs[t].answer = "accepted"
  PROVE  Settled'
  <1>1. /\ Typed /\ Sessions /\ Distinct /\ Recorded /\ Ruled /\ Earned
        /\ NothingInherited /\ AcceptedReachesAll /\ SenderOwned
      BY Zenon DEF IInv
  <1>2. scen' = scen /\ Grows
      BY Zenon DEF Alone
  <1>3. Typed'
      BY Zenon, <1>1, <1>2 DEF Typed, Grows
  <1>4. Recorded' /\ NothingInherited' /\ SenderOwned'
      BY Zenon, <1>1, <1>2, MailKept
  <1>5. AcceptedReachesAll'
    <2>1. \A t \in DOMAIN txs' : txs'[t].answer = "accepted" =>
            t \in DOMAIN txs /\ txs[t].answer = "accepted"
        BY Zenon
    <2> QED
        BY Zenon, <1>1, <1>2, <2>1, AcceptedKept
  <1>6. Ruled'
      BY Zenon, <1>1, RuledSame
  <1>7. Earned'
    <2>1. \A m : Pending(m)' => Pending(m)
        BY Zenon, NoneStarts
    <2>2. \A k, b : \A m \in Counted(k, b) : m \in Counted(k, b)'
        BY Zenon, <1>1, <1>2, <2>1, CountedKept
    <2>3. IsFiniteSet(stored')
        BY Zenon, <1>1 DEF Earned
    <2> QED
        BY Zenon, <1>1, <1>2, <2>2, <2>3, EarnedKept
  <1> QED
      BY Zenon, <1>3, <1>4, <1>5, <1>6, <1>7 DEF Settled

\* A session that stays in the loop.
LEMMA StaysBusy ==
  ASSUME IInv, NEW c \in Conns, Busy(c), scen' = scen, Grows,
         txs'[conns[c].tx].answer = "none",
         NEW y, conns'[c] = y, y.pc # "cmd", y.i \in DOMAIN conns[c].to["rcpts"],
         y.have = conns[c].have, y.from = conns[c].from, y.to = conns[c].to,
         y.tx = conns[c].tx, y.body = conns[c].body, y.auth = conns[c].auth,
         y.tls = conns[c].tls,
         Match(stored', conns[c].tx, DOMAIN conns[c].to["rcpts"], y.i, y.pc, y.mailbox),
         Seen(stored', ruled', conns[c].tx, y.i, y.ruled)
  PROVE  Authorized(c)' /\ Agrees(c)' /\ Working(c)' /\ Shown(c)'
  <1>1. Authorized(c)
      BY Zenon DEF IInv, Sessions
  <1>2. Authorized(c)' /\ Agrees(c)' /\ Busy(c)'
      BY Zenon, <1>1 DEF Authorized, Agrees, Submission, Busy
  <1>3. conns[c].have /\ ~Submission'
      BY Zenon, AtWork DEF Submission
  <1>4. conns[c].tx \in DOMAIN txs' /\ txs'[conns[c].tx].from = conns[c].from
      BY Zenon, AtWork DEF Grows
  <1>5. /\ txs'[conns[c].tx].body = conns[c].body
        /\ txs'[conns[c].tx].to = conns[c].to["rcpts"]
      BY Zenon, AtWork DEF Grows
  <1>6. Working(c)'
      BY Zenon, <1>3, <1>4, <1>5 DEF Working
  <1>7. Shown(c)'
      BY Zenon, <1>2 DEF Shown
  <1> QED
      BY Zenon, <1>2, <1>6, <1>7

\* No copy is made by a decision;
LEMMA MatchAccept ==
  ASSUME NEW S, NEW t, NEW D, NEW i \in Nat, NEW b, NEW f, Match(S, t, D, i, "decide", b),
         \A m \in S : m.tx = t => m.i \in Nat
  PROVE  Match(S, t, D, i, "deliver", f)
  <1>1. \A j : Copied(i, "decide", j) <=> j < i
      BY Zenon DEF Copied
  <1>2. \A j : Copied(i, "deliver", j) <=> j < i
      BY Zenon DEF Copied
  <1>3. \A m \in S : m.tx = t => m.i < i /\ m.i # i
    <2>1. \A m \in S : m.tx = t => m.i < i
        BY Zenon, <1>1 DEF Match
    <2> QED
        BY Zenon, <2>1, Before
  <1> QED
      BY Zenon, <1>1, <1>2, <1>3 DEF Match

\* The message passes: the copy is not made yet.
LEMMA AcceptStep ==
  ASSUME IInv, NEW c \in Conns, conns[c].pc = "decide", NEW folder \in Boxes,
         conns' = [conns EXCEPT ![c].pc = "deliver", ![c].mailbox = folder],
         UNCHANGED <<scen, view, txs, stored, queued, handled, ruled, rep>>
  PROVE  IInv'
  <1>1. /\ Typed /\ Sessions /\ Distinct /\ Authorized(c) /\ Working(c) /\ Shown(c) /\ Busy(c)
      BY Zenon DEF IInv, Sessions, Busy
  <1>2. PICK y : y = [conns[c] EXCEPT !.pc = "deliver", !.mailbox = folder]
      BY Zenon
  <1>3. conns[c] \in Conn /\ conns \in [Conns -> Conn]
      BY Zenon, <1>1 DEF Typed
  <1>4. /\ y \in Conn /\ y.have = conns[c].have /\ y.from = conns[c].from /\ y.to = conns[c].to
        /\ y.pc = "deliver" /\ y.i = conns[c].i /\ y.tx = conns[c].tx /\ y.body = conns[c].body
        /\ y.auth = conns[c].auth /\ y.tls = conns[c].tls /\ y.ruled = conns[c].ruled
    <2>1. y \in Conn /\ y.pc = "deliver" /\ y.have = conns[c].have /\ y.from = conns[c].from
        BY Zenon, <1>2, <1>3 DEF Conn, Pcs
    <2>2. y.to = conns[c].to /\ y.i = conns[c].i /\ y.tx = conns[c].tx /\ y.body = conns[c].body
        BY Zenon, <1>2, <1>3 DEF Conn
    <2>3. y.auth = conns[c].auth /\ y.tls = conns[c].tls /\ y.ruled = conns[c].ruled
        BY Zenon, <1>2, <1>3 DEF Conn
    <2> QED
        BY Zenon, <2>1, <2>2, <2>3
  <1>5. conns' = [conns EXCEPT ![c] = y]
      BY Zenon, <1>2
  <1>6. /\ conns' \in [Conns -> Conn] /\ conns'[c] = y
        /\ \A d \in Conns : d # c => conns'[d] = conns[d]
      BY Zenon, <1>3, <1>4, <1>5
  <1>7. Alone(c)
      BY Zenon, <1>1, <1>6, SameGrows DEF Alone
  <1>8. Settled'
      BY Zenon, <1>4, <1>6, <1>7, SettledKept
  <1>9. Match(stored, conns[c].tx, DOMAIN conns[c].to["rcpts"], conns[c].i, "deliver", y.mailbox)
    <2>1. Match(stored, conns[c].tx, DOMAIN conns[c].to["rcpts"], conns[c].i, "decide",
                conns[c].mailbox)
        BY Zenon, <1>1 DEF Working
    <2>2. conns[c].i \in Nat /\ \A m \in stored : m.tx = conns[c].tx => m.i \in Nat
        BY Zenon, <1>1, AtWork
    <2> QED
        BY Zenon, <2>1, <2>2, MatchAccept
  <1>10. Seen(stored, ruled, conns[c].tx, conns[c].i, conns[c].ruled)
      BY Zenon, <1>1 DEF Shown
  <1>11. Grows /\ txs'[conns[c].tx].answer = "none" /\ y.i \in DOMAIN conns[c].to["rcpts"]
      BY Zenon, <1>1, <1>4, AtWork, SameGrows
  <1>12. Authorized(c)' /\ Agrees(c)' /\ Working(c)' /\ Shown(c)'
      BY Zenon, <1>1, <1>4, <1>6, <1>9, <1>10, <1>11, StaysBusy
  <1>13. Sessions' /\ Distinct'
      BY Zenon, <1>1, <1>4, <1>6, <1>7, <1>12, SessionsIf, DistinctIf
  <1> QED
      BY Zenon, <1>8, <1>13 DEF IInv, Settled

\* The handler gives up on the message, whatever copies there are.
LEMMA EndStep ==
  ASSUME IInv, NEW c \in Conns, conns[c].pc = "decide", NEW answer \in {"deferred", "rejected"},
         txs' = [txs EXCEPT ![conns[c].tx].answer = answer],
         conns' = [conns EXCEPT ![c] = Done(conns[c])],
         UNCHANGED <<scen, view, stored, queued, handled, ruled, rep>>
  PROVE  IInv'
  <1>1. /\ Typed /\ Sessions /\ Distinct /\ Authorized(c) /\ Busy(c)
      BY Zenon DEF IInv, Sessions, Busy
  <1>2. conns[c] \in Conn /\ conns \in [Conns -> Conn] /\ conns[c].tx \in DOMAIN txs
      BY Zenon, <1>1, AtWork DEF Typed
  <1>3. PICK y : y = Done(conns[c])
      BY Zenon
  <1>4. /\ y \in Conn /\ ~y.have /\ y.to = NoRcpts /\ y.pc = "cmd" /\ y.ruled = {}
        /\ y.auth = conns[c].auth /\ y.tls = conns[c].tls
      BY Zenon, <1>2, <1>3, DoneIs
  <1>5. /\ conns' \in [Conns -> Conn] /\ conns'[c] = y
        /\ \A d \in Conns : d # c => conns'[d] = conns[d]
      BY Zenon, <1>2, <1>3, <1>4
  <1>6. answer \in Answers /\ answer # "accepted"
      BY Zenon DEF Answers
  <1>7. /\ Grows /\ DOMAIN txs' = DOMAIN txs /\ txs'[conns[c].tx].answer = answer
        /\ \A u \in DOMAIN txs : u # conns[c].tx => txs'[u] = txs[u]
      BY Zenon, <1>1, <1>2, <1>6, AnswerGrows
  <1>8. Alone(c)
      BY Zenon, <1>1, <1>5, <1>7 DEF Alone
  <1>9. Settled'
    <2>1. \A t \in DOMAIN txs : txs'[t].answer = "accepted" => txs[t].answer = "accepted"
        BY Zenon, <1>6, <1>7
    <2> QED
        BY Zenon, <1>4, <1>5, <1>7, <1>8, <2>1, SettledKept
  <1>10. Authorized(c)' /\ Agrees(c)'
      BY Zenon, <1>1, <1>4, <1>5, Cleared DEF Authorized
  <1>11. ~Busy(c)' /\ Working(c)' /\ Shown(c)'
      BY Zenon, <1>4, <1>5, Idle
  <1>12. Sessions' /\ Distinct'
      BY Zenon, <1>1, <1>8, <1>10, <1>11, SessionsIf, DistinctIf
  <1> QED
      BY Zenon, <1>9, <1>12 DEF IInv, Settled

\* a delivery makes the copy of the recipient the loop is at,
LEMMA MatchDeliver ==
  ASSUME NEW S, NEW t, NEW D, NEW i \in Nat, NEW b, Match(S, t, D, i, "deliver", b),
         \A m \in S : m.tx = t => m.i \in Nat,
         NEW m0, m0.tx = t, m0.i = i, m0.mailbox = b
  PROVE  Match(S \cup {m0}, t, D, i, "record", b)
  <1>1. \A j : Copied(i, "deliver", j) <=> j < i
      BY Zenon DEF Copied
  <1>2. \A j : Copied(i, "record", j) <=> j < i \/ j = i
      BY Zenon DEF Copied
  <1>3. \A m \in S : m.tx = t => m.i < i
      BY Zenon, <1>1 DEF Match
  <1>4. \A m \in S : m.tx = t => m.i # i
      BY Zenon, <1>3, Before
  <1>5. \A j \in D : j < i => \E m \in S : m.tx = t /\ m.i = j
      BY Zenon, <1>1 DEF Match
  <1>6. \A j \in D : Copied(i, "record", j) => \E m \in S \cup {m0} : m.tx = t /\ m.i = j
      BY Zenon, <1>2, <1>5
  <1>7. \A m \in S \cup {m0} : m.tx = t =>
          Copied(i, "record", m.i) /\ (m.i = i => m.mailbox = b)
      BY Zenon, <1>2, <1>3, <1>4
  <1> QED
      BY Zenon, <1>6, <1>7 DEF Match

\* of which the rules have seen nothing yet;
LEMMA SeenDeliver ==
  ASSUME NEW S, NEW R, NEW t, NEW i \in Nat, NEW A, Seen(S, R, t, i, A), NEW m0, m0.i = i
  PROVE  Seen(S \cup {m0}, R, t, i, A)
  <1>1. ~(m0.i < i)
      BY Zenon, Before
  <1> QED
      BY Zenon, <1>1 DEF Seen

\* then the loop goes on to the next recipient.
LEMMA MatchNext ==
  ASSUME NEW S, NEW t, NEW D \in SUBSET Nat, NEW i \in Nat, NEW b, NEW f,
         Match(S, t, D, i, "record", b), \A m \in S : m.tx = t => m.i \in Nat
  PROVE  Match(S, t, D, i + 1, "decide", f)
  <1>1. \A j : Copied(i, "record", j) <=> j < i \/ j = i
      BY Zenon DEF Copied
  <1>2. \A j \in Nat : Copied(i + 1, "decide", j) <=> Copied(i, "record", j)
    <2>1. \A j : Copied(i + 1, "decide", j) <=> j < i + 1
        BY Zenon DEF Copied
    <2> QED
        BY Zenon, <1>1, <2>1, Before
  <1>3. \A m \in S : m.tx = t => Copied(i, "record", m.i) /\ m.i # i + 1
    <2>1. \A j \in Nat : j < i \/ j = i => j # i + 1
        OBVIOUS
    <2>2. \A m \in S : m.tx = t => Copied(i, "record", m.i)
        BY Zenon DEF Match
    <2> QED
        BY Zenon, <1>1, <2>1, <2>2
  <1>4. \A j \in D : Copied(i, "record", j) => \E m \in S : m.tx = t /\ m.i = j
      BY Zenon DEF Match
  <1>5. \A j \in D : Copied(i + 1, "decide", j) => \E m \in S : m.tx = t /\ m.i = j
      BY Zenon, <1>2, <1>4
  <1>6. \A m \in S : m.tx = t =>
          Copied(i + 1, "decide", m.i) /\ (m.i = i + 1 => m.mailbox = f)
      BY Zenon, <1>2, <1>3
  <1> QED
      BY Zenon, <1>5, <1>6 DEF Match

\* The copies of t that the loop, at recipient i of account a, has made.
Placed(S, t, i, a) ==
  \A m \in S : m.tx = t => m.i \in Nat /\ (m.i = i => Owner[m.to] = a)

\* Y is X and z.
Adds(X, Y, z) == Y = X \cup {z}

\* The rules see the message for account a0 unless they did before.
LEMMA SeenNext ==
  ASSUME NEW S, NEW R, NEW t, NEW i \in Nat, NEW A, Seen(S, R, t, i, A),
         NEW D, i \in D, NEW b, Match(S, t, D, i, "record", b),
         NEW a0 \in Accounts, Placed(S, t, i, a0),
         NEW Q, NEW B, NEW r0, r0.tx = t, r0.acct = a0,
         \/ b = "Inbox" /\ a0 \notin A /\ Adds(R, Q, r0) /\ Adds(A, B, a0)
         \/ ~(b = "Inbox" /\ a0 \notin A) /\ Q = R /\ B = A
  PROVE  Seen(S, Q, t, i + 1, B)
  <1>1. PICK m0 \in S : m0.tx = t /\ m0.i = i /\ m0.mailbox = b /\ Owner[m0.to] = a0
    <2>1. Copied(i, "record", i)
        BY Zenon DEF Copied
    <2> QED
        BY Zenon, <2>1 DEF Match, Placed
  <1>2. \A m \in S : m.tx = t /\ m.i = i => m.mailbox = b /\ Owner[m.to] = a0
      BY Zenon DEF Match, Placed
  <1>3. \A a : a \in B <=> a \in A \/ (b = "Inbox" /\ a = a0)
    <2>1. CASE b = "Inbox" /\ a0 \notin A
      <3>1. B = A \cup {a0}
          BY Zenon, <2>1 DEF Adds
      <3> QED
          BY Zenon, <2>1, <3>1
    <2>2. CASE ~(b = "Inbox" /\ a0 \notin A)
      <3>1. B = A
          BY Zenon, <2>2
      <3> QED
          BY Zenon, <2>2, <3>1
    <2> QED
        BY Zenon, <2>1, <2>2
  <1>4. \A m \in S : m.tx = t => (m.i < i + 1 <=> m.i < i \/ m.i = i)
      BY Zenon, Before DEF Placed
  <1>5. ASSUME NEW a \in Accounts
        PROVE  a \in B <=> \E r \in Q : r.tx = t /\ r.acct = a
    <2>1. a \in A <=> \E r \in R : r.tx = t /\ r.acct = a
        BY Zenon, <1>5 DEF Seen
    <2> QED
        BY Zenon, <2>1 DEF Adds
  <1>6. ASSUME NEW a \in Accounts
        PROVE  a \in B <=> \E m \in S : m.tx = t /\ m.i < i + 1 /\ m.mailbox = "Inbox"
                                        /\ Owner[m.to] = a
    <2>1. a \in A <=> \E m \in S : m.tx = t /\ m.i < i /\ m.mailbox = "Inbox" /\ Owner[m.to] = a
        BY Zenon, <1>6 DEF Seen
    <2>2. (b = "Inbox" /\ a = a0) <=>
            \E m \in S : m.tx = t /\ m.i = i /\ m.mailbox = "Inbox" /\ Owner[m.to] = a
        BY Zenon, <1>1, <1>2
    <2> QED
        BY Zenon, <1>3, <1>4, <1>6, <2>1, <2>2
  <1> QED
      BY Zenon, <1>5, <1>6 DEF Seen

\* A copy is delivered.
LEMMA DeliverStep ==
  ASSUME IInv, NEW c \in Conns, Deliver(c)
  PROVE  IInv'
  <1>1. /\ Typed /\ Sessions /\ Distinct /\ Recorded /\ Ruled /\ Earned
        /\ NothingInherited /\ AcceptedReachesAll /\ SenderOwned
      BY Zenon DEF IInv
  <1>2. /\ conns[c].pc = "deliver" /\ Busy(c) /\ Working(c) /\ Shown(c)
      BY Zenon, <1>1 DEF Deliver, Sessions, Busy
  <1>3. /\ scen' = scen /\ view' = view /\ txs' = txs /\ queued' = queued
        /\ handled' = handled /\ ruled' = ruled /\ rep' = rep
      BY Zenon DEF Deliver
  <1>4. PICK t, i : t = conns[c].tx /\ i = conns[c].i
      BY Zenon
  <1>5. /\ conns[c] \in Conn /\ t \in DOMAIN txs /\ i \in DOMAIN conns[c].to["rcpts"] /\ i \in Nat
        /\ txs[t].from = conns[c].from /\ txs[t].body = conns[c].body
        /\ txs[t].to = conns[c].to["rcpts"] /\ txs[t].answer = "none"
        /\ \A m \in stored : m.tx = t => m.i \in Nat
      BY Zenon, <1>2, <1>4, AtWork
  <1>6. PICK m0 : m0 = [tx |-> t, i |-> i, to |-> conns[c].to["rcpts"][i],
                        from |-> conns[c].from, body |-> conns[c].body,
                        mailbox |-> conns[c].mailbox]
      BY Zenon
  <1>7. /\ m0.tx = t /\ m0.i = i /\ m0.to = conns[c].to["rcpts"][i] /\ m0.from = conns[c].from
        /\ m0.body = conns[c].body /\ m0.mailbox = conns[c].mailbox
      BY Zenon, <1>6
  <1>8. stored' = stored \cup {m0}
      BY Zenon, <1>4, <1>6 DEF Deliver
  <1>9. PICK y : y = [conns[c] EXCEPT !.pc = "record"]
      BY Zenon
  <1>10. /\ y \in Conn /\ y.pc = "record" /\ y.i = i /\ y.tx = t /\ y.mailbox = conns[c].mailbox
         /\ y.ruled = conns[c].ruled /\ y.have = conns[c].have /\ y.from = conns[c].from
         /\ y.to = conns[c].to /\ y.body = conns[c].body /\ y.auth = conns[c].auth
         /\ y.tls = conns[c].tls
    <2>1. y \in Conn /\ y.pc = "record" /\ y.i = conns[c].i /\ y.tx = conns[c].tx
        BY Zenon, <1>5, <1>9 DEF Conn, Pcs
    <2>2. /\ y.mailbox = conns[c].mailbox /\ y.ruled = conns[c].ruled
          /\ y.have = conns[c].have /\ y.from = conns[c].from
        BY Zenon, <1>5, <1>9 DEF Conn
    <2>3. /\ y.to = conns[c].to /\ y.body = conns[c].body /\ y.auth = conns[c].auth
          /\ y.tls = conns[c].tls
        BY Zenon, <1>5, <1>9 DEF Conn
    <2> QED
        BY Zenon, <1>4, <2>1, <2>2, <2>3
  <1>11. /\ conns' \in [Conns -> Conn] /\ conns'[c] = y
         /\ \A d \in Conns : d # c => conns'[d] = conns[d]
    <2>1. conns' = [conns EXCEPT ![c] = y] /\ conns \in [Conns -> Conn]
        BY Zenon, <1>1, <1>9 DEF Deliver, Typed
    <2> QED
        BY Zenon, <1>10, <2>1
  <1>12. Grows /\ (\A m \in stored : m \in stored') /\ \A m \in stored' : m \in stored \/ m.tx = t
      BY Zenon, <1>1, <1>3, <1>7, <1>8, SameGrows
  <1>13. Alone(c)
      BY Zenon, <1>2, <1>3, <1>4, <1>11, <1>12 DEF Alone
  <1>14. Match(stored, t, DOMAIN conns[c].to["rcpts"], i, "deliver", conns[c].mailbox)
      BY Zenon, <1>2, <1>4 DEF Working
  <1>15. Authorized(c)' /\ Agrees(c)' /\ Working(c)' /\ Shown(c)'
    <2>1. Match(stored', t, DOMAIN conns[c].to["rcpts"], i, "record", conns[c].mailbox)
        BY Zenon, <1>5, <1>7, <1>8, <1>14, MatchDeliver
    <2>2. Seen(stored, ruled, t, i, conns[c].ruled)
        BY Zenon, <1>2, <1>4 DEF Shown
    <2>3. Seen(stored', ruled', t, i, conns[c].ruled)
        BY Zenon, <1>3, <1>5, <1>7, <1>8, <2>2, SeenDeliver
    <2>4. txs'[t].answer = "none" /\ y.pc # "cmd" /\ y.i \in DOMAIN conns[c].to["rcpts"]
        BY Zenon, <1>3, <1>5, <1>10
    <2> QED
        BY Zenon, <1>2, <1>3, <1>4, <1>10, <1>11, <1>12, <2>1, <2>3, <2>4, StaysBusy
  <1>16. Sessions' /\ Distinct'
      BY Zenon, <1>1, <1>2, <1>4, <1>10, <1>11, <1>13, <1>15, SessionsIf, DistinctIf
  <1>17. Recorded' /\ NothingInherited' /\ SenderOwned'
    <2>1. CopyOf(m0)'
        BY Zenon, <1>3, <1>5, <1>7 DEF CopyOf
    <2>2. \A m \in stored' : m \in stored \/ CopyOf(m)'
        BY Zenon, <1>8, <2>1
    <2> QED
        BY Zenon, <1>1, <1>3, <1>12, <2>2, MailKept
  <1>18. AcceptedReachesAll'
      BY Zenon, <1>1, <1>3, <1>12, AcceptedKept
  <1>19. Ruled'
    <2>1. \A r, s \in ruled' : r.tx = s.tx /\ r.acct = s.acct => r = s
        BY Zenon, <1>1, <1>3 DEF Ruled
    <2>2. \A u \in DOMAIN txs' : txs'[u].answer = "accepted" =>
            /\ u \in DOMAIN txs /\ txs[u].answer = "accepted"
            /\ \A m \in stored' : m \in stored \/ m.tx # u
            /\ \A r \in ruled' : r \in ruled \/ r.tx # u
        BY Zenon, <1>3, <1>5, <1>12
    <2> QED
        BY Zenon, <1>1, <1>3, <1>12, <2>1, <2>2, RuledKept
  <1>20. Earned'
    <2>1. \A m \in stored : m.tx = t => m.i # i
      <3>1. \A m \in stored : m.tx = t => m.i < i
          BY Zenon, <1>14 DEF Match, Copied
      <3> QED
          BY Zenon, <1>5, <3>1, Before
    <2>2. \A m \in stored : Pending(m)' => Pending(m)
        BY ZenonT(60), <1>10, <1>11, <2>1 DEF Pending
    <2>3. \A k, b : \A m \in Counted(k, b) : m \in Counted(k, b)'
        BY Zenon, <1>1, <1>12, <2>2, CountedKept
    <2>4. IsFiniteSet(stored')
        BY Zenon, <1>1, <1>8, FS_AddElement DEF Earned
    <2> QED
        BY Zenon, <1>1, <1>3, <2>3, <2>4, EarnedKept
  <1>21. Typed'
      BY Zenon, <1>1, <1>3, <1>11 DEF Typed
  <1> QED
      BY Zenon, <1>16, <1>17, <1>18, <1>19, <1>20, <1>21 DEF IInv

\* A set with a member more has at least one member more to count.
LEMMA OneMore ==
  ASSUME NEW S, NEW T, IsFiniteSet(T), \A x \in S : x \in T, NEW m \in T, m \notin S
  PROVE  /\ Cardinality(S) \in Nat /\ Cardinality(T) \in Nat
         /\ Cardinality(S) + 1 <= Cardinality(T)
  <1>1. IsFiniteSet(S) /\ Cardinality(S) \in Nat /\ Cardinality(T) \in Nat
      BY Zenon, Bigger
  <1>2. Cardinality(S \cup {m}) = Cardinality(S) + 1
      BY Zenon, <1>1, FS_AddElement
  <1>3. \A x \in S \cup {m} : x \in T
      BY Zenon
  <1>4. Cardinality(S \cup {m}) <= Cardinality(T)
      BY Zenon, <1>3, Bigger
  <1> QED
      BY Zenon, <1>1, <1>2, <1>4

\* One more ham is covered by one more message, and so is one more junk.
LEMMA CoveredHam ==
  ASSUME Typed, NEW k \in Keys, Covered(k), scen' = scen, IsFiniteSet(stored'),
         rep'[k] = [rep[k] EXCEPT !.ham = rep[k].ham + 1],
         \A b : \A m \in Counted(k, b) : m \in Counted(k, b)',
         NEW m0, m0 \in Counted(k, FALSE)', m0 \notin Counted(k, FALSE)
  PROVE  Covered(k)'
  <1>1. rep[k] \in [ham: Nat, junk: Nat] /\ scen.rep.ham \in Nat /\ scen.rep.junk \in Nat
      BY Zenon DEF Typed, ScenarioType
  <1>2. rep[k].ham \in Nat /\ rep[k].junk \in Nat
      BY Zenon, <1>1
  <1>3. rep'[k].ham = rep[k].ham + 1 /\ rep'[k].junk = rep[k].junk
      BY Zenon, <1>1
  <1>4. PICK x, y, xx, yy :
          /\ x = Cardinality(Counted(k, FALSE)) /\ xx = Cardinality(Counted(k, FALSE)')
          /\ y = Cardinality(Counted(k, TRUE)) /\ yy = Cardinality(Counted(k, TRUE)')
      BY Zenon
  <1>5. x \in Nat /\ xx \in Nat /\ x + 1 <= xx
      BY Zenon, <1>4, CountedFiniteAfter, OneMore
  <1>6. y \in Nat /\ yy \in Nat /\ y <= yy
      BY Zenon, <1>4, CountedFiniteAfter, Bigger
  <1>7. rep[k].ham <= scen.rep.ham + x /\ rep[k].junk <= scen.rep.junk + y
      BY Zenon, <1>4 DEF Covered
  <1>8. rep[k].ham + 1 <= scen.rep.ham + xx /\ rep[k].junk <= scen.rep.junk + yy
      BY <1>1, <1>2, <1>5, <1>6, <1>7
  <1>9. /\ rep'[k].ham <= scen'.rep.ham + Cardinality(Counted(k, FALSE)')
        /\ rep'[k].junk <= scen'.rep.junk + Cardinality(Counted(k, TRUE)')
      BY Zenon, <1>3, <1>4, <1>8
  <1> QED
      BY Zenon, <1>9 DEF Covered

\* The same for junk.
LEMMA CoveredJunk ==
  ASSUME Typed, NEW k \in Keys, Covered(k), scen' = scen, IsFiniteSet(stored'),
         rep'[k] = [rep[k] EXCEPT !.junk = rep[k].junk + 1],
         \A b : \A m \in Counted(k, b) : m \in Counted(k, b)',
         NEW m0, m0 \in Counted(k, TRUE)', m0 \notin Counted(k, TRUE)
  PROVE  Covered(k)'
  <1>1. rep[k] \in [ham: Nat, junk: Nat] /\ scen.rep.ham \in Nat /\ scen.rep.junk \in Nat
      BY Zenon DEF Typed, ScenarioType
  <1>2. rep[k].ham \in Nat /\ rep[k].junk \in Nat
      BY Zenon, <1>1
  <1>3. rep'[k].junk = rep[k].junk + 1 /\ rep'[k].ham = rep[k].ham
      BY Zenon, <1>1
  <1>4. PICK x, y, xx, yy :
          /\ x = Cardinality(Counted(k, FALSE)) /\ xx = Cardinality(Counted(k, FALSE)')
          /\ y = Cardinality(Counted(k, TRUE)) /\ yy = Cardinality(Counted(k, TRUE)')
      BY Zenon
  <1>5. x \in Nat /\ xx \in Nat /\ x <= xx
      BY Zenon, <1>4, CountedFiniteAfter, Bigger
  <1>6. y \in Nat /\ yy \in Nat /\ y + 1 <= yy
      BY Zenon, <1>4, CountedFiniteAfter, OneMore
  <1>7. rep[k].ham <= scen.rep.ham + x /\ rep[k].junk <= scen.rep.junk + y
      BY Zenon, <1>4 DEF Covered
  <1>8. rep[k].ham <= scen.rep.ham + xx /\ rep[k].junk + 1 <= scen.rep.junk + yy
      BY <1>1, <1>2, <1>5, <1>6, <1>7
  <1>9. /\ rep'[k].ham <= scen'.rep.ham + Cardinality(Counted(k, FALSE)')
        /\ rep'[k].junk <= scen'.rep.junk + Cardinality(Counted(k, TRUE)')
      BY Zenon, <1>3, <1>4, <1>8
  <1> QED
      BY Zenon, <1>9 DEF Covered

\* The copy that was just made, for the account a and the sender of the message.
LEMMA JustMade ==
  ASSUME IInv, NEW c \in Conns, conns[c].pc = "record"
  PROVE  /\ Owner[conns[c].to["rcpts"][conns[c].i]] \in Accounts /\ conns[c].from \in Senders
         /\ \A m \in stored : m.tx = conns[c].tx /\ m.i = conns[c].i =>
              /\ m.mailbox = conns[c].mailbox /\ m.from = conns[c].from
              /\ Owner[m.to] = Owner[conns[c].to["rcpts"][conns[c].i]]
         /\ \E m \in stored : m.tx = conns[c].tx /\ m.i = conns[c].i
  <1>0. PICK t, i, a : /\ t = conns[c].tx /\ i = conns[c].i
                       /\ a = Owner[conns[c].to["rcpts"][i]]
      BY Zenon
  <1>1. Busy(c) /\ Working(c) /\ Authorized(c) /\ NothingInherited
      BY Zenon DEF IInv, Sessions, Busy
  <1>2. /\ conns[c].have /\ i \in DOMAIN conns[c].to["rcpts"]
        /\ txs[t].from = conns[c].from /\ txs[t].to = conns[c].to["rcpts"]
        /\ Match(stored, t, DOMAIN conns[c].to["rcpts"], i, "record", conns[c].mailbox)
      BY Zenon, <1>0, <1>1 DEF Working
  <1>3. a \in Accounts /\ conns[c].from \in Senders
      BY ZenonT(60), <1>0, <1>1, <1>2, SmtpAssumption DEF Authorized
  <1>4. \A m \in stored : m.tx = t /\ m.i = i =>
          m.mailbox = conns[c].mailbox /\ Owner[m.to] = a /\ m.from = conns[c].from
    <2>1. \A m \in stored : m.tx = t /\ m.i = i => m.mailbox = conns[c].mailbox
        BY Zenon, <1>2 DEF Match
    <2>2. \A m \in stored : m.from = txs[m.tx].from /\ m.to = txs[m.tx].to[m.i]
        BY Zenon, <1>1 DEF NothingInherited
    <2>3. ASSUME NEW m \in stored, m.tx = t, m.i = i
          PROVE  Owner[m.to] = a /\ m.from = conns[c].from
      <3>1. m.from = txs[t].from /\ m.to = txs[t].to[i]
          BY Zenon, <2>2, <2>3
      <3> QED
          BY Zenon, <1>0, <1>2, <3>1
    <2> QED
        BY Zenon, <2>1, <2>3
  <1>5. \E m \in stored : m.tx = t /\ m.i = i
      BY Zenon, <1>2 DEF Match, Copied
  <1> QED
      BY Zenon, <1>0, <1>3, <1>4, <1>5

\* RecordOutcome counts that copy.
LEMMA RecordEarned ==
  ASSUME IInv, NEW c \in Conns, Record(c), Alone(c), stored' = stored,
         conns'[c].pc # "record"
  PROVE  Earned'
  <1>1. /\ Typed /\ Sessions /\ Distinct /\ Recorded /\ Earned
      BY Zenon DEF IInv
  <1>2. scen' = scen /\ Grows /\ conns[c].pc = "record" /\ Busy(c)
      BY Zenon DEF Alone, Record, Busy
  <1>3. PICK t, i, a, k0 : /\ t = conns[c].tx /\ i = conns[c].i
                           /\ a = Owner[conns[c].to["rcpts"][i]] /\ k0 = <<a, conns[c].from>>
      BY Zenon
  <1>4. PICK m0 \in stored : /\ m0.tx = t /\ m0.i = i /\ m0.mailbox = conns[c].mailbox
                             /\ Owner[m0.to] = a /\ m0.from = conns[c].from
    <2>1. /\ \A m \in stored : m.tx = t /\ m.i = i =>
               m.mailbox = conns[c].mailbox /\ Owner[m.to] = a /\ m.from = conns[c].from
          /\ \E m \in stored : m.tx = t /\ m.i = i
        BY Zenon, <1>2, <1>3, JustMade
    <2> QED
        BY Zenon, <2>1
  <1>5. k0 \in Keys /\ k0[1] = a /\ k0[2] = conns[c].from
    <2>1. <<a, conns[c].from>> \in Keys
        BY Zenon, <1>2, <1>3, JustMade DEF Keys
    <2> QED
        BY Zenon, <1>3, <2>1
  <1>6. \A k, b : \A m \in Counted(k, b) : m \in Counted(k, b)'
    <2>1. \A m : Pending(m)' => Pending(m)
        BY Zenon, NoneStarts
    <2> QED
        BY Zenon, <1>1, <1>2, <2>1, CountedKept
  <1>7. IsFiniteSet(stored') /\ \A k \in Keys : Covered(k)
      BY Zenon, <1>1 DEF Earned, Covered
  <1>8. Pending(m0) /\ ~Pending(m0)'
    <2>1. Pending(m0)
        BY Zenon, <1>2, <1>3, <1>4 DEF Pending
    <2>2. ASSUME NEW d \in Conns, conns'[d].pc = "record", conns'[d].tx = m0.tx PROVE FALSE
      <3>1. d # c
          BY Zenon, <2>2
      <3>2. conns[d].pc = "record" /\ conns[d].tx = m0.tx
          BY Zenon, <2>2, <3>1 DEF Alone
      <3>3. Busy(d) /\ conns[d].tx = conns[c].tx
          BY Zenon, <1>3, <1>4, <3>2 DEF Busy
      <3> QED
          BY Zenon, <1>1, <1>2, <3>1, <3>3 DEF Distinct
    <2> QED
        BY Zenon, <2>1, <2>2 DEF Pending
  <1>9. CASE rep' = rep
      BY Zenon, <1>1, <1>2, <1>6, <1>7, <1>9, EarnedKept
  <1>10. CASE /\ txs[t].spf
              /\ rep' = IF conns[c].mailbox # "Junk" THEN [rep EXCEPT ![k0].ham = @ + 1]
                                                     ELSE [rep EXCEPT ![k0].junk = @ + 1]
    <2>1. rep \in [Keys -> [ham: Nat, junk: Nat]]
        BY Zenon, <1>1 DEF Typed
    <2>2. \A k \in Keys : k # k0 => rep'[k] = rep[k]
        BY Zenon, <1>10, <2>1
    <2>3. \A k \in Keys : k # k0 => Covered(k)'
        BY Zenon, <1>1, <1>2, <1>6, <1>7, <2>2, CoveredKept
    <2>4. txs'[m0.tx].spf /\ m0 \in stored'
        BY Zenon, <1>1, <1>2, <1>4, <1>10 DEF Recorded, Grows
    <2>5. CASE conns[c].mailbox # "Junk"
      <3>1. m0 \in Counted(k0, FALSE)'
          BY Zenon, <1>4, <1>5, <1>8, <2>4, <2>5 DEF Counted, Vouched
      <3>2. m0 \notin Counted(k0, FALSE)
          BY Zenon, <1>8 DEF Counted
      <3>3. rep'[k0] = [rep[k0] EXCEPT !.ham = rep[k0].ham + 1]
          BY Zenon, <1>5, <1>10, <2>1, <2>5
      <3> QED
          BY Zenon, <1>1, <1>2, <1>5, <1>6, <1>7, <2>3, <3>1, <3>2, <3>3, CoveredHam
             DEF Earned, Covered
    <2>6. CASE conns[c].mailbox = "Junk"
      <3>1. m0 \in Counted(k0, TRUE)'
          BY Zenon, <1>4, <1>5, <1>8, <2>4, <2>6 DEF Counted, Vouched
      <3>2. m0 \notin Counted(k0, TRUE)
          BY Zenon, <1>8 DEF Counted
      <3>3. rep'[k0] = [rep[k0] EXCEPT !.junk = rep[k0].junk + 1]
          BY Zenon, <1>5, <1>10, <2>1, <2>6
      <3> QED
          BY Zenon, <1>1, <1>2, <1>5, <1>6, <1>7, <2>3, <3>1, <3>2, <3>3, CoveredJunk
             DEF Earned, Covered
    <2> QED
        BY Zenon, <2>5, <2>6
  <1> QED
      BY Zenon, <1>3, <1>9, <1>10 DEF Record, RecordOutcome

\* RecordOutcome keeps the counts natural numbers.
LEMMA RecordedRep ==
  ASSUME Typed, NEW c \in Conns, Record(c)
  PROVE  rep' \in [Keys -> [ham: Nat, junk: Nat]]
  <1>1. PICK k : \/ rep' = rep
                 \/ rep' = [rep EXCEPT ![k].ham = @ + 1]
                 \/ rep' = [rep EXCEPT ![k].junk = @ + 1]
      BY Zenon DEF Record, RecordOutcome
  <1>2. rep \in [Keys -> [ham: Nat, junk: Nat]]
      BY Zenon DEF Typed
  <1> QED
      BY <1>1, <1>2

\* B is the accounts whose rules have seen t once the loop is past recipient i.
Ran(t, i, B) ==
  /\ Seen(stored, ruled', t, i + 1, B)
  /\ \A r \in ruled : r \in ruled'
  /\ \A r \in ruled' : r \in ruled \/ r.tx = t
  /\ \A r, s \in ruled' : r.tx = s.tx /\ r.acct = s.acct => r = s

\* What Record does to the rules, at the last recipient or before.
LEMMA RecordRules ==
  ASSUME IInv, NEW c \in Conns, Record(c), NEW t, t = conns[c].tx, NEW i, i = conns[c].i,
         NEW a, a = Owner[conns[c].to["rcpts"][i]], NEW B,
         B = IF RunsRules(c, a) THEN conns[c].ruled \cup {a} ELSE conns[c].ruled
  PROVE  Ran(t, i, B)
  <1>1. /\ conns[c].pc = "record" /\ Busy(c) /\ Working(c) /\ Shown(c) /\ Ruled
      BY Zenon DEF IInv, Sessions, Busy, Record
  <1>2. i \in Nat /\ i \in DOMAIN conns[c].to["rcpts"] /\ \A m \in stored : m.tx = t => m.i \in Nat
      BY Zenon, <1>1, AtWork
  <1>3. /\ a \in Accounts
        /\ \A m \in stored : m.tx = t /\ m.i = i => Owner[m.to] = a
      BY Zenon, <1>1, JustMade
  <1>4. /\ Match(stored, t, DOMAIN conns[c].to["rcpts"], i, "record", conns[c].mailbox)
        /\ Seen(stored, ruled, t, i, conns[c].ruled)
      BY Zenon, <1>1 DEF Working, Shown
  <1>5. PICK r0 : r0 = [tx |-> t, i |-> i, acct |-> a]
      BY Zenon
  <1>6. r0.tx = t /\ r0.acct = a
      BY Zenon, <1>5
  <1>7. PICK A, b : A = conns[c].ruled /\ b = conns[c].mailbox
      BY Zenon
  <1>8. \/ b = "Inbox" /\ a \notin A /\ ruled' = ruled \cup {r0} /\ B = A \cup {a}
        \/ ~(b = "Inbox" /\ a \notin A) /\ ruled' = ruled /\ B = A
      BY Zenon, <1>5, <1>7 DEF Record, RunsRules
  <1>9. Seen(stored, ruled', t, i + 1, B)
    <2>1. /\ Match(stored, t, DOMAIN conns[c].to["rcpts"], i, "record", b)
          /\ Seen(stored, ruled, t, i, A)
        BY Zenon, <1>4, <1>7
    <2>2. Placed(stored, t, i, a)
        BY Zenon, <1>2, <1>3 DEF Placed
    <2>3. i \in Nat /\ i \in DOMAIN conns[c].to["rcpts"] /\ a \in Accounts
        BY Zenon, <1>2, <1>3
    <2>4. CASE b = "Inbox" /\ a \notin A /\ Adds(ruled, ruled', r0) /\ Adds(A, B, a)
        BY Zenon, <1>6, <2>1, <2>2, <2>3, <2>4, SeenNext
    <2>5. CASE ~(b = "Inbox" /\ a \notin A) /\ ruled' = ruled /\ B = A
        BY Zenon, <1>6, <2>1, <2>2, <2>3, <2>5, SeenNext
    <2> QED
        BY Zenon, <1>8, <2>4, <2>5 DEF Adds
  <1>10. (\A r \in ruled : r \in ruled') /\ \A r \in ruled' : r \in ruled \/ r.tx = t
      BY Zenon, <1>6, <1>8
  <1>11. ASSUME NEW r \in ruled', NEW s \in ruled', r.tx = s.tx, r.acct = s.acct
         PROVE  r = s
    <2>1. CASE r \in ruled /\ s \in ruled
        BY ZenonT(60), <1>1, <1>11, <2>1 DEF Ruled
    <2>2. CASE r \notin ruled \/ s \notin ruled
      <3>1. a \notin A /\ (r = r0 \/ r \in ruled) /\ (s = r0 \/ s \in ruled)
          BY Zenon, <1>8, <1>11, <2>2
      <3>2. \A q \in ruled : ~(q.tx = t /\ q.acct = a)
          BY Zenon, <1>3, <1>4, <1>7, <3>1 DEF Seen
      <3> QED
          BY Zenon, <1>6, <1>11, <2>2, <3>1, <3>2
    <2> QED
        BY Zenon, <2>1, <2>2
  <1> QED
      BY Zenon, <1>9, <1>10, <1>11 DEF Ran

\* The parts of the invariant that do not depend on whether it was the last recipient.
LEMMA RecordSettled ==
  ASSUME IInv, NEW c \in Conns, Record(c), Alone(c), conns' \in [Conns -> Conn],
         conns'[c].pc # "record",
         \A r \in ruled' : r \in ruled \/ r.tx \in DOMAIN txs
  PROVE  Typed' /\ Recorded' /\ NothingInherited' /\ SenderOwned' /\ Earned'
  <1>1. /\ Typed /\ Recorded /\ NothingInherited /\ SenderOwned
      BY Zenon DEF IInv
  <1>2. /\ scen' = scen /\ view' = view /\ stored' = stored /\ queued' = queued
        /\ handled' = handled /\ Grows
      BY Zenon DEF Record, Alone
  <1>3. Typed'
      BY Zenon, <1>1, <1>2, RecordedRep DEF Typed, Grows
  <1>4. \A r \in ruled' : r \in ruled \/ r.tx \in DOMAIN txs'
      BY Zenon, <1>2 DEF Grows
  <1>5. Recorded' /\ NothingInherited' /\ SenderOwned'
      BY Zenon, <1>1, <1>2, <1>4, MailKept
  <1>6. Earned'
      BY Zenon, <1>2, RecordEarned
  <1> QED
      BY Zenon, <1>3, <1>5, <1>6

\* After the last recipient the client gets its 250.
LEMMA RecordLast ==
  ASSUME IInv, NEW c \in Conns, Record(c), conns[c].i = Len(conns[c].to["rcpts"])
  PROVE  IInv'
  <1>1. /\ Typed /\ Sessions /\ Distinct /\ Recorded /\ Ruled /\ AcceptedReachesAll
        /\ Authorized(c) /\ Working(c) /\ Busy(c) /\ conns[c].pc = "record"
      BY Zenon DEF IInv, Sessions, Record, Busy
  <1>2. PICK t, i, a : /\ t = conns[c].tx /\ i = conns[c].i
                       /\ a = Owner[conns[c].to["rcpts"][i]]
      BY Zenon
  <1>3. PICK B : B = IF RunsRules(c, a) THEN conns[c].ruled \cup {a} ELSE conns[c].ruled
      BY Zenon
  <1>4. /\ conns[c] \in Conn /\ conns \in [Conns -> Conn] /\ t \in DOMAIN txs
        /\ txs[t].to = conns[c].to["rcpts"] /\ conns[c].to["rcpts"] \in Seq(Recipients)
        /\ i \in Nat
      BY Zenon, <1>1, <1>2, AtWork DEF Typed
  <1>5. /\ scen' = scen /\ view' = view /\ stored' = stored /\ queued' = queued
        /\ handled' = handled /\ conns' = [conns EXCEPT ![c] = Done(conns[c])]
        /\ txs' = [txs EXCEPT ![t].answer = "accepted"]
      BY Zenon, <1>2 DEF Record
  <1>6. /\ Seen(stored, ruled', t, i + 1, B)
        /\ \A r \in ruled : r \in ruled'
        /\ \A r \in ruled' : r \in ruled \/ r.tx = t
        /\ \A r, s \in ruled' : r.tx = s.tx /\ r.acct = s.acct => r = s
    <2>1. Ran(t, i, B)
        BY Zenon, <1>2, <1>3, RecordRules
    <2> QED
        BY Zenon, <2>1 DEF Ran
  <1>7. PICK y : y = Done(conns[c])
      BY Zenon
  <1>8. /\ y \in Conn /\ ~y.have /\ y.to = NoRcpts /\ y.pc = "cmd" /\ y.ruled = {}
        /\ y.auth = conns[c].auth /\ y.tls = conns[c].tls
      BY Zenon, <1>4, <1>7, DoneIs
  <1>9. /\ conns' \in [Conns -> Conn] /\ conns'[c] = y
        /\ \A d \in Conns : d # c => conns'[d] = conns[d]
      BY Zenon, <1>4, <1>5, <1>7, <1>8
  <1>10. /\ Grows /\ DOMAIN txs' = DOMAIN txs
         /\ \A u \in DOMAIN txs : u # t => txs'[u] = txs[u]
    <2>1. "accepted" \in Answers
        BY Zenon DEF Answers
    <2> QED
        BY Zenon, <1>1, <1>4, <1>5, <2>1, AnswerGrows
  <1>11. Alone(c)
      BY Zenon, <1>1, <1>2, <1>5, <1>6, <1>9, <1>10 DEF Alone
  <1>12. Typed' /\ Recorded' /\ NothingInherited' /\ SenderOwned' /\ Earned'
    <2>1. \A r \in ruled' : r \in ruled \/ r.tx \in DOMAIN txs
        BY Zenon, <1>4, <1>6
    <2> QED
        BY Zenon, <1>8, <1>9, <1>11, <2>1, RecordSettled
  <1>13. Match(stored, t, DOMAIN conns[c].to["rcpts"], i, "record", conns[c].mailbox)
      BY Zenon, <1>1, <1>2 DEF Working
  <1>14. AcceptedReachesAll'
    <2>1. \A j \in DOMAIN conns[c].to["rcpts"] : j < i \/ j = i
      <3>1. \A j \in DOMAIN conns[c].to["rcpts"] : j <= i /\ j \in Nat
          BY <1>2, <1>4
      <3> QED
          BY <1>4, <3>1
    <2>2. \A j \in DOMAIN conns[c].to["rcpts"] : \E m \in stored : m.tx = t /\ m.i = j
        BY Zenon, <1>13, <2>1 DEF Match, Copied
    <2>3. txs'[t].to = conns[c].to["rcpts"]
        BY Zenon, <1>4, <1>10 DEF Grows
    <2>4. \A j \in DOMAIN txs'[t].to : Reaches(t, j)'
        BY Zenon, <1>5, <2>2, <2>3 DEF Reaches
    <2>5. \A u \in DOMAIN txs' : txs'[u].answer = "accepted" =>
            \/ u \in DOMAIN txs /\ txs[u].answer = "accepted"
            \/ \A j \in DOMAIN txs'[u].to : Reaches(u, j)'
        BY Zenon, <1>10, <2>4
    <2> QED
        BY Zenon, <1>1, <1>5, <1>10, <2>5, AcceptedKept
  <1>15. Ruled'
    <2>1. \A m \in stored : m.tx = t => m.i < i + 1
      <3>1. \A m \in stored : m.tx = t => m.i < i \/ m.i = i
          BY Zenon, <1>13 DEF Match, Copied
      <3>2. \A m \in stored : m.tx = t => m.i \in Nat
          BY Zenon, <1>1, <1>2, AtWork
      <3> QED
          BY Zenon, <1>4, <3>1, <3>2, Before
    <2>2. RulesFor(t)'
      <3>1. \A b \in Accounts : (\E r \in ruled' : r.tx = t /\ r.acct = b) <=>
              \E m \in stored : m.tx = t /\ m.i < i + 1 /\ m.mailbox = "Inbox" /\ Owner[m.to] = b
          BY Zenon, <1>6 DEF Seen
      <3> QED
          BY Zenon, <1>5, <2>1, <3>1 DEF RulesFor
    <2>3. \A u \in DOMAIN txs' : txs'[u].answer = "accepted" =>
            \/ /\ u \in DOMAIN txs /\ txs[u].answer = "accepted"
               /\ \A m \in stored' : m \in stored \/ m.tx # u
               /\ \A r \in ruled' : r \in ruled \/ r.tx # u
            \/ RulesFor(u)'
        BY Zenon, <1>5, <1>6, <1>10, <2>2
    <2> QED
        BY Zenon, <1>1, <1>5, <1>6, <2>3, RuledKept
  <1>16. Authorized(c)' /\ Agrees(c)'
      BY Zenon, <1>1, <1>5, <1>8, <1>9, Cleared DEF Authorized
  <1>17. ~Busy(c)' /\ Working(c)' /\ Shown(c)'
      BY Zenon, <1>8, <1>9, Idle
  <1>18. Sessions' /\ Distinct'
      BY Zenon, <1>1, <1>11, <1>16, <1>17, SessionsIf, DistinctIf
  <1> QED
      BY Zenon, <1>12, <1>14, <1>15, <1>18 DEF IInv

\* Otherwise the loop goes on to the next recipient.
LEMMA RecordNext ==
  ASSUME IInv, NEW c \in Conns, Record(c), conns[c].i # Len(conns[c].to["rcpts"])
  PROVE  IInv'
  <1>1. /\ Typed /\ Sessions /\ Distinct /\ Recorded /\ Ruled /\ AcceptedReachesAll
        /\ Working(c) /\ Busy(c) /\ conns[c].pc = "record"
      BY Zenon DEF IInv, Sessions, Record, Busy
  <1>2. PICK t, i, a : /\ t = conns[c].tx /\ i = conns[c].i
                       /\ a = Owner[conns[c].to["rcpts"][i]]
      BY Zenon
  <1>3. PICK B : B = IF RunsRules(c, a) THEN conns[c].ruled \cup {a} ELSE conns[c].ruled
      BY Zenon
  <1>4. /\ conns[c] \in Conn /\ conns \in [Conns -> Conn] /\ t \in DOMAIN txs
        /\ txs[t].answer = "none" /\ conns[c].to["rcpts"] \in Seq(Recipients)
        /\ i \in Nat /\ i \in DOMAIN conns[c].to["rcpts"]
        /\ DOMAIN conns[c].to["rcpts"] \subseteq Nat
        /\ \A m \in stored : m.tx = t => m.i \in Nat
      BY Zenon, <1>1, <1>2, AtWork DEF Typed
  <1>5. i + 1 \in Nat /\ i + 1 \in DOMAIN conns[c].to["rcpts"]
      BY <1>2, <1>4
  <1>6. /\ Seen(stored, ruled', t, i + 1, B)
        /\ \A r \in ruled : r \in ruled'
        /\ \A r \in ruled' : r \in ruled \/ r.tx = t
        /\ \A r, s \in ruled' : r.tx = s.tx /\ r.acct = s.acct => r = s
    <2>1. Ran(t, i, B)
        BY Zenon, <1>2, <1>3, RecordRules
    <2> QED
        BY Zenon, <2>1 DEF Ran
  <1>7. PICK y, n : n = i + 1 /\ y = [conns[c] EXCEPT !.pc = "decide", !.i = n, !.ruled = B]
      BY Zenon
  <1>8. /\ scen' = scen /\ view' = view /\ stored' = stored /\ queued' = queued
        /\ handled' = handled /\ txs' = txs /\ conns' = [conns EXCEPT ![c] = y]
      BY Zenon, <1>2, <1>3, <1>7 DEF Record
  <1>9. B \in SUBSET Accounts
    <2>1. a \in Accounts
        BY Zenon, <1>1, <1>2, JustMade
    <2>2. conns[c].ruled \in SUBSET Accounts
        BY Zenon, <1>4, ConnFields
    <2> QED
        BY Zenon, <1>3, <2>1, <2>2
  <1>10. /\ y \in Conn /\ y.pc = "decide" /\ y.i = n /\ y.ruled = B /\ y.tx = t
         /\ y.mailbox = conns[c].mailbox /\ y.have = conns[c].have /\ y.from = conns[c].from
         /\ y.to = conns[c].to /\ y.body = conns[c].body /\ y.auth = conns[c].auth
         /\ y.tls = conns[c].tls
    <2>0. n \in Nat /\ "decide" \in Pcs
        BY Zenon, <1>5, <1>7 DEF Pcs
    <2>1. y \in Conn /\ y.pc = "decide" /\ y.i = n
        BY Zenon, <1>4, <1>7, <1>9, <2>0 DEF Conn
    <2>2. y.ruled = B /\ y.tx = conns[c].tx /\ y.mailbox = conns[c].mailbox
        BY Zenon, <1>4, <1>7 DEF Conn
    <2>3. y.have = conns[c].have /\ y.from = conns[c].from /\ y.to = conns[c].to
        BY Zenon, <1>4, <1>7 DEF Conn
    <2>4. y.body = conns[c].body /\ y.auth = conns[c].auth /\ y.tls = conns[c].tls
        BY Zenon, <1>4, <1>7 DEF Conn
    <2> QED
        BY Zenon, <1>2, <2>1, <2>2, <2>3, <2>4
  <1>11. /\ conns' \in [Conns -> Conn] /\ conns'[c] = y
         /\ \A d \in Conns : d # c => conns'[d] = conns[d]
      BY Zenon, <1>4, <1>8, <1>10
  <1>12. Grows
      BY Zenon, <1>1, <1>8, SameGrows
  <1>13. Alone(c)
      BY Zenon, <1>1, <1>2, <1>6, <1>8, <1>11, <1>12 DEF Alone
  <1>14. Typed' /\ Recorded' /\ NothingInherited' /\ SenderOwned' /\ Earned'
    <2>1. \A r \in ruled' : r \in ruled \/ r.tx \in DOMAIN txs
        BY Zenon, <1>4, <1>6
    <2> QED
        BY Zenon, <1>10, <1>11, <1>13, <2>1, RecordSettled
  <1>15. AcceptedReachesAll'
      BY Zenon, <1>1, <1>8, <1>12, AcceptedKept
  <1>16. Ruled'
    <2>1. \A u \in DOMAIN txs' : txs'[u].answer = "accepted" =>
            /\ u \in DOMAIN txs /\ txs[u].answer = "accepted"
            /\ \A m \in stored' : m \in stored \/ m.tx # u
            /\ \A r \in ruled' : r \in ruled \/ r.tx # u
        BY Zenon, <1>4, <1>6, <1>8
    <2> QED
        BY Zenon, <1>1, <1>6, <1>8, <2>1, RuledKept
  <1>17. Authorized(c)' /\ Agrees(c)' /\ Working(c)' /\ Shown(c)'
    <2>1. Match(stored, t, DOMAIN conns[c].to["rcpts"], i, "record", conns[c].mailbox)
        BY Zenon, <1>1, <1>2 DEF Working
    <2>2. Match(stored, t, DOMAIN conns[c].to["rcpts"], i + 1, "decide", y.mailbox)
        BY Zenon, <1>4, <2>1, MatchNext
    <2>3. /\ Match(stored', conns[c].tx, DOMAIN conns[c].to["rcpts"], y.i, y.pc, y.mailbox)
          /\ Seen(stored', ruled', conns[c].tx, y.i, y.ruled)
        BY Zenon, <1>2, <1>6, <1>7, <1>8, <1>10, <2>2
    <2>4. /\ txs'[conns[c].tx].answer = "none" /\ y.pc # "cmd"
          /\ y.i \in DOMAIN conns[c].to["rcpts"] /\ y.tx = conns[c].tx
        BY Zenon, <1>2, <1>4, <1>5, <1>7, <1>8, <1>10
    <2> QED
        BY Zenon, <1>1, <1>8, <1>10, <1>11, <1>12, <2>3, <2>4, StaysBusy
  <1>18. Sessions' /\ Distinct'
      BY Zenon, <1>1, <1>2, <1>10, <1>11, <1>13, <1>17, SessionsIf, DistinctIf
  <1> QED
      BY Zenon, <1>14, <1>15, <1>16, <1>18 DEF IInv

-----------------------------------------------------------------------------
(* Steps without mail, and the whole. *)

\* A step that stores, queues, answers and counts nothing keeps the invariant.
LEMMA StillStep ==
  ASSUME IInv, UNCHANGED <<scen, txs, stored, queued, handled, ruled, rep>>,
         conns' \in [Conns -> Conn], view' \in [Conns -> View], Sessions', Distinct',
         \A m : Pending(m)' => Pending(m)
  PROVE  IInv'
  <1>1. /\ Typed /\ Recorded /\ Ruled /\ Earned
        /\ NothingInherited /\ AcceptedReachesAll /\ SenderOwned
      BY Zenon DEF IInv
  <1>2. /\ scen' = scen /\ txs' = txs /\ stored' = stored /\ queued' = queued
        /\ handled' = handled /\ ruled' = ruled /\ rep' = rep
      BY Zenon
  <1>3. Grows
      BY Zenon, <1>1, <1>2, SameGrows
  <1>4. Typed'
      BY Zenon, <1>1, <1>2 DEF Typed
  <1>5. Recorded' /\ NothingInherited' /\ SenderOwned'
      BY Zenon, <1>1, <1>2, <1>3, MailKept
  <1>6. AcceptedReachesAll'
      BY Zenon, <1>1, <1>2, <1>3, AcceptedKept
  <1>7. Ruled'
      BY Zenon, <1>1, <1>2, RuledSame
  <1>8. Earned'
    <2>1. \A k, b : \A m \in Counted(k, b) : m \in Counted(k, b)'
        BY Zenon, <1>1, <1>2, <1>3, CountedKept
    <2>2. IsFiniteSet(stored')
        BY Zenon, <1>1, <1>2 DEF Earned
    <2> QED
        BY Zenon, <1>1, <1>2, <2>1, <2>2, EarnedKept
  <1> QED
      BY Zenon, <1>4, <1>5, <1>6, <1>7, <1>8 DEF IInv

\* Fresh connections.
LEMMA AllFresh ==
  ASSUME conns' = [c \in Conns |-> Fresh], view' = [c \in Conns |-> NoView]
  PROVE  /\ conns' \in [Conns -> Conn] /\ view' \in [Conns -> View]
         /\ Sessions' /\ Distinct' /\ \A m : ~Pending(m)'
  <1>1. conns' \in [Conns -> Conn] /\ view' \in [Conns -> View]
      BY Zenon, FreshIs
  <1>2. \A c \in Conns : /\ ~conns'[c].have /\ conns'[c].pc = "cmd" /\ conns'[c].auth = None
                         /\ conns'[c].to = NoRcpts /\ conns'[c].ruled = {}
      BY Zenon, FreshIs
  <1>3. \A c \in Conns : ~Busy(c)' /\ Working(c)' /\ Shown(c)'
      BY Zenon, <1>2, Idle
  <1>4. \A c \in Conns : Authorized(c)' /\ Agrees(c)'
      BY Zenon, <1>2, NoneLocal DEF Authorized, Agrees
  <1>5. Sessions' /\ Distinct'
      BY Zenon, <1>3, <1>4 DEF Sessions, Distinct
  <1>6. \A m : ~Pending(m)'
      BY Zenon, <1>2 DEF Pending
  <1> QED
      BY Zenon, <1>1, <1>5, <1>6

\* The node stops: copies of messages that were never answered stay.
LEMMA StopStep ==
  ASSUME IInv, Crash \/ \E c \in Conns : DeliverFails(c)
  PROVE  IInv'
  <1>1. /\ UNCHANGED <<scen, txs, stored, queued, handled, ruled, rep>>
        /\ conns' = [c \in Conns |-> Fresh] /\ view' = [c \in Conns |-> NoView]
      BY Zenon DEF DeliverFails, Crash, Stops
  <1>2. /\ conns' \in [Conns -> Conn] /\ view' \in [Conns -> View]
        /\ Sessions' /\ Distinct' /\ \A m : Pending(m)' => Pending(m)
      BY Zenon, <1>1, AllFresh
  <1> QED
      BY Zenon, <1>1, <1>2, StillStep

\* So does one that only the greylist and the budget notice.
LEMMA QuietStep ==
  ASSUME IInv, UNCHANGED <<scen, conns, view, txs, stored, queued, handled, ruled, rep>>
  PROVE  IInv'
  <1>1. Typed /\ Sessions /\ Distinct
      BY Zenon DEF IInv
  <1>2. \A d \in Conns : Authorized(d)' /\ Agrees(d)' /\ Working(d)' /\ Shown(d)'
    <2> SUFFICES ASSUME NEW d \in Conns
                 PROVE  Authorized(d)' /\ Agrees(d)' /\ Working(d)' /\ Shown(d)'
        BY Zenon
    <2>1. Authorized(d) /\ Agrees(d) /\ Working(d) /\ Shown(d)
        BY Zenon, <1>1 DEF Sessions
    <2>2. Grows
        BY Zenon, <1>1, SameGrows
    <2> QED
        BY Zenon, <2>1, <2>2, OthersKept
  <1>3. Sessions'
      BY Zenon, <1>2 DEF Sessions
  <1>4. Distinct'
    <2>1. \A c \in Conns : Busy(c)' => Busy(c) /\ conns'[c].tx = conns[c].tx
        BY Zenon DEF Busy
    <2> QED
        BY Zenon, <1>1, <2>1, DistinctKept
  <1>5. /\ conns' \in [Conns -> Conn] /\ view' \in [Conns -> View]
        /\ \A m : Pending(m)' => Pending(m)
      BY Zenon, <1>1 DEF Typed, Pending
  <1> QED
      BY Zenon, <1>3, <1>4, <1>5, StillStep

\* The invariant holds when the server starts.
LEMMA InitIInv == Init => IInv
  <1> SUFFICES ASSUME Init PROVE IInv
      BY Zenon
  <1>1. /\ scen \in ScenarioType /\ conns = [c \in Conns |-> Fresh]
        /\ view = [c \in Conns |-> NoView] /\ txs = <<>>
        /\ stored = {} /\ queued = {} /\ handled = {} /\ ruled = {}
        /\ rep = [k \in Keys |-> scen.rep]
      BY ZenonT(60), SmtpAssumption DEF Init
  <1>2. txs \in Seq(Handed) /\ \A t \in DOMAIN txs : FALSE
      BY <1>1
  <1>3. scen.rep \in [ham: Nat, junk: Nat] /\ scen.rep.ham \in Nat /\ scen.rep.junk \in Nat
      BY Zenon, <1>1 DEF ScenarioType
  <1>4. Typed
      BY Zenon, <1>1, <1>2, <1>3, FreshIs DEF Typed
  <1>5. \A c \in Conns : /\ ~conns[c].have /\ conns[c].pc = "cmd" /\ conns[c].auth = None
                         /\ conns[c].to = NoRcpts /\ conns[c].ruled = {}
      BY Zenon, <1>1, FreshIs
  <1>6. Sessions /\ Distinct
    <2>1. \A c \in Conns : ~Busy(c) /\ Working(c) /\ Shown(c)
        BY Zenon, <1>5 DEF Busy, Working, Shown
    <2>2. \A c \in Conns : Authorized(c) /\ Agrees(c)
        BY Zenon, <1>5, NoneLocal DEF Authorized, Agrees
    <2> QED
        BY Zenon, <2>1, <2>2 DEF Sessions, Distinct
  <1>7. Recorded /\ Ruled /\ NothingInherited /\ AcceptedReachesAll /\ SenderOwned
      BY Zenon, <1>1, <1>2 DEF Recorded, Ruled, NothingInherited, AcceptedReachesAll, SenderOwned
  <1>8. Earned
    <2>1. IsFiniteSet(stored)
        BY Zenon, <1>1, FS_EmptySet
    <2>2. \A k \in Keys : /\ rep[k].ham <= scen.rep.ham + Cardinality(Counted(k, FALSE))
                           /\ rep[k].junk <= scen.rep.junk + Cardinality(Counted(k, TRUE))
      <3> SUFFICES ASSUME NEW k \in Keys
                   PROVE  /\ rep[k].ham <= scen.rep.ham + Cardinality(Counted(k, FALSE))
                          /\ rep[k].junk <= scen.rep.junk + Cardinality(Counted(k, TRUE))
          BY Zenon
      <3>1. PICK x, y : x = Cardinality(Counted(k, FALSE)) /\ y = Cardinality(Counted(k, TRUE))
          BY Zenon
      <3>2. x \in Nat /\ y \in Nat
          BY Zenon, <2>1, <3>1, CountedFinite
      <3>3. rep[k] = scen.rep
          BY Zenon, <1>1
      <3>4. scen.rep.ham <= scen.rep.ham + x /\ scen.rep.junk <= scen.rep.junk + y
          BY <1>3, <3>2
      <3> QED
          BY Zenon, <3>1, <3>3, <3>4
    <2> QED
        BY Zenon, <2>1, <2>2 DEF Earned
  <1> QED
      BY Zenon, <1>4, <1>6, <1>7, <1>8 DEF IInv

\* One step for each handler.
LEMMA NextIInv == IInv /\ [Next]_vars => IInv'
  <1> SUFFICES ASSUME IInv, [Next]_vars PROVE IInv'
      BY Zenon
  <1>1. Typed /\ \A c \in Conns : Authorized(c) /\ Agrees(c) /\ Shown(c)
      BY Zenon DEF IInv, Sessions
  <1>2. \A c \in Conns : Ready(c) => conns[c].pc = "cmd" /\ conns[c].ruled = {}
      BY Zenon, <1>1 DEF Ready, Shown, Busy
  <1>3. ASSUME NEW c \in Conns, \/ RSET(c) \/ QUIT(c) \/ cmdStartTLS(c)
                                \/ \E a \in Accounts : cmdAuth(c, a)
        PROVE  IInv'
    <2>1. Ready(c)
        BY Zenon, <1>3 DEF RSET, QUIT, cmdStartTLS, cmdAuth
    <2>2. conns[c].pc = "cmd" /\ conns[c].ruled = {}
        BY Zenon, <1>2, <2>1
    <2> QED
        BY Zenon, <1>1, <1>3, <2>2, EndsCommanded, TalkStep
  <1>4. ASSUME NEW c \in Conns, NEW from \in scen.from, NEW hold \in {"none", "hold", "bad"},
               cmdMail(c, from, hold)
        PROVE  IInv'
    <2>1. conns[c].ruled = {}
        BY Zenon, <1>2, <1>4 DEF cmdMail
    <2> QED
        BY Zenon, <1>1, <1>4, <2>1, MailCommanded, TalkStep
  <1>5. ASSUME NEW c \in Conns, NEW to \in scen.to, cmdRcpt(c, to)
        PROVE  IInv'
    <2>1. conns[c].ruled = {}
        BY Zenon, <1>2, <1>5 DEF cmdRcpt
    <2> QED
        BY Zenon, <1>1, <1>5, <2>1, RcptCommanded, TalkStep
  <1>6. ASSUME NEW c \in Conns,
               \/ \E body \in Chunks, fits \in BOOLEAN : cmdData(c, body, fits)
               \/ \E chunk \in Chunks, last \in BOOLEAN : cmdBDAT(c, chunk, last)
        PROVE  IInv'
      BY Zenon, <1>6, DataStep, BDATStep
  <1>7. ASSUME NEW c \in Conns, NEW score \in Scores, NEW force \in BOOLEAN,
               NEW token \in BOOLEAN, NEW dest \in {None, "Inbox", "Folder"},
               NEW fault \in {"none", "reputation", "greylist"},
               Decide(c, score, force, dest, token, fault)
        PROVE  IInv'
    <2>1. /\ conns[c].pc = "decide"
          /\ UNCHANGED <<scen, view, stored, queued, handled, ruled, rep>>
          /\ Passes(c) \/ Ends(c)
        BY Zenon, <1>7, DecideIs
    <2>2. CASE Passes(c)
        BY Zenon, <2>1, <2>2, AcceptStep DEF Passes
    <2>3. CASE Ends(c)
        BY Zenon, <2>1, <2>3, EndStep DEF Ends
    <2> QED
        BY Zenon, <2>1, <2>2, <2>3
  <1>8. ASSUME NEW c \in Conns, Deliver(c) PROVE IInv'
      BY Zenon, <1>8, DeliverStep
  <1>9. ASSUME NEW c \in Conns, Record(c) PROVE IInv'
      BY Zenon, <1>9, RecordLast, RecordNext
  <1>10. CASE Crash \/ \E c \in Conns : DeliverFails(c)
      BY Zenon, <1>10, StopStep
  <1>11. CASE (\E k \in Keys : Ages(k)) \/ UNCHANGED vars
    <2>1. UNCHANGED <<scen, conns, view, txs, stored, queued, handled, ruled, rep>>
        BY Zenon, <1>11 DEF Ages, vars
    <2> QED
        BY Zenon, <2>1, QuietStep
  <1>12. ASSUME NEW c \in Conns,
                \E score \in Scores, force, token \in BOOLEAN, dest \in {None, "Inbox", "Folder"},
                   fault \in {"none", "reputation", "greylist"} :
                  Decide(c, score, force, dest, token, fault)
         PROVE  IInv'
      BY ZenonT(60), <1>7, <1>12
  <1>13. ASSUME NEW c \in Conns,
                \/ \E from \in scen.from, hold \in {"none", "hold", "bad"} : cmdMail(c, from, hold)
                \/ \E to \in scen.to : cmdRcpt(c, to)
         PROVE  IInv'
      BY Zenon, <1>4, <1>5, <1>13
  <1> QED
      BY Zenon, <1>3, <1>6, <1>8, <1>9, <1>10, <1>11, <1>12, <1>13 DEF Next

-----------------------------------------------------------------------------
(* The theorems. *)

\* The invariant holds in every state of every behaviour of the sessions.
THEOREM Invariant == Spec => []IInv
  <1>1. Init => IInv
      BY Zenon, InitIInv
  <1>2. IInv /\ [Next]_vars => IInv'
      BY Zenon, NextIInv
  <1> QED
      BY <1>1, <1>2, PTL DEF Spec

\* cmdAuth's and cmdStartTLS's reset and cmdMail's check of the sender: in whatever
\* order clients mix STARTTLS, AUTH, MAIL and RCPT, on any number of connections, a
\* submission is queued only for the account that owns its sender and that
\* authenticated, over TLS where the server has it.
THEOREM SubmissionsOwned == Spec => []SenderOwned
  <1>1. IInv => SenderOwned
      BY Zenon DEF IInv
  <1> QED
      BY <1>1, Invariant, PTL

\* reset: whatever is stored, queued or handed on belongs to exactly one transaction
\* and has the sender, the parameters, the recipients and the content its client
\* believed to be in that transaction.
THEOREM TransactionsSeparate == Spec => []NothingInherited
  <1>1. IInv => NothingInherited
      BY Zenon DEF IInv
  <1> QED
      BY <1>1, Invariant, PTL

\* processData and cmdRcpt: a message answered with 250 has reached every recipient the
\* server accepted for it, whatever failed or crashed at other messages and
\* connections.
THEOREM AcceptanceHolds == Spec => []AcceptedReachesAll
  <1>1. IInv => AcceptedReachesAll
      BY Zenon DEF IInv
  <1> QED
      BY <1>1, Invariant, PTL

\* processData's rulesProcessed: a message answered with 250 was shown to the mail
\* rules exactly once for every account with a copy in its Inbox, and to no other's.
THEOREM RulesRunOnce == Spec => []RulesOnce
  <1>1. IInv => RulesOnce
    <2> SUFFICES ASSUME IInv, NEW t \in DOMAIN txs, txs[t].answer = "accepted",
                        NEW a \in Accounts
                 PROVE  Cardinality({r \in ruled : r.tx = t /\ r.acct = a}) =
                          IF \E m \in stored : m.tx = t /\ m.mailbox = "Inbox" /\ Owner[m.to] = a
                          THEN 1 ELSE 0
        BY Zenon DEF RulesOnce
    <2>1. PICK X : X = {r \in ruled : r.tx = t /\ r.acct = a}
        BY Zenon
    <2>2. /\ \A r, s \in ruled : r.tx = s.tx /\ r.acct = s.acct => r = s
          /\ (\E r \in ruled : r.tx = t /\ r.acct = a) <=>
             (\E m \in stored : m.tx = t /\ m.mailbox = "Inbox" /\ Owner[m.to] = a)
      <3>1. Ruled
          BY Zenon DEF IInv
      <3>2. \A r, s \in ruled : r.tx = s.tx /\ r.acct = s.acct => r = s
          BY Zenon, <3>1 DEF Ruled
      <3>3. RulesFor(t)
          BY Zenon, <3>1 DEF Ruled, RulesFor
      <3> QED
          BY Zenon, <3>2, <3>3 DEF RulesFor
    <2>3. CASE \E r \in ruled : r.tx = t /\ r.acct = a
      <3>1. PICK r \in ruled : r.tx = t /\ r.acct = a
          BY Zenon, <2>3
      <3>2. X = {r}
          BY Zenon, <2>1, <2>2, <3>1
      <3>3. Cardinality(X) = 1
          BY Zenon, <3>2, FS_Singleton
      <3> QED
          BY Zenon, <2>1, <2>2, <2>3, <3>3
    <2>4. CASE ~ \E r \in ruled : r.tx = t /\ r.acct = a
      <3>1. X = {}
          BY Zenon, <2>1, <2>4
      <3>2. Cardinality(X) = 0
          BY Zenon, <3>1, FS_EmptySet
      <3> QED
          BY Zenon, <2>1, <2>2, <2>4, <3>2
    <2> QED
        BY Zenon, <2>3, <2>4
  <1> QED
      BY <1>1, Invariant, PTL

\* RecordOutcome and decideCore: the history of a domain is covered by stored mail that
\* SPF vouched for, of any account and sender and through any crash between delivery
\* and record, and it gives mail that SPF does not vouch for no advantage.
THEOREM ReputationEarned == Spec => []ReputationSound
  <1>1. IInv => ReputationSound
    <2> SUFFICES ASSUME IInv PROVE ReputationSound
        BY Zenon
    <2>1. Typed /\ Earned
        BY Zenon DEF IInv
    <2>2. \A k \in Keys : /\ rep[k].ham <= scen.rep.ham + Cardinality(Vouched(k, FALSE))
                           /\ rep[k].junk <= scen.rep.junk + Cardinality(Vouched(k, TRUE))
      <3> SUFFICES ASSUME NEW k \in Keys
                   PROVE  /\ rep[k].ham <= scen.rep.ham + Cardinality(Vouched(k, FALSE))
                          /\ rep[k].junk <= scen.rep.junk + Cardinality(Vouched(k, TRUE))
          BY Zenon
      <3>1. rep[k].ham \in Nat /\ rep[k].junk \in Nat
          BY Zenon, <2>1 DEF Typed
      <3>2. scen.rep.ham \in Nat /\ scen.rep.junk \in Nat
          BY Zenon, <2>1 DEF Typed, ScenarioType
      <3>3. PICK x, y, xx, yy :
              /\ x = Cardinality(Counted(k, FALSE)) /\ xx = Cardinality(Vouched(k, FALSE))
              /\ y = Cardinality(Counted(k, TRUE)) /\ yy = Cardinality(Vouched(k, TRUE))
          BY Zenon
      <3>4. \A b : /\ \A m \in Vouched(k, b) : m \in stored
                   /\ \A m \in Counted(k, b) : m \in Vouched(k, b)
          BY Zenon DEF Vouched, Counted
      <3>5. \A b : IsFiniteSet(Vouched(k, b))
          BY Zenon, <2>1, <3>4, Bigger DEF Earned
      <3>6. x \in Nat /\ xx \in Nat /\ x <= xx /\ y \in Nat /\ yy \in Nat /\ y <= yy
          BY Zenon, <3>3, <3>4, <3>5, Bigger
      <3>7. rep[k].ham <= scen.rep.ham + x /\ rep[k].junk <= scen.rep.junk + y
          BY Zenon, <2>1, <3>3 DEF Earned
      <3>8. rep[k].ham <= scen.rep.ham + xx /\ rep[k].junk <= scen.rep.junk + yy
          BY <3>1, <3>2, <3>6, <3>7
      <3> QED
          BY Zenon, <3>3, <3>8
    <2>3. \A k \in Keys, score \in Scores :
            Verdict(rep[k], FALSE, score) \in {Verdict(NoHistory, FALSE, score), "reject"}
      <3> SUFFICES ASSUME NEW k \in Keys, NEW score \in Scores
                   PROVE  Verdict(rep[k], FALSE, score) \in
                            {Verdict(NoHistory, FALSE, score), "reject"}
          BY Zenon
      <3>1. NoHistory.junk = 0 /\ ~(0 >= 3)
          BY DEF NoHistory
      <3>2. ~KnownBad(NoHistory)
          BY Zenon, <3>1 DEF KnownBad
      <3>3. \A h : ~Trusted(h, FALSE)
          BY Zenon DEF Trusted
      <3>4. Content(rep[k], FALSE, score) = Content(NoHistory, FALSE, score)
          BY ZenonT(60) DEF Content
      <3> QED
          BY Zenon, <3>2, <3>3, <3>4 DEF Verdict
    <2> QED
        BY Zenon, <2>2, <2>3 DEF ReputationSound, Vouched
  <1> QED
      BY <1>1, Invariant, PTL
============================================================================

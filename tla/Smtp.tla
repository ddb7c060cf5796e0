-------------------------------- MODULE Smtp --------------------------------
(***************************************************************************)
(* SMTP sessions of one node (protocol/smtpd) and what becomes of the mail *)
(* they bring (mailflow/inbound).                                          *)
(*                                                                         *)
(* A session collects a transaction command by command, in fields of its   *)
(* connection that reset has to clear, and processData commits it: to the  *)
(* outbound queue in submission mode, to the bounce or the report handler, *)
(* or recipient by recipient to mailboxes, where each recipient's greylist *)
(* and reputation decide.  The client's own idea of its transaction, made  *)
(* from the commands the server accepted, is kept beside it in view.       *)
(*                                                                         *)
(* A command that is refused and changes nothing is a stuttering step.     *)
(* Chunks have size 1.  Spam probabilities are in thousandths.             *)
(***************************************************************************)
EXTENDS Integers, Sequences, FiniteSets, Functions

CONSTANTS
  Conns,        \* connections
  Accounts,
  Owner,        \* [addresses of accounts -> Accounts]
  Bounces,      \* addresses in the VERP bounce domain
  Reports,      \* addresses in the report domain
  Elsewhere,    \* other addresses
  Null,         \* the null return path
  None,
  Chunks,       \* message contents
  TrustedHam,   \* Decider.trustedHam()
  Scores,       \* spam probabilities the classifier gives
  Scenarios,    \* servers, their load and what they know; see ScenarioType
  MaxEvents     \* faults

Local == DOMAIN Owner
Senders == Local \cup Elsewhere \cup {Null}
Recipients == Local \cup Bounces \cup Reports \cup Elsewhere
Kinds == {"rcpts", "sub", "bounce", "report"}

\* A server in submission or in MX mode, with or without a TLSConfig, with its
\* MaxSize, maxRcpt() and subjectpass configuration; the connections it gets, the senders and recipients
\* they name and how many transactions reach processData; and the reputation
\* every sender starts with.
ScenarioType == [mode: {"submission", "mx"}, tls: BOOLEAN, size: Nat \ {0},
                 rcpts: Nat \ {0}, subjectpass: BOOLEAN, conns: SUBSET Conns, from: SUBSET Senders,
                 to: SUBSET Recipients, txs: Nat, rep: [ham: Nat, junk: Nat]]

ASSUME SmtpAssumption ==
  /\ TrustedHam \in Nat \ {0} /\ MaxEvents \in Nat
  /\ Scores \subseteq 0 .. 1000
  /\ \A a \in Local : Owner[a] \in Accounts
  /\ Scenarios \subseteq ScenarioType

VARIABLES
  scen,      \* the scenario of this behaviour
  conns,     \* conn
  view,      \* the transaction a client believes to be in
  txs,       \* what clients handed over, and the answer they got
  stored,    \* messages in mailboxes
  queued,    \* submissions in the outbound queue
  handled,   \* calls of BounceHandler and ReportHandler
  ruled,     \* calls of MailRuleProcessor: transaction and recipient
  rep,       \* inbound_reputation
  grey,      \* greylist
  events

vars == <<scen, conns, view, txs, stored, queued, handled, ruled, rep, grey, events>>
mail == <<txs, stored, queued, handled, ruled, rep, grey>>

Submission == scen.mode = "submission"
Eventful == events < MaxEvents /\ events' = events + 1
Quietly == UNCHANGED events
-----------------------------------------------------------------------------
(* The state of a connection. *)

NoRcpts == [k \in Kinds |-> <<>>]

Fresh == [tls |-> FALSE, auth |-> None, have |-> FALSE, from |-> None,
          params |-> "none", to |-> NoRcpts, bdat |-> <<>>,
          pc |-> "cmd", body |-> <<>>, tx |-> 0, i |-> 0, mailbox |-> "none", ruled |-> {}]

NoView == [from |-> None, params |-> "none", to |-> <<>>, chunks |-> <<>>]

\* Mutation: the chunks of an abandoned transaction stay.
reset_Chunks(c) ==
  [c EXCEPT !.have = FALSE, !.from = None, !.params = "none", !.to = NoRcpts]

\* What reset clears: the sender, its parameters, every kind of recipient and the
\* chunks.
reset(c) ==
  [c EXCEPT !.have = FALSE, !.from = None, !.params = "none", !.to = NoRcpts,
            !.bdat = <<>>]

\* The handler is done with the message and back in serve's loop.
Done(c) == [reset(c) EXCEPT !.pc = "cmd", !.body = <<>>, !.tx = 0, !.i = 0, !.mailbox = "none",
                            !.ruled = {}]

\* The session waits for a command; clients stop when the bound is reached.
Ready(c) == c \in scen.conns /\ conns[c].pc = "cmd" /\ Len(txs) < scen.txs

RcptCount(c) == Len(conns[c].to["rcpts"]) + Len(conns[c].to["sub"])
                + Len(conns[c].to["bounce"]) + Len(conns[c].to["report"])

Become(c, state, v) ==
  /\ conns' = [conns EXCEPT ![c] = state]
  /\ view' = [view EXCEPT ![c] = v]
-----------------------------------------------------------------------------
(* Commands. *)

RSET(c) ==
  /\ Ready(c)
  /\ Become(c, reset(conns[c]), NoView)
  /\ UNCHANGED <<scen, mail, events>>

\* QUIT, or the connection breaks; the next client connects.
QUIT(c) ==
  /\ Ready(c)
  /\ Become(c, Fresh, NoView)
  /\ UNCHANGED <<scen, mail, events>>

\* TLS starts afresh: "discard any state learned before TLS".
cmdStartTLS(c) ==
  /\ Ready(c)
  /\ scen.tls /\ ~conns[c].tls
  /\ Become(c, [reset(conns[c]) EXCEPT !.tls = TRUE, !.auth = None], NoView)
  /\ UNCHANGED <<scen, mail, events>>

authAllowed(c) == conns[c].tls \/ ~scen.tls

\* Mutation: the transaction survives the authentication.
cmdAuth_Keep(c, a) ==
  /\ Ready(c)
  /\ Submission /\ authAllowed(c)
  /\ Become(c, [conns[c] EXCEPT !.auth = a], view[c])
  /\ UNCHANGED <<scen, mail, events>>

\* A successful AUTH PLAIN or SCRAM; a second one replaces the account.
cmdAuth(c, a) ==
  /\ Ready(c)
  /\ Submission /\ authAllowed(c)
  /\ Become(c, [reset(conns[c]) EXCEPT !.auth = a], NoView)
  /\ UNCHANGED <<scen, mail, events>>

senderOwned(c, from) ==
  /\ conns[c].auth # None
  /\ from \in Local /\ Owner[from] = conns[c].auth

\* MAIL after its syntax and SIZE checks, which refuse it without a reset.  An
\* unauthenticated or foreign sender, or a bad HOLDFOR, is refused after the
\* reset.  HOLDFOR counts in submission mode only.
cmdMail(c, from, hold) ==
  /\ Ready(c)
  /\ LET accepted == Submission => senderOwned(c, from) /\ hold # "bad"
         params == IF Submission THEN hold ELSE "none" IN
     IF accepted
     THEN Become(c, [reset(conns[c]) EXCEPT !.have = TRUE, !.from = from,
                                            !.params = params],
                 [NoView EXCEPT !.from = from, !.params = params])
     ELSE Become(c, reset(conns[c]), view[c])
  /\ UNCHANGED <<scen, mail, events>>

\* Mutation: a mailbox may join the recipients of a bounce.
RcptKind_Mixed(c, to) ==
  CASE Submission -> "sub"
    [] ~Submission /\ to \in Bounces -> "bounce"
    [] ~Submission /\ to \in Reports \ Bounces -> "report"
    [] OTHER -> "rcpts"

\* The list cmdRcpt adds a recipient to, or None when it refuses: bounce, report
\* and mailbox recipients exclude each other, and an MX knows its mailboxes.
RcptKind(c, to) ==
  LET t == conns[c].to IN
  CASE Submission -> IF conns[c].auth # None THEN "sub" ELSE None
    [] ~Submission /\ to \in Bounces ->
         IF t["rcpts"] = <<>> /\ t["report"] = <<>> THEN "bounce" ELSE None
    [] ~Submission /\ to \in Reports \ Bounces ->
         IF t["rcpts"] = <<>> /\ t["bounce"] = <<>> THEN "report" ELSE None
    [] OTHER ->
         IF t["bounce"] = <<>> /\ t["report"] = <<>> /\ to \in Local THEN "rcpts" ELSE None

cmdRcpt(c, to) ==
  /\ Ready(c)
  /\ conns[c].have
  /\ RcptCount(c) < scen.rcpts
  /\ RcptKind(c, to) # None
  /\ Become(c, [conns[c] EXCEPT !.to[RcptKind(c, to)] = Append(@, to)],
            [view[c] EXCEPT !.to = Append(@, to)])
  /\ UNCHANGED <<scen, mail, events>>

\* A message that is too large ends the transaction.
TooLarge(c) ==
  /\ Become(c, reset(conns[c]), NoView)
  /\ UNCHANGED <<scen, mail, events>>
-----------------------------------------------------------------------------
(* processData. *)

\* The transaction the client hands over, as it sees it.
Tx(c, sent, spf, answer) ==
  [from |-> view[c].from, params |-> view[c].params, to |-> view[c].to,
   body |-> sent, spf |-> spf, answer |-> answer]

Finish(c, sent, answer) ==
  /\ txs' = Append(txs, Tx(c, sent, FALSE, answer))
  /\ Become(c, reset(conns[c]), NoView)

\* Mail for the bounce or the report domain: one call for each distinct recipient.
Handle(c, body, sent) ==
  LET k == IF conns[c].to["bounce"] # <<>> THEN "bounce" ELSE "report" IN
  /\ conns[c].to[k] # <<>>
  /\ handled' = handled \cup
       {[tx |-> Len(txs) + 1, to |-> a, body |-> body] : a \in Range(conns[c].to[k])}
  /\ Finish(c, sent, "accepted")
  /\ UNCHANGED <<stored, queued>>
  /\ Quietly

\* SubmitDSN: the sender, the parameters and the recipients go to the queue.  An
\* error is answered 451, whether or not the rows were committed.
Enqueue(c, body, sent) ==
  /\ Submission
  /\ LET row == [tx |-> Len(txs) + 1, acct |-> conns[c].auth, tls |-> conns[c].tls,
                 from |-> conns[c].from, params |-> conns[c].params,
                 to |-> conns[c].to["sub"], body |-> body] IN
     \/ queued' = queued \cup {row} /\ Finish(c, sent, "accepted") /\ Quietly
     \/ queued' \in {queued, queued \cup {row}} /\ Finish(c, sent, "deferred") /\ Eventful
  /\ UNCHANGED <<stored, handled>>

\* Too many hops, a listed client or DMARC end it; otherwise the loop over the
\* recipients begins, knowing whether SPF vouches for the sender's domain.
Receive(c, body, sent) ==
  /\ ~Submission
  /\ \/ Finish(c, sent, "rejected")
     \/ \E spf \in BOOLEAN :
          /\ spf => conns[c].from # Null
          /\ txs' = Append(txs, Tx(c, sent, spf, "none"))
          /\ Become(c, [conns[c] EXCEPT !.pc = "decide", !.i = 1, !.tx = Len(txs) + 1,
                                       !.body = body],
                    NoView)
  /\ UNCHANGED <<stored, queued, handled>>
  /\ Quietly

processData(c, body, sent) ==
  /\ IF conns[c].to["bounce"] # <<>> \/ conns[c].to["report"] # <<>>
     THEN Handle(c, body, sent)
     ELSE Enqueue(c, body, sent) \/ Receive(c, body, sent)
  /\ UNCHANGED <<scen, ruled, rep, grey>>

\* DATA; cmdBURL differs in where the body comes from and, when the URL cannot be
\* resolved, changes nothing.  Neither looks at chunks received before.
cmdData(c, body, fits) ==
  /\ Ready(c)
  /\ conns[c].have
  /\ IF Submission THEN conns[c].to["sub"] # <<>>
     ELSE \E k \in Kinds \ {"sub"} : conns[c].to[k] # <<>>
  /\ IF fits THEN processData(c, <<body>>, <<body>>) ELSE TooLarge(c)

\* BDAT: the chunks are collected until the last.
cmdBDAT(c, chunk, last) ==
  /\ Ready(c)
  /\ conns[c].have
  /\ RcptCount(c) > 0
  /\ LET buf == Append(conns[c].bdat, chunk)
         sent == Append(view[c].chunks, chunk) IN
     CASE Len(buf) > scen.size -> TooLarge(c)
       [] Len(buf) <= scen.size /\ last -> processData(c, buf, sent)
       [] OTHER -> /\ Become(c, [conns[c] EXCEPT !.bdat = buf],
                             [view[c] EXCEPT !.chunks = sent])
                   /\ UNCHANGED <<scen, mail, events>>
-----------------------------------------------------------------------------
(* inbound.Decider. *)

\* adaptiveJunkThreshold, in thousandths, with the default thresholds 0.95 and
\* 0.999.
adaptiveJunkThreshold(h) ==
  LET total == h.ham + h.junk
      thr == 950 + (200 * h.ham) \div total - 100 IN
  IF total < 5 THEN 950 ELSE IF thr < 500 THEN 500 ELSE IF thr > 998 THEN 998 ELSE thr

NoHistory == [ham |-> 0, junk |-> 0]

KnownBad(h) == h.junk >= 3 /\ h.ham = 0

\* Mutation: the history of a domain counts for whoever claims it.
Trusted_Claimed(h, authed) == h.ham >= TrustedHam /\ h.junk = 0

Trusted(h, authed) == authed /\ h.ham >= TrustedHam /\ h.junk = 0

\* The content check: what the score says, given the history of an authenticated
\* sender.
Content(h, authed, score) ==
  IF score >= 999 THEN "reject"
  ELSE IF score >= adaptiveJunkThreshold(IF authed THEN h ELSE NoHistory) THEN "junk"
  ELSE "accept"

\* decideCore when greylisting lets the message pass.
Verdict(h, authed, score) ==
  IF Trusted(h, authed) THEN "accept"
  ELSE IF KnownBad(h) THEN "reject" ELSE Content(h, authed, score)

\* greylist: a first contact is recorded and deferred, and so is a retry within
\* the delay; "old" is a row the delay has passed for.
greylisted(k) == grey[k] \in {"none", "new"}
AfterGreylist == [none |-> "new", new |-> "new", old |-> "allowed", allowed |-> "allowed"]

\* Decide for the recipient the loop is at.  A ruleset, or the lack of one, says
\* whether the message is accepted without a check (force: forceAccept, isForward)
\* and which mailbox an accepted message goes to in place of the verdict's.  With
\* subjectpass a rejection is a challenge, or an acceptance when the subject holds
\* the token.  Reputation that cannot be read is empty; a greylist that cannot be
\* read lets the message pass.
Decide(c, score, force, dest, token, fault) ==
  LET k == <<Owner[conns[c].to["rcpts"][conns[c].i]], conns[c].from>>
      h == IF fault = "reputation" THEN NoHistory ELSE rep[k]
      authed == txs[conns[c].tx].spf
      v == Verdict(h, authed, score)
      asked == ~Trusted(h, authed) /\ ~KnownBad(h) /\ fault # "greylist"
      folder == CASE dest # None -> dest
                  [] dest = None /\ ~force /\ v = "junk" -> "Junk"
                  [] OTHER -> "Inbox"
      End(answer) == /\ txs' = [txs EXCEPT ![conns[c].tx].answer = answer]
                     /\ conns' = [conns EXCEPT ![c] = Done(conns[c])]
      Accept == /\ conns' = [conns EXCEPT ![c].pc = "deliver", ![c].mailbox = folder]
                /\ UNCHANGED txs
  IN
  /\ conns[c].pc = "decide"
  /\ IF fault = "none" THEN Quietly ELSE Eventful
  /\ IF force
     THEN Accept /\ UNCHANGED grey
     ELSE /\ grey' = IF asked THEN [grey EXCEPT ![k] = AfterGreylist[@]] ELSE grey
          /\ CASE asked /\ greylisted(k) -> End("deferred")
               [] ~(asked /\ greylisted(k)) /\ v = "reject" ->
                    IF ~scen.subjectpass THEN End("rejected")
                    ELSE IF token THEN Accept ELSE End("deferred")
               [] OTHER -> Accept
  /\ UNCHANGED <<scen, view, stored, queued, handled, ruled, rep>>

\* The delay of a greylisted triplet passes.
Ages(k) ==
  /\ grey[k] = "new"
  /\ grey' = [grey EXCEPT ![k] = "old"]
  /\ UNCHANGED <<scen, conns, view, txs, stored, queued, handled, ruled, rep, events>>

\* target.Deliver or DeliverTo commits a copy.
Deliver(c) ==
  /\ conns[c].pc = "deliver"
  /\ stored' = stored \cup
       {[tx |-> conns[c].tx, i |-> conns[c].i, to |-> conns[c].to["rcpts"][conns[c].i],
         from |-> conns[c].from, body |-> conns[c].body, mailbox |-> conns[c].mailbox]}
  /\ conns' = [conns EXCEPT ![c].pc = "record"]
  /\ UNCHANGED <<scen, view, txs, queued, handled, ruled, rep, grey, events>>

\* The process ends; every session ends with it, whatever it was doing.
Stops ==
  /\ conns' = [c \in Conns |-> Fresh]
  /\ view' = [c \in Conns |-> NoView]
  /\ UNCHANGED <<scen, stored, queued, handled, ruled, rep, grey>>

\* Delivery fails (over quota, or an error): the handler resets the connection and
\* then reads the address of the recipient from the list it has just cleared,
\* which panics, and nothing recovers.
DeliverFails(c) ==
  /\ conns[c].pc = "deliver"
  /\ Eventful
  /\ UNCHANGED txs
  /\ Stops

\* The node is stopped or dies.
Crash ==
  /\ \E c \in scen.conns : conns[c].pc # "cmd"
  /\ Eventful
  /\ UNCHANGED txs
  /\ Stops

\* RecordOutcome: authenticated mail counts, as ham unless it went to Junk.
RecordOutcome(k, authed, ham) ==
  IF authed
  THEN rep' = IF ham THEN [rep EXCEPT ![k].ham = @ + 1] ELSE [rep EXCEPT ![k].junk = @ + 1]
  ELSE UNCHANGED rep

\* Mutation: the rules run for every copy.
RunsRules_Every(c, a) == conns[c].mailbox = "Inbox"

\* The rules run once for every account with a copy in its Inbox.
RunsRules(c, a) == conns[c].mailbox = "Inbox" /\ a \notin conns[c].ruled

\* The rest of an iteration: reputation, whose error is ignored, and the mail rules
\* (VacationResponder's effects, and theirs, are AutoMail's subject); after the
\* last recipient the client gets its 250.
Record(c) ==
  LET i == conns[c].i
      t == conns[c].tx
      a == Owner[conns[c].to["rcpts"][i]]
      rules == RunsRules(c, a) IN
  /\ conns[c].pc = "record"
  /\ \/ RecordOutcome(<<a, conns[c].from>>, txs[t].spf, conns[c].mailbox # "Junk") /\ Quietly
     \/ txs[t].spf /\ UNCHANGED rep /\ Eventful
  /\ ruled' = IF rules THEN ruled \cup {[tx |-> t, i |-> i, acct |-> a]} ELSE ruled
  /\ IF i = Len(conns[c].to["rcpts"])
     THEN /\ conns' = [conns EXCEPT ![c] = Done(conns[c])]
          /\ txs' = [txs EXCEPT ![t].answer = "accepted"]
     ELSE /\ conns' = [conns EXCEPT ![c].pc = "decide", ![c].i = i + 1,
                                    ![c].ruled = IF rules THEN @ \cup {a} ELSE @]
          /\ UNCHANGED txs
  /\ UNCHANGED <<scen, view, stored, queued, handled, grey>>
-----------------------------------------------------------------------------
Keys == Accounts \X Senders

Init ==
  /\ scen \in Scenarios
  /\ conns = [c \in Conns |-> Fresh]
  /\ view = [c \in Conns |-> NoView]
  /\ txs = <<>>
  /\ stored = {} /\ queued = {} /\ handled = {} /\ ruled = {}
  /\ rep = [k \in Keys |-> scen.rep]
  /\ grey = [k \in Keys |-> "none"]
  /\ events = 0

Next ==
  \/ \E c \in Conns :
       \/ RSET(c) \/ QUIT(c) \/ cmdStartTLS(c)
       \/ \E a \in Accounts : cmdAuth(c, a)
       \/ \E from \in scen.from, hold \in {"none", "hold", "bad"} : cmdMail(c, from, hold)
       \/ \E to \in scen.to : cmdRcpt(c, to)
       \/ \E body \in Chunks, fits \in BOOLEAN : cmdData(c, body, fits)
       \/ \E chunk \in Chunks, last \in BOOLEAN : cmdBDAT(c, chunk, last)
       \/ \E score \in Scores, force, token \in BOOLEAN, dest \in {None, "Inbox", "Folder"},
             fault \in {"none", "reputation", "greylist"} :
            Decide(c, score, force, dest, token, fault)
       \/ Deliver(c)
       \/ DeliverFails(c)
       \/ Record(c)
  \/ \E k \in Keys : Ages(k)
  \/ Crash

Spec == Init /\ [][Next]_vars
-----------------------------------------------------------------------------
(* Properties. *)

\* The fields of a connection hold what the commands can put there, and only a
\* message on its way to mailboxes keeps a connection busy.
TypeOK ==
  /\ \A c \in Conns :
       /\ conns[c].pc \in {"cmd", "decide", "deliver", "record"}
       /\ conns[c].auth \in Accounts \cup {None}
       /\ conns[c].from \in Senders \cup {None}
       /\ conns[c].params \in {"none", "hold"}
       /\ \A k \in Kinds : Range(conns[c].to[k]) \subseteq Recipients
       /\ RcptCount(c) <= scen.rcpts
       /\ Len(conns[c].bdat) <= scen.size
       /\ conns[c].pc # "cmd" => /\ conns[c].i \in DOMAIN conns[c].to["rcpts"]
                                 /\ conns[c].tx \in DOMAIN txs
                                 /\ conns[c].have
  /\ \A t \in DOMAIN txs : txs[t].answer \in {"none", "accepted", "deferred", "rejected"}
  /\ \A k \in Keys : rep[k] \in [ham: Nat, junk: Nat] /\ grey[k] \in DOMAIN AfterGreylist

\* reset ("a pipelined follow-up must not inherit this MAIL/RCPT"): whatever is
\* stored, queued or handed on has the sender, the parameters, a recipient and the
\* content of the one transaction its client believed to be in, after any mixture
\* of aborted, refused, oversized and authenticated transactions before it.
NothingInherited ==
  /\ \A m \in stored : /\ m.from = txs[m.tx].from /\ m.body = txs[m.tx].body
                        /\ m.to = txs[m.tx].to[m.i]
  /\ \A q \in queued : /\ q.from = txs[q.tx].from /\ q.body = txs[q.tx].body
                        /\ q.to = txs[q.tx].to /\ q.params = txs[q.tx].params
  /\ \A h \in handled : h.body = txs[h.tx].body /\ h.to \in Range(txs[h.tx].to)

\* processData, cmdRcpt ("otherwise the bounce short-circuit would silently drop
\* the co-addressed mailbox recipients"): a message answered with 250 has reached
\* every recipient the server accepted for it.
AcceptedReachesAll ==
  \A t \in DOMAIN txs : txs[t].answer = "accepted" =>
    \A i \in DOMAIN txs[t].to :
      \/ \E m \in stored : m.tx = t /\ m.i = i
      \/ \E q \in queued : q.tx = t
      \/ \E h \in handled : h.tx = t /\ h.to = txs[t].to[i]

\* cmdMail ("may then only use a MAIL FROM address that belongs to its own
\* account"), cmdAuth ("a spoofed MAIL FROM can't survive AUTH"): a submission is
\* queued for the account that owns its sender and that authenticated, over TLS
\* where the server has it, in whatever order a client mixes STARTTLS, AUTH, MAIL and RCPT.
SenderOwned == \A q \in queued : Owner[q.from] = q.acct /\ (scen.tls => q.tls)

\* processData's rulesProcessed: a message answered with 250 was shown to the mail
\* rules once for every account with a copy in its Inbox, under however many of
\* its addresses, and to no other account's.
RulesOnce ==
  \A t \in DOMAIN txs : txs[t].answer = "accepted" =>
    \A a \in Accounts :
      Cardinality({r \in ruled : r.tx = t /\ r.acct = a}) =
        IF \E m \in stored : m.tx = t /\ m.mailbox = "Inbox" /\ Owner[m.to] = a
        THEN 1 ELSE 0

\* The history of a domain is built from vouched mail only, and used for it only.
\* Every count beyond the old ones stands for a stored message of that domain that
\* SPF vouched for, in the right kind of mailbox (RecordOutcome: "reputation must be
\* built from authenticated mail only"). Mail that SPF does not vouch for is treated
\* as if the account had never heard of the domain, or rejected (Decide:
\* "unauthenticated mail ... only the neutral base threshold").
ReputationSound ==
  /\ \A k \in Keys :
       LET earned(junk) == {m \in stored : /\ txs[m.tx].spf
                                           /\ Owner[m.to] = k[1] /\ m.from = k[2]
                                           /\ junk = (m.mailbox = "Junk")} IN
       /\ rep[k].ham <= scen.rep.ham + Cardinality(earned(FALSE))
       /\ rep[k].junk <= scen.rep.junk + Cardinality(earned(TRUE))
  /\ \A k \in Keys, score \in Scores :
       Verdict(rep[k], FALSE, score) \in {Verdict(NoHistory, FALSE, score), "reject"}
=============================================================================

------------------------------ MODULE AutoMail ------------------------------
(***************************************************************************)
(* Mail the server writes by itself, and why it dies out.                  *)
(*                                                                         *)
(* Three components of mailflow answer a delivered message with another    *)
(* message: a mail rule forwards it (mailrules.Processor), a vacation      *)
(* responder answers its sender (autoreply.Responder), and an Agent        *)
(* answers it through the web API as an automatic reply (webapi reply,     *)
(* autoreplychain.Chain).  Each submits to the same outbound queue, whose  *)
(* messages come back through SMTP when the recipient is local, so every   *)
(* pair of them could feed each other for ever.  What stops them travels   *)
(* in the message: Auto-Submitted, the signed trace of the rules that      *)
(* forwarded it (rulemetadata) and the signed count of automatic replies.  *)
(*                                                                         *)
(* A message is what those headers and its envelope say; rule conditions   *)
(* are a predicate; a signature verifies for the recipients it names until *)
(* it expires.  A delivery may be repeated (SMTP redelivers a message      *)
(* whose 250 was lost), under a new Email id every time.                   *)
(***************************************************************************)
EXTENDS Integers, Sequences, FiniteSets

CONSTANTS
  Accounts,        \* local mailboxes
  Outside,         \* an address that is not local
  NoSender,        \* the null return path, MAIL FROM:<>
  Rules,           \* mail_rules, numbered in the order loadContext returns them
  Owner,           \* [Rules -> Accounts]
  Targets,         \* [Rules -> SUBSET Addresses], forward_targets
  MatchFrom,       \* [Rules -> SUBSET Addresses], whose messages a rule matches
  Vacation,        \* accounts whose vacation response is enabled
  Agents,          \* accounts an Agent answers for
  MaxCount,        \* the chain's maximum, OCTO_MAIL_AUTO_REPLY_MAX_COUNT
  MaxOriginals,    \* messages people write
  MaxConns,        \* SMTP deliveries being handled at once
  Bounds           \* {[msgs, emails, events]}: how far one behaviour goes

ASSUME RulesAssumption == Rules \subseteq Nat /\ IsFiniteSet(Rules)
ASSUME MaxCountAssumption == MaxCount \in Nat \ {0}
ASSUME OwnerAssumption == Owner \in [Rules -> Accounts]

Addresses == Accounts \cup {Outside}

ASSUME TargetsAssumption == Targets \in [Rules -> SUBSET Addresses]
ASSUME MatchAssumption == MatchFrom \in [Rules -> SUBSET Addresses]
ASSUME OutsideAssumption == Outside \notin Accounts /\ NoSender \notin Addresses

VARIABLES
  msgs,       \* every message ever submitted, by Message-ID
  expired,    \* the Message-IDs whose signature is older than 24 hours
  wire,       \* [mid, to]: queue rows not yet delivered; one for an outside
              \* recipient, or that is refused, stays
  emails,     \* [acct, mid]: stored messages, by Email id
  jobs,       \* what processData has still to do for each Email
  enabled,    \* the rules that are enabled
  execs,      \* mail_rule_executions
  vacSent,    \* vacation_sent: when an account last answered a sender
  intents,    \* agent_send_intents of automatic replies
  replies,    \* automatic replies between their claim and their submission
  events,     \* repetitions, expiries, edits and faults so far
  bound       \* the member of Bounds this behaviour keeps to

vars == <<msgs, expired, wire, emails, jobs, enabled, execs, vacSent, intents,
          replies, events, bound>>
-----------------------------------------------------------------------------
(* Messages. *)

Why == {<<"person">>}
       \cup ({"forward"} \X Rules \X {"email", "mid"} \X Nat)
       \cup ({"vacation"} \X Accounts \X Addresses \X Nat)
       \cup ({"reply"} \X Accounts \X {"email", "mid"} \X Nat)

Msg == [from: Addresses,                 \* the From header
        sender: Addresses \cup {NoSender}, \* MAIL FROM
        auto: BOOLEAN,                   \* Auto-Submitted other than "no"
        trace: SUBSET Rules,             \* X-Octo-Rule-Trace; {} is unsigned
        rcpts: SUBSET Addresses,         \* X-Octo-Rule-Recipients
        count: 0 .. MaxCount,            \* X-Octo-Auto-Reply-Count; 0 is none
        rcpt: Addresses \cup {NoSender}, \* X-Octo-Auto-Reply-Recipient
        gen: Nat,                        \* automatic steps since a person wrote
        parent: Nat,                     \* the message this one answers; 0 is none
        why: Why]                        \* what it was written for, once

Row(mid, to) == [mid |-> mid, to |-> to]

\* Submitter.Submit: the message gets the next Message-ID and one queue row for
\* each recipient.
Submit(m, tos) ==
  /\ Len(msgs) < bound.msgs
  /\ msgs' = Append(msgs, m)
  /\ wire' = wire \cup {Row(Len(msgs) + 1, t) : t \in tos}

NotSubmitted == UNCHANGED <<msgs, wire>>

Eventful == events < bound.events /\ events' = events + 1
Quietly == UNCHANGED events

Acct(e) == emails[e].acct
Raw(e) == msgs[emails[e].mid]
-----------------------------------------------------------------------------
(* SMTP delivery. *)

Idle == [pc |-> "done", todo |-> {}, trusted |-> FALSE, result |-> "none",
         window |-> 0]

Busy == {e \in DOMAIN jobs : jobs[e].pc # "done"}

\* processData: the message is stored under a new Email id; the vacation
\* responder and the rules follow only when it went to the Inbox.
Deliver(w, inbox) ==
  /\ w \in wire
  /\ w.to \in Accounts
  /\ Len(emails) < bound.emails
  /\ Cardinality(Busy) < MaxConns
  /\ emails' = Append(emails, [acct |-> w.to, mid |-> w.mid])
  /\ jobs' = Append(jobs, [Idle EXCEPT !.pc = IF inbox THEN "vacation" ELSE "done"])
  /\ \/ wire' = wire \ {w} /\ Quietly
     \/ UNCHANGED wire /\ Eventful       \* its 250 is lost: it will come again
  /\ UNCHANGED <<msgs, expired, enabled, execs, vacSent, intents, replies>>

\* The node dies, or an error ends the handler early, before the next step for e.
Crash(e) ==
  /\ e \in Busy
  /\ Eventful
  /\ jobs' = [jobs EXCEPT ![e] = Idle]
  /\ UNCHANGED <<msgs, expired, wire, emails, enabled, execs, vacSent, intents,
                 replies>>
-----------------------------------------------------------------------------
(* autoreply.Responder. *)

\* Mutation: the RFC 3834 headers are not looked at.
MayRespond_Headers(e) ==
  /\ Acct(e) \in Vacation
  /\ Raw(e).sender # NoSender

\* The checks of Respond before the deduplication: not automatic, enabled, and a
\* sender to answer (smtpd asks for one too).
MayRespond(e) ==
  /\ ~Raw(e).auto
  /\ Acct(e) \in Vacation
  /\ Raw(e).sender # NoSender

\* vacation_sent has one row per account and sender; "open" is sent_at within
\* the last 24 hours, "n" counts the windows.
Window(a, s) == IF <<a, s>> \in DOMAIN vacSent
                THEN vacSent[<<a, s>>] ELSE [n |-> 0, open |-> FALSE]

SetWindow(a, s, v) ==
  vacSent' = [k \in DOMAIN vacSent \cup {<<a, s>>} |->
                IF k = <<a, s>> THEN v ELSE vacSent[k]]

\* INSERT ... ON CONFLICT DO UPDATE ... WHERE sent_at is old: one statement that
\* affects a row for the first delivery of the window only.
VacationShouldReply(a, s) ==
  /\ ~Window(a, s).open
  /\ SetWindow(a, s, [n |-> Window(a, s).n + 1, open |-> TRUE])

Respond(e) ==
  /\ e \in Busy
  /\ jobs[e].pc = "vacation"
  /\ LET a == Acct(e)
         s == Raw(e).sender IN
     \/ /\ MayRespond(e)
        /\ VacationShouldReply(a, s)
        /\ jobs' = [jobs EXCEPT ![e].pc = "answer", ![e].window = Window(a, s).n + 1]
     \/ /\ ~MayRespond(e) \/ Window(a, s).open
        /\ jobs' = [jobs EXCEPT ![e].pc = "rules"]
        /\ UNCHANGED vacSent
  /\ UNCHANGED <<msgs, expired, wire, emails, enabled, execs, intents, replies, events>>

buildReply(e) ==
  LET a == Acct(e)
      s == Raw(e).sender IN
  [from |-> a, sender |-> NoSender, auto |-> TRUE, trace |-> {}, rcpts |-> {},
   count |-> 0, rcpt |-> NoSender, gen |-> Raw(e).gen + 1, parent |-> emails[e].mid,
   why |-> <<"vacation", a, s, jobs[e].window>>]

\* Respond's Submit; an error is only logged.
SubmitVacation(e) ==
  /\ e \in Busy
  /\ jobs[e].pc = "answer"
  /\ \/ Submit(buildReply(e), {Raw(e).sender}) /\ Quietly
     \/ NotSubmitted /\ Eventful
  /\ jobs' = [jobs EXCEPT ![e].pc = "rules", ![e].window = 0]
  /\ UNCHANGED <<expired, emails, enabled, execs, vacSent, intents, replies>>

\* 24 hours pass since account a answered s.
WindowPasses(a, s) ==
  /\ Window(a, s).open
  /\ Eventful
  /\ SetWindow(a, s, [Window(a, s) EXCEPT !.open = FALSE])
  /\ UNCHANGED <<msgs, expired, wire, emails, jobs, enabled, execs, intents, replies>>
-----------------------------------------------------------------------------
(* rulemetadata and mailrules.Processor. *)

\* Authenticator.VerifyAny: signed, not expired, and signed for this account.
VerifyAny(a, mid) ==
  /\ msgs[mid].trace # {}
  /\ mid \notin expired
  /\ a \in msgs[mid].rcpts

\* A rule's conditions, as the messages they hold for.
matches(r, e) == Raw(e).from \in MatchFrom[r]

AfterRule(j) ==
  IF j.todo = {} THEN Idle ELSE [j EXCEPT !.pc = "reserve", !.result = "none"]

\* loadContext and parseMessageWithLimit: the enabled rules that match, in order,
\* and whether the message is a trusted forward.
Process(e) ==
  /\ e \in Busy
  /\ jobs[e].pc = "rules"
  /\ jobs' = [jobs EXCEPT ![e] = AfterRule(
       [Idle EXCEPT !.pc = "reserve",
        !.todo = {r \in enabled : Owner[r] = Acct(e) /\ matches(r, e)},
        !.trusted = VerifyAny(Acct(e), emails[e].mid)])]
  /\ UNCHANGED <<msgs, expired, wire, emails, enabled, execs, vacSent, intents,
                 replies, events>>

Least(S) == CHOOSE r \in S : \A q \in S : r <= q

\* The rule the loop of Process is at.
Current(e) == Least(jobs[e].todo)

Trace(e) == IF jobs[e].trusted THEN Raw(e).trace ELSE {}

\* Mutation: a rule may see a message it forwarded before.
blocked_Trace(r, e) == Raw(e).auto /\ ~jobs[e].trusted

\* blockedCode: an automatic message that is no trusted forward, or a rule that
\* is in the trace already.
blocked(r, e) == (Raw(e).auto /\ ~jobs[e].trusted) \/ r \in Trace(e)

\* Mutation: the unique index on the trusted Message-ID is missing.
Replayed_NoIndex(r, e) == FALSE

\* The unique index on (account, rule, source_message_id).
Replayed(r, e) ==
  \E x \in execs : x.rule = r /\ x.mid = emails[e].mid /\ x.email # e

Execution(r, e, status) ==
  [rule |-> r, email |-> e, status |-> status,
   mid |-> IF jobs[e].trusted THEN emails[e].mid ELSE 0]

\* ON CONFLICT DO UPDATE ... WHERE status='failed' AND error_code='submit_failed'.
Reclaims(x) == x.status = "failed"

Executions(r, e) == {x \in execs : x.rule = r /\ x.email = e}

\* The INSERT gets a row: the first one for this rule and Email, unless a copy of
\* the trusted forward has one, or a failed one again.
Reserved(r, e) ==
  /\ r \in enabled
  /\ IF Executions(r, e) = {}
     THEN jobs[e].trusted => ~Replayed(r, e)
     ELSE ~blocked(r, e) /\ \E x \in Executions(r, e) : Reclaims(x)

\* The loop of Process goes on to the next rule.
Continue(e) == AfterRule([jobs[e] EXCEPT !.todo = jobs[e].todo \ {Current(e)}])

\* The row of r and e, if there is one, gets a status and nothing else.
SetStatus(r, e, status) ==
  execs' = (execs \ Executions(r, e))
             \cup {[x EXCEPT !.status = status] : x \in Executions(r, e)}

\* reserveExecution: the row this rule and Email get, if they get one.  After an
\* error the loop goes on to the next rule.
reserveExecution(e) ==
  /\ e \in Busy
  /\ jobs[e].pc = "reserve"
  /\ LET r == Current(e)
         status == IF blocked(r, e) THEN "loop_blocked" ELSE "matched" IN
     \/ /\ Reserved(r, e)
        /\ IF Executions(r, e) = {}
           THEN execs' = execs \cup {Execution(r, e, status)}
           ELSE SetStatus(r, e, status)
        /\ jobs' = IF blocked(r, e) THEN [jobs EXCEPT ![e] = Continue(e)]
                                    ELSE [jobs EXCEPT ![e].pc = "submit"]
        /\ Quietly
     \/ /\ ~Reserved(r, e)
        /\ jobs' = [jobs EXCEPT ![e] = Continue(e)]
        /\ UNCHANGED execs
        /\ Quietly
     \/ /\ Reserved(r, e)
        /\ jobs' = [jobs EXCEPT ![e] = Continue(e)]
        /\ UNCHANGED execs
        /\ Eventful
  /\ UNCHANGED <<msgs, expired, wire, emails, enabled, vacSent, intents, replies>>

\* The forward: from the rule's mailbox, automatic, the trace extended and signed
\* for the targets.
composeForward(r, e) ==
  [from |-> Acct(e), sender |-> Acct(e), auto |-> TRUE,
   trace |-> Trace(e) \cup {r}, rcpts |-> Targets[r],
   count |-> 0, rcpt |-> NoSender, gen |-> Raw(e).gen + 1, parent |-> emails[e].mid,
   why |-> IF jobs[e].trusted THEN <<"forward", r, "mid", emails[e].mid>>
                              ELSE <<"forward", r, "email", e>>]

\* Process between the reservation and its result: the forward is composed and
\* submitted.  A Submit whose COMMIT had no answer may have queued it.
SubmitForward(e) ==
  /\ e \in Busy
  /\ jobs[e].pc = "submit"
  /\ \E result \in {"queued", "failed", "unknown", "compose_failed"} :
       /\ jobs' = [jobs EXCEPT ![e].pc = "finish", ![e].result = result]
       /\ \/ /\ result \in {"queued", "unknown"}
             /\ Submit(composeForward(Current(e), e), Targets[Current(e)])
          \/ result # "queued" /\ NotSubmitted
       /\ IF result = "queued" THEN Quietly ELSE Eventful
  /\ UNCHANGED <<expired, emails, enabled, execs, vacSent, intents, replies>>

\* finishExecution; when it fails the row stays "matched".
finishExecution(e) ==
  /\ e \in Busy
  /\ jobs[e].pc = "finish"
  /\ \/ SetStatus(Current(e), e, jobs[e].result) /\ Quietly
     \/ UNCHANGED execs /\ Eventful
  /\ jobs' = [jobs EXCEPT ![e] = Continue(e)]
  /\ UNCHANGED <<msgs, expired, wire, emails, enabled, vacSent, intents, replies>>

\* Process is called again for the same Email ("Repeated calls are safe").
ProcessAgain(e) ==
  /\ e \in DOMAIN jobs
  /\ e \notin Busy
  /\ Cardinality(Busy) < MaxConns
  /\ Eventful
  /\ jobs' = [jobs EXCEPT ![e] = [Idle EXCEPT !.pc = "rules"]]
  /\ UNCHANGED <<msgs, expired, wire, emails, enabled, execs, vacSent, intents,
                 replies>>

\* The owner enables or disables a rule while messages are handled.
ToggleRule(r) ==
  /\ Eventful
  /\ enabled' = IF r \in enabled THEN enabled \ {r} ELSE enabled \cup {r}
  /\ UNCHANGED <<msgs, expired, wire, emails, jobs, execs, vacSent, intents, replies>>

\* A signature's 24 hours pass.
Expire(mid) ==
  /\ mid \in DOMAIN msgs \ expired
  /\ msgs[mid].trace # {} \/ msgs[mid].count > 0
  /\ Eventful
  /\ expired' = expired \cup {mid}
  /\ UNCHANGED <<msgs, wire, emails, jobs, enabled, execs, vacSent, intents, replies>>
-----------------------------------------------------------------------------
(* webapi reply by an Agent, and autoreplychain. *)

\* Chain.Verify: counted, not expired, and signed for this account.
Valid(a, mid) ==
  /\ msgs[mid].count > 0
  /\ mid \notin expired
  /\ msgs[mid].rcpt = a

\* Chain.next: an automatic message needs a valid chain or to be a trusted
\* forward, and a valid chain must be below the maximum.
MayContinue(a, mid) ==
  /\ msgs[mid].auto => Valid(a, mid) \/ VerifyAny(a, mid)
  /\ Valid(a, mid) => msgs[mid].count < MaxCount

NextCount(a, mid) == IF Valid(a, mid) THEN msgs[mid].count + 1 ELSE 1

\* The idempotency key: the Agent's own, one per Email, or the Message-ID of a
\* trusted forward.
ReplyKey(e) == IF VerifyAny(Acct(e), emails[e].mid)
               THEN <<"mid", emails[e].mid>> ELSE <<"email", e>>

\* reply, up to claimAgentSendIntent: the chain decides, then the first request
\* with this key gets the row.  Every other one only reads it.
Reply(e) ==
  /\ e \in DOMAIN emails
  /\ Acct(e) \in Agents
  /\ MayContinue(Acct(e), emails[e].mid)
  /\ ~\E x \in intents : x.acct = Acct(e) /\ x.key = ReplyKey(e)
  /\ intents' = intents \cup {[acct |-> Acct(e), key |-> ReplyKey(e)]}
  /\ replies' = replies \cup
       {[email |-> e, key |-> ReplyKey(e), count |-> NextCount(Acct(e), emails[e].mid),
         mid |-> IF VerifyAny(Acct(e), emails[e].mid) THEN emails[e].mid ELSE 0]}
  /\ UNCHANGED <<msgs, expired, wire, emails, jobs, enabled, execs, vacSent, events>>

composeReply(x) ==
  LET a == Acct(x.email)
      to == Raw(x.email).from IN
  [from |-> a, sender |-> a, auto |-> TRUE, trace |-> {}, rcpts |-> {},
   count |-> x.count, rcpt |-> to, gen |-> Raw(x.email).gen + 1,
   parent |-> emails[x.email].mid,
   why |-> IF x.mid # 0 THEN <<"reply", a, "mid", x.mid>>
                        ELSE <<"reply", a, "email", x.email>>]

Intent(x) == [acct |-> Acct(x.email), key |-> x.key]

\* The rest of reply: SubmitForMessage, then the row is completed, abandoned
\* (nothing was queued) or left as it is (nobody knows, or the node died).
SubmitReply(x) ==
  /\ x \in replies
  /\ replies' = replies \ {x}
  /\ \/ /\ Submit(composeReply(x), {Raw(x.email).from})
        /\ UNCHANGED intents
        /\ Quietly
     \/ /\ NotSubmitted
        /\ Eventful
        /\ intents' \in {intents, intents \ {Intent(x)}}
  /\ UNCHANGED <<expired, emails, jobs, enabled, execs, vacSent>>
-----------------------------------------------------------------------------
\* A person, or a program elsewhere, writes to another's mailbox.
Write(from, to, auto) ==
  /\ from # to
  /\ Cardinality({i \in DOMAIN msgs : msgs[i].gen = 0}) < MaxOriginals
  /\ Submit([from |-> from, sender |-> from, auto |-> auto, trace |-> {},
             rcpts |-> {}, count |-> 0, rcpt |-> NoSender, gen |-> 0,
             parent |-> 0, why |-> <<"person">>], {to})
  /\ UNCHANGED <<expired, emails, jobs, enabled, execs, vacSent, intents, replies, events>>

Init ==
  /\ msgs = <<>>
  /\ expired = {}
  /\ wire = {}
  /\ emails = <<>>
  /\ jobs = <<>>
  /\ enabled = Rules
  /\ execs = {}
  /\ vacSent = << >>
  /\ intents = {}
  /\ replies = {}
  /\ events = 0
  /\ bound \in Bounds

Next ==
  /\ UNCHANGED bound
  /\ \/ \E from \in Addresses, to \in Accounts, auto \in BOOLEAN : Write(from, to, auto)
     \/ \E w \in wire, inbox \in BOOLEAN : Deliver(w, inbox)
     \/ \E e \in DOMAIN emails :
          \/ Crash(e)
          \/ Respond(e)
          \/ SubmitVacation(e)
          \/ Process(e)
          \/ reserveExecution(e)
          \/ SubmitForward(e)
          \/ finishExecution(e)
          \/ ProcessAgain(e)
          \/ Reply(e)
     \/ \E x \in replies : SubmitReply(x)
     \/ \E k \in DOMAIN vacSent : WindowPasses(k[1], k[2])
     \/ \E r \in Rules : ToggleRule(r)
     \/ \E mid \in DOMAIN msgs : Expire(mid)

Spec == Init /\ [][Next]_vars
-----------------------------------------------------------------------------
(* Properties. *)

Job == [pc: {"vacation", "answer", "rules", "reserve", "submit", "finish", "done"},
        todo: SUBSET Rules, trusted: BOOLEAN,
        result: {"none", "queued", "failed", "unknown", "compose_failed"},
        window: Nat]

Exec == [rule: Rules, email: Nat, mid: Nat,
         status: {"matched", "loop_blocked", "queued", "failed", "unknown",
                  "compose_failed"}]

\* The variables hold what the tables and headers can hold: a reply count never
\* passes the maximum, and a handler waiting for a rule has one.
TypeOK ==
  /\ \A i \in DOMAIN msgs : msgs[i] \in Msg
  /\ expired \subseteq DOMAIN msgs
  /\ wire \subseteq [mid: DOMAIN msgs, to: Addresses]
  /\ \A e \in DOMAIN emails : emails[e] \in [acct: Accounts, mid: DOMAIN msgs]
  /\ DOMAIN jobs = DOMAIN emails
  /\ \A e \in DOMAIN jobs : /\ jobs[e] \in Job
                             /\ jobs[e].pc \in {"reserve", "submit", "finish"}
                                  => jobs[e].todo # {}
  /\ enabled \subseteq Rules
  /\ execs \subseteq Exec
  /\ DOMAIN vacSent \subseteq Accounts \X Addresses
  /\ \A k \in DOMAIN vacSent : vacSent[k] \in [n: Nat \ {0}, open: BOOLEAN]
  /\ \A x \in replies : x.email \in DOMAIN emails /\ x.count \in 1 .. MaxCount
                         /\ Intent(x) \in intents
  /\ events \in 0 .. bound.events
  /\ bound \in Bounds

\* Mail the server writes by itself dies out (blockedCode, Chain.next, Respond):
\* whatever rules, vacation responders and Agents answer each other, whatever is
\* delivered twice, expires or fails, no message is more automatic steps away from
\* what a person wrote than there are rules plus automatic replies in a chain.
LoopsEnd == \A i \in DOMAIN msgs : msgs[i].gen <= Cardinality(Rules) + MaxCount

\* Why LoopsEnd holds, message by message: a forward has made one step for every
\* rule of its signed trace, a vacation reply one step, and an automatic reply at
\* most one step for every rule and one for every reply its chain counts.
StepsCounted ==
  \A i \in DOMAIN msgs :
    LET m == msgs[i] IN
    /\ m.why[1] = "person"   => m.gen = 0
    /\ m.why[1] = "vacation" => m.gen = 1
    /\ m.why[1] = "forward"  => m.gen = Cardinality(m.trace)
    /\ m.why[1] = "reply"    => m.gen <= Cardinality(Rules) + m.count

\* RFC 3834 as isAutoGenerated, blockedCode and BlocksAutomaticReply apply it: a
\* vacation reply, and an automatic message from elsewhere, is never answered or
\* forwarded automatically, not even when an expired signature hides its origin.
NeverAnswersAutomatic ==
  \A i \in DOMAIN msgs : msgs[i].parent # 0 =>
    LET p == msgs[msgs[i].parent] IN p.auto => p.trace # {} \/ p.count > 0

WrittenOnce(kind) ==
  \A i, j \in DOMAIN msgs :
    msgs[i].why = msgs[j].why /\ msgs[i].why[1] = kind => i = j

\* No automatic step happens twice, although handlers of two copies interleave,
\* Process is called again and the result of a submission may be unknown: a rule
\* forwards one Email, or one trusted forward under several Email ids, once
\* (reserveExecution: "reclaiming it could deliver the same forward twice"); an
\* Agent answers it at most once (messages.go: "one trusted forward can trigger at
\* most one automatic reply in that mailbox"); a sender gets one vacation reply of
\* an account in 24 hours (VacationShouldReply: "concurrent deliveries cannot
\* double-send").
AutomaticOnce == \A kind \in {"forward", "reply", "vacation"} : WrittenOnce(kind)
=============================================================================

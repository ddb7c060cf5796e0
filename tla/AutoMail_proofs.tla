-------------------------- MODULE AutoMail_proofs --------------------------
(***************************************************************************)
(* Proofs about AutoMail, for any mailboxes, rules, targets, Agents and    *)
(* maximum, and any number of messages, deliveries, failures and expiries: *)
(* what the parts of a step keep of the inductive invariant, the steps of  *)
(* the actions, and the theorems.  The invariant itself and the lemmas for *)
(* AutomaticOnce are in AutoMailOnce_proofs.                               *)
(***************************************************************************)
EXTENDS AutoMailOnce_proofs, FiniteSetTheorems, WellFoundedInduction

-----------------------------------------------------------------------------
(* Numbers and sets. *)

\* The rule with the smallest id is one of the rules.
LEMMA LeastMember ==
  ASSUME NEW S, S \subseteq Nat, S # {}
  PROVE  Least(S) \in S
  <1> DEFINE R == {ss \in Nat \X Nat : ss[1] < ss[2]}
  <1>1. IsWellFoundedOn(R, Nat)
      BY NatLessThanWellFounded, Zenon DEF OpToRel
  <1> HIDE DEF R
  <1>2. PICK x \in S : \A y \in S : ~(<<y, x>> \in R)
      BY Zenon, <1>1, WFMin
  <1>3. ASSUME NEW y \in S PROVE x <= y
    <2>1. x \in Nat /\ y \in Nat
        BY Zenon
    <2>2. y < x => <<y, x>> \in R
        BY Zenon, <2>1 DEF R
    <2> QED
        BY <1>2, <2>1, <2>2
  <1> QED
      BY Zenon, <1>2, <1>3 DEF Least

\* A trace has at most as many rules as there are.
LEMMA RulesFinite ==
  /\ Cardinality(Rules) \in Nat
  /\ \A T \in SUBSET Rules : IsFiniteSet(T) /\ Cardinality(T) \in Nat
                             /\ Cardinality(T) <= Cardinality(Rules)
  BY Zenon, RulesAssumption, FS_Subset, FS_CardinalityType

\* A record of such fields is a message.
LEMMA MsgIntro ==
  ASSUME NEW f \in Addresses, NEW s \in Addresses \cup {NoSender}, NEW a \in BOOLEAN,
         NEW t \in SUBSET Rules, NEW rs \in SUBSET Addresses, NEW c \in 0 .. MaxCount,
         NEW r \in Addresses \cup {NoSender}, NEW g \in Nat, NEW p \in Nat, NEW w \in Why
  PROVE  [from |-> f, sender |-> s, auto |-> a, trace |-> t, rcpts |-> rs, count |-> c,
          rcpt |-> r, gen |-> g, parent |-> p, why |-> w] \in Msg
  BY Zenon DEF Msg

-----------------------------------------------------------------------------
(* What the parts of a step keep. *)

WireInv == \A w \in wire : w.mid \in 1 .. Len(msgs)

\* A step never changes a message that exists.
Kept ==
    /\ msgs' \in Seq(Msg)
    /\ Len(msgs) <= Len(msgs')
    /\ \A i \in 1 .. Len(msgs) : msgs'[i] = msgs[i]

\* No message is added.
LEMMA IdleStep ==
  ASSUME IInv, UNCHANGED msgs, wire' \subseteq wire
  PROVE  Kept /\ MsgsInv' /\ WireInv'
  <1>1. Kept
      BY DEF IInv, Typed, Kept
  <1>2. MsgsInv'
      BY Zenon DEF IInv, MsgsInv
  <1>3. WireInv'
      BY Zenon DEF IInv, Typed, WireInv
  <1> QED
      BY Zenon, <1>1, <1>2, <1>3

\* A good message is added.
LEMMA SubmitStep ==
  ASSUME IInv, NEW m \in Msg, Counted(m), NEW tos, Submit(m, tos),
         m.parent # 0 => m.parent \in 1 .. Len(msgs) /\ Answerable(msgs[m.parent])
  PROVE  Kept /\ MsgsInv' /\ WireInv'
  <1>1. msgs \in Seq(Msg) /\ msgs' = Append(msgs, m)
      BY Zenon DEF IInv, Typed, Submit
  <1>2. /\ msgs' \in Seq(Msg) /\ Len(msgs') = Len(msgs) + 1 /\ Len(msgs) \in Nat
        /\ \A i \in 1 .. Len(msgs) : msgs'[i] = msgs[i]
        /\ msgs'[Len(msgs) + 1] = m
      BY <1>1, AppendFacts, SeqFacts
  <1>3. Kept
      BY <1>2 DEF Kept
  <1>4. MsgsInv'
    <2> SUFFICES ASSUME NEW i \in 1 .. Len(msgs')
                 PROVE  /\ Counted(msgs'[i])
                        /\ msgs'[i].parent # 0 =>
                             /\ msgs'[i].parent \in 1 .. Len(msgs')
                             /\ Answerable(msgs'[msgs'[i].parent])
        BY Zenon DEF MsgsInv, Counted, Answerable
    <2>1. CASE i \in 1 .. Len(msgs)
        BY <2>1, <1>2 DEF IInv, MsgsInv
    <2>2. CASE i = Len(msgs) + 1
        BY <2>2, <1>2
    <2> QED
        BY SMTT(30), <2>1, <2>2, <1>2
  <1>5. WireInv'
      BY <1>2 DEF IInv, Typed, WireInv, Submit, Row
  <1> QED
      BY Zenon, <1>3, <1>4, <1>5

\* The handler of Email e moves to j.
LEMMA JobStep ==
  ASSUME IInv, Kept, UNCHANGED emails, NEW e \in 1 .. Len(emails), NEW j \in Job,
         JobInv(j, msgs[emails[e].mid]), jobs' = [jobs EXCEPT ![e] = j]
  PROVE  jobs' \in Seq(Job) /\ Len(jobs') = Len(emails') /\ JobsInv'
  <1>1. /\ jobs \in Seq(Job) /\ Len(jobs) = Len(emails) /\ Len(emails) \in Nat
        /\ \A k \in 1 .. Len(emails) : emails[k].mid \in 1 .. Len(msgs)
      BY Zenon, SeqFacts DEF IInv, Typed
  <1>2. /\ jobs' \in Seq(Job) /\ Len(jobs') = Len(jobs)
        /\ \A k \in 1 .. Len(jobs) : jobs'[k] = IF k = e THEN j ELSE jobs[k]
      BY <1>1, ExceptFacts
  <1>3. ASSUME NEW k \in 1 .. Len(emails) PROVE JobInv(jobs'[k], msgs'[emails'[k].mid])
    <2>1. msgs'[emails'[k].mid] = msgs[emails[k].mid]
        BY Zenon, <1>1 DEF Kept
    <2> QED
        BY Zenon, <1>1, <1>2, <2>1 DEF IInv, JobsInv
  <1> QED
      BY Zenon, <1>1, <1>2, <1>3 DEF JobsInv, JobInv, Least

\* No handler moves.
LEMMA NoJobStep ==
  ASSUME IInv, Kept, UNCHANGED <<emails, jobs>>
  PROVE  jobs' \in Seq(Job) /\ Len(jobs') = Len(emails') /\ JobsInv'
  <1>1. \A k \in 1 .. Len(emails) : msgs'[emails'[k].mid] = msgs[emails[k].mid]
      BY Zenon DEF IInv, Typed, Kept
  <1>2. \A k \in 1 .. Len(emails) : JobInv(jobs'[k], msgs'[emails'[k].mid])
      BY Zenon, <1>1 DEF IInv, Typed, JobsInv
  <1> QED
      BY Zenon, <1>2 DEF IInv, Typed, JobsInv, JobInv, Least

\* The claimed replies stay good when only messages and Emails are added.
LEMMA NoReplyStep ==
  ASSUME IInv, Kept, replies' \subseteq replies, Len(emails) <= Len(emails'),
         Len(emails') \in Nat, \A e \in 1 .. Len(emails) : emails'[e] = emails[e]
  PROVE  RepliesInv'
  <1> SUFFICES ASSUME NEW x \in replies
               PROVE  /\ x.email \in 1 .. Len(emails')
                      /\ x.count \in 1 .. MaxCount
                      /\ x.mid \in Nat
                      /\ Answerable(msgs'[emails'[x.email].mid])
                      /\ msgs'[emails'[x.email].mid].gen + 1
                           <= Cardinality(Rules) + x.count
      BY Zenon DEF RepliesInv, Answerable
  <1>1. x.email \in 1 .. Len(emails) /\ Len(emails) \in Nat
      BY Zenon, SeqFacts DEF IInv, RepliesInv, Typed
  <1>2. msgs'[emails'[x.email].mid] = msgs[emails[x.email].mid]
      BY Zenon, <1>1 DEF IInv, Typed, Kept
  <1> QED
      BY <1>1, <1>2 DEF IInv, RepliesInv

\* The conjuncts of IInv, one by one.
LEMMA Assemble ==
  ASSUME IInv, Kept, MsgsInv', WireInv', UNCHANGED emails, enabled' \subseteq Rules,
         jobs' \in Seq(Job), Len(jobs') = Len(emails'), JobsInv', RepliesInv'
  PROVE  IInv'
  <1>1. \A e \in 1 .. Len(emails') : emails'[e].mid \in 1 .. Len(msgs')
      BY SeqFacts DEF IInv, Typed, Kept
  <1> QED
      BY Zenon, <1>1 DEF IInv, Typed, Kept, WireInv

\* Emails stay as they are in every action but Deliver.
LEMMA SameEmails ==
  ASSUME IInv, UNCHANGED emails
  PROVE  /\ Len(emails) <= Len(emails') /\ Len(emails') \in Nat
         /\ \A e \in 1 .. Len(emails) : emails'[e] = emails[e]
  BY SeqFacts DEF IInv, Typed

\* A step of the handler of e that submits nothing.
LEMMA HandlerStep ==
  ASSUME IInv, NEW e \in DOMAIN emails, NEW j \in Job, JobInv(j, msgs[emails[e].mid]),
         jobs' = [jobs EXCEPT ![e] = j],
         UNCHANGED <<msgs, wire, emails, enabled, replies>>
  PROVE  IInv'
  <1>1. e \in 1 .. Len(emails)
      BY Zenon, EmailFacts
  <1>2. Kept /\ MsgsInv' /\ WireInv'
      BY Zenon, IdleStep
  <1>3. jobs' \in Seq(Job) /\ Len(jobs') = Len(emails') /\ JobsInv'
      BY Zenon, <1>1, <1>2, JobStep
  <1>4. RepliesInv'
      BY Zenon, <1>2, SameEmails, NoReplyStep
  <1>5. enabled' \subseteq Rules
      BY Zenon DEF IInv, Typed
  <1> QED
      BY Zenon, <1>2, <1>3, <1>4, <1>5, Assemble

\* A step of the handler of e that submits an answer m.
LEMMA AnswerStep ==
  ASSUME IInv, NEW e \in DOMAIN emails, NEW j \in Job, JobInv(j, msgs[emails[e].mid]),
         jobs' = [jobs EXCEPT ![e] = j], UNCHANGED <<emails, enabled, replies>>,
         NEW m \in Msg, Counted(m), NEW tos, Submit(m, tos),
         m.parent = emails[e].mid, Answerable(msgs[emails[e].mid])
  PROVE  IInv'
  <1>1. e \in 1 .. Len(emails) /\ emails[e].mid \in 1 .. Len(msgs)
      BY Zenon, EmailFacts
  <1>2. Kept /\ MsgsInv' /\ WireInv'
      BY Zenon, <1>1, SubmitStep
  <1>3. jobs' \in Seq(Job) /\ Len(jobs') = Len(emails') /\ JobsInv'
      BY Zenon, <1>1, <1>2, JobStep
  <1>4. RepliesInv'
      BY Zenon, <1>2, SameEmails, NoReplyStep
  <1>5. enabled' \subseteq Rules
      BY Zenon DEF IInv, Typed
  <1> QED
      BY Zenon, <1>2, <1>3, <1>4, <1>5, Assemble
-----------------------------------------------------------------------------
(* One lemma per action. *)

\* A handler that has not begun or has crashed.
LEMMA IdleJob == Idle \in Job /\ \A m : JobInv(Idle, m)
  BY Zenon DEF Idle, Job, JobInv

\* Init: there is no message.
LEMMA InitHolds == Init => IInv
  <1> SUFFICES ASSUME Init PROVE IInv
      BY Zenon
  <1>1. /\ msgs \in Seq(Msg) /\ emails \in Seq([acct: Accounts, mid: Nat])
        /\ jobs \in Seq(Job) /\ Len(msgs) = 0 /\ Len(emails) = 0 /\ Len(jobs) = 0
      BY Zenon, NoElements DEF Init
  <1> QED
      BY <1>1 DEF Init, IInv, Typed, MsgsInv, JobsInv, RepliesInv

\* A person writes.
LEMMA WriteStep ==
  ASSUME IInv, NEW from \in Addresses, NEW to \in Accounts, NEW auto \in BOOLEAN,
         Write(from, to, auto)
  PROVE  IInv'
  <1> DEFINE m == [from |-> from, sender |-> from, auto |-> auto, trace |-> {},
                   rcpts |-> {}, count |-> 0, rcpt |-> NoSender, gen |-> 0,
                   parent |-> 0, why |-> <<"person">>]
  <1>1. Submit(m, {to}) /\ UNCHANGED <<emails, jobs, enabled, replies>>
      BY Zenon DEF Write
  <1>2. m \in Msg
      BY MaxCountAssumption DEF Msg, Why
  <1>3. Counted(m) /\ m.parent = 0
      BY Zenon DEF Counted
  <1> HIDE DEF m
  <1>4. Kept /\ MsgsInv' /\ WireInv'
      BY Zenon, <1>1, <1>2, <1>3, SubmitStep
  <1>5. jobs' \in Seq(Job) /\ Len(jobs') = Len(emails') /\ JobsInv'
      BY Zenon, <1>1, <1>4, NoJobStep
  <1>6. RepliesInv'
      BY Zenon, <1>1, <1>4, SameEmails, NoReplyStep
  <1>7. enabled' \subseteq Rules
      BY Zenon, <1>1 DEF IInv, Typed
  <1> QED
      BY Zenon, <1>1, <1>4, <1>5, <1>6, <1>7, Assemble

\* A message reaches a mailbox, perhaps once more.
LEMMA DeliverStep ==
  ASSUME IInv, NEW w \in wire, NEW inbox \in BOOLEAN, Deliver(w, inbox)
  PROVE  IInv'
  <1> DEFINE email == [acct |-> w.to, mid |-> w.mid]
             j == [Idle EXCEPT !.pc = IF inbox THEN "vacation" ELSE "done"]
  <1>1. /\ emails' = Append(emails, email) /\ jobs' = Append(jobs, j)
        /\ wire' \subseteq wire /\ UNCHANGED <<msgs, enabled, replies>>
        /\ w.to \in Accounts
      BY Zenon DEF Deliver
  <1>2. /\ emails \in Seq([acct: Accounts, mid: Nat]) /\ jobs \in Seq(Job)
        /\ Len(jobs) = Len(emails) /\ Len(msgs) \in Nat /\ Len(emails) \in Nat
        /\ w.mid \in 1 .. Len(msgs)
      BY Zenon, SeqFacts DEF IInv, Typed
  <1>3. email \in [acct: Accounts, mid: Nat] /\ email.mid \in 1 .. Len(msgs)
      BY <1>1, <1>2
  <1>4. j \in Job /\ \A m : JobInv(j, m)
      BY Zenon DEF Idle, Job, JobInv
  <1> HIDE DEF email, j
  <1>5. /\ emails' \in Seq([acct: Accounts, mid: Nat])
        /\ Len(emails') = Len(emails) + 1
        /\ \A e \in 1 .. Len(emails) : emails'[e] = emails[e]
        /\ emails'[Len(emails) + 1] = email
      BY SMTT(30), <1>1, <1>2, <1>3, AppendFacts
  <1>6. /\ jobs' \in Seq(Job)
        /\ Len(jobs') = Len(jobs) + 1
        /\ \A e \in 1 .. Len(jobs) : jobs'[e] = jobs[e]
        /\ jobs'[Len(jobs) + 1] = j
      BY SMTT(30), <1>1, <1>2, <1>4, AppendFacts
  <1>7. Kept /\ MsgsInv' /\ WireInv'
      BY Zenon, <1>1, IdleStep
  <1>8. RepliesInv'
      BY SMTT(30), <1>1, <1>2, <1>5, <1>7, NoReplyStep
  <1>9. ASSUME NEW e \in 1 .. Len(jobs')
        PROVE  /\ emails'[e].mid \in 1 .. Len(msgs')
               /\ JobInv(jobs'[e], msgs'[emails'[e].mid])
    <2>1. CASE e \in 1 .. Len(jobs)
        BY Zenon, <2>1, <1>1, <1>2, <1>5, <1>6 DEF IInv, Typed, JobsInv
    <2>2. CASE e = Len(jobs) + 1
        BY Zenon, <2>2, <1>1, <1>2, <1>3, <1>4, <1>5, <1>6
    <2> QED
        BY SMTT(30), <2>1, <2>2, <1>2, <1>6
  <1>10. JobsInv'
      BY Zenon, <1>9 DEF JobsInv, JobInv, Least
  <1>11. Typed'
      BY ZenonT(60), <1>1, <1>2, <1>5, <1>6, <1>7, <1>9 DEF Typed, Kept, WireInv, IInv
  <1> QED
      BY Zenon, <1>7, <1>8, <1>10, <1>11 DEF IInv

\* A handler is lost.
LEMMA CrashStep ==
  ASSUME IInv, NEW e \in DOMAIN emails, Crash(e)
  PROVE  IInv'
  BY Zenon, IdleJob, HandlerStep DEF Crash

\* Respond decides on a vacation reply.
LEMMA RespondStep ==
  ASSUME IInv, VacationInv, NEW e \in DOMAIN emails, Respond(e)
  PROVE  IInv'
  <1>1. /\ jobs[e] \in Job /\ JobInv(jobs[e], msgs[emails[e].mid])
        /\ Raw(e) = msgs[emails[e].mid] /\ jobs[e].pc = "vacation"
      BY Zenon, EmailFacts DEF Respond
  <1>2. UNCHANGED <<msgs, wire, emails, enabled, replies>>
      BY Zenon DEF Respond
  <1> DEFINE n == Window(Acct(e), Raw(e).sender).n + 1
  <1>3. CASE /\ MayRespond(e)
             /\ jobs' = [jobs EXCEPT ![e].pc = "answer", ![e].window = n]
    <2>1. PICK j : j = [jobs[e] EXCEPT !.pc = "answer", !.window = n]
        BY Zenon
    <2>2. jobs' = [jobs EXCEPT ![e] = j]
        BY Zenon, <1>3, <2>1
    <2>3. j \in Job
      <3>1. n \in Nat
          BY WindowType
      <3> HIDE DEF n
      <3> QED
          BY Zenon, <1>1, <2>1, <3>1 DEF Job
    <2>4. JobInv(j, msgs[emails[e].mid])
        BY Zenon, <1>1, <1>3, <2>1 DEF JobInv, MayRespond, Job
    <2> QED
        BY Zenon, <1>2, <2>2, <2>3, <2>4, HandlerStep
  <1>4. CASE jobs' = [jobs EXCEPT ![e].pc = "rules"]
    <2>1. PICK j : j = [jobs[e] EXCEPT !.pc = "rules"]
        BY Zenon
    <2>2. jobs' = [jobs EXCEPT ![e] = j]
        BY Zenon, <1>4, <2>1
    <2>3. j \in Job /\ JobInv(j, msgs[emails[e].mid])
        BY Zenon, <1>1, <2>1 DEF Job, JobInv
    <2> QED
        BY Zenon, <1>2, <2>2, <2>3, HandlerStep
  <1> QED
      BY Zenon, <1>3, <1>4 DEF Respond

\* The vacation reply is submitted, or is not.
LEMMA SubmitVacationStep ==
  ASSUME IInv, NEW e \in DOMAIN emails, SubmitVacation(e)
  PROVE  IInv'
  <1>1. /\ jobs[e] \in Job /\ JobInv(jobs[e], msgs[emails[e].mid])
        /\ Raw(e) = msgs[emails[e].mid] /\ Raw(e) \in Msg /\ Counted(Raw(e))
        /\ Acct(e) \in Accounts /\ emails[e].mid \in Nat
        /\ jobs[e].pc = "answer"
      BY Zenon, EmailFacts DEF SubmitVacation
  <1>2. UNCHANGED <<emails, enabled, replies>>
      BY Zenon DEF SubmitVacation
  <1>3. PICK j : j = [jobs[e] EXCEPT !.pc = "rules", !.window = 0]
      BY Zenon
  <1>4. jobs' = [jobs EXCEPT ![e] = j]
      BY Zenon, <1>3 DEF SubmitVacation
  <1>5. j \in Job /\ JobInv(j, msgs[emails[e].mid])
      BY Zenon, <1>1, <1>3 DEF Job, JobInv
  <1>6. CASE NotSubmitted
      BY Zenon, <1>2, <1>4, <1>5, <1>6, HandlerStep DEF NotSubmitted
  <1>7. CASE Submit(buildReply(e), {Raw(e).sender})
    <2>1. Raw(e).gen = 0 /\ ~Raw(e).auto /\ Raw(e).sender # NoSender
        BY Zenon, <1>1, Origin DEF JobInv
    <2>2. <<"vacation", Acct(e), Raw(e).sender, jobs[e].window>> \in Why
        BY Zenon, <1>1, <2>1, MsgFields DEF Why, Job
    <2>3. buildReply(e) \in Msg
      <3>1. /\ Raw(e).gen + 1 \in Nat /\ 0 \in 0 .. MaxCount
            /\ Acct(e) \in Addresses /\ NoSender \in Addresses \cup {NoSender}
          BY <1>1, <2>1, MaxCountAssumption DEF Addresses
      <3> QED
          BY Zenon, <1>1, <2>2, <3>1, MsgIntro DEF buildReply
    <2>4. Counted(buildReply(e)) /\ buildReply(e).parent = emails[e].mid
      <3>1. /\ buildReply(e).gen = Raw(e).gen + 1 /\ buildReply(e).parent = emails[e].mid
            /\ buildReply(e).count = 0 /\ buildReply(e).trace = {} /\ buildReply(e).auto
          BY Zenon DEF buildReply
      <3>2. buildReply(e).why[1] = "vacation"
          BY Zenon DEF buildReply
      <3>3. buildReply(e).gen = 1
          BY SMTT(30), <2>1, <3>1
      <3> QED
          BY Zenon, <3>1, <3>2, <3>3 DEF Counted
    <2>5. Answerable(msgs[emails[e].mid])
        BY Zenon, <1>1, <2>1 DEF Answerable
    <2> QED
        BY ZenonT(60), <1>2, <1>4, <1>5, <1>7, <2>3, <2>4, <2>5, AnswerStep
  <1> QED
      BY Zenon, <1>6, <1>7 DEF SubmitVacation

\* After a rule the handler waits for the next one or is done.
LEMMA AfterRuleJob ==
  ASSUME NEW j \in Job, NEW m, j.trusted => m.trace # {}
  PROVE  AfterRule(j) \in Job /\ JobInv(AfterRule(j), m)
  <1>1. CASE j.todo = {}
      BY Zenon, <1>1, IdleJob DEF AfterRule
  <1>2. CASE j.todo # {}
    <2>1. PICK k : k = [j EXCEPT !.pc = "reserve", !.result = "none"]
        BY Zenon
    <2>2. AfterRule(j) = k
        BY Zenon, <1>2, <2>1 DEF AfterRule
    <2>3. k \in Job /\ k.pc = "reserve" /\ k.todo # {} /\ (k.trusted => m.trace # {})
        BY Zenon, <1>2, <2>1 DEF Job
    <2> QED
        BY Zenon, <2>2, <2>3 DEF JobInv
  <1> QED
      BY Zenon, <1>1, <1>2

\* Process starts, with what the signature of the message says.
LEMMA ProcessStep ==
  ASSUME IInv, NEW e \in DOMAIN emails, Process(e)
  PROVE  IInv'
  <1> DEFINE j == [Idle EXCEPT !.pc = "reserve",
                   !.todo = {r \in enabled : Owner[r] = Acct(e) /\ matches(r, e)},
                   !.trusted = VerifyAny(Acct(e), emails[e].mid)]
  <1>1. /\ jobs' = [jobs EXCEPT ![e] = AfterRule(j)]
        /\ UNCHANGED <<msgs, wire, emails, enabled, replies>>
      BY Zenon DEF Process
  <1>2. enabled \subseteq Rules
      BY Zenon DEF IInv, Typed
  <1>3. VerifyAny(Acct(e), emails[e].mid) \in BOOLEAN
      BY Zenon DEF VerifyAny
  <1>4. j \in Job
      BY Zenon, <1>2, <1>3 DEF Job, Idle
  <1>5. j.trusted => msgs[emails[e].mid].trace # {}
      BY Zenon DEF VerifyAny, Idle
  <1> HIDE DEF j
  <1>6. AfterRule(j) \in Job /\ JobInv(AfterRule(j), msgs[emails[e].mid])
      BY Zenon, <1>4, <1>5, AfterRuleJob
  <1> QED
      BY Zenon, <1>1, <1>6, HandlerStep

\* The rule a handler is at is one of its rules.
LEMMA CurrentRule ==
  ASSUME IInv, NEW e \in DOMAIN emails, jobs[e].pc \in {"reserve", "submit", "finish"}
  PROVE  Current(e) \in jobs[e].todo /\ Current(e) \in Rules
  <1>1. jobs[e] \in Job /\ JobInv(jobs[e], msgs[emails[e].mid])
      BY Zenon, EmailFacts
  <1>2. jobs[e].todo # {} /\ jobs[e].todo \subseteq Rules
      BY Zenon, <1>1 DEF JobInv, Job
  <1> QED
      BY Zenon, <1>2, RulesAssumption, LeastMember DEF Current

\* The handler leaves the rule it is at.
LEMMA NextRule ==
  ASSUME IInv, NEW e \in DOMAIN emails
  PROVE  Continue(e) \in Job /\ JobInv(Continue(e), msgs[emails[e].mid])
  <1>1. jobs[e] \in Job /\ JobInv(jobs[e], msgs[emails[e].mid])
      BY Zenon, EmailFacts
  <1>2. PICK k : k = [jobs[e] EXCEPT !.todo = jobs[e].todo \ {Current(e)}]
      BY Zenon
  <1>3. k \in Job /\ (k.trusted => msgs[emails[e].mid].trace # {})
      BY Zenon, <1>1, <1>2 DEF Job, JobInv
  <1>4. Continue(e) = AfterRule(k)
      BY Zenon, <1>2 DEF Continue
  <1> QED
      BY Zenon, <1>3, <1>4, AfterRuleJob

\* reserveExecution goes on only with a rule that is not in the trace.
LEMMA reserveExecutionStep ==
  ASSUME IInv, NEW e \in DOMAIN emails, reserveExecution(e)
  PROVE  IInv'
  <1>1. /\ jobs[e] \in Job /\ JobInv(jobs[e], msgs[emails[e].mid])
        /\ Raw(e) = msgs[emails[e].mid] /\ jobs[e].pc = "reserve"
      BY Zenon, EmailFacts DEF reserveExecution
  <1>2. UNCHANGED <<msgs, wire, emails, enabled, replies>>
      BY Zenon DEF reserveExecution
  <1>3. CASE jobs' = [jobs EXCEPT ![e] = Continue(e)]
      BY Zenon, <1>2, <1>3, NextRule, HandlerStep
  <1>4. CASE ~blocked(Current(e), e) /\ jobs' = [jobs EXCEPT ![e].pc = "submit"]
    <2>1. PICK j : j = [jobs[e] EXCEPT !.pc = "submit"]
        BY Zenon
    <2>2. jobs' = [jobs EXCEPT ![e] = j]
        BY Zenon, <1>4, <2>1
    <2>3. /\ j \in Job /\ j.pc = "submit" /\ j.trusted = jobs[e].trusted
          /\ j.todo = jobs[e].todo
        BY Zenon, <1>1, <2>1 DEF Job
    <2>4. /\ Raw(e).auto => jobs[e].trusted
          /\ jobs[e].trusted => Current(e) \notin Raw(e).trace
        BY Zenon, <1>4 DEF blocked, Trace
    <2>5. JobInv(j, msgs[emails[e].mid])
        BY Zenon, <1>1, <2>3, <2>4 DEF JobInv, Current
    <2> QED
        BY Zenon, <1>2, <2>2, <2>3, <2>5, HandlerStep
  <1> QED
      BY Zenon, <1>3, <1>4 DEF reserveExecution


\* The forward counts one step more than the message, and its trace has one
\* rule more.
LEMMA ForwardCounted ==
  ASSUME IInv, NEW e \in DOMAIN emails, jobs[e].pc = "submit"
  PROVE  /\ composeForward(Current(e), e) \in Msg
         /\ Counted(composeForward(Current(e), e))
         /\ composeForward(Current(e), e).parent = emails[e].mid
         /\ Answerable(msgs[emails[e].mid])
  <1> DEFINE r == Current(e)
             t == Trace(e) \cup {r}
  <1>1. /\ jobs[e] \in Job /\ JobInv(jobs[e], msgs[emails[e].mid])
        /\ Raw(e) = msgs[emails[e].mid] /\ Raw(e) \in Msg /\ Counted(Raw(e))
        /\ Acct(e) \in Accounts /\ emails[e].mid \in Nat /\ e \in Nat
      BY Zenon, EmailFacts
  <1>2. r \in Rules
      BY Zenon, CurrentRule
  <1>3. /\ jobs[e].trusted => Raw(e).trace # {} /\ r \notin Raw(e).trace
        /\ Raw(e).auto => jobs[e].trusted
      BY Zenon, <1>1 DEF JobInv, Current
  <1>4. Raw(e).trace \subseteq Rules /\ Raw(e).gen \in Nat
      BY Zenon, <1>1, MsgFields
  <1>5. Cardinality(t) = Raw(e).gen + 1
    <2>1. CASE jobs[e].trusted
      <3>1. /\ Raw(e).gen = Cardinality(Raw(e).trace)
            /\ t = Raw(e).trace \cup {r} /\ r \notin Raw(e).trace
          BY Zenon, <1>1, <1>3, <2>1, Origin DEF Trace
      <3>2. IsFiniteSet(Raw(e).trace)
          BY Zenon, <1>4, RulesFinite
      <3> QED
          BY ZenonT(60), <3>1, <3>2, FS_AddElement
    <2>2. CASE ~jobs[e].trusted
      <3>1. Raw(e).gen = 0 /\ t = {r}
          BY Zenon, <1>1, <1>3, <2>2, Origin DEF Trace
      <3>2. Cardinality({r}) = 1
          BY Zenon, FS_Singleton
      <3> QED
          BY <3>1, <3>2
    <2> QED
        BY Zenon, <2>1, <2>2
  <1>6. t \subseteq Rules /\ t # {}
      BY Zenon, <1>2, <1>4 DEF Trace
  <1>7. /\ <<"forward", r, "mid", emails[e].mid>> \in Why
        /\ <<"forward", r, "email", e>> \in Why
      BY Zenon, <1>1, <1>2 DEF Why
  <1>8. Targets[r] \subseteq Addresses /\ Acct(e) \in Addresses
      BY Zenon, <1>1, <1>2, TargetsAssumption DEF Addresses
  <1>9. composeForward(r, e) \in Msg
      BY SMTT(30), <1>1, <1>4, <1>6, <1>7, <1>8, MaxCountAssumption DEF composeForward, Msg
  <1>10. Counted(composeForward(r, e)) /\ composeForward(r, e).parent = emails[e].mid
      BY Zenon, <1>5, <1>6 DEF composeForward, Counted
  <1>11. Answerable(msgs[emails[e].mid])
      BY Zenon, <1>1, <1>3 DEF Answerable
  <1> QED
      BY ZenonT(60), <1>9, <1>10, <1>11

\* A forward is submitted: its trace has one rule more.
LEMMA SubmitForwardStep ==
  ASSUME IInv, NEW e \in DOMAIN emails, SubmitForward(e)
  PROVE  IInv'
  <1>1. /\ jobs[e] \in Job /\ JobInv(jobs[e], msgs[emails[e].mid])
        /\ jobs[e].pc = "submit"
      BY Zenon, EmailFacts DEF SubmitForward
  <1>2. UNCHANGED <<emails, enabled, replies>>
      BY Zenon DEF SubmitForward
  <1>3. PICK result \in {"queued", "failed", "unknown", "compose_failed"} :
          /\ jobs' = [jobs EXCEPT ![e].pc = "finish", ![e].result = result]
          /\ \/ Submit(composeForward(Current(e), e), Targets[Current(e)])
             \/ NotSubmitted
      BY Zenon DEF SubmitForward
  <1>4. PICK j : j = [jobs[e] EXCEPT !.pc = "finish", !.result = result]
      BY Zenon
  <1>5. jobs' = [jobs EXCEPT ![e] = j]
      BY Zenon, <1>3, <1>4
  <1>6. j \in Job /\ JobInv(j, msgs[emails[e].mid])
      BY Zenon, <1>1, <1>3, <1>4 DEF Job, JobInv
  <1>7. CASE NotSubmitted
      BY Zenon, <1>2, <1>5, <1>6, <1>7, HandlerStep DEF NotSubmitted
  <1>8. CASE Submit(composeForward(Current(e), e), Targets[Current(e)])
      BY Zenon, <1>1, <1>2, <1>5, <1>6, <1>8, ForwardCounted, AnswerStep
  <1> QED
      BY Zenon, <1>3, <1>7, <1>8

\* finishExecution and the next rule.
LEMMA finishExecutionStep ==
  ASSUME IInv, NEW e \in DOMAIN emails, finishExecution(e)
  PROVE  IInv'
  BY Zenon, NextRule, HandlerStep DEF finishExecution

\* Process is called again for an Email.
LEMMA ProcessAgainStep ==
  ASSUME IInv, NEW e \in DOMAIN emails, ProcessAgain(e)
  PROVE  IInv'
  <1>1. PICK j : j = [Idle EXCEPT !.pc = "rules"]
      BY Zenon
  <1>2. j \in Job /\ JobInv(j, msgs[emails[e].mid])
      BY Zenon, <1>1 DEF Idle, Job, JobInv
  <1> QED
      BY Zenon, <1>1, <1>2, HandlerStep DEF ProcessAgain

\* Chain.next allows a reply that the count of its chain pays for.
LEMMA MayContinueCounted ==
  ASSUME IInv, NEW e \in DOMAIN emails, MayContinue(Acct(e), emails[e].mid)
  PROVE  /\ NextCount(Acct(e), emails[e].mid) \in 1 .. MaxCount
         /\ Answerable(msgs[emails[e].mid])
         /\ msgs[emails[e].mid].gen + 1
              <= Cardinality(Rules) + NextCount(Acct(e), emails[e].mid)
  <1> DEFINE a == Acct(e)
             mid == emails[e].mid
             m == msgs[mid]
  <1>1. m \in Msg /\ Counted(m)
      BY Zenon, EmailFacts
  <1>2. /\ m.auto => Valid(a, mid) \/ VerifyAny(a, mid)
        /\ Valid(a, mid) => m.count > 0 /\ m.count < MaxCount
        /\ VerifyAny(a, mid) => m.trace # {}
        /\ NextCount(a, mid) = IF Valid(a, mid) THEN m.count + 1 ELSE 1
      BY Zenon DEF MayContinue, Valid, VerifyAny, NextCount
  <1>3. /\ m.trace \in SUBSET Rules /\ m.count \in 0 .. MaxCount /\ m.gen \in Nat
        /\ MaxCount \in Nat \ {0}
      BY Zenon, <1>1, MsgFields, MaxCountAssumption
  <1>4. /\ ~m.auto => m.gen = 0
        /\ m.trace # {} => m.gen = Cardinality(m.trace)
        /\ m.count > 0 => m.gen <= Cardinality(Rules) + m.count
      BY Zenon, <1>1, Origin
  <1>5. Cardinality(m.trace) <= Cardinality(Rules) /\ Cardinality(m.trace) \in Nat
        /\ Cardinality(Rules) \in Nat
      BY Zenon, <1>3, RulesFinite
  <1> HIDE DEF a, mid, m
  <1>6. NextCount(a, mid) \in 1 .. MaxCount
      BY <1>2, <1>3
  <1>7. Answerable(m)
      BY Zenon, <1>2 DEF Answerable
  <1>8. m.gen + 1 <= Cardinality(Rules) + NextCount(a, mid)
    <2>1. CASE Valid(a, mid)
        BY SMTT(30), <2>1, <1>2, <1>3, <1>4, <1>5
    <2>2. CASE ~Valid(a, mid)
        BY <2>2, <1>2, <1>3, <1>4, <1>5
    <2> QED
        BY Zenon, <2>1, <2>2
  <1> QED
      BY Zenon, <1>6, <1>7, <1>8 DEF a, mid, m

\* An Agent's automatic reply is claimed, with a count one higher.
LEMMA ReplyStep ==
  ASSUME IInv, NEW e \in DOMAIN emails, Reply(e)
  PROVE  IInv'
  <1> DEFINE x == [email |-> e, key |-> ReplyKey(e),
                   count |-> NextCount(Acct(e), emails[e].mid),
                   mid |-> IF VerifyAny(Acct(e), emails[e].mid)
                           THEN emails[e].mid ELSE 0]
  <1>1. /\ replies' = replies \cup {x} /\ MayContinue(Acct(e), emails[e].mid)
        /\ UNCHANGED <<msgs, wire, emails, jobs, enabled>>
      BY Zenon DEF Reply
  <1>2. /\ x.email = e /\ e \in 1 .. Len(emails) /\ x.mid \in Nat
        /\ x.count = NextCount(Acct(e), emails[e].mid)
      BY Zenon, EmailFacts
  <1> HIDE DEF x
  <1>3. /\ x.count \in 1 .. MaxCount /\ Answerable(msgs[emails[x.email].mid])
        /\ msgs[emails[x.email].mid].gen + 1 <= Cardinality(Rules) + x.count
      BY Zenon, <1>1, <1>2, MayContinueCounted
  <1>4. Kept /\ MsgsInv' /\ WireInv'
      BY Zenon, <1>1, IdleStep
  <1>5. jobs' \in Seq(Job) /\ Len(jobs') = Len(emails') /\ JobsInv'
      BY Zenon, <1>1, <1>4, NoJobStep
  <1>6. RepliesInv'
    <2> SUFFICES ASSUME NEW y \in replies'
                 PROVE  /\ y.email \in 1 .. Len(emails)
                        /\ y.count \in 1 .. MaxCount
                        /\ y.mid \in Nat
                        /\ Answerable(msgs[emails[y.email].mid])
                        /\ msgs[emails[y.email].mid].gen + 1
                             <= Cardinality(Rules) + y.count
        BY Zenon, <1>1 DEF RepliesInv, Answerable
    <2>1. CASE y = x
        BY Zenon, <2>1, <1>2, <1>3
    <2>2. CASE y \in replies
        BY Zenon, <2>2 DEF IInv, RepliesInv
    <2> QED
        BY Zenon, <2>1, <2>2, <1>1
  <1>7. enabled' \subseteq Rules
      BY Zenon, <1>1 DEF IInv, Typed
  <1> QED
      BY Zenon, <1>1, <1>4, <1>5, <1>6, <1>7, Assemble

\* The claimed reply is submitted, or its result is lost.
LEMMA SubmitReplyStep ==
  ASSUME IInv, NEW x \in replies, SubmitReply(x)
  PROVE  IInv'
  <1> DEFINE e == x.email
  <1>1. /\ e \in DOMAIN emails /\ x.count \in 1 .. MaxCount /\ x.mid \in Nat
        /\ Answerable(msgs[emails[e].mid])
        /\ msgs[emails[e].mid].gen + 1 <= Cardinality(Rules) + x.count
      BY DEF IInv, RepliesInv, Typed
  <1>2. UNCHANGED <<emails, jobs, enabled>> /\ replies' \subseteq replies
      BY Zenon DEF SubmitReply
  <1>3. Submit(composeReply(x), {Raw(e).from}) \/ NotSubmitted
      BY Zenon DEF SubmitReply
  <1> HIDE DEF e
  <1>4. /\ Acct(e) \in Accounts /\ emails[e].mid \in Nat /\ e \in Nat
        /\ Raw(e) = msgs[emails[e].mid] /\ Raw(e) \in Msg
        /\ emails[e].mid \in 1 .. Len(msgs)
      BY Zenon, <1>1, EmailFacts
  <1>5. CASE NotSubmitted
    <2>1. UNCHANGED msgs /\ wire' \subseteq wire
        BY Zenon, <1>5 DEF NotSubmitted
    <2>2. Kept /\ MsgsInv' /\ WireInv'
        BY Zenon, <2>1, IdleStep
    <2> QED
        BY Zenon, <1>2, <2>2, NoJobStep, SameEmails, NoReplyStep, Assemble DEF IInv, Typed
  <1>6. CASE Submit(composeReply(x), {Raw(e).from})
    <2>1. Raw(e).from \in Addresses /\ Raw(e).gen \in Nat /\ Acct(e) \in Addresses
        BY Zenon, <1>4, MsgFields DEF Addresses
    <2>2. /\ <<"reply", Acct(e), "mid", x.mid>> \in Why
          /\ <<"reply", Acct(e), "email", e>> \in Why
        BY Zenon, <1>1, <1>4 DEF Why
    <2>3. composeReply(x) \in Msg
      <3>1. /\ Raw(e).gen + 1 \in Nat /\ x.count \in 0 .. MaxCount
            /\ Acct(e) \in Addresses \cup {NoSender}
            /\ Raw(e).from \in Addresses \cup {NoSender}
          BY <1>1, <2>1
      <3>2. (IF x.mid # 0 THEN <<"reply", Acct(e), "mid", x.mid>>
                          ELSE <<"reply", Acct(e), "email", e>>) \in Why
          BY Zenon, <2>2
      <3> QED
          BY ZenonT(60), <1>4, <2>1, <3>1, <3>2, MsgIntro DEF composeReply, e
    <2>4. Counted(composeReply(x)) /\ composeReply(x).parent = emails[e].mid
      <3>1. /\ composeReply(x).gen = Raw(e).gen + 1
            /\ composeReply(x).count = x.count /\ composeReply(x).trace = {}
            /\ composeReply(x).auto /\ composeReply(x).parent = emails[e].mid
          BY Zenon DEF composeReply, e
      <3>2. composeReply(x).why[1] = "reply"
          BY Zenon DEF composeReply
      <3>3. composeReply(x).gen <= Cardinality(Rules) + composeReply(x).count
          BY Zenon, <1>1, <1>4, <3>1
      <3>4. composeReply(x).count > 0
          BY <1>1, <3>1
      <3> QED
          BY Zenon, <3>1, <3>2, <3>3, <3>4 DEF Counted
    <2>5. Kept /\ MsgsInv' /\ WireInv'
        BY Zenon, <1>1, <1>4, <1>6, <2>3, <2>4, SubmitStep
    <2> QED
        BY Zenon, <1>2, <2>5, NoJobStep, SameEmails, NoReplyStep, Assemble DEF IInv, Typed
  <1> QED
      BY ZenonT(60), <1>3, <1>5, <1>6

\* The steps that only change a rule, a window or an expiry.
LEMMA OtherStep ==
  ASSUME IInv, UNCHANGED <<msgs, wire, emails, jobs, replies>>, enabled' \subseteq Rules
  PROVE  IInv'
  BY Zenon, IdleStep, NoJobStep, SameEmails, NoReplyStep, Assemble

\* Every step keeps IInv.
LEMMA NextHolds ==
  ASSUME IInv, VacationInv, [Next]_vars
  PROVE  IInv'
  <1>0. enabled \subseteq Rules
      BY Zenon DEF IInv, Typed
  <1>1. CASE UNCHANGED vars
      BY Zenon, <1>0, <1>1, OtherStep DEF vars
  <1>2. ASSUME NEW from \in Addresses, NEW to \in Accounts, NEW auto \in BOOLEAN,
               Write(from, to, auto)
        PROVE  IInv'
      BY Zenon, <1>2, WriteStep
  <1>3. ASSUME NEW w \in wire, NEW inbox \in BOOLEAN, Deliver(w, inbox)
        PROVE  IInv'
      BY Zenon, <1>3, DeliverStep
  <1>4. ASSUME NEW e \in DOMAIN emails,
               \/ Crash(e) \/ Respond(e) \/ SubmitVacation(e)
        PROVE  IInv'
      BY Zenon, <1>4, CrashStep, RespondStep, SubmitVacationStep
  <1>5. ASSUME NEW e \in DOMAIN emails,
               \/ Process(e) \/ reserveExecution(e) \/ SubmitForward(e)
               \/ finishExecution(e) \/ ProcessAgain(e)
        PROVE  IInv'
      BY Zenon, <1>5, ProcessStep, reserveExecutionStep, SubmitForwardStep,
         finishExecutionStep, ProcessAgainStep
  <1>6. ASSUME NEW e \in DOMAIN emails, Reply(e) PROVE IInv'
      BY Zenon, <1>6, ReplyStep
  <1>7. ASSUME NEW x \in replies, SubmitReply(x) PROVE IInv'
      BY Zenon, <1>7, SubmitReplyStep
  <1>8. ASSUME NEW k \in DOMAIN vacSent, WindowPasses(k[1], k[2]) PROVE IInv'
      BY Zenon, <1>0, <1>8, OtherStep DEF WindowPasses
  <1>9. ASSUME NEW r \in Rules, ToggleRule(r) PROVE IInv'
      BY Zenon, <1>0, <1>9, OtherStep DEF ToggleRule
  <1>10. ASSUME NEW mid \in DOMAIN msgs, Expire(mid) PROVE IInv'
      BY Zenon, <1>0, <1>10, OtherStep DEF Expire
  <1> QED
      BY ZenonT(60), <1>1, <1>2, <1>3, <1>4, <1>5, <1>6, <1>7, <1>8, <1>9, <1>10 DEF Next

\* VacationInv, which is inductive by itself.
LEMMA VacationHolds ==
  /\ Init => VacationInv
  /\ VacationInv /\ [Next]_vars => VacationInv'
  <1>1. Init => VacationInv
      BY DEF Init, VacationInv
  <1>2. ASSUME VacationInv, NEW a, NEW s, NEW v \in [n: Nat, open: BOOLEAN],
               SetWindow(a, s, v)
        PROVE  VacationInv'
      BY Zenon, <1>2 DEF VacationInv, SetWindow
  <1>3. ASSUME VacationInv, NEW e, Respond(e) PROVE VacationInv'
    <2>1. CASE UNCHANGED vacSent
        BY Zenon, <1>3, <2>1 DEF VacationInv
    <2>2. CASE VacationShouldReply(Acct(e), Raw(e).sender)
      <3> DEFINE v == [n |-> Window(Acct(e), Raw(e).sender).n + 1, open |-> TRUE]
      <3>1. v \in [n: Nat, open: BOOLEAN]
          BY <1>3, WindowType
      <3>2. SetWindow(Acct(e), Raw(e).sender, v)
          BY Zenon, <2>2 DEF VacationShouldReply
      <3> HIDE DEF v
      <3> QED
          BY Zenon, <1>2, <1>3, <3>1, <3>2
    <2> QED
        BY Zenon, <1>3, <2>1, <2>2 DEF Respond
  <1>4. ASSUME VacationInv, NEW a, NEW s, WindowPasses(a, s) PROVE VacationInv'
    <2> DEFINE v == [Window(a, s) EXCEPT !.open = FALSE]
    <2>1. v \in [n: Nat, open: BOOLEAN]
        BY Zenon, <1>4, WindowType
    <2>2. SetWindow(a, s, v)
        BY Zenon, <1>4 DEF WindowPasses
    <2> HIDE DEF v
    <2> QED
        BY Zenon, <1>2, <1>4, <2>1, <2>2
  <1>5. ASSUME VacationInv, UNCHANGED vacSent PROVE VacationInv'
      BY Zenon, <1>5 DEF VacationInv
  <1>6. [Next]_vars => \/ UNCHANGED vacSent
                      \/ \E e : Respond(e)
                      \/ \E a, s : WindowPasses(a, s)
      BY Zenon DEF Next, vars, Write, Deliver, Crash, SubmitVacation, Process,
         reserveExecution, SubmitForward, finishExecution, ProcessAgain, Reply,
         SubmitReply, ToggleRule, Expire
  <1> QED
      BY Zenon, <1>1, <1>3, <1>4, <1>5, <1>6
-----------------------------------------------------------------------------
(* The theorems. *)

\* IInv and VacationInv hold in every state.
LEMMA Always == Spec => [](IInv /\ VacationInv)
  <1>1. Init => IInv /\ VacationInv
      BY Zenon, InitHolds, VacationHolds
  <1>2. IInv /\ VacationInv /\ [Next]_vars => (IInv /\ VacationInv)'
      BY Zenon, NextHolds, VacationHolds
  <1> QED
      BY <1>1, <1>2, PTL DEF Spec

\* What IInv says about one message.
LEMMA MessageFacts ==
  ASSUME IInv, NEW i \in DOMAIN msgs
  PROVE  i \in 1 .. Len(msgs) /\ msgs[i] \in Msg /\ Counted(msgs[i])
  <1>1. msgs \in Seq(Msg) /\ i \in 1 .. Len(msgs)
      BY Zenon, SeqFacts DEF IInv, Typed
  <1> QED
      BY Zenon, <1>1, SeqFacts DEF IInv, MsgsInv

\* For any rules, responders and Agents: the signed trace and the signed count of
\* a message (composeForward, Chain.next, buildReply) account for every automatic
\* step behind it.
THEOREM StepsAreCounted == Spec => []StepsCounted
  <1>1. IInv => StepsCounted
      BY Zenon, MessageFacts DEF StepsCounted, Counted
  <1> QED
      BY <1>1, Always, PTL

\* For any rules, responders and Agents, however often mail is delivered again,
\* signatures expire or submissions fail: mail the server writes by itself dies
\* out after as many steps as there are rules and counted replies (blockedCode,
\* Chain.next, Respond).
THEOREM MailLoopsEnd == Spec => []LoopsEnd
  <1>1. ASSUME IInv, NEW i \in DOMAIN msgs
        PROVE  msgs[i].gen <= Cardinality(Rules) + MaxCount
    <2> DEFINE m == msgs[i]
    <2>1. m \in Msg /\ Counted(m)
        BY Zenon, <1>1, MessageFacts
    <2>2. /\ m.trace \in SUBSET Rules /\ m.count \in 0 .. MaxCount /\ m.gen \in Nat
          /\ MaxCount \in Nat \ {0}
        BY Zenon, <2>1, MsgFields, MaxCountAssumption
    <2>3. /\ Cardinality(m.trace) \in Nat /\ Cardinality(Rules) \in Nat
          /\ Cardinality(m.trace) <= Cardinality(Rules)
        BY Zenon, <2>2, RulesFinite
    <2> HIDE DEF m
    <2>4. m.gen <= Cardinality(Rules) + MaxCount
        BY SMTT(30), <2>1, <2>2, <2>3 DEF Counted
    <2> QED
        BY Zenon, <2>4 DEF m
  <1>2. IInv => LoopsEnd
      BY Zenon, <1>1 DEF LoopsEnd
  <1> QED
      BY <1>2, Always, PTL

\* Nothing answers or forwards automatically what neither a mail rule nor a
\* counted reply of this server marked (isAutoGenerated, blockedCode,
\* BlocksAutomaticReply), whatever is edited, expires or fails meanwhile.
THEOREM AutomaticIsNotAnswered == Spec => []NeverAnswersAutomatic
  <1>1. ASSUME IInv PROVE NeverAnswersAutomatic
    <2> SUFFICES ASSUME NEW i \in DOMAIN msgs, msgs[i].parent # 0
                 PROVE  Answerable(msgs[msgs[i].parent])
        BY Zenon DEF NeverAnswersAutomatic, Answerable
    <2>1. i \in 1 .. Len(msgs)
        BY Zenon, <1>1, MessageFacts
    <2> QED
        BY Zenon, <1>1, <2>1 DEF IInv, MsgsInv
  <1> QED
      BY <1>1, Always, PTL

\* For any rules, mailboxes, Agents and responders, however deliveries, repeated
\* calls of Process, expiries, edits and failures interleave: no Email, and no
\* trusted forward under several Email ids, is forwarded by a rule or answered by
\* an Agent twice, and no sender gets two vacation replies in a window
\* (reserveExecution, claimAgentSendIntent, VacationShouldReply).
THEOREM AutomaticStepsOnce == Spec => []AutomaticOnce
  <1>1. Init => Once
      BY Zenon, OnceInit
  <1>2. IInv /\ VacationInv /\ Once /\ [Next]_vars /\ IInv' => Once'
      BY Zenon, OnceNext
  <1>3. Once => AutomaticOnce
      BY Zenon DEF Once
  <1> QED
      BY <1>1, <1>2, <1>3, Always, PTL DEF Spec
=============================================================================

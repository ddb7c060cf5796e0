------------------------ MODULE AutoMailOnce_proofs ------------------------
(***************************************************************************)
(* The inductive invariant of AutoMail, and the part of it that shows that *)
(* nothing is forwarded, replied to or answered twice, for any mailboxes,  *)
(* rules, Agents and number of messages.                                   *)
(*                                                                         *)
(* AutomaticOnce is about messages that were written; that no second one   *)
(* follows depends on the rows that a handler takes before it writes.      *)
(* VacationsInv, ClaimsInv and ExecsInv relate the rows of vacation_sent,  *)
(* agent_send_intents and mail_rule_executions to what was written and to  *)
(* what the handlers are about to write.  Each has a lemma for the steps   *)
(* that leave its rows alone and one for every step that does not.  That   *)
(* IInv, which they use, is itself kept is proved in AutoMail_proofs.      *)
(***************************************************************************)
EXTENDS AutoMail, TLAPS

(* The inductive invariant. *)

\* Types, and that Emails and rows of the queue refer to messages that exist.
Typed ==
    /\ msgs \in Seq(Msg)
    /\ emails \in Seq([acct: Accounts, mid: Nat])
    /\ jobs \in Seq(Job)
    /\ Len(jobs) = Len(emails)
    /\ enabled \subseteq Rules
    /\ \A w \in wire : w.mid \in 1 .. Len(msgs)
    /\ \A e \in 1 .. Len(emails) : emails[e].mid \in 1 .. Len(msgs)

\* What the headers of a message say about the steps behind it: StepsCounted, and
\* which of its signatures each kind of message has.
Counted(m) ==
    /\ m.why[1] \in {"person", "vacation", "forward", "reply"}
    /\ m.why[1] = "person" => m.gen = 0 /\ m.trace = {} /\ m.count = 0
    /\ m.why[1] = "vacation" => m.auto /\ m.gen = 1 /\ m.trace = {} /\ m.count = 0
    /\ m.why[1] = "forward" =>
         m.auto /\ m.gen = Cardinality(m.trace) /\ m.trace # {} /\ m.count = 0
    /\ m.why[1] = "reply" =>
         m.auto /\ m.gen <= Cardinality(Rules) + m.count /\ m.trace = {} /\ m.count > 0

\* A message that may be answered automatically.
Answerable(m) == m.auto => m.trace # {} \/ m.count > 0

\* Every message has such headers, and the one it answers may be answered.
MsgsInv ==
    \A i \in 1 .. Len(msgs) :
      /\ Counted(msgs[i])
      /\ msgs[i].parent # 0 =>
           msgs[i].parent \in 1 .. Len(msgs) /\ Answerable(msgs[msgs[i].parent])

\* What a handler knows about its message m when it is about to answer it: the
\* checks it made hold of the message, which never changes.
JobInv(j, m) ==
    /\ j.trusted => m.trace # {}
    /\ j.pc \in {"reserve", "submit", "finish"} => j.todo # {}
    /\ j.pc = "answer" => ~m.auto /\ m.sender # NoSender
    /\ j.pc = "submit" =>
         (m.auto => j.trusted) /\ (j.trusted => Least(j.todo) \notin m.trace)

\* Every handler knows what it has checked.
JobsInv == \A e \in 1 .. Len(jobs) : JobInv(jobs[e], msgs[emails[e].mid])

\* A claimed reply counts the steps that its message will have made.
RepliesInv ==
    \A x \in replies :
      /\ x.email \in 1 .. Len(emails)
      /\ x.count \in 1 .. MaxCount
      /\ x.mid \in Nat
      /\ Answerable(msgs[emails[x.email].mid])
      /\ msgs[emails[x.email].mid].gen + 1 <= Cardinality(Rules) + x.count

\* The rows of vacation_sent; inductive by itself.
VacationInv == \A k \in DOMAIN vacSent : vacSent[k] \in [n: Nat, open: BOOLEAN]

\* The inductive invariant.
IInv == Typed /\ MsgsInv /\ JobsInv /\ RepliesInv

-----------------------------------------------------------------------------
(* Sequences, messages and Emails. *)

\* The elements of a sequence.
LEMMA SeqFacts ==
  ASSUME NEW S, NEW s \in Seq(S)
  PROVE  /\ Len(s) \in Nat /\ DOMAIN s = 1 .. Len(s)
         /\ \A i \in 1 .. Len(s) : s[i] \in S
  OBVIOUS

\* The empty sequence.
LEMMA NoElements == ASSUME NEW S PROVE << >> \in Seq(S) /\ Len(<< >>) = 0
  OBVIOUS

\* A sequence with an element added.
LEMMA AppendFacts ==
  ASSUME NEW S, NEW s \in Seq(S), NEW x \in S
  PROVE  /\ Append(s, x) \in Seq(S) /\ Len(Append(s, x)) = Len(s) + 1
         /\ \A i \in 1 .. Len(s) : Append(s, x)[i] = s[i]
         /\ Append(s, x)[Len(s) + 1] = x
  OBVIOUS

\* A sequence with an element replaced.
LEMMA ExceptFacts ==
  ASSUME NEW S, NEW s \in Seq(S), NEW i \in 1 .. Len(s), NEW x \in S
  PROVE  /\ [s EXCEPT ![i] = x] \in Seq(S) /\ Len([s EXCEPT ![i] = x]) = Len(s)
         /\ \A j \in 1 .. Len(s) : [s EXCEPT ![i] = x][j] = IF j = i THEN x ELSE s[j]
  OBVIOUS

\* The fields of a message that the proofs use.
LEMMA MsgFields ==
  ASSUME NEW m \in Msg
  PROVE  /\ m.trace \in SUBSET Rules /\ m.count \in 0 .. MaxCount
         /\ m.gen \in Nat /\ m.auto \in BOOLEAN /\ m.from \in Addresses
         /\ m.sender \in Addresses \cup {NoSender}
  BY Zenon DEF Msg

\* How many steps the signatures of a message account for.
LEMMA Origin ==
  ASSUME NEW m \in Msg, Counted(m)
  PROVE  /\ ~m.auto => m.gen = 0 /\ m.trace = {}
         /\ m.trace # {} => m.auto /\ m.gen = Cardinality(m.trace)
         /\ m.count > 0 => m.gen <= Cardinality(Rules) + m.count
  BY MsgFields DEF Counted

\* What IInv says about one Email, its message and its handler.
LEMMA EmailFacts ==
  ASSUME IInv, NEW e \in DOMAIN emails
  PROVE  /\ e \in 1 .. Len(emails) /\ e \in 1 .. Len(jobs) /\ e \in Nat
         /\ Acct(e) \in Accounts
         /\ emails[e].mid \in 1 .. Len(msgs) /\ emails[e].mid \in Nat
         /\ Raw(e) = msgs[emails[e].mid]
         /\ Raw(e) \in Msg /\ Counted(Raw(e))
         /\ jobs[e] \in Job /\ JobInv(jobs[e], msgs[emails[e].mid])
  <1>1. /\ emails \in Seq([acct: Accounts, mid: Nat]) /\ msgs \in Seq(Msg)
        /\ jobs \in Seq(Job) /\ Len(jobs) = Len(emails)
        /\ \A k \in 1 .. Len(emails) : emails[k].mid \in 1 .. Len(msgs)
      BY Zenon DEF IInv, Typed
  <1>2. e \in 1 .. Len(emails) /\ e \in 1 .. Len(jobs) /\ e \in Nat
      BY <1>1, SeqFacts
  <1>3. emails[e] \in [acct: Accounts, mid: Nat] /\ jobs[e] \in Job
      BY Zenon, <1>1, <1>2, SeqFacts
  <1>4. msgs[emails[e].mid] \in Msg
      BY Zenon, <1>1, <1>2, SeqFacts
  <1>5. Counted(msgs[emails[e].mid])
      BY Zenon, <1>1, <1>2 DEF IInv, MsgsInv
  <1>6. JobInv(jobs[e], msgs[emails[e].mid])
      BY Zenon, <1>2 DEF IInv, JobsInv
  <1> QED
      BY Zenon, <1>1, <1>2, <1>3, <1>4, <1>5, <1>6 DEF Acct, Raw

\* A window of vacation_sent has a number, also one that has not begun.
LEMMA WindowType ==
  ASSUME VacationInv, NEW a, NEW s
  PROVE  Window(a, s) \in [n: Nat, open: BOOLEAN]
  BY Zenon DEF VacationInv, Window

-----------------------------------------------------------------------------
\* What the messages so far were written for.
Written == {msgs[i].why : i \in 1 .. Len(msgs)}

\* What the vacation reply that the handler of e is about to submit is for.
VacationWhy(e) == <<"vacation", Acct(e), Raw(e).sender, jobs[e].window>>

\* A vacation reply, written or about to be, has the number of a window that has
\* begun, and no two of them share one.
VacationsInv ==
    /\ \A w \in Written : w[1] = "vacation" => w[4] <= Window(w[2], w[3]).n
    /\ \A e \in 1 .. Len(jobs) : jobs[e].pc = "answer" =>
         /\ jobs[e].window <= Window(Acct(e), Raw(e).sender).n
         /\ VacationWhy(e) \notin Written
    /\ \A e, f \in 1 .. Len(jobs) :
         /\ jobs[e].pc = "answer" /\ jobs[f].pc = "answer"
         /\ VacationWhy(e) = VacationWhy(f)
         => e = f

\* What the claimed reply x is for.
ReplyWhy(x) == <<"reply", Acct(x.email), x.key[1], x.key[2]>>

\* A reply, written or claimed, has its row in agent_send_intents; a claimed one has
\* it to itself.
ClaimsInv ==
    /\ \A w \in Written :
         w[1] = "reply" => [acct |-> w[2], key |-> <<w[3], w[4]>>] \in intents
    /\ \A x \in replies :
         /\ x.key = IF x.mid # 0 THEN <<"mid", x.mid>> ELSE <<"email", x.email>>
         /\ Intent(x) \in intents
         /\ ReplyWhy(x) \notin Written
    /\ \A x, y \in replies : Intent(x) = Intent(y) => x = y

\* What the forward of the row x of mail_rule_executions is for: a trusted
\* forward is known by its message, any other mail by its Email.
ForwardWhy(x) == IF x.mid # 0 THEN <<"forward", x.rule, "mid", x.mid>>
                              ELSE <<"forward", x.rule, "email", x.email>>

\* The row x of mail_rule_executions has not led to a forward yet and still may.
Unsent(x) ==
    \/ x.status = "failed"
    \/ /\ Current(x.email) = x.rule
       /\ \/ jobs[x.email].pc = "submit"
          \/ jobs[x.email].pc = "finish" /\ jobs[x.email].result = "failed"

\* The column status.
Statuses == {"none", "matched", "loop_blocked", "queued", "failed", "unknown",
             "compose_failed"}

\* The rows of mail_rule_executions.
ExecRow == [rule: {Least(S) : S \in SUBSET Rules}, email: Nat, mid: Nat, status: Statuses]

\* A row leads to one forward: each forward has its row, no two rows are for the same
\* forward, a row that still may lead to one has not yet, and a handler that is to
\* forward has its row.
ExecsInv ==
    /\ execs \subseteq ExecRow
    /\ \A x \in execs :
         /\ x.email \in 1 .. Len(emails)
         /\ x.mid \in {0, emails[x.email].mid}
         /\ x.status # "loop_blocked" => (x.mid # 0 <=> Raw(x.email).auto)
         /\ Unsent(x) => ForwardWhy(x) \notin Written
    /\ \A x, y \in execs : x.rule = y.rule /\ x.email = y.email => x = y
    /\ \A x, y \in execs : ForwardWhy(x) = ForwardWhy(y) => x = y
    /\ \A w \in Written : w[1] = "forward" => \E x \in execs : ForwardWhy(x) = w
    /\ \A e \in 1 .. Len(jobs) : jobs[e].pc \in {"submit", "finish"} =>
         \E x \in execs : x.rule = Current(e) /\ x.email = e /\ x.status = "matched"

\* The inductive invariant of AutomaticOnce, relative to IInv.
Once == AutomaticOnce /\ VacationsInv /\ ClaimsInv /\ ExecsInv
-----------------------------------------------------------------------------
\* At first nothing is written.
LEMMA OnceInit == Init => Once
  <1> SUFFICES ASSUME Init PROVE Once
      BY Zenon
  <1>1. /\ Len(msgs) = 0 /\ Len(jobs) = 0 /\ execs = {} /\ replies = {} /\ DOMAIN msgs = {}
      BY NoElements DEF Init
  <1>2. Written = {}
      BY <1>1 DEF Written
  <1> QED
      BY <1>1, <1>2 DEF Once, AutomaticOnce, WrittenOnce, VacationsInv, ClaimsInv, ExecsInv

\* Messages and Emails are only added.
Grown ==
    /\ Len(msgs) <= Len(msgs') /\ \A i \in 1 .. Len(msgs) : msgs'[i] = msgs[i]
    /\ Len(emails) <= Len(emails') /\ \A e \in 1 .. Len(emails) : emails'[e] = emails[e]

\* No handler enters a step of pcs, or moves within it.
Still(pcs) ==
    \A e \in 1 .. Len(jobs') :
      jobs'[e].pc \in pcs => e \in 1 .. Len(jobs) /\ jobs'[e] = jobs[e]

\* Only messages of this kind are written.
Writes(kind) == \A w \in Written' : w \in Written \/ w[1] = kind

\* A message is written: what it is for is new, or a person wrote it.
LEMMA Appended ==
  ASSUME IInv, IInv', NEW m, NEW tos, Submit(m, tos)
  PROVE  /\ Len(msgs) <= Len(msgs') /\ \A i \in 1 .. Len(msgs) : msgs'[i] = msgs[i]
         /\ Written' = Written \cup {m.why}
         /\ AutomaticOnce /\ (m.why \in Written => m.why[1] = "person") => AutomaticOnce'
  <1>1. /\ msgs \in Seq(Msg) /\ msgs' \in Seq(Msg) /\ Len(msgs) \in Nat
        /\ msgs' = Append(msgs, m)
      BY Zenon, SeqFacts DEF IInv, Typed, Submit
  <1>2. /\ Len(msgs') = Len(msgs) + 1 /\ msgs'[Len(msgs) + 1] = m
        /\ \A i \in 1 .. Len(msgs) : msgs'[i] = msgs[i]
        /\ DOMAIN msgs = 1 .. Len(msgs) /\ DOMAIN msgs' = 1 .. Len(msgs')
      BY <1>1
  <1>3. Written' = Written \cup {m.why}
      BY <1>1, <1>2 DEF Written
  <1>4. ASSUME AutomaticOnce, m.why \in Written => m.why[1] = "person",
               NEW kind \in {"forward", "reply", "vacation"},
               NEW i \in DOMAIN msgs', NEW j \in DOMAIN msgs',
               msgs'[i].why = msgs'[j].why, msgs'[i].why[1] = kind
        PROVE  i = j
      BY <1>1, <1>2, <1>4 DEF AutomaticOnce, WrittenOnce, Written
  <1> QED
      BY <1>1, <1>2, <1>3, <1>4 DEF AutomaticOnce, WrittenOnce

\* No message is written.
LEMMA NothingWritten ==
  ASSUME IInv, UNCHANGED msgs
  PROVE  /\ Len(msgs) <= Len(msgs') /\ \A i \in 1 .. Len(msgs) : msgs'[i] = msgs[i]
         /\ Written' = Written
         /\ AutomaticOnce => AutomaticOnce'
  BY SeqFacts DEF IInv, Typed, Written, AutomaticOnce, WrittenOnce

\* The handler of e moves to j; the others stay.
LEMMA Moved ==
  ASSUME IInv, IInv', NEW e \in DOMAIN emails, NEW j, jobs' = [jobs EXCEPT ![e] = j],
         UNCHANGED emails
  PROVE  /\ Len(jobs') = Len(jobs) /\ e \in 1 .. Len(jobs)
         /\ \A k \in 1 .. Len(jobs) : jobs'[k] = IF k = e THEN j ELSE jobs[k]
         /\ \A pcs : j.pc \notin pcs => Still(pcs)
  <1>1. /\ jobs \in Seq(Job) /\ emails \in Seq([acct: Accounts, mid: Nat])
        /\ Len(jobs) = Len(emails) /\ Len(jobs') = Len(emails')
      BY Zenon DEF IInv, Typed
  <1>2. e \in 1 .. Len(jobs) /\ Len(jobs') = Len(jobs)
        /\ \A k \in 1 .. Len(jobs) : jobs'[k] = IF k = e THEN j ELSE jobs[k]
      BY Zenon, <1>1, SeqFacts
  <1> QED
      BY Zenon, <1>2 DEF Still
-----------------------------------------------------------------------------
\* What an Email says is read from rows that never change.
LEMMA SameMail ==
  ASSUME IInv, Grown, NEW e \in 1 .. Len(emails)
  PROVE  /\ Acct(e)' = Acct(e) /\ Raw(e)' = Raw(e)
         /\ emails'[e] = emails[e] /\ e \in 1 .. Len(emails')
  BY SeqFacts DEF IInv, Typed, Grown, Acct, Raw

\* A step that begins no window and writes no vacation reply.
LEMMA VacationsKept ==
  ASSUME IInv, VacationsInv, Grown, Still({"answer"}),
         \A a, s : Window(a, s)'.n = Window(a, s).n,
         \A w \in Written' : w \in Written \/ w[1] # "vacation"
  PROVE  VacationsInv'
  <1>1. ASSUME NEW e \in 1 .. Len(jobs'), jobs'[e].pc = "answer"
        PROVE  /\ e \in 1 .. Len(jobs) /\ jobs'[e] = jobs[e] /\ jobs[e].pc = "answer"
               /\ Acct(e)' = Acct(e) /\ Raw(e)' = Raw(e)
               /\ VacationWhy(e)' = VacationWhy(e) /\ VacationWhy(e)[1] = "vacation"
    <2>1. e \in 1 .. Len(jobs) /\ jobs'[e] = jobs[e] /\ Len(jobs) = Len(emails)
        BY Zenon, <1>1 DEF Still, IInv, Typed
    <2> QED
        BY Zenon, <1>1, <2>1, SameMail DEF VacationWhy
  <1>2. \A w \in Written' : w[1] = "vacation" => w[4] <= Window(w[2], w[3])'.n
      BY DEF VacationsInv
  <1>3. \A e \in 1 .. Len(jobs') : jobs'[e].pc = "answer" =>
          /\ jobs'[e].window <= Window(Acct(e), Raw(e).sender)'.n
          /\ VacationWhy(e)' \notin Written'
    <2> TAKE e \in 1 .. Len(jobs')
    <2> HAVE jobs'[e].pc = "answer"
    <2>1. Window(Acct(e), Raw(e).sender)'.n = Window(Acct(e), Raw(e).sender).n
        BY <1>1
    <2> QED
        BY <1>1, <2>1 DEF VacationsInv
  <1>4. \A e, f \in 1 .. Len(jobs') :
          /\ jobs'[e].pc = "answer" /\ jobs'[f].pc = "answer"
          /\ VacationWhy(e)' = VacationWhy(f)'
          => e = f
      BY <1>1 DEF VacationsInv
  <1> QED
      BY Zenon, <1>2, <1>3, <1>4 DEF VacationsInv

\* A step that claims and writes no reply.
LEMMA ClaimsKept ==
  ASSUME IInv, ClaimsInv, Grown, UNCHANGED <<replies, intents>>,
         \A w \in Written' : w \in Written \/ w[1] # "reply"
  PROVE  ClaimsInv'
  <1>1. ASSUME NEW x \in replies
        PROVE  /\ ReplyWhy(x)' = ReplyWhy(x) /\ ReplyWhy(x)[1] = "reply"
               /\ Intent(x)' = Intent(x)
      BY Zenon, <1>1, SameMail DEF IInv, RepliesInv, ReplyWhy, Intent
  <1> QED
      BY <1>1 DEF ClaimsInv

\* A step that writes no row of mail_rule_executions and no forward.
LEMMA ExecsKept ==
  ASSUME IInv, ExecsInv, Grown, UNCHANGED execs, Still({"submit", "finish"}),
         Len(jobs') = Len(emails'),
         \A w \in Written' : w \in Written \/ w[1] # "forward"
  PROVE  ExecsInv'
  <1>1. \A x : ForwardWhy(x)[1] = "forward"
      BY Zenon DEF ForwardWhy
  <1>2. ASSUME NEW x \in execs
        PROVE  /\ x.email \in 1 .. Len(emails')
               /\ x.mid \in {0, emails'[x.email].mid}
               /\ x.status # "loop_blocked" => (x.mid # 0 <=> Raw(x.email)'.auto)
               /\ Unsent(x)' => ForwardWhy(x) \notin Written'
    <2>1. /\ emails'[x.email] = emails[x.email] /\ Raw(x.email)' = Raw(x.email)
          /\ x.email \in 1 .. Len(jobs')
        BY Zenon, SameMail DEF ExecsInv
    <2>2. Unsent(x)' => Unsent(x)
        BY Zenon, <2>1 DEF Unsent, Still, Current, Least
    <2> QED
        BY <1>1, <2>1, <2>2 DEF ExecsInv
  <1>3. ASSUME NEW e \in 1 .. Len(jobs'), jobs'[e].pc \in {"submit", "finish"}
        PROVE  \E x \in execs : x.rule = Current(e)' /\ x.email = e /\ x.status = "matched"
    <2>1. e \in 1 .. Len(jobs) /\ jobs'[e] = jobs[e] /\ Current(e)' = Current(e)
        BY Zenon, <1>3 DEF Still, Current, Least
    <2> QED
        BY <1>3, <2>1 DEF ExecsInv
  <1> QED
      BY <1>1, <1>2, <1>3 DEF ExecsInv, ForwardWhy
-----------------------------------------------------------------------------
\* VacationShouldReply and the passing of a window set one window.
LEMMA WindowSet ==
  ASSUME NEW a, NEW s, NEW v, SetWindow(a, s, v), NEW b, NEW t
  PROVE  Window(b, t)' = IF b = a /\ t = s THEN v ELSE Window(b, t)
  BY Zenon DEF SetWindow, Window

\* The window of a written vacation reply has a number.
LEMMA WhyVacation ==
  ASSUME IInv, NEW w \in Written, w[1] = "vacation"
  PROVE  w[4] \in Nat
  <1>0. PICK i \in 1 .. Len(msgs) : w = msgs[i].why
      BY Zenon DEF Written
  <1>1. msgs[i] \in Msg
      BY Zenon, <1>0, SeqFacts DEF IInv, Typed
  <1>2. w \in Why
      BY Zenon, <1>0, <1>1 DEF Msg
  <1> QED
      BY <1>2 DEF Why

\* VacationShouldReply begins a window: its number is new.
LEMMA WindowBegins ==
  ASSUME IInv, IInv', VacationInv, VacationsInv, NEW e \in DOMAIN emails, Respond(e)
  PROVE  VacationsInv'
  <1>1. Grown /\ Written' = Written /\ UNCHANGED emails
      BY NothingWritten DEF Respond, Grown, IInv, Typed
  <1> DEFINE a == Acct(e)
             s == Raw(e).sender
             n == Window(a, s).n + 1
  <1>2. CASE UNCHANGED vacSent /\ jobs' = [jobs EXCEPT ![e].pc = "rules"]
    <2>1. PICK j : j = [jobs[e] EXCEPT !.pc = "rules"]
        BY Zenon
    <2>2. jobs' = [jobs EXCEPT ![e] = j] /\ j.pc = "rules"
        BY Zenon, <1>2, <2>1, EmailFacts DEF Job
    <2>3. Still({"answer"})
        BY Zenon, <1>1, <2>2, Moved
    <2> QED
        BY Zenon, <1>1, <1>2, <2>3, VacationsKept DEF Window
  <1>3. CASE /\ VacationShouldReply(a, s)
             /\ jobs' = [jobs EXCEPT ![e].pc = "answer", ![e].window = n]
    <2>1. PICK j : j = [jobs[e] EXCEPT !.pc = "answer", !.window = n]
        BY Zenon
    <2>2. jobs' = [jobs EXCEPT ![e] = j] /\ j.window = n
        BY Zenon, <1>3, <2>1, EmailFacts DEF Job
    <2>3. /\ Len(jobs') = Len(jobs) /\ e \in 1 .. Len(jobs) /\ Len(jobs) = Len(emails)
          /\ \A k \in 1 .. Len(jobs) : jobs'[k] = IF k = e THEN j ELSE jobs[k]
        BY Zenon, <1>1, <2>2, Moved DEF IInv, Typed
    <2>4. /\ \A b, t : Window(b, t).n \in Nat
          /\ \A b, t : Window(b, t)'.n = IF b = a /\ t = s THEN n ELSE Window(b, t).n
        BY <1>3, WindowSet, WindowType DEF VacationShouldReply
    <2>5. \A k \in 1 .. Len(jobs) : /\ Acct(k)' = Acct(k) /\ Raw(k)' = Raw(k)
                                    /\ jobs[k].window \in Nat
      <3> TAKE k \in 1 .. Len(jobs)
      <3>1. k \in DOMAIN emails
          BY Zenon, <2>3, SeqFacts DEF IInv, Typed
      <3>2. jobs[k] \in Job
          BY Zenon, <3>1, EmailFacts
      <3> QED
          BY Zenon, <1>1, <2>3, <3>2, SameMail DEF Job
    <2>6. \A k \in 1 .. Len(jobs) : VacationWhy(k)' =
            <<"vacation", Acct(k), Raw(k).sender, IF k = e THEN n ELSE jobs[k].window>>
        BY <2>2, <2>3, <2>5 DEF VacationWhy
    <2> HIDE DEF n
    <2>7. n = Window(a, s).n + 1
        BY Zenon DEF n
    <2>8. \A w \in Written : w[1] = "vacation" => w[4] <= Window(w[2], w[3])'.n
        BY <2>4, <2>7, WhyVacation DEF VacationsInv
    <2>9. ASSUME NEW k \in 1 .. Len(jobs), jobs'[k].pc = "answer"
          PROVE  /\ jobs'[k].window <= Window(Acct(k), Raw(k).sender)'.n
                 /\ VacationWhy(k)' \notin Written
      <3>1. CASE k = e
          BY <3>1, <2>2, <2>3, <2>4, <2>5, <2>6, <2>7 DEF VacationsInv
      <3>2. CASE k # e
        <4>1. jobs[k].pc = "answer" /\ jobs'[k] = jobs[k] /\ VacationWhy(k)' = VacationWhy(k)
            BY Zenon, <3>2, <2>3, <2>6, <2>9 DEF VacationWhy
        <4> QED
            BY <4>1, <2>4, <2>5, <2>7 DEF VacationsInv
      <3> QED
          BY Zenon, <3>1, <3>2
    <2>10. ASSUME NEW k \in 1 .. Len(jobs), NEW l \in 1 .. Len(jobs), k # l,
                  jobs'[k].pc = "answer", jobs'[l].pc = "answer"
           PROVE  VacationWhy(k)' # VacationWhy(l)'
      <3>1. ASSUME NEW i \in 1 .. Len(jobs), i # e, jobs'[i].pc = "answer"
            PROVE  VacationWhy(i)' # VacationWhy(e)'
        <4>1. jobs[i].window <= Window(Acct(i), Raw(i).sender).n
            BY Zenon, <3>1, <2>3 DEF VacationsInv
        <4>2. ~(Acct(i) = a /\ Raw(i).sender = s /\ jobs[i].window = n)
            BY <4>1, <2>4, <2>5, <2>7
        <4> QED
            BY <4>2, <3>1, <2>3, <2>6
      <3>2. CASE k # e /\ l # e
          BY Zenon, <3>2, <2>3, <2>6, <2>10 DEF VacationsInv, VacationWhy
      <3> QED
          BY Zenon, <3>1, <3>2, <2>10
    <2> QED
        BY Zenon, <1>1, <2>3, <2>8, <2>9, <2>10 DEF VacationsInv
  <1> QED
      BY Zenon, <1>2, <1>3 DEF Respond

\* A submitted vacation reply uses up its window.
LEMMA WindowUsed ==
  ASSUME IInv, IInv', VacationsInv, NEW e \in DOMAIN emails, SubmitVacation(e)
  PROVE  /\ VacationsInv'
         /\ AutomaticOnce => AutomaticOnce'
         /\ Writes("vacation") /\ Grown /\ Still({"submit", "finish"})
  <1>1. UNCHANGED <<emails, vacSent>> /\ jobs[e].pc = "answer"
      BY Zenon DEF SubmitVacation
  <1>2. PICK j : j = [jobs[e] EXCEPT !.pc = "rules", !.window = 0]
      BY Zenon
  <1>3. jobs' = [jobs EXCEPT ![e] = j] /\ j.pc = "rules"
      BY Zenon, <1>2, EmailFacts DEF SubmitVacation, Job
  <1>4. /\ Still({"submit", "finish"}) /\ Still({"answer"})
        /\ \A k \in 1 .. Len(jobs) : k # e => jobs'[k] = jobs[k]
        /\ e \in 1 .. Len(jobs) /\ jobs'[e].pc = "rules" /\ Len(jobs') = Len(jobs)
    <2>1. j.pc \notin {"submit", "finish"} /\ j.pc \notin {"answer"}
        BY Zenon, <1>3
    <2>2. /\ Len(jobs') = Len(jobs) /\ e \in 1 .. Len(jobs)
          /\ \A k \in 1 .. Len(jobs) : jobs'[k] = IF k = e THEN j ELSE jobs[k]
          /\ Still({"submit", "finish"}) /\ Still({"answer"})
        BY Zenon, <1>1, <1>3, <2>1, Moved
    <2> QED
        BY Zenon, <1>3, <2>2
  <1>5. CASE NotSubmitted
    <2>1. Grown /\ Written' = Written /\ (AutomaticOnce => AutomaticOnce')
        BY <1>1, <1>5, NothingWritten DEF NotSubmitted, Grown, IInv, Typed
    <2> QED
        BY Zenon, <1>1, <1>4, <2>1, VacationsKept DEF Window, Writes
  <1>6. CASE Submit(buildReply(e), {Raw(e).sender})
    <2>1. buildReply(e).why = VacationWhy(e)
        BY Zenon DEF buildReply, VacationWhy
    <2>2. VacationWhy(e) \notin Written /\ VacationWhy(e)[1] = "vacation"
        BY Zenon, <1>1, <1>4 DEF VacationsInv, VacationWhy
    <2>3. /\ Grown /\ Written' = Written \cup {VacationWhy(e)}
          /\ AutomaticOnce => AutomaticOnce'
        BY SMTT(30), <1>1, <1>6, <2>1, <2>2, Appended DEF Grown, IInv, Typed
    <2>4. \A k \in 1 .. Len(jobs) : Acct(k)' = Acct(k) /\ Raw(k)' = Raw(k)
        BY Zenon, <2>3, SameMail DEF IInv, Typed
    <2>5. \A k \in 1 .. Len(jobs) : jobs'[k].pc = "answer" =>
            /\ k # e /\ jobs'[k] = jobs[k] /\ VacationWhy(k)' = VacationWhy(k)
            /\ VacationWhy(k) # VacationWhy(e)
        BY Zenon, <1>1, <1>4, <2>4 DEF VacationsInv, VacationWhy
    <2>6. /\ \A a, s : Window(a, s)' = Window(a, s)
          /\ VacationWhy(e)[4] <= Window(VacationWhy(e)[2], VacationWhy(e)[3]).n
        BY Zenon, <1>1, <1>4 DEF VacationsInv, VacationWhy, Window
    <2>7. VacationsInv'
      <3>1. \A w \in Written' : w[1] = "vacation" => w[4] <= Window(w[2], w[3])'.n
          BY Zenon, <2>3, <2>6 DEF VacationsInv
      <3>2. \A k \in 1 .. Len(jobs') : jobs'[k].pc = "answer" =>
              /\ jobs'[k].window <= Window(Acct(k), Raw(k).sender)'.n
              /\ VacationWhy(k)' \notin Written'
          BY SMTT(30), <1>4, <2>3, <2>4, <2>5, <2>6 DEF VacationsInv
      <3>3. \A k, l \in 1 .. Len(jobs') :
              /\ jobs'[k].pc = "answer" /\ jobs'[l].pc = "answer"
              /\ VacationWhy(k)' = VacationWhy(l)'
              => k = l
          BY <1>4, <2>5 DEF VacationsInv
      <3> QED
          BY Zenon, <3>1, <3>2, <3>3 DEF VacationsInv
    <2> QED
        BY Zenon, <1>4, <2>2, <2>3, <2>7 DEF Writes
  <1> QED
      BY Zenon, <1>5, <1>6 DEF SubmitVacation
-----------------------------------------------------------------------------
\* claimAgentSendIntent takes a key that no reply has.
LEMMA ReplyClaimed ==
  ASSUME IInv, IInv', ClaimsInv, NEW e \in DOMAIN emails, Reply(e)
  PROVE  ClaimsInv'
  <1> DEFINE k == ReplyKey(e)
             x == [email |-> e, key |-> k, count |-> NextCount(Acct(e), emails[e].mid),
                   mid |-> IF VerifyAny(Acct(e), emails[e].mid) THEN emails[e].mid ELSE 0]
             int == [acct |-> Acct(e), key |-> k]
  <1>1. /\ replies' = replies \cup {x} /\ intents' = intents \cup {int}
        /\ UNCHANGED <<msgs, emails>> /\ int \notin intents
      BY Zenon DEF Reply
  <1>2. Written' = Written /\ \A y : Intent(y)' = Intent(y) /\ ReplyWhy(y)' = ReplyWhy(y)
      BY Zenon, <1>1 DEF Written, Intent, ReplyWhy, Acct
  <1>3. /\ x.key = IF x.mid # 0 THEN <<"mid", x.mid>> ELSE <<"email", x.email>>
        /\ Intent(x) = int /\ k = <<k[1], k[2]>>
        /\ ReplyWhy(x) = <<"reply", Acct(e), k[1], k[2]>>
      BY EmailFacts DEF Intent, ReplyWhy, ReplyKey
  <1> HIDE DEF x, k
  <1>4. ReplyWhy(x) \notin Written
      BY <1>1, <1>3 DEF ClaimsInv
  <1> HIDE DEF int
  <1>5. \A w \in Written :
          w[1] = "reply" => [acct |-> w[2], key |-> <<w[3], w[4]>>] \in intents'
      BY Zenon, <1>1 DEF ClaimsInv
  <1>6. \A y \in replies' :
          /\ y.key = IF y.mid # 0 THEN <<"mid", y.mid>> ELSE <<"email", y.email>>
          /\ Intent(y) \in intents' /\ ReplyWhy(y) \notin Written
      BY Zenon, <1>1, <1>3, <1>4 DEF ClaimsInv
  <1>7. \A y, z \in replies' : Intent(y) = Intent(z) => y = z
      BY Zenon, <1>1, <1>3 DEF ClaimsInv
  <1> QED
      BY Zenon, <1>2, <1>5, <1>6, <1>7 DEF ClaimsInv

\* What a written reply is for has four parts.
LEMMA WhyReply ==
  ASSUME IInv, NEW w \in Written, w[1] = "reply"
  PROVE  w = <<"reply", w[2], w[3], w[4]>>
  <1>1. PICK i \in 1 .. Len(msgs) : w = msgs[i].why
      BY Zenon DEF Written
  <1>2. msgs[i] \in Msg
      BY Zenon, <1>1, SeqFacts DEF IInv, Typed
  <1>3. w \in Why
      BY Zenon, <1>1, <1>2 DEF Msg
  <1> QED
      BY <1>3 DEF Why

\* Two claimed replies never share a key; a submitted one keeps its row.
LEMMA ReplyUsed ==
  ASSUME IInv, IInv', ClaimsInv, NEW x \in replies, SubmitReply(x)
  PROVE  /\ ClaimsInv'
         /\ AutomaticOnce => AutomaticOnce'
         /\ Writes("reply") /\ Grown
  <1>1. UNCHANGED emails /\ replies' = replies \ {x}
      BY Zenon DEF SubmitReply
  <1>2. \A y : Intent(y)' = Intent(y) /\ ReplyWhy(y)' = ReplyWhy(y)
      BY Zenon, <1>1 DEF Intent, ReplyWhy, Acct
  <1>3. \A y \in replies :
          /\ y.key = <<y.key[1], y.key[2]>>
          /\ Intent(y) = [acct |-> ReplyWhy(y)[2], key |-> <<ReplyWhy(y)[3], ReplyWhy(y)[4]>>]
          /\ ReplyWhy(y)[1] = "reply"
    <2> TAKE y \in replies
    <2>1. y.key = <<"mid", y.mid>> \/ y.key = <<"email", y.email>>
        BY Zenon DEF ClaimsInv
    <2>2. y.key = <<y.key[1], y.key[2]>>
        BY <2>1
    <2> QED
        BY Zenon, <2>2 DEF Intent, ReplyWhy
  <1>4. \A y \in replies' : Intent(y) # Intent(x) /\ ReplyWhy(y) # ReplyWhy(x)
      BY <1>1, <1>3 DEF ClaimsInv
  <1>5. CASE Submit(composeReply(x), {Raw(x.email).from}) /\ UNCHANGED intents
    <2>1. composeReply(x).why = ReplyWhy(x)
      <3>1. x.key = IF x.mid # 0 THEN <<"mid", x.mid>> ELSE <<"email", x.email>>
          BY Zenon DEF ClaimsInv
      <3>2. composeReply(x).why =
              IF x.mid # 0 THEN <<"reply", Acct(x.email), "mid", x.mid>>
                           ELSE <<"reply", Acct(x.email), "email", x.email>>
          BY Zenon DEF composeReply
      <3> QED
          BY <3>1, <3>2 DEF ReplyWhy
    <2>2. ReplyWhy(x) \notin Written
        BY Zenon DEF ClaimsInv
    <2>3. /\ Grown /\ Written' = Written \cup {ReplyWhy(x)}
          /\ AutomaticOnce => AutomaticOnce'
        BY <1>1, <1>5, <2>1, <2>2, Appended DEF Grown, IInv, Typed
    <2>4. ClaimsInv'
        BY Zenon, <1>1, <1>2, <1>3, <1>4, <1>5, <2>3 DEF ClaimsInv
    <2> QED
        BY Zenon, <1>3, <2>3, <2>4 DEF Writes
  <1>6. CASE NotSubmitted /\ intents' \in {intents, intents \ {Intent(x)}}
    <2>1. Grown /\ Written' = Written /\ (AutomaticOnce => AutomaticOnce')
        BY <1>1, <1>6, NothingWritten DEF NotSubmitted, Grown, IInv, Typed
    <2>2. \A w \in Written : w[1] = "reply" =>
            [acct |-> w[2], key |-> <<w[3], w[4]>>] # Intent(x)
      <3> TAKE w \in Written
      <3> HAVE w[1] = "reply"
      <3>1. w = <<"reply", w[2], w[3], w[4]>> /\ w # ReplyWhy(x)
          BY Zenon, WhyReply DEF ClaimsInv
      <3>2. x.key = <<w[3], w[4]>> => x.key[1] = w[3] /\ x.key[2] = w[4]
          BY SMTT(30)
      <3> QED
          BY Zenon, <3>1, <3>2 DEF ReplyWhy, Intent
    <2>3. ClaimsInv'
        BY Zenon, <1>1, <1>2, <1>4, <1>6, <2>1, <2>2 DEF ClaimsInv
    <2> QED
        BY Zenon, <2>1, <2>3 DEF Writes
  <1> QED
      BY Zenon, <1>5, <1>6 DEF SubmitReply
-----------------------------------------------------------------------------
\* The handler of e writes the row y of the rule it is at, and moves to j.
LEMMA RowWritten ==
  ASSUME IInv, IInv', ExecsInv, UNCHANGED <<msgs, emails>>, NEW e \in DOMAIN emails,
         NEW j, jobs' = [jobs EXCEPT ![e] = j], j.pc # "finish",
         NEW r, NEW y \in ExecRow, y.rule = r, y.email = e,
         y.mid \in {0, emails[e].mid},
         execs' = (execs \ Executions(r, e)) \cup {y},
         \A x \in Executions(r, e) : ForwardWhy(x) = ForwardWhy(y),
         \A x \in execs \ Executions(r, e) : ForwardWhy(x) # ForwardWhy(y),
         y.status # "loop_blocked" => (y.mid # 0 <=> Raw(e).auto),
         y.status = "failed" \/ j.pc = "submit" => ForwardWhy(y) \notin Written,
         j.pc = "submit" => Least(j.todo) = r /\ y.status = "matched"
  PROVE  ExecsInv'
  <1>1. /\ Len(jobs') = Len(jobs) /\ e \in 1 .. Len(jobs) /\ Len(jobs) = Len(emails)
        /\ \A k \in 1 .. Len(jobs) : jobs'[k] = IF k = e THEN j ELSE jobs[k]
      BY ZenonT(60), Moved DEF IInv, Typed
  <1>2. Written' = Written /\ \A k : Raw(k)' = Raw(k)
      BY Zenon DEF Written, Raw
  <1>3. \A k \in 1 .. Len(jobs) : k # e => Current(k)' = Current(k)
      BY Zenon, <1>1 DEF Current, Least
  <1>4. Current(e)' = Least(j.todo)
      BY Zenon, <1>1 DEF Current, Least
  <1>5. \A x \in execs' : x = y \/ (x \in execs /\ ~(x.rule = y.rule /\ x.email = e))
      BY Zenon DEF Executions
  <1>6. ASSUME NEW x \in execs', x # y
        PROVE  Unsent(x)' => Unsent(x)
      BY <1>1, <1>3, <1>4, <1>5, <1>6 DEF Unsent, ExecsInv
  <1>7. Unsent(y)' => ForwardWhy(y) \notin Written
      BY Zenon, <1>1, <1>4 DEF Unsent
  <1>8. \A x \in execs' :
          /\ x.email \in 1 .. Len(emails') /\ x.mid \in {0, emails'[x.email].mid}
          /\ x.status # "loop_blocked" => (x.mid # 0 <=> Raw(x.email)'.auto)
          /\ Unsent(x)' => ForwardWhy(x) \notin Written'
      BY Zenon, <1>1, <1>2, <1>5, <1>6, <1>7 DEF ExecsInv
  <1>9. \A x, z \in execs' : /\ x.rule = z.rule /\ x.email = z.email => x = z
                             /\ ForwardWhy(x) = ForwardWhy(z) => x = z
      BY SMTT(30), <1>5 DEF ExecsInv
  <1>10. \A w \in Written' : w[1] = "forward" => \E x \in execs' : ForwardWhy(x) = w
      BY <1>2 DEF ExecsInv
  <1>11. ASSUME NEW k \in 1 .. Len(jobs'), jobs'[k].pc \in {"submit", "finish"}
         PROVE  \E x \in execs' : x.rule = Current(k)' /\ x.email = k /\ x.status = "matched"
    <2>1. CASE k = e
        BY Zenon, <2>1, <1>1, <1>4, <1>11
    <2>2. CASE k # e
      <3>1. PICK x \in execs : x.rule = Current(k) /\ x.email = k /\ x.status = "matched"
          BY SMTT(30), <2>2, <1>1, <1>11 DEF ExecsInv
      <3> QED
          BY SMTT(30), <2>2, <3>1, <1>3 DEF Executions
    <2> QED
        BY Zenon, <2>1, <2>2
  <1>12. execs' \subseteq ExecRow
      BY Zenon DEF ExecsInv
  <1>13. \A x : ForwardWhy(x)' = ForwardWhy(x)
      BY Zenon DEF ForwardWhy
  <1> QED
      BY SMTT(30), <1>8, <1>9, <1>10, <1>11, <1>12, <1>13 DEF ExecsInv

\* A row gets a new status and stays the row of the same forward.
LEMMA StatusSet ==
  ASSUME ExecsInv, NEW r, NEW e, NEW st \in Statuses, SetStatus(r, e, st),
         NEW x \in execs, x.rule = r, x.email = e
  PROVE  \E y \in ExecRow :
           /\ y.rule = r /\ y.email = e /\ y.mid = x.mid /\ y.status = st
           /\ execs' = (execs \ Executions(r, e)) \cup {y}
           /\ ForwardWhy(y) = ForwardWhy(x)
           /\ \A z \in Executions(r, e) : ForwardWhy(z) = ForwardWhy(y)
           /\ \A z \in execs \ Executions(r, e) : ForwardWhy(z) # ForwardWhy(y)
  <1>1. x \in ExecRow /\ Executions(r, e) = {x}
      BY Zenon DEF ExecsInv, Executions
  <1>2. PICK y : y = [x EXCEPT !.status = st]
      BY Zenon
  <1>3. y \in ExecRow /\ y.rule = r /\ y.email = e /\ y.mid = x.mid /\ y.status = st
      BY Zenon, <1>1, <1>2 DEF ExecRow
  <1>4. execs' = (execs \ Executions(r, e)) \cup {y}
      BY Zenon, <1>1, <1>2 DEF SetStatus
  <1>5. ForwardWhy(y) = ForwardWhy(x)
      BY Zenon, <1>3 DEF ForwardWhy
  <1>6. \A z \in execs : ForwardWhy(z) = ForwardWhy(x) => z = x
      BY Zenon DEF ExecsInv
  <1> QED
      BY Zenon, <1>1, <1>3, <1>4, <1>5, <1>6

\* Where the loop of Process goes on.
LEMMA ContinuesAt ==
  ASSUME IInv, NEW e \in DOMAIN emails
  PROVE  Continue(e).pc \in {"reserve", "done"}
  <1>1. PICK k : k = [jobs[e] EXCEPT !.todo = jobs[e].todo \ {Current(e)}]
      BY Zenon
  <1>0. jobs[e] \in Job
      BY Zenon, EmailFacts
  <1>2. k \in Job
      BY Zenon, <1>0, <1>1 DEF Job
  <1>3. Continue(e) = AfterRule(k)
      BY Zenon, <1>1 DEF Continue
  <1> QED
      BY <1>2, <1>3 DEF AfterRule, Idle, Job

\* A rule forwards a trusted forward, and nothing else that is automatic.
LEMMA TrustedIsAutomatic ==
  ASSUME IInv, NEW e \in DOMAIN emails
  PROVE  /\ jobs[e].trusted => Raw(e).auto
         /\ jobs[e].trusted \in BOOLEAN /\ Raw(e).auto \in BOOLEAN
         /\ jobs[e].pc = "submit" => (jobs[e].trusted <=> Raw(e).auto)
  <1>1. /\ jobs[e] \in Job /\ JobInv(jobs[e], Raw(e))
        /\ Raw(e) \in Msg /\ Counted(Raw(e))
      BY Zenon, EmailFacts
  <1>2. Raw(e).trace # {} => Raw(e).auto
      BY Zenon, <1>1, Origin
  <1> QED
      BY Zenon, <1>1, <1>2 DEF JobInv, Job, Msg

\* The handler moves on without a row.
LEMMA NoRow ==
  ASSUME IInv, IInv', ExecsInv, UNCHANGED <<msgs, emails, execs>>,
         NEW e \in DOMAIN emails, NEW j, jobs' = [jobs EXCEPT ![e] = j],
         j.pc \notin {"submit", "finish"}
  PROVE  ExecsInv'
  <1>1. Grown /\ Written' = Written
      BY NothingWritten DEF Grown, IInv, Typed
  <1>2. Still({"submit", "finish"})
      BY Zenon, Moved
  <1> QED
      BY Zenon, <1>1, <1>2, ExecsKept DEF IInv, Typed

\* reserveExecution inserts a row that no forward has, or takes a failed one again.
LEMMA RowReserved ==
  ASSUME IInv, IInv', ExecsInv, NEW e \in DOMAIN emails, reserveExecution(e)
  PROVE  ExecsInv'
  <1> DEFINE r == Current(e)
             status == IF blocked(r, e) THEN "loop_blocked" ELSE "matched"
             j == IF blocked(r, e) THEN Continue(e) ELSE [jobs[e] EXCEPT !.pc = "submit"]
  <1>1. /\ UNCHANGED <<msgs, emails>> /\ jobs[e].pc = "reserve"
        /\ jobs[e] \in Job /\ emails[e].mid \in 1 .. Len(msgs) /\ emails[e].mid \in Nat
        /\ e \in Nat /\ r \in {Least(S) : S \in SUBSET Rules}
      BY Zenon, EmailFacts DEF reserveExecution, Current, Job
  <1>2. CASE UNCHANGED execs /\ jobs' = [jobs EXCEPT ![e] = Continue(e)]
      BY Zenon, <1>1, <1>2, ContinuesAt, NoRow
  <1>3. /\ blocked(r, e) => j.pc \in {"reserve", "done"}
        /\ ~blocked(r, e) => j.pc = "submit" /\ Least(j.todo) = r
      BY Zenon, <1>1, ContinuesAt DEF Job, Current
  <1>4. blocked(r, e) \/ (Raw(e).auto <=> jobs[e].trusted)
      BY Zenon, TrustedIsAutomatic DEF blocked
  <1>0. /\ status \in Statuses /\ j.pc # "finish"
        /\ blocked(r, e) => status = "loop_blocked"
        /\ ~blocked(r, e) => status = "matched"
    <2>1. "loop_blocked" \in Statuses /\ "matched" \in Statuses
        BY Zenon DEF Statuses
    <2>2. j.pc # "finish"
      <3> HIDE DEF j
      <3> QED
          BY Zenon, <1>3
    <2> QED
        BY Zenon, <2>1, <2>2
  <1> HIDE DEF status, j, r
  <1>5. CASE /\ Executions(r, e) = {} /\ Reserved(r, e)
             /\ execs' = execs \cup {Execution(r, e, status)}
             /\ jobs' = [jobs EXCEPT ![e] = j]
    <2>0. PICK y : y = Execution(r, e, status)
        BY Zenon
    <2>1. /\ y.rule = r /\ y.email = e /\ y.status = status /\ y \in ExecRow
          /\ y.mid = IF jobs[e].trusted THEN emails[e].mid ELSE 0
        BY Zenon, <1>0, <1>1, <2>0, TrustedIsAutomatic DEF Execution, ExecRow
    <2>2. ASSUME NEW x \in execs PROVE ForwardWhy(x) # ForwardWhy(y)
      <3>1. x.rule # r \/ x.email # e
          BY Zenon, <1>5 DEF Executions
      <3>2. jobs[e].trusted => ~(x.rule = r /\ x.mid = emails[e].mid /\ x.email # e)
          BY Zenon, <1>5, <2>2 DEF Reserved, Replayed
      <3> QED
          BY Zenon, <1>1, <2>1, <3>1, <3>2 DEF ForwardWhy
    <2>3. ForwardWhy(y) \notin Written
      <3>1. ForwardWhy(y)[1] = "forward"
          BY Zenon DEF ForwardWhy
      <3> QED
          BY Zenon, <2>2, <3>1 DEF ExecsInv
    <2>4. /\ y.mid \in {0, emails[e].mid}
          /\ execs' = (execs \ Executions(r, e)) \cup {y}
          /\ \A x \in Executions(r, e) : ForwardWhy(x) = ForwardWhy(y)
          /\ \A x \in execs \ Executions(r, e) : ForwardWhy(x) # ForwardWhy(y)
          /\ y.status # "loop_blocked" => (y.mid # 0 <=> Raw(e).auto)
          /\ j.pc = "submit" => Least(j.todo) = r /\ y.status = "matched"
        BY <1>0, <1>1, <1>3, <1>4, <1>5, <2>0, <2>1, <2>2
    <2> QED
        BY ZenonT(60), <1>0, <1>1, <1>5, <2>1, <2>3, <2>4, RowWritten
  <1>6. CASE /\ Executions(r, e) # {} /\ Reserved(r, e) /\ SetStatus(r, e, status)
             /\ jobs' = [jobs EXCEPT ![e] = j]
    <2>1. PICK x \in execs : x.rule = r /\ x.email = e /\ x.status = "failed"
        BY Zenon, <1>6 DEF Reserved, Executions, Reclaims
    <2>2. ~blocked(r, e) /\ "matched" \in Statuses /\ SetStatus(r, e, "matched")
        BY Zenon, <1>0, <1>6 DEF Reserved, Statuses
    <2>3. PICK y \in ExecRow :
            /\ y.rule = r /\ y.email = e /\ y.mid = x.mid /\ y.status = "matched"
            /\ execs' = (execs \ Executions(r, e)) \cup {y}
            /\ ForwardWhy(y) = ForwardWhy(x)
            /\ \A z \in Executions(r, e) : ForwardWhy(z) = ForwardWhy(y)
            /\ \A z \in execs \ Executions(r, e) : ForwardWhy(z) # ForwardWhy(y)
        BY <2>1, <2>2, StatusSet
    <2>4. /\ ForwardWhy(x) \notin Written /\ x.mid \in {0, emails[e].mid}
          /\ x.mid # 0 <=> Raw(e).auto
        BY Zenon, <2>1 DEF ExecsInv, Unsent
    <2> QED
        BY ZenonT(60), <1>0, <1>1, <1>3, <1>6, <2>2, <2>3, <2>4, RowWritten
  <1> QED
      BY Zenon, <1>2, <1>5, <1>6 DEF reserveExecution, status, j, r

\* finishExecution settles the row its handler holds.
LEMMA RowFinished ==
  ASSUME IInv, IInv', ExecsInv, NEW e \in DOMAIN emails, finishExecution(e)
  PROVE  ExecsInv'
  <1>1. /\ UNCHANGED <<msgs, emails>> /\ jobs[e].pc = "finish"
        /\ jobs' = [jobs EXCEPT ![e] = Continue(e)]
      BY Zenon DEF finishExecution
  <1>2. Continue(e).pc \notin {"submit", "finish"} /\ Continue(e).pc # "finish"
        /\ Continue(e).pc # "submit"
      BY Zenon, ContinuesAt
  <1>3. CASE UNCHANGED execs
      BY Zenon, <1>1, <1>2, <1>3, NoRow
  <1>4. CASE SetStatus(Current(e), e, jobs[e].result)
    <2>1. e \in 1 .. Len(jobs) /\ jobs[e].result \in Statuses
        BY Zenon, EmailFacts DEF Job, Statuses
    <2>2. PICK x \in execs : x.rule = Current(e) /\ x.email = e /\ x.status = "matched"
        BY Zenon, <1>1, <2>1 DEF ExecsInv
    <2>3. PICK y \in ExecRow :
            /\ y.rule = Current(e) /\ y.email = e /\ y.mid = x.mid
            /\ y.status = jobs[e].result
            /\ execs' = (execs \ Executions(Current(e), e)) \cup {y}
            /\ ForwardWhy(y) = ForwardWhy(x)
            /\ \A z \in Executions(Current(e), e) : ForwardWhy(z) = ForwardWhy(y)
            /\ \A z \in execs \ Executions(Current(e), e) : ForwardWhy(z) # ForwardWhy(y)
        BY SMTT(30), <1>4, <2>1, <2>2, StatusSet
    <2>4. /\ y.status = "failed" => ForwardWhy(y) \notin Written
          /\ x.mid \in {0, emails[e].mid} /\ (x.mid # 0 <=> Raw(e).auto)
        BY ZenonT(60), <1>1, <2>2, <2>3 DEF ExecsInv, Unsent
    <2> QED
        BY ZenonT(60), <1>1, <1>2, <2>3, <2>4, RowWritten
  <1> QED
      BY Zenon, <1>3, <1>4 DEF finishExecution

\* SubmitForward writes what the row of its handler was reserved for.
LEMMA RowUsed ==
  ASSUME IInv, IInv', ExecsInv, NEW e \in DOMAIN emails, SubmitForward(e)
  PROVE  /\ ExecsInv'
         /\ AutomaticOnce => AutomaticOnce'
         /\ Writes("forward") /\ Grown /\ Still({"answer"})
  <1>1. UNCHANGED <<emails, execs>> /\ jobs[e].pc = "submit"
      BY Zenon DEF SubmitForward
  <1>2. PICK result \in {"queued", "failed", "unknown", "compose_failed"} :
          /\ jobs' = [jobs EXCEPT ![e].pc = "finish", ![e].result = result]
          /\ \/ /\ result # "failed"
                /\ Submit(composeForward(Current(e), e), Targets[Current(e)])
             \/ NotSubmitted
      BY Zenon DEF SubmitForward
  <1>3. PICK j : j = [jobs[e] EXCEPT !.pc = "finish", !.result = result]
      BY Zenon
  <1>4. /\ jobs' = [jobs EXCEPT ![e] = j] /\ j.pc = "finish" /\ j.result = result
        /\ j.todo = jobs[e].todo /\ j.pc \notin {"answer"}
      BY Zenon, <1>2, <1>3, EmailFacts DEF Job
  <1>5. /\ Len(jobs') = Len(jobs) /\ e \in 1 .. Len(jobs) /\ Len(jobs) = Len(emails)
        /\ \A k \in 1 .. Len(jobs) : jobs'[k] = IF k = e THEN j ELSE jobs[k]
        /\ Still({"answer"})
      BY ZenonT(60), <1>1, <1>4, Moved DEF IInv, Typed
  <1>6. \A k \in 1 .. Len(jobs) : Current(k)' = Current(k)
      BY Zenon, <1>4, <1>5 DEF Current, Least
  <1>7. PICK x \in execs : x.rule = Current(e) /\ x.email = e /\ x.status = "matched"
      BY Zenon, <1>1, <1>5 DEF ExecsInv
  <1>8. /\ ForwardWhy(x) \notin Written /\ ForwardWhy(x)[1] = "forward"
        /\ x.mid \in {0, emails[e].mid} /\ (x.mid # 0 <=> Raw(e).auto)
      BY Zenon, <1>1, <1>7 DEF ExecsInv, Unsent, ForwardWhy
  <1>9. composeForward(Current(e), e).why = ForwardWhy(x)
    <2>1. composeForward(Current(e), e).why =
            IF jobs[e].trusted THEN <<"forward", Current(e), "mid", emails[e].mid>>
                               ELSE <<"forward", Current(e), "email", e>>
        BY Zenon DEF composeForward
    <2>2. jobs[e].trusted <=> x.mid # 0
        BY Zenon, <1>1, <1>8, TrustedIsAutomatic
    <2> QED
        BY Zenon, <1>7, <1>8, <2>1, <2>2 DEF ForwardWhy
  <1>10. /\ Grown /\ (AutomaticOnce => AutomaticOnce')
         /\ Written' = Written \/ (result # "failed" /\ Written' = Written \cup {ForwardWhy(x)})
    <2>1. CASE NotSubmitted
        BY SMTT(30), <1>1, <2>1, NothingWritten DEF NotSubmitted, Grown, IInv, Typed
    <2>2. CASE /\ result # "failed"
               /\ Submit(composeForward(Current(e), e), Targets[Current(e)])
        BY SMTT(30), <1>1, <1>8, <1>9, <2>2, Appended DEF Grown, IInv, Typed
    <2> QED
        BY Zenon, <1>2, <2>1, <2>2
  <1>11. ASSUME NEW y \in execs
         PROVE  /\ y.email \in 1 .. Len(emails') /\ y.mid \in {0, emails'[y.email].mid}
                /\ y.status # "loop_blocked" => (y.mid # 0 <=> Raw(y.email)'.auto)
                /\ Unsent(y)' => ForwardWhy(y) \notin Written'
    <2>1. y.email \in 1 .. Len(emails) /\ Raw(y.email)' = Raw(y.email)
        BY Zenon, <1>10, SameMail DEF ExecsInv
    <2>2. CASE y = x
        BY SMTT(30), <2>1, <2>2, <1>1, <1>4, <1>5, <1>7, <1>8, <1>10 DEF ExecsInv, Unsent
    <2>3. CASE y # x
      <3>1. ForwardWhy(y) # ForwardWhy(x) /\ ~(y.rule = Current(e) /\ y.email = e)
          BY <1>7, <2>3 DEF ExecsInv
      <3>2. Unsent(y)' => Unsent(y)
          BY Zenon, <1>5, <1>6, <2>1, <3>1 DEF Unsent
      <3> QED
          BY SMTT(30), <1>1, <1>10, <2>1, <3>1, <3>2 DEF ExecsInv
    <2> QED
        BY Zenon, <2>2, <2>3
  <1>12. \A w \in Written' : w[1] = "forward" => \E y \in execs : ForwardWhy(y) = w
      BY <1>10 DEF ExecsInv
  <1>13. \A k \in 1 .. Len(jobs') : jobs'[k].pc \in {"submit", "finish"} =>
           \E y \in execs : y.rule = Current(k)' /\ y.email = k /\ y.status = "matched"
      BY <1>5, <1>6, <1>7 DEF ExecsInv
  <1>14. \A y : ForwardWhy(y)' = ForwardWhy(y)
      BY Zenon DEF ForwardWhy
  <1>15. ExecsInv'
      BY Zenon, <1>1, <1>11, <1>12, <1>13, <1>14 DEF ExecsInv
  <1> QED
      BY Zenon, <1>5, <1>8, <1>10, <1>15 DEF Writes
-----------------------------------------------------------------------------
\* A step that reserves, claims and answers nothing.
LEMMA OnceKept ==
  ASSUME IInv, IInv', Once, Grown, Writes("person"), AutomaticOnce',
         Still({"answer"}), Still({"submit", "finish"}),
         \A a, s : Window(a, s)'.n = Window(a, s).n, UNCHANGED <<replies, intents, execs>>
  PROVE  Once'
  <1>1. \A kind \in {"vacation", "reply", "forward"} :
          \A w \in Written' : w \in Written \/ w[1] # kind
      BY Zenon DEF Writes
  <1>2. Len(jobs') = Len(emails')
      BY Zenon DEF IInv, Typed
  <1> QED
      BY Zenon, <1>1, <1>2, VacationsKept, ClaimsKept, ExecsKept DEF Once

\* The handler of e moves to a step that reads.
LEMMA OnceMoved ==
  ASSUME IInv, IInv', Once, NEW e \in DOMAIN emails, NEW j, jobs' = [jobs EXCEPT ![e] = j],
         j.pc \notin {"answer", "submit", "finish"},
         UNCHANGED <<msgs, emails, vacSent, replies, intents, execs>>
  PROVE  Once'
  <1>1. j.pc \notin {"answer"} /\ j.pc \notin {"submit", "finish"}
      BY Zenon
  <1>2. Still({"answer"}) /\ Still({"submit", "finish"})
      BY Zenon, <1>1, Moved
  <1>3. Grown /\ Writes("person") /\ AutomaticOnce'
      BY NothingWritten DEF Grown, Writes, Once, IInv, Typed
  <1>4. \A a, s : Window(a, s)'.n = Window(a, s).n
      BY Zenon DEF Window
  <1> QED
      BY Zenon, <1>2, <1>3, <1>4, OnceKept

\* No handler moves and nothing is claimed.
LEMMA OnceIdle ==
  ASSUME IInv, IInv', Once, UNCHANGED <<emails, jobs, replies, intents, execs>>,
         \A a, s : Window(a, s)'.n = Window(a, s).n,
         \/ UNCHANGED msgs
         \/ \E m, tos : Submit(m, tos) /\ m.why = <<"person">>
  PROVE  Once'
  <1>1. Still({"answer"}) /\ Still({"submit", "finish"})
      BY Zenon DEF Still
  <1>2. CASE UNCHANGED msgs
      BY <1>1, <1>2, NothingWritten, OnceKept DEF Grown, Writes, Once, IInv, Typed
  <1>3. CASE \E m, tos : Submit(m, tos) /\ m.why = <<"person">>
    <2>1. PICK m, tos : Submit(m, tos) /\ m.why = <<"person">>
        BY Zenon, <1>3
    <2>2. Grown /\ Writes("person") /\ AutomaticOnce'
        BY <2>1, Appended DEF Grown, Writes, Once, IInv, Typed
    <2> QED
        BY Zenon, <1>1, <2>2, OnceKept
  <1> QED
      BY Zenon, <1>2, <1>3

\* Every step keeps it.
LEMMA OnceNext ==
  ASSUME IInv, IInv', VacationInv, Once, [Next]_vars
  PROVE  Once'
  <1>0. /\ Len(jobs') = Len(emails') /\ VacationsInv /\ ClaimsInv /\ ExecsInv
        /\ AutomaticOnce
        /\ UNCHANGED vacSent => \A a, s : Window(a, s)'.n = Window(a, s).n
      BY Zenon DEF IInv, Typed, Once, Window
  <1>1. CASE \/ UNCHANGED vars
             \/ \E r \in Rules : ToggleRule(r)
             \/ \E mid \in DOMAIN msgs : Expire(mid)
      BY Zenon, <1>0, <1>1, OnceIdle DEF vars, ToggleRule, Expire
  <1>2. ASSUME NEW a, NEW s, WindowPasses(a, s) PROVE Once'
    <2>1. \A b, t : Window(b, t)'.n = Window(b, t).n
        BY <1>2, WindowType, WindowSet DEF WindowPasses
    <2> QED
        BY Zenon, <1>2, <2>1, OnceIdle DEF WindowPasses
  <1>3. ASSUME NEW from, NEW to, NEW auto, Write(from, to, auto) PROVE Once'
    <2>1. \E m, tos : Submit(m, tos) /\ m.why = <<"person">>
        BY <1>3 DEF Write
    <2> QED
        BY Zenon, <1>0, <1>3, <2>1, OnceIdle DEF Write
  <1>4. ASSUME NEW w, NEW inbox, Deliver(w, inbox) PROVE Once'
    <2> DEFINE j == [Idle EXCEPT !.pc = IF inbox THEN "vacation" ELSE "done"]
    <2>1. /\ jobs \in Seq(Job) /\ jobs' = Append(jobs, j)
          /\ emails \in Seq([acct: Accounts, mid: Nat])
          /\ emails' = Append(emails, [acct |-> w.to, mid |-> w.mid])
          /\ UNCHANGED <<msgs, vacSent, replies, intents, execs>>
        BY Zenon, <1>4 DEF Deliver, IInv, Typed
    <2>2. j.pc \in {"vacation", "done"}
        BY Zenon DEF Idle
    <2> HIDE DEF j
    <2>3. Still({"answer"}) /\ Still({"submit", "finish"})
        BY SMTT(30), <2>1, <2>2 DEF Still
    <2>4. Grown /\ Writes("person") /\ AutomaticOnce'
        BY <1>0, <2>1, NothingWritten DEF Grown, Writes
    <2> QED
        BY Zenon, <1>0, <2>1, <2>3, <2>4, OnceKept
  <1>5. ASSUME NEW e \in DOMAIN emails, Crash(e) PROVE Once'
      BY Zenon, <1>5, OnceMoved DEF Crash, Idle
  <1>6. ASSUME NEW e \in DOMAIN emails, Process(e) PROVE Once'
    <2> DEFINE k == [Idle EXCEPT !.pc = "reserve",
                     !.todo = {r \in enabled : Owner[r] = Acct(e) /\ matches(r, e)},
                     !.trusted = VerifyAny(Acct(e), emails[e].mid)]
    <2>1. AfterRule(k).pc \in {"reserve", "done"}
        BY Zenon DEF AfterRule, Idle
    <2>2. /\ jobs' = [jobs EXCEPT ![e] = AfterRule(k)]
          /\ UNCHANGED <<msgs, emails, vacSent, replies, intents, execs>>
        BY Zenon, <1>6 DEF Process
    <2> HIDE DEF k
    <2>3. AfterRule(k).pc \notin {"answer", "submit", "finish"}
        BY Zenon, <2>1
    <2> QED
        BY Zenon, <2>2, <2>3, OnceMoved
  <1>7. ASSUME NEW e \in DOMAIN emails, ProcessAgain(e) PROVE Once'
      BY Zenon, <1>7, OnceMoved DEF ProcessAgain, Idle
  <1>8. ASSUME NEW e \in DOMAIN emails, Respond(e) PROVE Once'
    <2>1. UNCHANGED <<msgs, emails, replies, intents, execs>> /\ jobs[e].pc = "vacation"
        BY Zenon, <1>8 DEF Respond
    <2>2. Grown /\ Written' = Written /\ AutomaticOnce'
        BY <1>0, <2>1, NothingWritten DEF Grown, IInv, Typed
    <2>3. PICK j : jobs' = [jobs EXCEPT ![e] = j] /\ j.pc \in {"answer", "rules"}
      <3>1. jobs[e] \in Job
          BY Zenon, EmailFacts
      <3>2. ASSUME NEW n, jobs' = [jobs EXCEPT ![e].pc = "answer", ![e].window = n]
            PROVE  \E j : jobs' = [jobs EXCEPT ![e] = j] /\ j.pc \in {"answer", "rules"}
        <4>1. PICK j : j = [jobs[e] EXCEPT !.pc = "answer", !.window = n]
            BY Zenon
        <4>2. jobs' = [jobs EXCEPT ![e] = j] /\ j.pc = "answer"
            BY Zenon, <3>1, <3>2, <4>1 DEF Job
        <4> QED
            BY Zenon, <4>2
      <3>3. jobs' = [jobs EXCEPT ![e].pc = "rules"]
            => \E j : jobs' = [jobs EXCEPT ![e] = j] /\ j.pc \in {"answer", "rules"}
        <4>1. PICK j : j = [jobs[e] EXCEPT !.pc = "rules"]
            BY Zenon
        <4>2. j.pc = "rules"
            BY Zenon, <3>1, <4>1 DEF Job
        <4> QED
            BY Zenon, <4>1, <4>2
      <3> QED
          BY Zenon, <1>8, <3>2, <3>3 DEF Respond
    <2>4. j.pc \notin {"submit", "finish"}
        BY Zenon, <2>3
    <2>5. Still({"submit", "finish"})
        BY Zenon, <2>1, <2>3, <2>4, Moved
    <2>6. ClaimsInv' /\ ExecsInv'
        BY Zenon, <1>0, <2>1, <2>2, <2>5, ClaimsKept, ExecsKept
    <2> QED
        BY Zenon, <1>0, <1>8, <2>2, <2>6, WindowBegins DEF Once
  <1>9. ASSUME NEW e \in DOMAIN emails, SubmitVacation(e) PROVE Once'
    <2>1. /\ VacationsInv' /\ AutomaticOnce' /\ Writes("vacation") /\ Grown
          /\ Still({"submit", "finish"}) /\ UNCHANGED <<replies, intents, execs>>
        BY Zenon, <1>0, <1>9, WindowUsed DEF SubmitVacation
    <2>2. \A w \in Written' : /\ w \in Written \/ w[1] # "reply"
                              /\ w \in Written \/ w[1] # "forward"
        BY Zenon, <2>1 DEF Writes
    <2> QED
        BY Zenon, <1>0, <2>1, <2>2, ClaimsKept, ExecsKept DEF Once
  <1>10. ASSUME NEW e \in DOMAIN emails, reserveExecution(e) \/ finishExecution(e)
         PROVE  Once'
    <2>1. /\ UNCHANGED <<msgs, emails, vacSent, replies, intents>> /\ jobs[e] \in Job
          /\ ExecsInv'
        BY Zenon, <1>0, <1>10, EmailFacts, RowReserved, RowFinished
           DEF reserveExecution, finishExecution
    <2>2. Grown /\ Written' = Written /\ AutomaticOnce'
        BY <1>0, <2>1, NothingWritten DEF Grown, IInv, Typed
    <2>3. PICK j : jobs' = [jobs EXCEPT ![e] = j] /\ j.pc \in {"reserve", "done", "submit"}
        BY <1>10, <2>1, ContinuesAt DEF reserveExecution, finishExecution, Job
    <2>4. j.pc \notin {"answer"}
        BY Zenon, <2>3
    <2>5. Still({"answer"})
        BY Zenon, <2>1, <2>3, <2>4, Moved
    <2> QED
        BY Zenon, <1>0, <2>1, <2>2, <2>5, VacationsKept, ClaimsKept DEF Once
  <1>11. ASSUME NEW e \in DOMAIN emails, SubmitForward(e) PROVE Once'
    <2>1. /\ ExecsInv' /\ AutomaticOnce' /\ Writes("forward") /\ Grown
          /\ Still({"answer"}) /\ UNCHANGED <<vacSent, replies, intents>>
        BY Zenon, <1>0, <1>11, RowUsed DEF SubmitForward
    <2>2. \A w \in Written' : /\ w \in Written \/ w[1] # "reply"
                              /\ w \in Written \/ w[1] # "vacation"
        BY Zenon, <2>1 DEF Writes
    <2> QED
        BY Zenon, <1>0, <2>1, <2>2, ClaimsKept, VacationsKept DEF Once
  <1>12. ASSUME NEW e \in DOMAIN emails, Reply(e) PROVE Once'
    <2>1. ClaimsInv' /\ UNCHANGED <<msgs, emails, jobs, vacSent, execs>>
        BY Zenon, <1>0, <1>12, ReplyClaimed DEF Reply
    <2>2. Grown /\ Written' = Written /\ AutomaticOnce'
        BY <1>0, <2>1, NothingWritten DEF Grown, IInv, Typed
    <2>3. Still({"answer"}) /\ Still({"submit", "finish"})
        BY Zenon, <2>1 DEF Still
    <2> QED
        BY Zenon, <1>0, <2>1, <2>2, <2>3, VacationsKept, ExecsKept DEF Once
  <1>13. ASSUME NEW x \in replies, SubmitReply(x) PROVE Once'
    <2>1. /\ ClaimsInv' /\ AutomaticOnce' /\ Writes("reply") /\ Grown
          /\ UNCHANGED <<jobs, vacSent, execs>>
        BY Zenon, <1>0, <1>13, ReplyUsed DEF SubmitReply
    <2>2. \A w \in Written' : /\ w \in Written \/ w[1] # "vacation"
                              /\ w \in Written \/ w[1] # "forward"
        BY Zenon, <2>1 DEF Writes
    <2>3. Still({"answer"}) /\ Still({"submit", "finish"})
        BY Zenon, <2>1 DEF Still
    <2> QED
        BY Zenon, <1>0, <2>1, <2>2, <2>3, VacationsKept, ExecsKept DEF Once
  <1> QED
      BY Zenon, <1>1, <1>2, <1>3, <1>4, <1>5, <1>6, <1>7, <1>8, <1>9, <1>10, <1>11, <1>12,
         <1>13 DEF Next
=============================================================================

------------------------------ MODULE DraftSend ------------------------------
(***************************************************************************)
(* Sending through the web API (protocol/webapi/drafts.go, agent_drafts.go,*)
(* messages.go, outbound.go, outbound_policy.go) for one account: Drafts,  *)
(* the durable claims that keep a Draft or an Agent's intent from being    *)
(* submitted twice, the review of outbound policy, the Sent copy and the   *)
(* submission to the queue, with requests on several nodes, crashes, and   *)
(* statements whose result the request never learns.                       *)
(*                                                                         *)
(* A message somebody wants to send is a line; editing a Draft replaces it *)
(* by one with a new e-mail id (which stands for the draft version too) on *)
(* the same line.  A text is an e-mail, what comes with an Agent's key, or *)
(* what a request wants to put into a Draft.  A request saves at most one  *)
(* Sent copy, so it names the copy and the submission linked to it.        *)
(***************************************************************************)
EXTENDS Integers

CONSTANTS
    Requests,   \* requests to send; a client's retry is another request
    Drafts,     \* lines that begin as a Draft of the owner
    Keys,       \* lines that begin as an Agent's request: idempotency keys
    Emails,     \* e-mails that are ever put into Drafts mailboxes
    Scenes,     \* what may happen, and how often
    None

Texts == Emails \union Keys \union Requests
ReviewLines == {<<t>> : t \in Texts}

Processing == "processing"

\* The steps that a scene bounds; "request" bounds the requests that begin.
Events == {"request", "create", "edit", "remove", "sibling", "configure", "fault"}
Kinds == {"none", "intent", "draft", "reply"}

ASSUME SendAssumption ==
    /\ Drafts \intersect Keys = {} /\ Emails \intersect (Keys \union Requests) = {}
    /\ Processing \notin Requests \union {None}
    /\ None \notin Drafts \union Texts /\ None \notin ReviewLines
    /\ (Drafts \union Keys) \intersect ReviewLines = {}
    /\ \A s \in Scenes : /\ s.kinds \subseteq Kinds /\ s.review \in BOOLEAN
                        /\ \A ev \in Events : s[ev] \in Nat

VARIABLES
    rows,     \* rows of each e-mail in Drafts mailboxes
    line,     \* the line of each e-mail; <<t>> for one that holds text t for review
    flagged,  \* texts with a term that needs review
    doubled,  \* history: lines of which an e-mail was in two Drafts mailboxes
    meta,     \* agent_outbound_drafts: the e-mail of a key
    review,   \* outbound_policy_drafts: the e-mail of a text
    claims,   \* draft_send_claims by e-mail, agent_send_intents by key; an
              \* accepted one is its message, by the request that saved that
    sent,     \* Sent copies, by the request that saved them
    queue,    \* requests whose submission was committed
    pc, of,   \* where each request is, and the text or the Draft it is about
    answer,   \* the message it was told of with "accepted"
    kind,     \* what the Agent asks for with each key
    mode,     \* the Agent binding's outbound mode: automatic or not
    terms,    \* there are configured review terms
    scene,    \* the member of Scenes that is played
    used      \* how often each of its steps was

drafts == <<rows, line, flagged, doubled, meta, review>>
settings == <<kind, mode, terms, scene>>
requests == <<pc, of, answer>>
vars == <<drafts, claims, sent, queue, requests, settings, used>>

\* A new e-mail, if there is one.
Fresh == CHOOSE e \in Emails : line[e] = None
SomeFresh == \E e \in Emails : line[e] = None

Init ==
    /\ rows = [e \in Emails |-> 0] /\ line = [e \in Emails |-> None]
    /\ scene \in Scenes /\ used = [ev \in Events |-> 0]
    /\ flagged \in IF scene.review THEN SUBSET Keys ELSE {{}}
    /\ doubled = {} /\ meta = [k \in Keys |-> None] /\ review = [t \in Texts |-> None]
    /\ claims = [s \in Emails \union Keys |-> None]
    /\ sent = [r \in Requests |-> "none"] /\ queue = {}
    /\ pc = [r \in Requests |-> "idle"]
    /\ of = [r \in Requests |-> None] /\ answer = [r \in Requests |-> None]
    /\ kind \in [Keys -> scene.kinds]
    /\ mode = TRUE /\ terms = TRUE

At(r, l) == pc[r] = l
Goto(r, l) == pc' = [pc EXCEPT ![r] = l] /\ UNCHANGED <<of, answer>>
Turn(r, l, s) == pc' = [pc EXCEPT ![r] = l] /\ of' = [of EXCEPT ![r] = s] /\ UNCHANGED answer

\* A request is answered: with a message that was accepted, or (None) otherwise.
Tell(r, msg) ==
    pc' = [pc EXCEPT ![r] = "done"] /\ answer' = [answer EXCEPT ![r] = msg]
End(r, msg) == Tell(r, msg) /\ UNCHANGED of
NotSent(r) == End(r, None)
Spend(ev) == used[ev] < scene[ev] /\ used' = [used EXCEPT ![ev] = @ + 1]
Fault == Spend("fault")
Start(r) == At(r, "idle") /\ Spend("request")
Flags == IF scene.review THEN BOOLEAN ELSE {FALSE}

------------------------------------------------------------------------------
\* Drafts, one transaction each.

\* A new row in Drafts, flagged or not.
AddDraft(l, f) ==
    /\ SomeFresh
    /\ rows' = [rows EXCEPT ![Fresh] = 1]
    /\ line' = [line EXCEPT ![Fresh] = l]
    /\ flagged' = IF f THEN flagged \union {Fresh} ELSE flagged

createDraft ==
    /\ Spend("create")
    /\ \E l \in Drafts, f \in Flags : l \notin {line[e] : e \in Emails} /\ AddDraft(l, f)
    /\ UNCHANGED <<doubled, meta, review, claims, sent, queue, requests, settings>>

HasPolicy(e) == \E t \in Texts : review[t] = e
HasAgentDraft(e) == \E k \in Keys : meta[k] = e
Editable(e) == rows[e] > 0 /\ claims[e] = None

\* Mutation: the metadata stays with the old e-mail.
Moved_Stays(table, e, new) == table

\* ReplaceAgentOutboundDraft, ReplaceOutboundPolicyDraft: the metadata follows the
\* new e-mail.
Moved(table, e, new) == [k \in DOMAIN table |-> IF table[k] = e THEN new ELSE table[k]]

\* The transaction that replaces a Draft by its next version.
Replace(e, f) ==
    /\ Editable(e) /\ SomeFresh
    /\ LET new == Fresh
       IN  /\ rows' = [rows EXCEPT ![e] = @ - 1, ![new] = 1]
           /\ line' = [line EXCEPT ![new] = line[e]]
           /\ flagged' = IF f THEN flagged \union {new} ELSE flagged
           /\ meta' = Moved(meta, e, new) /\ review' = Moved(review, e, new)
    /\ UNCHANGED doubled

\* By the owner, with no review.
updateDraft ==
    /\ Spend("edit")
    /\ \E e \in Emails, f \in Flags : Replace(e, f)
    /\ UNCHANGED <<claims, sent, queue, requests, settings>>

\* DeleteAgentOutboundDraft, DeleteOutboundPolicyDraft.
Forget(table, e) == [k \in DOMAIN table |-> IF table[k] = e THEN None ELSE table[k]]

\* removeDraftWithCheck: one row and the metadata.
removeDraft(e) ==
    /\ rows[e] > 0
    /\ rows' = [rows EXCEPT ![e] = @ - 1]
    /\ meta' = Forget(meta, e) /\ review' = Forget(review, e)

deleteDraft ==
    /\ Spend("remove")
    /\ \E e \in Emails : claims[e] # Processing /\ removeDraft(e)
    /\ UNCHANGED <<doubled, line, flagged, claims, sent, queue, requests, settings>>

\* IMAP and JMAP expunge the rows without looking at claims ...
Expunge ==
    /\ Spend("remove")
    /\ \E e \in Emails : rows[e] > 0 /\ rows' = [rows EXCEPT ![e] = 0]
    /\ UNCHANGED <<line, flagged, doubled, meta, review>>
    /\ UNCHANGED <<claims, sent, queue, requests, settings>>

\* ... and the collector deletes metadata and claim with the last row.
CollectGarbage ==
    /\ \E e \in Emails :
         /\ line[e] # None /\ rows[e] = 0
         /\ HasAgentDraft(e) \/ HasPolicy(e) \/ claims[e] # None
         /\ meta' = Forget(meta, e) /\ review' = Forget(review, e)
         /\ claims' = [claims EXCEPT ![e] = None]
    /\ UNCHANGED <<rows, line, flagged, doubled, sent, queue, requests, settings, used>>

\* A sibling row (JMAP mailboxIds) in a second mailbox that counts as Drafts.
AddSibling ==
    /\ Spend("sibling")
    /\ \E e \in Emails :
         /\ rows[e] = 1 /\ rows' = [rows EXCEPT ![e] = 2]
         /\ doubled' = doubled \union {line[e]}
    /\ UNCHANGED <<line, flagged, meta, review, claims, sent, queue, requests, settings>>

------------------------------------------------------------------------------
\* The review of outbound policy, for what an Agent's credential asks to send.

\* KeywordEvaluator.Evaluate: the owner has to review the text.
Held(t) == terms /\ t \in flagged

\* A Draft for the owner is saved once per key of the text; a failure, or a row that
\* is there, saves nothing, and no request is sent.  A Draft that was claimed is
\* released.
saveOutboundPolicyDraft(r) ==
    /\ At(r, "review")
    /\ LET t == of[r]
       IN  /\ \/ /\ review[t] = None
                 /\ AddDraft(<<t>>, TRUE)
                 /\ review' = [review EXCEPT ![t] = Fresh]
              \/ UNCHANGED <<rows, line, flagged, review>>
           /\ IF t \in Emails THEN Goto(r, "abandon") ELSE NotSent(r)
    /\ UNCHANGED <<doubled, meta, claims, sent, queue, settings, used>>

\* enforceAgentDraftUpdatePolicy, before an Agent's edit.  The composed text has a
\* fresh Message-ID, so the key of the review is the request's own ...
enforceAgentDraftUpdatePolicy(r) ==
    /\ Start(r)
    /\ \E e \in Emails, f \in Flags :
         /\ Editable(e) /\ HasAgentDraft(e)
         /\ flagged' = IF f THEN flagged \union {r} ELSE flagged
         /\ IF f /\ terms THEN Turn(r, "review", r) ELSE Turn(r, "edit", e)
    /\ UNCHANGED <<rows, line, doubled, meta, review, claims, sent, queue, settings>>

\* ... and the edit looks at the Draft again.
updateAgentDraft(r) ==
    /\ At(r, "edit") /\ NotSent(r)
    /\ LET e == of[r]
       IN  \/ HasAgentDraft(e) /\ Replace(e, r \in flagged)
           \/ ~(HasAgentDraft(e) /\ Editable(e)) /\ UNCHANGED drafts
    /\ UNCHANGED <<claims, sent, queue, settings, used>>

------------------------------------------------------------------------------
\* The beginning of a request.

\* ClaimDraftSend, ClaimAgentSendIntent: INSERT ... ON CONFLICT DO NOTHING.  A request
\* that finds a claim is told its message when it is accepted.
Claim(r, s, l) ==
    \/ /\ claims[s] = None
       /\ claims' = [claims EXCEPT ![s] = Processing]
       /\ Turn(r, l, s)
    \/ /\ claims[s] # None
       /\ Tell(r, IF claims[s] \in Requests THEN claims[s] ELSE None)
       /\ of' = [of EXCEPT ![r] = s]
       /\ UNCHANGED claims

\* sendDraft: the transaction that loads the Draft and claims it, for the owner, or
\* for an Agent when the Draft is not one for review ...
sendDraft(r) ==
    /\ Start(r)
    /\ \E e \in Emails :
         /\ rows[e] > 0
         /\ Claim(r, e, "save") \/ (~HasPolicy(e) /\ Claim(r, e, "policy"))
    /\ UNCHANGED <<drafts, sent, queue, settings>>

\* ... whose claimed text then goes through the policy.
enforceAgentOutboundPolicy(r) ==
    /\ At(r, "policy") /\ Goto(r, IF Held(of[r]) THEN "review" ELSE "save")
    /\ UNCHANGED <<drafts, claims, sent, queue, settings, used>>

\* The claim is committed and the request is told of an error.
ClaimLost(r) ==
    /\ Fault
    /\ \E s \in DOMAIN claims :
         /\ IF s \in Keys THEN At(r, "claim") /\ of[r] = s
            ELSE At(r, "idle") /\ rows[s] > 0
         /\ claims[s] = None
         /\ claims' = [claims EXCEPT ![s] = Processing]
         /\ Tell(r, None) /\ of' = [of EXCEPT ![r] = s]
    /\ UNCHANGED <<drafts, sent, queue, settings>>

\* What an Agent asks for with a key goes through the policy first.
Begin(r, what, l) ==
    /\ Start(r)
    /\ \E k \in Keys :
         /\ kind[k] = what
         /\ Turn(r, IF Held(k) THEN "review" ELSE l, k)
    /\ UNCHANGED <<drafts, claims, sent, queue, settings>>

\* The outbound mode decides ...
createAgentSendIntent(r) == Begin(r, "intent", IF mode THEN "claim" ELSE "draft")

\* ... but not of a Draft (createAgentReplyDraft too) or of an automatic reply.
createAgentDraft(r) == Begin(r, "draft", "draft")
automaticReply(r) == Begin(r, "reply", "claim")

\* The owner sends, replies or forwards without a claim.
sendMessage(r) ==
    /\ Start(r) /\ Turn(r, "save", None)
    /\ UNCHANGED <<drafts, claims, sent, queue, settings>>

claimAgentSendIntent(r) ==
    /\ At(r, "claim") /\ Claim(r, of[r], "save")
    /\ UNCHANGED <<drafts, sent, queue, settings, used>>

\* A Draft for the owner to confirm; with a row for the key the request is answered
\* from it, by a conflict when the Draft was edited.
saveAgentOutboundDraft(r) ==
    /\ At(r, "draft") /\ NotSent(r)
    /\ LET k == of[r]
       IN  \/ /\ meta[k] = None
              /\ AddDraft(k, k \in flagged)
              /\ meta' = [meta EXCEPT ![k] = Fresh]
           \/ meta[k] # None /\ UNCHANGED <<rows, line, flagged, meta>>
    /\ UNCHANGED <<doubled, review, claims, sent, queue, settings, used>>

\* The owner changes the binding's outbound mode, or a node starts with other terms.
Configure ==
    /\ Spend("configure")
    /\ \/ mode' = ~mode /\ UNCHANGED terms
       \/ terms' = ~terms /\ UNCHANGED mode
    /\ UNCHANGED <<drafts, claims, sent, queue, requests, kind, scene>>

------------------------------------------------------------------------------
\* A request that may send: Sent copy, submission, bookkeeping.

\* A failure is certain, or (a fault) the copy is saved and reported as failed.
saveSentCopy(r) ==
    /\ At(r, "save")
    /\ \/ sent' = [sent EXCEPT ![r] = "live"] /\ Goto(r, "submit") /\ UNCHANGED used
       \/ Goto(r, "abandon") /\ UNCHANGED <<sent, used>>
       \/ Fault /\ sent' = [sent EXCEPT ![r] = "live"] /\ Goto(r, "abandon")
    /\ UNCHANGED <<drafts, claims, queue, settings>>

\* Mutation: it is taken for a success.
Unknown_Success(r) == Goto(r, "complete")

Unknown(r) == End(r, None)

\* SubmitForMessage: committed, failed before COMMIT, or unknown.
SubmitForMessage(r) ==
    /\ At(r, "submit")
    /\ \/ queue' = queue \union {r} /\ Goto(r, "complete") /\ UNCHANGED used
       \/ Goto(r, "cleanup") /\ UNCHANGED <<queue, used>>
       \/ /\ Fault
          /\ queue' \in {queue, queue \union {r}}
          /\ Unknown(r)
    /\ UNCHANGED <<drafts, claims, sent, settings>>

removeSentCopy(r) ==
    /\ At(r, "cleanup") /\ Goto(r, "abandon")
    /\ \/ sent' = [sent EXCEPT ![r] = "gone"] /\ UNCHANGED used
       \/ Fault /\ UNCHANGED sent
    /\ UNCHANGED <<drafts, claims, queue, settings>>

InProcess(s) == s \in DOMAIN claims /\ claims[s] = Processing

\* Mutation: the claim of a failed submission is kept.
Abandoned_Kept(s) == claims

\* AbandonDraftSendClaim, AbandonAgentSendIntent.
Abandoned(s) == IF InProcess(s) THEN [claims EXCEPT ![s] = None] ELSE claims

Abandon(r) ==
    /\ At(r, "abandon") /\ NotSent(r)
    /\ \/ claims' = Abandoned(of[r]) /\ UNCHANGED used
       \/ Fault /\ UNCHANGED claims
    /\ UNCHANGED <<drafts, sent, queue, settings>>

\* Mutation: the claim is deleted before the Draft is.
AfterComplete_Delete(r) ==
    IF of[r] \in Emails THEN Goto(r, "delete") ELSE End(r, r)

AfterComplete(r) ==
    IF of[r] \in Emails THEN Goto(r, "remove") ELSE End(r, r)

\* CompleteDraftSendClaim, CompleteAgentSendIntent: of a claim in process.
Complete(r) ==
    /\ At(r, "complete") /\ AfterComplete(r)
    /\ LET s == of[r]
       IN  \/ /\ claims' = IF InProcess(s) THEN [claims EXCEPT ![s] = r] ELSE claims
              /\ UNCHANGED used
           \/ Fault /\ UNCHANGED claims
    /\ UNCHANGED <<drafts, sent, queue, settings>>

\* The Draft is removed and then its claim; a failure of either is only logged.
RemoveSent(r) ==
    /\ At(r, "remove")
    /\ \/ removeDraft(of[r]) /\ Goto(r, "delete") /\ UNCHANGED used
       \/ /\ rows[of[r]] = 0
          /\ End(r, r) /\ UNCHANGED <<rows, meta, review, used>>
       \/ Fault /\ End(r, r) /\ UNCHANGED <<rows, meta, review>>
    /\ UNCHANGED <<doubled, line, flagged, claims, sent, queue, settings>>

DeleteDraftSendClaim(r) ==
    /\ At(r, "delete") /\ End(r, r)
    /\ LET s == of[r]
       IN  \/ /\ claims' = IF claims[s] \in Requests
                           THEN [claims EXCEPT ![s] = None] ELSE claims
              /\ UNCHANGED used
           \/ Fault /\ UNCHANGED claims
    /\ UNCHANGED <<drafts, sent, queue, settings>>

\* The node dies: the request is never answered.
Crash(r) ==
    /\ pc[r] \notin {"idle", "done"} /\ Fault
    /\ NotSent(r)
    /\ UNCHANGED <<drafts, claims, sent, queue, settings>>

------------------------------------------------------------------------------
Handle(r) ==
    \/ saveSentCopy(r) \/ SubmitForMessage(r) \/ removeSentCopy(r) \/ Abandon(r)
    \/ Complete(r) \/ RemoveSent(r) \/ DeleteDraftSendClaim(r) \/ Crash(r)

Request(r) ==
    \/ sendDraft(r) \/ ClaimLost(r) \/ enforceAgentOutboundPolicy(r)
    \/ createAgentSendIntent(r) \/ createAgentDraft(r) \/ automaticReply(r) \/ sendMessage(r)
    \/ claimAgentSendIntent(r) \/ saveAgentOutboundDraft(r) \/ saveOutboundPolicyDraft(r)
    \/ enforceAgentDraftUpdatePolicy(r) \/ updateAgentDraft(r)
    \/ Handle(r)

Next ==
    \/ createDraft \/ updateDraft \/ deleteDraft \/ Expunge \/ CollectGarbage \/ AddSibling
    \/ Configure
    \/ \E r \in Requests : Request(r)

Spec == Init /\ [][Next]_vars

------------------------------------------------------------------------------
Pcs == {"idle", "policy", "review", "edit", "claim", "draft", "save", "submit", "cleanup",
        "abandon", "complete", "remove", "delete", "done"}

\* Types; an e-mail has rows only when it is on a line.
TypeOK ==
    /\ rows \in [Emails -> 0 .. 2]
    /\ line \in [Emails -> Drafts \union Keys \union ReviewLines \union {None}]
    /\ \A e \in Emails : rows[e] > 0 => line[e] # None
    /\ flagged \subseteq Texts /\ doubled \subseteq Drafts \union Keys \union ReviewLines
    /\ meta \in [Keys -> Emails \union {None}] /\ review \in [Texts -> Emails \union {None}]
    /\ claims \in [Emails \union Keys -> {None, Processing} \union Requests]
    /\ sent \in [Requests -> {"none", "live", "gone"}]
    /\ queue \subseteq Requests
    /\ pc \in [Requests -> Pcs] /\ of \in [Requests -> Texts \union {None}]
    /\ answer \in [Requests -> Requests \union {None}]
    /\ {mode, terms} \subseteq BOOLEAN /\ scene \in Scenes /\ used \in [Events -> Nat]

\* A Draft is submitted at most once, over all its edits, whatever requests retry
\* it on whatever nodes and wherever they crash or lose a result, unless it was
\* filed in two Drafts mailboxes; so is an intent or a reply that is sent
\* automatically ("sending one immutable Draft exactly once",
\* 22_draft_send_claims.sql).
SentOnce ==
    \A p, q \in queue :
      \/ of[p] \in Keys /\ of[q] = of[p]
      \/ /\ {of[p], of[q]} \subseteq Emails /\ line[of[p]] = line[of[q]]
         /\ line[of[p]] \in Drafts \ doubled
      => p = q

\* A request that is answered with "accepted" and a message id was queued, by
\* itself or by the request that holds the claim, for the same Draft or intent
\* and with its Sent copy in place.
AcceptedIsQueued ==
    \A r \in Requests : answer[r] # None =>
        answer[r] \in queue /\ of[answer[r]] = of[r] /\ sent[answer[r]] = "live"

\* Without faults nothing is left behind: when every request has been answered
\* no claim blocks a Draft that was not submitted, be it refused by the policy or
\* by the queue, and Sent holds exactly what was queued.
QuietAgrees ==
    (used["fault"] = 0 /\ \A r \in Requests : pc[r] \in {"idle", "done"}) =>
        /\ \A s \in DOMAIN claims : claims[s] # Processing
        /\ \A r \in Requests : sent[r] = "live" <=> r \in queue

\* At most one Draft waits for the owner's confirmation of an intent, and at most
\* one for the review of a text, over edits of it, retries of the request,
\* deletions and changes of the terms; and no Draft is in both workflows, which
\* the handlers call draft_metadata_conflict.
KeyHasOneDraft ==
    /\ \A d, e \in Emails :
         /\ rows[d] > 0 /\ rows[e] > 0 /\ line[d] = line[e]
         /\ line[d] \in (Keys \union ReviewLines) \ doubled
         => d = e
    /\ \A e \in Emails : ~(HasPolicy(e) /\ HasAgentDraft(e))

=============================================================================

-------------------------- MODULE DraftSend_proofs --------------------------
(***************************************************************************)
(* Proofs about DraftSend: nothing is sent twice, what a request is told,  *)
(* what is left behind, and the Drafts that wait for the owner.  First the *)
(* inductive invariant and the parts of it that concern the requests and   *)
(* the tables of Drafts, then the claims, then the theorems.               *)
(***************************************************************************)
EXTENDS DraftSend, TLAPS

(* The inductive invariant. *)

\* What a request is about, by where it is.
Subjects ==
    \A r \in Requests :
      /\ pc[r] \in {"policy", "edit", "remove", "delete"} => of[r] \in Emails
      /\ pc[r] \in {"claim", "draft"} => of[r] \in Keys
      /\ pc[r] = "review" => of[r] \in Texts
      /\ pc[r] \in {"save", "submit", "cleanup", "abandon", "complete"} =>
           of[r] \in Emails \union Keys \union {None}

\* An e-mail has one row unless its line was doubled; the tables agree with the
\* lines, and they have every Draft of an Agent and every Draft for review.
Tables ==
    /\ \A e \in Emails : line[e] \notin doubled => rows[e] <= 1
    /\ \A k \in Keys : meta[k] # None => line[meta[k]] = k
    /\ \A t \in Texts : review[t] # None => line[review[t]] = <<t>>
    /\ \A e \in Emails : rows[e] > 0 /\ line[e] \notin doubled =>
         /\ \A k \in Keys : line[e] = k => meta[k] = e
         /\ \A t \in Texts : line[e] = <<t>> => review[t] = e

\* Where a request is when its submission was committed and its Sent copy saved.
Places ==
    \A r \in Requests :
      /\ r \in queue => pc[r] \in {"complete", "remove", "delete", "done"} /\ sent[r] = "live"
      /\ pc[r] \in {"complete", "remove", "delete"} => r \in queue
      /\ pc[r] \in {"submit", "cleanup"} => sent[r] = "live"

\* An accepted claim, and an answer, name a message that was queued.
Answers ==
    /\ \A s \in Emails \union Keys : claims[s] \in Requests =>
         claims[s] \in queue /\ of[claims[s]] = s
    /\ \A r \in Requests : answer[r] # None =>
         pc[r] = "done" /\ answer[r] \in queue /\ of[answer[r]] = of[r]

\* A request that may still submit s, or that did.
Holding == {"policy", "save", "submit", "cleanup", "abandon", "complete", "remove", "delete"}
Holds(r, s) ==
    of[r] = s /\ (r \in queue \/ pc[r] \in Holding \/ (pc[r] = "review" /\ s \in Emails))

\* An e-mail of the owner that is in one Drafts mailbox.
Single(e) == line[e] \in Drafts \ doubled

\* One request holds a key, and the claim is there as long as it does.
KeysHeld ==
    \A k \in Keys, r \in Requests : Holds(r, k) =>
      /\ claims[k] # None
      /\ \A q \in Requests : Holds(q, k) => q = r

\* A line has one e-mail with a row; one request holds it, of which the e-mail is
\* claimed or has lost its row, and the others have none.
LinesHeld ==
    /\ \A e, f \in Emails : Single(e) /\ line[f] = line[e] /\ rows[e] > 0 /\ rows[f] > 0 => e = f
    /\ \A r \in Requests, e \in Emails : Holds(r, e) /\ Single(e) =>
         /\ claims[e] # None \/ rows[e] = 0
         /\ pc[r] = "delete" => rows[e] = 0
         /\ \A f \in Emails : line[f] = line[e] /\ rows[f] > 0 => f = e
         /\ \A q \in Requests, f \in Emails : Holds(q, f) /\ line[f] = line[e] => q = r

\* A request that has not been answered has an e-mail on a line.
OnLine == \A r \in Requests : of[r] \in Emails => line[of[r]] # None

\* A request that has yet to complete or abandon its claim.
Waits(r, s) == Holds(r, s) /\ pc[r] \notin {"remove", "delete", "done"}

\* Without faults a claim in process has its request, and a Sent copy its submission.
Quiet ==
    used["fault"] = 0 =>
      /\ \A s \in Emails \union Keys : claims[s] = Processing =>
           \E r \in Requests : Waits(r, s)
      /\ \A r \in Requests : sent[r] = "live" =>
           r \in queue \/ pc[r] \in {"submit", "cleanup"}

IInv == TypeOK /\ Subjects /\ OnLine /\ Tables /\ Places /\ Answers /\ KeysHeld /\ LinesHeld /\ Quiet

-----------------------------------------------------------------------------
(* Helpers. *)

\* The lines and the texts, and what they are not.
Lines == Drafts \union Keys \union ReviewLines

LEMMA Apart ==
  /\ None \notin Lines /\ None \notin Texts /\ None \notin Emails /\ None \notin Keys
  /\ None \notin Requests /\ Processing \notin Requests /\ Processing # None
  /\ \A e \in Emails : e \notin Keys /\ e \notin Requests
  /\ \A k \in Keys : k \notin Drafts /\ k \notin ReviewLines
  /\ \A d \in Drafts : d \notin ReviewLines
  BY Zenon, SendAssumption DEF Texts, Lines

\* The e-mail that a new Draft gets was on no line.
LEMMA FreshMember == SomeFresh => Fresh \in Emails /\ line[Fresh] = None
  BY Zenon DEF SomeFresh, Fresh

-----------------------------------------------------------------------------
(* Types. *)

\* The types hold at first.
LEMMA TypesInit == Init => TypeOK
  BY Apart DEF Init, TypeOK, Pcs, Texts

\* A new row.
LEMMA AddDraftTypes ==
  ASSUME TypeOK, NEW l \in Lines, NEW f, AddDraft(l, f)
  PROVE  /\ rows' \in [Emails -> 0 .. 2]
         /\ line' \in [Emails -> Lines \union {None}]
         /\ \A e \in Emails : rows'[e] > 0 => line'[e] # None
         /\ flagged' \subseteq Texts
  <1>1. Fresh \in Emails
      BY Zenon, FreshMember DEF AddDraft
  <1>2. l # None
      BY Zenon, Apart
  <1> QED
      BY <1>1, <1>2 DEF AddDraft, TypeOK, Texts, Lines

\* A replaced one.
LEMMA ReplaceTypes ==
  ASSUME TypeOK, NEW e \in Emails, NEW f, Replace(e, f)
  PROVE  /\ rows' \in [Emails -> 0 .. 2]
         /\ line' \in [Emails -> Lines \union {None}]
         /\ \A g \in Emails : rows'[g] > 0 => line'[g] # None
         /\ flagged' \subseteq Texts /\ doubled' = doubled
         /\ meta' \in [Keys -> Emails \union {None}]
         /\ review' \in [Texts -> Emails \union {None}]
  <1>1. Fresh \in Emails /\ rows[e] > 0 /\ line[e] # None
      BY Zenon, FreshMember DEF Replace, Editable, TypeOK
  <1>2. rows' \in [Emails -> 0 .. 2] /\ line' \in [Emails -> Lines \union {None}]
      BY <1>1 DEF Replace, TypeOK, Lines
  <1>3. \A g \in Emails : rows'[g] > 0 => line'[g] # None
      BY Zenon, <1>1 DEF Replace, TypeOK
  <1>4. flagged' \subseteq Texts /\ doubled' = doubled
      BY Zenon, <1>1 DEF Replace, TypeOK, Texts
  <1>5. meta' \in [Keys -> Emails \union {None}] /\ review' \in [Texts -> Emails \union {None}]
      BY Zenon, <1>1 DEF Replace, TypeOK, Moved
  <1> QED
      BY Zenon, <1>2, <1>3, <1>4, <1>5

\* An answer, and the other moves of a request.
LEMMA MoveTypes ==
  ASSUME TypeOK, NEW r \in Requests, NEW l \in Pcs, NEW s \in Texts \union {None},
         \/ Goto(r, l) \/ Turn(r, l, s) \/ NotSent(r) \/ End(r, r)
         \/ Tell(r, None) /\ of' = [of EXCEPT ![r] = s]
  PROVE  /\ pc' \in [Requests -> Pcs] /\ of' \in [Requests -> Texts \union {None}]
         /\ answer' \in [Requests -> Requests \union {None}]
  BY DEF TypeOK, Goto, Turn, NotSent, End, Tell, Pcs

\* The budget of a scene.
LEMMA SpendTypes ==
  ASSUME TypeOK, NEW ev \in Events, Spend(ev)
  PROVE  used' \in [Events -> Nat] /\ (ev = "fault" => used'["fault"] > 0)
  BY DEF TypeOK, Spend

\* Every step keeps the types.
LEMMA TypesStep == TypeOK /\ Subjects /\ [Next]_vars => TypeOK'
  <1> SUFFICES ASSUME TypeOK, Subjects, [Next]_vars PROVE TypeOK'
      BY Zenon
  <1> USE Apart DEF drafts, settings, requests
  <1>1. CASE UNCHANGED vars
      BY Zenon, <1>1 DEF vars, TypeOK
  <1>2. CASE createDraft
    <2>1. PICK l \in Drafts, f \in Flags : AddDraft(l, f)
        BY Zenon, <1>2 DEF createDraft
    <2> QED
        BY Zenon, <1>2, <2>1, AddDraftTypes, SpendTypes DEF createDraft, TypeOK, Lines, Events
  <1>3. CASE updateDraft
    <2>1. PICK e \in Emails, f \in Flags : Replace(e, f)
        BY Zenon, <1>3 DEF updateDraft
    <2> QED
        BY Zenon, <1>3, <2>1, ReplaceTypes, SpendTypes DEF updateDraft, TypeOK, Lines, Events
  <1>4. CASE deleteDraft
    <2>1. used' \in [Events -> Nat]
        BY Zenon, <1>4, SpendTypes DEF deleteDraft, Events
    <2> QED
        BY <1>4, <2>1 DEF deleteDraft, removeDraft, Forget, TypeOK
  <1>5. CASE Expunge
    <2>1. used' \in [Events -> Nat]
        BY Zenon, <1>5, SpendTypes DEF Expunge, Events
    <2> QED
        BY <1>5, <2>1 DEF Expunge, TypeOK
  <1>6. CASE CollectGarbage
      BY <1>6 DEF CollectGarbage, Forget, TypeOK
  <1>7. CASE AddSibling
    <2>1. used' \in [Events -> Nat]
        BY Zenon, <1>7, SpendTypes DEF AddSibling, Events
    <2> QED
        BY <1>7, <2>1 DEF AddSibling, TypeOK
  <1>8. CASE Configure
    <2>1. used' \in [Events -> Nat]
        BY Zenon, <1>8, SpendTypes DEF Configure, Events
    <2> QED
        BY Zenon, <1>8, <2>1 DEF Configure, TypeOK
  <1>9. ASSUME NEW r \in Requests, Request(r) PROVE TypeOK'
    <2>1. CASE sendDraft(r)
      <3>1. used' \in [Events -> Nat]
          BY Zenon, <2>1, SpendTypes DEF sendDraft, Start, Events
      <3> QED
          BY <2>1, <3>1 DEF sendDraft, Claim, Turn, Tell, TypeOK, Texts, Pcs
    <2>2. CASE ClaimLost(r)
      <3>1. used' \in [Events -> Nat]
          BY Zenon, <2>2, SpendTypes DEF ClaimLost, Fault, Events
      <3> QED
          BY <2>2, <3>1 DEF ClaimLost, Tell, TypeOK, Texts, Pcs
    <2>3. CASE enforceAgentOutboundPolicy(r)
        BY Zenon, <2>3 DEF enforceAgentOutboundPolicy, Goto, TypeOK, Pcs
    <2>4. ASSUME NEW what, NEW l \in Pcs, Begin(r, what, l) PROVE TypeOK'
      <3>1. used' \in [Events -> Nat]
          BY Zenon, <2>4, SpendTypes DEF Begin, Start, Events
      <3> QED
          BY <2>4, <3>1 DEF Begin, Turn, TypeOK, Texts, Pcs
    <2>5. CASE createAgentSendIntent(r) \/ createAgentDraft(r) \/ automaticReply(r)
        BY Zenon, <2>4, <2>5 DEF createAgentSendIntent, createAgentDraft, automaticReply, Pcs
    <2>6. CASE sendMessage(r)
      <3>1. used' \in [Events -> Nat]
          BY Zenon, <2>6, SpendTypes DEF sendMessage, Start, Events
      <3> QED
          BY Zenon, <2>6, <3>1 DEF sendMessage, Turn, TypeOK, Pcs
    <2>7. CASE claimAgentSendIntent(r)
        BY <2>7 DEF claimAgentSendIntent, Claim, Turn, Tell, At, Subjects, TypeOK, Texts, Pcs
    <2>8. CASE saveAgentOutboundDraft(r)
      <3>1. of[r] \in Keys /\ of[r] \in Lines
          BY Zenon, <2>8 DEF saveAgentOutboundDraft, At, Subjects, Lines
      <3>2. CASE AddDraft(of[r], of[r] \in flagged) /\ meta' = [meta EXCEPT ![of[r]] = Fresh]
        <4>1. Fresh \in Emails
            BY Zenon, <3>2, FreshMember DEF AddDraft
        <4> QED
            BY Zenon, <2>8, <3>1, <3>2, <4>1, AddDraftTypes
               DEF saveAgentOutboundDraft, NotSent, End, Tell, TypeOK, Lines, Pcs
      <3>3. CASE UNCHANGED <<rows, line, flagged, meta>>
          BY Zenon, <2>8, <3>3 DEF saveAgentOutboundDraft, NotSent, End, Tell, TypeOK, Pcs
      <3> QED
          BY Zenon, <2>8, <3>2, <3>3 DEF saveAgentOutboundDraft
    <2>9. CASE saveOutboundPolicyDraft(r)
      <3>1. of[r] \in Texts /\ <<of[r]>> \in Lines
          BY Zenon, <2>9 DEF saveOutboundPolicyDraft, At, Subjects, Lines, ReviewLines
      <3>2. /\ pc' \in [Requests -> Pcs] /\ of' \in [Requests -> Texts \union {None}]
            /\ answer' \in [Requests -> Requests \union {None}]
          BY Zenon, <2>9, <3>1, MoveTypes DEF saveOutboundPolicyDraft, Pcs
      <3>3. CASE AddDraft(<<of[r]>>, TRUE) /\ review' = [review EXCEPT ![of[r]] = Fresh]
        <4>1. Fresh \in Emails
            BY Zenon, <3>3, FreshMember DEF AddDraft
        <4> QED
            BY Zenon, <2>9, <3>1, <3>2, <3>3, <4>1, AddDraftTypes
               DEF saveOutboundPolicyDraft, TypeOK, Lines
      <3>4. CASE UNCHANGED <<rows, line, flagged, review>>
          BY Zenon, <2>9, <3>2, <3>4 DEF saveOutboundPolicyDraft, TypeOK
      <3> QED
          BY Zenon, <2>9, <3>3, <3>4 DEF saveOutboundPolicyDraft
    <2>10. CASE enforceAgentDraftUpdatePolicy(r)
      <3>1. used' \in [Events -> Nat]
          BY Zenon, <2>10, SpendTypes DEF enforceAgentDraftUpdatePolicy, Start, Events
      <3> QED
          BY <2>10, <3>1 DEF enforceAgentDraftUpdatePolicy, Turn, TypeOK, Texts, Pcs
    <2>11. CASE updateAgentDraft(r)
      <3>1. of[r] \in Emails
          BY Zenon, <2>11 DEF updateAgentDraft, At, Subjects
      <3>2. /\ pc' \in [Requests -> Pcs] /\ of' \in [Requests -> Texts \union {None}]
            /\ answer' \in [Requests -> Requests \union {None}]
          BY Zenon, <2>11, <3>1, MoveTypes DEF updateAgentDraft, Pcs
      <3>3. CASE Replace(of[r], r \in flagged)
          BY Zenon, <2>11, <3>1, <3>2, <3>3, ReplaceTypes DEF updateAgentDraft, TypeOK, Lines
      <3>4. CASE UNCHANGED drafts
          BY Zenon, <2>11, <3>2, <3>4 DEF updateAgentDraft, TypeOK
      <3> QED
          BY Zenon, <2>11, <3>3, <3>4 DEF updateAgentDraft
    <2>12. CASE Handle(r)
      <3>1. used' \in [Events -> Nat]
        <4>1. Fault => used' \in [Events -> Nat]
            BY Zenon, SpendTypes DEF Fault, Events
        <4> QED
            BY Zenon, <2>12, <4>1 DEF Handle, saveSentCopy, SubmitForMessage, removeSentCopy, Abandon,
               Complete, RemoveSent, DeleteDraftSendClaim, Crash, TypeOK
      <3>2. /\ pc' \in [Requests -> Pcs] /\ of' \in [Requests -> Texts \union {None}]
            /\ answer' \in [Requests -> Requests \union {None}]
        <4>1. \/ Goto(r, "submit") \/ Goto(r, "abandon") \/ Goto(r, "complete")
              \/ Goto(r, "cleanup") \/ Goto(r, "remove") \/ Goto(r, "delete")
              \/ NotSent(r) \/ End(r, r)
            BY <2>12, Zenon DEF Handle, saveSentCopy, SubmitForMessage, removeSentCopy, Abandon,
               Complete, AfterComplete, RemoveSent, DeleteDraftSendClaim, Crash, Unknown, NotSent
        <4>2. \A l \in Pcs : Goto(r, l) \/ NotSent(r) \/ End(r, r) =>
                /\ pc' \in [Requests -> Pcs] /\ of' \in [Requests -> Texts \union {None}]
                /\ answer' \in [Requests -> Requests \union {None}]
            BY MoveTypes, Zenon
        <4> QED
            BY Zenon, <4>1, <4>2 DEF Pcs
      <3>3. CASE saveSentCopy(r) \/ SubmitForMessage(r) \/ removeSentCopy(r) \/ Crash(r)
          BY <3>1, <3>2, <3>3 DEF saveSentCopy, SubmitForMessage, removeSentCopy, Crash, TypeOK
      <3>4. CASE Abandon(r)
          BY <3>1, <3>2, <3>4 DEF Abandon, Abandoned, InProcess, TypeOK
      <3>5. CASE Complete(r)
          BY <3>1, <3>2, <3>5 DEF Complete, InProcess, TypeOK
      <3>6. CASE RemoveSent(r)
          BY <3>1, <3>2, <3>6 DEF RemoveSent, removeDraft, Forget, TypeOK, At, Subjects
      <3>7. CASE DeleteDraftSendClaim(r)
          BY <3>1, <3>2, <3>7 DEF DeleteDraftSendClaim, TypeOK
      <3> QED
          BY Zenon, <2>12, <3>3, <3>4, <3>5, <3>6, <3>7 DEF Handle
    <2> QED
        BY Zenon, <1>9, <2>1, <2>2, <2>3, <2>5, <2>6, <2>7, <2>8, <2>9, <2>10, <2>11, <2>12 DEF Request
  <1> QED
      BY Zenon, <1>1, <1>2, <1>3, <1>4, <1>5, <1>6, <1>7, <1>8, <1>9 DEF Next

-----------------------------------------------------------------------------
(* Requests. *)

\* The steps of the Drafts and of the configuration leave the requests alone.
LEMMA Aside ==
  ASSUME \/ createDraft \/ updateDraft \/ deleteDraft \/ Expunge \/ CollectGarbage
         \/ AddSibling \/ Configure
  PROVE  /\ UNCHANGED <<pc, of, answer, sent, queue>>
         /\ CollectGarbage \/ UNCHANGED claims
  BY Zenon DEF createDraft, updateDraft, deleteDraft, Expunge, CollectGarbage, AddSibling, Configure,
     requests

\* What a request is about fits where it is.
LEMMA SubjectsStep == TypeOK /\ Subjects /\ [Next]_vars => Subjects'
  <1> SUFFICES ASSUME TypeOK, Subjects, [Next]_vars PROVE Subjects'
      BY Zenon
  <1>1. CASE UNCHANGED vars
      BY Zenon, <1>1 DEF vars, requests, Subjects
  <1>2. CASE createDraft \/ updateDraft \/ deleteDraft \/ Expunge \/ CollectGarbage
             \/ AddSibling \/ Configure
      BY Zenon, <1>2, Aside DEF Subjects
  <1>3. ASSUME NEW r \in Requests, Request(r) PROVE Subjects'
    <2> USE DEF At, TypeOK, Subjects
    <2>1. CASE sendDraft(r)
        BY <2>1 DEF sendDraft, Claim, Turn, Tell
    <2>2. CASE ClaimLost(r)
        BY <2>2 DEF ClaimLost, Tell
    <2>3. CASE enforceAgentOutboundPolicy(r)
        BY Zenon, <2>3 DEF enforceAgentOutboundPolicy, Goto, Texts
    <2>4. CASE createAgentSendIntent(r) \/ createAgentDraft(r) \/ automaticReply(r)
        BY <2>4 DEF createAgentSendIntent, createAgentDraft, automaticReply, Begin, Turn, Texts
    <2>5. CASE sendMessage(r)
        BY Zenon, <2>5 DEF sendMessage, Turn
    <2>6. CASE claimAgentSendIntent(r)
        BY <2>6 DEF claimAgentSendIntent, Claim, Turn, Tell
    <2>7. CASE saveAgentOutboundDraft(r)
        BY Zenon, <2>7 DEF saveAgentOutboundDraft, NotSent, End, Tell
    <2>8. CASE saveOutboundPolicyDraft(r)
        BY <2>8 DEF saveOutboundPolicyDraft, NotSent, End, Tell, Goto
    <2>9. CASE enforceAgentDraftUpdatePolicy(r)
        BY <2>9 DEF enforceAgentDraftUpdatePolicy, Turn, Texts
    <2>10. CASE updateAgentDraft(r)
        BY Zenon, <2>10 DEF updateAgentDraft, NotSent, End, Tell
    <2>11. CASE saveSentCopy(r) \/ SubmitForMessage(r) \/ removeSentCopy(r)
        BY <2>11 DEF saveSentCopy, SubmitForMessage, removeSentCopy, Unknown, End, Tell, Goto
    <2>12. CASE Abandon(r) \/ Complete(r) \/ DeleteDraftSendClaim(r) \/ Crash(r)
        BY <2>12 DEF Abandon, Complete, AfterComplete, DeleteDraftSendClaim, Crash, NotSent, End,
           Tell, Goto
    <2>13. CASE RemoveSent(r)
        BY <2>13 DEF RemoveSent, End, Tell, Goto
    <2> QED
        BY Zenon, <1>3, <2>1, <2>2, <2>3, <2>4, <2>5, <2>6, <2>7, <2>8, <2>9, <2>10, <2>11, <2>12, <2>13
           DEF Request, Handle
  <1> QED
      BY Zenon, <1>1, <1>2, <1>3 DEF Next

\* A submission is linked to a Sent copy that is there.
LEMMA PlacesStep == TypeOK /\ Places /\ [Next]_vars => Places'
  <1> SUFFICES ASSUME TypeOK, Places, [Next]_vars PROVE Places'
      BY Zenon
  <1>1. CASE UNCHANGED vars
      BY Zenon, <1>1 DEF vars, requests, Places
  <1>2. CASE createDraft \/ updateDraft \/ deleteDraft \/ Expunge \/ CollectGarbage
             \/ AddSibling \/ Configure
      BY Zenon, <1>2, Aside DEF Places
  <1>3. ASSUME NEW r \in Requests, Request(r) PROVE Places'
    <2> USE DEF At, TypeOK, Places
    <2>1. CASE sendDraft(r)
        BY <2>1 DEF sendDraft, Start, Claim, Turn, Tell
    <2>2. CASE ClaimLost(r)
        BY Zenon, <2>2 DEF ClaimLost, Tell
    <2>3. CASE enforceAgentOutboundPolicy(r)
        BY Zenon, <2>3 DEF enforceAgentOutboundPolicy, Goto
    <2>4. CASE createAgentSendIntent(r) \/ createAgentDraft(r) \/ automaticReply(r)
        BY <2>4 DEF createAgentSendIntent, createAgentDraft, automaticReply, Begin, Start, Turn
    <2>5. CASE sendMessage(r)
        BY Zenon, <2>5 DEF sendMessage, Start, Turn
    <2>6. CASE claimAgentSendIntent(r)
        BY <2>6 DEF claimAgentSendIntent, Claim, Turn, Tell
    <2>7. CASE saveAgentOutboundDraft(r)
        BY Zenon, <2>7 DEF saveAgentOutboundDraft, NotSent, End, Tell
    <2>8. CASE saveOutboundPolicyDraft(r)
        BY Zenon, <2>8 DEF saveOutboundPolicyDraft, NotSent, End, Tell, Goto
    <2>9. CASE enforceAgentDraftUpdatePolicy(r)
        BY <2>9 DEF enforceAgentDraftUpdatePolicy, Start, Turn
    <2>10. CASE updateAgentDraft(r)
        BY Zenon, <2>10 DEF updateAgentDraft, NotSent, End, Tell
    <2>11. CASE saveSentCopy(r) \/ SubmitForMessage(r) \/ removeSentCopy(r)
        BY <2>11 DEF saveSentCopy, SubmitForMessage, removeSentCopy, Unknown, End, Tell, Goto
    <2>12. CASE Abandon(r) \/ Complete(r) \/ DeleteDraftSendClaim(r) \/ Crash(r)
        BY Zenon, <2>12 DEF Abandon, Complete, AfterComplete, DeleteDraftSendClaim, Crash, NotSent, End,
           Tell, Goto
    <2>13. CASE RemoveSent(r)
        BY Zenon, <2>13 DEF RemoveSent, End, Tell, Goto
    <2> QED
        BY Zenon, <1>3, <2>1, <2>2, <2>3, <2>4, <2>5, <2>6, <2>7, <2>8, <2>9, <2>10, <2>11, <2>12, <2>13
           DEF Request, Handle
  <1> QED
      BY Zenon, <1>1, <1>2, <1>3 DEF Next

\* What a claim and an answer say stays true.
LEMMA AnswersStep == TypeOK /\ Places /\ Subjects /\ Answers /\ [Next]_vars => Answers'
  <1> SUFFICES ASSUME TypeOK, Places, Subjects, Answers, [Next]_vars PROVE Answers'
      BY Zenon
  <1> USE Apart
  <1>1. CASE UNCHANGED vars
      BY Zenon, <1>1 DEF vars, requests, Answers
  <1>2. CASE createDraft \/ updateDraft \/ deleteDraft \/ Expunge \/ AddSibling \/ Configure
    <2>1. UNCHANGED <<pc, of, answer, queue, claims>>
        BY Zenon, <1>2 DEF createDraft, updateDraft, deleteDraft, Expunge, AddSibling, Configure, requests
    <2> QED
        BY Zenon, <2>1 DEF Answers
  <1>3. CASE CollectGarbage
      BY <1>3 DEF CollectGarbage, requests, Answers, TypeOK
  <1>4. ASSUME NEW r \in Requests, Request(r) PROVE Answers'
    <2> USE DEF At, TypeOK, Places, Answers
    <2>1. CASE sendDraft(r)
        BY <2>1 DEF sendDraft, Start, Claim, Turn, Tell
    <2>2. CASE ClaimLost(r)
        BY <2>2 DEF ClaimLost, Tell, Subjects
    <2>3. CASE enforceAgentOutboundPolicy(r)
        BY <2>3 DEF enforceAgentOutboundPolicy, Goto
    <2>4. CASE createAgentSendIntent(r) \/ createAgentDraft(r) \/ automaticReply(r)
        BY <2>4 DEF createAgentSendIntent, createAgentDraft, automaticReply, Begin, Start, Turn
    <2>5. CASE sendMessage(r)
        BY <2>5 DEF sendMessage, Start, Turn
    <2>6. CASE claimAgentSendIntent(r)
        BY <2>6 DEF claimAgentSendIntent, Claim, Turn, Tell, Subjects
    <2>7. CASE saveAgentOutboundDraft(r)
        BY <2>7 DEF saveAgentOutboundDraft, NotSent, End, Tell
    <2>8. CASE saveOutboundPolicyDraft(r)
        BY <2>8 DEF saveOutboundPolicyDraft, NotSent, End, Tell, Goto
    <2>9. CASE enforceAgentDraftUpdatePolicy(r)
        BY <2>9 DEF enforceAgentDraftUpdatePolicy, Start, Turn
    <2>10. CASE updateAgentDraft(r)
        BY <2>10 DEF updateAgentDraft, NotSent, End, Tell
    <2>11. CASE saveSentCopy(r) \/ SubmitForMessage(r) \/ removeSentCopy(r)
        BY <2>11 DEF saveSentCopy, SubmitForMessage, removeSentCopy, Unknown, End, Tell, Goto
    <2>12. CASE Abandon(r)
        BY <2>12 DEF Abandon, Abandoned, InProcess, NotSent, End, Tell
    <2>13. CASE Complete(r)
      <3>1. r \in queue
          BY Zenon, <2>13 DEF Complete
      <3> QED
          BY <2>13, <3>1 DEF Complete, AfterComplete, InProcess, End, Tell, Goto
    <2>14. CASE DeleteDraftSendClaim(r) \/ Crash(r)
        BY <2>14 DEF DeleteDraftSendClaim, Crash, NotSent, End, Tell
    <2>15. CASE RemoveSent(r)
        BY <2>15 DEF RemoveSent, End, Tell, Goto
    <2> QED
        BY Zenon, <1>4, <2>1, <2>2, <2>3, <2>4, <2>5, <2>6, <2>7, <2>8, <2>9, <2>10, <2>11, <2>12, <2>13,
           <2>14, <2>15 DEF Request, Handle
  <1> QED
      BY Zenon, <1>1, <1>2, <1>3, <1>4 DEF Next

-----------------------------------------------------------------------------
(* Drafts and their tables. *)

\* A line is for ever, an e-mail gets its rows at once, and a new e-mail on a line of
\* the owner is the first one or takes the place of one that was not claimed.
DraftsGrow ==
    /\ doubled \subseteq doubled'
    /\ \A e \in Emails : line[e] # None =>
         line'[e] = line[e] /\ (rows'[e] > 0 => rows[e] > 0)
    /\ \A e \in Emails : line[e] = None /\ line'[e] \in Drafts =>
         /\ \A f \in Emails : line[f] = None /\ line'[f] # None => f = e
         /\ \/ \A f \in Emails : line[f] # line'[e]
            \/ \E g \in Emails : /\ line[g] = line'[e] /\ Editable(g)
                                 /\ line[g] \notin doubled => rows'[g] = 0

\* An edit moves row and metadata to the new e-mail.
LEMMA ReplaceDrafts ==
  ASSUME TypeOK, Tables, NEW e \in Emails, NEW f, Replace(e, f)
  PROVE  Tables' /\ DraftsGrow
  <1> DEFINE new == Fresh
  <1>1. /\ new \in Emails /\ line[new] = None /\ rows[new] = 0
        /\ rows[e] > 0 /\ line[e] # None /\ new # e
      BY FreshMember DEF Replace, Editable, TypeOK
  <1> HIDE DEF new
  <1>2. /\ rows' = [rows EXCEPT ![e] = @ - 1, ![new] = 1]
        /\ line' = [line EXCEPT ![new] = line[e]] /\ doubled' = doubled
        /\ meta' = Moved(meta, e, new) /\ review' = Moved(review, e, new)
      BY Zenon DEF Replace, new
  <1>3. /\ \A k \in Keys : meta'[k] = IF meta[k] = e THEN new ELSE meta[k]
        /\ \A t \in Texts : review'[t] = IF review[t] = e THEN new ELSE review[t]
      BY Zenon, <1>2 DEF Moved, TypeOK
  <1>4. \A x \in Emails : line[x] # None => line'[x] = line[x] /\ (rows'[x] > 0 => rows[x] > 0)
      BY Zenon, <1>1, <1>2 DEF TypeOK
  <1>5. line[e] \notin doubled => rows'[e] = 0
      BY <1>1, <1>2 DEF TypeOK, Tables
  <1>6. \A x \in Emails : line'[x] \notin doubled' => rows'[x] <= 1
      BY <1>1, <1>2 DEF TypeOK, Tables
  <1>7. (\A k \in Keys : meta[k] # None => line[meta[k]] = k)'
      BY <1>1, <1>2, <1>3, Apart DEF TypeOK, Tables
  <1>8. (\A t \in Texts : review[t] # None => line[review[t]] = <<t>>)'
    <2> SUFFICES ASSUME NEW t \in Texts, review'[t] # None PROVE line'[review'[t]] = <<t>>
        BY Zenon
    <2>1. CASE review[t] = e
        BY <1>1, <1>2, <1>3, <2>1, Apart DEF TypeOK, Tables
    <2>2. CASE review[t] # e
      <3>1. review'[t] = review[t] /\ review[t] \in Emails /\ line[review[t]] = <<t>>
          BY <1>3, <2>2 DEF TypeOK, Tables
      <3>2. <<t>> # None
          BY Zenon, Apart DEF Lines, ReviewLines
      <3> QED
          BY Zenon, <1>4, <3>1, <3>2
    <2> QED
        BY Zenon, <2>1, <2>2
  <1>9. ASSUME NEW x \in Emails, rows'[x] > 0, line'[x] \notin doubled'
        PROVE  /\ \A k \in Keys : line'[x] = k => meta'[k] = x
               /\ \A t \in Texts : line'[x] = <<t>> => review'[t] = x
    <2>1. CASE x = new
        BY Zenon, <1>1, <1>2, <1>3, <1>9, <2>1 DEF TypeOK, Tables
    <2>2. CASE x # new
        BY <1>1, <1>2, <1>3, <1>4, <1>5, <1>9, <2>2 DEF TypeOK, Tables
    <2> QED
        BY Zenon, <2>1, <2>2
  <1>10. Tables'
      BY Zenon, <1>6, <1>7, <1>8, <1>9 DEF Tables
  <1>11. DraftsGrow
    <2>1. \A x \in Emails : line[x] = None /\ line'[x] # None => x = new
        BY Zenon, <1>1, <1>2 DEF TypeOK
    <2>2. Editable(e) /\ line'[new] = line[e]
        BY Zenon, <1>1, <1>2 DEF Replace, TypeOK
    <2> QED
        BY Zenon, <1>2, <1>4, <1>5, <2>1, <2>2, Apart DEF DraftsGrow, Lines
  <1> QED
      BY Zenon, <1>10, <1>11

\* A Draft is removed with its metadata.
LEMMA RemoveDrafts ==
  ASSUME TypeOK, Tables, NEW e \in Emails, removeDraft(e), UNCHANGED <<line, doubled>>
  PROVE  Tables' /\ DraftsGrow /\ (line[e] \notin doubled => rows'[e] = 0)
  <1>1. rows[e] > 0 /\ rows' = [rows EXCEPT ![e] = @ - 1]
      BY Zenon DEF removeDraft
  <1>2. /\ \A k \in Keys : meta'[k] = IF meta[k] = e THEN None ELSE meta[k]
        /\ \A t \in Texts : review'[t] = IF review[t] = e THEN None ELSE review[t]
      BY Zenon DEF removeDraft, Forget, TypeOK
  <1>3. /\ \A x \in Emails : rows'[x] > 0 => rows[x] > 0
        /\ \A x \in Emails : line[x] \notin doubled => rows'[x] <= 1
        /\ line[e] \notin doubled => rows'[e] = 0
      BY <1>1 DEF TypeOK, Tables
  <1>4. Tables'
      BY <1>1, <1>2, <1>3, Apart DEF TypeOK, Tables
  <1>5. DraftsGrow
      BY Zenon, <1>3, Apart DEF DraftsGrow, Lines
  <1> QED
      BY Zenon, <1>3, <1>4, <1>5

\* A new Draft.
LEMMA AddDrafts ==
  ASSUME TypeOK, Tables, NEW l \in Lines, NEW f, AddDraft(l, f), doubled' = doubled,
         \A e \in Emails : l \in Drafts => line[e] # l
  PROVE  /\ DraftsGrow
         /\ Fresh \in Emails /\ line[Fresh] = None /\ rows'[Fresh] = 1 /\ line'[Fresh] = l
         /\ \A e \in Emails : e # Fresh => rows'[e] = rows[e] /\ line'[e] = line[e]
  <1>1. Fresh \in Emails /\ line[Fresh] = None
      BY Zenon, FreshMember DEF AddDraft
  <1>2. /\ rows'[Fresh] = 1 /\ line'[Fresh] = l
        /\ \A e \in Emails : e # Fresh => rows'[e] = rows[e] /\ line'[e] = line[e]
      BY Zenon, <1>1 DEF AddDraft, TypeOK
  <1>3. DraftsGrow
      BY Zenon, <1>1, <1>2, Apart DEF DraftsGrow, Lines
  <1> QED
      BY Zenon, <1>1, <1>2, <1>3

\* A new e-mail and its entry in the table of its line.
LEMMA AddTables ==
  ASSUME TypeOK, Tables, NEW new \in Emails, NEW l \in Lines, line[new] = None, doubled' = doubled,
         rows'[new] = 1, line'[new] = l,
         \A e \in Emails : e # new => rows'[e] = rows[e] /\ line'[e] = line[e],
         \A k \in Keys : IF l = k THEN meta[k] = None /\ meta'[k] = new ELSE meta'[k] = meta[k],
         \A t \in Texts : IF l = <<t>> THEN review[t] = None /\ review'[t] = new
                                       ELSE review'[t] = review[t]
  PROVE  Tables'
  <1>1. \A e \in Emails : line'[e] \notin doubled' => rows'[e] <= 1
      BY DEF Tables
  <1>2. ASSUME NEW k \in Keys, meta'[k] # None PROVE line'[meta'[k]] = k
    <2>1. k # None
        BY Zenon, Apart
    <2> QED
        BY <1>2, <2>1 DEF Tables, TypeOK
  <1>3. ASSUME NEW t \in Texts, review'[t] # None PROVE line'[review'[t]] = <<t>>
    <2>1. <<t>> # None
        BY Apart DEF Lines, ReviewLines
    <2>2. CASE l = <<t>>
        BY Zenon, <2>2
    <2>3. CASE l # <<t>>
      <3>1. review'[t] = review[t] /\ review[t] \in Emails /\ line[review[t]] = <<t>>
          BY <1>3, <2>3 DEF Tables, TypeOK
      <3> QED
          BY Zenon, <2>1, <3>1
    <2> QED
        BY Zenon, <2>2, <2>3
  <1>4. ASSUME NEW e \in Emails, rows'[e] > 0, line'[e] \notin doubled'
        PROVE  /\ \A k \in Keys : line'[e] = k => meta'[k] = e
               /\ \A t \in Texts : line'[e] = <<t>> => review'[t] = e
    <2>1. CASE e = new
        BY Zenon, <2>1
    <2>2. CASE e # new
      <3>1. rows[e] > 0 /\ line[e] \notin doubled /\ line'[e] = line[e]
          BY Zenon, <1>4, <2>2
      <3>2. ASSUME NEW k \in Keys, line[e] = k PROVE meta'[k] = e
          BY <3>1, <3>2, Apart DEF Tables
      <3>3. ASSUME NEW t \in Texts, line[e] = <<t>> PROVE review'[t] = e
        <4>1. review[t] = e
            BY Zenon, <3>1, <3>3 DEF Tables
        <4> QED
            BY Zenon, <4>1, Apart
      <3> QED
          BY Zenon, <3>1, <3>2, <3>3
    <2> QED
        BY Zenon, <2>1, <2>2
  <1> QED
      BY Zenon, <1>1, <1>2, <1>3, <1>4 DEF Tables

\* What the steps of Drafts change.
Table == <<rows, line, doubled, meta, review>>

\* The tables agree with the lines after every step.
LEMMA TablesStep ==
  TypeOK /\ Subjects /\ Tables /\ [Next]_vars => Tables' /\ DraftsGrow
  <1> SUFFICES ASSUME TypeOK, Subjects, Tables, [Next]_vars PROVE Tables' /\ DraftsGrow
      BY Zenon
  <1>1. CASE UNCHANGED Table
      BY Zenon, <1>1, Apart DEF Table, Tables, DraftsGrow, Lines
  <1>2. CASE createDraft
    <2>1. PICK l \in Drafts, f \in Flags : AddDraft(l, f) /\ l \notin {line[e] : e \in Emails}
        BY Zenon, <1>2 DEF createDraft
    <2>2. /\ DraftsGrow /\ Fresh \in Emails /\ line[Fresh] = None
          /\ rows'[Fresh] = 1 /\ line'[Fresh] = l
          /\ \A e \in Emails : e # Fresh => rows'[e] = rows[e] /\ line'[e] = line[e]
          /\ UNCHANGED <<doubled, meta, review>>
        BY Zenon, <1>2, <2>1, AddDrafts DEF createDraft, Lines
    <2>3. Tables'
      <3>1. l \in Lines /\ (\A k \in Keys : l # k) /\ (\A t \in Texts : l # <<t>>)
          BY Zenon, Apart DEF Lines, ReviewLines
      <3> QED
          BY <2>2, <3>1, AddTables
    <2> QED
        BY Zenon, <2>2, <2>3
  <1>3. CASE updateDraft
      BY Zenon, <1>3, ReplaceDrafts DEF updateDraft
  <1>4. CASE deleteDraft
      BY Zenon, <1>4, RemoveDrafts DEF deleteDraft
  <1>5. CASE Expunge
    <2>1. /\ \A x \in Emails : rows'[x] = rows[x] \/ rows'[x] = 0
          /\ UNCHANGED <<line, doubled, meta, review>>
        BY Zenon, <1>5 DEF Expunge, TypeOK
    <2> QED
        BY <2>1, Apart DEF Tables, DraftsGrow, Lines, TypeOK
  <1>6. CASE CollectGarbage
    <2>1. PICK g \in Emails : rows[g] = 0 /\ meta' = Forget(meta, g) /\ review' = Forget(review, g)
        BY Zenon, <1>6 DEF CollectGarbage
    <2>2. /\ \A k \in Keys : meta'[k] = IF meta[k] = g THEN None ELSE meta[k]
          /\ \A t \in Texts : review'[t] = IF review[t] = g THEN None ELSE review[t]
          /\ UNCHANGED <<rows, line, doubled>>
        BY Zenon, <1>6, <2>1 DEF CollectGarbage, Forget, TypeOK
    <2> QED
        BY <2>1, <2>2, Apart DEF Tables, DraftsGrow, Lines, TypeOK
  <1>7. CASE AddSibling
    <2>1. PICK g \in Emails : /\ rows[g] = 1 /\ rows' = [rows EXCEPT ![g] = 2]
                             /\ doubled' = doubled \union {line[g]}
                             /\ UNCHANGED <<line, meta, review>>
        BY Zenon, <1>7 DEF AddSibling
    <2> QED
        BY <2>1, Apart DEF Tables, DraftsGrow, Lines, TypeOK
  <1>8. ASSUME NEW r \in Requests, saveAgentOutboundDraft(r) PROVE Tables' /\ DraftsGrow
    <2> DEFINE k == of[r]
    <2>1. k \in Keys /\ k \in Lines /\ k \notin Drafts
        BY Zenon, <1>8, Apart DEF saveAgentOutboundDraft, At, Subjects, Lines
    <2>2. CASE AddDraft(k, k \in flagged) /\ meta' = [meta EXCEPT ![k] = Fresh] /\ meta[k] = None
      <3>1. /\ DraftsGrow /\ Fresh \in Emails /\ line[Fresh] = None
            /\ rows'[Fresh] = 1 /\ line'[Fresh] = k
            /\ \A e \in Emails : e # Fresh => rows'[e] = rows[e] /\ line'[e] = line[e]
            /\ UNCHANGED <<doubled, review>>
          BY Zenon, <1>8, <2>1, <2>2, AddDrafts DEF saveAgentOutboundDraft
      <3>2. \A x \in Keys : meta'[x] = IF k = x THEN Fresh ELSE meta[x]
          BY Zenon, <2>1, <2>2 DEF TypeOK
      <3>3. \A x \in Texts : k # <<x>>
        <4>1. k \notin ReviewLines
            BY Zenon, <2>1, Apart
        <4> QED
            BY Zenon, <4>1 DEF ReviewLines
      <3> QED
          BY <2>1, <2>2, <3>1, <3>2, <3>3, AddTables
    <2> QED
        BY Zenon, <1>1, <1>8, <2>2 DEF saveAgentOutboundDraft, Table
  <1>9. ASSUME NEW r \in Requests, saveOutboundPolicyDraft(r) PROVE Tables' /\ DraftsGrow
    <2> DEFINE t == of[r]
    <2>1. t \in Texts /\ <<t>> \in Lines /\ <<t>> \notin Drafts /\ <<t>> \notin Keys
        BY Zenon, <1>9, Apart DEF saveOutboundPolicyDraft, At, Subjects, Lines, ReviewLines
    <2>2. CASE AddDraft(<<t>>, TRUE) /\ review' = [review EXCEPT ![t] = Fresh] /\ review[t] = None
      <3>1. /\ DraftsGrow /\ Fresh \in Emails /\ line[Fresh] = None
            /\ rows'[Fresh] = 1 /\ line'[Fresh] = <<t>>
            /\ \A e \in Emails : e # Fresh => rows'[e] = rows[e] /\ line'[e] = line[e]
            /\ UNCHANGED <<doubled, meta>>
          BY Zenon, <1>9, <2>1, <2>2, AddDrafts DEF saveOutboundPolicyDraft
      <3>2. /\ \A x \in Texts : review'[x] = IF <<t>> = <<x>> THEN Fresh ELSE review[x]
            /\ \A x \in Texts : <<t>> = <<x>> => review[x] = None
            /\ \A x \in Keys : <<t>> # x
          BY Zenon, <2>1, <2>2 DEF TypeOK
      <3> QED
          BY Zenon, <2>1, <3>1, <3>2, AddTables
    <2> QED
        BY Zenon, <1>1, <1>9, <2>2 DEF saveOutboundPolicyDraft, Table
  <1>10. ASSUME NEW r \in Requests, updateAgentDraft(r) PROVE Tables' /\ DraftsGrow
    <2>1. of[r] \in Emails
        BY Zenon, <1>10 DEF updateAgentDraft, At, Subjects
    <2> QED
        BY Zenon, <1>1, <1>10, <2>1, ReplaceDrafts DEF updateAgentDraft, Table, drafts
  <1>11. ASSUME NEW r \in Requests, RemoveSent(r) PROVE Tables' /\ DraftsGrow
    <2>1. of[r] \in Emails
        BY Zenon, <1>11 DEF RemoveSent, At, Subjects
    <2> QED
        BY Zenon, <1>1, <1>11, <2>1, RemoveDrafts DEF RemoveSent, Table
  <1>12. ASSUME NEW r \in Requests, Request(r) PROVE Tables' /\ DraftsGrow
    <2>1. \/ saveAgentOutboundDraft(r) \/ saveOutboundPolicyDraft(r) \/ updateAgentDraft(r)
          \/ RemoveSent(r) \/ UNCHANGED Table
        BY Zenon, <1>12 DEF Request, Handle, sendDraft, ClaimLost, enforceAgentOutboundPolicy,
           createAgentSendIntent, createAgentDraft, automaticReply, Begin, sendMessage,
           claimAgentSendIntent, enforceAgentDraftUpdatePolicy, saveSentCopy, SubmitForMessage,
           removeSentCopy, Abandon, Complete, DeleteDraftSendClaim, Crash, drafts, Table
    <2> QED
        BY Zenon, <1>1, <1>8, <1>9, <1>10, <1>11, <2>1
  <1> QED
      BY Zenon, <1>1, <1>2, <1>3, <1>4, <1>5, <1>6, <1>7, <1>12
         DEF Next, vars, drafts, Table, Configure

-----------------------------------------------------------------------------
(* Claims. *)

\* A request is about an e-mail that was a Draft.
LEMMA OnLineStep ==
  ASSUME TypeOK, Subjects, OnLine, DraftsGrow, [Next]_vars
  PROVE  OnLine'
  <1>1. ASSUME NEW r \in Requests, of'[r] = of[r], of'[r] \in Emails PROVE line'[of'[r]] # None
      BY Zenon, <1>1 DEF OnLine, DraftsGrow
  <1>2. CASE UNCHANGED of
      BY Zenon, <1>1, <1>2 DEF OnLine
  <1>3. ASSUME NEW r \in Requests, Request(r), ~UNCHANGED of PROVE OnLine'
    <2>1. \/ \E e \in Emails : rows[e] > 0 /\ of' = [of EXCEPT ![r] = e]
          \/ \E s \in Keys \union Requests \union {None} : of' = [of EXCEPT ![r] = s]
      <3>1. CASE sendDraft(r) \/ ClaimLost(r)
          BY Zenon, <3>1 DEF sendDraft, ClaimLost, Claim, Turn, TypeOK
      <3>2. CASE createAgentSendIntent(r) \/ createAgentDraft(r) \/ automaticReply(r)
                 \/ sendMessage(r)
          BY Zenon, <3>2 DEF createAgentSendIntent, createAgentDraft, automaticReply, Begin, sendMessage, Turn
      <3>3. CASE claimAgentSendIntent(r)
          BY Zenon, <3>3 DEF claimAgentSendIntent, At, Subjects, Claim, Turn
      <3>4. CASE enforceAgentDraftUpdatePolicy(r)
          BY Zenon, <3>4 DEF enforceAgentDraftUpdatePolicy, Editable, Turn
      <3>5. CASE enforceAgentOutboundPolicy(r) \/ saveAgentOutboundDraft(r)
                 \/ saveOutboundPolicyDraft(r) \/ updateAgentDraft(r) \/ Handle(r)
          BY Zenon, <1>3, <3>5 DEF enforceAgentOutboundPolicy, saveAgentOutboundDraft,
             saveOutboundPolicyDraft, updateAgentDraft, Handle, saveSentCopy, SubmitForMessage,
             removeSentCopy, Abandon, Complete, AfterComplete, RemoveSent, DeleteDraftSendClaim,
             Crash, Unknown, NotSent, End, Goto
      <3> QED
          BY Zenon, <1>3, <3>1, <3>2, <3>3, <3>4, <3>5 DEF Request
    <2>2. ASSUME NEW q \in Requests, of'[q] \in Emails PROVE line'[of'[q]] # None
      <3>1. of'[q] = of[q] \/ rows[of'[q]] > 0
          BY <2>1, <2>2, Apart DEF TypeOK
      <3> QED
          BY Zenon, <1>1, <2>2, <3>1 DEF DraftsGrow, TypeOK
    <2> QED
        BY Zenon, <2>2 DEF OnLine
  <1> QED
      BY Zenon, <1>2, <1>3, Aside DEF Next, vars, requests

\* No request takes a claim, and those who hold one keep it until their e-mail has
\* no row.
HeldKept ==
    \A r \in Requests, s \in Emails \union Keys : Holds(r, s)' =>
      /\ Holds(r, s)
      /\ claims'[s] = None => claims[s] = None \/ (s \in Emails /\ (Single(s) => rows'[s] = 0))
      /\ pc'[r] = "delete" /\ s \in Emails /\ Single(s) => rows'[s] = 0

\* One request takes one.
HeldTaken(r, s) ==
    /\ claims[s] = None /\ claims'[s] # None /\ (s \in Emails => rows[s] > 0)
    /\ \A x \in Emails \union Keys : x # s => claims'[x] = claims[x]
    /\ pc'[r] # "delete" /\ of'[r] = s /\ UNCHANGED <<rows, line, doubled>>
    /\ \A q \in Requests : q # r =>
         pc'[q] = pc[q] /\ \A x \in Emails \union Keys : Holds(q, x)' => Holds(q, x)

\* What follows for the keys, of which a claim is never removed while it is held ...
LEMMA KeysHeldStep ==
  ASSUME TypeOK, KeysHeld,
         HeldKept \/ \E r \in Requests, s \in Emails \union Keys : HeldTaken(r, s)
  PROVE  KeysHeld'
  <1>1. CASE HeldKept
      BY Zenon, <1>1, Apart DEF HeldKept, KeysHeld
  <1>2. ASSUME NEW r \in Requests, NEW s \in Emails \union Keys, HeldTaken(r, s)
        PROVE  KeysHeld'
    <2>1. \A q \in Requests, k \in Keys : Holds(q, k)' => (q = r /\ k = s) \/ (q # r /\ k # s /\ Holds(q, k))
        BY <1>2 DEF HeldTaken, KeysHeld, Holds
    <2> QED
        BY Zenon, <1>2, <2>1 DEF HeldTaken, KeysHeld
  <1> QED
      BY Zenon, <1>1, <1>2

\* ... and for the lines, of which an e-mail that is claimed cannot be edited.
LEMMA LinesHeldStep ==
  ASSUME TypeOK, TypeOK', OnLine, OnLine', DraftsGrow, LinesHeld,
         HeldKept \/ \E r \in Requests, s \in Emails \union Keys : HeldTaken(r, s)
  PROVE  LinesHeld'
  <1>1. ASSUME NEW e \in Emails, line[e] # None, Single(e)'
        PROVE  Single(e) /\ line'[e] = line[e] /\ (rows'[e] > 0 => rows[e] > 0)
      BY Zenon, <1>1 DEF Single, DraftsGrow
  <1>2. ASSUME NEW e \in Emails, NEW f \in Emails, Single(e)', line'[f] = line'[e],
               rows'[e] > 0, rows'[f] > 0, line[e] # None
        PROVE  e = f
    <2>1. Single(e) /\ line'[e] = line[e] /\ rows[e] > 0
        BY Zenon, <1>1, <1>2
    <2>2. CASE line[f] # None
        BY Zenon, <1>2, <2>1, <2>2 DEF DraftsGrow, LinesHeld
    <2>3. CASE line[f] = None
      <3>1. PICK g \in Emails : line[g] = line'[f] /\ Editable(g) /\ (line[g] \notin doubled => rows'[g] = 0)
          BY Zenon, <1>2, <2>1, <2>3 DEF DraftsGrow, Single
      <3>2. g = e
          BY Zenon, <1>2, <2>1, <3>1 DEF LinesHeld, Single, Editable
      <3> QED
          BY <1>2, <2>1, <3>1, <3>2 DEF Single
    <2> QED
        BY Zenon, <2>2, <2>3
  <1>3. ASSUME NEW e \in Emails, NEW f \in Emails, Single(e)', line'[f] = line'[e],
               rows'[e] > 0, rows'[f] > 0
        PROVE  e = f
    <2>1. CASE line[e] # None \/ line[f] # None
      <3>1. Single(f)'
          BY Zenon, <1>3 DEF Single
      <3> QED
          BY Zenon, <1>2, <1>3, <2>1, <3>1
    <2>2. CASE line[e] = None /\ line[f] = None
      <3>1. line'[e] \in Drafts /\ line'[f] # None
          BY Zenon, <1>3 DEF Single, TypeOK
      <3> QED
          BY Zenon, <2>2, <3>1 DEF DraftsGrow
    <2> QED
        BY Zenon, <2>1, <2>2
  <1>4. CASE HeldKept
    <2>1. ASSUME NEW r \in Requests, NEW e \in Emails, Holds(r, e)', Single(e)'
          PROVE  /\ claims'[e] # None \/ rows'[e] = 0
                 /\ pc'[r] = "delete" => rows'[e] = 0
                 /\ \A f \in Emails : line'[f] = line'[e] /\ rows'[f] > 0 => f = e
                 /\ \A q \in Requests, f \in Emails : Holds(q, f)' /\ line'[f] = line'[e] => q = r
      <3>1. Holds(r, e) /\ line[e] # None
          BY Zenon, <1>4, <2>1 DEF HeldKept, OnLine, Holds
      <3>2. Single(e) /\ line'[e] = line[e] /\ (rows'[e] > 0 => rows[e] > 0)
          BY Zenon, <1>1, <2>1, <3>1
      <3>3. claims'[e] # None \/ rows'[e] = 0
        <4>1. claims'[e] = None => claims[e] = None \/ rows'[e] = 0
            BY Zenon, <1>4, <2>1, <3>2 DEF HeldKept
        <4>2. claims[e] # None \/ rows[e] = 0
            BY Zenon, <3>1, <3>2 DEF LinesHeld
        <4>3. rows'[e] = 0 \/ rows'[e] > 0
            BY DEF TypeOK
        <4> QED
            BY <3>2, <4>1, <4>2, <4>3
      <3>4. pc'[r] = "delete" => rows'[e] = 0
          BY Zenon, <1>4, <2>1, <3>2 DEF HeldKept
      <3>5. ASSUME NEW f \in Emails, line'[f] = line'[e], rows'[f] > 0 PROVE f = e
        <4>1. CASE line[f] # None
            BY Zenon, <3>1, <3>2, <3>5, <4>1 DEF DraftsGrow, LinesHeld
        <4>2. CASE line[f] = None
          <5>1. PICK g \in Emails : line[g] = line'[f] /\ Editable(g)
              BY Zenon, <3>1, <3>2, <3>5, <4>2 DEF DraftsGrow, Single
          <5>2. g = e /\ rows[g] > 0 /\ claims[g] = None
              BY Zenon, <3>1, <3>2, <3>5, <5>1 DEF LinesHeld, Editable
          <5> QED
              BY <3>1, <3>2, <5>2 DEF LinesHeld
        <4> QED
            BY Zenon, <4>1, <4>2
      <3>6. ASSUME NEW q \in Requests, NEW f \in Emails, Holds(q, f)', line'[f] = line'[e] PROVE q = r
        <4>1. Holds(q, f) /\ line[f] # None
            BY Zenon, <1>4, <3>6 DEF HeldKept, OnLine, Holds
        <4>2. line[f] = line[e]
            BY Zenon, <3>2, <3>6, <4>1 DEF DraftsGrow
        <4> QED
            BY Zenon, <3>1, <3>2, <4>1, <4>2 DEF LinesHeld
      <3> QED
          BY Zenon, <3>3, <3>4, <3>5, <3>6
    <2> QED
        BY Zenon, <1>3, <2>1 DEF LinesHeld
  <1>5. ASSUME NEW r \in Requests, NEW s \in Emails \union Keys, HeldTaken(r, s) PROVE LinesHeld'
    <2>1. ASSUME NEW q \in Requests, NEW e \in Emails, Holds(q, e)', q # r, Single(e)
          PROVE  Holds(q, e) /\ e # s /\ (s \in Emails => line[e] # line[s])
      <3>1. Holds(q, e)
          BY Zenon, <1>5, <2>1 DEF HeldTaken
      <3>2. e # s
          BY <1>5, <2>1, <3>1 DEF HeldTaken, LinesHeld, TypeOK
      <3>3. s \in Emails => line[e] # line[s]
          BY Zenon, <1>5, <2>1, <3>1, <3>2 DEF HeldTaken, LinesHeld
      <3> QED
          BY Zenon, <3>1, <3>2, <3>3
    <2>2. \A e \in Emails : Single(e)' = Single(e)
        BY Zenon, <1>5 DEF HeldTaken, Single
    <2>3. ASSUME NEW q \in Requests, NEW e \in Emails, Holds(q, e)', Single(e)
          PROVE  /\ claims'[e] # None \/ rows[e] = 0
                 /\ pc'[q] = "delete" => rows[e] = 0
                 /\ \A f \in Emails : line[f] = line[e] /\ rows[f] > 0 => f = e
                 /\ \A p \in Requests, f \in Emails : Holds(p, f)' /\ line[f] = line[e] => p = q
      <3>1. CASE q = r
        <4>1. e = s
            BY Zenon, <1>5, <2>3, <3>1 DEF HeldTaken, Holds
        <4>2. \A f \in Emails : line[f] = line[e] => Single(f)
            BY Zenon, <2>3 DEF Single
        <4> QED
            BY Zenon, <1>5, <2>1, <2>3, <3>1, <4>1, <4>2 DEF HeldTaken, LinesHeld, Single
      <3>2. CASE q # r
        <4>1. Holds(q, e) /\ e # s /\ (s \in Emails => line[e] # line[s])
            BY Zenon, <2>1, <2>3, <3>2
        <4>2. ASSUME NEW p \in Requests, NEW f \in Emails, Holds(p, f)', line[f] = line[e]
              PROVE  p = q
          <5>1. p # r
              BY Zenon, <1>5, <4>1, <4>2 DEF HeldTaken, Holds
          <5> QED
              BY Zenon, <1>5, <2>3, <4>1, <4>2, <5>1 DEF HeldTaken, LinesHeld
        <4> QED
            BY <1>5, <2>3, <3>2, <4>1, <4>2 DEF HeldTaken, LinesHeld
      <3> QED
          BY Zenon, <3>1, <3>2
    <2> QED
        BY <1>3, <1>5, <2>2, <2>3 DEF LinesHeld, HeldTaken
  <1> QED
      BY Zenon, <1>4, <1>5

\* Every step keeps the claims that are held, or takes one.
LEMMA HeldStep ==
  ASSUME TypeOK, TypeOK', Subjects, OnLine, Tables, Places, KeysHeld, LinesHeld, DraftsGrow,
         [Next]_vars
  PROVE  HeldKept \/ \E r \in Requests, s \in Emails \union Keys : HeldTaken(r, s)
  <1>1. \A r \in Requests, s \in Emails : Holds(r, s) /\ rows[s] = 0 => rows'[s] = 0
    <2> SUFFICES ASSUME NEW r \in Requests, NEW s \in Emails, Holds(r, s), rows[s] = 0
                 PROVE  rows'[s] = 0
        BY Zenon
    <2>1. line[s] # None
        BY Zenon DEF Holds, OnLine
    <2>2. ~(rows'[s] > 0)
        BY <2>1 DEF DraftsGrow
    <2> QED
        BY <2>2 DEF TypeOK
  <1>2. ASSUME UNCHANGED <<pc, of, queue>>, CollectGarbage \/ UNCHANGED claims PROVE HeldKept
    <2>1. \A r \in Requests, s \in Emails \union Keys : Holds(r, s)' = Holds(r, s)
        BY Zenon, <1>2 DEF Holds
    <2>2. \A s \in Emails \union Keys : claims'[s] = None /\ claims[s] # None =>
            s \in Emails /\ rows'[s] = 0
        BY Zenon, <1>2 DEF CollectGarbage, TypeOK
    <2>3. \A r \in Requests, s \in Emails : Holds(r, s) /\ pc'[r] = "delete" /\ Single(s) => rows'[s] = 0
        BY Zenon, <1>1, <1>2 DEF LinesHeld
    <2> QED
        BY Zenon, <2>1, <2>2, <2>3 DEF HeldKept
  <1>3. ASSUME NEW r \in Requests,
               \A q \in Requests : q # r =>
                 pc'[q] = pc[q] /\ of'[q] = of[q] /\ (q \in queue' <=> q \in queue),
               \A s \in Emails \union Keys : Holds(r, s)' =>
                 Holds(r, s) /\ (pc'[r] = "delete" /\ s \in Emails /\ Single(s) => rows'[s] = 0),
               \A q \in Requests, s \in Emails \union Keys :
                 Holds(q, s) /\ Holds(q, s)' /\ claims'[s] = None /\ claims[s] # None =>
                   s \in Emails /\ (Single(s) => rows'[s] = 0)
        PROVE  HeldKept
    <2>1. \A q \in Requests, s \in Emails \union Keys : Holds(q, s)' => Holds(q, s)
        BY Zenon, <1>3 DEF Holds
    <2>2. \A q \in Requests, s \in Emails :
            q # r /\ Holds(q, s) /\ pc'[q] = "delete" /\ Single(s) => rows'[s] = 0
        BY <1>1, <1>3 DEF LinesHeld
    <2> QED
        BY Zenon, <1>3, <2>1, <2>2 DEF HeldKept
  <1>4. ASSUME NEW r \in Requests, Request(r)
        PROVE  HeldKept \/ \E s \in Emails \union Keys : HeldTaken(r, s)
    <2> USE DEF At, TypeOK
    <2>1. ASSUME NEW s \in Emails \union Keys, NEW l \in {"save", "policy"}, Claim(r, s, l),
                 pc[r] \in {"idle", "claim"}, UNCHANGED <<drafts, queue>>, s \in Emails => rows[s] > 0
          PROVE  HeldKept \/ HeldTaken(r, s)
      <3>1. r \notin queue
          BY Zenon, <2>1 DEF Places
      <3>2. CASE claims[s] = None
        <4>1. \A q \in Requests : q # r => pc'[q] = pc[q] /\ of'[q] = of[q]
            BY Zenon, <2>1, <3>2 DEF Claim, Turn, Tell
        <4>2. /\ claims'[s] # None /\ pc'[r] # "delete" /\ of'[r] = s
              /\ \A x \in Emails \union Keys : x # s => claims'[x] = claims[x]
            BY <2>1, <3>2, Apart DEF Claim, Turn, Tell
        <4> QED
            BY Zenon, <2>1, <3>2, <4>1, <4>2 DEF HeldTaken, Holds, drafts
      <3>3. CASE claims[s] # None
          BY <1>3, <2>1, <3>1, <3>3 DEF Claim, Turn, Tell, Holds, Holding
      <3> QED
          BY Zenon, <3>2, <3>3
    <2>2. CASE sendDraft(r)
        BY Zenon, <2>1, <2>2 DEF sendDraft, Start
    <2>3. CASE ClaimLost(r)
      <3>1. r \notin queue /\ pc'[r] = "done" /\ queue' = queue
          BY <2>3 DEF ClaimLost, Tell, Places
      <3>2. \A q \in Requests : q # r => pc'[q] = pc[q] /\ of'[q] = of[q]
          BY Zenon, <2>3 DEF ClaimLost, Tell
      <3>3. \A s \in Emails \union Keys : claims[s] # None => claims'[s] # None
          BY Zenon, <2>3, Apart DEF ClaimLost
      <3>4. \A s \in Emails \union Keys : ~Holds(r, s)'
          BY Zenon, <3>1 DEF Holds, Holding
      <3> QED
          BY Zenon, <1>3, <3>1, <3>2, <3>3, <3>4
    <2>4. CASE claimAgentSendIntent(r)
        BY Zenon, <2>1, <2>4, Apart DEF claimAgentSendIntent, Subjects
    <2>5. CASE createAgentSendIntent(r) \/ createAgentDraft(r) \/ automaticReply(r)
      <3>1. r \notin queue /\ UNCHANGED <<claims, queue>>
          BY Zenon, <2>5 DEF createAgentSendIntent, createAgentDraft, automaticReply, Begin, Start, Places
      <3>2. /\ pc'[r] \in {"claim", "draft", "review"} /\ of'[r] \in Keys
            /\ \A q \in Requests : q # r => pc'[q] = pc[q] /\ of'[q] = of[q]
          BY <2>5 DEF createAgentSendIntent, createAgentDraft, automaticReply, Begin, Turn
      <3>3. \A s \in Emails \union Keys : ~Holds(r, s)'
          BY <3>1, <3>2, Apart DEF Holds, Holding
      <3> QED
          BY Zenon, <1>3, <3>1, <3>2, <3>3
    <2>6. CASE sendMessage(r)
      <3>1. UNCHANGED <<claims, queue>>
          BY Zenon, <2>6 DEF sendMessage
      <3>2. of'[r] = None /\ \A q \in Requests : q # r => pc'[q] = pc[q] /\ of'[q] = of[q]
          BY Zenon, <2>6 DEF sendMessage, Turn
      <3>3. \A s \in Emails \union Keys : ~Holds(r, s)'
          BY Zenon, <3>2, Apart DEF Holds
      <3> QED
          BY Zenon, <1>3, <3>1, <3>2, <3>3
    <2>7. CASE enforceAgentDraftUpdatePolicy(r)
      <3>1. r \notin queue /\ UNCHANGED <<claims, queue>>
          BY Zenon, <2>7 DEF enforceAgentDraftUpdatePolicy, Start, Places
      <3>2. /\ pc'[r] = "edit" \/ (pc'[r] = "review" /\ of'[r] = r)
            /\ \A q \in Requests : q # r => pc'[q] = pc[q] /\ of'[q] = of[q]
          BY <2>7 DEF enforceAgentDraftUpdatePolicy, Turn
      <3>3. \A s \in Emails \union Keys : ~Holds(r, s)'
          BY <3>1, <3>2, Apart DEF Holds, Holding
      <3> QED
          BY Zenon, <1>3, <3>1, <3>2, <3>3
    <2>8. CASE saveAgentOutboundDraft(r) \/ updateAgentDraft(r)
      <3>1. r \notin queue /\ UNCHANGED <<claims, queue>> /\ pc'[r] = "done"
          BY <2>8 DEF saveAgentOutboundDraft, updateAgentDraft, Places, NotSent, End, Tell
      <3>2. \A q \in Requests : q # r => pc'[q] = pc[q] /\ of'[q] = of[q]
          BY Zenon, <2>8 DEF saveAgentOutboundDraft, updateAgentDraft, NotSent, End, Tell
      <3>3. \A s \in Emails \union Keys : ~Holds(r, s)'
          BY Zenon, <3>1 DEF Holds, Holding
      <3> QED
          BY Zenon, <1>3, <3>1, <3>2, <3>3
    <2>9. CASE enforceAgentOutboundPolicy(r) \/ saveOutboundPolicyDraft(r)
      <3>1. r \notin queue /\ UNCHANGED <<claims, queue, of>>
          BY Zenon, <2>9 DEF enforceAgentOutboundPolicy, saveOutboundPolicyDraft, Places, Goto, NotSent, End
      <3>2. /\ \A q \in Requests : q # r => pc'[q] = pc[q]
            /\ pc'[r] # "delete" /\ (of[r] \in Emails \/ pc'[r] = "done")
          BY ZenonT(60), <2>9 DEF enforceAgentOutboundPolicy, saveOutboundPolicyDraft, Subjects, Goto, NotSent,
             End, Tell
      <3>3. \A s \in Emails \union Keys : Holds(r, s)' => Holds(r, s)
          BY Zenon, <2>9, <3>1, <3>2 DEF enforceAgentOutboundPolicy, saveOutboundPolicyDraft, Holds, Holding
      <3> QED
          BY Zenon, <1>3, <3>1, <3>2, <3>3
    <2>10. CASE saveSentCopy(r) \/ SubmitForMessage(r) \/ removeSentCopy(r) \/ Complete(r) \/ Crash(r)
      <3>1. /\ UNCHANGED of /\ pc'[r] # "delete"
            /\ \A q \in Requests : q # r => pc'[q] = pc[q] /\ (q \in queue' <=> q \in queue)
          BY <2>10 DEF saveSentCopy, SubmitForMessage, removeSentCopy, Complete, AfterComplete, Crash,
             Unknown, NotSent, End, Tell, Goto
      <3>2. \A s \in Emails \union Keys : claims[s] # None => claims'[s] # None
          BY <2>10, Apart DEF saveSentCopy, SubmitForMessage, removeSentCopy, Complete, Crash
      <3>3. \A s \in Emails \union Keys : Holds(r, s)' => Holds(r, s)
          BY <2>10, <3>1 DEF saveSentCopy, SubmitForMessage, removeSentCopy, Complete, Crash, Holds,
             Holding, NotSent, End, Tell
      <3> QED
          BY Zenon, <1>3, <3>1, <3>2, <3>3
    <2>11. CASE Abandon(r)
      <3>1. /\ UNCHANGED <<of, queue>> /\ pc'[r] = "done" /\ r \notin queue
            /\ \A q \in Requests : q # r => pc'[q] = pc[q]
          BY Zenon, <2>11 DEF Abandon, Places, NotSent, End, Tell
      <3>2. \A s \in Emails \union Keys : ~Holds(r, s)'
          BY Zenon, <3>1 DEF Holds, Holding
      <3>3. \A s \in Emails \union Keys : claims'[s] # claims[s] => s = of[r] /\ Holds(r, s)
          BY Zenon, <2>11 DEF Abandon, Abandoned, InProcess, Holds, Holding
      <3>4. ASSUME NEW q \in Requests, NEW s \in Emails \union Keys, Holds(q, s), Holds(q, s)',
                   claims'[s] # claims[s]
            PROVE  s \in Emails /\ ~Single(s)
          BY <3>2, <3>3, <3>4 DEF KeysHeld, LinesHeld
      <3> QED
          BY Zenon, <1>3, <3>1, <3>2, <3>4
    <2>12. CASE RemoveSent(r)
      <3>1. of[r] \in Emails /\ Holds(r, of[r]) /\ UNCHANGED <<of, queue, claims>>
          BY Zenon, <2>12 DEF RemoveSent, Subjects, Holds, Holding, Goto, End
      <3>2. \A q \in Requests : q # r => pc'[q] = pc[q]
          BY Zenon, <2>12 DEF RemoveSent, Goto, End, Tell
      <3>3. pc'[r] = "delete" /\ line[of[r]] \notin doubled => rows'[of[r]] = 0
          BY Zenon, <2>12, <3>1, RemoveDrafts DEF RemoveSent, Goto, End, Tell
      <3>4. \A s \in Emails \union Keys : Holds(r, s)' => s = of[r]
          BY Zenon, <3>1 DEF Holds
      <3> QED
          BY Zenon, <1>3, <3>1, <3>2, <3>3, <3>4 DEF Single
    <2>13. CASE DeleteDraftSendClaim(r)
      <3>1. of[r] \in Emails /\ Holds(r, of[r]) /\ UNCHANGED <<of, queue, rows>> /\ pc'[r] = "done"
          BY Zenon, <2>13 DEF DeleteDraftSendClaim, Subjects, Holds, Holding, End, Tell, drafts
      <3>2. \A q \in Requests : q # r => pc'[q] = pc[q]
          BY Zenon, <2>13 DEF DeleteDraftSendClaim, End, Tell
      <3>3. Single(of[r]) => rows[of[r]] = 0
          BY Zenon, <2>13, <3>1 DEF DeleteDraftSendClaim, LinesHeld
      <3>4. \A s \in Emails \union Keys : claims'[s] # claims[s] => s = of[r]
          BY Zenon, <2>13 DEF DeleteDraftSendClaim
      <3>5. \A s \in Emails \union Keys : Holds(r, s)' => s = of[r]
          BY Zenon, <3>1 DEF Holds
      <3> QED
          BY <1>3, <3>1, <3>2, <3>3, <3>4, <3>5
    <2> QED
        BY Zenon, <1>4, <2>2, <2>3, <2>4, <2>5, <2>6, <2>7, <2>8, <2>9, <2>10, <2>11, <2>12, <2>13
           DEF Request, Handle
  <1> QED
      BY Zenon, <1>2, <1>4, Aside DEF Next, vars, requests

-----------------------------------------------------------------------------
(* Without faults. *)

\* A claim in process keeps its request, and a Sent copy gets its submission.
LEMMA QuietStep ==
  ASSUME TypeOK, Subjects, Places, Quiet, [Next]_vars
  PROVE  Quiet'
  <1> SUFFICES ASSUME used'["fault"] = 0 PROVE Quiet'
      BY Zenon DEF Quiet
  <1>1. ~Fault
      BY SpendTypes DEF Fault, Events
  <1>2. used["fault"] = 0
      BY ZenonT(60), <1>1 DEF Next, vars, Request, Handle, createDraft, updateDraft, deleteDraft, Expunge,
         CollectGarbage, AddSibling, Configure, sendDraft, ClaimLost, enforceAgentOutboundPolicy,
         createAgentSendIntent, createAgentDraft, automaticReply, Begin, sendMessage,
         claimAgentSendIntent, saveAgentOutboundDraft, saveOutboundPolicyDraft,
         enforceAgentDraftUpdatePolicy, updateAgentDraft, saveSentCopy, SubmitForMessage,
         removeSentCopy, Abandon, Complete, RemoveSent, DeleteDraftSendClaim, Crash,
         Start, Spend, TypeOK, Events
  <1>3. /\ \A s \in Emails \union Keys : claims[s] = Processing => \E r \in Requests : Waits(r, s)
        /\ \A r \in Requests : sent[r] = "live" => r \in queue \/ pc[r] \in {"submit", "cleanup"}
      BY Zenon, <1>2 DEF Quiet
  <1>4. ASSUME UNCHANGED <<pc, of, queue, sent>>, CollectGarbage \/ UNCHANGED claims PROVE Quiet'
    <2>1. \A r \in Requests, s \in Emails \union Keys : Waits(r, s)' = Waits(r, s)
        BY Zenon, <1>4 DEF Waits, Holds
    <2>2. \A s \in Emails \union Keys : claims'[s] = Processing => claims[s] = Processing
        BY Zenon, <1>4, Apart DEF CollectGarbage, TypeOK
    <2> QED
        BY Zenon, <1>3, <1>4, <2>1, <2>2 DEF Quiet
  <1>5. ASSUME NEW r \in Requests,
               \A q \in Requests : q # r =>
                 pc'[q] = pc[q] /\ of'[q] = of[q] /\ (q \in queue' <=> q \in queue) /\ sent'[q] = sent[q],
               \A s \in Emails \union Keys : claims'[s] = Processing =>
                 (claims[s] = Processing /\ ~Waits(r, s)) \/ Waits(r, s)',
               sent'[r] = "live" => r \in queue' \/ pc'[r] \in {"submit", "cleanup"}
        PROVE  Quiet'
    <2>1. \A q \in Requests, s \in Emails \union Keys : q # r => (Waits(q, s)' = Waits(q, s))
        BY Zenon, <1>5 DEF Waits, Holds
    <2>2. \A s \in Emails \union Keys : claims'[s] = Processing => \E q \in Requests : Waits(q, s)'
        BY Zenon, <1>3, <1>5, <2>1
    <2>3. \A q \in Requests : sent'[q] = "live" => q \in queue' \/ pc'[q] \in {"submit", "cleanup"}
        BY Zenon, <1>3, <1>5
    <2> QED
        BY Zenon, <2>2, <2>3 DEF Quiet
  <1>6. ASSUME NEW r \in Requests, Request(r) PROVE Quiet'
    <2> USE DEF At, TypeOK
    <2>1. ASSUME NEW s \in Emails \union Keys, NEW l \in {"save", "policy"}, Claim(r, s, l),
                 pc[r] \in {"idle", "claim"}, UNCHANGED <<queue, sent>>
          PROVE  Quiet'
      <3>1. \A q \in Requests : q # r => pc'[q] = pc[q] /\ of'[q] = of[q]
          BY Zenon, <2>1 DEF Claim, Turn, Tell
      <3>2. r \notin queue /\ sent[r] # "live" /\ \A x \in Emails \union Keys : ~Waits(r, x)
          BY Zenon, <1>3, <2>1 DEF Places, Waits, Holds, Holding
      <3>3. \A x \in Emails \union Keys : claims'[x] = Processing => claims[x] = Processing \/ Waits(r, x)'
          BY <2>1, Apart DEF Claim, Turn, Tell, Waits, Holds, Holding
      <3> QED
          BY Zenon, <1>5, <2>1, <3>1, <3>2, <3>3
    <2>2. CASE sendDraft(r)
        BY Zenon, <2>1, <2>2 DEF sendDraft, Start
    <2>3. CASE claimAgentSendIntent(r)
        BY Zenon, <2>1, <2>3 DEF claimAgentSendIntent, Subjects
    <2>4. CASE \/ createAgentSendIntent(r) \/ createAgentDraft(r) \/ automaticReply(r)
               \/ sendMessage(r) \/ enforceAgentDraftUpdatePolicy(r)
      <3>1. pc[r] = "idle" /\ UNCHANGED <<claims, queue, sent>>
          BY Zenon, <2>4 DEF createAgentSendIntent, createAgentDraft, automaticReply, Begin, Start,
             sendMessage, enforceAgentDraftUpdatePolicy
      <3>2. \A q \in Requests : q # r => pc'[q] = pc[q] /\ of'[q] = of[q]
          BY <2>4 DEF createAgentSendIntent, createAgentDraft, automaticReply, Begin, sendMessage,
             enforceAgentDraftUpdatePolicy, Turn
      <3>3. sent[r] # "live" /\ \A s \in Emails \union Keys : ~Waits(r, s)
          BY Zenon, <1>3, <3>1 DEF Waits, Holds, Holding, Places
      <3> QED
          BY Zenon, <1>5, <3>1, <3>2, <3>3
    <2>5. CASE saveAgentOutboundDraft(r) \/ updateAgentDraft(r)
      <3>1. pc[r] \in {"draft", "edit"} /\ UNCHANGED <<claims, queue, sent>>
          BY Zenon, <2>5 DEF saveAgentOutboundDraft, updateAgentDraft
      <3>2. \A q \in Requests : q # r => pc'[q] = pc[q] /\ of'[q] = of[q]
          BY Zenon, <2>5 DEF saveAgentOutboundDraft, updateAgentDraft, NotSent, End, Tell
      <3>3. sent[r] # "live" /\ \A s \in Emails \union Keys : ~Waits(r, s)
          BY Zenon, <1>3, <3>1 DEF Waits, Holds, Holding, Places
      <3> QED
          BY Zenon, <1>5, <3>1, <3>2, <3>3
    <2>6. CASE enforceAgentOutboundPolicy(r) \/ saveOutboundPolicyDraft(r)
      <3>1. pc[r] \in {"policy", "review"} /\ UNCHANGED <<claims, queue, sent, of>>
          BY Zenon, <2>6 DEF enforceAgentOutboundPolicy, saveOutboundPolicyDraft, Goto, NotSent, End
      <3>2. /\ \A q \in Requests : q # r => pc'[q] = pc[q]
            /\ of[r] \in Emails => pc'[r] \in {"review", "save", "abandon"}
            /\ pc[r] = "policy" => of[r] \in Emails
          BY Zenon, <2>6 DEF enforceAgentOutboundPolicy, saveOutboundPolicyDraft, Subjects, Goto, NotSent,
             End, Tell
      <3>3. sent[r] # "live" /\ r \notin queue
          BY Zenon, <1>3, <3>1 DEF Places
      <3>4. \A s \in Emails \union Keys : Waits(r, s) => Waits(r, s)'
          BY Zenon, <3>1, <3>2, <3>3 DEF Waits, Holds, Holding
      <3> QED
          BY Zenon, <1>5, <3>1, <3>2, <3>3, <3>4
    <2>7. CASE saveSentCopy(r) \/ SubmitForMessage(r) \/ removeSentCopy(r)
      <3>1. UNCHANGED <<claims, of>> /\ r \notin queue
          BY Zenon, <2>7, <1>1 DEF saveSentCopy, SubmitForMessage, removeSentCopy, Places, Goto
      <3>2. /\ pc[r] \in Holding /\ pc'[r] \in {"submit", "cleanup", "abandon", "complete"}
            /\ \A q \in Requests : q # r =>
                 pc'[q] = pc[q] /\ (q \in queue' <=> q \in queue) /\ sent'[q] = sent[q]
          BY Zenon, <2>7, <1>1 DEF saveSentCopy, SubmitForMessage, removeSentCopy, Goto, Holding
      <3>3. sent'[r] = "live" => r \in queue' \/ pc'[r] \in {"submit", "cleanup"}
          BY Zenon, <1>1, <1>3, <2>7 DEF saveSentCopy, SubmitForMessage, removeSentCopy, Goto, Places
      <3>4. \A s \in Emails \union Keys : Waits(r, s) => Waits(r, s)'
          BY Zenon, <3>1, <3>2 DEF Waits, Holds, Holding
      <3> QED
          BY Zenon, <1>5, <3>1, <3>2, <3>3, <3>4
    <2>8. CASE Abandon(r)
      <3>1. /\ pc[r] = "abandon" /\ claims' = Abandoned(of[r]) /\ UNCHANGED <<sent, queue, of>>
            /\ \A q \in Requests : q # r => pc'[q] = pc[q]
          BY Zenon, <1>1, <2>8 DEF Abandon, NotSent, End, Tell
      <3>2. sent[r] # "live"
          BY Zenon, <1>3, <3>1 DEF Places
      <3>3. \A s \in Emails \union Keys : claims'[s] = Processing => claims[s] = Processing /\ s # of[r]
          BY Zenon, <3>1, Apart DEF Abandoned, InProcess
      <3> QED
          BY Zenon, <1>5, <3>1, <3>2, <3>3 DEF Waits, Holds
    <2>9. CASE Complete(r)
      <3>1. /\ r \in queue /\ UNCHANGED <<sent, queue, of>>
            /\ claims' = IF InProcess(of[r]) THEN [claims EXCEPT ![of[r]] = r] ELSE claims
            /\ \A q \in Requests : q # r => pc'[q] = pc[q]
          BY Zenon, <1>1, <2>9 DEF Complete, AfterComplete, Places, End, Tell, Goto
      <3>2. \A s \in Emails \union Keys : claims'[s] = Processing => claims[s] = Processing /\ s # of[r]
          BY Zenon, <3>1, Apart DEF InProcess
      <3> QED
          BY Zenon, <1>5, <3>1, <3>2 DEF Waits, Holds
    <2>10. CASE RemoveSent(r) \/ DeleteDraftSendClaim(r)
      <3>1. /\ pc[r] \in {"remove", "delete"} /\ r \in queue /\ UNCHANGED <<sent, queue, of>>
            /\ \A q \in Requests : q # r => pc'[q] = pc[q]
          BY Zenon, <2>10 DEF RemoveSent, DeleteDraftSendClaim, Places, End, Tell, Goto
      <3>2. \A s \in Emails \union Keys : claims'[s] = Processing => claims[s] = Processing
          BY <2>10, Apart DEF RemoveSent, DeleteDraftSendClaim
      <3> QED
          BY Zenon, <1>5, <3>1, <3>2 DEF Waits
    <2> QED
        BY Zenon, <1>1, <1>6, <2>2, <2>3, <2>4, <2>5, <2>6, <2>7, <2>8, <2>9, <2>10
           DEF Request, Handle, ClaimLost, Crash
  <1> QED
      BY Zenon, <1>4, <1>6, Aside DEF Next, vars, requests

-----------------------------------------------------------------------------
(* The theorems. *)

\* The invariant holds at first ...
LEMMA InvInit == Init => IInv
  BY TypesInit, Apart DEF Init, IInv, Subjects, OnLine, Tables, Places, Answers, KeysHeld, LinesHeld,
     Quiet, Holds, Holding, Single, Lines, TypeOK

\* ... every step keeps it ...
LEMMA InvStep == IInv /\ [Next]_vars => IInv'
  BY Zenon, TypesStep, SubjectsStep, TablesStep, OnLineStep, PlacesStep, AnswersStep, HeldStep, KeysHeldStep,
     LinesHeldStep, QuietStep DEF IInv

\* ... and so it always holds.
THEOREM Invariance == Spec => []IInv
  BY InvInit, InvStep, PTL DEF Spec

\* No Draft of the owner is submitted twice, over its edits, retries on other nodes,
\* crashes and results that were lost, unless it was filed in two Drafts mailboxes;
\* nor is an intent or a reply with an Agent's key (ClaimDraftSend,
\* ClaimAgentSendIntent and what follows them in sendDraft and sendMessage).
THEOREM SendsOnce == Spec => []SentOnce
  <1>1. IInv => SentOnce
    <2> SUFFICES ASSUME IInv PROVE SentOnce
        BY Zenon
    <2> SUFFICES ASSUME NEW p \in queue, NEW q \in queue,
                        \/ of[p] \in Keys /\ of[q] = of[p]
                        \/ /\ {of[p], of[q]} \subseteq Emails /\ line[of[p]] = line[of[q]]
                           /\ line[of[p]] \in Drafts \ doubled
                 PROVE  p = q
        BY Zenon DEF SentOnce
    <2>1. p \in Requests /\ q \in Requests /\ Holds(p, of[p]) /\ Holds(q, of[q])
        BY Zenon DEF IInv, TypeOK, Holds
    <2>2. CASE of[p] \in Keys /\ of[q] = of[p]
        BY Zenon, <2>1, <2>2 DEF IInv, KeysHeld
    <2>3. CASE {of[p], of[q]} \subseteq Emails
        BY Zenon, <2>1, <2>3, <2>2 DEF IInv, LinesHeld, Single
    <2> QED
        BY Zenon, <2>2, <2>3
  <1> QED
      BY <1>1, Invariance, PTL

\* A request is answered with "accepted" and a message only when that message was
\* queued for what the request asked to send, with its Sent copy in place, also when
\* the answer is read from the claim of another request.
THEOREM AcceptedQueued == Spec => []AcceptedIsQueued
  <1>1. IInv => AcceptedIsQueued
      BY Zenon, Apart DEF IInv, AcceptedIsQueued, Answers, Places, TypeOK
  <1> QED
      BY <1>1, Invariance, PTL

\* When no statement failed unexpectedly and no node crashed, requests that have been
\* answered leave no claim in process, and Sent holds exactly what was queued.
THEOREM QuietAgreement == Spec => []QuietAgrees
  <1>1. IInv => QuietAgrees
    <2> SUFFICES ASSUME IInv, used["fault"] = 0, \A r \in Requests : pc[r] \in {"idle", "done"}
                 PROVE  /\ \A s \in DOMAIN claims : claims[s] # Processing
                        /\ \A r \in Requests : sent[r] = "live" <=> r \in queue
        BY Zenon DEF QuietAgrees
    <2>1. \A r \in Requests, s \in Emails \union Keys : ~Waits(r, s)
        BY Zenon DEF IInv, Places, Waits, Holds, Holding
    <2>2. \A s \in DOMAIN claims : claims[s] # Processing
        BY Zenon, <2>1 DEF IInv, Quiet, TypeOK
    <2>3. \A r \in Requests : sent[r] = "live" <=> r \in queue
        BY Zenon DEF IInv, Quiet, Places
    <2> QED
        BY Zenon, <2>2, <2>3
  <1> QED
      BY <1>1, Invariance, PTL

\* One Draft waits for the confirmation of an intent, and one for the review of a text,
\* unless it was filed in two Drafts mailboxes; no Draft is in both workflows
\* (saveAgentOutboundDraft, saveOutboundPolicyDraft and the metadata that follows edits).
THEOREM OneDraft == Spec => []KeyHasOneDraft
  <1>1. IInv => KeyHasOneDraft
    <2> SUFFICES ASSUME IInv PROVE KeyHasOneDraft
        BY Zenon
    <2> USE DEF IInv
    <2>1. ASSUME NEW d \in Emails, NEW e \in Emails, rows[d] > 0, rows[e] > 0, line[d] = line[e],
                 line[d] \in (Keys \union ReviewLines) \ doubled
          PROVE  d = e
      <3>1. CASE line[d] \in Keys
          BY <2>1, <3>1 DEF Tables
      <3>2. CASE line[d] \in ReviewLines
        <4>1. PICK t \in Texts : line[d] = <<t>>
            BY Zenon, <3>2 DEF ReviewLines
        <4>2. review[t] = d /\ review[t] = e
            BY Zenon, <2>1, <4>1 DEF Tables
        <4> QED
            BY Zenon, <4>2
      <3> QED
          BY Zenon, <2>1, <3>1, <3>2
    <2>2. ASSUME NEW e \in Emails, NEW t \in Texts, review[t] = e, NEW k \in Keys, meta[k] = e
          PROVE  FALSE
      <3>1. line[e] = <<t>> /\ line[e] = k
          BY <2>2, Apart DEF Tables
      <3>2. <<t>> \in ReviewLines
          BY Zenon DEF ReviewLines
      <3> QED
          BY Zenon, <3>1, <3>2, Apart
    <2> QED
        BY Zenon, <2>1, <2>2 DEF KeyHasOneDraft, HasPolicy, HasAgentDraft
  <1> QED
      BY <1>1, Invariance, PTL
=============================================================================

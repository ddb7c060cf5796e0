---------------------------- MODULE AgentAccess -----------------------------
(***************************************************************************)
(* Who may act for an Agent mailbox: device authorization requests, the    *)
(* binding and credential an approved one is exchanged for, and what       *)
(* replaces, revokes or outlives them (storage/postgres/                   *)
(* agent_authorization.go, DeleteAgentMailbox of directory.go, the trigger *)
(* of schema/25, and the handlers of protocol/webapi).                     *)
(*                                                                         *)
(* Every call is a transaction of several statements under READ COMMITTED. *)
(* An UPDATE reads the rows it is to change (Scan), waits for those that   *)
(* another transaction has changed, and changes the ones that still match  *)
(* (Apply).  What a transaction has written is its own until it commits:   *)
(* cr, br and new of its record are its row locks too.  A call that a      *)
(* check refuses leaves everything as it was, and is not a step.           *)
(***************************************************************************)
EXTENDS Integers, FiniteSets, Relation

CONSTANTS
    Calls,        \* calls that may be under way at once
    Mailboxes,    \* accounts registered as Agent mailboxes ...
    Home,         \* ... and the owner and the Space of each
    Callers,      \* human owners, each authenticated in one Space
    Requests,     \* device authorization requests
    MaxBindings,  \* ids of agent_bindings
    Scenes        \* how many calls of each operation there are

Ops == {"approve", "exchange", "revoke", "delete", "mode", "designate",
        "undesignate", "agent", "expire", "fail"}

Modes == {"manual_confirmation", "automatic_send"}

Bindings == 1 .. MaxBindings

ASSUME AccessAssumption ==
    /\ \A m \in Mailboxes : {"owner", "space"} \subseteq DOMAIN Home[m]
    /\ MaxBindings \in Nat /\ Scenes \subseteq [Ops -> Nat]
    /\ \A s \in Scenes : s["exchange"] <= MaxBindings

VARIABLES
    disabled, default,  \* accounts: deleted; default account of a gateway identity
    req,                \* agent_auth_requests
    bind,               \* agent_bindings, as committed
    cred,               \* agent_binding_credentials, by the id of their binding
    serial,             \* last id of agent_bindings handed out
    call,               \* the calls under way
    left,               \* calls still to come, of each operation
    approvals,          \* history: approvals committed for each request
    condemned           \* history: credentials that a committed call had to end

vars == <<disabled, default, req, bind, cred, serial, call, left, approvals, condemned>>
tables == <<disabled, default, req, bind, cred, serial>>
history == <<approvals, condemned>>

Idle == [op |-> "none", pc |-> "idle", m |-> "none", r |-> "none", mode |-> "none",
         n |-> 0, rows |-> {}, cr |-> {}, br |-> {}, old |-> {}]

Init ==
    /\ disabled = {} /\ default = {}
    /\ req = [r \in Requests |-> [status |-> "none", space |-> "none", owner |-> "none",
                                  m |-> "none", mode |-> "none", expired |-> FALSE]]
    /\ bind = [n \in Bindings |-> [status |-> "none", m |-> "none", r |-> "none",
                                   mode |-> "none"]]
    /\ cred = [n \in Bindings |-> "none"]
    /\ serial = 0
    /\ call = [p \in Calls |-> Idle]
    /\ left \in Scenes
    /\ approvals = [r \in Requests |-> {}] /\ condemned = {}

------------------------------------------------------------------------------
\* What the statements read and lock.

\* The account is the owner's, enabled, registered in the Space and not the default
\* account of a gateway identity of it: the check of every call of an owner.
Owned(owner, space, m) ==
    /\ Home[m].owner = owner /\ Home[m].space = space
    /\ m \notin disabled /\ m \notin default

\* The mailboxes an owner sees in a Space.
AgentMailboxes(w) == {m \in Mailboxes : Owned(w.owner, w.space, m)}

requireAgentMailboxInSpace(w, m) == m \in AgentMailboxes(w)

Active(m) == {n \in Bindings : bind[n].status = "active" /\ bind[n].m = m}

Live(S) == {n \in S : cred[n] = "live"}

\* FOR UPDATE on the request's row.
ReqFree_Unlocked(p, r) == TRUE
ReqFree(p, r) ==
    \A q \in Calls \ {p} : call[q].op \in {"approve", "exchange"} => call[q].r # r

\* FOR UPDATE OF acc, which a reference to the account (KEY SHARE) waits for.
Deleting_Unlocked(p, m) == {}
Deleting(p, m) == {q \in Calls \ {p} : call[q].op = "delete" /\ call[q].m = m}

\* A reference to the account that is not yet committed, which FOR UPDATE waits for.
Referring(p, m) == {q \in Calls \ {p} : call[q].op = "designate" /\ call[q].m = m}

\* Active bindings of the account that the unique index finds when p inserts one: those
\* committed that p has not revoked.
Rivals(p) == Active(call[p].m) \ call[p].br

\* The transactions p's next statement has to wait for.
Blockers(p) ==
    LET c == call[p] IN
    {q \in Calls \ {p} :
        CASE c.pc = "creds apply" -> c.rows \intersect call[q].cr # {}
          [] c.pc \in {"binds apply", "mode apply"} -> c.rows \intersect call[q].br # {}
          [] c.pc = "insert" -> \/ Rivals(p) \intersect call[q].br # {}
                                \/ call[q].op = "exchange" /\ call[q].m = c.m /\ call[q].n # 0
          [] c.pc = "update" -> q \in Deleting(p, c.m)
          [] c.pc = "commit" -> q \in Deleting(p, c.m)
          [] OTHER -> FALSE}

\* PostgreSQL ends a transaction of a cycle of waiting ones.
InCycle(p) ==
    LET waits == [e \in Calls \X Calls |-> e[2] \in Blockers(e[1])]
    IN  Blockers(p) # {} /\ TransitiveClosure(waits, Calls)[p, p]

------------------------------------------------------------------------------
\* Beginnings, waits and ends of calls.

Starts(p, op, rec) ==
    /\ call[p] = Idle /\ left[op] > 0
    /\ left' = [left EXCEPT ![op] = @ - 1]
    /\ call' = [call EXCEPT ![p] = [k \in DOMAIN Idle |->
                    IF k = "op" THEN op ELSE IF k \in DOMAIN rec THEN rec[k] ELSE Idle[k]]]

Goes(p, rec) ==
    /\ call' = [call EXCEPT ![p] = [k \in DOMAIN Idle |->
                    IF k \in DOMAIN rec THEN rec[k] ELSE @[k]]]
    /\ UNCHANGED left

Ends(p) == call' = [call EXCEPT ![p] = Idle] /\ UNCHANGED left

At(p, pc) == call[p].pc = pc /\ Blockers(p) = {}

\* COMMIT of what p has revoked.
Revoked(p) ==
    /\ cred' = [n \in Bindings |-> IF n \in call[p].cr THEN "revoked" ELSE cred[n]]
    /\ bind' = [n \in Bindings |-> IF n \in call[p].br
                                   THEN [bind[n] EXCEPT !.status = "revoked"] ELSE bind[n]]

\* Rollback: the connection or the node is lost, or a deadlock is broken.  An id of
\* agent_bindings stays used.
Rollback(p) ==
    /\ call[p].op \notin {"none", "agent"}
    /\ call' = [call EXCEPT ![p] = Idle]
    /\ \/ InCycle(p) /\ UNCHANGED left
       \/ left["fail"] > 0 /\ left' = [left EXCEPT !["fail"] = @ - 1]
    /\ UNCHANGED <<tables, history>>

------------------------------------------------------------------------------
\* Requests: created by the Agent's device, approved by an owner in the browser.

CreateAgentAuthorization(r, space) ==
    /\ req[r].status = "none"
    /\ req' = [req EXCEPT ![r].status = "pending", ![r].space = space]
    /\ UNCHANGED <<disabled, default, bind, cred, serial, call, left, history>>

createAgentDeviceAuthorization(r) ==
    \E w \in Callers : CreateAgentAuthorization(r, w.space)

\* Ten minutes have passed.
Expire(r) ==
    /\ left["expire"] > 0 /\ req[r].status \in {"pending", "approved"} /\ ~req[r].expired
    /\ req' = [req EXCEPT ![r].expired = TRUE]
    /\ left' = [left EXCEPT !["expire"] = @ - 1]
    /\ UNCHANGED <<disabled, default, bind, cred, serial, call, history>>

\* The mode that a caller asks for, by the enum, by the former boolean or by neither.
resolveOutboundMode(mode, legacy) ==
    CASE mode \in Modes /\ legacy \in {"unset", mode} -> mode
      [] mode = "unset" /\ legacy \in Modes -> legacy
      [] mode = "unset" /\ legacy = "unset" -> "manual_confirmation"
      [] OTHER -> "invalid"

Inputs == Modes \union {"unset"}

\* The row is locked and read, and the mailbox looked up ...
ApproveAgentAuthorization(p, r, w, m, mode) ==
    /\ req[r].status = "pending" /\ ~req[r].expired /\ ReqFree(p, r)
    /\ w.space = req[r].space /\ Owned(w.owner, w.space, m)
    /\ Starts(p, "approve", [pc |-> "update", r |-> r, m |-> m, mode |-> mode])
    /\ UNCHANGED <<tables, history>>

approveAgentAuthorization(p) ==
    \E r \in Requests, w \in Callers, m \in Mailboxes, in \in Inputs, legacy \in Inputs :
        /\ resolveOutboundMode(in, legacy) # "invalid"
        /\ ApproveAgentAuthorization(p, r, w, m, resolveOutboundMode(in, legacy))

\* ... and the request is approved; it refers to the account from now on.
Approved(p) ==
    LET c == call[p] IN
    /\ At(p, "update")
    /\ req' = [req EXCEPT ![c.r].status = "approved", ![c.r].owner = Home[c.m].owner,
                          ![c.r].m = c.m, ![c.r].mode = c.mode]
    /\ approvals' = [approvals EXCEPT ![c.r] = @ \union {<<c.m, c.mode>>}]
    /\ Ends(p)
    /\ UNCHANGED <<disabled, default, bind, cred, serial, condemned>>

------------------------------------------------------------------------------
\* Transactions that end the credentials of a mailbox.

\* The request is locked, still approved and in time, the mailbox looked up again.
ExchangeAgentAuthorization(p, r) ==
    /\ req[r].status = "approved" /\ ~req[r].expired /\ ReqFree(p, r)
    /\ Owned(req[r].owner, req[r].space, req[r].m)
    /\ Starts(p, "exchange", [pc |-> "creds", r |-> r, m |-> req[r].m, mode |-> req[r].mode,
                              old |-> Live(Active(req[r].m))])
    /\ UNCHANGED <<tables, history>>

exchangeAgentAuthorization(p) == \E r \in Requests : ExchangeAgentAuthorization(p, r)

\* The handler lists the owner's mailboxes ...
revokeAgentMailboxBinding(p) ==
    \E w \in Callers, m \in Mailboxes :
        /\ requireAgentMailboxInSpace(w, m)
        /\ Starts(p, "revoke", [pc |-> "check", m |-> m])
        /\ UNCHANGED <<tables, history>>

\* ... and the transaction looks at the one again.
RevokeAgentBinding(p) ==
    LET m == call[p].m IN
    /\ At(p, "check") /\ call[p].op = "revoke"
    /\ IF Owned(Home[m].owner, Home[m].space, m)
       THEN Goes(p, [pc |-> "creds", old |-> Live(Active(m))]) ELSE Ends(p)
    /\ UNCHANGED <<tables, history>>

DeleteAgentMailbox(p, w, m) ==
    /\ Deleting(p, m) = {} /\ Referring(p, m) = {}
    /\ Owned(w.owner, w.space, m)
    /\ Starts(p, "delete", [pc |-> "creds", m |-> m, old |-> Live(Active(m))])
    /\ UNCHANGED <<tables, history>>

deleteAgentMailbox(p) ==
    \E w \in Callers, m \in Mailboxes : DeleteAgentMailbox(p, w, m)

\* An operator makes the account the default one of a gateway identity, by SQL.
Designate(p) ==
    \E m \in Mailboxes \ default :
        /\ Deleting(p, m) = {}
        /\ Starts(p, "designate", [pc |-> "creds", m |-> m, old |-> Live(Active(m))])
        /\ UNCHANGED <<tables, history>>

\* Credentials first: those of active bindings; the trigger takes every one's.
CredsScan(p) ==
    LET m == call[p].m IN
    /\ At(p, "creds")
    /\ Goes(p, [pc |-> "creds apply",
                rows |-> Live(IF call[p].op = "designate"
                              THEN {n \in Bindings : bind[n].m = m} ELSE Active(m))])
    /\ UNCHANGED <<tables, history>>

CredsApply(p) ==
    /\ At(p, "creds apply")
    /\ Goes(p, [pc |-> "binds", rows |-> {}, cr |-> Live(call[p].rows)])
    /\ UNCHANGED <<tables, history>>

BindsScan(p) ==
    /\ At(p, "binds")
    /\ Goes(p, [pc |-> "binds apply", rows |-> Active(call[p].m)])
    /\ UNCHANGED <<tables, history>>

BindsApply(p) ==
    /\ At(p, "binds apply")
    /\ Goes(p, [pc |-> IF call[p].op = "exchange" THEN "insert" ELSE "end", rows |-> {},
                br |-> call[p].rows \intersect Active(call[p].m)])
    /\ UNCHANGED <<tables, history>>

\* COMMIT of a revocation, a deletion or the trigger's statement.
End(p) ==
    LET c == call[p] IN
    /\ At(p, "end")
    /\ Revoked(p)
    /\ disabled' = IF c.op = "delete" THEN disabled \union {c.m} ELSE disabled
    /\ default' = IF c.op = "designate" THEN default \union {c.m} ELSE default
    /\ condemned' = condemned \union c.old
    /\ Ends(p)
    /\ UNCHANGED <<req, serial, approvals>>

\* The unique index lets one active binding of a mailbox in; an earlier one that has
\* been committed since the scan fails the exchange.
InsertBinding(p) ==
    /\ At(p, "insert")
    /\ \/ /\ Rivals(p) = {}
          /\ serial' = serial + 1
          /\ Goes(p, [pc |-> "commit", n |-> serial + 1])
       \/ Rivals(p) # {} /\ Ends(p) /\ UNCHANGED serial
    /\ UNCHANGED <<disabled, default, req, bind, cred, history>>

\* The reference to the account holds; credential, status and COMMIT.
Exchanged(p) ==
    LET c == call[p] IN
    /\ At(p, "commit")
    /\ bind' = [n \in Bindings |->
                  CASE n \in c.br -> [bind[n] EXCEPT !.status = "revoked"]
                    [] n = c.n -> [status |-> "active", m |-> c.m, r |-> c.r, mode |-> c.mode]
                    [] OTHER -> bind[n]]
    /\ cred' = [n \in Bindings |-> CASE n \in c.cr -> "revoked"
                                     [] n = c.n -> "live"
                                     [] OTHER -> cred[n]]
    /\ req' = [req EXCEPT ![c.r].status = "exchanged"]
    /\ condemned' = condemned \union c.old
    /\ Ends(p)
    /\ UNCHANGED <<disabled, default, serial, approvals>>

\* The identity is disabled, or points to another account: the mailbox is registered,
\* so the other trigger leaves its bindings alone.
Undesignate(m) ==
    /\ left["undesignate"] > 0 /\ m \in default
    /\ left' = [left EXCEPT !["undesignate"] = @ - 1]
    /\ default' = default \ {m}
    /\ UNCHANGED <<disabled, req, bind, cred, serial, call, history>>

------------------------------------------------------------------------------
\* The mode of the active binding, which the owner may change.

updateAgentMailboxAutomation(p) ==
    \E w \in Callers, m \in Mailboxes, in \in Inputs, legacy \in Inputs :
        LET mode == resolveOutboundMode(in, legacy) IN
        /\ mode # "invalid" /\ requireAgentMailboxInSpace(w, m)
        /\ Starts(p, "mode", [pc |-> "check", m |-> m, mode |-> mode])
        /\ UNCHANGED <<tables, history>>

SetAgentOutboundMode(p) ==
    LET m == call[p].m IN
    /\ At(p, "check") /\ call[p].op = "mode"
    /\ IF Owned(Home[m].owner, Home[m].space, m) THEN Goes(p, [pc |-> "mode"]) ELSE Ends(p)
    /\ UNCHANGED <<tables, history>>

ModeScan(p) ==
    /\ At(p, "mode")
    /\ Goes(p, [pc |-> "mode apply", rows |-> Active(call[p].m)])
    /\ UNCHANGED <<tables, history>>

\* No row that is still active: the owner is told that there is no connection.
ModeApply(p) ==
    /\ At(p, "mode apply")
    /\ bind' = [n \in Bindings |->
                   IF n \in call[p].rows \intersect Active(call[p].m)
                   THEN [bind[n] EXCEPT !.mode = call[p].mode] ELSE bind[n]]
    /\ Ends(p)
    /\ UNCHANGED <<disabled, default, req, cred, serial, history>>

------------------------------------------------------------------------------
\* Calls of the Agent.

\* Both queries look for the credential, its active binding and the registration.
Usable(n) ==
    /\ cred[n] = "live" /\ bind[n].status = "active" /\ bind[n].m \notin default

AuthenticateAgentCredential(n) == Usable(n) /\ bind[n].m \notin disabled

AgentAutomationAllowed(n, operation) ==
    /\ Usable(n)
    /\ IF operation = "mail.draft.send" THEN bind[n].mode = "manual_confirmation"
       ELSE /\ bind[n].mode = "automatic_send"
            /\ operation \in {"mail.message.send", "mail.message.reply"}

\* The one kind of write that either header allows, of those that need an owner.
validateAutomatedWrite(automation, operation) ==
    \/ automation = "auto-reply" /\ operation = "mail.message.reply"
    \/ automation = "owner-confirmed-draft" /\ operation = "mail.draft.send"

Automations == {"none", "auto-reply", "owner-confirmed-draft"}

\* Operations mounted with hAgentConfirmed.
Guarded == {"mail.message.send", "mail.message.delete", "mail.message.reply",
            "mail.message.reply_all", "mail.message.forward"}

\* The credential is checked first; a guarded operation of an Agent needs a header.
hAgentConfirmed(p) ==
    \E operation \in Guarded, automation \in Automations, n \in Bindings :
        /\ AuthenticateAgentCredential(n)
        /\ automation # "none" /\ validateAutomatedWrite(automation, operation)
        /\ Starts(p, "agent", [pc |-> "gate", n |-> n, mode |-> operation])
        /\ UNCHANGED <<tables, history>>

\* Then the mode is read.
requireScopedAutomation(p) ==
    /\ At(p, "gate")
    /\ IF AgentAutomationAllowed(call[p].n, call[p].mode)
       THEN Goes(p, [pc |-> "send"]) ELSE Ends(p)
    /\ UNCHANGED <<tables, history>>

\* A send intent: sent if the mode allows it and it is plain text, a Draft otherwise.
createAgentSendIntent(p) ==
    \/ /\ \E n \in Bindings : AuthenticateAgentCredential(n)
                             /\ Starts(p, "agent", [pc |-> "intent", n |-> n])
       /\ UNCHANGED <<tables, history>>
    \/ /\ At(p, "intent")
       /\ \E plain \in BOOLEAN :
            Goes(p, [pc |-> IF plain /\ AgentAutomationAllowed(call[p].n, "mail.message.send")
                            THEN "send" ELSE "draft"])
       /\ UNCHANGED <<tables, history>>

\* The handler sends the message, or saves it; nothing above is looked at again.
Acts(p) ==
    /\ call[p].pc \in {"send", "draft"}
    /\ Ends(p)
    /\ UNCHANGED <<tables, history>>

\* No call is left.
Quiet ==
    /\ \A p \in Calls : call[p] = Idle
    /\ UNCHANGED vars

Step(p) ==
    \/ Rollback(p)
    \/ approveAgentAuthorization(p) \/ Approved(p)
    \/ exchangeAgentAuthorization(p) \/ revokeAgentMailboxBinding(p)
    \/ RevokeAgentBinding(p) \/ deleteAgentMailbox(p) \/ Designate(p)
    \/ CredsScan(p) \/ CredsApply(p) \/ BindsScan(p) \/ BindsApply(p)
    \/ End(p) \/ InsertBinding(p) \/ Exchanged(p)
    \/ updateAgentMailboxAutomation(p) \/ SetAgentOutboundMode(p)
    \/ ModeScan(p) \/ ModeApply(p)
    \/ hAgentConfirmed(p) \/ requireScopedAutomation(p)
    \/ createAgentSendIntent(p) \/ Acts(p)

Next ==
    \/ \E p \in Calls : Step(p)
    \/ \E r \in Requests : createAgentDeviceAuthorization(r) \/ Expire(r)
    \/ \E m \in Mailboxes : Undesignate(m)
    \/ Quiet

Spec == Init /\ [][Next]_vars

------------------------------------------------------------------------------
\* Properties.

\* A mailbox has at most one credential that authenticates, none that a committed
\* revocation, deletion, designation or later exchange found in force when it began
\* (ExchangeAgentAuthorization: "Rebinding is atomic"), and it is the only one of its
\* request, for the one mailbox the request was approved for, however the
\* transactions interleave.
AuthorityCurrent ==
    \A n \in {k \in Bindings : AuthenticateAgentCredential(k)} :
        /\ n \notin condemned
        /\ \A k \in Bindings \ {n} :
             /\ bind[k].r # bind[n].r
             /\ bind[k].m = bind[n].m => ~AuthenticateAgentCredential(k)
        /\ \A a \in approvals[bind[n].r] : a[1] = bind[n].m
        /\ Cardinality(approvals[bind[n].r]) = 1

\* When AgentAutomationAllowed lets a call send by itself, the mailbox has not been
\* deleted and the credential not been ended since it authenticated, although only
\* the first of the two queries looks at the account.
GateHolds ==
    [][\A p \in Calls :
         call[p].pc # "send" /\ call'[p].pc = "send" =>
            LET n == call[p].n IN
            /\ bind[n].m \notin disabled \union default
            /\ n \notin condemned]_vars

=============================================================================

------------------------------ MODULE Gateway -------------------------------
(***************************************************************************)
(* Requests that the OCTO gateway signs for its users: an assertion is     *)
(* verified by the clock of the node it reaches and its nonce consumed     *)
(* (security/gatewayassert, storage/postgres/gateway_identity.go); the     *)
(* user is provisioned on first use (gateway_provisioning.go), and makes   *)
(* Agent mailboxes and aliases (directory.go), while an administrator      *)
(* binds users to accounts of their own (ops/webadmin).                    *)
(*                                                                         *)
(* A transaction is a sequence of statements under READ COMMITTED.  A row  *)
(* it has inserted (login and addr of its record) or locked makes others   *)
(* wait until it ends.  There is one domain, and everybody's is that one.  *)
(* A principal goes by the number of the account it was created with.      *)
(***************************************************************************)
EXTENDS Integers, FiniteSets, FiniteSetsExt, Relation

CONSTANTS
    Calls,         \* requests that may be under way at once
    Nodes, Ahead,  \* nodes, and how far the clock of each is ahead of the gateway's
    Tokens,        \* assertions
    Idents, Space, \* issuer and subject in a Space; the Space of each
    Names,         \* localparts that a user may ask for
    Lifetime, MaxLifetime, ClockSkew, Retention,
    MaxMailboxes,  \* Agent mailboxes of an owner in a Space
    MaxAccounts,   \* ids of accounts
    None,          \* nothing: no assertion, no localpart, no Space
    Scenes         \* how often each thing happens

Accounts == 1 .. MaxAccounts

\* What an assertion is signed for, and what else happens.
Signed == {"ensure", "create", "delete", "alias", "unalias", "read"}
Events == Signed \union {"resend", "tick", "bind", "address", "fail"}

\* How far two clocks are apart.
Spread == Max({Ahead[a] - Ahead[b] : <<a, b>> \in Nodes \X Nodes})

ASSUME GatewayAssumption ==
    /\ Lifetime \in 1 .. MaxLifetime /\ ClockSkew \in Nat
    /\ Spread <= Retention /\ Scenes \subseteq [Events -> Nat]
    /\ MaxMailboxes \in Nat \ {0}

VARIABLES
    now,          \* the gateway's clock
    token,        \* the assertions signed
    nonce,        \* gateway_assertion_nonces
    account,      \* accounts with their registrations
    login,        \* logins of principals, which stay
    addr, alias,  \* addresses; those that are aliases
    identity,     \* gateway_identities: the default account of each
    call,         \* requests under way
    left,         \* events still to come
    accepted,     \* history: how often an assertion was accepted
    late,         \* history: assertions consumed long after they were verified
    answered      \* history: the account each identity was given, unless bound since

vars == <<now, token, nonce, account, login, addr, alias, identity, call, left,
          accepted, late, answered>>
assertions == <<token, nonce, accepted, late>>
tables == <<account, login, addr, alias, identity, answered>>

\* The preferred localpart with a digest of the identity.
suffixedGatewayLocalpart(l, i) == <<l, i>>

Localparts == Names \union {suffixedGatewayLocalpart(l, i) : l \in Names, i \in Idents}

Idle == [pc |-> "idle", op |-> "none", t |-> None, i |-> None, local |-> None, acc |-> 0,
         sel |-> 0, vt |-> 0, at |-> 0, login |-> None, addr |-> None]

Exists == {n \in Accounts : account[n].owner # 0}

Init ==
    /\ now = 0 /\ token = [t \in Tokens |-> None] /\ nonce = {}
    /\ account = [n \in Accounts |-> [owner |-> 0, space |-> None, local |-> None,
                                      disabled |-> FALSE]]
    /\ login = {} /\ addr = [l \in Localparts |-> 0] /\ alias = {}
    /\ identity = [i \in Idents |-> 0]
    /\ call = [p \in Calls |-> Idle] /\ left \in Scenes
    /\ accepted = [t \in Tokens |-> 0] /\ late = {} /\ answered = [i \in Idents |-> 0]

------------------------------------------------------------------------------
\* Locks and waits.

Creating == {"principal", "address", "reference"}

\* FOR UPDATE on the owner's principal: creations that hold it.
OwnerLocked_Not(p, o) == {}
OwnerLocked(p, o) ==
    {q \in Calls \ {p} : call[q].op = "create" /\ call[q].pc \in Creating /\ call[q].acc = o}

\* FOR UPDATE on the domain: provisionings that hold it.
DomainLocked(p) ==
    {q \in Calls \ {p} : call[q].op = "ensure"
                         /\ call[q].pc \in {"again", "principal", "address", "commit"}}

\* KEY SHARE on the domain: an address of it is inserted and the transaction goes on.
DomainShared(p) == {q \in Calls \ {p} : call[q].op = "address" /\ call[q].pc = "principal"}

\* The transactions p's next statement has to wait for.
Blockers(p) ==
    LET c == call[p] IN
    CASE c.pc = "domain" -> DomainLocked(p) \union DomainShared(p)
      [] c.pc = "reference" -> DomainLocked(p)
      [] c.pc \in {"owner", "upsert"} -> OwnerLocked(p, c.acc)
      [] c.pc = "principal" -> {q \in Calls \ {p} : call[q].login = c.local}
      [] c.pc = "address" -> {q \in Calls \ {p} : call[q].addr = c.local}
      [] OTHER -> {}

\* PostgreSQL ends a transaction of a cycle of waiting ones.
InCycle(p) ==
    LET waits == [e \in Calls \X Calls |-> e[2] \in Blockers(e[1])]
    IN  Blockers(p) # {} /\ TransitiveClosure(waits, Calls)[p, p]

At(p, op, pc) == call[p].op = op /\ call[p].pc = pc /\ Blockers(p) = {}

With(c, rec) == [k \in DOMAIN c |-> IF k \in DOMAIN rec THEN rec[k] ELSE c[k]]

Goes(p, rec) == call' = [call EXCEPT ![p] = With(@, rec)]

Ends(p) == call' = [call EXCEPT ![p] = Idle]

Spend(event) == left[event] > 0 /\ left' = [left EXCEPT ![event] = @ - 1]

\* The connection or the node is lost, or a deadlock is broken.
Rollback(p) ==
    /\ call[p] # Idle
    /\ \/ InCycle(p) /\ UNCHANGED left
       \/ Spend("fail")
    /\ Ends(p)
    /\ UNCHANGED <<now, assertions, tables>>

------------------------------------------------------------------------------
\* Assertions.

Tick ==
    /\ Spend("tick")
    /\ now' = now + 1
    /\ UNCHANGED <<assertions, tables, call>>

\* The gateway signs one request of a user, with a nonce of its own.
SignForMailbox(t) ==
    /\ token[t] = None
    /\ \E op \in Signed, i \in Idents, l \in Names \union {None}, sel \in Exists \union {0} :
        /\ Spend(op)
        /\ op = "ensure" => sel = 0
        /\ op = "delete" => sel # 0
        /\ l = None <=> op \in {"delete", "read"}
        /\ token' = [token EXCEPT ![t] =
                        [op |-> op, i |-> i, local |-> l, sel |-> sel,
                         iat |-> now, exp |-> now + Lifetime]]
    /\ UNCHANGED <<now, nonce, accepted, late, tables, call>>

VerifyForMailbox(a, vt) ==
    /\ a.iat <= vt + ClockSkew /\ a.exp > vt
    /\ a.exp - a.iat \in 1 .. MaxLifetime

\* A request reaches a node, for the first time or again.
Reaches(p, t, node) ==
    LET vt == now + Ahead[node] IN
    /\ call[p] = Idle
    /\ VerifyForMailbox(token[t], vt)
    /\ IF accepted[t] = 0 /\ \A q \in Calls : call[q].t # t
       THEN UNCHANGED left ELSE Spend("resend")
    /\ Goes(p, [pc |-> "consume", op |-> token[t].op, t |-> t, i |-> token[t].i,
                local |-> token[t].local, sel |-> token[t].sel, vt |-> vt, at |-> now])
    /\ UNCHANGED <<now, assertions, tables>>

authenticate(p, t, node) ==
    token[t] # None /\ token[t].op # "ensure" /\ Reaches(p, t, node)

\* No mailbox is selected for provisioning.
ensureGatewayIdentity(p, t, node) ==
    token[t] # None /\ token[t].op = "ensure" /\ token[t].sel = 0 /\ Reaches(p, t, node)

\* Rows that one statement clears away while it inserts its own.
Cleanup_AtExpiry(vt) == {t \in nonce : token[t].exp <= vt}
Cleanup(vt) == {t \in nonce : token[t].exp <= vt - Retention}

ConsumeGatewayAssertionNonce(p) ==
    LET c == call[p] IN
    /\ c.pc = "consume"
    /\ nonce' = (nonce \ Cleanup(c.vt)) \union {c.t}
    /\ IF c.t \in nonce THEN Ends(p) /\ UNCHANGED <<accepted, late>>
       ELSE /\ accepted' = [accepted EXCEPT ![c.t] = @ + 1]
            /\ late' = IF now - c.at > Retention - Spread THEN late \union {c.t} ELSE late
            /\ Goes(p, [pc |-> IF c.op = "ensure" THEN "lookup" ELSE "identity",
                        vt |-> 0, at |-> 0])
    /\ UNCHANGED <<now, token, tables, left>>

\* The accounts an identity may select: its default one, and its owner's enabled Agent
\* mailboxes of the Space.
Selectable(i) ==
    {n \in Exists : /\ account[n].owner = identity[i] /\ ~account[n].disabled
                    /\ (n = identity[i] \/ account[n].space = Space[i])}

\* What the handlers ask of the directory, for the owner and the account selected.
createAgentMailbox(o) == [pc |-> "owner", acc |-> o]
deleteAgentMailbox(o) == [pc |-> "delete", acc |-> o]
createAddress(n) == [pc |-> "address", acc |-> n]
deleteAddress(n) == [pc |-> "unalias", acc |-> n]

\* An exact identity, no fallback; the handler follows.
AuthenticateGatewayIdentity(p) ==
    LET c == call[p]
        o == identity[c.i]
        n == IF c.sel = 0 \/ c.op = "delete" THEN o ELSE c.sel
    IN
    /\ c.pc = "identity"
    /\ IF o = 0 \/ n \notin Selectable(c.i) \/ c.op = "read" THEN Ends(p)
       ELSE Goes(p, CASE c.op = "create" -> createAgentMailbox(o)
                      [] c.op = "delete" -> deleteAgentMailbox(o)
                      [] c.op = "alias" -> createAddress(n)
                      [] c.op = "unalias" -> deleteAddress(n))
    /\ UNCHANGED <<now, assertions, tables, left>>

------------------------------------------------------------------------------
\* First use provisions an owner.

gatewayProvisioningIdentity(i) == identity[i]

Answer(p) ==
    LET i == call[p].i IN
    /\ answered' = [answered EXCEPT ![i] = IF @ = 0 THEN identity[i] ELSE @]
    /\ Ends(p)
    /\ UNCHANGED <<account, login, addr, alias, identity>>

\* An identity that exists is answered without a lock ...
EnsureGatewayIdentity(p) ==
    /\ At(p, "ensure", "lookup")
    /\ IF gatewayProvisioningIdentity(call[p].i) # 0 THEN Answer(p)
       ELSE Goes(p, [pc |-> "domain"]) /\ UNCHANGED tables
    /\ UNCHANGED <<now, assertions, left>>

\* ... a new one waits for the domain's row.
LockDomain(p) ==
    /\ At(p, "ensure", "domain")
    /\ Goes(p, [pc |-> "again"])
    /\ UNCHANGED <<now, assertions, tables, left>>

\* The localparts to try, of which no address and no login may have the one chosen.
availableGatewayLocalpart(l, i) ==
    LET free(c) == addr[c] = 0 /\ c \notin login
    IN  IF free(l) THEN l
        ELSE IF free(suffixedGatewayLocalpart(l, i)) THEN suffixedGatewayLocalpart(l, i)
        ELSE None

\* With the domain locked, no address can be committed between these statements.
LookAgain(p) ==
    LET c == call[p]
        l == availableGatewayLocalpart(c.local, c.i)
    IN
    /\ At(p, "ensure", "again")
    /\ \/ gatewayProvisioningIdentity(c.i) # 0 /\ Answer(p)
       \/ /\ gatewayProvisioningIdentity(c.i) = 0
          /\ IF l = None THEN Ends(p) ELSE Goes(p, [pc |-> "principal", local |-> l])
          /\ UNCHANGED tables
    /\ UNCHANGED <<now, assertions, left>>

\* A unique login; the account goes with it.
InsertPrincipal(p) ==
    LET c == call[p] IN
    /\ c.op # "address" /\ At(p, c.op, "principal")
    /\ IF c.local \in login THEN Ends(p)
       ELSE Goes(p, [pc |-> "address", login |-> c.local])
    /\ UNCHANGED <<now, assertions, tables, left>>

\* A unique address, which refers to the domain.
InsertAddress(p) ==
    LET c == call[p] IN
    /\ At(p, c.op, "address")
    /\ IF addr[c.local] # 0 THEN Ends(p)
       ELSE Goes(p, [pc |-> IF c.op = "ensure" THEN "commit" ELSE "reference",
                     addr |-> c.local])
    /\ UNCHANGED <<now, assertions, tables, left>>

\* COMMIT of an account with its login and address.
NewAccount(n, l, owner, space) ==
    /\ account' = [account EXCEPT ![n] = [owner |-> owner, space |-> space, local |-> l,
                                          disabled |-> FALSE]]
    /\ login' = login \union {l}
    /\ addr' = [addr EXCEPT ![l] = n]
    /\ UNCHANGED alias

NextAccount == Cardinality(Exists) + 1

\* The identity is inserted last: one that was bound meanwhile fails the transaction.
Provisioned(p) ==
    LET c == call[p] IN
    /\ At(p, "ensure", "commit")
    /\ IF identity[c.i] # 0 THEN UNCHANGED tables
       ELSE /\ NewAccount(NextAccount, c.local, NextAccount, None)
            /\ identity' = [identity EXCEPT ![c.i] = NextAccount]
            /\ answered' = [answered EXCEPT ![c.i] = NextAccount]
    /\ Ends(p)
    /\ UNCHANGED <<now, assertions, left>>

------------------------------------------------------------------------------
\* Mailboxes and aliases.

\* Enabled Agent mailboxes of an owner in a Space, but not a default account.
Registered(o, s) ==
    {n \in Exists : /\ account[n].owner = o /\ account[n].space = s /\ ~account[n].disabled
                    /\ \A i \in Idents : Space[i] = s => identity[i] # n}

\* The owner's row is locked and the mailboxes counted.
CreateAgentMailbox(p) ==
    LET c == call[p] IN
    /\ At(p, "create", "owner")
    /\ IF Cardinality(Registered(c.acc, Space[c.i])) >= MaxMailboxes THEN Ends(p)
       ELSE Goes(p, [pc |-> "principal"])
    /\ UNCHANGED <<now, assertions, tables, left>>

Created(p) ==
    LET c == call[p] IN
    /\ At(p, "create", "reference")
    /\ NewAccount(NextAccount, c.local, c.acc, Space[c.i])
    /\ Ends(p)
    /\ UNCHANGED <<now, assertions, identity, answered, left>>

DeleteAgentMailbox(p) ==
    LET c == call[p] IN
    /\ At(p, "delete", "delete")
    /\ IF c.sel \in Registered(c.acc, Space[c.i])
       THEN account' = [account EXCEPT ![c.sel].disabled = TRUE] ELSE UNCHANGED account
    /\ Ends(p)
    /\ UNCHANGED <<now, assertions, login, addr, alias, identity, answered, left>>

CreateAccountAlias(p) ==
    LET c == call[p] IN
    /\ At(p, "alias", "reference")
    /\ addr' = [addr EXCEPT ![c.local] = c.acc]
    /\ alias' = alias \union {c.local}
    /\ Ends(p)
    /\ UNCHANGED <<now, assertions, account, login, identity, answered, left>>

\* Found to be an alias of the account, and deleted.
DeleteAccountAlias(p) ==
    LET c == call[p] IN
    /\ At(p, "unalias", "unalias")
    /\ IF addr[c.local] = c.acc /\ c.local \in alias
       THEN addr' = [addr EXCEPT ![c.local] = 0] /\ alias' = alias \ {c.local}
       ELSE UNCHANGED <<addr, alias>>
    /\ Ends(p)
    /\ UNCHANGED <<now, assertions, account, login, identity, answered, left>>

\* An administrator adds an address to an account, perhaps one made for it: address first,
\* then a login, which may be there already.
handleCreateAddress(p) ==
    /\ call[p] = Idle /\ Spend("address")
    /\ \E l \in Localparts, n \in {k \in Exists : account[k].owner = k} \union {0} :
        Goes(p, [pc |-> "address", op |-> "address", local |-> l, acc |-> n])
    /\ UNCHANGED <<now, assertions, tables>>

Referred(p) ==
    /\ At(p, "address", "reference")
    /\ Goes(p, [pc |-> "principal"])
    /\ UNCHANGED <<now, assertions, tables, left>>

Addressed(p) ==
    LET c == call[p] IN
    /\ At(p, "address", "principal")
    /\ IF c.acc = 0 THEN NewAccount(NextAccount, c.local, NextAccount, None)
       ELSE /\ login' = login \union {c.local}
            /\ addr' = [addr EXCEPT ![c.local] = c.acc]
            /\ UNCHANGED <<account, alias>>
    /\ Ends(p)
    /\ UNCHANGED <<now, assertions, identity, answered, left>>

\* An administrator binds an identity to an owner's own account, found by its login ...
handleGatewayIdentity(p) ==
    /\ call[p] = Idle /\ Spend("bind")
    /\ \E i \in Idents, n \in Exists :
        /\ account[n].owner = n
        /\ Goes(p, [pc |-> "upsert", op |-> "bind", i |-> i, acc |-> n])
    /\ UNCHANGED <<now, assertions, tables>>

\* ... which the upsert refers to.
Bound(p) ==
    LET c == call[p] IN
    /\ At(p, "bind", "upsert")
    /\ identity' = [identity EXCEPT ![c.i] = c.acc]
    /\ answered' = [answered EXCEPT ![c.i] = 0]
    /\ Ends(p)
    /\ UNCHANGED <<now, assertions, account, login, addr, alias, left>>

\* No request is under way.
Quiet == (\A p \in Calls : call[p] = Idle) /\ UNCHANGED vars

Step(p) ==
    \/ Rollback(p)
    \/ \E t \in Tokens, node \in Nodes :
            authenticate(p, t, node) \/ ensureGatewayIdentity(p, t, node)
    \/ ConsumeGatewayAssertionNonce(p) \/ AuthenticateGatewayIdentity(p)
    \/ EnsureGatewayIdentity(p) \/ LockDomain(p) \/ LookAgain(p)
    \/ InsertPrincipal(p) \/ InsertAddress(p) \/ Provisioned(p)
    \/ CreateAgentMailbox(p) \/ Created(p) \/ DeleteAgentMailbox(p)
    \/ CreateAccountAlias(p) \/ DeleteAccountAlias(p)
    \/ handleCreateAddress(p) \/ Referred(p) \/ Addressed(p)
    \/ handleGatewayIdentity(p) \/ Bound(p)

Next ==
    \/ Tick \/ Quiet
    \/ \E t \in Tokens : SignForMailbox(t)
    \/ \E p \in Calls : Step(p)

Spec == Init /\ [][Next]_vars

------------------------------------------------------------------------------
\* Properties.

\* An assertion is accepted for one request, however often and on whichever nodes it is
\* replayed, and although old nonces are cleared away: unless a request was held up
\* between its verification and the insertion of its nonce for longer than the retention
\* exceeds the distance of the clocks (ConsumeGatewayAssertionNonce).
AcceptedOnce == \A t \in Tokens : accepted[t] <= 1 \/ t \in late

\* Whatever is provisioned, created and bound at once: an owner never has more Agent
\* mailboxes in a Space than the limit (CreateAgentMailbox); an identity keeps the
\* account it was told until it is bound to another (EnsureGatewayIdentity); and the
\* address an account was created with stays its own, as does every login (the unique
\* keys that three transactions take in different orders).
ProvisionedOnce ==
    /\ \A o \in Exists, i \in Idents : Cardinality(Registered(o, Space[i])) <= MaxMailboxes
    /\ \A i \in Idents : answered[i] # 0 => identity[i] = answered[i]
    /\ \A n \in Exists : addr[account[n].local] = n /\ account[n].local \in login
    /\ \A l \in login : addr[l] # 0 /\ l \notin alias

=============================================================================

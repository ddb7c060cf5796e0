--------------------------- MODULE MCImapSession ---------------------------
(***************************************************************************)
(* Small instances of ImapSession: two mailboxes of an account, a handful  *)
(* of message contents, and one kind of client per concern.                *)
(***************************************************************************)
EXTENDS ImapSession

CONSTANTS inbox, archive, s1, s2

Boxes == {inbox, archive}
Sessions == {s1, s2}
StartAll == [b \in Boxes |-> IF b = inbox THEN <<"plain", "reply", "plain">> ELSE <<"plain">>]
KindsAll == {"reply"}

AttrAll == [plain |-> [size |-> 2, recv |-> 4, saved |-> 8, head |-> {<<"FROM", "x">>, <<"X-Tag", "t">>},
                       text |-> {"w"}, thread |-> 0, key |-> [SIZE |-> 2, SUBJECT |-> 1]],
            reply |-> [size |-> 3, recv |-> 7, saved |-> 7, head |-> {<<"FROM", "y">>},
                       text |-> {"w", "v"}, thread |-> 1, key |-> [SIZE |-> 1, SUBJECT |-> 1]]]

Renumber == {"select", "examine", "fetch", "store", "expunge", "copy", "replace", "close"}
Resync == {"select", "fetch", "store", "expunge", "enable", "deliver"}
Notified == {"select", "fetch", "expunge", "notify", "deliver", "remove", "flag"}
Idle == {"select", "fetch", "idle", "deliver", "remove", "flag"}
Search == {"select", "search", "deliver", "remove", "flag"}
Signing == {"starttls", "login", "auth", "compress", "enable", "logout"}
ClientsAll ==
    {Renumber, Resync, Notified, Idle, Search, Signing, {"list"}, {"append"}, {"urlauth"}}
HeadBound == [c \in ClientsAll |-> IF c = Search THEN 1 ELSE 2]

One(n) == <<[lo |-> n, hi |-> n]>>
To(m, n) == <<[lo |-> m, hi |-> n]>>
SetsAll == {To(1, Star), One(2), To(Star, 3)}
SincesAll == {-1, 1}

Text == Node("text", "w")
Unflagged == Node("flag", <<"deleted", FALSE>>)
LastOne == Node("seqset", One(Star))
Leaves == {Unflagged, Text, LastOne, Node("uid", To(2, 3)), Node("saved", <<>>)}
Dated == {Node(op[1], <<Node(op[2], op[3]), Node(op[4], op[5])>>) :
            op \in {<<"or", "larger", 2, "on", 4>>, <<"and", "smaller", 3, "since", 5>>,
                    <<"or", "savedon", 7, "before", 7>>, <<"and", "savedsince", 8, "older", 4>>,
                    <<"or", "savedbefore", 8, "younger", 3>>}}
CriteriaAll ==
    Leaves \cup Dated \cup {Node("all", <<>>), Node("header", <<"X-Tag", "t">>)}
      \cup {Node("or", <<Node("not", <<a>>), Node("header", <<"FROM", "y">>)>>) : a \in Leaves}
      \cup {Node("and", <<Node("or", <<a, Text>>), Node("not", <<LastOne>>)>>) : a \in {Unflagged, Text}}

SortKeysAll == {<<[field |-> "SIZE", reverse |-> FALSE]>>,
                <<[field |-> "SUBJECT", reverse |-> FALSE], [field |-> "SIZE", reverse |-> TRUE]>>}

Strings(chars, n) == UNION {[1 .. k -> chars] : k \in 1 .. n}
NamesAll == Strings({"a", "b", "/"}, 4) \cup {<<"a", "/", "b", "/", "a">>}
SubscribedAll == {n \in NamesAll : Len(n) <= 2}
PatternsAll == Strings({"a", "/", "*", "%"}, 4)

Part(kind, size) == [kind |-> kind, size |-> size]
Plain == {<<Part(k, n)>> : k \in {"sync", "plus"}, n \in {1, 4, 5}}
Catenated == {<<Part(k, 1), Part(l, n)>> : k \in {"csync", "url"}, l \in {"cplus", "url"}, n \in {3, 4}}
BatchesAll == {<<m>> : m \in Plain \cup Catenated} \cup {<<m, n>> : m \in Plain, n \in Plain}
                 \cup {<<<<Part("plus", 1)>>, n, <<Part("plus", 1)>>>> : n \in Catenated \cup Plain}
=============================================================================

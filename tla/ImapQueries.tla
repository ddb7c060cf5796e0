---------------------------- MODULE ImapQueries ----------------------------
(***************************************************************************)
(* The pure part of the IMAP server (protocol/imapd): message sets, the    *)
(* SEARCH criteria parser and matcher, SORT and THREAD, and the wildcards  *)
(* of LIST, as operators over a mailbox listing.                           *)
(*                                                                         *)
(* A listing is the sequence of a mailbox's messages in UID order, so that *)
(* a message's sequence number is its position: no command keeps an older  *)
(* numbering.  Tokens of a command line are records [key, val]; the        *)
(* characters they are made of matter only to the LIST wildcards, whose    *)
(* names and patterns are sequences of characters.                         *)
(***************************************************************************)
EXTENDS Integers, Sequences, FiniteSets, SequencesExt, FiniteSetsExt

(* "*" in a message set. *)
Star == -1

(* A set item "lo:hi"; a single number has hi = lo. *)
Num(x, max) == IF x = Star THEN max ELSE x

Between(a, b) == IF a > b THEN b .. a ELSE a .. b

(* The numbers a message set denotes when "*" stands for max. *)
parseUIDSet(set, max) ==
    UNION {Between(Num(set[i].lo, max), Num(set[i].hi, max)) : i \in DOMAIN set}

(* The shortest set denoting an ascending list of numbers. *)
compressUIDList(ids) ==
    LET Extend(runs, n) ==
            IF runs # <<>> /\ n = Last(runs).hi + 1
            THEN [runs EXCEPT ![Len(runs)].hi = n]
            ELSE Append(runs, [lo |-> n, hi |-> n])
    IN  FoldLeft(Extend, <<>>, ids)

-----------------------------------------------------------------------------
(* SEARCH: a recursive-descent parser from tokens to a criteria tree.      *)

FlagKey == [SEEN |-> <<"seen", TRUE>>, UNSEEN |-> <<"seen", FALSE>>,
            ANSWERED |-> <<"answered", TRUE>>, UNANSWERED |-> <<"answered", FALSE>>,
            FLAGGED |-> <<"flagged", TRUE>>, UNFLAGGED |-> <<"flagged", FALSE>>,
            DELETED |-> <<"deleted", TRUE>>, UNDELETED |-> <<"deleted", FALSE>>,
            DRAFT |-> <<"draft", TRUE>>, UNDRAFT |-> <<"draft", FALSE>>]

(* Keys that restrict nothing: the server keeps no \Recent. *)
AllKeys == {"ALL", "NEW", "RECENT", "SAVEDATESUPPORTED"}

(* Keys followed by one argument, with the kind of node they build. *)
ArgKey == [BODY |-> "text", TEXT |-> "text",
           SINCE |-> "since", BEFORE |-> "before", ON |-> "on",
           SAVEDSINCE |-> "savedsince", SAVEDBEFORE |-> "savedbefore",
           SAVEDON |-> "savedon",
           LARGER |-> "larger", SMALLER |-> "smaller",
           OLDER |-> "older", YOUNGER |-> "younger", UID |-> "uid"]

(* Keys naming the header field their argument is looked for in. *)
HeaderKeys == {"FROM", "TO", "CC", "BCC", "SUBJECT"}

Node(op, arg) == [ok |-> TRUE, op |-> op, arg |-> arg]
sAll == Node("all", <<>>)
Failed == [ok |-> FALSE]
Parsed(node, pos) == [ok |-> TRUE, node |-> node, pos |-> pos]

(* An implicit AND of criteria, up to the end or a ")". *)
RECURSIVE parseSearchSeq(_, _, _)
RECURSIVE parseSearchOne(_, _)

parseSearchSeq(toks, pos, nodes) ==
    IF pos > Len(toks) \/ (pos <= Len(toks) /\ toks[pos].key = ")")
    THEN Parsed(CASE Len(nodes) = 0 -> sAll
                  [] Len(nodes) = 1 -> nodes[1]
                  [] OTHER -> Node("and", nodes), pos)
    ELSE LET one == parseSearchOne(toks, pos)
         IN  IF one.ok THEN parseSearchSeq(toks, one.pos, Append(nodes, one.node))
             ELSE Failed

(* Mutation: both operands of OR are read at the same place. *)
SecondOperand_Same(toks, pos, first) == parseSearchOne(toks, pos + 1)

(* OR's second operand starts where its first one ended. *)
SecondOperand(toks, pos, first) == parseSearchOne(toks, first.pos)

parseSearchOne(toks, pos) ==
    IF pos > Len(toks) THEN Failed
    ELSE LET t == toks[pos]
         IN  CASE t.key = "(" ->
                    LET inner == parseSearchSeq(toks, pos + 1, <<>>)
                    IN  IF inner.ok /\ inner.pos <= Len(toks)
                        THEN Parsed(inner.node, inner.pos + 1) ELSE Failed
               [] t.key \in AllKeys -> Parsed(sAll, pos + 1)
               [] t.key \in DOMAIN FlagKey -> Parsed(Node("flag", FlagKey[t.key]), pos + 1)
               [] t.key = "NOT" ->
                    LET one == parseSearchOne(toks, pos + 1)
                    IN  IF one.ok THEN Parsed(Node("not", <<one.node>>), one.pos) ELSE Failed
               [] t.key = "OR" ->
                    LET a == parseSearchOne(toks, pos + 1)
                    IN  IF ~a.ok THEN Failed
                        ELSE LET b == SecondOperand(toks, pos, a)
                             IN  IF b.ok THEN Parsed(Node("or", <<a.node, b.node>>), b.pos)
                                 ELSE Failed
               [] t.key \in DOMAIN ArgKey ->
                    IF pos + 1 <= Len(toks)
                    THEN Parsed(Node(ArgKey[t.key], toks[pos + 1].val), pos + 2) ELSE Failed
               [] t.key \in HeaderKeys ->
                    IF pos + 1 <= Len(toks)
                    THEN Parsed(Node("header", <<t.key, toks[pos + 1].val>>), pos + 2)
                    ELSE Failed
               [] t.key = "HEADER" ->
                    IF pos + 2 <= Len(toks)
                    THEN Parsed(Node("header", <<toks[pos + 1].val, toks[pos + 2].val>>), pos + 3)
                    ELSE Failed
               [] t.key = "$" -> Parsed(Node("saved", <<>>), pos + 1)
               [] t.key = "set" -> Parsed(Node("seqset", t.val), pos + 1)
               [] OTHER -> Failed

(* Every BODY/TEXT term of a tree: their hit sets are read beforehand. *)
RECURSIVE collectTextTerms(_)
collectTextTerms(n) ==
    CASE n.op = "text" -> {n.arg}
      [] n.op \in {"not", "or", "and"} ->
           UNION {collectTextTerms(n.arg[i]) : i \in DOMAIN n.arg}
      [] OTHER -> {}

(* The set test of a UID criterion: "*" is the tested UID itself. *)
matchSet(set, v) == v \in parseUIDSet(set, v)

(* Does message m, at position seq of total, satisfy the tree?  hits holds *)
(* the full-text hits of each term, saved the UIDs "$" stands for.         *)
RECURSIVE match(_, _, _, _, _, _, _)
match(n, m, seq, total, hits, saved, now) ==
    CASE n.op = "all" -> TRUE
      [] n.op = "and" -> \A i \in DOMAIN n.arg : match(n.arg[i], m, seq, total, hits, saved, now)
      [] n.op = "or" -> \E i \in DOMAIN n.arg : match(n.arg[i], m, seq, total, hits, saved, now)
      [] n.op = "not" -> ~match(n.arg[1], m, seq, total, hits, saved, now)
      [] n.op = "flag" -> (n.arg[1] \in m.flags) = n.arg[2]
      [] n.op = "larger" -> m.size > n.arg
      [] n.op = "smaller" -> m.size < n.arg
      [] n.op = "since" -> m.recv >= n.arg
      [] n.op = "before" -> m.recv < n.arg
      [] n.op = "on" -> m.recv = n.arg
      [] n.op = "savedsince" -> m.saved >= n.arg
      [] n.op = "savedbefore" -> m.saved < n.arg
      [] n.op = "savedon" -> m.saved = n.arg
      [] n.op = "older" -> now - m.recv >= n.arg
      [] n.op = "younger" -> now - m.recv <= n.arg
      [] n.op = "header" -> n.arg \in m.head
      [] n.op = "text" -> m.uid \in hits[n.arg]
      [] n.op = "uid" -> matchSet(n.arg, m.uid)
      [] n.op = "saved" -> m.uid \in saved
      [] n.op = "seqset" -> seq \in parseUIDSet(n.arg, total)

(* The positions of a listing that satisfy a tree, in order. *)
searchMatches(n, list, hits, saved, now) ==
    SelectSeq([i \in 1 .. Len(list) |-> i],
              LAMBDA i : match(n, list[i], i, Len(list), hits, saved, now))

(* The reply to SEARCH with RETURN options: UIDs or positions, summarised. *)
parseESearchReturnOpts(opts) == IF opts \cap {"MIN", "MAX", "ALL", "COUNT"} = {}
                                THEN opts \cup {"ALL"} ELSE opts

ESearch(nums, opts) ==
    [min   |-> IF "MIN" \in opts /\ nums # <<>> THEN <<Head(nums)>> ELSE <<>>,
     max   |-> IF "MAX" \in opts /\ nums # <<>> THEN <<Last(nums)>> ELSE <<>>,
     count |-> IF "COUNT" \in opts THEN <<Len(nums)>> ELSE <<>>,
     all   |-> IF "ALL" \in opts THEN compressUIDList(nums) ELSE <<>>]

-----------------------------------------------------------------------------
(* SORT and THREAD: an order and a grouping of the matches.                *)

compareSortField(field, a, b) ==
    LET x == a.key[field]
        y == b.key[field]
    IN  IF x < y THEN -1 ELSE IF x > y THEN 1 ELSE 0

(* Lexicographic in the keys, each possibly reversed; ties go by UID. *)
lessBySortKeys(keys, a, b) ==
    LET Cmp(k) == (IF keys[k].reverse THEN -1 ELSE 1) * compareSortField(keys[k].field, a, b)
        differ == {k \in DOMAIN keys : Cmp(k) # 0}
    IN  IF differ = {} THEN a.uid < b.uid ELSE Cmp(Min(differ)) < 0

cmdSort(list, found, keys) ==
    SetToSortSeq(ToSet(found), LAMBDA i, j : lessBySortKeys(keys, list[i], list[j]))

(* THREAD's group of a message: its base subject, or its thread once the   *)
(* thread projection has seen it and its own id until then.                *)
ThreadKey(algo, m) == IF algo = "ORDEREDSUBJECT" THEN <<"s", m.key["SUBJECT"]>>
                      ELSE IF m.thread # 0 THEN <<"t", m.thread>> ELSE <<"m", m.uid>>

cmdThread(list, found, algo) ==
    LET Group(i) == SelectSeq(found, LAMBDA j : ThreadKey(algo, list[j]) = ThreadKey(algo, list[i]))
    IN  SetToSortSeq({Group(i) : i \in ToSet(found)}, LAMBDA g, h : g[1] < h[1])

-----------------------------------------------------------------------------
(* LIST: names and patterns as sequences of characters.                    *)

(* The matcher's registers: positions in the pattern and the name, and the *)
(* place to go back to for the last "*" or the last "%", never both.       *)
wildStep(pat, s, r) ==
    LET c == IF r.pi <= Len(pat) THEN pat[r.pi] ELSE "end"
    IN  CASE c = "*" -> [r EXCEPT !.pi = @ + 1, !.star = <<r.pi, r.si>>, !.pct = <<>>]
          [] c = "%" -> [r EXCEPT !.pi = @ + 1, !.pct = <<r.pi, r.si>>, !.star = <<>>]
          [] c = s[r.si] -> [r EXCEPT !.pi = @ + 1, !.si = @ + 1]
          [] OTHER ->
               CASE r.star # <<>> ->
                      [r EXCEPT !.pi = r.star[1] + 1, !.si = r.star[2] + 1, !.star[2] = @ + 1]
                 [] r.star = <<>> /\ r.pct # <<>> /\ s[r.si] # "/" ->
                      [r EXCEPT !.pi = r.pct[1] + 1, !.si = r.pct[2] + 1, !.pct[2] = @ + 1]
                 [] OTHER -> [r EXCEPT !.pi = 0]

RECURSIVE wildRun(_, _, _)
wildRun(pat, s, r) ==
    IF r.pi = 0 THEN FALSE
    ELSE IF r.si <= Len(s) THEN wildRun(pat, s, wildStep(pat, s, r))
    ELSE \A k \in r.pi .. Len(pat) : pat[k] \in {"*", "%"}

matchPattern(pat, name) ==
    wildRun(pat, name, [pi |-> 1, si |-> 1, star |-> <<>>, pct |-> <<>>])

(* The mailboxes LIST answers with, and those of them with children. *)
cmdList(names, subscribed, patterns, selSubscribed) ==
    LET listed == {n \in names : /\ \E p \in patterns : matchPattern(p, n)
                                 /\ selSubscribed => n \in subscribed}
    IN  [n \in listed |-> \E c \in names : c # n /\ IsPrefix(Append(n, "/"), c)]

=============================================================================

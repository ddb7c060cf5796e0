------------------------------- MODULE MCSmtp -------------------------------
(***************************************************************************)
(* Smtp on a small instance: an account with an alias, another account, a  *)
(* bounce and a report address.                                            *)
(***************************************************************************)
EXTENDS Smtp, TLC

MCOwner == "a" :> "A" @@ "alias" :> "A" @@ "b" :> "B"

\* A submission server; an MX whose client names recipients of every kind; one
\* whose client names several mailboxes and retries; and MXs with two clients and
\* an old acquaintance with the sender.
Submit(tls) == [mode |-> "submission", tls |-> tls, size |-> 2, rcpts |-> 2,
                subjectpass |-> FALSE, conns |-> {1}, from |-> {"a", "b"},
                to |-> {"b", "x"}, txs |-> 2, rep |-> NoHistory]
Mixed == [Submit(FALSE) EXCEPT !.mode = "mx", !.from = {"x"}, !.to = {"a", "v", "p"}]
Several(to, n, t) == [Mixed EXCEPT !.to = to, !.rcpts = n, !.txs = t, !.size = 1]
Known(ham, junk, pass) ==
  [Mixed EXCEPT !.conns = {1, 2}, !.from = {"x", Null}, !.to = {"a"}, !.size = 1, !.rcpts = 1,
                !.rep = [ham |-> ham, junk |-> junk], !.subjectpass = pass]

MCScenarios ==
  {Submit(TRUE), Submit(FALSE), Mixed,
   Several({"a", "alias"}, 2, 2), Several({"a", "alias", "b"}, 3, 1),
   Known(2, 0, FALSE), Known(0, 2, TRUE), Known(4, 1, FALSE)}
=============================================================================

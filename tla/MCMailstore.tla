---------------------------- MODULE MCMailstore ----------------------------
(***************************************************************************)
(* Instances of Mailstore for TLC.                                         *)
(***************************************************************************)
EXTENDS Mailstore

CONSTANTS inbox, other

NamesTwo == {inbox, other}
SizesOne == {2}

WriteOps == {"deliver", "append", "store", "expunge", "copy"}
EmailOps == {"deliver", "create", "mailbox", "replace", "email", "store"}
ImapOps == {"deliver", "store", "expunge", "mailbox", "gc", "select"}
JmapOps == {"deliver", "create", "email", "store", "gc", "get"}

AllOps == {WriteOps, EmailOps, ImapOps, JmapOps}

=============================================================================

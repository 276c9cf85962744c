----------------------------- MODULE MCMailboxes -----------------------------
(* Mailboxes alone, for what the documents say of them. *)
EXTENDS Mailboxes, TLC
=============================================================================

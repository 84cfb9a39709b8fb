----------------------------- MODULE MCMailbox -----------------------------
(* Three producers around a ring of two slots, two pushes each: the ring   *)
(* wraps around three times and is full most of the time.                  *)
EXTENDS Mailbox
=============================================================================

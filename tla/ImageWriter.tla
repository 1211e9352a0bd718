----------------------------- MODULE ImageWriter -----------------------------
(***************************************************************************)
(* What is promised to whoever downloads an image, however it comes: the   *)
(* storage is filled from front to back, with nothing left out and nothing *)
(* else written; a write that fails is the last one, and what it leaves is *)
(* the front of the image too.                                             *)
(***************************************************************************)
EXTENDS Integers

VARIABLES
  image,      \* what each place is to hold
  store,      \* what the places written hold
  reached,    \* the place up to which the image has been laid down
  failed      \* a write has failed

writer_vars == <<image, store, reached, failed>>

\* The places of an image before place n.
Front(f, n) == [p \in {p \in DOMAIN f : p < n} |-> f[p]]

Init ==
  /\ store = <<>>
  /\ reached = 0
  /\ failed = FALSE

Write ==
  /\ ~failed
  /\ failed' \in BOOLEAN
  /\ \/ UNCHANGED <<store, reached>>
     \/ /\ reached' \in Nat /\ reached' > reached
        /\ store' = Front(image, reached')
  /\ image' = image

Spec == Init /\ [][Write]_writer_vars
=============================================================================

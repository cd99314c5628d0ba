------------------------------- MODULE MCFeed -------------------------------
(* Three channels for Feed. *)
EXTENDS Feed

CONSTANTS c1, c2, c3

=============================================================================

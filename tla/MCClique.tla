------------------------------ MODULE MCClique ------------------------------
(***************************************************************************)
(* Instances of Clique for TLC.                                            *)
(***************************************************************************)
EXTENDS Clique

CONSTANTS A, B, C, D, Z

\* The ascending order of the addresses; the zero address comes first.
AddressOrder ==
  [a \in Accounts |->
     CASE a = Z -> 0 [] a = A -> 1 [] a = B -> 2 [] a = C -> 3 [] a = D -> 4]

=============================================================================

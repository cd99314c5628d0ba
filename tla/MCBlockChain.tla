---------------------------- MODULE MCBlockChain ----------------------------
(* Small block trees for BlockChain, given by parent and difficulty. *)
EXTENDS BlockChain, TLC

CONSTANTS G, A1, A2, A3, B1, B2, C2, C3

\* Height of every block, its weight and its ancestors, along the parents.
DepthIn(parent) ==
  LET d[b \in DOMAIN parent] == IF parent[b] = b THEN 0 ELSE d[parent[b]] + 1 IN d

TdIn(parent, diff) ==
  LET t[b \in DOMAIN parent] == IF parent[b] = b THEN 0 ELSE t[parent[b]] + diff[b] IN t

AncestorsIn(parent) ==
  LET a[b \in DOMAIN parent] == IF parent[b] = b THEN {b} ELSE {b} \cup a[parent[b]] IN a

\* Two branches from the genesis block, of three light and two blocks.
ForkParent == G :> G @@ A1 :> G @@ A2 :> A1 @@ A3 :> A2 @@ B1 :> G @@ B2 :> B1
ForkNumber == DepthIn(ForkParent)
ForkAncestors == AncestorsIn(ForkParent)

\* B1 outweighs A1, ties with A2; B2 outweighs A3.
ForkTd == TdIn(ForkParent, G :> 0 @@ A1 :> 1 @@ A2 :> 1 @@ A3 :> 1 @@ B1 :> 2 @@ B2 :> 2)

\* A fork above the genesis block; the C branch outweighs the A branch.
TwigParent == G :> G @@ A1 :> G @@ A2 :> A1 @@ A3 :> A2 @@ C2 :> A1 @@ C3 :> C2
TwigNumber == DepthIn(TwigParent)
TwigAncestors == AncestorsIn(TwigParent)
TwigTd == TdIn(TwigParent, G :> 0 @@ A1 :> 1 @@ A2 :> 1 @@ A3 :> 1 @@ C2 :> 1 @@ C3 :> 2)

=============================================================================

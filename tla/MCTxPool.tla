------------------------------ MODULE MCTxPool ------------------------------
(***************************************************************************)
(* Instances of TxPool for TLC.                                            *)
(***************************************************************************)
EXTENDS TxPool

CONSTANTS A, B, G, X, Y

Legacy(a, n, price, cost) ==
  [from |-> a, nonce |-> n, feeCap |-> price, tip |-> price, cost |-> cost, slots |-> 1]

MCTx == [a0  |-> Legacy(A, 0, 20, 1),
         a1  |-> Legacy(A, 1, 30, 1),
         a1r |-> Legacy(A, 1, 40, 2),
         a2  |-> Legacy(A, 2, 45, 1),
         b0  |-> Legacy(B, 0, 35, 2),
         b1  |-> Legacy(B, 1, 15, 2)]

MCRemotely == {<<"a0", "a1">>, <<"a1r", "a2">>, <<"b1", "b0">>}
MCLocally == {<<"a0", "a2">>}

\* Two heads on Genesis: X mines A0, Y mines B0.
MCParent == [b \in {X, Y} |-> G]
MCNumber == [b \in Blocks |-> IF b = G THEN 0 ELSE 1]
MCIncluded == [b \in Blocks |-> IF b = X THEN <<"a0">> ELSE IF b = Y THEN <<"b0">> ELSE <<>>]
MCBalance == [b \in Blocks |-> [a \in Accounts |-> IF b = Y /\ a = A THEN 1 ELSE 2]]
MCBaseFee == [b \in Blocks |-> 10]
MCPrices == {1, 32}
MCLost == {{}, {X}}

=============================================================================

--------------------------- MODULE MCVendingMachine ---------------------------
(***************************************************************************)
(* A vending machine with two products, made empty, with one item of each, *)
(* or with one item that has no price.                                     *)
(***************************************************************************)
EXTENDS VendingMachine

MCProducts == {"tea", "cake"}
MCStocks ==
    {<< >>, [tea |-> [amount |-> 1, price |-> 1], cake |-> [amount |-> 1, price |-> 2]],
     [tea |-> [amount |-> 1, price |-> 0]]}
MCAmounts == {-1, 0, 1}
MCPrices == {-1, 0, 2}
=============================================================================

----------------------------- MODULE MCErpLedger -----------------------------
(***************************************************************************)
(* ErpLedger for TLC: one item, one order of each side and two receipts, so *)
(* that an order can meet a receipt that has its key, two lines whose      *)
(* average cost has to be rounded, and one free of charge.                  *)
(***************************************************************************)
EXTENDS ErpLedger, TLC

MCOrders == {"po", "so"}
MCFulfillments == {"gr1", "gr2", "dl"}
MCInvoices == {"ap1", "ap2", "ar"}
MCPayments == {"pay", "receipt"}
MCStockPapers == {"in", "out"}
MCPurchases == {"po", "gr1", "gr2", "ap1", "ap2", "pay", "in"}
MCInvoiceOf == [f \in MCFulfillments |->
                   CASE f = "gr1" -> "ap1" [] f = "gr2" -> "ap2" [] f = "dl" -> "ar"]
MCLines == {[item |-> "item", qty |-> 1, price |-> 2, rate |-> 50],
            [item |-> "item", qty |-> 2, price |-> 1, rate |-> 0],
            [item |-> "item", qty |-> 3, price |-> 0, rate |-> 10]}

\* Partners are told apart only from each other.
Symmetry == Permutations(Partners)
==============================================================================

----------------------------- MODULE MCSmtFloor -----------------------------
(***************************************************************************)
(* SmtFloor for TLC: a machine with one slot and a reel of each of three    *)
(* parts: the one its table asks for, one that may be loaded in its place   *)
(* but is refused by the verification, and a wrong one; two boards on a     *)
(* panel of an order that plans one.                                        *)
(***************************************************************************)
EXTENDS SmtFloor, TLC

MCPartOf == [r \in Reels |-> CASE r = "ra" -> "a" [] r = "rb" -> "b" [] r = "rc" -> "c"]
MCTable == [p \in WorkOrders \X Machines \X Slots |-> "a"]
MCBomAlternates == [part \in {"a", "b", "c"} |-> IF part = "a" THEN {"b"} ELSE {}]
MCTableAlternates == [part \in {"a", "b", "c"} |-> {}]
MCRoute == [o \in WorkOrders |-> <<"SMT", "DEPANEL">>]
MCSettings == AllSettings \ {"require_issued_before_load"}

\* Boards are told apart only from each other.
Symmetry == Permutations(Boards)
==============================================================================

----------------------------- MODULE GatewayRows -----------------------------
(***************************************************************************)
(* The rows of a tenant that the calls of the gateway write: the balance    *)
(* with its tokens and reservations, a provider channel, and the cost       *)
(* ledger, in which finance goes on with what the calls cost.  Every update *)
(* is a statement or transaction of its own and none touches two of the     *)
(* three, so that interleaving them adds nothing: here one of them moves,   *)
(* from the rows of a new gateway.  How a call gets from one to the other   *)
(* is the subject of AIGateway.                                             *)
(***************************************************************************)
EXTENDS BalanceLedger, ChannelCircuit, CostExports

rowsVars == <<ledgerVars, circuitVars, costVars>>

RowsInit == LedgerInit /\ CircuitInit /\ CostInit

\* Bound: a history moves one of the three only.
RowsNext ==
    \/ CircuitInit /\ CostInit /\ LedgerNext /\ UNCHANGED <<circuitVars, costVars>>
    \/ LedgerInit /\ CostInit /\ CircuitNext /\ UNCHANGED <<ledgerVars, costVars>>
    \/ LedgerInit /\ CircuitInit /\ CostNext /\ UNCHANGED <<ledgerVars, circuitVars>>

RowsSpec == RowsInit /\ [][RowsNext]_rowsVars

\* Every row has the shape of its table, the counters their ranges, and no request
\* remembers what it cannot have read.
RowsTypeOK == LedgerTypeOK /\ CircuitTypeOK /\ CostTypeOK
==============================================================================

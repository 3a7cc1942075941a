----------------------------- MODULE MCAIGateway -----------------------------
(***************************************************************************)
(* AIGateway for TLC: one token, a deposit that covers some of the calls.    *)
(***************************************************************************)
EXTENDS AIGateway

CONSTANTS token

MCTokenOf == [c \in Calls |-> token]

MCQuotaAmount == [t \in Tokens |-> 0]

\* The only adjustment is a deposit, made until the balance reaches its bound.
MCAdjustments == {2}
==============================================================================

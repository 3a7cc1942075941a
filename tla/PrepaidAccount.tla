---------------------------- MODULE PrepaidAccount ----------------------------
(***************************************************************************)
(* What the prepaid account of an organization promises, without running    *)
(* totals: a ledger that remembers what was deposited and, for every call,  *)
(* the one hold it took and how that hold ended.  Everything else is a sum. *)
(* BalanceLedger, which keeps totals in rows and changes them one operation *)
(* at a time, is shown to implement it.                                     *)
(***************************************************************************)
EXTENDS Integers, FiniteSets

CONSTANTS Calls, Tokens, TokenOf, QuotaAmount, MaxAmount, Adjustments

VARIABLES
    funds,   \* what was deposited and not taken out again
    entries  \* each call's entry: its hold, and the charge once it is settled

accountVars == <<funds, entries>>

NoEntry == [state |-> "none", amount |-> 0, cost |-> 0]

\* An amount n of call c is the set <<c, 1>>, ..., <<c, n>>, so that a sum
\* over calls is a cardinality.
Held(S) ==
    {u \in S \X (1..MaxAmount) :
        entries[u[1]].state = "open" /\ u[2] <= entries[u[1]].amount}

Charged(S) ==
    {u \in S \X (1..MaxAmount) :
        entries[u[1]].state = "settled" /\ u[2] <= entries[u[1]].cost}

\* What the calls of S hold or have cost.
Committed(S) == Cardinality(Held(S)) + Cardinality(Charged(S))

AccountInit ==
    /\ funds = 0
    /\ entries = [c \in Calls |-> NoEntry]

\* A hold is granted when the free funds and the token's quota cover it.
Hold(c, amount) ==
    /\ entries[c].state = "none"
    /\ entries' = [entries EXCEPT ![c] = [state |-> "open", amount |-> amount, cost |-> 0]]
    /\ UNCHANGED funds
    /\ Committed(Calls) + amount <= funds
    /\ LET t == TokenOf[c]
           spent == Committed({d \in Calls : TokenOf[d] = t})
       IN  QuotaAmount[t] = 0 \/ spent + amount <= QuotaAmount[t]

\* A hold ends once, in a charge or in nothing.
Charge(c, cost) ==
    /\ entries[c].state = "open"
    /\ entries' = [entries EXCEPT ![c].state = "settled", ![c].cost = cost]
    /\ UNCHANGED funds

Cancel(c) ==
    /\ entries[c].state = "open"
    /\ entries' = [entries EXCEPT ![c].state = "refunded", ![c].cost = 0]
    /\ UNCHANGED funds

\* Funds are never taken out from under a hold or a charge.
Deposit(a) ==
    /\ funds' = funds + a
    /\ UNCHANGED entries
    /\ Committed(Calls) <= funds + a

AccountNext ==
    \/ \E c \in Calls, n \in 0..MaxAmount : Hold(c, n) \/ Charge(c, n)
    \/ \E c \in Calls : Cancel(c)
    \/ \E a \in Adjustments : Deposit(a)

AccountSpec == AccountInit /\ [][AccountNext]_accountVars
==============================================================================

---------------------------- MODULE BalanceLedger ----------------------------
(***************************************************************************)
(* The prepaid account of one organization in the AI gateway: the rows of   *)
(* ai_gateway_balances, ai_access_tokens and ai_gateway_balance_transactions*)
(* and the four repository operations that move money in them.  Each        *)
(* operation is one database transaction, so it is one action here.         *)
(*                                                                          *)
(* Amounts are integers, in units of the smallest amount that roundCost     *)
(* keeps (1e-8 of the currency).  MaxAmount and MaxBalance stand for the    *)
(* largest value of a NUMERIC(18,8) column.  An invocation reserves at most *)
(* once, so a reservation is named by the call that made it.                *)
(*                                                                          *)
(* Not modelled: several currencies (each has a row of its own), and the    *)
(* status and expiry of a token, which only give a reservation one more     *)
(* reason to be refused.                                                    *)
(***************************************************************************)
EXTENDS Integers, FiniteSets

CONSTANTS
    Calls,        \* the invocations, each with at most one reservation
    Tokens,       \* the access tokens of the organization
    TokenOf,      \* the token a call authenticates with
    QuotaAmount,  \* quota_amount of a token, 0 for none
    MaxAmount,    \* the largest reservation or cost
    MaxBalance,   \* bound: the largest balance an adjustment may lead to
    Adjustments   \* the amounts an operator adds to the balance (or takes)

ASSUME CallsAssumption == IsFiniteSet(Calls)
ASSUME TokensAssumption ==
    /\ TokenOf \in [Calls -> Tokens]
    /\ QuotaAmount \in [Tokens -> Nat]
ASSUME AmountsAssumption == MaxAmount \in Nat /\ MaxBalance \in Nat /\ Adjustments \subseteq Int

VARIABLES
    balance,    \* balance_amount
    reserved,   \* reserved_amount
    quotaUsed,  \* quota_used of each token
    resv,       \* each call's reserve row and the row that finished it
    deposits    \* history: the sum of the adjustments

ledgerVars == <<balance, reserved, quotaUsed, resv, deposits>>

ReservationStates == {"none", "open", "settled", "refunded"}

Reservation == [state : ReservationStates, amount : 0..MaxAmount, cost : 0..MaxAmount]

NoReservation == [state |-> "none", amount |-> 0, cost |-> 0]

LedgerTypeOK ==
    /\ balance \in Int
    /\ reserved \in Int
    /\ quotaUsed \in [Tokens -> Int]
    /\ resv \in [Calls -> Reservation]
    /\ deposits \in Int

LedgerInit ==
    /\ balance = 0
    /\ reserved = 0
    /\ quotaUsed = [t \in Tokens |-> 0]
    /\ resv = [c \in Calls |-> NoReservation]
    /\ deposits = 0

AtLeastZero(n) == IF n < 0 THEN 0 ELSE n

\* Mutant: the balance is checked without what is already reserved.
ReserveWholeBalance(c, amount) ==
    LET t == TokenOf[c] IN
    /\ resv[c].state = "none"
    /\ QuotaAmount[t] = 0 \/ quotaUsed[t] + amount <= QuotaAmount[t]
    /\ balance >= amount
    /\ quotaUsed' = [quotaUsed EXCEPT ![t] = @ + amount]
    /\ reserved' = reserved + amount
    /\ resv' = [resv EXCEPT ![c] = [state |-> "open", amount |-> amount, cost |-> 0]]
    /\ UNCHANGED <<balance, deposits>>

\* Both conditional updates must hit a row: the token's quota and the balance
\* that is not yet reserved.
ReserveAccessTokenBalance(c, amount) ==
    LET t == TokenOf[c] IN
    /\ resv[c].state = "none"
    /\ QuotaAmount[t] = 0 \/ quotaUsed[t] + amount <= QuotaAmount[t]
    /\ balance - reserved >= amount
    /\ quotaUsed' = [quotaUsed EXCEPT ![t] = @ + amount]
    /\ reserved' = reserved + amount
    /\ resv' = [resv EXCEPT ![c] = [state |-> "open", amount |-> amount, cost |-> 0]]
    /\ UNCHANGED <<balance, deposits>>

\* Mutant: no check that the reservation is already finished.
FinishAgain(c, kind, actual) ==
    LET t == TokenOf[c]
        amount == resv[c].amount
        settled == IF kind = "settled" THEN actual ELSE 0
    IN  /\ resv[c].state # "none"
        /\ reserved' = AtLeastZero(reserved - amount)
        /\ balance' = balance - settled
        /\ quotaUsed' = [quotaUsed EXCEPT ![t] = AtLeastZero(@ + settled - amount)]
        /\ resv' = [resv EXCEPT ![c].state = kind, ![c].cost = settled]
        /\ UNCHANGED deposits

\* Mutant: the cost of a refund is recorded as negative.
FinishSigned(c, kind, actual) ==
    LET amount == resv[c].amount IN
    /\ resv[c].state = "open"
    /\ reserved' = AtLeastZero(reserved - amount)
    /\ resv' = [resv EXCEPT ![c].state = kind,
                            ![c].cost = IF kind = "settled" THEN actual ELSE -amount]
    /\ UNCHANGED <<balance, quotaUsed, deposits>>

\* The lock on the reserve row makes the check for an earlier finish and the
\* writes one step.  A reservation that is already finished is left alone.
FinishAccessTokenReservation(c, kind, actual) ==
    LET t == TokenOf[c]
        amount == resv[c].amount
        settled == IF kind = "settled" THEN actual ELSE 0
    IN  IF resv[c].state = "open"
        THEN /\ reserved' = AtLeastZero(reserved - amount)
             /\ balance' = balance - settled
             /\ quotaUsed' = [quotaUsed EXCEPT ![t] = AtLeastZero(@ + settled - amount)]
             /\ resv' = [resv EXCEPT ![c].state = kind, ![c].cost = settled]
             /\ UNCHANGED deposits
        ELSE UNCHANGED ledgerVars

SettleAccessTokenBalance(c, actual) == FinishAccessTokenReservation(c, "settled", actual)

RefundAccessTokenBalance(c) == FinishAccessTokenReservation(c, "refunded", 0)

\* Mutant: the balance may be taken down to zero although some is reserved.
AdjustDownToZero(a) ==
    /\ balance + a >= 0
    /\ balance + a <= MaxBalance
    /\ balance' = balance + a
    /\ deposits' = deposits + a
    /\ UNCHANGED <<reserved, quotaUsed, resv>>

AdjustGatewayBalance(a) ==
    /\ balance + a >= reserved
    /\ balance + a <= MaxBalance
    /\ balance' = balance + a
    /\ deposits' = deposits + a
    /\ UNCHANGED <<reserved, quotaUsed, resv>>

LedgerNext ==
    \/ \E c \in Calls, amount \in 0..MaxAmount :
          \/ ReserveAccessTokenBalance(c, amount)
          \/ SettleAccessTokenBalance(c, amount)
    \/ \E c \in Calls : RefundAccessTokenBalance(c)
    \/ \E a \in Adjustments : AdjustGatewayBalance(a)

LedgerSpec == LedgerInit /\ [][LedgerNext]_ledgerVars

------------------------------------------------------------------------------
(***************************************************************************)
(* Sums over the reservations are written as cardinalities: an amount n of  *)
(* call c is the set of pairs <<c, 1>>, ..., <<c, n>>.                      *)
(***************************************************************************)
Coins == Calls \X (1..MaxAmount)

OpenCoins(S) ==
    {u \in Coins : u[1] \in S /\ resv[u[1]].state = "open" /\ u[2] <= resv[u[1]].amount}

ChargedCoins(S) ==
    {u \in Coins : u[1] \in S /\ resv[u[1]].state = "settled" /\ u[2] <= resv[u[1]].cost}

\* What the provider charged beyond the admission estimate.
OverrunCoins(S) == {u \in ChargedCoins(S) : u[2] > resv[u[1]].amount}

CallsOf(t) == {c \in Calls : TokenOf[c] = t}

\* The balance row holds back exactly the reservations that are still open,
\* whatever the order and number of settles, refunds and recoveries: the
\* clamp GREATEST(reserved_amount - amount, 0) never hides a difference.
ReservedIsOpenTotal == reserved = Cardinality(OpenCoins(Calls))

\* Money is conserved: what the operators put in is the balance and what was
\* charged, with every call charged at most once.
BalanceIsDepositsLessCharges == balance + Cardinality(ChargedCoins(Calls)) = deposits

\* A token's quota_used is what its open reservations hold and what its
\* settled calls cost, so a retried or doubled finish never gives quota back.
QuotaIsOpenPlusCharged ==
    \A t \in Tokens :
        quotaUsed[t] = Cardinality(OpenCoins(CallsOf(t))) + Cardinality(ChargedCoins(CallsOf(t)))

\* The three running totals of the rows, which three statements keep by increments,
\* are the sums over the reservations they stand for: nothing is held, charged or
\* given back twice or forgotten, however calls finish and recoveries join in.
LedgerSums ==
    /\ ReservedIsOpenTotal
    /\ BalanceIsDepositsLessCharges
    /\ QuotaIsOpenPlusCharged

\* Open reservations can outgrow the balance only by what calls cost beyond
\* their estimate: the settlement of one call never spends what the
\* reservation of another holds, unless the estimate was too low.
OverdraftIsOverrun == reserved <= balance + Cardinality(OverrunCoins(Calls))

\* A token with a quota goes past it only by the overrun of its own calls.
QuotaExceededOnlyByOverrun ==
    \A t \in Tokens : QuotaAmount[t] > 0 =>
        quotaUsed[t] <= QuotaAmount[t] + Cardinality(OverrunCoins(CallsOf(t)))

\* Balances and quotas are exceeded by what calls cost beyond their estimates and
\* by nothing else: every call was admitted within both.
OverrunOnly ==
    /\ OverdraftIsOverrun
    /\ QuotaExceededOnlyByOverrun

\* A finished reservation stays as it was finished: a refund that comes after
\* the settlement, or a settlement after the refund, changes nothing.
FinishedStaysFinished ==
    [][\A c \in Calls : resv[c].state \in {"settled", "refunded"} => resv'[c] = resv[c]]_ledgerVars

LedgerSafety ==
    /\ ReservedIsOpenTotal
    /\ BalanceIsDepositsLessCharges
    /\ QuotaIsOpenPlusCharged
    /\ OverdraftIsOverrun

Account == INSTANCE PrepaidAccount WITH funds <- deposits, entries <- resv

\* The rows with their running totals implement the account that only
\* remembers holds and charges: a reservation is granted and an adjustment is
\* refused exactly when the sums over all holds and charges say so.
ImplementsAccount == Account!AccountSpec
==============================================================================

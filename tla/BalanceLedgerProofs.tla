-------------------------- MODULE BalanceLedgerProofs --------------------------
(***************************************************************************)
(* Proofs about BalanceLedger, for every set of calls and tokens, every     *)
(* quota and every amount: the running totals of the rows are the sums they *)
(* stand for, and the rows implement PrepaidAccount.                        *)
(***************************************************************************)
EXTENDS BalanceLedger, FiniteSetTheorems, TLAPS

------------------------------------------------------------------------------
(* Counting coins *)

LEMMA SpanCount ==
    ASSUME NEW c, NEW m \in Int, NEW n \in Int
    PROVE  /\ IsFiniteSet({c} \X (m..n))
           /\ Cardinality({c} \X (m..n)) = IF m > n THEN 0 ELSE n - m + 1
<1>1. IsFiniteSet({c}) /\ Cardinality({c}) = 1
  BY FS_Singleton
<1>2. IsFiniteSet(m..n) /\ Cardinality(m..n) = IF m > n THEN 0 ELSE n - m + 1
  BY FS_Interval
<1>3. /\ IsFiniteSet({c} \X (m..n))
      /\ Cardinality({c} \X (m..n)) = Cardinality({c}) * Cardinality(m..n)
  BY <1>1, <1>2, FS_Product
<1>4. QED
  BY <1>1, <1>2, <1>3

\* An amount is as many coins.
LEMMA AmountCount ==
    ASSUME NEW c, NEW n \in Nat
    PROVE  IsFiniteSet({c} \X (1..n)) /\ Cardinality({c} \X (1..n)) = n
<1>1. 1 \in Int /\ n \in Int
  OBVIOUS
<1>2. /\ IsFiniteSet({c} \X (1..n))
      /\ Cardinality({c} \X (1..n)) = IF 1 > n THEN 0 ELSE n - 1 + 1
  BY <1>1, SpanCount
<1>3. QED
  BY <1>2

LEMMA DisjointSum ==
    ASSUME NEW A, IsFiniteSet(A), NEW B, IsFiniteSet(B), A \cap B = {}
    PROVE  /\ IsFiniteSet(A \cup B)
           /\ Cardinality(A \cup B) = Cardinality(A) + Cardinality(B)
<1>1. Cardinality(A) \in Nat /\ Cardinality(B) \in Nat
  BY FS_CardinalityType
<1>2. Cardinality(A \cap B) = 0
  BY FS_EmptySet
<1>3. IsFiniteSet(A \cup B)
  BY FS_Union
<1>4. Cardinality(A \cup B) = Cardinality(A) + Cardinality(B) - Cardinality(A \cap B)
  BY FS_Union
<1>5. QED
  BY <1>1, <1>2, <1>3, <1>4

LEMMA CoinsFinite ==
    ASSUME NEW S \in SUBSET Calls
    PROVE  /\ IsFiniteSet(OpenCoins(S)) /\ Cardinality(OpenCoins(S)) \in Nat
           /\ IsFiniteSet(ChargedCoins(S)) /\ Cardinality(ChargedCoins(S)) \in Nat
           /\ IsFiniteSet(OverrunCoins(S)) /\ Cardinality(OverrunCoins(S)) \in Nat
<1>1. IsFiniteSet(Coins)
  <2>1. 1 \in Int /\ MaxAmount \in Int
    BY AmountsAssumption
  <2>2. IsFiniteSet(1..MaxAmount)
    BY <2>1, FS_Interval
  <2>3. QED
    BY <2>2, CallsAssumption, FS_Product DEF Coins
<1>2. /\ OpenCoins(S) \in SUBSET Coins
      /\ ChargedCoins(S) \in SUBSET Coins
      /\ OverrunCoins(S) \in SUBSET Coins
  BY DEF OpenCoins, ChargedCoins, OverrunCoins
<1>3. QED
  BY <1>1, <1>2, FS_Subset, FS_CardinalityType

\* A new reservation adds its amount to the open coins of the sets it is in.
LEMMA ReserveCoins ==
    ASSUME NEW c \in Calls, NEW amount \in 0..MaxAmount, NEW S \in SUBSET Calls,
           resv \in [Calls -> Reservation], resv[c].state = "none",
           resv' = [resv EXCEPT ![c] = [state |-> "open", amount |-> amount, cost |-> 0]]
    PROVE  /\ Cardinality(OpenCoins(S)') = Cardinality(OpenCoins(S)) + (IF c \in S THEN amount ELSE 0)
           /\ ChargedCoins(S)' = ChargedCoins(S)
           /\ OverrunCoins(S)' = OverrunCoins(S)
<1> DEFINE new == {c} \X (1..amount)
<1>1. amount \in Nat /\ amount <= MaxAmount /\ MaxAmount \in Nat
  BY AmountsAssumption
<1>2. \A d \in Calls : d # c => resv'[d] = resv[d]
  OBVIOUS
<1>3. resv'[c].state = "open" /\ resv'[c].amount = amount
  OBVIOUS
<1>4. ChargedCoins(S)' = ChargedCoins(S)
  BY <1>2, <1>3 DEF ChargedCoins, Coins
<1>5. OverrunCoins(S)' = OverrunCoins(S)
  BY <1>2, <1>3, <1>4 DEF OverrunCoins, ChargedCoins, Coins
<1>6. CASE c \notin S
  <2>1. OpenCoins(S)' = OpenCoins(S)
    BY <1>2, <1>6 DEF OpenCoins, Coins
  <2>2. QED
    BY <1>4, <1>5, <1>6, <2>1, CoinsFinite
<1>7. CASE c \in S
  <2>1. OpenCoins(S)' = OpenCoins(S) \cup new
    BY <1>1, <1>2, <1>3, <1>7 DEF OpenCoins, Coins
  <2>2. OpenCoins(S) \cap new = {}
    BY DEF OpenCoins, Coins
  <2>3. IsFiniteSet(new) /\ Cardinality(new) = amount
    BY <1>1, AmountCount
  <2>4. QED
    BY <1>4, <1>5, <1>7, <2>1, <2>2, <2>3, CoinsFinite, DisjointSum
<1>8. QED
  BY <1>6, <1>7

\* Finishing takes the reservation's amount out of the open coins and puts what
\* the call cost into the charged ones.
LEMMA FinishCoins ==
    ASSUME NEW c \in Calls, NEW kind \in {"settled", "refunded"}, NEW cost \in 0..MaxAmount,
           NEW S \in SUBSET Calls,
           resv \in [Calls -> Reservation], resv[c].state = "open",
           kind = "refunded" => cost = 0,
           resv' = [resv EXCEPT ![c].state = kind, ![c].cost = cost]
    PROVE  LET amount == resv[c].amount
               over == IF cost > amount THEN cost - amount ELSE 0
           IN  /\ Cardinality(OpenCoins(S)) =
                     Cardinality(OpenCoins(S)') + (IF c \in S THEN amount ELSE 0)
               /\ Cardinality(ChargedCoins(S)') =
                     Cardinality(ChargedCoins(S)) + (IF c \in S THEN cost ELSE 0)
               /\ Cardinality(OverrunCoins(S)') =
                     Cardinality(OverrunCoins(S)) + (IF c \in S THEN over ELSE 0)
               /\ Cardinality(OpenCoins(S)') \in Nat
<1> DEFINE amount == resv[c].amount
           held == {c} \X (1..amount)
           paid == {c} \X (1..cost)
           extra == {c} \X ((amount + 1)..cost)
<1>1. /\ amount \in Nat /\ amount <= MaxAmount
      /\ cost \in Nat /\ cost <= MaxAmount /\ MaxAmount \in Nat
  BY AmountsAssumption DEF Reservation
<1>2. \A d \in Calls : d # c => resv'[d] = resv[d]
  OBVIOUS
<1>3. resv'[c].state = kind /\ resv'[c].cost = cost /\ resv'[c].amount = amount
  BY DEF Reservation
<1>4. /\ OpenCoins(S)' \in SUBSET OpenCoins(S)
      /\ IsFiniteSet(OpenCoins(S)') /\ Cardinality(OpenCoins(S)') \in Nat
  <2>1. OpenCoins(S)' \in SUBSET OpenCoins(S)
    BY <1>2, <1>3 DEF OpenCoins, Coins
  <2>2. QED
    BY <2>1, CoinsFinite, FS_Subset, FS_CardinalityType
<1>5. CASE c \notin S
  <2>1. OpenCoins(S)' = OpenCoins(S) /\ ChargedCoins(S)' = ChargedCoins(S)
    BY <1>2, <1>5 DEF OpenCoins, ChargedCoins, Coins
  <2>2. OverrunCoins(S)' = OverrunCoins(S)
    BY <1>2, <1>5, <2>1 DEF OverrunCoins, ChargedCoins, Coins
  <2>3. QED
    BY <1>5, <2>1, <2>2, CoinsFinite
<1>6. CASE c \in S
  <2>1. OpenCoins(S) = OpenCoins(S)' \cup held /\ OpenCoins(S)' \cap held = {}
    BY <1>1, <1>2, <1>3, <1>6 DEF OpenCoins, Coins
  <2>2. Cardinality(OpenCoins(S)) = Cardinality(OpenCoins(S)') + amount
    <3>1. IsFiniteSet(held) /\ Cardinality(held) = amount
      BY <1>1, AmountCount
    <3>2. QED
      BY <1>4, <2>1, <3>1, DisjointSum
  <2>3. ChargedCoins(S)' = ChargedCoins(S) \cup paid /\ ChargedCoins(S) \cap paid = {}
    BY <1>1, <1>2, <1>3, <1>6 DEF ChargedCoins, Coins
  <2>4. Cardinality(ChargedCoins(S)') = Cardinality(ChargedCoins(S)) + cost
    <3>1. IsFiniteSet(paid) /\ Cardinality(paid) = cost
      BY <1>1, AmountCount
    <3>2. QED
      BY <2>3, <3>1, DisjointSum, CoinsFinite
  <2>5. OverrunCoins(S)' = OverrunCoins(S) \cup extra /\ OverrunCoins(S) \cap extra = {}
    <3>1. \A u \in ChargedCoins(S) : u[1] # c
      BY DEF ChargedCoins
    <3>2. \A u \in ChargedCoins(S) : resv'[u[1]] = resv[u[1]]
      BY <1>2, <3>1 DEF ChargedCoins, Coins
    <3>3. OverrunCoins(S)' = {u \in ChargedCoins(S)' : u[2] > resv'[u[1]].amount}
      BY DEF OverrunCoins
    <3>4. {u \in ChargedCoins(S) : u[2] > resv'[u[1]].amount} = OverrunCoins(S)
      BY <3>2 DEF OverrunCoins
    <3>5. {u \in paid : u[2] > resv'[u[1]].amount} = extra
      BY <1>1, <1>3
    <3>6. QED
      BY <2>3, <3>1, <3>3, <3>4, <3>5 DEF OverrunCoins
  <2>6. Cardinality(extra) = (IF cost > amount THEN cost - amount ELSE 0) /\ IsFiniteSet(extra)
    <3>1. amount + 1 \in Int /\ cost \in Int
      BY <1>1
    <3>2. /\ IsFiniteSet(extra)
          /\ Cardinality(extra) = IF amount + 1 > cost THEN 0 ELSE cost - (amount + 1) + 1
      BY <3>1, SpanCount
    <3>3. QED
      BY <1>1, <3>2
  <2>7. Cardinality(OverrunCoins(S)') =
            Cardinality(OverrunCoins(S)) + (IF cost > amount THEN cost - amount ELSE 0)
    BY <2>5, <2>6, DisjointSum, CoinsFinite
  <2>8. QED
    BY <1>4, <1>6, <2>2, <2>4, <2>7
<1>7. QED
  BY <1>5, <1>6

------------------------------------------------------------------------------
(* The type invariant *)

\* What finishing an open reservation of c does, with the cost that is charged.
Finishes(c, kind, actual, cost) ==
    /\ kind = "refunded" => cost = 0
    /\ kind = "settled" => cost = actual
    /\ reserved' = AtLeastZero(reserved - resv[c].amount)
    /\ balance' = balance - cost
    /\ quotaUsed' = [quotaUsed EXCEPT ![TokenOf[c]] = AtLeastZero(@ + cost - resv[c].amount)]
    /\ resv' = [resv EXCEPT ![c].state = kind, ![c].cost = cost]
    /\ UNCHANGED deposits

LEMMA FinishOpen ==
    ASSUME LedgerTypeOK, NEW c \in Calls, NEW kind \in {"settled", "refunded"},
           NEW actual \in 0..MaxAmount, resv[c].state = "open",
           FinishAccessTokenReservation(c, kind, actual)
    PROVE  \E cost \in 0..MaxAmount : Finishes(c, kind, actual, cost)
<1> DEFINE cost == IF kind = "settled" THEN actual ELSE 0
<1>1. cost \in 0..MaxAmount
  BY AmountsAssumption
<1>2. /\ reserved' = AtLeastZero(reserved - resv[c].amount)
      /\ balance' = balance - cost
      /\ quotaUsed' = [quotaUsed EXCEPT ![TokenOf[c]] = AtLeastZero(@ + cost - resv[c].amount)]
      /\ resv' = [resv EXCEPT ![c].state = kind, ![c].cost = cost]
      /\ UNCHANGED deposits
  BY DEF FinishAccessTokenReservation
<1>3. (kind = "refunded" => cost = 0) /\ (kind = "settled" => cost = actual)
  OBVIOUS
<1> HIDE DEF cost
<1>4. Finishes(c, kind, actual, cost)
  BY <1>2, <1>3 DEF Finishes
<1>5. QED
  BY <1>1, <1>4

LEMMA ReserveType ==
    ASSUME LedgerTypeOK, NEW c \in Calls, NEW amount \in 0..MaxAmount,
           ReserveAccessTokenBalance(c, amount)
    PROVE  LedgerTypeOK'
<1>1. amount \in Int /\ 0 \in 0..MaxAmount /\ TokenOf[c] \in Tokens
  BY AmountsAssumption, TokensAssumption
<1>2. [state |-> "open", amount |-> amount, cost |-> 0] \in Reservation
  BY <1>1 DEF Reservation, ReservationStates
<1>3. QED
  BY <1>1, <1>2 DEF ReserveAccessTokenBalance, LedgerTypeOK

LEMMA FinishType ==
    ASSUME LedgerTypeOK, NEW c \in Calls, NEW kind \in {"settled", "refunded"},
           NEW actual \in 0..MaxAmount, FinishAccessTokenReservation(c, kind, actual)
    PROVE  LedgerTypeOK'
<1>1. CASE resv[c].state # "open"
  BY <1>1 DEF FinishAccessTokenReservation, ledgerVars, LedgerTypeOK
<1>2. CASE resv[c].state = "open"
  <2>0. PICK cost \in 0..MaxAmount : Finishes(c, kind, actual, cost)
    BY <1>2, FinishOpen
  <2>1. /\ reserved' = AtLeastZero(reserved - resv[c].amount)
        /\ balance' = balance - cost
        /\ quotaUsed' = [quotaUsed EXCEPT ![TokenOf[c]] = AtLeastZero(@ + cost - resv[c].amount)]
        /\ resv' = [resv EXCEPT ![c].state = kind, ![c].cost = cost]
        /\ UNCHANGED deposits
    BY <2>0 DEF Finishes
  <2>2. resv[c] \in Reservation /\ resv[c].amount \in Int /\ cost \in Int
    BY AmountsAssumption DEF LedgerTypeOK, Reservation
  <2>3. resv' \in [Calls -> Reservation]
    <3>1. kind \in ReservationStates
      BY DEF ReservationStates
    <3>2. [resv[c] EXCEPT !.state = kind, !.cost = cost] \in Reservation
      BY <2>2, <3>1 DEF Reservation
    <3>3. resv' = [resv EXCEPT ![c] = [resv[c] EXCEPT !.state = kind, !.cost = cost]]
      BY <2>1 DEF LedgerTypeOK
    <3>4. QED
      BY <3>2, <3>3 DEF LedgerTypeOK
  <2>4. quotaUsed' \in [Tokens -> Int]
    <3>1. TokenOf[c] \in Tokens /\ quotaUsed \in [Tokens -> Int]
      BY TokensAssumption DEF LedgerTypeOK
    <3>2. AtLeastZero(quotaUsed[TokenOf[c]] + cost - resv[c].amount) \in Int
      BY <2>2, <3>1 DEF AtLeastZero
    <3>3. QED
      BY <2>1, <3>1, <3>2
  <2>5. QED
    BY <2>1, <2>2, <2>3, <2>4 DEF LedgerTypeOK, AtLeastZero
<1>3. QED
  BY <1>1, <1>2

LEMMA AdjustType ==
    ASSUME LedgerTypeOK, NEW a \in Adjustments, AdjustGatewayBalance(a)
    PROVE  LedgerTypeOK'
BY AmountsAssumption DEF AdjustGatewayBalance, LedgerTypeOK

LEMMA LedgerInitType == LedgerInit => LedgerTypeOK
BY AmountsAssumption DEF LedgerInit, LedgerTypeOK, NoReservation, Reservation, ReservationStates

LEMMA LedgerTypeStep == LedgerTypeOK /\ [LedgerNext]_ledgerVars => LedgerTypeOK'
<1> SUFFICES ASSUME LedgerTypeOK, [LedgerNext]_ledgerVars PROVE LedgerTypeOK'
  OBVIOUS
<1>1. ASSUME NEW c \in Calls, NEW amount \in 0..MaxAmount, ReserveAccessTokenBalance(c, amount)
      PROVE  LedgerTypeOK'
  BY <1>1, ReserveType
<1>2. ASSUME NEW c \in Calls, NEW amount \in 0..MaxAmount, SettleAccessTokenBalance(c, amount)
      PROVE  LedgerTypeOK'
  BY <1>2, FinishType DEF SettleAccessTokenBalance
<1>3. ASSUME NEW c \in Calls, RefundAccessTokenBalance(c)
      PROVE  LedgerTypeOK'
  <2>1. 0 \in 0..MaxAmount
    BY AmountsAssumption
  <2>2. QED
    BY <1>3, <2>1, FinishType DEF RefundAccessTokenBalance
<1>4. ASSUME NEW a \in Adjustments, AdjustGatewayBalance(a) PROVE LedgerTypeOK'
  BY <1>4, AdjustType
<1>5. CASE UNCHANGED ledgerVars
  BY <1>5 DEF ledgerVars, LedgerTypeOK
<1>6. QED
  BY <1>1, <1>2, <1>3, <1>4, <1>5 DEF LedgerNext

\* Every reachable state is one the account's rows can hold.
THEOREM LedgerTypeCorrect == LedgerSpec => []LedgerTypeOK
BY LedgerInitType, LedgerTypeStep, PTL DEF LedgerSpec

------------------------------------------------------------------------------
(* The running totals are the sums they stand for *)

LedgerInv ==
    /\ LedgerTypeOK
    /\ LedgerSafety
    /\ QuotaExceededOnlyByOverrun

LEMMA LedgerInitInv == LedgerInit => LedgerInv
<1> SUFFICES ASSUME LedgerInit PROVE LedgerInv
  OBVIOUS
<1>1. \A S \in SUBSET Calls :
        Cardinality(OpenCoins(S)) = 0 /\ Cardinality(ChargedCoins(S)) = 0
  <2> TAKE S \in SUBSET Calls
  <2>1. OpenCoins(S) = {} /\ ChargedCoins(S) = {}
    BY DEF LedgerInit, NoReservation, OpenCoins, ChargedCoins, Coins
  <2>2. QED
    BY <2>1, FS_EmptySet
<1>2. \A t \in Tokens : CallsOf(t) \in SUBSET Calls
  BY DEF CallsOf
<1>3. \A S \in SUBSET Calls : Cardinality(OverrunCoins(S)) \in Nat
  BY CoinsFinite
<1>4. ReservedIsOpenTotal /\ BalanceIsDepositsLessCharges /\ QuotaIsOpenPlusCharged
  BY <1>1, <1>2 DEF LedgerInit, ReservedIsOpenTotal, BalanceIsDepositsLessCharges, QuotaIsOpenPlusCharged
<1>5. OverdraftIsOverrun
  BY <1>3 DEF LedgerInit, OverdraftIsOverrun
<1>6. QuotaExceededOnlyByOverrun
  BY <1>2, <1>3, TokensAssumption DEF LedgerInit, QuotaExceededOnlyByOverrun
<1>7. QED
  BY <1>4, <1>5, <1>6, LedgerInitType DEF LedgerInv, LedgerSafety

LEMMA ReserveInv ==
    ASSUME LedgerInv, NEW c \in Calls, NEW amount \in 0..MaxAmount,
           ReserveAccessTokenBalance(c, amount)
    PROVE  LedgerInv'
<1> DEFINE t == TokenOf[c]
<1>1. LedgerTypeOK /\ LedgerTypeOK' /\ amount \in Nat /\ t \in Tokens
  BY ReserveType, AmountsAssumption, TokensAssumption DEF LedgerInv
<1>2. \A S \in SUBSET Calls :
        /\ Cardinality(OpenCoins(S)') = Cardinality(OpenCoins(S)) + (IF c \in S THEN amount ELSE 0)
        /\ ChargedCoins(S)' = ChargedCoins(S)
        /\ OverrunCoins(S)' = OverrunCoins(S)
  <2>1. resv \in [Calls -> Reservation] /\ resv[c].state = "none"
    BY <1>1 DEF LedgerTypeOK, ReserveAccessTokenBalance
  <2>2. resv' = [resv EXCEPT ![c] = [state |-> "open", amount |-> amount, cost |-> 0]]
    BY DEF ReserveAccessTokenBalance
  <2>3. QED
    BY <2>1, <2>2, ReserveCoins
<1>3. \A S \in SUBSET Calls : /\ Cardinality(OpenCoins(S)) \in Nat
                              /\ Cardinality(ChargedCoins(S)) \in Nat
                              /\ Cardinality(OverrunCoins(S)) \in Nat
  BY CoinsFinite
<1>4. \A d \in Tokens : CallsOf(d) \in SUBSET Calls /\ (c \in CallsOf(d) <=> d = t)
  BY DEF CallsOf
<1>5. ReservedIsOpenTotal'
  BY <1>1, <1>2, <1>3 DEF ReserveAccessTokenBalance, LedgerInv, LedgerSafety, ReservedIsOpenTotal
<1>6. BalanceIsDepositsLessCharges'
  BY <1>2 DEF ReserveAccessTokenBalance, LedgerInv, LedgerSafety, BalanceIsDepositsLessCharges
<1>7. /\ quotaUsed'[t] = quotaUsed[t] + amount
      /\ \A d \in Tokens : d # t => quotaUsed'[d] = quotaUsed[d]
      /\ quotaUsed \in [Tokens -> Int]
  BY <1>1 DEF ReserveAccessTokenBalance, LedgerTypeOK
<1>8. QuotaIsOpenPlusCharged'
  <2> SUFFICES ASSUME NEW d \in Tokens
               PROVE  quotaUsed'[d] = Cardinality(OpenCoins(CallsOf(d))')
                                        + Cardinality(ChargedCoins(CallsOf(d))')
    BY DEF QuotaIsOpenPlusCharged, CallsOf
  <2>1. quotaUsed[d] = Cardinality(OpenCoins(CallsOf(d))) + Cardinality(ChargedCoins(CallsOf(d)))
    BY DEF LedgerInv, LedgerSafety, QuotaIsOpenPlusCharged
  <2>2. CASE d = t
    BY <1>1, <1>2, <1>3, <1>4, <1>7, <2>1, <2>2
  <2>3. CASE d # t
    BY <1>1, <1>2, <1>3, <1>4, <1>7, <2>1, <2>3
  <2>4. QED
    BY <2>2, <2>3
<1>9. OverdraftIsOverrun'
  <2>1. reserved' <= balance' /\ balance' \in Int /\ reserved' \in Int
    BY <1>1 DEF ReserveAccessTokenBalance, LedgerTypeOK
  <2>2. Cardinality(OverrunCoins(Calls)') \in Nat
    BY <1>2, <1>3
  <2>3. QED
    BY <2>1, <2>2 DEF OverdraftIsOverrun
<1>10. QuotaExceededOnlyByOverrun'
  <2> SUFFICES ASSUME NEW d \in Tokens, QuotaAmount[d] > 0
               PROVE  quotaUsed'[d] <= QuotaAmount[d] + Cardinality(OverrunCoins(CallsOf(d))')
    BY DEF QuotaExceededOnlyByOverrun, CallsOf
  <2>1. QuotaAmount[d] \in Nat /\ quotaUsed'[d] \in Int
    BY <1>1, TokensAssumption DEF LedgerTypeOK
  <2>2. OverrunCoins(CallsOf(d))' = OverrunCoins(CallsOf(d))
    BY <1>2, <1>4
  <2>3. CASE d = t
    <3>1. quotaUsed'[d] <= QuotaAmount[d]
      BY <1>1, <1>7, <2>1, <2>3 DEF ReserveAccessTokenBalance
    <3>2. QED
      BY <1>3, <1>4, <2>1, <2>2, <3>1
  <2>4. CASE d # t
    BY <1>7, <2>2, <2>4 DEF LedgerInv, QuotaExceededOnlyByOverrun
  <2>5. QED
    BY <2>3, <2>4
<1>11. QED
  BY <1>1, <1>5, <1>6, <1>8, <1>9, <1>10 DEF LedgerInv, LedgerSafety

\* A settlement or refund.  The clamps do not act: what is subtracted was
\* counted among the open coins.
LEMMA FinishInv ==
    ASSUME LedgerInv, NEW c \in Calls, NEW kind \in {"settled", "refunded"},
           NEW actual \in 0..MaxAmount, FinishAccessTokenReservation(c, kind, actual)
    PROVE  LedgerInv'
<1> DEFINE t == TokenOf[c]
           amount == resv[c].amount
<1>1. LedgerTypeOK /\ LedgerTypeOK' /\ t \in Tokens
  BY FinishType, TokensAssumption DEF LedgerInv
<1>2. CASE resv[c].state # "open"
  <2>1. UNCHANGED ledgerVars
    BY <1>2 DEF FinishAccessTokenReservation
  <2>2. QED
    BY <1>1, <2>1 DEF ledgerVars, LedgerInv, LedgerSafety, ReservedIsOpenTotal,
        BalanceIsDepositsLessCharges, QuotaIsOpenPlusCharged, OverdraftIsOverrun,
        QuotaExceededOnlyByOverrun, OpenCoins, ChargedCoins, OverrunCoins
<1>3. CASE resv[c].state = "open"
  <2>0. PICK cost \in 0..MaxAmount : Finishes(c, kind, actual, cost)
    BY <1>1, <1>3, FinishOpen
  <2>1. /\ kind = "refunded" => cost = 0
        /\ reserved' = AtLeastZero(reserved - amount)
        /\ balance' = balance - cost
        /\ quotaUsed' = [quotaUsed EXCEPT ![t] = AtLeastZero(@ + cost - amount)]
        /\ resv' = [resv EXCEPT ![c].state = kind, ![c].cost = cost]
        /\ UNCHANGED deposits
    BY <2>0 DEF Finishes
  <2> DEFINE over == IF cost > amount THEN cost - amount ELSE 0
  <2>2. amount \in Nat /\ cost \in Nat /\ over \in Nat /\ resv \in [Calls -> Reservation]
    BY <1>1, AmountsAssumption DEF LedgerTypeOK, Reservation
  <2>3. \A S \in SUBSET Calls :
          /\ Cardinality(OpenCoins(S)) = Cardinality(OpenCoins(S)') + (IF c \in S THEN amount ELSE 0)
          /\ Cardinality(ChargedCoins(S)') = Cardinality(ChargedCoins(S)) + (IF c \in S THEN cost ELSE 0)
          /\ Cardinality(OverrunCoins(S)') = Cardinality(OverrunCoins(S)) + (IF c \in S THEN over ELSE 0)
          /\ Cardinality(OpenCoins(S)') \in Nat
    BY <1>3, <2>1, <2>2, FinishCoins
  <2>4. \A S \in SUBSET Calls : /\ Cardinality(OpenCoins(S)) \in Nat
                                /\ Cardinality(ChargedCoins(S)) \in Nat
                                /\ Cardinality(OverrunCoins(S)) \in Nat
    BY CoinsFinite
  <2>5. \A d \in Tokens : CallsOf(d) \in SUBSET Calls /\ (c \in CallsOf(d) <=> d = t)
    BY DEF CallsOf
  <2> HIDE DEF over
  <2>6. reserved = Cardinality(OpenCoins(Calls))
    BY DEF LedgerInv, LedgerSafety, ReservedIsOpenTotal
  <2>7. /\ reserved' = reserved - amount
        /\ reserved' = Cardinality(OpenCoins(Calls)')
    <3>1. Cardinality(OpenCoins(Calls)) = Cardinality(OpenCoins(Calls)') + amount
      BY <2>3
    <3>2. Cardinality(OpenCoins(Calls)') \in Nat
      BY <2>3
    <3>3. reserved - amount >= 0
      BY <2>2, <2>6, <3>1, <3>2
    <3>4. QED
      BY <2>1, <2>2, <2>6, <3>1, <3>2, <3>3 DEF AtLeastZero
  <2>8. BalanceIsDepositsLessCharges'
    <3>1. balance + Cardinality(ChargedCoins(Calls)) = deposits
      BY DEF LedgerInv, LedgerSafety, BalanceIsDepositsLessCharges
    <3>2. Cardinality(ChargedCoins(Calls)') = Cardinality(ChargedCoins(Calls)) + cost
      BY <2>3
    <3>3. balance \in Int /\ Cardinality(ChargedCoins(Calls)) \in Nat
      BY <1>1, <2>4 DEF LedgerTypeOK
    <3>4. QED
      BY <2>1, <2>2, <3>1, <3>2, <3>3 DEF BalanceIsDepositsLessCharges
  <2>9. \A d \in Tokens :
          quotaUsed[d] = Cardinality(OpenCoins(CallsOf(d))) + Cardinality(ChargedCoins(CallsOf(d)))
    BY DEF LedgerInv, LedgerSafety, QuotaIsOpenPlusCharged
  <2>10. /\ quotaUsed'[t] = quotaUsed[t] + cost - amount
         /\ \A d \in Tokens : d # t => quotaUsed'[d] = quotaUsed[d]
    <3>1. quotaUsed \in [Tokens -> Int]
      BY <1>1 DEF LedgerTypeOK
    <3>2. Cardinality(OpenCoins(CallsOf(t))) >= amount
      BY <1>1, <2>2, <2>3, <2>5
    <3>3. quotaUsed[t] + cost - amount >= 0
      BY <1>1, <2>2, <2>4, <2>5, <2>9, <3>1, <3>2
    <3>4. AtLeastZero(quotaUsed[t] + cost - amount) = quotaUsed[t] + cost - amount
      BY <1>1, <2>2, <3>1, <3>3 DEF AtLeastZero
    <3>5. QED
      BY <1>1, <2>1, <3>1, <3>4
  <2>11. QuotaIsOpenPlusCharged'
    <3> SUFFICES ASSUME NEW d \in Tokens
                 PROVE  quotaUsed'[d] = Cardinality(OpenCoins(CallsOf(d))')
                                          + Cardinality(ChargedCoins(CallsOf(d))')
      BY DEF QuotaIsOpenPlusCharged, CallsOf
    <3>1. CASE d = t
      BY <1>1, <2>2, <2>3, <2>4, <2>5, <2>9, <2>10, <3>1
    <3>2. CASE d # t
      BY <1>1, <2>2, <2>3, <2>4, <2>5, <2>9, <2>10, <3>2
    <3>3. QED
      BY <3>1, <3>2
  <2>12. OverdraftIsOverrun'
    <3>1. reserved <= balance + Cardinality(OverrunCoins(Calls))
      BY DEF LedgerInv, LedgerSafety, OverdraftIsOverrun
    <3>2. Cardinality(OverrunCoins(Calls)') = Cardinality(OverrunCoins(Calls)) + over
      BY <2>3
    <3>3. reserved \in Int /\ balance \in Int /\ Cardinality(OverrunCoins(Calls)) \in Nat
      BY <1>1, <2>4 DEF LedgerTypeOK
    <3>4. over >= cost - amount
      BY <2>2 DEF over
    <3>5. reserved' <= balance' + Cardinality(OverrunCoins(Calls)')
      BY <2>1, <2>2, <2>7, <3>1, <3>2, <3>3, <3>4
    <3>6. QED
      BY <3>5 DEF OverdraftIsOverrun
  <2>13. QuotaExceededOnlyByOverrun'
    <3> SUFFICES ASSUME NEW d \in Tokens, QuotaAmount[d] > 0
                 PROVE  quotaUsed'[d] <= QuotaAmount[d] + Cardinality(OverrunCoins(CallsOf(d))')
      BY DEF QuotaExceededOnlyByOverrun, CallsOf
    <3>1. quotaUsed[d] <= QuotaAmount[d] + Cardinality(OverrunCoins(CallsOf(d)))
      BY DEF LedgerInv, QuotaExceededOnlyByOverrun
    <3>2. /\ QuotaAmount[d] \in Nat /\ quotaUsed[d] \in Int
          /\ Cardinality(OverrunCoins(CallsOf(d))) \in Nat
      BY <1>1, <2>4, <2>5, TokensAssumption DEF LedgerTypeOK
    <3>3. CASE d = t
      <4>1. Cardinality(OverrunCoins(CallsOf(d))') = Cardinality(OverrunCoins(CallsOf(d))) + over
        BY <2>3, <2>5, <3>3
      <4>2. over >= cost - amount
        BY <2>2 DEF over
      <4>3. QED
        BY <2>2, <2>10, <3>1, <3>2, <3>3, <4>1, <4>2
    <3>4. CASE d # t
      <4>1. Cardinality(OverrunCoins(CallsOf(d))') = Cardinality(OverrunCoins(CallsOf(d)))
        BY <2>3, <2>5, <3>2, <3>4
      <4>2. QED
        BY <2>10, <3>1, <3>4, <4>1
    <3>5. QED
      BY <3>3, <3>4
  <2>14. QED
    BY <1>1, <2>7, <2>8, <2>11, <2>12, <2>13 DEF LedgerInv, LedgerSafety, ReservedIsOpenTotal
<1>4. QED
  BY <1>2, <1>3

LEMMA AdjustInv ==
    ASSUME LedgerInv, NEW a \in Adjustments, AdjustGatewayBalance(a)
    PROVE  LedgerInv'
<1>1. LedgerTypeOK /\ LedgerTypeOK' /\ a \in Int
  BY AdjustType, AmountsAssumption DEF LedgerInv
<1>2. /\ balance' = balance + a /\ deposits' = deposits + a /\ balance' >= reserved
      /\ reserved' = reserved /\ quotaUsed' = quotaUsed /\ resv' = resv
  BY DEF AdjustGatewayBalance
<1>3. \A S \in SUBSET Calls : /\ OpenCoins(S)' = OpenCoins(S)
                              /\ ChargedCoins(S)' = ChargedCoins(S)
                              /\ OverrunCoins(S)' = OverrunCoins(S)
  BY <1>2 DEF OpenCoins, ChargedCoins, OverrunCoins
<1>4. \A d \in Tokens : CallsOf(d) \in SUBSET Calls
  BY DEF CallsOf
<1>5. Cardinality(ChargedCoins(Calls)) \in Nat /\ Cardinality(OverrunCoins(Calls)) \in Nat
  BY CoinsFinite
<1>6. ReservedIsOpenTotal'
  BY <1>2, <1>3 DEF LedgerInv, LedgerSafety, ReservedIsOpenTotal
<1>7. BalanceIsDepositsLessCharges'
  <2>1. balance + Cardinality(ChargedCoins(Calls)) = deposits /\ balance \in Int
    BY <1>1 DEF LedgerInv, LedgerSafety, BalanceIsDepositsLessCharges, LedgerTypeOK
  <2>2. ChargedCoins(Calls)' = ChargedCoins(Calls)
    BY <1>3
  <2>3. (balance + a) + Cardinality(ChargedCoins(Calls)) = deposits + a
    BY <1>1, <1>5, <2>1
  <2>4. QED
    BY <1>2, <2>2, <2>3 DEF BalanceIsDepositsLessCharges
<1>8. QuotaIsOpenPlusCharged' /\ QuotaExceededOnlyByOverrun'
  BY <1>2, <1>3, <1>4 DEF LedgerInv, LedgerSafety, QuotaIsOpenPlusCharged,
     QuotaExceededOnlyByOverrun, OpenCoins, ChargedCoins, OverrunCoins, CallsOf
<1>9. OverdraftIsOverrun'
  BY <1>1, <1>2, <1>3, <1>5 DEF OverdraftIsOverrun, LedgerTypeOK
<1>10. QED
  BY <1>1, <1>6, <1>7, <1>8, <1>9 DEF LedgerInv, LedgerSafety

LEMMA LedgerInvStep == LedgerInv /\ [LedgerNext]_ledgerVars => LedgerInv'
<1> SUFFICES ASSUME LedgerInv, [LedgerNext]_ledgerVars PROVE LedgerInv'
  OBVIOUS
<1>1. ASSUME NEW c \in Calls, NEW amount \in 0..MaxAmount, ReserveAccessTokenBalance(c, amount)
      PROVE  LedgerInv'
  BY <1>1, ReserveInv
<1>2. ASSUME NEW c \in Calls, NEW amount \in 0..MaxAmount, SettleAccessTokenBalance(c, amount)
      PROVE  LedgerInv'
  BY <1>2, FinishInv DEF SettleAccessTokenBalance
<1>3. ASSUME NEW c \in Calls, RefundAccessTokenBalance(c)
      PROVE  LedgerInv'
  <2>1. 0 \in 0..MaxAmount
    BY AmountsAssumption
  <2>2. QED
    BY <1>3, <2>1, FinishInv DEF RefundAccessTokenBalance
<1>4. ASSUME NEW a \in Adjustments, AdjustGatewayBalance(a) PROVE LedgerInv'
  BY <1>4, AdjustInv
<1>5. CASE UNCHANGED ledgerVars
  BY <1>5 DEF ledgerVars, LedgerInv, LedgerTypeOK, LedgerSafety, ReservedIsOpenTotal,
     BalanceIsDepositsLessCharges, QuotaIsOpenPlusCharged, OverdraftIsOverrun,
     QuotaExceededOnlyByOverrun, OpenCoins, ChargedCoins, OverrunCoins
<1>6. QED
  BY <1>1, <1>2, <1>3, <1>4, <1>5 DEF LedgerNext

LEMMA LedgerInvariant == LedgerSpec => []LedgerInv
BY LedgerInitInv, LedgerInvStep, PTL DEF LedgerSpec

\* The balance row holds back exactly what the open reservations hold.
THEOREM ReservedIsExact == LedgerSpec => []ReservedIsOpenTotal
<1>1. LedgerInv => ReservedIsOpenTotal
  BY DEF LedgerInv, LedgerSafety
<1>2. QED
  BY <1>1, LedgerInvariant, PTL

\* Deposits are the balance and the charges, and no call is charged twice.
THEOREM MoneyIsConserved == LedgerSpec => []BalanceIsDepositsLessCharges
<1>1. LedgerInv => BalanceIsDepositsLessCharges
  BY DEF LedgerInv, LedgerSafety
<1>2. QED
  BY <1>1, LedgerInvariant, PTL

\* A token's quota_used is what its calls hold and have cost.
THEOREM QuotaIsExact == LedgerSpec => []QuotaIsOpenPlusCharged
<1>1. LedgerInv => QuotaIsOpenPlusCharged
  BY DEF LedgerInv, LedgerSafety
<1>2. QED
  BY <1>1, LedgerInvariant, PTL

\* All three running totals are the sums over the reservations.
THEOREM SumsAreExact == LedgerSpec => []LedgerSums
<1>1. LedgerInv => LedgerSums
  BY DEF LedgerInv, LedgerSafety, LedgerSums
<1>2. QED
  BY <1>1, LedgerInvariant, PTL

\* Reservations outgrow the balance only by what calls cost beyond estimates.
THEOREM OverdraftIsBounded == LedgerSpec => []OverdraftIsOverrun
<1>1. LedgerInv => OverdraftIsOverrun
  BY DEF LedgerInv, LedgerSafety
<1>2. QED
  BY <1>1, LedgerInvariant, PTL

\* A token passes its quota only by the overrun of its own calls.
THEOREM QuotaIsBounded == LedgerSpec => []QuotaExceededOnlyByOverrun
<1>1. LedgerInv => QuotaExceededOnlyByOverrun
  BY DEF LedgerInv
<1>2. QED
  BY <1>1, LedgerInvariant, PTL

\* Neither a balance nor a quota is exceeded but by the overrun of calls.
THEOREM OverrunIsBounded == LedgerSpec => []OverrunOnly
<1>1. LedgerInv => OverrunOnly
  BY DEF LedgerInv, LedgerSafety, OverrunOnly
<1>2. QED
  BY <1>1, LedgerInvariant, PTL

------------------------------------------------------------------------------
(* Finished reservations, and the account the rows implement *)

\* No operation changes a reservation that is settled or refunded.
THEOREM FinishedIsFinal == LedgerSpec => FinishedStaysFinished
<1>1. LedgerTypeOK /\ [LedgerNext]_ledgerVars =>
        [\A c \in Calls : resv[c].state \in {"settled", "refunded"} => resv'[c] = resv[c]]_ledgerVars
  <2> SUFFICES ASSUME LedgerTypeOK, LedgerNext,
                      NEW c \in Calls, resv[c].state \in {"settled", "refunded"}
               PROVE  resv'[c] = resv[c]
    OBVIOUS
  <2>1. ASSUME NEW d \in Calls, NEW amount \in 0..MaxAmount, ReserveAccessTokenBalance(d, amount)
        PROVE  resv'[c] = resv[c]
    BY <2>1 DEF ReserveAccessTokenBalance, LedgerTypeOK
  <2>2. ASSUME NEW d \in Calls, NEW kind, NEW actual, FinishAccessTokenReservation(d, kind, actual)
        PROVE  resv'[c] = resv[c]
    <3>1. CASE resv[d].state = "open"
      <4>1. d # c
        BY <3>1
      <4>2. resv' = [resv EXCEPT ![d].state = kind,
                                 ![d].cost = IF kind = "settled" THEN actual ELSE 0]
        BY <2>2, <3>1 DEF FinishAccessTokenReservation
      <4>3. QED
        BY <4>1, <4>2 DEF LedgerTypeOK
    <3>2. CASE resv[d].state # "open"
      BY <2>2, <3>2 DEF FinishAccessTokenReservation, ledgerVars
    <3>3. QED
      BY <3>1, <3>2
  <2>3. ASSUME NEW a \in Adjustments, AdjustGatewayBalance(a) PROVE resv'[c] = resv[c]
    BY <2>3 DEF AdjustGatewayBalance
  <2>4. QED
    BY <2>1, <2>2, <2>3 DEF LedgerNext, SettleAccessTokenBalance, RefundAccessTokenBalance
<1>2. QED
  BY <1>1, LedgerTypeCorrect, PTL DEF LedgerSpec, FinishedStaysFinished

\* The abstract sums are the coins of the rows.
LEMMA AccountSums ==
    \A S \in SUBSET Calls : /\ Account!Held(S) = OpenCoins(S)
                            /\ Account!Charged(S) = ChargedCoins(S)
BY DEF Account!Held, Account!Charged, OpenCoins, ChargedCoins, Coins

\* The instance has its own copy of the cardinality of the library.
LEMMA SameCardinality == \A S : Account!Cardinality(S) = Cardinality(S)
BY DEF Account!Cardinality, Cardinality

\* Every operation on the rows is a step of the account or leaves it alone.
LEMMA AccountStep == LedgerInv /\ [LedgerNext]_ledgerVars => [Account!AccountNext]_<<deposits, resv>>
<1> SUFFICES ASSUME LedgerInv, [LedgerNext]_ledgerVars
             PROVE  Account!AccountNext \/ UNCHANGED <<deposits, resv>>
  OBVIOUS
<1>1. /\ reserved = Cardinality(OpenCoins(Calls))
      /\ balance + Cardinality(ChargedCoins(Calls)) = deposits
      /\ \A t \in Tokens : quotaUsed[t] =
            Cardinality(OpenCoins(CallsOf(t))) + Cardinality(ChargedCoins(CallsOf(t)))
      /\ LedgerTypeOK
  BY DEF LedgerInv, LedgerSafety, ReservedIsOpenTotal, BalanceIsDepositsLessCharges, QuotaIsOpenPlusCharged
<1>2. /\ Account!Committed(Calls) = Cardinality(OpenCoins(Calls)) + Cardinality(ChargedCoins(Calls))
      /\ \A t \in Tokens : Account!Committed(CallsOf(t)) = quotaUsed[t]
  <2>1. \A S \in SUBSET Calls :
          Account!Committed(S) = Cardinality(Account!Held(S)) + Cardinality(Account!Charged(S))
    BY SameCardinality DEF Account!Committed
  <2>2. \A S \in SUBSET Calls :
          Account!Committed(S) = Cardinality(OpenCoins(S)) + Cardinality(ChargedCoins(S))
    BY <2>1, AccountSums
  <2>3. \A t \in Tokens : CallsOf(t) \in SUBSET Calls
    BY DEF CallsOf
  <2>4. QED
    BY <1>1, <2>2, <2>3
<1>3. /\ balance \in Int /\ reserved \in Int /\ deposits \in Int
      /\ Cardinality(OpenCoins(Calls)) \in Nat /\ Cardinality(ChargedCoins(Calls)) \in Nat
  BY <1>1, CoinsFinite DEF LedgerTypeOK
<1>4. ASSUME NEW c \in Calls, NEW amount \in 0..MaxAmount, ReserveAccessTokenBalance(c, amount)
      PROVE  Account!Hold(c, amount)
  <2>1. amount \in Int /\ TokenOf[c] \in Tokens
    BY TokensAssumption
  <2>2. Account!Committed(Calls) + amount <= deposits
    BY <1>1, <1>2, <1>3, <1>4, <2>1 DEF ReserveAccessTokenBalance
  <2>3. \/ QuotaAmount[TokenOf[c]] = 0
        \/ Account!Committed(CallsOf(TokenOf[c])) + amount <= QuotaAmount[TokenOf[c]]
    BY <1>2, <1>4, <2>1 DEF ReserveAccessTokenBalance
  <2>4. QED
    BY <1>4, <2>2, <2>3 DEF Account!Hold, ReserveAccessTokenBalance, CallsOf
<1>5. ASSUME NEW c \in Calls, NEW kind \in {"settled", "refunded"}, NEW actual \in 0..MaxAmount,
             FinishAccessTokenReservation(c, kind, actual)
      PROVE  \/ kind = "settled" /\ Account!Charge(c, actual)
             \/ kind = "refunded" /\ Account!Cancel(c)
             \/ UNCHANGED <<deposits, resv>>
  <2>1. CASE resv[c].state = "open"
    <3>0. PICK cost \in 0..MaxAmount : Finishes(c, kind, actual, cost)
      BY <1>1, <1>5, <2>1, FinishOpen
    <3>1. /\ kind = "refunded" => cost = 0
          /\ kind = "settled" => cost = actual
          /\ resv' = [resv EXCEPT ![c].state = kind, ![c].cost = cost]
          /\ UNCHANGED deposits
      BY <3>0 DEF Finishes
    <3>2. CASE kind = "settled"
      BY <2>1, <3>1, <3>2 DEF Account!Charge
    <3>3. CASE kind = "refunded"
      BY <2>1, <3>1, <3>3 DEF Account!Cancel
    <3>4. QED
      BY <3>2, <3>3
  <2>2. CASE resv[c].state # "open"
    BY <1>5, <2>2 DEF FinishAccessTokenReservation, ledgerVars
  <2>3. QED
    BY <2>1, <2>2
<1>6. ASSUME NEW a \in Adjustments, AdjustGatewayBalance(a)
      PROVE  Account!Deposit(a)
  <2>1. a \in Int
    BY AmountsAssumption
  <2>2. Account!Committed(Calls) <= deposits + a
    BY <1>1, <1>2, <1>3, <1>6, <2>1 DEF AdjustGatewayBalance
  <2>3. QED
    BY <1>6, <2>2 DEF Account!Deposit, AdjustGatewayBalance
<1>7. CASE UNCHANGED ledgerVars
  BY <1>7 DEF ledgerVars
<1>8. 0 \in 0..MaxAmount
  BY AmountsAssumption
<1>9. ASSUME NEW c \in Calls, NEW amount \in 0..MaxAmount, SettleAccessTokenBalance(c, amount)
      PROVE  Account!Charge(c, amount) \/ UNCHANGED <<deposits, resv>>
  BY <1>5, <1>9 DEF SettleAccessTokenBalance
<1>10. ASSUME NEW c \in Calls, RefundAccessTokenBalance(c)
       PROVE  Account!Cancel(c) \/ UNCHANGED <<deposits, resv>>
  BY <1>5, <1>8, <1>10 DEF RefundAccessTokenBalance
<1>11. QED
  BY <1>4, <1>6, <1>7, <1>9, <1>10 DEF LedgerNext, Account!AccountNext

\* The rows with their running totals implement the account without them.
THEOREM LedgerImplementsAccount == LedgerSpec => ImplementsAccount
<1>1. LedgerInit => Account!AccountInit
  BY DEF LedgerInit, Account!AccountInit, NoReservation, Account!NoEntry
<1>2. QED
  BY <1>1, AccountStep, LedgerInvariant, PTL
     DEF LedgerSpec, ImplementsAccount, Account!AccountSpec, Account!accountVars
==============================================================================

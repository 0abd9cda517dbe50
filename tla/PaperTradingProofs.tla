------------------------- MODULE PaperTradingProofs -------------------------
(***************************************************************************)
(* For any number of requests, symbols, quantities and prices: the wallet  *)
(* stays solvent, a buy never writes back a stale position, PaperTrading   *)
(* implements PaperLedger, no fill pays, and the audit trail explains the  *)
(* wallet.                                                                 *)
(***************************************************************************)
EXTENDS PaperAudit, NaturalFacts

BuySteps  == {"buyDebit", "buyFind", "buyUpsert", "buyCommit"}
SellSteps == {"sellDebit", "sellCredit", "sellCommit"}

HoldsBalance  == {"buyFind", "buyUpsert", "buyCommit", "sellCommit",
                  "resetPositions", "resetCommit"}
HoldsPosition == {"buyCommit", "sellCredit", "sellCommit"}

\* Who is inside a transaction holds exactly the locks its statements took.
LockInv ==
    /\ \A r \in Requests : balanceLock = r <=> pc[r] \in HoldsBalance
    /\ \A r \in Requests : pc[r] \in HoldsPosition => positionLock[call[r].symbol] = r
    /\ \A r \in Requests, s \in Symbols : positionLock[s] = r =>
          \/ pc[r] \in HoldsPosition /\ call[r].symbol = s
          \/ pc[r] \in {"resetPositions", "resetCommit"}

OrderCall(c) == c.symbol \in Symbols /\ c.quantity \in Quantities

\* What a request carries is a valid order from its first step on.
CallInv ==
    \A r \in Requests :
        /\ pc[r] \in {"findWallet", "createWallet"} /\ IsOrder(r) => OrderCall(call[r])
        /\ pc[r] \in {"getTicker", "recordRejected"} \cup BuySteps \cup SellSteps =>
              IsOrder(r) /\ OrderCall(call[r])
        /\ pc[r] = "recordRejected" => call[r].reason \in Ledger!Reasons
        /\ pc[r] \in BuySteps \cup SellSteps => call[r].price \in Prices

WalletInv ==
    \A r \in Requests :
        pc[r] \in {"getTicker", "recordRejected"} \cup BuySteps \cup SellSteps \cup ResetSteps
            => balance # NoRow

\* What a transaction wrote is what the ledger would do to the rows as they
\* are now: nobody changed them since it read them.
BuyDraft(r) ==
    LET c == call[r] IN
    /\ pc[r] \in {"buyFind", "buyUpsert", "buyCommit"} =>
          /\ Affordable(balance, c.quantity, c.price)
          /\ draft[r].balance = Debited(balance, c.quantity, c.price)
    /\ pc[r] \in {"buyUpsert", "buyCommit"} => draft[r].read = position[c.symbol]
    /\ pc[r] = "buyCommit" =>
          draft[r].position = Ledger!Increased(position[c.symbol], c.quantity, c.price)

SellDraft(r) ==
    LET c == call[r] IN
    /\ pc[r] \in {"sellCredit", "sellCommit"} =>
          /\ SellDebitMatches(r)
          /\ draft[r].position = Ledger!Decreased(position[c.symbol], c.quantity)
    /\ pc[r] = "sellCommit" =>
          draft[r].balance = Credited(balance, c.quantity, c.price)

ResetDraft(r) ==
    /\ pc[r] \in {"resetPositions", "resetCommit"} => draft[r].balance = DefaultBalance
    /\ pc[r] = "resetCommit" =>
          \A s \in Symbols : position[s] # NoRow => positionLock[s] = r

DraftInv == \A r \in Requests : BuyDraft(r) /\ SellDraft(r) /\ ResetDraft(r)

IInv ==
    /\ TypeOK
    /\ LockInv
    /\ CallInv
    /\ WalletInv
    /\ NoOverdraft
    /\ NoShortSelling
    /\ DraftInv

-----------------------------------------------------------------------------
(* Arithmetic. *)

\* Rounding to the lot yields a natural number.
LEMMA RoundDownNat == ASSUME NEW raw \in Nat PROVE RoundDown(raw) \in Nat
  BY BoundAssumption DEF RoundDown

\* An accepted quantity is a positive integer.
LEMMA QuantityNat == ASSUME NEW q \in Quantities PROVE q \in Nat /\ q > 0
  BY RoundDownNat, ValueAssumption DEF Quantities

\* An execution price is never negative: slippage is at most 100 percent.
LEMMA ExecutionPriceNat ==
    ASSUME NEW p \in Nat, NEW side PROVE ExecutionPrice(side, p) \in Nat
  BY PercentAssumption DEF ExecutionPrice

\* Every price an order may execute at is a natural number.
LEMMA PriceNat == ASSUME NEW e \in Prices PROVE e \in Nat
  BY ExecutionPriceNat, ValueAssumption DEF Prices

\* Amounts are counted in whole fractions of a stored unit.
LEMMA ExactNat == LotsPerUnit \in Nat /\ LotsPerUnit > 0 /\ Exact \in Nat /\ Exact > 0
  BY BoundAssumption DEF Exact

\* A stored quotient is the integer at most half away from the exact one.
LEMMA QuotientHalf ==
    ASSUME NEW n \in Int, NEW d \in Nat, d > 0
    PROVE  /\ StoredQuotient(n, d) \in Int
           /\ d * StoredQuotient(n, d) \in Int
           /\ 2 * (d * StoredQuotient(n, d)) <= 2 * n + d
           /\ 2 * n < 2 * (d * StoredQuotient(n, d)) + d
  <1> DEFINE m == (2 * n + d) \div (2 * d)
  <1>1. m \in Int /\ (2 * d) * m <= 2 * n + d /\ 2 * n + d < (2 * d) * (m + 1)
    OBVIOUS
  <1> HIDE DEF m
  <1>2. (2 * d) * m = 2 * (d * m) /\ (2 * d) * (m + 1) = 2 * (d * m) + 2 * d /\ d * m \in Int
    BY <1>1
  <1> DEFINE dm == d * m
  <1> HIDE DEF dm
  <1>3. 2 * dm <= 2 * n + d /\ 2 * n < 2 * dm + d /\ dm \in Int
    BY <1>1, <1>2 DEF dm
  <1> QED BY <1>1, <1>3 DEF m, dm, StoredQuotient

\* Rounding does not turn a debt-free amount into a debt.
LEMMA QuotientNat ==
    ASSUME NEW n \in Nat, NEW d \in Nat, d > 0
    PROVE  StoredQuotient(n, d) >= 0
  <1> DEFINE m == StoredQuotient(n, d)
             dm == d * m
  <1>1. m \in Int /\ dm \in Int /\ 2 * n < 2 * dm + d
    BY QuotientHalf
  <1> HIDE DEF m
  <1>2. m < 0 => dm <= -d
    BY <1>1
  <1> HIDE DEF dm
  <1>3. ~(m < 0)
    BY <1>1, <1>2
  <1> QED BY <1>1, <1>3 DEF m

\* The same two facts about a stored amount.
LEMMA StoredNat ==
    ASSUME NEW x \in Int
    PROVE  Stored(x) \in Int /\ (x >= 0 => Stored(x) >= 0)
  BY ExactNat, QuotientHalf, QuotientNat DEF Stored

\* A stored price is an integer.
LEMMA StoredPriceInt == ASSUME NEW e \in Int PROVE StoredPrice(e) \in Int
  BY QuotientHalf DEF StoredPrice

\* The value of a quantity at a price is a natural number.
LEMMA ProductNat == ASSUME NEW q \in Nat, NEW e \in Nat PROVE q * e \in Nat
  OBVIOUS

\* Neither the fee nor what a sale returns can be negative.
LEMMA FeeNat ==
    ASSUME NEW q \in Nat, NEW e \in Nat
    PROVE  /\ Fee(q, e) \in Nat
           /\ TotalCost(q, e) \in Nat
           /\ Proceeds(q, e) \in Nat
  <1> DEFINE n == q * e
  <1>1. n \in Nat  BY ProductNat
  <1> HIDE DEF n
  <1>2. FeePercent * n \in Nat /\ FeePercent * n <= 100 * n
    BY <1>1, PercentAssumption
  <1> QED BY <1>1, <1>2 DEF Fee, TotalCost, Proceeds, Notional, n

\* The debit that passed its WHERE clause leaves no debt, even after the
\* column rounded it.
LEMMA DebitSolvent ==
    ASSUME NEW a \in Int, NEW q \in Nat, NEW e \in Nat
    PROVE  /\ Debited(a, q, e) \in Int
           /\ Affordable(a, q, e) => Debited(a, q, e) >= 0
  <1>1. Exact * a \in Int /\ TotalCost(q, e) \in Nat
    BY ExactNat, FeeNat
  <1>2. Exact * a - TotalCost(q, e) \in Int
    BY <1>1
  <1>3. Affordable(a, q, e) => Exact * a - TotalCost(q, e) >= 0
    BY <1>1 DEF Affordable
  <1> QED BY <1>2, <1>3, StoredNat DEF Debited

\* Crediting the proceeds of a sale never takes a solvent balance below zero.
LEMMA CreditSolvent ==
    ASSUME NEW a \in Int, NEW q \in Nat, NEW e \in Nat
    PROVE  /\ Credited(a, q, e) \in Int
           /\ a >= 0 => Credited(a, q, e) >= 0
  <1>1. Exact * a \in Int /\ (a >= 0 => Exact * a >= 0) /\ Proceeds(q, e) \in Nat
    BY ExactNat, FeeNat
  <1>2. Exact * a + Proceeds(q, e) \in Int /\ (a >= 0 => Exact * a + Proceeds(q, e) >= 0)
    BY <1>1
  <1> QED BY <1>2, StoredNat DEF Credited

\* The ledger computes money with the same operators.
LEMMA SameMoney ==
    /\ \A row, q, e : Ledger!AveragedEntry(row, q, e) = AveragedEntry(row, q, e)
    /\ \A a, q, e : Ledger!Debited(a, q, e) = Debited(a, q, e)
    /\ \A a, q, e : Ledger!Credited(a, q, e) = Credited(a, q, e)
    /\ \A a, q, e : Ledger!Affordable(a, q, e) = Affordable(a, q, e)
    /\ \A q, e : Ledger!Fee(q, e) = Fee(q, e)
    /\ \A x : Ledger!Stored(x) = Stored(x)
    /\ \A e : Ledger!StoredPrice(e) = StoredPrice(e)
  BY DEF AveragedEntry, StoredQuotient, Debited, Credited, Affordable, Fee, TotalCost,
         Proceeds, Notional, Exact, Stored, StoredPrice,
         Ledger!AveragedEntry, Ledger!StoredQuotient, Ledger!Debited,
         Ledger!Credited, Ledger!Affordable, Ledger!Fee, Ledger!TotalCost,
         Ledger!Proceeds, Ledger!Notional, Ledger!Exact, Ledger!Stored, Ledger!StoredPrice

\* What a buy writes is a position row, and its quantity is not negative.
LEMMA IncreasedRow ==
    ASSUME NEW row \in Row \cup {NoRow}, NEW q \in Nat, q > 0, NEW e \in Nat,
           row # NoRow => row.quantity >= 0
    PROVE  /\ Ledger!Increased(row, q, e) \in Row
           /\ Ledger!Increased(row, q, e).quantity >= 0
  <1>1. CASE row = NoRow
    BY <1>1, StoredPriceInt, SameMoney DEF Ledger!Increased, Row
  <1>2. CASE row # NoRow
    <2>1. row.quantity \in Int /\ row.avgEntryPrice \in Int
      BY <1>2 DEF Row
    <2>2. AveragedEntry(row, q, e) \in Int
      <3> DEFINE n == 100 * (row.quantity * row.avgEntryPrice) + q * e
                 d == 100 * (row.quantity + q)
      <3>1. n \in Int /\ d \in Nat /\ d > 0
        BY <2>1, <1>2
      <3> HIDE DEF n, d
      <3>2. StoredQuotient(n, d) \in Int
        BY <3>1, QuotientHalf
      <3> QED BY <3>2 DEF AveragedEntry, n, d
    <2> QED BY <1>2, <2>1, <2>2, SameMoney DEF Ledger!Increased, Row
  <1> QED BY <1>1, <1>2

\* What a sell writes is a position row.
LEMMA DecreasedRow ==
    ASSUME NEW row \in Row, NEW q \in Nat
    PROVE  /\ Ledger!Decreased(row, q) \in Row
           /\ row.quantity >= q => Ledger!Decreased(row, q).quantity >= 0
  BY DEF Ledger!Decreased, Row

-----------------------------------------------------------------------------
(* Types. *)

\* Every outcome a request can end with is a step, and what is kept of an
\* ended request is a call.
LEMMA FinishType ==
    ASSUME NEW r \in Requests, NEW outcome \in Ended, Finish(r, outcome), TypeOK
    PROVE  pc' \in [Requests -> Step] /\ call' \in [Requests -> Call]
  <1>1. pc' \in [Requests -> Step]
    BY DEF Finish, TypeOK, Step
  <1>2. [NoCall EXCEPT !.op = call[r].op] \in Call
    BY DEF NoCall, TypeOK, Call
  <1> QED BY <1>1, <1>2 DEF Finish, TypeOK

\* The end of a transaction keeps the types of locks and drafts.
LEMMA EndType ==
    ASSUME NEW r \in Requests, EndTransaction(r), TypeOK
    PROVE  /\ balanceLock' \in Requests \cup {Nobody}
           /\ positionLock' \in [Symbols -> Requests \cup {Nobody}]
           /\ draft' \in [Requests -> Draft]
  BY DEF EndTransaction, TypeOK, NoDraft, Draft

\* The recorded trade of a valid call is an order row.
LEMMA TradeType ==
    ASSUME NEW s \in Symbols, NEW side \in {"buy", "sell"}, NEW q \in Quantities,
           NEW e \in Nat
    PROVE  Ledger!Trade(s, side, q, e) \in Order
  <1>1. q \in Nat
    BY QuantityNat
  <1>2. Fee(q, e) \in Nat
    BY <1>1, FeeNat
  <1>3. Stored(Fee(q, e)) \in Int
    BY <1>2, StoredNat
  <1>4. Ledger!Stored(Ledger!Fee(q, e)) \in Int /\ Ledger!StoredPrice(e) \in Int
    BY <1>3, StoredPriceInt, SameMoney
  <1> QED BY <1>4 DEF Ledger!Trade, Order

\* A step keeps rows, locks and requests within their types.
LEMMA TypeStep == IInv /\ [Next]_vars => TypeOK'
  <1> SUFFICES ASSUME IInv, [Next]_vars PROVE TypeOK'
    OBVIOUS
  <1> USE DEF IInv, TypeOK
  <1>1. ASSUME NEW r \in Requests, ReceiveOrder(r) PROVE TypeOK'
    <2>1. \A raw \in RawQuantities : RoundDown(raw) \in Nat
      BY RoundDownNat, ValueAssumption
    <2>2. pc' \in [Requests -> Step]
      BY <1>1 DEF ReceiveOrder, Goto, Step, InFlight, OrderSteps, ResetSteps, Ended,
         Resolved, Failed
    <2>3. NoCall \in Call
      BY DEF NoCall, Call
    <2>4. PICK op \in {"buy", "sell"}, s \in Symbols, q \in Nat :
             call' = [call EXCEPT ![r] = [NoCall EXCEPT !.op = op, !.symbol = s, !.quantity = q]]
      BY <1>1, <2>1 DEF ReceiveOrder
    <2>5. call' \in [Requests -> Call]
      BY <2>3, <2>4 DEF Call
    <2>6. issued < MaxRequests /\ issued' = issued + 1
      BY <1>1 DEF ReceiveOrder, Arrive
    <2>7. issued' \in 0..MaxRequests
      BY <2>6, ValueAssumption
    <2>8. UNCHANGED <<rows, locks, draft>>
      BY <1>1 DEF ReceiveOrder, Arrive
    <2> QED BY <2>1, <2>2, <2>3, <2>4, <2>5, <2>6, <2>7, <2>8 DEF rows, locks
  <1>2. ASSUME NEW r \in Requests, ReceiveWallet(r) PROVE TypeOK'
    <2>1. pc' \in [Requests -> Step]
      BY <1>2 DEF ReceiveWallet, Goto, Step, InFlight, OrderSteps, ResetSteps, Ended,
         Resolved, Failed
    <2>2. call' \in [Requests -> Call]
      BY <1>2, ValueAssumption DEF ReceiveWallet, NoCall, Call, Ledger!Reasons
    <2>3. issued < MaxRequests /\ issued' = issued + 1
      BY <1>2 DEF ReceiveWallet, Arrive
    <2>4. issued' \in 0..MaxRequests
      BY <2>3, ValueAssumption
    <2>5. UNCHANGED <<rows, locks, draft>>
      BY <1>2 DEF ReceiveWallet, Arrive
    <2> QED BY <2>1, <2>2, <2>3, <2>4, <2>5 DEF rows, locks
  <1>3. ASSUME NEW r \in Requests, Refuse(r) PROVE TypeOK'
    <2>1. pc' \in [Requests -> Step]
      BY <1>3 DEF Refuse, Goto, Step, InFlight, OrderSteps, ResetSteps, Ended, Resolved,
         Failed
    <2>2. PICK op \in {"buy", "sell"} : call' = [call EXCEPT ![r] = [NoCall EXCEPT !.op = op]]
      BY <1>3 DEF Refuse
    <2>3. call' \in [Requests -> Call]
      BY <2>2 DEF NoCall, Call
    <2>4. issued < MaxRequests /\ issued' = issued + 1
      BY <1>3 DEF Refuse, Arrive
    <2>5. issued' \in 0..MaxRequests
      BY <2>4, ValueAssumption
    <2>6. UNCHANGED <<rows, locks, draft>>
      BY <1>3 DEF Refuse, Arrive
    <2> QED BY <2>1, <2>2, <2>3, <2>4, <2>5, <2>6 DEF rows, locks
  <1>4. ASSUME NEW r \in Requests, FindWallet(r) PROVE TypeOK'
    <2>1. pc' \in [Requests -> Step] /\ call' \in [Requests -> Call]
      BY <1>4, FinishType DEF FindWallet, WithWallet, Step, InFlight, OrderSteps,
         ResetSteps, Ended, Resolved, Failed
    <2> QED BY <1>4, <2>1 DEF FindWallet, rows, locks
  <1>5. ASSUME NEW r \in Requests, CreateWallet(r) PROVE TypeOK'
    <2>1. pc' \in [Requests -> Step] /\ call' \in [Requests -> Call]
      BY <1>5, FinishType DEF CreateWallet, Unacknowledged, WithWallet, Step, InFlight,
         OrderSteps, ResetSteps, Ended, Resolved, Failed
    <2>2. balance' \in Int \cup {NoRow}
      BY <1>5, ValueAssumption DEF CreateWallet
    <2> QED BY <1>5, <2>1, <2>2 DEF CreateWallet, rows, locks
  <1>6. ASSUME NEW r \in Requests, GetTicker(r) PROVE TypeOK'
    <2>1. pc' \in [Requests -> Step]
      BY <1>6 DEF GetTicker, Goto, Step, InFlight, OrderSteps, ResetSteps, Ended,
         Resolved, Failed
    <2>2. \A p \in TickerPrices : ExecutionPrice(call[r].op, p) \in Nat
      BY ExecutionPriceNat, ValueAssumption
    <2>3. PICK p \in Nat : \/ call' = [call EXCEPT ![r].reason = "BELOW_MIN_NOTIONAL"]
                          \/ call' = [call EXCEPT ![r].price = p]
      BY <1>6, <2>2 DEF GetTicker
    <2>4. call' \in [Requests -> Call]
      <3>1. CASE call' = [call EXCEPT ![r].reason = "BELOW_MIN_NOTIONAL"]
        BY <3>1 DEF Call, Ledger!Reasons
      <3>2. CASE call' = [call EXCEPT ![r].price = p]
        BY <3>2 DEF Call
      <3> QED BY <2>3, <3>1, <3>2
    <2> QED BY <1>6, <2>1, <2>2, <2>3, <2>4 DEF GetTicker, rows, locks
  <1>7. ASSUME NEW r \in Requests, TickerUnavailable(r) PROVE TypeOK'
    <2>1. pc' \in [Requests -> Step]
      BY <1>7 DEF TickerUnavailable, Goto, Step, InFlight, OrderSteps, ResetSteps,
         Ended, Resolved, Failed
    <2>2. call' \in [Requests -> Call]
      BY <1>7 DEF TickerUnavailable, Goto, Call, Ledger!Reasons
    <2> QED BY <1>7, <2>1, <2>2 DEF TickerUnavailable, rows, locks
  <1>8. ASSUME NEW r \in Requests, RecordRejected(r) PROVE TypeOK'
    <2>1. pc' \in [Requests -> Step] /\ call' \in [Requests -> Call]
      BY <1>8, FinishType DEF RecordRejected, Unacknowledged, Step, InFlight,
         OrderSteps, ResetSteps, Ended, Resolved, Failed
    <2>2. /\ orders' \in Seq(Order)
           /\ resetAt' \in 0..Len(orders')
      BY <1>8 DEF RecordRejected, Record, Order, Ledger!Rejection, CallInv, OrderCall,
         IsOrder
    <2> QED BY <1>8, <2>1, <2>2 DEF RecordRejected, rows, locks
  <1>9. ASSUME NEW r \in Requests, BuyDebit(r) PROVE TypeOK'
    <2>1. pc' \in [Requests -> Step]
      BY <1>9 DEF BuyDebit, Goto, Step, InFlight, OrderSteps, ResetSteps, Ended,
         Resolved, Failed
    <2>2. Debited(balance, call[r].quantity, call[r].price) \in Int
      BY <1>9, DebitSolvent DEF BuyDebit, BuyDebitMatches, Call
    <2>3. draft' \in [Requests -> Draft]
      BY <1>9, <2>2 DEF BuyDebit, Draft
    <2> QED BY <1>9, <2>1, <2>2, <2>3 DEF BuyDebit, rows, locks
  <1>10. ASSUME NEW r \in Requests, BuyDebitMisses(r) PROVE TypeOK'
    <2>1. pc' \in [Requests -> Step]
      BY <1>10 DEF BuyDebitMisses, Goto, Step, InFlight, OrderSteps, ResetSteps, Ended,
         Resolved, Failed
    <2>2. call' \in [Requests -> Call]
      BY <1>10 DEF BuyDebitMisses, Goto, Call, Ledger!Reasons
    <2> QED BY <1>10, <2>1, <2>2 DEF BuyDebitMisses, rows, locks
  <1>11. ASSUME NEW r \in Requests, BuyFind(r) PROVE TypeOK'
    <2>1. pc' \in [Requests -> Step]
      BY <1>11 DEF BuyFind, Goto, Step, InFlight, OrderSteps, ResetSteps, Ended,
         Resolved, Failed
    <2>2. draft' \in [Requests -> Draft]
      BY <1>11 DEF BuyFind, Draft, CallInv, OrderCall, BuySteps, SellSteps, Goto
    <2> QED BY <1>11, <2>1, <2>2 DEF BuyFind, rows, locks
  <1>12. ASSUME NEW r \in Requests, BuyUpsert(r) PROVE TypeOK'
    <2>1. pc' \in [Requests -> Step]
      BY <1>12 DEF BuyUpsert, Goto, Step, InFlight, OrderSteps, ResetSteps, Ended,
         Resolved, Failed
    <2>2. /\ call[r].symbol \in Symbols
           /\ call[r].quantity \in Nat /\ call[r].quantity > 0
           /\ call[r].price \in Nat
      BY <1>12, QuantityNat, PriceNat DEF BuyUpsert, CallInv, OrderCall, BuySteps,
         SellSteps, Goto
    <2>3. draft[r].read = position[call[r].symbol]
      BY <1>12 DEF BuyUpsert, Goto, DraftInv, BuyDraft
    <2>4. position[call[r].symbol] \in Row \cup {NoRow}
      BY <2>2
    <2>5. Ledger!Increased(position[call[r].symbol], call[r].quantity, call[r].price) \in Row
      BY <2>2, <2>4, IncreasedRow DEF NoShortSelling
    <2>6. draft' = [draft EXCEPT ![r].position =
             Ledger!Increased(position[call[r].symbol], call[r].quantity, call[r].price)]
      BY <1>12, <2>3 DEF BuyUpsert
    <2>7. draft' \in [Requests -> Draft]
      BY <2>5, <2>6 DEF Draft
    <2> QED BY <1>12, <2>1, <2>2, <2>3, <2>4, <2>5, <2>6, <2>7 DEF BuyUpsert, rows,
       locks
  <1>13. ASSUME NEW r \in Requests, BuyCommit(r) PROVE TypeOK'
    <2>1. pc' \in [Requests -> Step] /\ call' \in [Requests -> Call]
      BY <1>13, FinishType DEF BuyCommit, Unacknowledged, Step, InFlight, OrderSteps,
         ResetSteps, Ended, Resolved, Failed
    <2>2. /\ balanceLock' \in Requests \cup {Nobody}
           /\ positionLock' \in [Symbols -> Requests \cup {Nobody}]
           /\ draft' \in [Requests -> Draft]
      BY <1>13, EndType DEF BuyCommit
    <2>3. /\ call[r].symbol \in Symbols /\ call[r].quantity \in Quantities
           /\ call[r].quantity \in Nat /\ call[r].price \in Nat
      BY <1>13, QuantityNat, PriceNat DEF BuyCommit, CallInv, OrderCall, BuySteps,
         SellSteps, Goto
    <2>4. balance' \in Int \cup {NoRow} /\ position' \in [Symbols -> Row \cup {NoRow}]
      BY <1>13 DEF BuyCommit, Draft
    <2>5. Ledger!Trade(call[r].symbol, "buy", call[r].quantity, call[r].price) \in Order
      BY <2>3, TradeType
    <2>6. /\ orders' \in Seq(Order)
           /\ resetAt' \in 0..Len(orders')
      BY <1>13, <2>5 DEF BuyCommit, Record
    <2> QED BY <1>13, <2>1, <2>2, <2>3, <2>4, <2>5, <2>6 DEF BuyCommit, rows, locks
  <1>14. ASSUME NEW r \in Requests, SellDebit(r) PROVE TypeOK'
    <2>1. pc' \in [Requests -> Step]
      BY <1>14 DEF SellDebit, Goto, Step, InFlight, OrderSteps, ResetSteps, Ended,
         Resolved, Failed
    <2>2. /\ call[r].symbol \in Symbols /\ call[r].quantity \in Nat
           /\ position[call[r].symbol] \in Row
      BY <1>14, QuantityNat DEF SellDebit, SellDebitMatches, CallInv, OrderCall,
         BuySteps, SellSteps, Goto
    <2>3. Ledger!Decreased(position[call[r].symbol], call[r].quantity) \in Row
      BY <2>2, DecreasedRow
    <2>4. draft' \in [Requests -> Draft]
      BY <1>14, <2>3 DEF SellDebit, Draft
    <2> QED BY <1>14, <2>1, <2>2, <2>3, <2>4 DEF SellDebit, rows, locks
  <1>15. ASSUME NEW r \in Requests, SellDebitMisses(r) PROVE TypeOK'
    <2>1. pc' \in [Requests -> Step]
      BY <1>15 DEF SellDebitMisses, Goto, Step, InFlight, OrderSteps, ResetSteps, Ended,
         Resolved, Failed
    <2>2. call' \in [Requests -> Call]
      BY <1>15 DEF SellDebitMisses, Goto, Call, Ledger!Reasons
    <2> QED BY <1>15, <2>1, <2>2 DEF SellDebitMisses, rows, locks
  <1>16. ASSUME NEW r \in Requests, SellCredit(r) PROVE TypeOK'
    <2>1. pc' \in [Requests -> Step]
      BY <1>16 DEF SellCredit, Goto, Step, InFlight, OrderSteps, ResetSteps, Ended,
         Resolved, Failed
    <2>2. /\ call[r].quantity \in Nat /\ call[r].price \in Nat
           /\ balance \in Int
      BY <1>16, QuantityNat, PriceNat DEF SellCredit, CallInv, OrderCall, BuySteps,
         SellSteps, Goto, WalletInv
    <2>3. Credited(balance, call[r].quantity, call[r].price) \in Int
      BY <2>2, CreditSolvent
    <2>4. draft' \in [Requests -> Draft]
      BY <1>16, <2>2, <2>3, NoRowAssumption DEF SellCredit, Draft
    <2> QED BY <1>16, <2>1, <2>2, <2>3, <2>4 DEF SellCredit, rows, locks
  <1>17. ASSUME NEW r \in Requests, SellCommit(r) PROVE TypeOK'
    <2>1. pc' \in [Requests -> Step] /\ call' \in [Requests -> Call]
      BY <1>17, FinishType DEF SellCommit, Unacknowledged, Step, InFlight, OrderSteps,
         ResetSteps, Ended, Resolved, Failed
    <2>2. /\ balanceLock' \in Requests \cup {Nobody}
           /\ positionLock' \in [Symbols -> Requests \cup {Nobody}]
           /\ draft' \in [Requests -> Draft]
      BY <1>17, EndType DEF SellCommit
    <2>3. /\ call[r].symbol \in Symbols /\ call[r].quantity \in Quantities
           /\ call[r].quantity \in Nat /\ call[r].price \in Nat
      BY <1>17, QuantityNat, PriceNat DEF SellCommit, CallInv, OrderCall, BuySteps,
         SellSteps, Goto
    <2>4. balance' \in Int \cup {NoRow} /\ position' \in [Symbols -> Row \cup {NoRow}]
      BY <1>17 DEF SellCommit, Draft
    <2>5. Ledger!Trade(call[r].symbol, "sell", call[r].quantity, call[r].price) \in Order
      BY <2>3, TradeType
    <2>6. /\ orders' \in Seq(Order)
           /\ resetAt' \in 0..Len(orders')
      BY <1>17, <2>5 DEF SellCommit, Record
    <2> QED BY <1>17, <2>1, <2>2, <2>3, <2>4, <2>5, <2>6 DEF SellCommit, rows, locks
  <1>18. ASSUME NEW r \in Requests, ResetBalance(r) PROVE TypeOK'
    <2>1. pc' \in [Requests -> Step]
      BY <1>18 DEF ResetBalance, Goto, Step, InFlight, OrderSteps, ResetSteps, Ended,
         Resolved, Failed
    <2>2. draft' \in [Requests -> Draft]
      BY <1>18, ValueAssumption DEF ResetBalance, Draft
    <2> QED BY <1>18, <2>1, <2>2 DEF ResetBalance, rows, locks
  <1>19. ASSUME NEW r \in Requests, ResetLockPosition(r) PROVE TypeOK'
    BY <1>19 DEF ResetLockPosition, rows, locks
  <1>20. ASSUME NEW r \in Requests, ResetPositions(r) PROVE TypeOK'
    <2>1. pc' \in [Requests -> Step]
      BY <1>20 DEF ResetPositions, Goto, Step, InFlight, OrderSteps, ResetSteps, Ended,
         Resolved, Failed
    <2> QED BY <1>20, <2>1 DEF ResetPositions, rows, locks
  <1>21. ASSUME NEW r \in Requests, ResetCommit(r) PROVE TypeOK'
    <2>1. pc' \in [Requests -> Step] /\ call' \in [Requests -> Call]
      BY <1>21, FinishType DEF ResetCommit, Unacknowledged, Step, InFlight, OrderSteps,
         ResetSteps, Ended, Resolved, Failed
    <2>2. /\ balanceLock' \in Requests \cup {Nobody}
           /\ positionLock' \in [Symbols -> Requests \cup {Nobody}]
           /\ draft' \in [Requests -> Draft]
      BY <1>21, EndType DEF ResetCommit
    <2>3. balance' \in Int \cup {NoRow}
      BY <1>21 DEF ResetCommit, Draft
    <2>4. position' \in [Symbols -> Row \cup {NoRow}]
      BY <1>21 DEF ResetCommit
    <2>5. resetAt' \in 0..Len(orders')
      BY <1>21 DEF ResetCommit
    <2> QED BY <1>21, <2>1, <2>2, <2>3, <2>4, <2>5 DEF ResetCommit, rows, locks
  <1>22. ASSUME NEW r \in Requests, DeadlockVictim(r) PROVE TypeOK'
    <2>1. pc' \in [Requests -> Step] /\ call' \in [Requests -> Call]
      BY <1>22, FinishType DEF DeadlockVictim, Step, InFlight, OrderSteps, ResetSteps,
         Ended, Resolved, Failed
    <2>2. /\ balanceLock' \in Requests \cup {Nobody}
           /\ positionLock' \in [Symbols -> Requests \cup {Nobody}]
           /\ draft' \in [Requests -> Draft]
      BY <1>22, EndType DEF DeadlockVictim
    <2> QED BY <1>22, <2>1, <2>2 DEF DeadlockVictim, rows, locks
  <1>23. ASSUME NEW r \in Requests, Fault(r) PROVE TypeOK'
    <2>1. pc' \in [Requests -> Step] /\ call' \in [Requests -> Call]
      BY <1>23, FinishType DEF Fault, Step, InFlight, OrderSteps, ResetSteps, Ended,
         Resolved, Failed
    <2>2. /\ balanceLock' \in Requests \cup {Nobody}
           /\ positionLock' \in [Symbols -> Requests \cup {Nobody}]
           /\ draft' \in [Requests -> Draft]
      BY <1>23, EndType DEF Fault
    <2> QED BY <1>23, <2>1, <2>2 DEF Fault, rows, locks
  <1>24. CASE Drained \/ UNCHANGED vars
    BY <1>24 DEF Drained, vars, rows, locks
  <1> QED
    BY <1>1, <1>2, <1>3, <1>4, <1>5, <1>6, <1>7, <1>8, <1>9, <1>10, <1>11, <1>12, <1>13,
       <1>14, <1>15, <1>16, <1>17, <1>18, <1>19, <1>20, <1>21, <1>22, <1>23, <1>24 DEF Next, Progress

-----------------------------------------------------------------------------
(* Locks and calls. *)

\* The end of a transaction, in terms of who holds what afterwards.
LEMMA EndEffect ==
    ASSUME TypeOK, NEW r \in Requests, NEW outcome,
           EndTransaction(r), Finish(r, outcome)
    PROVE  \A t \in Requests :
             /\ pc'[t] = IF t = r THEN outcome ELSE pc[t]
             /\ t # r => call'[t] = call[t] /\ draft'[t] = draft[t]
             /\ balanceLock' = t <=> (balanceLock = t /\ t # r)
             /\ \A s \in Symbols : positionLock'[s] = t <=> (positionLock[s] = t /\ t # r)
  <1> SUFFICES ASSUME NEW t \in Requests
               PROVE  /\ pc'[t] = IF t = r THEN outcome ELSE pc[t]
                      /\ t # r => call'[t] = call[t] /\ draft'[t] = draft[t]
                      /\ balanceLock' = t <=> (balanceLock = t /\ t # r)
                      /\ \A s \in Symbols :
                            positionLock'[s] = t <=> (positionLock[s] = t /\ t # r)
    OBVIOUS
  <1>1. /\ pc'[t] = IF t = r THEN outcome ELSE pc[t]
        /\ t # r => call'[t] = call[t]
    BY DEF Finish, TypeOK
  <1>2. t # r => draft'[t] = draft[t]
    BY DEF EndTransaction, TypeOK
  <1>3. balanceLock' = t <=> (balanceLock = t /\ t # r)
    BY NobodyAssumption DEF EndTransaction
  <1>4. \A s \in Symbols : positionLock'[s] = t <=> (positionLock[s] = t /\ t # r)
    BY NobodyAssumption DEF EndTransaction
  <1> QED BY <1>1, <1>2, <1>3, <1>4

\* After it nobody but the other transactions holds a lock.
LEMMA EndLocks ==
    ASSUME IInv, NEW r \in Requests, NEW outcome \in Ended,
           EndTransaction(r), Finish(r, outcome)
    PROVE  LockInv'
  <1> USE DEF IInv
  <1>1. \A t \in Requests :
             /\ pc'[t] = IF t = r THEN outcome ELSE pc[t]
             /\ t # r => call'[t] = call[t]
             /\ balanceLock' = t <=> (balanceLock = t /\ t # r)
             /\ \A s \in Symbols : positionLock'[s] = t <=> (positionLock[s] = t /\ t # r)
    BY EndEffect
  <1>2. outcome \notin HoldsBalance \cup HoldsPosition \cup {"resetPositions", "resetCommit"}
    BY DEF Ended, Resolved, Failed, HoldsBalance, HoldsPosition
  <1>3. \A t \in Requests : balanceLock' = t <=> pc'[t] \in HoldsBalance
    BY <1>1, <1>2 DEF LockInv
  <1>4. ASSUME NEW t \in Requests, pc'[t] \in HoldsPosition
        PROVE  positionLock'[call'[t].symbol] = t
    <2>1. t # r /\ pc[t] \in HoldsPosition
      BY <1>1, <1>2, <1>4
    <2>2. call[t].symbol \in Symbols
      BY <2>1 DEF CallInv, OrderCall, HoldsPosition, BuySteps, SellSteps
    <2> QED BY <1>1, <2>1, <2>2 DEF LockInv
  <1>5. ASSUME NEW t \in Requests, NEW s \in Symbols, positionLock'[s] = t
        PROVE  \/ pc'[t] \in HoldsPosition /\ call'[t].symbol = s
               \/ pc'[t] \in {"resetPositions", "resetCommit"}
    BY <1>1, <1>5 DEF LockInv
  <1> QED BY <1>3, <1>4, <1>5 DEF LockInv

\* Locks are taken and released with the statements that own them.
LEMMA LockStep == IInv /\ [Next]_vars => LockInv'
  <1> SUFFICES ASSUME IInv, [Next]_vars PROVE LockInv'
    OBVIOUS
  <1> USE DEF IInv
  <1>1. ASSUME NEW r \in Requests, ReceiveOrder(r) PROVE LockInv'
    <2>1. \A t \in Requests : t # r => call'[t] = call[t]
      BY <1>1 DEF ReceiveOrder, TypeOK
    <2>2. \A t \in Requests : pc'[t] = IF t = r THEN "findWallet" ELSE pc[t]
      BY <1>1 DEF ReceiveOrder, TypeOK
    <2>3. /\ pc[r] \notin HoldsBalance \cup HoldsPosition \cup {"resetPositions", "resetCommit"}
          /\ UNCHANGED <<balanceLock, positionLock>>
      BY <1>1 DEF ReceiveOrder, Arrive, locks, HoldsBalance, HoldsPosition, Ended,
         Resolved, Failed
    <2> QED BY <2>1, <2>2, <2>3 DEF LockInv, HoldsBalance, HoldsPosition
  <1>2. ASSUME NEW r \in Requests, ReceiveWallet(r) PROVE LockInv'
    <2>1. \A t \in Requests : t # r => call'[t] = call[t]
      BY <1>2 DEF ReceiveWallet, TypeOK
    <2>2. \A t \in Requests : pc'[t] = IF t = r THEN "findWallet" ELSE pc[t]
      BY <1>2 DEF ReceiveWallet, TypeOK
    <2>3. /\ pc[r] \notin HoldsBalance \cup HoldsPosition \cup {"resetPositions", "resetCommit"}
          /\ UNCHANGED <<balanceLock, positionLock>>
      BY <1>2 DEF ReceiveWallet, Arrive, locks, HoldsBalance, HoldsPosition, Ended,
         Resolved, Failed
    <2> QED BY <2>1, <2>2, <2>3 DEF LockInv, HoldsBalance, HoldsPosition
  <1>3. ASSUME NEW r \in Requests, Refuse(r) PROVE LockInv'
    BY <1>3 DEF Refuse, TypeOK, LockInv, HoldsBalance, HoldsPosition, Goto, Finish,
       WithWallet, rows, locks, Ended, Resolved, Failed, Arrive
  <1>4. ASSUME NEW r \in Requests, FindWallet(r) PROVE LockInv'
    BY <1>4 DEF FindWallet, TypeOK, LockInv, HoldsBalance, HoldsPosition, Goto, Finish,
       WithWallet, rows, locks, Ended, Resolved, Failed
  <1>5. ASSUME NEW r \in Requests, CreateWallet(r) PROVE LockInv'
    BY <1>5 DEF CreateWallet, Unacknowledged, TypeOK, LockInv, HoldsBalance,
       HoldsPosition, Goto, Finish, WithWallet, rows, locks, Ended, Resolved, Failed
  <1>6. ASSUME NEW r \in Requests, GetTicker(r) PROVE LockInv'
    BY <1>6 DEF GetTicker, TypeOK, LockInv, HoldsBalance, HoldsPosition, Goto, Finish,
       WithWallet, rows, locks, Ended, Resolved, Failed
  <1>7. ASSUME NEW r \in Requests, TickerUnavailable(r) PROVE LockInv'
    BY <1>7 DEF TickerUnavailable, TypeOK, LockInv, HoldsBalance, HoldsPosition, Goto,
       Finish, WithWallet, rows, locks, Ended, Resolved, Failed
  <1>8. ASSUME NEW r \in Requests, RecordRejected(r) PROVE LockInv'
    BY <1>8 DEF RecordRejected, Unacknowledged, TypeOK, LockInv, HoldsBalance,
       HoldsPosition, Goto, Finish, WithWallet, rows, locks, Ended, Resolved, Failed
  <1>9. ASSUME NEW r \in Requests, BuyDebit(r) PROVE LockInv'
    BY <1>9, NobodyAssumption DEF BuyDebit, TypeOK, LockInv, HoldsBalance,
       HoldsPosition, Goto, Finish, WithWallet, rows, locks, Ended, Resolved, Failed
  <1>10. ASSUME NEW r \in Requests, BuyDebitMisses(r) PROVE LockInv'
    BY <1>10 DEF BuyDebitMisses, TypeOK, LockInv, HoldsBalance, HoldsPosition, Goto,
       Finish, WithWallet, rows, locks, Ended, Resolved, Failed
  <1>11. ASSUME NEW r \in Requests, BuyFind(r) PROVE LockInv'
    BY <1>11 DEF BuyFind, TypeOK, LockInv, HoldsBalance, HoldsPosition, Goto, Finish,
       WithWallet, rows, locks, Ended, Resolved, Failed
  <1>12. ASSUME NEW r \in Requests, BuyUpsert(r) PROVE LockInv'
    BY <1>12, NobodyAssumption DEF BuyUpsert, TypeOK, LockInv, HoldsBalance,
       HoldsPosition, Goto, Finish, WithWallet, rows, locks, Ended, Resolved, Failed,
       CallInv, OrderCall, BuySteps, SellSteps
  <1>13. ASSUME NEW r \in Requests, BuyCommit(r) PROVE LockInv'
    BY <1>13, EndLocks DEF BuyCommit, Unacknowledged, Ended, Resolved, Failed
  <1>14. ASSUME NEW r \in Requests, SellDebit(r) PROVE LockInv'
    BY <1>14, NobodyAssumption DEF SellDebit, TypeOK, LockInv, HoldsBalance,
       HoldsPosition, Goto, Finish, WithWallet, rows, locks, Ended, Resolved, Failed,
       CallInv, OrderCall, BuySteps, SellSteps
  <1>15. ASSUME NEW r \in Requests, SellDebitMisses(r) PROVE LockInv'
    BY <1>15 DEF SellDebitMisses, TypeOK, LockInv, HoldsBalance, HoldsPosition, Goto,
       Finish, WithWallet, rows, locks, Ended, Resolved, Failed
  <1>16. ASSUME NEW r \in Requests, SellCredit(r) PROVE LockInv'
    BY <1>16, NobodyAssumption DEF SellCredit, TypeOK, LockInv, HoldsBalance,
       HoldsPosition, Goto, Finish, WithWallet, rows, locks, Ended, Resolved, Failed
  <1>17. ASSUME NEW r \in Requests, SellCommit(r) PROVE LockInv'
    BY <1>17, EndLocks DEF SellCommit, Unacknowledged, Ended, Resolved, Failed
  <1>18. ASSUME NEW r \in Requests, ResetBalance(r) PROVE LockInv'
    BY <1>18, NobodyAssumption DEF ResetBalance, TypeOK, LockInv, HoldsBalance,
       HoldsPosition, Goto, Finish, WithWallet, rows, locks, Ended, Resolved, Failed
  <1>19. ASSUME NEW r \in Requests, ResetLockPosition(r) PROVE LockInv'
    BY <1>19, NobodyAssumption DEF ResetLockPosition, TypeOK, LockInv, HoldsBalance,
       HoldsPosition, Goto, Finish, WithWallet, rows, locks, Ended, Resolved, Failed
  <1>20. ASSUME NEW r \in Requests, ResetPositions(r) PROVE LockInv'
    BY <1>20 DEF ResetPositions, TypeOK, LockInv, HoldsBalance, HoldsPosition, Goto,
       Finish, WithWallet, rows, locks, Ended, Resolved, Failed
  <1>21. ASSUME NEW r \in Requests, ResetCommit(r) PROVE LockInv'
    BY <1>21, EndLocks DEF ResetCommit, Unacknowledged, Ended, Resolved, Failed
  <1>22. ASSUME NEW r \in Requests, DeadlockVictim(r) PROVE LockInv'
    BY <1>22, EndLocks DEF DeadlockVictim, Ended, Resolved, Failed
  <1>23. ASSUME NEW r \in Requests, Fault(r) PROVE LockInv'
    BY <1>23, EndLocks DEF Fault, Ended, Resolved, Failed
  <1>24. CASE Drained \/ UNCHANGED vars
    BY <1>24 DEF Drained, vars, rows, locks, TypeOK, LockInv, HoldsBalance,
       HoldsPosition, Goto, Finish, WithWallet, rows, locks, Ended, Resolved, Failed
  <1> QED
    BY <1>1, <1>2, <1>3, <1>4, <1>5, <1>6, <1>7, <1>8, <1>9, <1>10, <1>11, <1>12, <1>13,
       <1>14, <1>15, <1>16, <1>17, <1>18, <1>19, <1>20, <1>21, <1>22, <1>23, <1>24 DEF Next, Progress

\* A request is a valid order before it meets the wallet, and stays one.
LEMMA CallStep == IInv /\ [Next]_vars => CallInv'
  <1> SUFFICES ASSUME IInv, [Next]_vars PROVE CallInv'
    OBVIOUS
  <1> USE DEF IInv
  <1>1. ASSUME NEW r \in Requests, ReceiveOrder(r) PROVE CallInv'
    <2>1. PICK op \in {"buy", "sell"}, s \in Symbols, q \in Quantities :
             call' = [call EXCEPT ![r] = [NoCall EXCEPT !.op = op, !.symbol = s, !.quantity = q]]
      BY <1>1 DEF ReceiveOrder, Quantities
    <2>2. OrderCall(call'[r])
      BY <2>1 DEF OrderCall, NoCall, TypeOK
    <2>3. /\ \A t \in Requests : t # r => call'[t] = call[t] /\ pc'[t] = pc[t]
          /\ pc'[r] = "findWallet"
      BY <1>1, <2>1 DEF ReceiveOrder, TypeOK
    <2> QED BY <2>2, <2>3 DEF CallInv, IsOrder, BuySteps, SellSteps
  <1>2. ASSUME NEW r \in Requests, ReceiveWallet(r) PROVE CallInv'
    BY <1>2 DEF ReceiveWallet, TypeOK, CallInv, OrderCall, IsOrder, NoCall, BuySteps,
       SellSteps, Goto, Finish, WithWallet, Ended, Resolved, Failed
  <1>3. ASSUME NEW r \in Requests, Refuse(r) PROVE CallInv'
    BY <1>3 DEF Refuse, TypeOK, CallInv, OrderCall, IsOrder, NoCall, BuySteps,
       SellSteps, Goto, Finish, WithWallet, Ended, Resolved, Failed, Arrive
  <1>4. ASSUME NEW r \in Requests, FindWallet(r) PROVE CallInv'
    BY <1>4 DEF FindWallet, TypeOK, CallInv, OrderCall, IsOrder, NoCall, BuySteps,
       SellSteps, Goto, Finish, WithWallet, Ended, Resolved, Failed
  <1>5. ASSUME NEW r \in Requests, CreateWallet(r) PROVE CallInv'
    BY <1>5 DEF CreateWallet, Unacknowledged, TypeOK, CallInv, OrderCall, IsOrder,
       NoCall, BuySteps, SellSteps, Goto, Finish, WithWallet, Ended, Resolved, Failed
  <1>6. ASSUME NEW r \in Requests, GetTicker(r) PROVE CallInv'
    <2>1. PICK p \in TickerPrices : LET price == ExecutionPrice(call[r].op, p) IN
            \/ /\ Goto(r, "getTicker", "recordRejected")
               /\ call' = [call EXCEPT ![r].reason = "BELOW_MIN_NOTIONAL"]
            \/ /\ Goto(r, "getTicker", IF call[r].op = "buy" THEN "buyDebit" ELSE "sellDebit")
               /\ call' = [call EXCEPT ![r].price = price]
      BY <1>6 DEF GetTicker
    <2>2. IsOrder(r) /\ OrderCall(call[r])
      BY <2>1 DEF Goto, CallInv
    <2>3. ExecutionPrice(call[r].op, p) \in Prices
      BY <2>2 DEF IsOrder, Prices
    <2>4. \A t \in Requests : t # r => call'[t] = call[t] /\ pc'[t] = pc[t]
      BY <2>1 DEF Goto, TypeOK
    <2>5. /\ call'[r].op = call[r].op /\ call'[r].symbol = call[r].symbol
          /\ call'[r].quantity = call[r].quantity
          /\ \/ pc'[r] = "recordRejected" /\ call'[r].reason \in Ledger!Reasons
             \/ pc'[r] \in {"buyDebit", "sellDebit"} /\ call'[r].price \in Prices
      BY <2>1, <2>3 DEF Goto, TypeOK, Call, Ledger!Reasons
    <2> QED BY <2>2, <2>4, <2>5 DEF CallInv, IsOrder, OrderCall, BuySteps, SellSteps
  <1>7. ASSUME NEW r \in Requests, TickerUnavailable(r) PROVE CallInv'
    <2>1. \A t \in Requests : pc'[t] = IF t = r THEN "recordRejected" ELSE pc[t]
      BY <1>7 DEF TickerUnavailable, Goto, TypeOK
    <2>2. \A t \in Requests : t # r => call'[t] = call[t]
      BY <1>7 DEF TickerUnavailable, TypeOK
    <2>3. /\ call'[r].op = call[r].op /\ call'[r].symbol = call[r].symbol
          /\ call'[r].quantity = call[r].quantity
          /\ call'[r].reason \in Ledger!Reasons
      BY <1>7 DEF TickerUnavailable, TypeOK, Call, Ledger!Reasons
    <2>4. IsOrder(r) /\ OrderCall(call[r])
      BY <1>7 DEF TickerUnavailable, Goto, CallInv, BuySteps, SellSteps
    <2> QED BY <2>1, <2>2, <2>3, <2>4 DEF CallInv, IsOrder, OrderCall, BuySteps,
       SellSteps
  <1>8. ASSUME NEW r \in Requests, RecordRejected(r) PROVE CallInv'
    BY <1>8 DEF RecordRejected, Unacknowledged, TypeOK, CallInv, OrderCall, IsOrder,
       NoCall, BuySteps, SellSteps, Goto, Finish, WithWallet, Ended, Resolved, Failed
  <1>9. ASSUME NEW r \in Requests, BuyDebit(r) PROVE CallInv'
    BY <1>9 DEF BuyDebit, TypeOK, CallInv, OrderCall, IsOrder, NoCall, BuySteps,
       SellSteps, Goto, Finish, WithWallet, Ended, Resolved, Failed
  <1>10. ASSUME NEW r \in Requests, BuyDebitMisses(r) PROVE CallInv'
    <2>1. \A t \in Requests : pc'[t] = IF t = r THEN "recordRejected" ELSE pc[t]
      BY <1>10 DEF BuyDebitMisses, Goto, TypeOK
    <2>2. \A t \in Requests : t # r => call'[t] = call[t]
      BY <1>10 DEF BuyDebitMisses, TypeOK
    <2>3. /\ call'[r].op = call[r].op /\ call'[r].symbol = call[r].symbol
          /\ call'[r].quantity = call[r].quantity
          /\ call'[r].reason \in Ledger!Reasons
      BY <1>10 DEF BuyDebitMisses, TypeOK, Call, Ledger!Reasons
    <2>4. IsOrder(r) /\ OrderCall(call[r])
      BY <1>10 DEF BuyDebitMisses, Goto, CallInv, BuySteps, SellSteps
    <2> QED BY <2>1, <2>2, <2>3, <2>4 DEF CallInv, IsOrder, OrderCall, BuySteps,
       SellSteps
  <1>11. ASSUME NEW r \in Requests, BuyFind(r) PROVE CallInv'
    BY <1>11 DEF BuyFind, TypeOK, CallInv, OrderCall, IsOrder, NoCall, BuySteps,
       SellSteps, Goto, Finish, WithWallet, Ended, Resolved, Failed
  <1>12. ASSUME NEW r \in Requests, BuyUpsert(r) PROVE CallInv'
    BY <1>12 DEF BuyUpsert, TypeOK, CallInv, OrderCall, IsOrder, NoCall, BuySteps,
       SellSteps, Goto, Finish, WithWallet, Ended, Resolved, Failed
  <1>13. ASSUME NEW r \in Requests, BuyCommit(r) PROVE CallInv'
    BY <1>13 DEF BuyCommit, Unacknowledged, TypeOK, CallInv, OrderCall, IsOrder, NoCall,
       BuySteps, SellSteps, Goto, Finish, WithWallet, Ended, Resolved, Failed
  <1>14. ASSUME NEW r \in Requests, SellDebit(r) PROVE CallInv'
    BY <1>14 DEF SellDebit, TypeOK, CallInv, OrderCall, IsOrder, NoCall, BuySteps,
       SellSteps, Goto, Finish, WithWallet, Ended, Resolved, Failed
  <1>15. ASSUME NEW r \in Requests, SellDebitMisses(r) PROVE CallInv'
    <2>1. \A t \in Requests : pc'[t] = IF t = r THEN "recordRejected" ELSE pc[t]
      BY <1>15 DEF SellDebitMisses, Goto, TypeOK
    <2>2. \A t \in Requests : t # r => call'[t] = call[t]
      BY <1>15 DEF SellDebitMisses, TypeOK
    <2>3. /\ call'[r].op = call[r].op /\ call'[r].symbol = call[r].symbol
          /\ call'[r].quantity = call[r].quantity
          /\ call'[r].reason \in Ledger!Reasons
      BY <1>15 DEF SellDebitMisses, TypeOK, Call, Ledger!Reasons
    <2>4. IsOrder(r) /\ OrderCall(call[r])
      BY <1>15 DEF SellDebitMisses, Goto, CallInv, BuySteps, SellSteps
    <2> QED BY <2>1, <2>2, <2>3, <2>4 DEF CallInv, IsOrder, OrderCall, BuySteps,
       SellSteps
  <1>16. ASSUME NEW r \in Requests, SellCredit(r) PROVE CallInv'
    BY <1>16 DEF SellCredit, TypeOK, CallInv, OrderCall, IsOrder, NoCall, BuySteps,
       SellSteps, Goto, Finish, WithWallet, Ended, Resolved, Failed
  <1>17. ASSUME NEW r \in Requests, SellCommit(r) PROVE CallInv'
    BY <1>17 DEF SellCommit, Unacknowledged, TypeOK, CallInv, OrderCall, IsOrder,
       NoCall, BuySteps, SellSteps, Goto, Finish, WithWallet, Ended, Resolved, Failed
  <1>18. ASSUME NEW r \in Requests, ResetBalance(r) PROVE CallInv'
    BY <1>18 DEF ResetBalance, TypeOK, CallInv, OrderCall, IsOrder, NoCall, BuySteps,
       SellSteps, Goto, Finish, WithWallet, Ended, Resolved, Failed
  <1>19. ASSUME NEW r \in Requests, ResetLockPosition(r) PROVE CallInv'
    BY <1>19 DEF ResetLockPosition, TypeOK, CallInv, OrderCall, IsOrder, NoCall,
       BuySteps, SellSteps, Goto, Finish, WithWallet, Ended, Resolved, Failed
  <1>20. ASSUME NEW r \in Requests, ResetPositions(r) PROVE CallInv'
    BY <1>20 DEF ResetPositions, TypeOK, CallInv, OrderCall, IsOrder, NoCall, BuySteps,
       SellSteps, Goto, Finish, WithWallet, Ended, Resolved, Failed
  <1>21. ASSUME NEW r \in Requests, ResetCommit(r) PROVE CallInv'
    BY <1>21 DEF ResetCommit, Unacknowledged, TypeOK, CallInv, OrderCall, IsOrder,
       NoCall, BuySteps, SellSteps, Goto, Finish, WithWallet, Ended, Resolved, Failed
  <1>22. ASSUME NEW r \in Requests, DeadlockVictim(r) PROVE CallInv'
    BY <1>22 DEF DeadlockVictim, TypeOK, CallInv, OrderCall, IsOrder, NoCall, BuySteps,
       SellSteps, Goto, Finish, WithWallet, Ended, Resolved, Failed
  <1>23. ASSUME NEW r \in Requests, Fault(r) PROVE CallInv'
    BY <1>23 DEF Fault, TypeOK, CallInv, OrderCall, IsOrder, NoCall, BuySteps,
       SellSteps, Goto, Finish, WithWallet, Ended, Resolved, Failed
  <1>24. CASE Drained \/ UNCHANGED vars
    BY <1>24 DEF Drained, vars, rows, locks, TypeOK, CallInv, OrderCall, IsOrder,
       NoCall, BuySteps, SellSteps, Goto, Finish, WithWallet, Ended, Resolved, Failed
  <1> QED
    BY <1>1, <1>2, <1>3, <1>4, <1>5, <1>6, <1>7, <1>8, <1>9, <1>10, <1>11, <1>12, <1>13,
       <1>14, <1>15, <1>16, <1>17, <1>18, <1>19, <1>20, <1>21, <1>22, <1>23, <1>24 DEF Next, Progress

-----------------------------------------------------------------------------
(* Rows and drafts. *)

\* What a transaction is about to commit is solvent.
LEMMA SolventDraft ==
    ASSUME IInv, NEW r \in Requests
    PROVE  /\ pc[r] \in {"buyCommit", "sellCommit", "resetCommit"} =>
                draft[r].balance \in Int /\ draft[r].balance >= 0
           /\ pc[r] \in {"buyCommit", "sellCommit"} =>
                /\ call[r].symbol \in Symbols
                /\ draft[r].position \in Row /\ draft[r].position.quantity >= 0
  <1> USE DEF IInv, TypeOK
  <1>1. CASE pc[r] = "buyCommit"
    <2>1. /\ call[r].symbol \in Symbols
          /\ call[r].quantity \in Nat /\ call[r].quantity > 0 /\ call[r].price \in Nat
      BY <1>1, QuantityNat, PriceNat DEF CallInv, OrderCall, BuySteps
    <2>2. balance \in Int
      BY <1>1 DEF WalletInv, BuySteps
    <2>3. draft[r].balance \in Int /\ draft[r].balance >= 0
      BY <1>1, <2>1, <2>2, DebitSolvent DEF DraftInv, BuyDraft
    <2>4. draft[r].position =
            Ledger!Increased(position[call[r].symbol], call[r].quantity, call[r].price)
      BY <1>1 DEF DraftInv, BuyDraft
    <2>5. /\ position[call[r].symbol] \in Row \cup {NoRow}
          /\ position[call[r].symbol] # NoRow => position[call[r].symbol].quantity >= 0
      BY <2>1 DEF NoShortSelling
    <2>6. draft[r].position \in Row /\ draft[r].position.quantity >= 0
      BY <2>1, <2>4, <2>5, IncreasedRow
    <2> QED BY <1>1, <2>1, <2>3, <2>6
  <1>2. CASE pc[r] = "sellCommit"
    <2>1. /\ call[r].symbol \in Symbols
          /\ call[r].quantity \in Nat /\ call[r].price \in Nat
      BY <1>2, QuantityNat, PriceNat DEF CallInv, OrderCall, SellSteps
    <2>2. balance \in Int /\ balance >= 0
      BY <1>2 DEF WalletInv, SellSteps, NoOverdraft
    <2>3. draft[r].balance \in Int /\ draft[r].balance >= 0
      BY <1>2, <2>1, <2>2, CreditSolvent DEF DraftInv, SellDraft
    <2>4. /\ position[call[r].symbol] \in Row
          /\ position[call[r].symbol].quantity >= call[r].quantity
          /\ draft[r].position = Ledger!Decreased(position[call[r].symbol], call[r].quantity)
      BY <1>2, <2>1 DEF DraftInv, SellDraft, SellDebitMatches
    <2>5. draft[r].position \in Row /\ draft[r].position.quantity >= 0
      BY <2>1, <2>4, DecreasedRow
    <2> QED BY <1>2, <2>1, <2>3, <2>5
  <1>3. CASE pc[r] = "resetCommit"
    BY <1>3, ValueAssumption DEF DraftInv, ResetDraft
  <1> QED BY <1>1, <1>2, <1>3

\* A draft stays what the ledger would do as long as nobody touches the rows
\* it was computed from.
LEMMA Untouched ==
    ASSUME IInv, NEW t \in Requests,
           pc'[t] = pc[t], call'[t] = call[t], draft'[t] = draft[t],
           pc[t] \in HoldsBalance => balance' = balance,
           \A s \in Symbols :
              \/ pc[t] \in HoldsBalance
              \/ pc[t] \in HoldsPosition /\ s = call[t].symbol
              => position'[s] = position[s],
           \A s \in Symbols : positionLock[s] = t => positionLock'[s] = t
    PROVE  BuyDraft(t)' /\ SellDraft(t)' /\ ResetDraft(t)'
  <1> USE DEF IInv, TypeOK
  <1>1. pc[t] \in HoldsBalance \cup HoldsPosition =>
          \/ pc[t] \in {"resetPositions", "resetCommit"}
          \/ call[t].symbol \in Symbols
    BY DEF CallInv, OrderCall, HoldsBalance, HoldsPosition, BuySteps, SellSteps
  <1>2. BuyDraft(t)'
    BY <1>1 DEF DraftInv, BuyDraft, HoldsBalance, HoldsPosition
  <1>3. SellDraft(t)'
    BY <1>1 DEF DraftInv, SellDraft, SellDebitMatches, HoldsBalance, HoldsPosition
  <1>4. ResetDraft(t)'
    BY DEF DraftInv, ResetDraft, HoldsBalance
  <1> QED BY <1>2, <1>3, <1>4

\* A request outside its transaction has no draft to answer for.
LEMMA NoDraftNeeded ==
    ASSUME NEW r \in Requests, pc'[r] \notin HoldsBalance \cup HoldsPosition
    PROVE  BuyDraft(r)' /\ SellDraft(r)' /\ ResetDraft(r)'
  BY DEF BuyDraft, SellDraft, ResetDraft, HoldsBalance, HoldsPosition

\* Nobody trades or resets before the wallet exists, and it never disappears.
LEMMA WalletStep == IInv /\ [Next]_vars => WalletInv'
  <1> SUFFICES ASSUME IInv, [Next]_vars PROVE WalletInv'
    OBVIOUS
  <1> USE DEF IInv
  <1>1. ASSUME NEW r \in Requests, ReceiveOrder(r) PROVE WalletInv'
    BY <1>1 DEF ReceiveOrder, TypeOK, WalletInv, BuySteps, SellSteps, ResetSteps, Goto,
       Finish, WithWallet, rows, Ended, Resolved, Failed, Arrive
  <1>2. ASSUME NEW r \in Requests, ReceiveWallet(r) PROVE WalletInv'
    BY <1>2 DEF ReceiveWallet, TypeOK, WalletInv, BuySteps, SellSteps, ResetSteps, Goto,
       Finish, WithWallet, rows, Ended, Resolved, Failed, Arrive
  <1>3. ASSUME NEW r \in Requests, Refuse(r) PROVE WalletInv'
    BY <1>3 DEF Refuse, TypeOK, WalletInv, BuySteps, SellSteps, ResetSteps, Goto,
       Finish, WithWallet, rows, Ended, Resolved, Failed, Arrive
  <1>4. ASSUME NEW r \in Requests, FindWallet(r) PROVE WalletInv'
    BY <1>4 DEF FindWallet, TypeOK, WalletInv, BuySteps, SellSteps, ResetSteps, Goto,
       Finish, WithWallet, rows, Ended, Resolved, Failed
  <1>5. ASSUME NEW r \in Requests, CreateWallet(r) PROVE WalletInv'
    BY <1>5, NoRowAssumption, ValueAssumption DEF CreateWallet, TypeOK, WalletInv,
       BuySteps, SellSteps, ResetSteps, Goto, Finish, WithWallet, rows, Ended, Resolved,
       Failed
  <1>6. ASSUME NEW r \in Requests, GetTicker(r) PROVE WalletInv'
    BY <1>6 DEF GetTicker, TypeOK, WalletInv, BuySteps, SellSteps, ResetSteps, Goto,
       Finish, WithWallet, rows, Ended, Resolved, Failed
  <1>7. ASSUME NEW r \in Requests, TickerUnavailable(r) PROVE WalletInv'
    BY <1>7 DEF TickerUnavailable, TypeOK, WalletInv, BuySteps, SellSteps, ResetSteps,
       Goto, Finish, WithWallet, rows, Ended, Resolved, Failed
  <1>8. ASSUME NEW r \in Requests, RecordRejected(r) PROVE WalletInv'
    BY <1>8 DEF RecordRejected, TypeOK, WalletInv, BuySteps, SellSteps, ResetSteps,
       Goto, Finish, WithWallet, rows, Ended, Resolved, Failed
  <1>9. ASSUME NEW r \in Requests, BuyDebit(r) PROVE WalletInv'
    BY <1>9 DEF BuyDebit, TypeOK, WalletInv, BuySteps, SellSteps, ResetSteps, Goto,
       Finish, WithWallet, rows, Ended, Resolved, Failed, BuyDebitMatches
  <1>10. ASSUME NEW r \in Requests, BuyDebitMisses(r) PROVE WalletInv'
    BY <1>10 DEF BuyDebitMisses, TypeOK, WalletInv, BuySteps, SellSteps, ResetSteps,
       Goto, Finish, WithWallet, rows, Ended, Resolved, Failed
  <1>11. ASSUME NEW r \in Requests, BuyFind(r) PROVE WalletInv'
    BY <1>11 DEF BuyFind, TypeOK, WalletInv, BuySteps, SellSteps, ResetSteps, Goto,
       Finish, WithWallet, rows, Ended, Resolved, Failed
  <1>12. ASSUME NEW r \in Requests, BuyUpsert(r) PROVE WalletInv'
    BY <1>12 DEF BuyUpsert, TypeOK, WalletInv, BuySteps, SellSteps, ResetSteps, Goto,
       Finish, WithWallet, rows, Ended, Resolved, Failed
  <1>13. ASSUME NEW r \in Requests, BuyCommit(r) PROVE WalletInv'
    <2>1. balance' # NoRow
      BY <1>13, SolventDraft, NoRowAssumption DEF BuyCommit
    <2>2. \A t \in Requests : t # r => pc'[t] = pc[t]
      BY <1>13 DEF BuyCommit, Unacknowledged, Finish, TypeOK
    <2>3. pc'[r] \in Ended
      BY <1>13 DEF BuyCommit, Unacknowledged, Finish, TypeOK, Ended, Resolved, Failed
    <2> QED BY <2>1 DEF WalletInv
  <1>14. ASSUME NEW r \in Requests, SellDebit(r) PROVE WalletInv'
    BY <1>14 DEF SellDebit, TypeOK, WalletInv, BuySteps, SellSteps, ResetSteps, Goto,
       Finish, WithWallet, rows, Ended, Resolved, Failed
  <1>15. ASSUME NEW r \in Requests, SellDebitMisses(r) PROVE WalletInv'
    BY <1>15 DEF SellDebitMisses, TypeOK, WalletInv, BuySteps, SellSteps, ResetSteps,
       Goto, Finish, WithWallet, rows, Ended, Resolved, Failed
  <1>16. ASSUME NEW r \in Requests, SellCredit(r) PROVE WalletInv'
    BY <1>16 DEF SellCredit, TypeOK, WalletInv, BuySteps, SellSteps, ResetSteps, Goto,
       Finish, WithWallet, rows, Ended, Resolved, Failed
  <1>17. ASSUME NEW r \in Requests, SellCommit(r) PROVE WalletInv'
    <2>1. balance' # NoRow
      BY <1>17, SolventDraft, NoRowAssumption DEF SellCommit
    <2>2. \A t \in Requests : t # r => pc'[t] = pc[t]
      BY <1>17 DEF SellCommit, Unacknowledged, Finish, TypeOK
    <2>3. pc'[r] \in Ended
      BY <1>17 DEF SellCommit, Unacknowledged, Finish, TypeOK, Ended, Resolved, Failed
    <2> QED BY <2>1 DEF WalletInv
  <1>18. ASSUME NEW r \in Requests, ResetBalance(r) PROVE WalletInv'
    BY <1>18 DEF ResetBalance, TypeOK, WalletInv, BuySteps, SellSteps, ResetSteps, Goto,
       Finish, WithWallet, rows, Ended, Resolved, Failed
  <1>19. ASSUME NEW r \in Requests, ResetLockPosition(r) PROVE WalletInv'
    BY <1>19 DEF ResetLockPosition, TypeOK, WalletInv, BuySteps, SellSteps, ResetSteps,
       Goto, Finish, WithWallet, rows, Ended, Resolved, Failed
  <1>20. ASSUME NEW r \in Requests, ResetPositions(r) PROVE WalletInv'
    BY <1>20 DEF ResetPositions, TypeOK, WalletInv, BuySteps, SellSteps, ResetSteps,
       Goto, Finish, WithWallet, rows, Ended, Resolved, Failed
  <1>21. ASSUME NEW r \in Requests, ResetCommit(r) PROVE WalletInv'
    <2>1. balance' # NoRow
      BY <1>21, SolventDraft, NoRowAssumption DEF ResetCommit
    <2>2. \A t \in Requests : t # r => pc'[t] = pc[t]
      BY <1>21 DEF ResetCommit, Unacknowledged, Finish, TypeOK
    <2>3. pc'[r] \in Ended
      BY <1>21 DEF ResetCommit, Unacknowledged, Finish, TypeOK, Ended, Resolved, Failed
    <2> QED BY <2>1 DEF WalletInv
  <1>22. ASSUME NEW r \in Requests, DeadlockVictim(r) PROVE WalletInv'
    BY <1>22 DEF DeadlockVictim, TypeOK, WalletInv, BuySteps, SellSteps, ResetSteps,
       Goto, Finish, WithWallet, rows, Ended, Resolved, Failed
  <1>23. ASSUME NEW r \in Requests, Fault(r) PROVE WalletInv'
    BY <1>23 DEF Fault, TypeOK, WalletInv, BuySteps, SellSteps, ResetSteps, Goto,
       Finish, WithWallet, rows, Ended, Resolved, Failed
  <1>24. CASE Drained \/ UNCHANGED vars
    BY <1>24 DEF Drained, vars, rows, locks, TypeOK, WalletInv, BuySteps, SellSteps,
       ResetSteps, Goto, Finish, WithWallet, rows, Ended, Resolved, Failed
  <1> QED
    BY <1>1, <1>2, <1>3, <1>4, <1>5, <1>6, <1>7, <1>8, <1>9, <1>10, <1>11, <1>12, <1>13,
       <1>14, <1>15, <1>16, <1>17, <1>18, <1>19, <1>20, <1>21, <1>22, <1>23, <1>24 DEF Next, Progress

\* No step overdraws the balance.
LEMMA OverdraftStep == IInv /\ [Next]_vars => NoOverdraft'
  <1> SUFFICES ASSUME IInv, [Next]_vars PROVE NoOverdraft'
    OBVIOUS
  <1> USE DEF IInv
  <1>1. ASSUME NEW r \in Requests, ReceiveOrder(r) PROVE NoOverdraft'
    BY <1>1 DEF ReceiveOrder, NoOverdraft, rows, Arrive
  <1>2. ASSUME NEW r \in Requests, ReceiveWallet(r) PROVE NoOverdraft'
    BY <1>2 DEF ReceiveWallet, NoOverdraft, rows, Arrive
  <1>3. ASSUME NEW r \in Requests, Refuse(r) PROVE NoOverdraft'
    BY <1>3 DEF Refuse, NoOverdraft, rows, Arrive
  <1>4. ASSUME NEW r \in Requests, FindWallet(r) PROVE NoOverdraft'
    BY <1>4 DEF FindWallet, NoOverdraft, rows
  <1>5. ASSUME NEW r \in Requests, CreateWallet(r) PROVE NoOverdraft'
    BY <1>5, ValueAssumption DEF CreateWallet, NoOverdraft, rows
  <1>6. ASSUME NEW r \in Requests, GetTicker(r) PROVE NoOverdraft'
    BY <1>6 DEF GetTicker, NoOverdraft, rows
  <1>7. ASSUME NEW r \in Requests, TickerUnavailable(r) PROVE NoOverdraft'
    BY <1>7 DEF TickerUnavailable, NoOverdraft, rows
  <1>8. ASSUME NEW r \in Requests, RecordRejected(r) PROVE NoOverdraft'
    BY <1>8 DEF RecordRejected, NoOverdraft, rows
  <1>9. ASSUME NEW r \in Requests, BuyDebit(r) PROVE NoOverdraft'
    BY <1>9 DEF BuyDebit, NoOverdraft, rows
  <1>10. ASSUME NEW r \in Requests, BuyDebitMisses(r) PROVE NoOverdraft'
    BY <1>10 DEF BuyDebitMisses, NoOverdraft, rows
  <1>11. ASSUME NEW r \in Requests, BuyFind(r) PROVE NoOverdraft'
    BY <1>11 DEF BuyFind, NoOverdraft, rows
  <1>12. ASSUME NEW r \in Requests, BuyUpsert(r) PROVE NoOverdraft'
    BY <1>12 DEF BuyUpsert, NoOverdraft, rows
  <1>13. ASSUME NEW r \in Requests, BuyCommit(r) PROVE NoOverdraft'
    BY <1>13, SolventDraft DEF BuyCommit, BuyCommit, NoOverdraft
  <1>14. ASSUME NEW r \in Requests, SellDebit(r) PROVE NoOverdraft'
    BY <1>14 DEF SellDebit, NoOverdraft, rows
  <1>15. ASSUME NEW r \in Requests, SellDebitMisses(r) PROVE NoOverdraft'
    BY <1>15 DEF SellDebitMisses, NoOverdraft, rows
  <1>16. ASSUME NEW r \in Requests, SellCredit(r) PROVE NoOverdraft'
    BY <1>16 DEF SellCredit, NoOverdraft, rows
  <1>17. ASSUME NEW r \in Requests, SellCommit(r) PROVE NoOverdraft'
    BY <1>17, SolventDraft DEF SellCommit, SellCommit, NoOverdraft
  <1>18. ASSUME NEW r \in Requests, ResetBalance(r) PROVE NoOverdraft'
    BY <1>18 DEF ResetBalance, NoOverdraft, rows
  <1>19. ASSUME NEW r \in Requests, ResetLockPosition(r) PROVE NoOverdraft'
    BY <1>19 DEF ResetLockPosition, NoOverdraft, rows
  <1>20. ASSUME NEW r \in Requests, ResetPositions(r) PROVE NoOverdraft'
    BY <1>20 DEF ResetPositions, NoOverdraft, rows
  <1>21. ASSUME NEW r \in Requests, ResetCommit(r) PROVE NoOverdraft'
    BY <1>21, SolventDraft DEF ResetCommit, ResetCommit, NoOverdraft
  <1>22. ASSUME NEW r \in Requests, DeadlockVictim(r) PROVE NoOverdraft'
    BY <1>22 DEF DeadlockVictim, NoOverdraft, rows
  <1>23. ASSUME NEW r \in Requests, Fault(r) PROVE NoOverdraft'
    BY <1>23 DEF Fault, NoOverdraft, rows
  <1>24. CASE Drained \/ UNCHANGED vars
    BY <1>24 DEF Drained, vars, rows, locks, NoOverdraft, rows
  <1> QED
    BY <1>1, <1>2, <1>3, <1>4, <1>5, <1>6, <1>7, <1>8, <1>9, <1>10, <1>11, <1>12, <1>13,
       <1>14, <1>15, <1>16, <1>17, <1>18, <1>19, <1>20, <1>21, <1>22, <1>23, <1>24 DEF Next, Progress

\* No step oversells a position.
LEMMA ShortSellingStep == IInv /\ [Next]_vars => NoShortSelling'
  <1> SUFFICES ASSUME IInv, [Next]_vars PROVE NoShortSelling'
    OBVIOUS
  <1> USE DEF IInv
  <1>1. ASSUME NEW r \in Requests, ReceiveOrder(r) PROVE NoShortSelling'
    BY <1>1 DEF ReceiveOrder, NoShortSelling, rows, Arrive
  <1>2. ASSUME NEW r \in Requests, ReceiveWallet(r) PROVE NoShortSelling'
    BY <1>2 DEF ReceiveWallet, NoShortSelling, rows, Arrive
  <1>3. ASSUME NEW r \in Requests, Refuse(r) PROVE NoShortSelling'
    BY <1>3 DEF Refuse, NoShortSelling, rows, Arrive
  <1>4. ASSUME NEW r \in Requests, FindWallet(r) PROVE NoShortSelling'
    BY <1>4 DEF FindWallet, NoShortSelling, rows
  <1>5. ASSUME NEW r \in Requests, CreateWallet(r) PROVE NoShortSelling'
    BY <1>5 DEF CreateWallet, NoShortSelling, rows
  <1>6. ASSUME NEW r \in Requests, GetTicker(r) PROVE NoShortSelling'
    BY <1>6 DEF GetTicker, NoShortSelling, rows
  <1>7. ASSUME NEW r \in Requests, TickerUnavailable(r) PROVE NoShortSelling'
    BY <1>7 DEF TickerUnavailable, NoShortSelling, rows
  <1>8. ASSUME NEW r \in Requests, RecordRejected(r) PROVE NoShortSelling'
    BY <1>8 DEF RecordRejected, NoShortSelling, rows
  <1>9. ASSUME NEW r \in Requests, BuyDebit(r) PROVE NoShortSelling'
    BY <1>9 DEF BuyDebit, NoShortSelling, rows
  <1>10. ASSUME NEW r \in Requests, BuyDebitMisses(r) PROVE NoShortSelling'
    BY <1>10 DEF BuyDebitMisses, NoShortSelling, rows
  <1>11. ASSUME NEW r \in Requests, BuyFind(r) PROVE NoShortSelling'
    BY <1>11 DEF BuyFind, NoShortSelling, rows
  <1>12. ASSUME NEW r \in Requests, BuyUpsert(r) PROVE NoShortSelling'
    BY <1>12 DEF BuyUpsert, NoShortSelling, rows
  <1>13. ASSUME NEW r \in Requests, BuyCommit(r) PROVE NoShortSelling'
    BY <1>13, SolventDraft DEF BuyCommit, BuyCommit, NoShortSelling, TypeOK
  <1>14. ASSUME NEW r \in Requests, SellDebit(r) PROVE NoShortSelling'
    BY <1>14 DEF SellDebit, NoShortSelling, rows
  <1>15. ASSUME NEW r \in Requests, SellDebitMisses(r) PROVE NoShortSelling'
    BY <1>15 DEF SellDebitMisses, NoShortSelling, rows
  <1>16. ASSUME NEW r \in Requests, SellCredit(r) PROVE NoShortSelling'
    BY <1>16 DEF SellCredit, NoShortSelling, rows
  <1>17. ASSUME NEW r \in Requests, SellCommit(r) PROVE NoShortSelling'
    BY <1>17, SolventDraft DEF SellCommit, SellCommit, NoShortSelling, TypeOK
  <1>18. ASSUME NEW r \in Requests, ResetBalance(r) PROVE NoShortSelling'
    BY <1>18 DEF ResetBalance, NoShortSelling, rows
  <1>19. ASSUME NEW r \in Requests, ResetLockPosition(r) PROVE NoShortSelling'
    BY <1>19 DEF ResetLockPosition, NoShortSelling, rows
  <1>20. ASSUME NEW r \in Requests, ResetPositions(r) PROVE NoShortSelling'
    BY <1>20 DEF ResetPositions, NoShortSelling, rows
  <1>21. ASSUME NEW r \in Requests, ResetCommit(r) PROVE NoShortSelling'
    BY <1>21 DEF ResetCommit, ResetCommit, NoShortSelling, TypeOK
  <1>22. ASSUME NEW r \in Requests, DeadlockVictim(r) PROVE NoShortSelling'
    BY <1>22 DEF DeadlockVictim, NoShortSelling, rows
  <1>23. ASSUME NEW r \in Requests, Fault(r) PROVE NoShortSelling'
    BY <1>23 DEF Fault, NoShortSelling, rows
  <1>24. CASE Drained \/ UNCHANGED vars
    BY <1>24 DEF Drained, vars, rows, locks, NoShortSelling, rows
  <1> QED
    BY <1>1, <1>2, <1>3, <1>4, <1>5, <1>6, <1>7, <1>8, <1>9, <1>10, <1>11, <1>12, <1>13,
       <1>14, <1>15, <1>16, <1>17, <1>18, <1>19, <1>20, <1>21, <1>22, <1>23, <1>24 DEF Next, Progress

\* Locks isolate: no step invalidates what another transaction computed.
LEMMA DraftStep == IInv /\ [Next]_vars => DraftInv'
  <1> SUFFICES ASSUME IInv, [Next]_vars PROVE DraftInv'
    OBVIOUS
  <1> USE DEF IInv
  <1>1. ASSUME NEW r \in Requests, ReceiveOrder(r) PROVE DraftInv'
    <2>1. ASSUME NEW t \in Requests, t # r
          PROVE  BuyDraft(t)' /\ SellDraft(t)' /\ ResetDraft(t)'
      BY <1>1, <2>1, Untouched DEF ReceiveOrder, Arrive, TypeOK, rows, locks, Goto
    <2>2. pc'[r] \notin HoldsBalance \cup HoldsPosition
      BY <1>1 DEF ReceiveOrder, TypeOK, HoldsBalance, HoldsPosition
    <2>3. BuyDraft(r)' /\ SellDraft(r)' /\ ResetDraft(r)'
      BY <2>2, NoDraftNeeded
    <2> QED BY <2>1, <2>3 DEF DraftInv
  <1>2. ASSUME NEW r \in Requests, ReceiveWallet(r) PROVE DraftInv'
    <2>1. ASSUME NEW t \in Requests, t # r
          PROVE  BuyDraft(t)' /\ SellDraft(t)' /\ ResetDraft(t)'
      BY <1>2, <2>1, Untouched DEF ReceiveWallet, Arrive, TypeOK, rows, locks, Goto
    <2>2. pc'[r] \notin HoldsBalance \cup HoldsPosition
      BY <1>2 DEF ReceiveWallet, TypeOK, HoldsBalance, HoldsPosition
    <2>3. BuyDraft(r)' /\ SellDraft(r)' /\ ResetDraft(r)'
      BY <2>2, NoDraftNeeded
    <2> QED BY <2>1, <2>3 DEF DraftInv
  <1>3. ASSUME NEW r \in Requests, Refuse(r) PROVE DraftInv'
    <2>1. ASSUME NEW t \in Requests, t # r
          PROVE  BuyDraft(t)' /\ SellDraft(t)' /\ ResetDraft(t)'
      BY <1>3, <2>1, Untouched DEF Refuse, Arrive, TypeOK, rows, locks, Goto
    <2>2. pc'[r] \notin HoldsBalance \cup HoldsPosition
      BY <1>3 DEF Refuse, TypeOK, HoldsBalance, HoldsPosition
    <2>3. BuyDraft(r)' /\ SellDraft(r)' /\ ResetDraft(r)'
      BY <2>2, NoDraftNeeded
    <2> QED BY <2>1, <2>3 DEF DraftInv
  <1>4. ASSUME NEW r \in Requests, FindWallet(r) PROVE DraftInv'
    <2>1. ASSUME NEW t \in Requests, t # r
          PROVE  BuyDraft(t)' /\ SellDraft(t)' /\ ResetDraft(t)'
      BY <1>4, <2>1, Untouched DEF FindWallet, TypeOK, rows, locks, Goto, WithWallet,
         Finish
    <2>2. pc'[r] \notin HoldsBalance \cup HoldsPosition
      BY <1>4 DEF FindWallet, WithWallet, Finish, TypeOK, HoldsBalance, HoldsPosition
    <2>3. BuyDraft(r)' /\ SellDraft(r)' /\ ResetDraft(r)'
      BY <2>2, NoDraftNeeded
    <2> QED BY <2>1, <2>3 DEF DraftInv
  <1>5. ASSUME NEW r \in Requests, CreateWallet(r) PROVE DraftInv'
    <2>1. ASSUME NEW t \in Requests, t # r
          PROVE  BuyDraft(t)' /\ SellDraft(t)' /\ ResetDraft(t)'
      BY <1>5, <2>1, Untouched DEF CreateWallet, Unacknowledged, TypeOK, locks,
         WithWallet, Finish, WalletInv, HoldsBalance, BuySteps, SellSteps, ResetSteps
    <2>2. pc'[r] \notin HoldsBalance \cup HoldsPosition
      BY <1>5 DEF CreateWallet, Unacknowledged, WithWallet, Finish, TypeOK,
         HoldsBalance, HoldsPosition
    <2>3. BuyDraft(r)' /\ SellDraft(r)' /\ ResetDraft(r)'
      BY <2>2, NoDraftNeeded
    <2> QED BY <2>1, <2>3 DEF DraftInv
  <1>6. ASSUME NEW r \in Requests, GetTicker(r) PROVE DraftInv'
    <2>1. ASSUME NEW t \in Requests, t # r
          PROVE  BuyDraft(t)' /\ SellDraft(t)' /\ ResetDraft(t)'
      BY <1>6, <2>1, Untouched DEF GetTicker, TypeOK, rows, locks, Goto
    <2>2. pc'[r] \notin HoldsBalance \cup HoldsPosition
      BY <1>6 DEF GetTicker, Goto, TypeOK, HoldsBalance, HoldsPosition
    <2>3. BuyDraft(r)' /\ SellDraft(r)' /\ ResetDraft(r)'
      BY <2>2, NoDraftNeeded
    <2> QED BY <2>1, <2>3 DEF DraftInv
  <1>7. ASSUME NEW r \in Requests, TickerUnavailable(r) PROVE DraftInv'
    <2>1. ASSUME NEW t \in Requests, t # r
          PROVE  BuyDraft(t)' /\ SellDraft(t)' /\ ResetDraft(t)'
      BY <1>7, <2>1, Untouched DEF TickerUnavailable, TypeOK, rows, locks, Goto
    <2>2. pc'[r] \notin HoldsBalance \cup HoldsPosition
      BY <1>7 DEF TickerUnavailable, Goto, TypeOK, HoldsBalance, HoldsPosition
    <2>3. BuyDraft(r)' /\ SellDraft(r)' /\ ResetDraft(r)'
      BY <2>2, NoDraftNeeded
    <2> QED BY <2>1, <2>3 DEF DraftInv
  <1>8. ASSUME NEW r \in Requests, RecordRejected(r) PROVE DraftInv'
    <2>1. ASSUME NEW t \in Requests, t # r
          PROVE  BuyDraft(t)' /\ SellDraft(t)' /\ ResetDraft(t)'
      BY <1>8, <2>1, Untouched DEF RecordRejected, Unacknowledged, TypeOK, rows, locks,
         Goto, Finish
    <2>2. pc'[r] \notin HoldsBalance \cup HoldsPosition
      BY <1>8 DEF RecordRejected, Unacknowledged, Finish, TypeOK, HoldsBalance,
         HoldsPosition
    <2>3. BuyDraft(r)' /\ SellDraft(r)' /\ ResetDraft(r)'
      BY <2>2, NoDraftNeeded
    <2> QED BY <2>1, <2>3 DEF DraftInv
  <1>9. ASSUME NEW r \in Requests, BuyDebit(r) PROVE DraftInv'
    <2>1. ASSUME NEW t \in Requests, t # r
          PROVE  BuyDraft(t)' /\ SellDraft(t)' /\ ResetDraft(t)'
      BY <1>9, <2>1, Untouched DEF BuyDebit, TypeOK, rows, locks, Goto
    <2>2. BuyDraft(r)' /\ SellDraft(r)' /\ ResetDraft(r)'
      BY <1>9 DEF BuyDebit, TypeOK, rows, locks, Goto, BuyDraft, SellDraft, ResetDraft,
         SellDebitMatches, BuyDebitMatches, Draft
    <2> QED BY <2>1, <2>2 DEF DraftInv
  <1>10. ASSUME NEW r \in Requests, BuyDebitMisses(r) PROVE DraftInv'
    <2>1. ASSUME NEW t \in Requests, t # r
          PROVE  BuyDraft(t)' /\ SellDraft(t)' /\ ResetDraft(t)'
      BY <1>10, <2>1, Untouched DEF BuyDebitMisses, TypeOK, rows, locks, Goto
    <2>2. pc'[r] \notin HoldsBalance \cup HoldsPosition
      BY <1>10 DEF BuyDebitMisses, Goto, TypeOK, HoldsBalance, HoldsPosition
    <2>3. BuyDraft(r)' /\ SellDraft(r)' /\ ResetDraft(r)'
      BY <2>2, NoDraftNeeded
    <2> QED BY <2>1, <2>3 DEF DraftInv
  <1>11. ASSUME NEW r \in Requests, BuyFind(r) PROVE DraftInv'
    <2>1. ASSUME NEW t \in Requests, t # r
          PROVE  BuyDraft(t)' /\ SellDraft(t)' /\ ResetDraft(t)'
      BY <1>11, <2>1, Untouched DEF BuyFind, TypeOK, rows, locks, Goto
    <2>2. BuyDraft(r)' /\ SellDraft(r)' /\ ResetDraft(r)'
      BY <1>11 DEF BuyFind, TypeOK, rows, locks, Goto, BuyDraft, SellDraft, ResetDraft,
         SellDebitMatches, DraftInv, Draft
    <2> QED BY <2>1, <2>2 DEF DraftInv
  <1>12. ASSUME NEW r \in Requests, BuyUpsert(r) PROVE DraftInv'
    <2>1. ASSUME NEW t \in Requests, t # r
          PROVE  BuyDraft(t)' /\ SellDraft(t)' /\ ResetDraft(t)'
      BY <1>12, <2>1, Untouched, NobodyAssumption DEF BuyUpsert, TypeOK, rows, locks,
         Goto
    <2>2. call[r].symbol \in Symbols
      BY <1>12 DEF BuyUpsert, Goto, CallInv, OrderCall, BuySteps
    <2>3. draft[r].read = position[call[r].symbol]
      BY <1>12 DEF BuyUpsert, Goto, DraftInv, BuyDraft
    <2>4. BuyDraft(r)' /\ SellDraft(r)' /\ ResetDraft(r)'
      BY <1>12, <2>2, <2>3 DEF BuyUpsert, TypeOK, rows, locks, Goto, BuyDraft,
         SellDraft, ResetDraft, SellDebitMatches, DraftInv, Draft
    <2> QED BY <2>1, <2>4 DEF DraftInv
  <1>13. ASSUME NEW r \in Requests, BuyCommit(r) PROVE DraftInv'
    <2>1. ASSUME NEW t \in Requests, t # r
          PROVE  BuyDraft(t)' /\ SellDraft(t)' /\ ResetDraft(t)'
      <3>1. /\ pc'[t] = pc[t] /\ call'[t] = call[t] /\ draft'[t] = draft[t]
            /\ \A s \in Symbols : positionLock[s] = t => positionLock'[s] = t
        BY <1>13, <2>1, EndEffect DEF BuyCommit, Unacknowledged, Ended
      <3>2. pc[t] \notin HoldsBalance
        BY <1>13, <2>1 DEF BuyCommit, LockInv, HoldsBalance
      <3>3. \A s \in Symbols : pc[t] \in HoldsPosition /\ s = call[t].symbol => position'[s] = position[s]
        BY <1>13, <2>1 DEF BuyCommit, LockInv, HoldsPosition, TypeOK
      <3> QED BY <3>1, <3>2, <3>3, Untouched
    <2>2. pc'[r] \notin HoldsBalance \cup HoldsPosition
      BY <1>13 DEF BuyCommit, Unacknowledged, Finish, TypeOK, HoldsBalance,
         HoldsPosition
    <2>3. BuyDraft(r)' /\ SellDraft(r)' /\ ResetDraft(r)'
      BY <2>2, NoDraftNeeded
    <2> QED BY <2>1, <2>3 DEF DraftInv
  <1>14. ASSUME NEW r \in Requests, SellDebit(r) PROVE DraftInv'
    <2>1. ASSUME NEW t \in Requests, t # r
          PROVE  BuyDraft(t)' /\ SellDraft(t)' /\ ResetDraft(t)'
      BY <1>14, <2>1, Untouched, NobodyAssumption DEF SellDebit, TypeOK, rows, locks,
         Goto
    <2>2. BuyDraft(r)' /\ SellDraft(r)' /\ ResetDraft(r)'
      BY <1>14 DEF SellDebit, TypeOK, rows, locks, Goto, BuyDraft, SellDraft,
         ResetDraft, SellDebitMatches, Draft
    <2> QED BY <2>1, <2>2 DEF DraftInv
  <1>15. ASSUME NEW r \in Requests, SellDebitMisses(r) PROVE DraftInv'
    <2>1. ASSUME NEW t \in Requests, t # r
          PROVE  BuyDraft(t)' /\ SellDraft(t)' /\ ResetDraft(t)'
      BY <1>15, <2>1, Untouched DEF SellDebitMisses, TypeOK, rows, locks, Goto
    <2>2. pc'[r] \notin HoldsBalance \cup HoldsPosition
      BY <1>15 DEF SellDebitMisses, Goto, TypeOK, HoldsBalance, HoldsPosition
    <2>3. BuyDraft(r)' /\ SellDraft(r)' /\ ResetDraft(r)'
      BY <2>2, NoDraftNeeded
    <2> QED BY <2>1, <2>3 DEF DraftInv
  <1>16. ASSUME NEW r \in Requests, SellCredit(r) PROVE DraftInv'
    <2>1. ASSUME NEW t \in Requests, t # r
          PROVE  BuyDraft(t)' /\ SellDraft(t)' /\ ResetDraft(t)'
      BY <1>16, <2>1, Untouched DEF SellCredit, TypeOK, rows, locks, Goto
    <2>2. BuyDraft(r)' /\ SellDraft(r)' /\ ResetDraft(r)'
      BY <1>16 DEF SellCredit, TypeOK, rows, locks, Goto, BuyDraft, SellDraft,
         ResetDraft, SellDebitMatches, DraftInv, Draft, WalletInv, SellSteps
    <2> QED BY <2>1, <2>2 DEF DraftInv
  <1>17. ASSUME NEW r \in Requests, SellCommit(r) PROVE DraftInv'
    <2>1. ASSUME NEW t \in Requests, t # r
          PROVE  BuyDraft(t)' /\ SellDraft(t)' /\ ResetDraft(t)'
      <3>1. /\ pc'[t] = pc[t] /\ call'[t] = call[t] /\ draft'[t] = draft[t]
            /\ \A s \in Symbols : positionLock[s] = t => positionLock'[s] = t
        BY <1>17, <2>1, EndEffect DEF SellCommit, Unacknowledged, Ended
      <3>2. pc[t] \notin HoldsBalance
        BY <1>17, <2>1 DEF SellCommit, LockInv, HoldsBalance
      <3>3. \A s \in Symbols : pc[t] \in HoldsPosition /\ s = call[t].symbol => position'[s] = position[s]
        BY <1>17, <2>1 DEF SellCommit, LockInv, HoldsPosition, TypeOK
      <3> QED BY <3>1, <3>2, <3>3, Untouched
    <2>2. pc'[r] \notin HoldsBalance \cup HoldsPosition
      BY <1>17 DEF SellCommit, Unacknowledged, Finish, TypeOK, HoldsBalance,
         HoldsPosition
    <2>3. BuyDraft(r)' /\ SellDraft(r)' /\ ResetDraft(r)'
      BY <2>2, NoDraftNeeded
    <2> QED BY <2>1, <2>3 DEF DraftInv
  <1>18. ASSUME NEW r \in Requests, ResetBalance(r) PROVE DraftInv'
    <2>1. ASSUME NEW t \in Requests, t # r
          PROVE  BuyDraft(t)' /\ SellDraft(t)' /\ ResetDraft(t)'
      BY <1>18, <2>1, Untouched DEF ResetBalance, TypeOK, rows, locks, Goto
    <2>2. BuyDraft(r)' /\ SellDraft(r)' /\ ResetDraft(r)'
      BY <1>18 DEF ResetBalance, TypeOK, rows, locks, Goto, BuyDraft, SellDraft,
         ResetDraft, SellDebitMatches, Draft
    <2> QED BY <2>1, <2>2 DEF DraftInv
  <1>19. ASSUME NEW r \in Requests, ResetLockPosition(r) PROVE DraftInv'
    <2>1. ASSUME NEW t \in Requests, t # r
          PROVE  BuyDraft(t)' /\ SellDraft(t)' /\ ResetDraft(t)'
      BY <1>19, <2>1, Untouched, NobodyAssumption DEF ResetLockPosition, TypeOK, rows,
         locks, Goto
    <2>2. BuyDraft(r)' /\ SellDraft(r)' /\ ResetDraft(r)'
      BY <1>19 DEF ResetLockPosition, TypeOK, rows, locks, Goto, BuyDraft, SellDraft,
         ResetDraft, SellDebitMatches, DraftInv
    <2> QED BY <2>1, <2>2 DEF DraftInv
  <1>20. ASSUME NEW r \in Requests, ResetPositions(r) PROVE DraftInv'
    <2>1. ASSUME NEW t \in Requests, t # r
          PROVE  BuyDraft(t)' /\ SellDraft(t)' /\ ResetDraft(t)'
      BY <1>20, <2>1, Untouched DEF ResetPositions, TypeOK, rows, locks, Goto
    <2>2. BuyDraft(r)' /\ SellDraft(r)' /\ ResetDraft(r)'
      BY <1>20 DEF ResetPositions, TypeOK, rows, locks, Goto, BuyDraft, SellDraft,
         ResetDraft, SellDebitMatches, DraftInv
    <2> QED BY <2>1, <2>2 DEF DraftInv
  <1>21. ASSUME NEW r \in Requests, ResetCommit(r) PROVE DraftInv'
    <2>1. ASSUME NEW t \in Requests, t # r
          PROVE  BuyDraft(t)' /\ SellDraft(t)' /\ ResetDraft(t)'
      <3>1. /\ pc'[t] = pc[t] /\ call'[t] = call[t] /\ draft'[t] = draft[t]
            /\ \A s \in Symbols : positionLock[s] = t => positionLock'[s] = t
        BY <1>21, <2>1, EndEffect DEF ResetCommit, Unacknowledged, Ended
      <3>2. pc[t] \notin HoldsBalance
        BY <1>21, <2>1 DEF ResetCommit, LockInv, HoldsBalance
      <3>3. \A s \in Symbols : pc[t] \in HoldsPosition /\ s = call[t].symbol => position'[s] = position[s]
        BY <1>21, <2>1 DEF ResetCommit, LockInv, HoldsPosition, TypeOK
      <3> QED BY <3>1, <3>2, <3>3, Untouched
    <2>2. pc'[r] \notin HoldsBalance \cup HoldsPosition
      BY <1>21 DEF ResetCommit, Unacknowledged, Finish, TypeOK, HoldsBalance,
         HoldsPosition
    <2>3. BuyDraft(r)' /\ SellDraft(r)' /\ ResetDraft(r)'
      BY <2>2, NoDraftNeeded
    <2> QED BY <2>1, <2>3 DEF DraftInv
  <1>22. ASSUME NEW r \in Requests, DeadlockVictim(r) PROVE DraftInv'
    <2>1. ASSUME NEW t \in Requests, t # r
          PROVE  BuyDraft(t)' /\ SellDraft(t)' /\ ResetDraft(t)'
      BY <1>22, <2>1, Untouched, EndEffect DEF DeadlockVictim, TypeOK, rows
    <2>2. pc'[r] \notin HoldsBalance \cup HoldsPosition
      BY <1>22 DEF DeadlockVictim, Finish, TypeOK, HoldsBalance, HoldsPosition
    <2>3. BuyDraft(r)' /\ SellDraft(r)' /\ ResetDraft(r)'
      BY <2>2, NoDraftNeeded
    <2> QED BY <2>1, <2>3 DEF DraftInv
  <1>23. ASSUME NEW r \in Requests, Fault(r) PROVE DraftInv'
    <2>1. ASSUME NEW t \in Requests, t # r
          PROVE  BuyDraft(t)' /\ SellDraft(t)' /\ ResetDraft(t)'
      BY <1>23, <2>1, Untouched, EndEffect DEF Fault, TypeOK, rows
    <2>2. pc'[r] \notin HoldsBalance \cup HoldsPosition
      BY <1>23 DEF Fault, Finish, TypeOK, HoldsBalance, HoldsPosition
    <2>3. BuyDraft(r)' /\ SellDraft(r)' /\ ResetDraft(r)'
      BY <2>2, NoDraftNeeded
    <2> QED BY <2>1, <2>3 DEF DraftInv
  <1>24. CASE Drained \/ UNCHANGED vars
    BY <1>24 DEF Drained, vars, rows, locks, DraftInv, BuyDraft, SellDraft, ResetDraft,
       SellDebitMatches
  <1> QED
    BY <1>1, <1>2, <1>3, <1>4, <1>5, <1>6, <1>7, <1>8, <1>9, <1>10, <1>11, <1>12, <1>13,
       <1>14, <1>15, <1>16, <1>17, <1>18, <1>19, <1>20, <1>21, <1>22, <1>23, <1>24 DEF Next, Progress

-----------------------------------------------------------------------------
(* Theorems. *)

\* The inductive invariant holds before the first request.
LEMMA InitIInv == Init => IInv
  <1> SUFFICES ASSUME Init PROVE IInv
    OBVIOUS
  <1> USE DEF Init
  <1>1. TypeOK
    BY ValueAssumption DEF TypeOK, Step, NoCall, Call, NoDraft, Draft
  <1>2. LockInv
    BY NobodyAssumption DEF LockInv, HoldsBalance, HoldsPosition
  <1>3. CallInv
    BY DEF CallInv, BuySteps, SellSteps
  <1>4. WalletInv
    BY DEF WalletInv, BuySteps, SellSteps, ResetSteps
  <1>5. NoOverdraft /\ NoShortSelling
    BY DEF NoOverdraft, NoShortSelling
  <1>6. DraftInv
    BY DEF DraftInv, BuyDraft, SellDraft, ResetDraft
  <1> QED BY <1>1, <1>2, <1>3, <1>4, <1>5, <1>6 DEF IInv

\* Every step preserves the inductive invariant.
LEMMA StepIInv == IInv /\ [Next]_vars => IInv'
  BY TypeStep, LockStep, CallStep, WalletStep, OverdraftStep, ShortSellingStep,
     DraftStep DEF IInv

\* Locks, calls and drafts fit together in every reachable state.
THEOREM Invariance == Spec => []IInv
  BY InitIInv, StepIInv, PTL DEF Spec

\* Every variable keeps its type.
THEOREM TypeCorrectness == Spec => []TypeOK
  <1>1. IInv => TypeOK
    BY DEF IInv
  <1> QED BY <1>1, Invariance, PTL

\* However many orders race, the wallet is never overdrawn.
THEOREM Solvency == Spec => []NoOverdraft
  <1>1. IInv => NoOverdraft
    BY DEF IInv
  <1> QED BY <1>1, Invariance, PTL

\* However many sells race, no position is oversold.
THEOREM NoShort == Spec => []NoShortSelling
  <1>1. IInv => NoShortSelling
    BY DEF IInv
  <1> QED BY <1>1, Invariance, PTL

\* The lock on the balance row, taken by the debit, is what keeps the
\* position a buy read without a lock from changing until it is written back.
THEOREM FreshRead == Spec => []ReadStillCurrent
  <1>1. IInv => ReadStillCurrent
    BY DEF IInv, DraftInv, BuyDraft, ReadStillCurrent
  <1> QED BY <1>1, Invariance, PTL

\* The create branch of the sell's upsert is never taken.
THEOREM WalletFirst == Spec => []WalletOpenBeforeTrading
  <1>1. IInv => WalletOpenBeforeTrading
    BY DEF IInv, WalletInv, WalletOpenBeforeTrading, SellSteps, ResetSteps
  <1> QED BY <1>1, Invariance, PTL

-----------------------------------------------------------------------------
(* PaperTrading implements PaperLedger: the commit of a transaction is the *)
(* ledger's step, everything before it is a stutter.                       *)

\* Every step of the service is one step of the abstract ledger or none:
\* commits, rejections and the wallet's creation map to its actions.
LEMMA LedgerStep == IInv /\ [Next]_vars => [Ledger!Next]_(Ledger!ledgerVars)
  <1> SUFFICES ASSUME IInv, [Next]_vars PROVE [Ledger!Next]_(Ledger!ledgerVars)
    OBVIOUS
  <1> USE DEF IInv, TypeOK, Ledger!ledgerVars
  <1>1. ASSUME NEW r \in Requests, CreateWallet(r) PROVE [Ledger!Next]_(Ledger!ledgerVars)
    BY <1>1 DEF CreateWallet, Ledger!Next, Ledger!OpenWallet
  <1>2. ASSUME NEW r \in Requests, RecordRejected(r) PROVE Ledger!Next
    <2>1. /\ call[r].symbol \in Symbols /\ call[r].quantity \in Quantities
          /\ call[r].op \in {"buy", "sell"} /\ call[r].reason \in Ledger!Reasons
      BY <1>2 DEF RecordRejected, CallInv, IsOrder, OrderCall
    <2>2. Ledger!Reject(call[r].symbol, call[r].op, call[r].quantity, call[r].reason)
      BY <1>2 DEF RecordRejected, Record, WalletInv, Ledger!Reject
    <2> QED BY <2>1, <2>2 DEF Ledger!Next
  <1>3. ASSUME NEW r \in Requests, BuyCommit(r) PROVE Ledger!Next
    <2>1. /\ call[r].symbol \in Symbols /\ call[r].quantity \in Quantities
          /\ call[r].price \in Prices
      BY <1>3 DEF BuyCommit, CallInv, OrderCall, BuySteps
    <2>2. /\ balance # NoRow
          /\ Affordable(balance, call[r].quantity, call[r].price)
          /\ balance' = Debited(balance, call[r].quantity, call[r].price)
      BY <1>3 DEF BuyCommit, DraftInv, BuyDraft, WalletInv, BuySteps
    <2>3. position' = [position EXCEPT ![call[r].symbol] =
            Ledger!Increased(position[call[r].symbol], call[r].quantity, call[r].price)]
      BY <1>3 DEF BuyCommit, DraftInv, BuyDraft
    <2>4. orders' = Append(orders, Ledger!Trade(call[r].symbol, "buy", call[r].quantity,
                                                call[r].price))
      BY <1>3 DEF BuyCommit, Record
    <2>5. Ledger!Buy(call[r].symbol, call[r].quantity, call[r].price)
      BY <2>1, <2>2, <2>3, <2>4, SameMoney DEF Ledger!Buy
    <2> QED BY <2>1, <2>5 DEF Ledger!Next
  <1>4. ASSUME NEW r \in Requests, SellCommit(r) PROVE Ledger!Next
    <2>1. /\ call[r].symbol \in Symbols /\ call[r].quantity \in Quantities
          /\ call[r].price \in Prices
      BY <1>4 DEF SellCommit, CallInv, OrderCall, SellSteps
    <2>2. /\ balance # NoRow
          /\ balance' = Credited(balance, call[r].quantity, call[r].price)
      BY <1>4 DEF SellCommit, DraftInv, SellDraft, WalletInv, SellSteps
    <2>3. /\ position[call[r].symbol] # NoRow
          /\ position[call[r].symbol].quantity >= call[r].quantity
          /\ position' = [position EXCEPT ![call[r].symbol] =
                            Ledger!Decreased(position[call[r].symbol], call[r].quantity)]
      BY <1>4 DEF SellCommit, DraftInv, SellDraft, SellDebitMatches
    <2>4. orders' = Append(orders, Ledger!Trade(call[r].symbol, "sell", call[r].quantity,
                                                call[r].price))
      BY <1>4 DEF SellCommit, Record
    <2>5. Ledger!Sell(call[r].symbol, call[r].quantity, call[r].price)
      BY <2>1, <2>2, <2>3, <2>4, SameMoney DEF Ledger!Sell
    <2> QED BY <2>1, <2>5 DEF Ledger!Next
  <1>5. ASSUME NEW r \in Requests, ResetCommit(r) PROVE Ledger!Next
    <2>1. balance # NoRow /\ balance' = DefaultBalance
      BY <1>5 DEF ResetCommit, DraftInv, ResetDraft, WalletInv, ResetSteps
    <2>2. \A s \in Symbols : positionLock[s] = r \/ position[s] = NoRow
      BY <1>5 DEF ResetCommit, DraftInv, ResetDraft
    <2>3. position' = [s \in Symbols |-> NoRow]
      BY <1>5, <2>2 DEF ResetCommit
    <2>4. Ledger!Reset
      BY <1>5, <2>1, <2>3 DEF ResetCommit, Ledger!Reset
    <2> QED BY <2>4 DEF Ledger!Next
  <1>6. ASSUME NEW r \in Requests,
               \/ ReceiveOrder(r) \/ ReceiveWallet(r) \/ Refuse(r) \/ FindWallet(r)
               \/ GetTicker(r) \/ TickerUnavailable(r)
               \/ BuyDebit(r) \/ BuyDebitMisses(r) \/ BuyFind(r) \/ BuyUpsert(r)
               \/ SellDebit(r) \/ SellDebitMisses(r) \/ SellCredit(r)
               \/ ResetBalance(r) \/ ResetLockPosition(r) \/ ResetPositions(r)
               \/ DeadlockVictim(r) \/ Fault(r)
        PROVE  UNCHANGED Ledger!ledgerVars
    BY <1>6 DEF ReceiveOrder, ReceiveWallet, Refuse, Arrive, FindWallet, GetTicker,
       TickerUnavailable, BuyDebit,
         BuyDebitMisses, BuyFind, BuyUpsert, SellDebit, SellDebitMisses, SellCredit,
         ResetBalance, ResetLockPosition, ResetPositions, DeadlockVictim, Fault, rows
  <1>7. CASE Drained \/ UNCHANGED vars
    BY <1>7 DEF Drained, vars, rows
  <1> QED
    BY <1>1, <1>2, <1>3, <1>4, <1>5, <1>6, <1>7 DEF Next, Progress

\* Whatever requests interleave, deadlock or fail, the committed rows only
\* ever move by whole orders and whole resets, each computed from the rows
\* it found.
THEOREM Atomicity == Spec => AtomicLedger
  <1>1. Init => Ledger!Init
    BY DEF Init, Ledger!Init
  <1> QED BY <1>1, LedgerStep, Invariance, PTL DEF Spec, AtomicLedger, Ledger!Spec

-----------------------------------------------------------------------------
(* A fill never pays. *)

\* An order executes at a price the market quoted for its side, and its value
\* at that price is not below the minimum.
QuoteInv ==
    \A r \in Requests :
        /\ pc[r] \in BuySteps => call[r].op = "buy"
        /\ pc[r] \in SellSteps => call[r].op = "sell"
        /\ pc[r] \in BuySteps \cup SellSteps =>
              /\ Notional(call[r].quantity, call[r].price) >= Exact * MinNotionalUsdt
              /\ \E p \in TickerPrices : call[r].price = ExecutionPrice(call[r].op, p)

\* The price is set with the ticker and not touched before the order ends.
LEMMA QuoteStep == IInv /\ QuoteInv /\ [Next]_vars => QuoteInv'
  <1> SUFFICES ASSUME IInv, QuoteInv, [Next]_vars PROVE QuoteInv'
    OBVIOUS
  <1>0. TypeOK
    BY DEF IInv
  <1>1. ASSUME NEW r \in Requests, GetTicker(r) PROVE QuoteInv'
    <2>1. PICK p \in TickerPrices : LET price == ExecutionPrice(call[r].op, p) IN
            \/ /\ Goto(r, "getTicker", "recordRejected")
               /\ call' = [call EXCEPT ![r].reason = "BELOW_MIN_NOTIONAL"]
            \/ /\ ~(Notional(call[r].quantity, price) < Exact * MinNotionalUsdt)
               /\ Goto(r, "getTicker", IF call[r].op = "buy" THEN "buyDebit" ELSE "sellDebit")
               /\ call' = [call EXCEPT ![r].price = price]
      BY <1>1 DEF GetTicker
    <2>2. call[r].op \in {"buy", "sell"}
      BY <2>1 DEF Goto, IInv, CallInv, IsOrder
    <2>3. \A t \in Requests : t # r => call'[t] = call[t] /\ pc'[t] = pc[t]
      BY <1>0, <2>1 DEF Goto, TypeOK
    <2> DEFINE q == call[r].quantity
               e == ExecutionPrice(call[r].op, p)
    <2>4. Notional(q, e) \in Int /\ Exact * MinNotionalUsdt \in Int
      <3>1. q \in Nat /\ e \in Nat
        BY <1>0, ExecutionPriceNat, ValueAssumption DEF TypeOK, Call
      <3> HIDE DEF q, e
      <3> QED BY <3>1, ProductNat, ExactNat, BoundAssumption DEF Notional
    <2>5. \/ pc'[r] = "recordRejected"
          \/ /\ pc'[r] = IF call[r].op = "buy" THEN "buyDebit" ELSE "sellDebit"
             /\ call'[r].op = call[r].op
             /\ call'[r].quantity = q
             /\ call'[r].price = e
             /\ ~(Notional(q, e) < Exact * MinNotionalUsdt)
      BY <1>0, <2>1 DEF Goto, TypeOK, Call
    <2> HIDE DEF e, q
    <2>6. ~(Notional(q, e) < Exact * MinNotionalUsdt) => Notional(q, e) >= Exact * MinNotionalUsdt
      BY <2>4
    <2>7. call'[r].price = e => call'[r].price = ExecutionPrice(call[r].op, p)
      BY DEF e
    <2> QED BY <2>2, <2>3, <2>5, <2>6, <2>7 DEF QuoteInv, BuySteps, SellSteps
  <1>2. ASSUME NEW r \in Requests,
               \/ BuyDebit(r) \/ BuyFind(r) \/ BuyUpsert(r)
               \/ SellDebit(r) \/ SellCredit(r)
        PROVE  QuoteInv'
    <2>1. /\ call' = call
          /\ \A t \in Requests : t # r => pc'[t] = pc[t]
          /\ \/ pc[r] \in BuySteps /\ pc'[r] \in BuySteps
             \/ pc[r] \in SellSteps /\ pc'[r] \in SellSteps
      BY <1>0, <1>2 DEF BuyDebit, BuyFind, BuyUpsert, SellDebit, SellCredit, Goto, TypeOK,
         BuySteps, SellSteps
    <2> QED BY <2>1 DEF QuoteInv, BuySteps, SellSteps
  <1>3. ASSUME NEW r \in Requests,
               \A t \in Requests : t # r => call'[t] = call[t] /\ pc'[t] = pc[t],
               pc'[r] \notin BuySteps \cup SellSteps
        PROVE  QuoteInv'
    BY <1>3 DEF QuoteInv
  <1>4. ASSUME NEW r \in Requests, ReceiveOrder(r) \/ ReceiveWallet(r) \/ Refuse(r)
        PROVE  QuoteInv'
    BY <1>0, <1>3, <1>4 DEF ReceiveOrder, ReceiveWallet, Refuse, TypeOK, BuySteps, SellSteps
  <1>5. ASSUME NEW r \in Requests, FindWallet(r) \/ CreateWallet(r)
        PROVE  QuoteInv'
    BY <1>0, <1>3, <1>5 DEF FindWallet, CreateWallet, WithWallet, Unacknowledged, Finish,
       TypeOK, BuySteps, SellSteps
  <1>6. ASSUME NEW r \in Requests,
               TickerUnavailable(r) \/ BuyDebitMisses(r) \/ SellDebitMisses(r)
        PROVE  QuoteInv'
    BY <1>0, <1>3, <1>6 DEF TickerUnavailable, BuyDebitMisses, SellDebitMisses, Goto,
       TypeOK, BuySteps, SellSteps
  <1>7. ASSUME NEW r \in Requests,
               \/ RecordRejected(r) \/ BuyCommit(r) \/ SellCommit(r) \/ ResetCommit(r)
               \/ DeadlockVictim(r) \/ Fault(r)
        PROVE  QuoteInv'
    <2>1. PICK outcome \in {"rejected", "filled", "served", "deadlock", "fault"} :
             Finish(r, outcome)
      BY <1>7 DEF RecordRejected, BuyCommit, SellCommit, ResetCommit, DeadlockVictim, Fault,
         Unacknowledged
    <2> QED BY <1>0, <1>3, <2>1 DEF Finish, TypeOK, BuySteps, SellSteps
  <1>8. ASSUME NEW r \in Requests,
               ResetBalance(r) \/ ResetLockPosition(r) \/ ResetPositions(r)
        PROVE  QuoteInv'
    BY <1>0, <1>3, <1>8 DEF ResetBalance, ResetLockPosition, ResetPositions, Goto,
       TypeOK, BuySteps, SellSteps
  <1>9. CASE Drained \/ UNCHANGED vars
    BY <1>9 DEF Drained, vars, QuoteInv
  <1> QED BY <1>1, <1>2, <1>4, <1>5, <1>6, <1>7, <1>8, <1>9 DEF Next, Progress

\* The fee of an order that is not below the minimum, where the minimum and
\* the fee are large enough for it.
LEMMA FeeCovers ==
    ASSUME NEW q \in Nat, NEW e \in Nat, FeeCoversRounding,
           Notional(q, e) >= Exact * MinNotionalUsdt
    PROVE  2 * Fee(q, e) >= Exact
  <1> DEFINE n == q * e
             m == Exact * MinNotionalUsdt
             fm == FeePercent * MinNotionalUsdt
             f == FeePercent * n
             x == Exact * fm
  <1>1. /\ n \in Nat /\ m \in Nat /\ fm \in Nat /\ f \in Nat /\ x \in Nat
        /\ FeePercent \in Nat /\ Exact \in Nat
    BY ProductNat, ExactNat, PercentAssumption, BoundAssumption
  <1>2. 100 * n >= m
    BY DEF Notional
  <1>3. 2 * fm >= 100
    BY <1>1, BoundAssumption, PercentAssumption DEF FeeCoversRounding
  <1>4. FeePercent * m = x /\ FeePercent * (100 * n) = 100 * f
    BY <1>1, BoundAssumption
  <1>5. FeePercent * (100 * n) >= FeePercent * m
    <2> HIDE DEF n, m
    <2> QED BY <1>1, <1>2
  <1>6. Exact * (2 * fm) >= Exact * 100
    <2> HIDE DEF fm
    <2> QED BY <1>1, <1>3
  <1>7. Exact * (2 * fm) = 2 * x
    <2> HIDE DEF fm
    <2> QED BY <1>1
  <1>8. 100 * f >= x /\ 2 * x >= Exact * 100
    BY <1>4, <1>5, <1>6, <1>7
  <1> HIDE DEF f, x
  <1>9. 2 * f >= Exact
    BY <1>1, <1>8
  <1> QED BY <1>9 DEF Fee, f, n

\* Storing a balance moves it by at most half a stored unit.
LEMMA BalanceRounded ==
    ASSUME NEW a \in Int, NEW q \in Nat, NEW e \in Nat
    PROVE  /\ Exact * a \in Int /\ Exact * Debited(a, q, e) \in Int
           /\ 2 * (Exact * Debited(a, q, e)) <= 2 * (Exact * a - TotalCost(q, e)) + Exact
           /\ 2 * (Exact * a - TotalCost(q, e)) < 2 * (Exact * Debited(a, q, e)) + Exact
           /\ Exact * Credited(a, q, e) \in Int
           /\ 2 * (Exact * Credited(a, q, e)) <= 2 * (Exact * a + Proceeds(q, e)) + Exact
           /\ 2 * (Exact * a + Proceeds(q, e)) < 2 * (Exact * Credited(a, q, e)) + Exact
  <1> DEFINE ea == Exact * a
  <1>1. ea \in Int /\ TotalCost(q, e) \in Int /\ Proceeds(q, e) \in Int
    BY ExactNat, FeeNat
  <1> DEFINE debit == ea - TotalCost(q, e)
             credit == ea + Proceeds(q, e)
  <1>2. debit \in Int /\ credit \in Int
    <2> HIDE DEF ea
    <2> QED BY <1>1
  <1>3. Debited(a, q, e) = StoredQuotient(debit, Exact)
        /\ Credited(a, q, e) = StoredQuotient(credit, Exact)
    BY DEF Debited, Credited, Stored
  <1> HIDE DEF debit, credit
  <1>4. /\ Exact * StoredQuotient(debit, Exact) \in Int
        /\ 2 * (Exact * StoredQuotient(debit, Exact)) <= 2 * debit + Exact
        /\ 2 * debit < 2 * (Exact * StoredQuotient(debit, Exact)) + Exact
        /\ Exact * StoredQuotient(credit, Exact) \in Int
        /\ 2 * (Exact * StoredQuotient(credit, Exact)) <= 2 * credit + Exact
        /\ 2 * credit < 2 * (Exact * StoredQuotient(credit, Exact)) + Exact
    BY <1>2, ExactNat, QuotientHalf
  <1> QED BY <1>1, <1>3, <1>4 DEF debit, credit

\* What a fill gains at the quoted price p is at most what rounding its
\* balance can add, and nothing where the fee covers that.
LEMMA NeverPays ==
    ASSUME NEW a \in Int, NEW q \in Nat, NEW p \in Nat, NEW new \in Int, NEW side,
           Notional(q, ExecutionPrice(side, p)) >= Exact * MinNotionalUsdt,
           \/ side = "buy" /\ new = Debited(a, q, ExecutionPrice(side, p))
           \/ side = "sell" /\ new = Credited(a, q, ExecutionPrice(side, p))
    PROVE  LET moved == IF side = "buy" THEN q ELSE -q
               gain  == Exact * (new - a) + 10000 * (p * moved)
           IN  IF FeeCoversRounding THEN gain <= 0 ELSE 2 * gain <= Exact
  <1> DEFINE e == ExecutionPrice(side, p)
             w == p * q
             slip == w * SlippagePercent
             n == q * e
             f == Fee(q, e)
             ea == Exact * a
             en == Exact * new
             moved == IF side = "buy" THEN q ELSE -q
             gain == Exact * (new - a) + 10000 * (p * moved)
  <1>1. w \in Nat /\ slip \in Nat /\ SlippagePercent \in Nat
    BY PercentAssumption, ProductNat
  <1>2. e \in Nat /\ n \in Nat /\ f \in Nat /\ Exact \in Nat /\ ea \in Int /\ en \in Int
    <2>1. e \in Nat
      BY ExecutionPriceNat
    <2>2. Exact \in Nat /\ ea \in Int /\ en \in Int
      BY ExactNat
    <2> HIDE DEF e
    <2>3. n \in Nat /\ f \in Nat
      BY <2>1, ProductNat, FeeNat
    <2> QED BY <2>1, <2>2, <2>3
  <1>3. n = IF side = "buy" THEN 100 * w + slip ELSE 100 * w - slip
    BY <1>1 DEF ExecutionPrice
  <1>4. gain = en - ea + 10000 * (IF side = "buy" THEN w ELSE -w)
    <2>1. Exact * (new - a) = en - ea
      BY <1>2
    <2>2. p * moved = IF side = "buy" THEN w ELSE -w
      BY <1>1
    <2> QED BY <2>1, <2>2
  <1>5. CASE side = "buy"
    <2>1. 2 * en <= 2 * (ea - (100 * n + f)) + Exact
      BY <1>2, <1>5, BalanceRounded DEF TotalCost, Notional
    <2> HIDE DEF w, slip, n, f, ea, en, gain
    <2>2. 2 * gain + 2 * f <= Exact /\ gain \in Int
      BY <1>1, <1>2, <1>3, <1>4, <1>5, <2>1
    <2>3. FeeCoversRounding => 2 * f >= Exact
      BY <1>2, FeeCovers DEF f
    <2> QED BY <1>2, <2>2, <2>3 DEF gain
  <1>6. CASE side = "sell"
    <2>1. 2 * en <= 2 * (ea + (100 * n - f)) + Exact
      BY <1>2, <1>6, BalanceRounded DEF Proceeds, Notional
    <2> HIDE DEF w, slip, n, f, ea, en, gain
    <2>2. 2 * gain + 2 * f <= Exact /\ gain \in Int
      BY <1>1, <1>2, <1>3, <1>4, <1>6, <2>1
    <2>3. FeeCoversRounding => 2 * f >= Exact
      BY <1>2, FeeCovers DEF f
    <2> QED BY <1>2, <2>2, <2>3 DEF gain
  <1> QED BY <1>5, <1>6

\* A request is filled by its own commit only.
LEMMA FilledByCommit ==
    ASSUME IInv, [Next]_vars, NEW r \in Requests,
           pc[r] \in {"buyCommit", "sellCommit"}, pc'[r] = "filled"
    PROVE  BuyCommit(r) \/ SellCommit(r)
  <1>0. TypeOK
    BY DEF IInv
  <1>1. PICK t \in Requests : \/ ReceiveOrder(t) \/ ReceiveWallet(t) \/ Refuse(t)
                              \/ Progress(t) \/ Fault(t)
    BY DEF Next, Drained, vars
  <1>2. t # r => pc'[r] = pc[r]
    BY <1>0, <1>1 DEF Progress, ReceiveOrder, ReceiveWallet, Refuse, Fault, FindWallet,
       CreateWallet, WithWallet, GetTicker, TickerUnavailable, RecordRejected, BuyDebit,
       BuyDebitMisses, BuyFind, BuyUpsert, BuyCommit, SellDebit, SellDebitMisses, SellCredit,
       SellCommit, ResetBalance, ResetLockPosition, ResetPositions, ResetCommit,
       DeadlockVictim, Goto, Finish, Unacknowledged, TypeOK
  <1>3. t = r
    BY <1>2
  <1>4. ~(ReceiveOrder(r) \/ ReceiveWallet(r) \/ Refuse(r))
    BY DEF ReceiveOrder, ReceiveWallet, Refuse, Arrive, Ended, Resolved, Failed
  <1>5. ~Fault(r) /\ ~DeadlockVictim(r)
    BY <1>0 DEF Fault, DeadlockVictim, Finish, TypeOK
  <1> QED
    BY <1>1, <1>3, <1>4, <1>5
    DEF Progress, FindWallet, CreateWallet, GetTicker, TickerUnavailable, RecordRejected,
        BuyDebit, BuyDebitMisses, BuyFind, BuyUpsert, SellDebit, SellDebitMisses, SellCredit,
        ResetBalance, ResetLockPosition, ResetPositions, ResetCommit, Goto

\* What a commit writes is worth no more than what it replaces.
LEMMA FillStep ==
    ASSUME IInv, QuoteInv, [Next]_vars, NEW r \in Requests,
           pc[r] \in {"buyCommit", "sellCommit"}, pc'[r] = "filled"
    PROVE  \E p \in TickerPrices :
              /\ call[r].price = ExecutionPrice(call[r].op, p)
              /\ IF FeeCoversRounding THEN Gain(r, p) <= 0 ELSE 2 * Gain(r, p) <= Exact
  <1> DEFINE s == call[r].symbol
             q == call[r].quantity
             held == IF position[s] = NoRow THEN 0 ELSE position[s].quantity
  <1>0. TypeOK
    BY DEF IInv
  <1>1. PICK p \in TickerPrices : call[r].price = ExecutionPrice(call[r].op, p)
    BY DEF QuoteInv, BuySteps, SellSteps
  <1>2. p \in Nat
    BY ValueAssumption
  <1>3. s \in Symbols /\ q \in Nat
    BY QuantityNat DEF IInv, CallInv, OrderCall, BuySteps, SellSteps
  <1>4. balance \in Int
    BY <1>0 DEF IInv, WalletInv, BuySteps, SellSteps, TypeOK
  <1>5. position[s] \in Row \cup {NoRow} /\ NoRow \notin Row
    BY <1>0, <1>3, NoRowAssumption DEF TypeOK, Row
  <1>6. /\ position' = [position EXCEPT ![s] = draft[r].position]
        /\ balance' = draft[r].balance
    BY FilledByCommit DEF BuyCommit, SellCommit
  <1>7. position'[s] = draft[r].position
    BY <1>0, <1>3, <1>6 DEF TypeOK
  <1>8. held \in Int
    BY <1>5 DEF Row
  <1>9. Notional(q, ExecutionPrice(call[r].op, p)) >= Exact * MinNotionalUsdt
    BY <1>1 DEF QuoteInv, BuySteps, SellSteps
  <1>10. ExecutionPrice(call[r].op, p) \in Nat
    BY <1>2, ExecutionPriceNat
  <1>11. CASE pc[r] = "buyCommit"
    <2>1. call[r].op = "buy"
      BY <1>11 DEF QuoteInv, BuySteps
    <2>2. balance' = Debited(balance, q, ExecutionPrice("buy", p))
      BY <1>1, <1>6, <1>11, <2>1 DEF IInv, DraftInv, BuyDraft
    <2>3. draft[r].position = Ledger!Increased(position[s], q, call[r].price)
      BY <1>11 DEF IInv, DraftInv, BuyDraft
    <2>4. position'[s].quantity = held + q
      BY <1>3, <1>7, <1>8, <2>3 DEF Ledger!Increased
    <2>5. position'[s].quantity - held = q
      BY <1>3, <1>8, <2>4
    <2>6. balance' \in Int
      BY <1>3, <1>4, <1>10, <2>1, <2>2, DebitSolvent
    <2>7. Gain(r, p) = Exact * (balance' - balance) + 10000 * (p * q)
      BY <2>5 DEF Gain
    <2> QED BY <1>1, <1>2, <1>3, <1>4, <1>9, <2>1, <2>2, <2>6, <2>7, NeverPays
  <1>12. CASE pc[r] = "sellCommit"
    <2>1. call[r].op = "sell"
      BY <1>12 DEF QuoteInv, SellSteps
    <2>2. /\ balance' = Credited(balance, q, ExecutionPrice("sell", p))
          /\ position[s] # NoRow
          /\ draft[r].position = Ledger!Decreased(position[s], q)
      BY <1>1, <1>6, <1>12, <2>1 DEF IInv, DraftInv, SellDraft, SellDebitMatches
    <2>3. position'[s].quantity = held - q
      BY <1>5, <1>7, <2>2 DEF Ledger!Decreased, Row
    <2>4. position'[s].quantity - held = -q
      BY <1>3, <1>8, <2>3
    <2>5. balance' \in Int
      BY <1>3, <1>4, <1>10, <2>1, <2>2, CreditSolvent
    <2>6. Gain(r, p) = Exact * (balance' - balance) + 10000 * (p * (-q))
      BY <2>4 DEF Gain
    <2> QED BY <1>1, <1>2, <1>3, <1>4, <1>9, <2>1, <2>2, <2>5, <2>6, NeverPays
  <1> QED BY <1>11, <1>12

\* Whatever an order races with, its fill at the price it was quoted costs the
\* user: OrderService applies slippage and fee against both sides, and they
\* outweigh the rounding of the balance unless the fee can be too small to.
THEOREM FillsCost == Spec => FillsNeverPay
  <1>1. Init => QuoteInv
    BY DEF Init, QuoteInv, BuySteps, SellSteps
  <1>2. IInv /\ QuoteInv /\ [Next]_vars =>
          [\A r \in Requests : (pc[r] \in {"buyCommit", "sellCommit"} /\ pc'[r] = "filled") =>
             \E p \in TickerPrices :
                /\ call[r].price = ExecutionPrice(call[r].op, p)
                /\ IF FeeCoversRounding THEN Gain(r, p) <= 0
                                        ELSE 2 * Gain(r, p) <= Exact]_vars
    BY FillStep
  <1> QED BY <1>1, <1>2, QuoteStep, Invariance, PTL DEF Spec, FillsNeverPay

-----------------------------------------------------------------------------
(* The audit trail. *)

Moved(s) == [i \in 1..Len(SinceReset) |-> QuantityMoved(SinceReset[i], s)]
Cash     == [i \in 1..Len(SinceReset) |-> CashMoved(SinceReset[i])]
Slack    == [i \in 1..Len(SinceReset) |-> Rounding(SinceReset[i])]

\* How far the balance is from what the trades say, twice, in lots.
Drift == 2 * (LotsPerUnit * (balance - DefaultBalance) - Total(Cash))

\* What an order moves is an integer.
LEMMA OrderAmounts ==
    ASSUME NEW o \in Order
    PROVE  /\ CashMoved(o) \in Int /\ Rounding(o) \in Int
           /\ \A s : QuantityMoved(o, s) \in Int
  <1>1. o.quantity \in Int /\ o.price \in Int /\ o.fee \in Int
    BY QuantityNat DEF Order
  <1>2. o.quantity * o.price \in Int /\ LotsPerUnit * o.fee \in Int
    BY <1>1, ExactNat
  <1> QED BY <1>1, <1>2, ExactNat DEF CashMoved, Rounding, QuantityMoved

\* The orders since the reset are orders, and so are the amounts moved.
LEMMA SinceResetType ==
    ASSUME TypeOK
    PROVE  /\ SinceReset \in Seq(Order) /\ Len(SinceReset) = Len(orders) - resetAt
           /\ \A i \in 1..Len(SinceReset) : SinceReset[i] = orders[resetAt + i]
           /\ Cash \in Seq(Int) /\ Slack \in Seq(Int) /\ \A s : Moved(s) \in Seq(Int)
  <1>1. orders \in Seq(Order) /\ resetAt \in 0..Len(orders)
    BY DEF TypeOK
  <1>2. /\ SinceReset \in Seq(Order) /\ Len(SinceReset) = Len(orders) - resetAt
        /\ \A i \in 1..Len(SinceReset) : SinceReset[i] = orders[resetAt + i]
    BY <1>1 DEF SinceReset
  <1>3. \A i \in 1..Len(SinceReset) : SinceReset[i] \in Order
    BY <1>2
  <1>4. Len(SinceReset) \in Nat
    BY <1>2
  <1>5. /\ Cash \in [1..Len(SinceReset) -> Int] /\ Slack \in [1..Len(SinceReset) -> Int]
        /\ \A s : Moved(s) \in [1..Len(SinceReset) -> Int]
    BY <1>3, OrderAmounts DEF Cash, Slack, Moved
  <1>6. \A f \in [1..Len(SinceReset) -> Int] : f \in Seq(Int)
    BY <1>4
  <1>7. Cash \in Seq(Int) /\ Slack \in Seq(Int) /\ \A s : Moved(s) \in Seq(Int)
    BY <1>5, <1>6
  <1> QED BY <1>2, <1>7

\* A recorded order adds what it moves.
LEMMA OrderRecorded ==
    ASSUME TypeOK, TypeOK', NEW o \in Order, orders' = Append(orders, o), resetAt' = resetAt
    PROVE  /\ \A s : Total(Moved(s))' = Total(Moved(s)) + QuantityMoved(o, s)
           /\ Total(Cash)' = Total(Cash) + CashMoved(o)
           /\ Total(Slack)' = Total(Slack) + Rounding(o)
           /\ \A s : Paid(s)' = Paid(s) \cup
                 {e \in {o.price} : Filled(o) /\ o.symbol = s /\ o.side = "buy"}
  <1> DEFINE n == Len(SinceReset)
  <1>1. /\ SinceReset \in Seq(Order) /\ n = Len(orders) - resetAt
        /\ \A i \in 1..n : SinceReset[i] = orders[resetAt + i]
        /\ Cash \in Seq(Int) /\ Slack \in Seq(Int) /\ \A s : Moved(s) \in Seq(Int)
    BY SinceResetType
  <1>2. /\ SinceReset' \in Seq(Order) /\ Len(SinceReset') = Len(orders') - resetAt'
        /\ \A i \in 1..Len(SinceReset') : SinceReset'[i] = orders'[resetAt' + i]
        /\ Cash' \in Seq(Int) /\ Slack' \in Seq(Int) /\ \A s : Moved(s)' \in Seq(Int)
    <2>1. (/\ SinceReset \in Seq(Order) /\ Len(SinceReset) = Len(orders) - resetAt
           /\ \A i \in 1..Len(SinceReset) : SinceReset[i] = orders[resetAt + i]
           /\ Cash \in Seq(Int) /\ Slack \in Seq(Int) /\ \A s : Moved(s) \in Seq(Int))'
      BY SinceResetType, PTL
    <2> QED BY <2>1
  <1>3. orders \in Seq(Order) /\ resetAt \in 0..Len(orders) /\ n \in Nat
    BY <1>1 DEF TypeOK
  <1>4. Len(SinceReset') = n + 1
    BY <1>1, <1>2, <1>3
  <1>5. SinceReset'[n + 1] = o
    <2>1. Append(orders, o)[Len(orders) + 1] = o
      BY <1>3
    <2>2. n + 1 \in 1..(n + 1) /\ resetAt' + (n + 1) = Len(orders) + 1
      BY <1>1, <1>3
    <2> QED BY <1>2, <1>4, <2>1, <2>2
  <1>6. \A i \in 1..n : SinceReset'[i] = SinceReset[i]
    <2> SUFFICES ASSUME NEW i \in 1..n
                 PROVE  SinceReset'[i] = SinceReset[i]
      OBVIOUS
    <2>1. i \in 1..(n + 1) /\ resetAt + i \in 1..Len(orders)
      BY <1>1, <1>3
    <2>2. Append(orders, o)[resetAt + i] = orders[resetAt + i]
      BY <1>3, <2>1
    <2>3. SinceReset'[i] = Append(orders, o)[resetAt + i]
      BY <1>2, <1>4, <2>1
    <2> QED BY <1>1, <2>2, <2>3
  <1>7. Total(Cash)' = Total(Cash) + CashMoved(o)
    <2>1. Len(Cash) = n /\ Len(Cash') = n + 1
      BY <1>3, <1>4 DEF Cash
    <2>2. Cash'[n + 1] = CashMoved(o) /\ \A i \in 1..n : Cash'[i] = Cash[i]
      BY <1>3, <1>4, <1>5, <1>6 DEF Cash
    <2>3. CashMoved(o) \in Int /\ Cash \in Seq(Int) /\ Cash' \in Seq(Int)
      BY <1>1, <1>2, OrderAmounts
    <2>4. Total(Cash') = Total(Cash) + CashMoved(o)
      BY <2>1, <2>2, <2>3, TotalExtended
    <2> QED BY <2>4 DEF Total
  <1>8. Total(Slack)' = Total(Slack) + Rounding(o)
    <2>1. Len(Slack) = n /\ Len(Slack') = n + 1
      BY <1>3, <1>4 DEF Slack
    <2>2. Slack'[n + 1] = Rounding(o) /\ \A i \in 1..n : Slack'[i] = Slack[i]
      BY <1>3, <1>4, <1>5, <1>6 DEF Slack
    <2>3. Rounding(o) \in Int /\ Slack \in Seq(Int) /\ Slack' \in Seq(Int)
      BY <1>1, <1>2, OrderAmounts
    <2>4. Total(Slack') = Total(Slack) + Rounding(o)
      BY <2>1, <2>2, <2>3, TotalExtended
    <2> QED BY <2>4 DEF Total
  <1>9. ASSUME NEW s
        PROVE  Total(Moved(s))' = Total(Moved(s)) + QuantityMoved(o, s)
    <2>1. Len(Moved(s)) = n /\ Len(Moved(s)') = n + 1
      BY <1>3, <1>4 DEF Moved
    <2>2. /\ Moved(s)'[n + 1] = QuantityMoved(o, s)
          /\ \A i \in 1..n : Moved(s)'[i] = Moved(s)[i]
      BY <1>3, <1>4, <1>5, <1>6 DEF Moved
    <2>3. QuantityMoved(o, s) \in Int /\ Moved(s) \in Seq(Int) /\ Moved(s)' \in Seq(Int)
      BY <1>1, <1>2, OrderAmounts
    <2>4. Total(Moved(s)') = Total(Moved(s)) + QuantityMoved(o, s)
      BY <2>1, <2>2, <2>3, TotalExtended
    <2> QED BY <2>4 DEF Total
  <1>10. ASSUME NEW s
         PROVE  Paid(s)' = Paid(s) \cup
                   {e \in {o.price} : Filled(o) /\ o.symbol = s /\ o.side = "buy"}
    <2> DEFINE Bought(c) == Filled(c) /\ c.symbol = s /\ c.side = "buy"
    <2>1. Paid(s) = {SinceReset[i].price : i \in {j \in 1..n : Bought(SinceReset[j])}}
      BY DEF Paid
    <2>2. Paid(s)' = {SinceReset'[i].price : i \in {j \in 1..(n + 1) : Bought(SinceReset'[j])}}
      BY <1>4 DEF Paid, Filled
    <2>3. \A i \in 1..(n + 1) : i \in 1..n \/ i = n + 1
      BY <1>3
    <2>4. n + 1 \in 1..(n + 1) /\ \A i \in 1..n : i \in 1..(n + 1)
      BY <1>3
    <2> HIDE DEF Bought
    <2>5. ASSUME NEW e \in Paid(s)'
          PROVE  e \in Paid(s) \cup {c \in {o.price} : Bought(o)}
      BY <1>5, <1>6, <2>1, <2>2, <2>3
    <2>6. ASSUME NEW e \in Paid(s) \cup {c \in {o.price} : Bought(o)}
          PROVE  e \in Paid(s)'
      BY <1>5, <1>6, <2>1, <2>2, <2>4
    <2> QED BY <2>5, <2>6 DEF Bought
  <1> QED BY <1>7, <1>8, <1>9, <1>10

\* After a reset nothing has moved.
LEMMA TrailCleared ==
    ASSUME TypeOK, orders' = orders, resetAt' = Len(orders)
    PROVE  /\ \A s : Total(Moved(s))' = 0
           /\ Total(Cash)' = 0 /\ Total(Slack)' = 0
  <1>1. SinceReset' = <<>>
    BY DEF SinceReset, TypeOK
  <1>2. Cash' = <<>> /\ Slack' = <<>> /\ \A s : Moved(s)' = <<>>
    BY <1>1 DEF Cash, Slack, Moved
  <1>3. /\ \A s : Total(Moved(s)') = 0
        /\ Total(Cash') = 0 /\ Total(Slack') = 0
    BY <1>2, TotalInteger
  <1> QED BY <1>3 DEF Total

\* No order is recorded before the wallet is open.
AuditInv ==
    /\ balance = NoRow => orders = <<>>
    /\ HoldingsExplained
    /\ BalanceExplained
    /\ AverageWithinFills

\* What the audit compares, in the names of the proofs.
LEMMA AuditReads ==
    /\ HoldingsExplained <=>
          \A s \in Symbols :
             Total(Moved(s)) = IF position[s] = NoRow THEN 0 ELSE position[s].quantity
    /\ BalanceExplained <=>
          (balance # NoRow => -Total(Slack) <= Drift /\ Drift <= Total(Slack))
  BY DEF HoldingsExplained, BalanceExplained, Moved, Cash, Slack, Drift

\* What is rounded away when a fill is stored: balance, fee and price each by
\* at most half a unit.
LEMMA RoundingDrift ==
    ASSUME NEW a \in Int, NEW q \in Nat, NEW e \in Nat
    PROVE  LET paid  == q * StoredPrice(e)
               fee   == LotsPerUnit * Stored(Fee(q, e))
               debit == 2 * (LotsPerUnit * (Debited(a, q, e) - a) + paid + fee)
               gain  == 2 * (LotsPerUnit * (Credited(a, q, e) - a) - paid + fee)
               slack == 2 * LotsPerUnit + q
           IN  /\ -slack <= debit /\ debit <= slack
               /\ -slack <= gain /\ gain <= slack
  <1> DEFINE L == LotsPerUnit
             n == q * e
             f == Fee(q, e)
             paid == q * StoredPrice(e)
             fee == L * Stored(f)
             la == L * a
             ld == L * Debited(a, q, e)
             lc == L * Credited(a, q, e)
  <1>1. /\ L \in Nat /\ n \in Nat /\ f \in Nat
        /\ StoredPrice(e) \in Int /\ Stored(f) \in Int
        /\ Debited(a, q, e) \in Int /\ Credited(a, q, e) \in Int
    BY ExactNat, ProductNat, FeeNat, StoredNat, StoredPriceInt, DebitSolvent, CreditSolvent
  <1>2. la \in Int /\ ld \in Int /\ lc \in Int /\ paid \in Int /\ fee \in Int
    BY <1>1
  <1>3. /\ Exact = 10000 * L /\ Exact * a = 10000 * la
        /\ Exact * Debited(a, q, e) = 10000 * ld
        /\ Exact * Credited(a, q, e) = 10000 * lc
        /\ Exact * Stored(f) = 10000 * fee
    BY <1>1 DEF Exact
  <1>4. /\ L * (Debited(a, q, e) - a) = ld - la
        /\ L * (Credited(a, q, e) - a) = lc - la
    BY <1>1
  <1>5. 200 * paid <= 2 * n + 100 * q /\ 2 * n <= 200 * paid + 100 * q
    <2> DEFINE sp == StoredPrice(e)
    <2>1. sp \in Int /\ 2 * (100 * sp) <= 2 * e + 100 /\ 2 * e < 2 * (100 * sp) + 100
      BY QuotientHalf DEF StoredPrice
    <2> HIDE DEF sp
    <2>2. q * (200 * sp) <= q * (2 * e + 100) /\ q * (2 * e) <= q * (200 * sp + 100)
      BY <2>1
    <2>3. /\ q * (200 * sp) = 200 * (q * sp) /\ q * (2 * e + 100) = 2 * n + 100 * q
          /\ q * (2 * e) = 2 * n /\ q * (200 * sp + 100) = 200 * (q * sp) + 100 * q
      BY <2>1
    <2> QED BY <2>2, <2>3 DEF sp
  <1>6. 2 * (10000 * fee) <= 2 * f + 10000 * L /\ 2 * f < 2 * (10000 * fee) + 10000 * L
    <2>1. /\ 2 * (Exact * Stored(f)) <= 2 * f + Exact
          /\ 2 * f < 2 * (Exact * Stored(f)) + Exact
      <3> HIDE DEF f
      <3> QED BY <1>1, ExactNat, QuotientHalf DEF Stored
    <2> QED BY <1>3, <2>1
  <1>7. /\ 2 * (10000 * ld) <= 2 * (10000 * la - (100 * n + f)) + 10000 * L
        /\ 2 * (10000 * la - (100 * n + f)) < 2 * (10000 * ld) + 10000 * L
        /\ 2 * (10000 * lc) <= 2 * (10000 * la + (100 * n - f)) + 10000 * L
        /\ 2 * (10000 * la + (100 * n - f)) < 2 * (10000 * lc) + 10000 * L
    <2>1. TotalCost(q, e) = 100 * n + f /\ Proceeds(q, e) = 100 * n - f
      BY DEF TotalCost, Proceeds, Notional
    <2> QED BY <1>3, <2>1, BalanceRounded
  <1> HIDE DEF L, n, f, paid, fee, la, ld, lc
  <1>8. /\ -(2 * L + q) <= 2 * (ld - la + paid + fee)
        /\ 2 * (ld - la + paid + fee) <= 2 * L + q
    BY <1>1, <1>2, <1>5, <1>6, <1>7
  <1>9. /\ -(2 * L + q) <= 2 * (lc - la - paid + fee)
        /\ 2 * (lc - la - paid + fee) <= 2 * L + q
    BY <1>1, <1>2, <1>5, <1>6, <1>7
  <1> QED BY <1>4, <1>8, <1>9 DEF L, paid, fee, f

\* The rounded weighted average of a stored price and a price yet to be stored
\* lies between the two stored prices.
LEMMA AverageBetween ==
    ASSUME NEW row \in Row, row.quantity >= 0, NEW q \in Nat, q > 0, NEW e \in Nat,
           NEW lo \in Int, lo <= row.avgEntryPrice, lo <= StoredPrice(e),
           NEW hi \in Int, row.avgEntryPrice <= hi, StoredPrice(e) <= hi
    PROVE  lo <= AveragedEntry(row, q, e) /\ AveragedEntry(row, q, e) <= hi
  <1> DEFINE k == row.quantity
             v == row.avgEntryPrice
             n == 100 * (k * v) + q * e
             d == 100 * (k + q)
             dlo == d * lo
             dhi == d * hi
  <1>1. /\ k \in Nat /\ v \in Int /\ d \in Nat /\ d > 0 /\ n \in Int
        /\ dlo \in Int /\ dhi \in Int
    BY DEF Row
  <1>2. 2 * dlo - d <= 2 * n /\ 2 * n < 2 * dhi + d
    <2> DEFINE kv == k * v
               qe == q * e
               lk == k * lo
               lq == q * lo
               hk == k * hi
               hq == q * hi
    <2>1. lk <= kv /\ kv <= hk
      BY <1>1
    <2>2. 2 * e >= 200 * lo - 100 /\ 2 * e < 200 * hi + 100
      <3>1. /\ StoredPrice(e) \in Int
            /\ 2 * (100 * StoredPrice(e)) <= 2 * e + 100
            /\ 2 * e < 2 * (100 * StoredPrice(e)) + 100
        BY QuotientHalf DEF StoredPrice
      <3> QED BY <3>1
    <2>3. 2 * qe >= 200 * lq - 100 * q /\ 2 * qe < 200 * hq + 100 * q
      <3>1. q * (2 * e) >= q * (200 * lo - 100) /\ q * (2 * e) < q * (200 * hi + 100)
        BY <2>2
      <3>2. /\ q * (2 * e) = 2 * qe /\ q * (200 * lo - 100) = 200 * lq - 100 * q
            /\ q * (200 * hi + 100) = 200 * hq + 100 * q
        OBVIOUS
      <3> QED BY <3>1, <3>2
    <2>4. dlo = 100 * lk + 100 * lq /\ dhi = 100 * hk + 100 * hq
      BY <1>1
    <2>5. /\ kv \in Int /\ qe \in Int /\ lk \in Int /\ lq \in Int
          /\ hk \in Int /\ hq \in Int /\ n = 100 * kv + qe /\ d = 100 * k + 100 * q
      BY <1>1
    <2> HIDE DEF n, d, dlo, dhi, kv, qe, lk, lq, hk, hq, k
    <2> QED BY <1>1, <2>1, <2>3, <2>4, <2>5
  <1> DEFINE m == StoredQuotient(n, d)
             dm == d * m
  <1> HIDE DEF n, d
  <1>3. m \in Int /\ dm \in Int /\ 2 * dm <= 2 * n + d /\ 2 * n < 2 * dm + d
    BY <1>1, QuotientHalf
  <1> HIDE DEF m
  <1>4. dlo < dm + d /\ dm < dhi + d
    <2> HIDE DEF dlo, dhi, dm
    <2> QED BY <1>1, <1>2, <1>3
  <1>5. dm + d = d * (m + 1) /\ dhi + d = d * (hi + 1)
    BY <1>1, <1>3
  <1>6. lo < m + 1 /\ m < hi + 1
    BY <1>1, <1>3, <1>4, <1>5
  <1> QED BY <1>3, <1>6 DEF AveragedEntry, m, n, d

\* A recorded trade explains what it did to the wallet.
LEMMA TradeAudited ==
    ASSUME TypeOK, TypeOK', AuditInv, NoShortSelling, balance # NoRow, resetAt' = resetAt,
           NEW s \in Symbols, NEW q \in Quantities, NEW e \in Nat,
           NEW side \in {"buy", "sell"}, orders' = Append(orders, Ledger!Trade(s, side, q, e)),
           side = "buy" =>
              /\ balance' = Debited(balance, q, e)
              /\ position' = [position EXCEPT ![s] = Ledger!Increased(position[s], q, e)],
           side = "sell" =>
              /\ position[s] # NoRow
              /\ balance' = Credited(balance, q, e)
              /\ position' = [position EXCEPT ![s] = Ledger!Decreased(position[s], q)]
    PROVE  AuditInv'
  <1> DEFINE o == Ledger!Trade(s, side, q, e)
             moved == IF side = "buy" THEN q ELSE -q
             held(row) == IF row = NoRow THEN 0 ELSE row.quantity
  <1>1. q \in Nat /\ q > 0
    BY QuantityNat
  <1>2. /\ o \in Order /\ Filled(o) /\ o.symbol = s /\ o.side = side
        /\ o.quantity = q /\ o.price = StoredPrice(e) /\ o.fee = Stored(Fee(q, e))
    BY TradeType, SameMoney DEF Ledger!Trade, Filled
  <1> HIDE DEF o
  <1>3. /\ \A c : Total(Moved(c))' = Total(Moved(c)) + QuantityMoved(o, c)
        /\ Total(Cash)' = Total(Cash) + CashMoved(o)
        /\ Total(Slack)' = Total(Slack) + Rounding(o)
        /\ \A c : Paid(c)' = Paid(c) \cup
              {x \in {o.price} : Filled(o) /\ o.symbol = c /\ o.side = "buy"}
    BY <1>2, OrderRecorded DEF o
  <1>4. /\ position \in [Symbols -> Row \cup {NoRow}] /\ NoRow \notin Row
        /\ position' \in [Symbols -> Row \cup {NoRow}]
    BY NoRowAssumption DEF TypeOK, Row
  <1>5. \A c \in Symbols \ {s} : position'[c] = position[c]
    BY <1>4
  <1>6. position'[s] = IF side = "buy" THEN Ledger!Increased(position[s], q, e)
                                       ELSE Ledger!Decreased(position[s], q)
    BY <1>4
  <1>7. position'[s] \in Row
    <2>1. position[s] # NoRow => position[s].quantity >= 0
      BY DEF NoShortSelling
    <2>2. CASE side = "buy"
      <3>1. position[s] \in Row \cup {NoRow}
        BY <1>4
      <3>2. Ledger!Increased(position[s], q, e) \in Row
        BY <1>1, <2>1, <3>1, IncreasedRow
      <3> QED BY <1>6, <2>2, <3>2
    <2>3. CASE side = "sell"
      BY <1>1, <1>4, <1>6, <2>3, DecreasedRow
    <2> QED BY <2>2, <2>3
  <1>8. HoldingsExplained'
    <2>1. ASSUME NEW c \in Symbols
          PROVE  Total(Moved(c))' = held(position'[c])
      <3>1. Total(Moved(c)) = held(position[c])
        BY AuditReads DEF AuditInv
      <3>2. held(position[c]) \in Int
        BY <1>4 DEF Row
      <3>3. CASE c # s
        <4>1. QuantityMoved(o, c) = 0
          BY <1>2, <3>3 DEF QuantityMoved
        <4> QED BY <1>3, <1>5, <3>1, <3>2, <3>3, <4>1
      <3>4. CASE c = s
        <4>1. QuantityMoved(o, c) = moved
          BY <1>2, <3>4 DEF QuantityMoved
        <4>2. held(position'[c]) = held(position[c]) + moved
          <5>1. CASE side = "buy"
            BY <1>1, <1>4, <1>6, <1>7, <3>4, <5>1 DEF Ledger!Increased
          <5>2. CASE side = "sell"
            BY <1>1, <1>4, <1>6, <1>7, <3>4, <5>2 DEF Ledger!Decreased, Row
          <5> QED BY <5>1, <5>2
        <4> QED BY <1>3, <3>1, <4>1, <4>2
      <3> QED BY <3>3, <3>4
    <2> QED BY <2>1 DEF HoldingsExplained, Moved
  <1>9. BalanceExplained'
    <2> DEFINE L == LotsPerUnit
               cash == Total(Cash)
               slack == Total(Slack)
               fee == L * Stored(Fee(q, e))
               paid == q * StoredPrice(e)
               was == L * (balance - DefaultBalance)
               new == L * (balance' - DefaultBalance)
               gain == L * (balance' - balance)
               step == IF side = "buy" THEN -paid - fee ELSE paid - fee
    <2>1. balance \in Int /\ balance' \in Int /\ DefaultBalance \in Int /\ L \in Nat
      <3>1. balance \in Int /\ DefaultBalance \in Int
        BY ValueAssumption DEF TypeOK
      <3> QED BY <1>1, <3>1, ExactNat, DebitSolvent, CreditSolvent
    <2>2. cash \in Int /\ slack \in Int /\ fee \in Int /\ paid \in Int
      <3>1. cash \in Int /\ slack \in Int
        BY SinceResetType, TotalInteger
      <3>2. Stored(Fee(q, e)) \in Int /\ StoredPrice(e) \in Int
        <4>1. Fee(q, e) \in Int
          BY <1>1, FeeNat
        <4> QED BY <4>1, StoredNat, StoredPriceInt
      <3>3. fee \in Int /\ paid \in Int
        BY <1>1, <2>1, <3>2
      <3> QED BY <3>1, <3>3
    <2>3. was \in Int /\ gain \in Int /\ new = was + gain
      BY <2>1
    <2>4. -slack <= 2 * (was - cash) /\ 2 * (was - cash) <= slack
      BY AuditReads DEF AuditInv, Drift
    <2>5. CashMoved(o) = step /\ Rounding(o) = 2 * L + q
      BY <1>2 DEF CashMoved, Rounding
    <2>6. -(2 * L + q) <= 2 * (gain - step) /\ 2 * (gain - step) <= 2 * L + q
      <3>1. CASE side = "buy"
        <4>1. /\ -(2 * L + q) <= 2 * (gain + paid + fee)
              /\ 2 * (gain + paid + fee) <= 2 * L + q
          BY <1>1, <2>1, <3>1, RoundingDrift
        <4> HIDE DEF gain, paid, fee
        <4> QED BY <2>2, <2>3, <3>1, <4>1
      <3>2. CASE side = "sell"
        <4>1. /\ -(2 * L + q) <= 2 * (gain - paid + fee)
              /\ 2 * (gain - paid + fee) <= 2 * L + q
          BY <1>1, <2>1, <3>2, RoundingDrift
        <4> HIDE DEF gain, paid, fee
        <4> QED BY <2>2, <2>3, <3>2, <4>1
      <3> QED BY <3>1, <3>2
    <2>7. step \in Int
      BY <2>2
    <2> HIDE DEF cash, slack, fee, paid, was, new, gain, step
    <2>8. /\ -(slack + (2 * L + q)) <= 2 * (new - (cash + step))
          /\ 2 * (new - (cash + step)) <= slack + (2 * L + q)
      BY <1>1, <2>1, <2>2, <2>3, <2>4, <2>6, <2>7
    <2>9. /\ -(Total(Slack)') <= 2 * (LotsPerUnit * (balance' - DefaultBalance) - Total(Cash)')
          /\ 2 * (LotsPerUnit * (balance' - DefaultBalance) - Total(Cash)') <= Total(Slack)'
      BY <1>3, <2>5, <2>8 DEF cash, slack, new
    <2> QED BY <2>9 DEF BalanceExplained, Cash, Slack
  <1>10. AverageWithinFills'
    <2>1. ASSUME NEW c \in Symbols, position'[c] # NoRow
          PROVE  /\ \E x \in Paid(c)' : x <= position'[c].avgEntryPrice
                 /\ \E x \in Paid(c)' : position'[c].avgEntryPrice <= x
      <3>1. Paid(c) \subseteq Paid(c)'
        BY <1>3
      <3>2. position[c] # NoRow =>
               /\ \E x \in Paid(c) : x <= position[c].avgEntryPrice
               /\ \E x \in Paid(c) : position[c].avgEntryPrice <= x
        BY DEF AuditInv, AverageWithinFills
      <3>3. CASE c # s
        BY <1>5, <2>1, <3>1, <3>2, <3>3
      <3>4. CASE c = s /\ side = "sell"
        <4>1. position'[c].avgEntryPrice = position[c].avgEntryPrice /\ position[c] # NoRow
          BY <1>4, <1>6, <3>4 DEF Ledger!Decreased, Row
        <4> QED BY <3>1, <3>2, <4>1
      <3>5. CASE c = s /\ side = "buy"
        <4>1. StoredPrice(e) \in Paid(c)' /\ StoredPrice(e) \in Int
          BY <1>2, <1>3, <3>5, StoredPriceInt
        <4>2. CASE position[s] = NoRow
          <5>1. position'[c].avgEntryPrice = StoredPrice(e)
            BY <1>6, <3>5, <4>2, SameMoney DEF Ledger!Increased
          <5> QED BY <4>1, <5>1
        <4>3. CASE position[s] # NoRow
          <5>1. position'[c].avgEntryPrice = AveragedEntry(position[s], q, e)
            BY <1>6, <3>5, <4>3, SameMoney DEF Ledger!Increased
          <5>2. PICK low \in Paid(s), high \in Paid(s) :
                   low <= position[s].avgEntryPrice /\ position[s].avgEntryPrice <= high
            BY <3>2, <3>5, <4>3
          <5>3. low \in Int /\ high \in Int
            <6>1. \A i \in 1..Len(SinceReset) : SinceReset[i] \in Order
              BY SinceResetType
            <6>2. \A i \in 1..Len(SinceReset) : SinceReset[i].price \in Int
              BY <6>1 DEF Order
            <6> QED BY <6>2 DEF Paid
          <5>4. position[s] \in Row /\ position[s].quantity >= 0
            BY <1>4, <4>3 DEF NoShortSelling
          <5>5. position[s].avgEntryPrice \in Int
            BY <5>4 DEF Row
          <5> DEFINE sp == StoredPrice(e)
                     lo == IF low <= sp THEN low ELSE sp
                     hi == IF high <= sp THEN sp ELSE high
          <5>6. /\ lo \in Int /\ lo <= position[s].avgEntryPrice /\ lo <= sp
                /\ hi \in Int /\ position[s].avgEntryPrice <= hi /\ sp <= hi
            BY <4>1, <5>2, <5>3, <5>5
          <5>7. lo \in Paid(c)' /\ hi \in Paid(c)'
            BY <3>1, <3>5, <4>1
          <5> HIDE DEF lo, hi
          <5>8. lo <= AveragedEntry(position[s], q, e) /\ AveragedEntry(position[s], q, e) <= hi
            BY <1>1, <5>4, <5>6, AverageBetween
          <5> QED BY <5>1, <5>7, <5>8
        <4> QED BY <4>2, <4>3
      <3> QED BY <3>3, <3>4, <3>5
    <2> QED BY <2>1 DEF AverageWithinFills
  <1>11. (balance = NoRow => orders = <<>>)'
    <2>1. balance' \in Int
      BY <1>1, DebitSolvent, CreditSolvent DEF TypeOK
    <2> QED BY <2>1, NoRowAssumption
  <1> QED BY <1>8, <1>9, <1>10, <1>11 DEF AuditInv

\* Only what is committed, recorded or reset is in the audit, and it agrees.
LEMMA AuditStep == IInv /\ IInv' /\ AuditInv /\ [Next]_vars => AuditInv'
  <1> SUFFICES ASSUME IInv, IInv', AuditInv, [Next]_vars PROVE AuditInv'
    OBVIOUS
  <1>0. TypeOK /\ TypeOK' /\ NoShortSelling
    BY DEF IInv
  <1>1. ASSUME rows' = rows PROVE AuditInv'
    <2>1. balance' = balance /\ position' = position /\ orders' = orders /\ resetAt' = resetAt
      BY <1>1 DEF rows
    <2>2. SinceReset' = SinceReset
      BY <2>1 DEF SinceReset
    <2> QED BY <2>1, <2>2 DEF AuditInv, HoldingsExplained, BalanceExplained,
           AverageWithinFills, Paid
  <1>2. ASSUME NEW r \in Requests, CreateWallet(r) PROVE AuditInv'
    <2>1. CASE balance # NoRow
      <3>1. rows' = rows
        BY <1>2, <2>1 DEF CreateWallet, rows
      <3> QED BY <1>1, <3>1
    <2>2. CASE balance = NoRow
      <3>1. /\ balance' = DefaultBalance /\ orders = <<>>
            /\ UNCHANGED <<position, orders, resetAt>>
        BY <1>2, <2>2 DEF CreateWallet, AuditInv
      <3>2. SinceReset' = SinceReset /\ SinceReset = <<>>
        BY <1>0, <3>1 DEF SinceReset, TypeOK
      <3>3. HoldingsExplained' /\ AverageWithinFills'
        BY <3>1, <3>2 DEF AuditInv, HoldingsExplained, AverageWithinFills, Paid
      <3>4. Cash' = <<>> /\ Slack' = <<>>
        BY <3>2 DEF Cash, Slack
      <3>5. /\ -Total(Slack') <= 2 * (LotsPerUnit * (balance' - DefaultBalance) - Total(Cash'))
            /\ 2 * (LotsPerUnit * (balance' - DefaultBalance) - Total(Cash')) <= Total(Slack')
        BY <3>1, <3>4, TotalInteger, ValueAssumption, ExactNat
      <3>6. BalanceExplained'
        BY <3>5 DEF BalanceExplained, Cash, Slack
      <3> QED BY <3>1, <3>3, <3>6 DEF AuditInv
    <2> QED BY <2>1, <2>2
  <1>3. ASSUME NEW r \in Requests, RecordRejected(r) PROVE AuditInv'
    <2> DEFINE c == call[r]
               o == Ledger!Rejection(c.symbol, c.op, c.quantity, c.reason)
    <2>1. /\ orders' = Append(orders, o)
          /\ UNCHANGED <<balance, position, resetAt>>
      BY <1>3 DEF RecordRejected, Record
    <2>2. o \in Order /\ ~Filled(o)
      <3>1. c.op \in {"buy", "sell"} /\ OrderCall(c) /\ c.reason \in Ledger!Reasons
        BY <1>3 DEF IInv, CallInv, IsOrder, RecordRejected
      <3> QED BY <3>1 DEF Ledger!Rejection, Ledger!Reasons, Order, OrderCall, Filled
    <2> HIDE DEF o
    <2>3. CashMoved(o) = 0 /\ Rounding(o) = 0 /\ \A s : QuantityMoved(o, s) = 0
      BY <2>2 DEF CashMoved, Rounding, QuantityMoved
    <2>4. /\ \A s : Total(Moved(s))' = Total(Moved(s)) + QuantityMoved(o, s)
          /\ Total(Cash)' = Total(Cash) + CashMoved(o)
          /\ Total(Slack)' = Total(Slack) + Rounding(o)
          /\ \A s : Paid(s)' = Paid(s) \cup
                {e \in {o.price} : Filled(o) /\ o.symbol = s /\ o.side = "buy"}
      BY <1>0, <2>1, <2>2, OrderRecorded
    <2>5. Total(Cash) \in Int /\ Total(Slack) \in Int /\ \A s : Total(Moved(s)) \in Int
      BY <1>0, SinceResetType, TotalInteger
    <2>6. /\ Total(Cash)' = Total(Cash) /\ Total(Slack)' = Total(Slack)
          /\ \A s : Total(Moved(s))' = Total(Moved(s)) /\ Paid(s)' = Paid(s)
      <3>1. Total(Cash)' = Total(Cash) /\ Total(Slack)' = Total(Slack)
        BY <2>3, <2>4, <2>5
      <3>2. \A s : Total(Moved(s))' = Total(Moved(s))
        BY <2>3, <2>4, <2>5
      <3>3. \A s : Paid(s)' = Paid(s)
        BY <2>2, <2>4
      <3> QED BY <3>1, <3>2, <3>3
    <2>7. HoldingsExplained' /\ BalanceExplained'
      BY <2>1, <2>6 DEF AuditInv, HoldingsExplained, BalanceExplained, Moved, Cash, Slack
    <2>8. AverageWithinFills'
      BY <2>1, <2>6 DEF AuditInv, AverageWithinFills
    <2>9. balance # NoRow
      BY <1>3 DEF RecordRejected, IInv, WalletInv
    <2> QED BY <2>1, <2>7, <2>8, <2>9 DEF AuditInv
  <1>4. ASSUME NEW r \in Requests, BuyCommit(r) PROVE AuditInv'
    <2>1. /\ call[r].symbol \in Symbols /\ call[r].quantity \in Quantities
          /\ call[r].price \in Nat /\ balance # NoRow
      BY <1>4, PriceNat DEF BuyCommit, IInv, CallInv, WalletInv, OrderCall, BuySteps
    <2>2. /\ balance' = Debited(balance, call[r].quantity, call[r].price)
          /\ position' = [position EXCEPT ![call[r].symbol] =
                Ledger!Increased(position[call[r].symbol], call[r].quantity, call[r].price)]
          /\ orders' = Append(orders,
                Ledger!Trade(call[r].symbol, "buy", call[r].quantity, call[r].price))
          /\ resetAt' = resetAt
      BY <1>4 DEF BuyCommit, Record, IInv, DraftInv, BuyDraft
    <2> QED BY <1>0, <2>1, <2>2, TradeAudited
  <1>5. ASSUME NEW r \in Requests, SellCommit(r) PROVE AuditInv'
    <2>1. /\ call[r].symbol \in Symbols /\ call[r].quantity \in Quantities
          /\ call[r].price \in Nat /\ balance # NoRow
      BY <1>5, PriceNat DEF SellCommit, IInv, CallInv, WalletInv, OrderCall, SellSteps
    <2>2. /\ balance' = Credited(balance, call[r].quantity, call[r].price)
          /\ position[call[r].symbol] # NoRow
          /\ position' = [position EXCEPT ![call[r].symbol] =
                Ledger!Decreased(position[call[r].symbol], call[r].quantity)]
          /\ orders' = Append(orders,
                Ledger!Trade(call[r].symbol, "sell", call[r].quantity, call[r].price))
          /\ resetAt' = resetAt
      BY <1>5 DEF SellCommit, Record, IInv, DraftInv, SellDraft, SellDebitMatches
    <2> QED BY <1>0, <2>1, <2>2, TradeAudited
  <1>6. ASSUME NEW r \in Requests, ResetCommit(r) PROVE AuditInv'
    <2>1. /\ balance' = DefaultBalance /\ orders' = orders /\ resetAt' = Len(orders)
          /\ \A s \in Symbols : position'[s] = NoRow
      BY <1>6 DEF ResetCommit, IInv, DraftInv, ResetDraft
    <2>2. /\ \A s : Total(Moved(s))' = 0
          /\ Total(Cash)' = 0 /\ Total(Slack)' = 0
      BY <1>0, <2>1, TrailCleared
    <2>3. HoldingsExplained'
      BY <2>1, <2>2 DEF HoldingsExplained, Moved
    <2>4. BalanceExplained'
      <3>1. /\ -(Total(Slack)') <= 2 * (LotsPerUnit * (balance' - DefaultBalance) - Total(Cash)')
            /\ 2 * (LotsPerUnit * (balance' - DefaultBalance) - Total(Cash)') <= Total(Slack)'
        BY <2>1, <2>2, ValueAssumption, ExactNat
      <3> QED BY <3>1 DEF BalanceExplained, Cash, Slack
    <2>5. AverageWithinFills'
      BY <2>1 DEF AverageWithinFills
    <2>6. balance' # NoRow
      BY <2>1, ValueAssumption, NoRowAssumption
    <2> QED BY <2>3, <2>4, <2>5, <2>6 DEF AuditInv
  <1>7. ASSUME NEW r \in Requests,
               \/ ReceiveOrder(r) \/ ReceiveWallet(r) \/ Refuse(r) \/ FindWallet(r)
               \/ GetTicker(r) \/ TickerUnavailable(r)
               \/ BuyDebit(r) \/ BuyDebitMisses(r) \/ BuyFind(r) \/ BuyUpsert(r)
               \/ SellDebit(r) \/ SellDebitMisses(r) \/ SellCredit(r)
               \/ ResetBalance(r) \/ ResetLockPosition(r) \/ ResetPositions(r)
               \/ DeadlockVictim(r) \/ Fault(r)
        PROVE  AuditInv'
    <2>1. rows' = rows
      BY <1>7 DEF ReceiveOrder, ReceiveWallet, Refuse, Arrive, FindWallet, GetTicker,
         TickerUnavailable, BuyDebit, BuyDebitMisses, BuyFind, BuyUpsert, SellDebit,
         SellDebitMisses, SellCredit, ResetBalance, ResetLockPosition, ResetPositions,
         DeadlockVictim, Fault
    <2> QED BY <1>1, <2>1
  <1>8. CASE Drained \/ UNCHANGED vars
    <2>1. rows' = rows
      BY <1>8 DEF Drained, vars
    <2> QED BY <1>1, <2>1
  <1> QED BY <1>2, <1>3, <1>4, <1>5, <1>6, <1>7, <1>8 DEF Next, Progress

\* The wallet and its history agree from the start.
LEMMA AuditInit == Init => AuditInv
  <1> SUFFICES ASSUME Init PROVE AuditInv
    OBVIOUS
  <1>1. /\ balance = NoRow /\ orders = <<>> /\ \A s \in Symbols : position[s] = NoRow
        /\ resetAt = 0
    BY DEF Init
  <1>2. SinceReset = <<>>
    BY <1>1 DEF SinceReset
  <1>3. \A s \in Symbols : Moved(s) = <<>>
    BY <1>2 DEF Moved
  <1>4. HoldingsExplained
    BY <1>1, <1>3, TotalInteger DEF HoldingsExplained, Moved
  <1> QED BY <1>1, <1>4 DEF AuditInv, BalanceExplained, AverageWithinFills

\* The audit agrees with the wallet in every reachable state.
THEOREM AuditAgrees == Spec => []AuditInv
  BY AuditInit, AuditStep, Invariance, PTL DEF Spec

\* Every position is what the recorded trades since the reset add up to
\* (order.service.ts writes the row and the order in one transaction).
THEOREM Holdings == Spec => []HoldingsExplained
  <1>1. AuditInv => HoldingsExplained
    BY DEF AuditInv
  <1> QED BY <1>1, AuditAgrees, PTL

\* The balance is the default plus the recorded cash, and off it in either
\* direction by no more than half a stored unit each of balance, fee and price
\* per trade, whatever the fee, the lots and the prices.
THEOREM BalanceAudited == Spec => []BalanceExplained
  <1>1. AuditInv => BalanceExplained
    BY DEF AuditInv
  <1> QED BY <1>1, AuditAgrees, PTL

\* Rounding never moves the average entry price out of the prices paid.
THEOREM AverageAudited == Spec => []AverageWithinFills
  <1>1. AuditInv => AverageWithinFills
    BY DEF AuditInv
  <1> QED BY <1>1, AuditAgrees, PTL
=============================================================================

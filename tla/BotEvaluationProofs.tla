------------------------- MODULE BotEvaluationProofs -------------------------
(***************************************************************************)
(* BotEvaluation's properties, for any number of evaluations and bots, any *)
(* limits, prices and parameters of the strategy.                          *)
(***************************************************************************)
EXTENDS BotEvaluation, NaturalFacts

PastCheck == {"getCandles", "findPosition", "placeOrder"}

\* What an evaluation carries, by the call it awaits.
CallInv ==
    \A r \in Requests :
        /\ pc[r] \in InFlight => call[r].bot \in Bots
        /\ pc[r] \in {"findPosition", "placeOrder"} =>
              call[r].signal \in {"buy", "sell"} /\ call[r].price \in Closes

\* The buys decided on, per request.
Pending ==
    [r \in Requests |-> IF pc[r] = "placeOrder" /\ call[r].signal = "buy"
                          THEN call[r].quantity ELSE 0]

\* The buy fits under the bot's limit beside the position it was decided on;
\* that position is the present one unless it was touched.
LimitInv ==
    \A r \in Requests : pc[r] = "placeOrder" /\ call[r].signal = "buy" =>
        /\ call[r].quantity <= LargestOrder
        /\ ~touched[r] =>
              (quantity + call[r].quantity) * call[r].price <= maxPositionUsdt[call[r].bot]

\* The lots of all these buys, each told apart by its buyer.
LotsIn(buys) == {p \in Requests \X (1..LargestOrder) : p[2] <= buys[p[1]]}

\* The exposure is bounded together with the buys decided on.
ExposureInv ==
    quantity + Cardinality(LotsIn(Pending)) <= Cardinality(Requests) * LargestOrder + ownLots

\* The evaluations that found their bot active.
Past(b) == {r \in Requests : pc[r] \in PastCheck /\ call[r].bot = b}

LateInv ==
    \A b \in Bots :
        /\ status[b] = "active" => lateFills[b] = 0
        /\ lateFills[b] + Cardinality(Past(b)) <= Cardinality(Requests)

IInv ==
    /\ TypeOK
    /\ CallInv
    /\ LimitInv
    /\ ExposureInv
    /\ LateInv

\* The steps of one evaluation, and what happens beside the evaluations.
Own(r) == Receive(r) \/ Evaluate(r) \/ Fault(r)

Beside ==
    \/ \E b \in Bots : SetStatus(b) \/ DeleteBot(b)
    \/ OwnBuy \/ OwnSell \/ ResetWallet \/ NewCandle

-----------------------------------------------------------------------------
(* Lots. *)

\* The largest order is a number of lots, and no order that fits under a
\* limit at a price is larger.
LEMMA LargestFits ==
    /\ LargestOrder \in Nat
    /\ \A m \in Limits, p \in Closes, k \in Nat : k * p <= m => k <= LargestOrder
<1> DEFINE largest == CHOOSE m \in Limits : \A n \in Limits : n <= m
           lowest  == CHOOSE c \in Closes : \A n \in Closes : c <= n
<1>1. largest \in Limits /\ \A n \in Limits : n <= largest
  <2>1. \E m \in Limits : \A n \in Limits : n <= m
    BY EvaluationAssumption, GreatestOfFinite
  <2> QED BY <2>1
<1>2. lowest \in Closes /\ \A n \in Closes : lowest <= n
  <2>1. \E c \in Closes : \A n \in Closes : c <= n
    BY EvaluationAssumption, LeastNatural
  <2> QED BY <2>1
<1>3. LargestOrder = largest \div lowest
  BY DEF LargestOrder
<1> HIDE DEF largest, lowest
<1>4. largest \in Nat /\ lowest \in Nat \ {0}
  BY <1>1, <1>2, EvaluationAssumption
<1>5. LargestOrder \in Nat
  BY <1>3, <1>4, Division
<1>6. ASSUME NEW m \in Limits, NEW p \in Closes, NEW k \in Nat, k * p <= m
      PROVE  k <= LargestOrder
  <2>1. m \in Nat /\ p \in Nat /\ m <= largest /\ lowest <= p
    BY <1>1, <1>2, EvaluationAssumption
  <2>2. k * lowest <= k * p
    BY <1>4, <2>1, ProductGrows
  <2>3. k * lowest \in Nat /\ k * p \in Nat
    BY <1>4, <2>1
  <2>4. k * lowest <= largest
    BY <1>4, <1>6, <2>1, <2>2, <2>3
  <2> QED BY <1>3, <1>4, <2>4, Quotient
<1> QED BY <1>5, <1>6

\* The requests can be counted.
LEMMA RequestsFinite == IsFiniteSet(Requests) /\ Cardinality(Requests) \in Nat
BY EvaluationAssumption, FS_CardinalityType

\* What one request orders is counted apart from what the others order.
LEMMA LotsSplit ==
    ASSUME NEW f \in [Requests -> 0..LargestOrder], NEW r \in Requests
    PROVE  LET others == {p \in LotsIn(f) : p[1] # r} IN
           /\ Cardinality(others) \in Nat
           /\ Cardinality(LotsIn(f)) = Cardinality(others) + f[r]
           /\ Cardinality(others) + LargestOrder <= Cardinality(Requests) * LargestOrder
<1> DEFINE others == {p \in LotsIn(f) : p[1] # r}
           own == {r} \X (1..f[r])
<1>1. LotsIn(f) = others \cup own
  BY LargestFits DEF LotsIn
<1>2. others \cap own = {}
  OBVIOUS
<1>3. others \subseteq (Requests \ {r}) \X (1..LargestOrder)
  BY DEF LotsIn
<1>4. IsFiniteSet(own) /\ Cardinality(own) = f[r]
  <2>1. f[r] \in Nat
    BY LargestFits
  <2>2. IsFiniteSet(1..f[r]) /\ Cardinality(1..f[r]) = f[r]
    BY <2>1, FS_Interval
  <2>3. IsFiniteSet({r}) /\ Cardinality({r}) = 1
    BY FS_Singleton
  <2> QED BY <2>1, <2>2, <2>3, FS_Product
<1>5. /\ IsFiniteSet((Requests \ {r}) \X (1..LargestOrder))
      /\ Cardinality((Requests \ {r}) \X (1..LargestOrder)) + LargestOrder
            = Cardinality(Requests) * LargestOrder
  <2>1. IsFiniteSet(1..LargestOrder) /\ Cardinality(1..LargestOrder) = LargestOrder
    BY LargestFits, FS_Interval
  <2>2. IsFiniteSet(Requests \ {r}) /\ Cardinality(Requests \ {r}) = Cardinality(Requests) - 1
    BY RequestsFinite, FS_RemoveElement
  <2>3. /\ IsFiniteSet((Requests \ {r}) \X (1..LargestOrder))
        /\ Cardinality((Requests \ {r}) \X (1..LargestOrder))
              = Cardinality(Requests \ {r}) * Cardinality(1..LargestOrder)
    BY <2>1, <2>2, FS_Product
  <2>4. Cardinality(Requests \ {r}) * Cardinality(1..LargestOrder)
           = (Cardinality(Requests) - 1) * LargestOrder
    BY <2>1, <2>2
  <2>5. (Cardinality(Requests) - 1) * LargestOrder + LargestOrder
           = Cardinality(Requests) * LargestOrder
    BY RequestsFinite, LargestFits
  <2> QED BY <2>3, <2>4, <2>5
<1> HIDE DEF others, own
<1>6. /\ IsFiniteSet(others)
      /\ Cardinality(others) + LargestOrder <= Cardinality(Requests) * LargestOrder
  <2>1. IsFiniteSet(others)
           /\ Cardinality(others) <= Cardinality((Requests \ {r}) \X (1..LargestOrder))
    BY <1>3, <1>5, FS_Subset
  <2>2. Cardinality(others) \in Nat /\ Cardinality((Requests \ {r}) \X (1..LargestOrder)) \in Nat
    BY <1>5, <2>1, FS_CardinalityType
  <2>3. LargestOrder \in Nat
    BY LargestFits
  <2> QED BY <1>5, <2>1, <2>2, <2>3
<1>7. Cardinality(others) \in Nat
  BY <1>6, FS_CardinalityType
<1>8. Cardinality(LotsIn(f)) = Cardinality(others) + f[r]
  <2>1. Cardinality(others \cap own) = 0
    BY <1>2, FS_EmptySet
  <2>2. Cardinality(others \cup own)
           = Cardinality(others) + Cardinality(own) - Cardinality(others \cap own)
    BY <1>4, <1>6, FS_Union
  <2>3. f[r] \in Nat
    BY LargestFits
  <2> QED BY <1>1, <1>4, <1>7, <2>1, <2>2, <2>3
<1> QED BY <1>6, <1>7, <1>8 DEF others

\* Changing the order of one request changes the lots by the difference.
LEMMA LotsReplaced ==
    ASSUME NEW f \in [Requests -> 0..LargestOrder], NEW g \in [Requests -> 0..LargestOrder],
           NEW r \in Requests, \A q \in Requests \ {r} : g[q] = f[q]
    PROVE  /\ Cardinality(LotsIn(f)) \in Nat /\ Cardinality(LotsIn(g)) \in Nat
           /\ Cardinality(LotsIn(g)) + f[r] = Cardinality(LotsIn(f)) + g[r]
           /\ Cardinality(LotsIn(g)) + LargestOrder
                 <= Cardinality(Requests) * LargestOrder + g[r]
<1> DEFINE others(h) == {p \in LotsIn(h) : p[1] # r}
<1>1. others(f) = others(g)
  BY DEF LotsIn
<1> HIDE DEF others
<1>2. /\ Cardinality(others(f)) \in Nat
      /\ Cardinality(LotsIn(f)) = Cardinality(others(f)) + f[r]
      /\ Cardinality(others(f)) + LargestOrder <= Cardinality(Requests) * LargestOrder
  BY LotsSplit DEF others
<1>3. Cardinality(LotsIn(g)) = Cardinality(others(g)) + g[r]
  BY LotsSplit DEF others
<1>4. f[r] \in Nat /\ g[r] \in Nat /\ LargestOrder \in Nat
  BY LargestFits
<1>5. Cardinality(LotsIn(g)) = Cardinality(others(f)) + g[r]
  BY <1>1, <1>3
<1> DEFINE n == Cardinality(Requests) * LargestOrder
<1>6. n \in Nat
  BY RequestsFinite, LargestFits
<1>7. Cardinality(others(f)) + LargestOrder <= n
  BY <1>2
<1> HIDE DEF n
<1>8. Cardinality(LotsIn(g)) + LargestOrder <= n + g[r]
  BY <1>2, <1>4, <1>5, <1>6, <1>7
<1> QED BY <1>2, <1>4, <1>5, <1>8 DEF n

\* All together they never exceed one largest order per request.
LEMMA LotsBounded ==
    ASSUME NEW f \in [Requests -> 0..LargestOrder]
    PROVE  /\ Cardinality(LotsIn(f)) \in Nat
           /\ Cardinality(LotsIn(f)) <= Cardinality(Requests) * LargestOrder
<1>1. /\ IsFiniteSet(Requests \X (1..LargestOrder))
      /\ Cardinality(Requests \X (1..LargestOrder)) = Cardinality(Requests) * LargestOrder
  <2>1. IsFiniteSet(1..LargestOrder) /\ Cardinality(1..LargestOrder) = LargestOrder
    BY LargestFits, FS_Interval
  <2> QED BY <2>1, RequestsFinite, FS_Product
<1>2. LotsIn(f) \subseteq Requests \X (1..LargestOrder)
  BY DEF LotsIn
<1> QED BY <1>1, <1>2, FS_Subset, FS_CardinalityType

-----------------------------------------------------------------------------
\* The strengthening holds before the first evaluation.
LEMMA InitHolds == Init => IInv
<1> SUFFICES ASSUME Init
             PROVE  IInv
  OBVIOUS
<1>1. requiredCandleCount \in Nat
  BY ParametersAssumption DEF ValidParameters, requiredCandleCount
<1>2. TypeOK
  BY <1>1, EvaluationAssumption DEF Init, TypeOK, NoCall
<1>3. CallInv /\ LimitInv
  BY DEF Init, CallInv, LimitInv, InFlight
<1>4. ExposureInv
  <2>1. LotsIn(Pending) = {}
    BY DEF Init, LotsIn, Pending
  <2>2. Cardinality(Requests) * LargestOrder \in Nat
    BY RequestsFinite, LargestFits
  <2> QED BY <2>1, <2>2, FS_EmptySet DEF Init, ExposureInv
<1>5. LateInv
  <2>1. \A b \in Bots : Past(b) = {}
    BY DEF Init, Past, PastCheck
  <2>2. \A b \in Bots : Cardinality(Past(b)) = 0
    BY <2>1, FS_EmptySet
  <2>3. \A b \in Bots : lateFills[b] = 0
    BY DEF Init
  <2> QED BY <2>2, <2>3, RequestsFinite DEF LateInv
<1> QED BY <1>2, <1>3, <1>4, <1>5 DEF IInv

-----------------------------------------------------------------------------
\* Only the status of a bot that exists and is active lets an evaluation past
\* the check.
LEMMA GetBotEither ==
    ASSUME TypeOK, CallInv, NEW r \in Requests, GetBot(r)
    PROVE  /\ pc[r] = "getBot" /\ call[r].bot \in Bots
           /\ \/ /\ status[call[r].bot] = "active"
                 /\ pc' = [pc EXCEPT ![r] = "getCandles"] /\ call' = call
              \/ Answer(r, "notFound") \/ Answer(r, "badRequest")
           /\ UNCHANGED <<status, maxPositionUsdt, quantity, candles, touched, ownLots, lateFills>>
<1>1. pc[r] = "getBot" /\ call[r].bot \in Bots
  BY DEF GetBot, CallInv, InFlight
<1>2. status[call[r].bot] \in {"stopped", "active", "paused", "deleted"}
  BY <1>1 DEF TypeOK, BotStatus
<1>3. UNCHANGED <<status, maxPositionUsdt, quantity, candles, touched, ownLots, lateFills>>
  BY DEF GetBot, rows, aux
<1>4. CASE status[call[r].bot] = "deleted"
  BY <1>1, <1>3, <1>4 DEF GetBot
<1>5. CASE status[call[r].bot] \in {"stopped", "paused"}
  BY <1>1, <1>3, <1>5 DEF GetBot
<1>6. CASE status[call[r].bot] = "active"
  BY <1>1, <1>3, <1>6 DEF GetBot
<1> QED BY <1>2, <1>4, <1>5, <1>6

\* A step of an evaluation changes its own statement and arguments only.
LEMMA OneRequest ==
    ASSUME TypeOK, CallInv, NEW r \in Requests, Own(r)
    PROVE  \A q \in Requests \ {r} : pc'[q] = pc[q] /\ call'[q] = call[q]
<1> USE DEF TypeOK, Answer
<1>1. CASE Receive(r) \/ Fault(r)
  BY <1>1 DEF Receive, Fault
<1>2. CASE GetBot(r)
  BY <1>2, GetBotEither
<1>3. CASE CandlesUnavailable(r) \/ GetCandles(r)
  BY <1>3 DEF CandlesUnavailable, GetCandles
<1>4. CASE FindPosition(r)
  BY <1>4 DEF FindPosition
<1>5. CASE OrderRefused(r) \/ OrderRejected(r) \/ OrderFilled(r)
  BY <1>5 DEF OrderRefused, OrderRejected, OrderFilled
<1> QED BY <1>1, <1>2, <1>3, <1>4, <1>5 DEF Own, Evaluate

\* What a decision computes is a number of lots that fits.
LEMMA Decision ==
    ASSUME IInv, NEW r \in Requests, pc[r] = "findPosition", Approved(r),
           call[r].signal = "buy"
    PROVE  LET lots == Headroom(r) \div call[r].price IN
           /\ lots \in Nat
           /\ (quantity + lots) * call[r].price <= maxPositionUsdt[call[r].bot]
           /\ quantity + lots <= LargestOrder
<1> DEFINE p == call[r].price
           m == maxPositionUsdt[call[r].bot]
           h == Headroom(r)
           lots == h \div p
<1>1. /\ quantity \in Nat /\ p \in Closes /\ p \in Nat \ {0} /\ m \in Limits /\ m \in Nat
  BY EvaluationAssumption DEF IInv, TypeOK, CallInv, InFlight
<1>2. h = m - quantity * p /\ h > 0
  BY DEF Headroom, Approved
<1> HIDE DEF p, m, h
<1>3. quantity * p \in Nat
  BY <1>1
<1>4. h \in Nat
  BY <1>1, <1>2, <1>3
<1>5. lots \in Nat /\ p * lots <= h
  BY <1>1, <1>4, Division
<1> HIDE DEF lots
<1>6. (quantity + lots) * p = quantity * p + p * lots /\ p * lots \in Nat
  BY <1>1, <1>5
<1>7. (quantity + lots) * p <= m
  BY <1>1, <1>2, <1>3, <1>5, <1>6
<1>8. quantity + lots <= LargestOrder
  BY <1>1, <1>5, <1>7, LargestFits
<1> QED BY <1>5, <1>7, <1>8 DEF lots, h, p, m

\* An answer ends a request and drops its arguments.
LEMMA AnswerTypes ==
    ASSUME TypeOK, NEW r \in Requests, NEW answer \in Answers, Answer(r, answer)
    PROVE  /\ pc'[r] = answer /\ call'[r] = NoCall
           /\ pc' \in [Requests -> {"idle"} \cup InFlight \cup Answers]
           /\ call' \in [Requests -> [bot : Bots \cup {None}, signal : {"buy", "sell", "hold"},
                                     price : Closes \cup {0}, quantity : Nat]]
BY DEF TypeOK, Answer, NoCall

\* What an evaluation takes from the candles.
LEMMA CandleFacts ==
    ASSUME TypeOK, Len(candles) = requiredCandleCount
    PROVE  /\ candles[Len(candles)] \in Closes
           /\ Signal(candles) \in {"buy", "sell", "hold"}
<1>1. requiredCandleCount \in Nat \ {0}
  BY ParametersAssumption DEF ValidParameters, requiredCandleCount
<1>2. candles \in Seq(Closes)
  BY DEF TypeOK
<1>3. candles[Len(candles)] \in Closes
  BY <1>1, <1>2
<1> DEFINE rsi == computeRsi(candles)
           low == rsi.num < Oversold * rsi.den
           high == rsi.num > Overbought * rsi.den
<1>4. Signal(candles) = CASE low -> "buy" [] high -> "sell" [] OTHER -> "hold"
  BY DEF Signal
<1> HIDE DEF low, high
<1>5. Signal(candles) \in {"buy", "sell", "hold"}
  <2>1. CASE low /\ ~high
    BY <1>4, <2>1
  <2>2. CASE ~low /\ high
    BY <1>4, <2>2
  <2>3. CASE ~low /\ ~high
    BY <1>4, <2>3
  <2>4. CASE low /\ high
    BY <1>4, <2>4
  <2> QED BY <2>1, <2>2, <2>3, <2>4
<1> QED BY <1>3, <1>5

\* The types after a step of an evaluation.
LEMMA OwnTypes ==
    ASSUME IInv, NEW r \in Requests, Own(r)
    PROVE  TypeOK'
<1>0. TypeOK /\ CallInv
  BY DEF IInv
<1>1. CASE Receive(r)
  BY <1>0, <1>1 DEF TypeOK, Receive, NoCall, InFlight, rows, aux
<1>2. CASE Fault(r)
  <2>1. "serverError" \in Answers
    BY DEF Answers
  <2> QED BY <1>0, <1>2, <2>1, AnswerTypes DEF TypeOK, Fault, Forget, rows
<1>3. CASE GetBot(r)
  <2>1. "notFound" \in Answers /\ "badRequest" \in Answers
    BY DEF Answers
  <2>2. CASE pc' = [pc EXCEPT ![r] = "getCandles"] /\ call' = call
    BY <1>0, <1>3, <2>2, GetBotEither DEF TypeOK, InFlight
  <2>3. CASE Answer(r, "notFound") \/ Answer(r, "badRequest")
    BY <1>0, <1>3, <2>1, <2>3, GetBotEither, AnswerTypes DEF TypeOK
  <2> QED BY <1>0, <1>3, <2>2, <2>3, GetBotEither
<1>4. CASE CandlesUnavailable(r)
  <2>1. "ok" \in Answers
    BY DEF Answers
  <2> QED BY <1>0, <1>4, <2>1, AnswerTypes DEF TypeOK, CandlesUnavailable, rows, aux
<1>5. CASE GetCandles(r)
  <2>1. Len(candles) = requiredCandleCount /\ "ok" \in Answers /\ "findPosition" \in InFlight
    BY <1>5 DEF GetCandles, Answers, InFlight
  <2>2. CASE Signal(candles) = "hold"
    BY <1>0, <1>5, <2>1, <2>2, AnswerTypes DEF TypeOK, GetCandles, rows, aux
  <2>3. CASE Signal(candles) # "hold"
    <3> DEFINE signal == Signal(candles)
               price == candles[Len(candles)]
    <3>1. signal \in {"buy", "sell", "hold"} /\ price \in Closes
      BY <1>0, <2>1, CandleFacts
    <3>2. /\ pc' = [pc EXCEPT ![r] = "findPosition"]
          /\ call' = [call EXCEPT ![r].signal = signal, ![r].price = price]
          /\ UNCHANGED <<status, maxPositionUsdt, quantity, candles, touched, ownLots, lateFills>>
      BY <1>5, <2>3 DEF GetCandles, rows, aux
    <3> HIDE DEF signal, price
    <3> DEFINE Calls == [bot : Bots \cup {None}, signal : {"buy", "sell", "hold"},
                         price : Closes \cup {0}, quantity : Nat]
               signalled == [call EXCEPT ![r].signal = signal]
    <3>3. signalled \in [Requests -> Calls]
      BY <1>0, <3>1 DEF TypeOK
    <3>4. call' = [signalled EXCEPT ![r].price = price]
      BY <1>0, <3>2 DEF TypeOK
    <3> HIDE DEF signalled
    <3>5. call' \in [Requests -> Calls]
      BY <3>1, <3>3, <3>4
    <3> QED BY <1>0, <2>1, <3>2, <3>5 DEF TypeOK
  <2> QED BY <2>2, <2>3
<1>6. CASE FindPosition(r)
  <2>1. CASE ~Approved(r)
    <3>1. "ok" \in Answers
      BY DEF Answers
    <3> QED BY <1>0, <1>6, <2>1, <3>1, AnswerTypes DEF TypeOK, FindPosition, rows, aux
  <2>2. CASE Approved(r)
    <3> DEFINE lots == IF call[r].signal = "buy" THEN Headroom(r) \div call[r].price ELSE quantity
    <3>1. lots \in Nat
      BY <1>0, <1>6, <2>2, Decision DEF FindPosition, TypeOK
    <3>2. pc' = [pc EXCEPT ![r] = "placeOrder"] /\ call' = [call EXCEPT ![r].quantity = lots]
      BY <1>6, <2>2 DEF FindPosition
    <3> HIDE DEF lots
    <3> QED BY <1>0, <1>6, <3>1, <3>2 DEF TypeOK, FindPosition, InFlight, rows, aux
  <2> QED BY <2>1, <2>2
<1>7. CASE OrderRefused(r) \/ OrderRejected(r)
  <2>1. "ok" \in Answers /\ "badRequest" \in Answers
    BY DEF Answers
  <2> QED BY <1>0, <1>7, <2>1, AnswerTypes DEF TypeOK, OrderRefused, OrderRejected, Forget, rows
<1>8. CASE OrderFilled(r)
  <2>1. call[r].bot \in Bots /\ "ok" \in Answers
    BY <1>0, <1>8 DEF OrderFilled, CallInv, InFlight, Answers
  <2>2. quantity \in Nat /\ call[r].quantity \in Nat /\ ownLots \in 0..MaxOwnLots
    BY <1>0 DEF TypeOK
  <2>3. quantity' \in Nat /\ ownLots' \in 0..MaxOwnLots
    BY <1>8, <2>2, EvaluationAssumption DEF OrderFilled, Hold
  <2>4. touched' \in [Requests -> BOOLEAN]
    BY <1>0, <1>8 DEF OrderFilled, Hold, TypeOK
  <2>5. lateFills' \in [Bots -> Nat]
    BY <1>0, <1>8, <2>1 DEF OrderFilled, CountFill, TypeOK
  <2> QED BY <1>0, <1>8, <2>1, <2>3, <2>4, <2>5, AnswerTypes DEF OrderFilled, TypeOK
<1> QED BY <1>1, <1>2, <1>3, <1>4, <1>5, <1>6, <1>7, <1>8 DEF Own, Evaluate

\* The types after any other step.
LEMMA BesideTypes ==
    ASSUME IInv, Beside
    PROVE  TypeOK'
<1>0. TypeOK
  BY DEF IInv
<1> USE EvaluationAssumption DEF TypeOK, aux
<1>1. ASSUME NEW b \in Bots, SetStatus(b)
      PROVE  TypeOK'
  BY <1>0, <1>1 DEF SetStatus, BotStatus
<1>2. ASSUME NEW b \in Bots, DeleteBot(b)
      PROVE  TypeOK'
  BY <1>0, <1>2 DEF DeleteBot, BotStatus
<1>3. CASE OwnBuy \/ OwnSell \/ ResetWallet
  <2>1. UNCHANGED <<status, maxPositionUsdt, candles, pc, call, lateFills>>
    BY <1>3 DEF OwnBuy, OwnSell, ResetWallet
  <2>2. touched' \in [Requests -> BOOLEAN]
    BY <1>0, <1>3 DEF OwnBuy, OwnSell, ResetWallet, Hold
  <2>3. quantity' \in Nat /\ ownLots' \in 0..MaxOwnLots
    <3>1. quantity \in Nat /\ ownLots \in 0..MaxOwnLots /\ MaxOwnLots \in Nat
      BY <1>0
    <3>2. CASE OwnBuy
      BY <3>1, <3>2 DEF OwnBuy, Hold
    <3>3. CASE OwnSell
      BY <3>1, <3>3 DEF OwnSell, Hold
    <3>4. CASE ResetWallet
      BY <3>1, <3>4 DEF ResetWallet, Hold
    <3> QED BY <1>3, <3>2, <3>3, <3>4
  <2> QED BY <1>0, <2>1, <2>2, <2>3
<1>4. CASE NewCandle
  <2>1. requiredCandleCount \in Nat \ {0}
    BY ParametersAssumption DEF ValidParameters, requiredCandleCount
  <2>2. PICK c \in Closes :
          candles' = IF Len(candles) < requiredCandleCount THEN Append(candles, c)
                                                           ELSE Append(Tail(candles), c)
    BY <1>4 DEF NewCandle
  <2>3. candles' \in Seq(Closes) /\ Len(candles') <= requiredCandleCount
    <3>1. CASE Len(candles) < requiredCandleCount
      BY <1>0, <2>1, <2>2, <3>1
    <3>2. CASE ~(Len(candles) < requiredCandleCount)
      <4>1. candles # <<>>
        BY <1>0, <2>1, <3>2
      <4>2. Tail(candles) \in Seq(Closes) /\ Len(Tail(candles)) = Len(candles) - 1
        BY <1>0, <4>1
      <4> QED BY <1>0, <2>1, <2>2, <3>2, <4>2
    <3> QED BY <3>1, <3>2
  <2> QED BY <1>0, <1>4, <2>3 DEF NewCandle
<1> QED BY <1>1, <1>2, <1>3, <1>4 DEF Beside

\* An evaluation always carries what its next call needs.
LEMMA CallStep ==
    ASSUME IInv, NEW r \in Requests, Own(r)
    PROVE  CallInv'
<1>0. TypeOK /\ CallInv
  BY DEF IInv
<1>1. ASSUME NEW q \in Requests \ {r}
      PROVE  pc'[q] = pc[q] /\ call'[q] = call[q]
  BY <1>0, OneRequest
<1>2. /\ pc'[r] \in InFlight => call'[r].bot \in Bots
      /\ pc'[r] \in {"findPosition", "placeOrder"} =>
            call'[r].signal \in {"buy", "sell"} /\ call'[r].price \in Closes
  <2>0. \A answer \in Answers : answer \notin InFlight
    BY DEF Answers, InFlight
  <2>1. CASE \E answer \in Answers : Answer(r, answer)
    BY <1>0, <2>0, <2>1, AnswerTypes DEF InFlight
  <2>2. CASE Receive(r)
    BY <1>0, <2>2 DEF Receive, TypeOK
  <2>3. CASE GetCandles(r)
    <3>1. CASE Signal(candles) = "hold"
      BY <2>1, <2>3, <3>1 DEF GetCandles, Answers
    <3>2. CASE Signal(candles) # "hold"
      <4>1. /\ call'[r].bot = call[r].bot /\ call'[r].signal = Signal(candles)
            /\ call'[r].price = candles[Len(candles)]
        BY <1>0, <2>3, <3>2 DEF GetCandles, TypeOK
      <4>2. call[r].bot \in Bots
        BY <1>0, <2>3 DEF GetCandles, CallInv, InFlight
      <4> QED BY <1>0, <2>3, <3>2, <4>1, <4>2, CandleFacts DEF GetCandles
    <3> QED BY <3>1, <3>2
  <2>4. CASE FindPosition(r)
    <3>1. CASE ~Approved(r)
      BY <2>1, <2>4, <3>1 DEF FindPosition, Answers
    <3>2. CASE Approved(r)
      <4>1. /\ call'[r].bot = call[r].bot /\ call'[r].signal = call[r].signal
            /\ call'[r].price = call[r].price
        BY <1>0, <2>4, <3>2 DEF FindPosition, TypeOK
      <4> QED BY <1>0, <2>4, <4>1 DEF FindPosition, CallInv, InFlight
    <3> QED BY <3>1, <3>2
  <2>5. CASE GetBot(r)
    <3>1. CASE Answer(r, "notFound") \/ Answer(r, "badRequest")
      BY <2>1, <3>1 DEF Answers
    <3>2. CASE pc' = [pc EXCEPT ![r] = "getCandles"] /\ call' = call
      BY <1>0, <2>5, <3>2, GetBotEither DEF TypeOK
    <3> QED BY <1>0, <2>5, <3>1, <3>2, GetBotEither
  <2>6. CASE Fault(r) \/ CandlesUnavailable(r) \/ OrderRefused(r) \/ OrderRejected(r)
               \/ OrderFilled(r)
    BY <2>1, <2>6
    DEF Fault, CandlesUnavailable, OrderRefused, OrderRejected, OrderFilled, Answers
  <2> QED BY <2>2, <2>3, <2>4, <2>5, <2>6 DEF Own, Evaluate
<1> QED BY <1>0, <1>1, <1>2 DEF CallInv

\* Where the position changes, every decision made on it is marked.
LEMMA Touching ==
    ASSUME TypeOK, NEW r \in Requests, Own(r) \/ Beside, NEW q \in Requests,
           pc[q] = "placeOrder", pc'[q] = pc[q], ~touched'[q], Own(r) => q # r
    PROVE  quantity' = quantity /\ ~touched[q]
<1> USE DEF TypeOK, rows, aux
<1>1. CASE Receive(r) \/ GetBot(r) \/ CandlesUnavailable(r) \/ GetCandles(r) \/ FindPosition(r)
  BY <1>1 DEF Receive, GetBot, CandlesUnavailable, GetCandles, FindPosition
<1>2. CASE OrderRefused(r) \/ OrderRejected(r) \/ Fault(r)
  BY <1>2 DEF OrderRefused, OrderRejected, Fault, Forget, Own, Evaluate
<1>3. CASE OrderFilled(r)
  BY <1>3 DEF OrderFilled, Hold
<1>4. CASE Beside
  BY <1>4 DEF Beside, SetStatus, DeleteBot, OwnBuy, OwnSell, ResetWallet, NewCandle, Hold
<1> QED BY <1>1, <1>2, <1>3, <1>4 DEF Own, Evaluate

\* A bot's limit is never changed.
LEMMA LimitsStay ==
    ASSUME NEW r, Own(r) \/ Beside
    PROVE  maxPositionUsdt' = maxPositionUsdt
BY DEF Own, Evaluate, Beside, Receive, GetBot, CandlesUnavailable, GetCandles, FindPosition,
   OrderRefused, OrderRejected, OrderFilled, Fault, SetStatus, DeleteBot, OwnBuy, OwnSell,
   ResetWallet, NewCandle, rows

\* The decisions of the others stay within their limits or are marked.
LEMMA OthersLimits ==
    ASSUME IInv, NEW r \in Requests, Own(r) \/ Beside, NEW q \in Requests, Own(r) => q # r,
           pc'[q] = pc[q], call'[q] = call[q], pc[q] = "placeOrder", call[q].signal = "buy"
    PROVE  /\ call'[q].quantity <= LargestOrder
           /\ ~touched'[q] =>
                (quantity' + call'[q].quantity) * call'[q].price
                   <= maxPositionUsdt'[call'[q].bot]
<1>1. maxPositionUsdt' = maxPositionUsdt
  BY LimitsStay
<1>2. ~touched'[q] => quantity' = quantity /\ ~touched[q]
  BY Touching DEF IInv
<1> QED BY <1>1, <1>2 DEF IInv, LimitInv

\* A decision is made within the limit, and an order ends it.
LEMMA LimitStep ==
    ASSUME IInv, NEW r \in Requests, Own(r)
    PROVE  LimitInv'
<1>0. TypeOK /\ CallInv
  BY DEF IInv
<1>1. ASSUME NEW q \in Requests \ {r}, pc'[q] = "placeOrder", call'[q].signal = "buy"
      PROVE  /\ call'[q].quantity <= LargestOrder
             /\ ~touched'[q] =>
                  (quantity' + call'[q].quantity) * call'[q].price
                     <= maxPositionUsdt'[call'[q].bot]
  <2>1. pc'[q] = pc[q] /\ call'[q] = call[q]
    BY <1>0, OneRequest
  <2> QED BY <1>1, <2>1, OthersLimits
<1>2. ASSUME pc'[r] = "placeOrder", call'[r].signal = "buy"
      PROVE  /\ call'[r].quantity <= LargestOrder
             /\ (quantity' + call'[r].quantity) * call'[r].price
                   <= maxPositionUsdt'[call'[r].bot]
  <2>1. FindPosition(r) /\ Approved(r)
    <3>1. ~Receive(r) /\ ~GetBot(r)
      BY <1>0, <1>2, GetBotEither DEF Receive, Answer, TypeOK
    <3>2. ~GetCandles(r) /\ ~CandlesUnavailable(r) /\ ~Fault(r)
      BY <1>0, <1>2 DEF GetCandles, CandlesUnavailable, Fault, Answer, TypeOK
    <3>3. ~OrderRefused(r) /\ ~OrderRejected(r) /\ ~OrderFilled(r)
      BY <1>0, <1>2 DEF OrderRefused, OrderRejected, OrderFilled, Answer, TypeOK
    <3>4. FindPosition(r)
      BY <3>1, <3>2, <3>3 DEF Own, Evaluate
    <3> QED BY <1>0, <1>2, <3>4 DEF FindPosition, Answer, TypeOK
  <2>2. /\ pc[r] = "findPosition" /\ call[r].signal = "buy"
        /\ call'[r].price = call[r].price /\ call'[r].bot = call[r].bot
        /\ call'[r].quantity = Headroom(r) \div call[r].price
        /\ quantity' = quantity /\ maxPositionUsdt' = maxPositionUsdt
    BY <1>0, <1>2, <2>1 DEF FindPosition, TypeOK, rows
  <2>3. /\ call'[r].quantity \in Nat
        /\ (quantity + call'[r].quantity) * call[r].price <= maxPositionUsdt[call[r].bot]
        /\ quantity + call'[r].quantity <= LargestOrder
    BY <2>1, <2>2, Decision
  <2>4. quantity \in Nat
    BY <1>0 DEF TypeOK
  <2> QED BY <2>2, <2>3, <2>4, LargestFits
<1> QED BY <1>1, <1>2 DEF LimitInv

\* The buys decided on are orders of lots.
LEMMA PendingType ==
    ASSUME TypeOK, LimitInv
    PROVE  Pending \in [Requests -> 0..LargestOrder]
BY LargestFits DEF TypeOK, LimitInv, Pending

\* The same after a step.
LEMMA PendingTypeNext ==
    ASSUME TypeOK', LimitInv'
    PROVE  Pending' \in [Requests -> 0..LargestOrder]
BY LargestFits DEF TypeOK, LimitInv, Pending

\* An order of an evaluation moves lots from decided to held, drops them, or
\* adds what fits beside the position held.
LEMMA ExposureStep ==
    ASSUME IInv, NEW r \in Requests, Own(r), TypeOK', LimitInv'
    PROVE  ExposureInv'
<1> DEFINE n == Cardinality(Requests) * LargestOrder
           before == Cardinality(LotsIn(Pending))
           after == Cardinality(LotsIn(Pending'))
<1>0. TypeOK /\ CallInv /\ quantity \in Nat /\ ownLots \in Nat /\ quantity + before <= n + ownLots
  BY EvaluationAssumption DEF IInv, TypeOK, ExposureInv
<1>1. \A q \in Requests \ {r} : Pending'[q] = Pending[q]
  BY <1>0, OneRequest DEF Pending
<1>2. Pending[r] \in 0..LargestOrder /\ Pending'[r] \in 0..LargestOrder
  BY PendingType, PendingTypeNext DEF IInv
<1>3. /\ before \in Nat /\ after \in Nat /\ n \in Nat
      /\ after + Pending[r] = before + Pending'[r]
      /\ after + LargestOrder <= n + Pending'[r]
      /\ after <= n
  BY <1>1, PendingType, PendingTypeNext, LotsReplaced, LotsBounded, RequestsFinite, LargestFits
  DEF IInv
<1>4. ExposureInv' <=> quantity' + after <= n + ownLots'
  BY DEF ExposureInv
<1> HIDE DEF n, before, after
<1>5. CASE Receive(r) \/ GetBot(r) \/ CandlesUnavailable(r) \/ GetCandles(r)
  <2>1. Pending'[r] = 0 /\ quantity' = quantity /\ ownLots' = ownLots
    <3>1. CASE Receive(r) \/ CandlesUnavailable(r) \/ GetCandles(r)
      BY <1>0, <3>1
      DEF Receive, CandlesUnavailable, GetCandles, Answer, Pending, TypeOK, rows, aux
    <3>2. CASE GetBot(r)
      BY <1>0, <3>2, GetBotEither DEF Answer, Pending, TypeOK
    <3> QED BY <1>5, <3>1, <3>2
  <2> QED BY <1>0, <1>2, <1>3, <1>4, <2>1, LargestFits
<1>6. CASE OrderRefused(r) \/ OrderRejected(r) \/ Fault(r)
  <2>1. Pending'[r] = 0 /\ quantity' = quantity /\ ownLots' = ownLots
    BY <1>0, <1>6 DEF OrderRefused, OrderRejected, Fault, Answer, Pending, TypeOK, rows
  <2> QED BY <1>0, <1>2, <1>3, <1>4, <2>1, LargestFits
<1>7. CASE FindPosition(r)
  <2>1. quantity' = quantity /\ ownLots' = ownLots /\ Pending[r] = 0
    BY <1>7 DEF FindPosition, Pending, rows, aux
  <2>2. CASE Approved(r) /\ call[r].signal = "buy"
    <3>1. Pending'[r] = Headroom(r) \div call[r].price
      BY <1>0, <1>7, <2>2 DEF FindPosition, Pending, TypeOK
    <3>2. quantity + Pending'[r] <= LargestOrder
      BY <1>7, <2>2, <3>1, Decision DEF FindPosition
    <3> QED BY <1>0, <1>2, <1>3, <1>4, <2>1, <3>2, LargestFits
  <2>3. CASE ~(Approved(r) /\ call[r].signal = "buy")
    <3>1. Pending'[r] = 0
      BY <1>0, <1>7, <2>3 DEF FindPosition, Pending, TypeOK, Answer
    <3> QED BY <1>0, <1>2, <1>3, <1>4, <2>1, <3>1, LargestFits
  <2> QED BY <2>2, <2>3
<1>8. CASE OrderFilled(r)
  <2>1. Pending'[r] = 0 /\ call[r].quantity \in Nat
    BY <1>0, <1>8 DEF OrderFilled, Answer, Pending, TypeOK
  <2>2. CASE call[r].signal = "buy"
    <3>1. /\ Pending[r] = call[r].quantity /\ quantity' = quantity + call[r].quantity
          /\ ownLots' = ownLots
      BY <1>8, <2>2 DEF OrderFilled, Hold, Pending
    <3> QED BY <1>0, <1>2, <1>3, <1>4, <2>1, <3>1, LargestFits
  <2>3. CASE call[r].signal # "buy"
    <3>1. /\ quantity' = quantity - call[r].quantity /\ quantity' <= quantity
          /\ ownLots' = IF quantity' = 0 THEN 0 ELSE ownLots
      BY <1>0, <1>8, <2>1, <2>3 DEF OrderFilled, Hold
    <3> QED BY <1>0, <1>2, <1>3, <1>4, <2>1, <3>1, LargestFits
  <2> QED BY <2>2, <2>3
<1> QED BY <1>5, <1>6, <1>7, <1>8 DEF Own, Evaluate

\* The user's own trades keep the count, and an empty position restarts it.
LEMMA BesideExposure ==
    ASSUME IInv, Beside
    PROVE  ExposureInv'
<1> DEFINE n == Cardinality(Requests) * LargestOrder
           lots == Cardinality(LotsIn(Pending))
<1>1. Pending' = Pending
  BY DEF Beside, SetStatus, DeleteBot, OwnBuy, OwnSell, ResetWallet, NewCandle, Pending
<1>2. lots \in Nat /\ lots <= n /\ n \in Nat
  BY PendingType, LotsBounded, RequestsFinite, LargestFits DEF IInv
<1>3. quantity \in Nat /\ ownLots \in Nat /\ quantity + lots <= n + ownLots
  BY EvaluationAssumption DEF IInv, TypeOK, ExposureInv
<1>4. ExposureInv' <=> quantity' + lots <= n + ownLots'
  BY <1>1 DEF ExposureInv
<1> HIDE DEF n, lots
<1>5. \/ quantity' = quantity /\ ownLots' = ownLots
      \/ quantity' = quantity + 1 /\ ownLots' = ownLots + 1
      \/ quantity' = quantity - 1 /\ ownLots' = ownLots
      \/ quantity' = 0 /\ ownLots' = 0
  BY <1>3 DEF Beside, SetStatus, DeleteBot, OwnBuy, OwnSell, ResetWallet, NewCandle, Hold, aux
<1> QED BY <1>2, <1>3, <1>4, <1>5

-----------------------------------------------------------------------------
\* The evaluations past the check can be counted, before and after a step.
LEMMA PastFinite ==
    ASSUME NEW b
    PROVE  /\ IsFiniteSet(Past(b)) /\ Cardinality(Past(b)) \in Nat
           /\ IsFiniteSet(Past(b)') /\ Cardinality(Past(b)') \in Nat
           /\ Cardinality(Past(b)') <= Cardinality(Requests)
<1>1. Past(b) \subseteq Requests /\ Past(b)' \subseteq Requests
  BY DEF Past
<1> QED BY <1>1, RequestsFinite, FS_Subset, FS_CardinalityType

\* A fill after the bot was stopped takes one of the evaluations that were
\* past the check.
LEMMA LateStep ==
    ASSUME IInv, NEW r \in Requests, Own(r), NEW b \in Bots
    PROVE  /\ status'[b] = "active" => lateFills'[b] = 0
           /\ lateFills'[b] + Cardinality(Past(b)') <= Cardinality(Requests)
<1>0. /\ TypeOK /\ CallInv /\ status' = status /\ lateFills[b] \in Nat
      /\ status[b] = "active" => lateFills[b] = 0
      /\ lateFills[b] + Cardinality(Past(b)) <= Cardinality(Requests)
  BY DEF IInv, LateInv, TypeOK, Own, Evaluate, Receive, GetBot, CandlesUnavailable, GetCandles,
     FindPosition, OrderRefused, OrderRejected, OrderFilled, Fault, rows
<1>1. \A q \in Requests \ {r} : pc'[q] = pc[q] /\ call'[q] = call[q]
  BY <1>0, OneRequest
<1>2. CASE GetBot(r)
  <2>1. lateFills' = lateFills /\ call[r].bot \in Bots
    BY <1>2 DEF GetBot, aux, IInv, CallInv, InFlight
  <2>2. CASE status[b] = "active"
    BY <1>0, <2>1, <2>2, PastFinite, RequestsFinite
  <2>3. CASE status[b] # "active"
    <3>1. call[r].bot = b => pc'[r] \in Answers
      BY <1>0, <1>2, <2>3, GetBotEither DEF Answer, Answers, TypeOK
    <3>2. pc'[r] \notin Answers => call'[r] = call[r]
      BY <1>0, <1>2, GetBotEither DEF Answer, Answers, TypeOK
    <3>3. Past(b)' \subseteq Past(b)
      BY <1>1, <3>1, <3>2 DEF Past, PastCheck, Answers
    <3>4. Cardinality(Past(b)') <= Cardinality(Past(b))
      BY <3>3, PastFinite, FS_Subset
    <3> QED BY <1>0, <2>1, <2>3, <3>4, PastFinite, RequestsFinite
  <2> QED BY <2>2, <2>3
<1>3. CASE OrderFilled(r)
  <2>1. r \notin Past(b)'
    BY <1>0, <1>3 DEF OrderFilled, Answer, Past, PastCheck, TypeOK
  <2>2. Past(b)' = Past(b) \ {r}
    BY <1>1, <2>1 DEF Past
  <2>3. CASE call[r].bot = b
    <3>1. r \in Past(b)
      BY <1>3, <2>3 DEF OrderFilled, Past, PastCheck
    <3>2. Cardinality(Past(b)') = Cardinality(Past(b)) - 1
      BY <2>2, <3>1, PastFinite, FS_RemoveElement
    <3>3. lateFills'[b] = IF status[b] = "active" THEN 0 ELSE lateFills[b] + 1
      BY <1>0, <1>3, <2>3 DEF OrderFilled, CountFill, TypeOK
    <3> QED BY <1>0, <3>2, <3>3, PastFinite, RequestsFinite
  <2>4. CASE call[r].bot # b
    <3>1. lateFills'[b] = lateFills[b]
      BY <1>0, <1>3, <2>4 DEF OrderFilled, CountFill, TypeOK
    <3>2. Past(b)' \subseteq Past(b)
      BY <2>2
    <3>3. Cardinality(Past(b)') <= Cardinality(Past(b))
      BY <3>2, PastFinite, FS_Subset
    <3> QED BY <1>0, <3>1, <3>3, PastFinite, RequestsFinite
  <2> QED BY <2>3, <2>4
<1>4. CASE Receive(r) \/ Fault(r) \/ CandlesUnavailable(r) \/ GetCandles(r)
             \/ FindPosition(r) \/ OrderRefused(r) \/ OrderRejected(r)
  <2>1. lateFills' = lateFills
    BY <1>4 DEF Receive, Fault, CandlesUnavailable, GetCandles, FindPosition, OrderRefused,
       OrderRejected, aux
  <2>2. pc'[r] \in PastCheck => pc[r] \in PastCheck /\ call'[r].bot = call[r].bot
    BY <1>0, <1>4 DEF Receive, Fault, CandlesUnavailable, GetCandles, FindPosition,
       OrderRefused, OrderRejected, Answer, PastCheck, TypeOK
  <2>3. Past(b)' \subseteq Past(b)
    BY <1>1, <2>2 DEF Past
  <2>4. Cardinality(Past(b)') <= Cardinality(Past(b))
    BY <2>3, PastFinite, FS_Subset
  <2> QED BY <1>0, <2>1, <2>4, PastFinite, RequestsFinite
<1> QED BY <1>2, <1>3, <1>4 DEF Own, Evaluate

\* A bot that is started again starts counting again.
LEMMA BesideLate ==
    ASSUME IInv, Beside
    PROVE  LateInv'
<1> SUFFICES ASSUME NEW b \in Bots
             PROVE  /\ status'[b] = "active" => lateFills'[b] = 0
                    /\ lateFills'[b] + Cardinality(Past(b)) <= Cardinality(Requests)
  <2>1. pc' = pc /\ call' = call
    BY DEF Beside, SetStatus, DeleteBot, OwnBuy, OwnSell, ResetWallet, NewCandle
  <2>2. \A b \in Bots : Past(b)' = Past(b)
    BY <2>1 DEF Past
  <2> QED BY <2>2 DEF LateInv
<1>0. /\ TypeOK /\ lateFills[b] \in Nat
      /\ status[b] = "active" => lateFills[b] = 0
      /\ lateFills[b] + Cardinality(Past(b)) <= Cardinality(Requests)
  BY DEF IInv, LateInv, TypeOK
<1>1. CASE \E d \in Bots : SetStatus(d)
  <2>1. PICK d \in Bots : SetStatus(d)
    BY <1>1
  <2>2. /\ lateFills'[b] \in {0, lateFills[b]}
        /\ status'[b] = "active" => lateFills'[b] = 0
    BY <1>0, <2>1 DEF SetStatus, TypeOK
  <2> QED BY <1>0, <2>2, PastFinite, RequestsFinite
<1>2. CASE \E d \in Bots : DeleteBot(d)
  BY <1>0, <1>2 DEF DeleteBot, TypeOK, aux
<1>3. CASE OwnBuy \/ OwnSell \/ ResetWallet \/ NewCandle
  BY <1>0, <1>3 DEF OwnBuy, OwnSell, ResetWallet, NewCandle, aux
<1> QED BY <1>1, <1>2, <1>3 DEF Beside

\* What the others do leaves what evaluations carry, and marks their decisions.
LEMMA BesideCalls ==
    ASSUME IInv, Beside
    PROVE  CallInv' /\ LimitInv'
<1>1. pc' = pc /\ call' = call
  BY DEF Beside, SetStatus, DeleteBot, OwnBuy, OwnSell, ResetWallet, NewCandle
<1>2. CallInv'
  BY <1>1 DEF IInv, CallInv
<1>3. ASSUME NEW q \in Requests, pc'[q] = "placeOrder", call'[q].signal = "buy"
      PROVE  /\ call'[q].quantity <= LargestOrder
             /\ ~touched'[q] =>
                  (quantity' + call'[q].quantity) * call'[q].price
                     <= maxPositionUsdt'[call'[q].bot]
  <2>1. maxPositionUsdt' = maxPositionUsdt
    BY LimitsStay
  <2>2. ~touched'[q] => quantity' = quantity /\ ~touched[q]
    <3>1. CASE OwnBuy \/ OwnSell \/ ResetWallet
      <4>1. PICK held : Hold(held)
        BY <3>1 DEF OwnBuy, OwnSell, ResetWallet
      <4>2. touched'[q] = (touched[q] \/ held # quantity)
        BY <1>1, <1>3, <4>1 DEF Hold
      <4> QED BY <4>1, <4>2 DEF Hold
    <3>2. ASSUME NEW b \in Bots, SetStatus(b) \/ DeleteBot(b)
          PROVE  quantity' = quantity /\ touched' = touched
      BY <3>2 DEF SetStatus, DeleteBot, aux
    <3>3. CASE NewCandle
      BY <3>3 DEF NewCandle, aux
    <3> QED BY <3>1, <3>2, <3>3 DEF Beside
  <2> QED BY <1>1, <1>3, <2>1, <2>2 DEF IInv, LimitInv
<1> QED BY <1>2, <1>3 DEF LimitInv

\* Every step keeps the strengthening.
LEMMA NextHolds == IInv /\ [Next]_vars => IInv'
<1> SUFFICES ASSUME IInv, [Next]_vars
             PROVE  IInv'
  OBVIOUS
<1>1. ASSUME NEW r \in Requests, Own(r)
      PROVE  IInv'
  <2>1. TypeOK' /\ CallInv' /\ LimitInv'
    BY <1>1, OwnTypes, CallStep, LimitStep
  <2>2. ExposureInv'
    BY <1>1, <2>1, ExposureStep
  <2>3. LateInv'
    BY <1>1, LateStep DEF LateInv
  <2> QED BY <2>1, <2>2, <2>3 DEF IInv
<1>2. CASE Beside
  BY <1>2, BesideTypes, BesideCalls, BesideExposure, BesideLate DEF IInv
<1>3. CASE UNCHANGED vars
  <2>1. \A b \in Bots : Past(b)' = Past(b)
    BY <1>3 DEF vars, Past
  <2>2. Pending' = Pending
    BY <1>3 DEF vars, Pending
  <2> QED BY <1>3, <2>1, <2>2
      DEF vars, rows, aux, IInv, TypeOK, CallInv, LimitInv, ExposureInv, LateInv
<1> QED BY <1>1, <1>2, <1>3 DEF Next, Own, Beside

-----------------------------------------------------------------------------
\* Exposure and late fills are bounded together with what the evaluations in
\* flight may still add, in any interleaving of evaluations and other requests.
THEOREM EvaluationInvariance == Spec => []IInv
BY InitHolds, NextHolds, PTL DEF Spec

\* The rows and the calls of evaluations keep their types.
THEOREM EvaluationTypes == Spec => []TypeOK
<1>1. IInv => TypeOK
  BY DEF IInv
<1> QED BY <1>1, EvaluationInvariance, PTL

\* Evaluations that all read the position before any of them bought exceed
\* the risk limit, but by no more than one order each, over any time.
THEOREM ExposureLimited == Spec => []ExposureBounded
<1>1. IInv => ExposureBounded
  <2> SUFFICES ASSUME IInv
               PROVE  ExposureBounded
    OBVIOUS
  <2>1. /\ Cardinality(LotsIn(Pending)) \in Nat
        /\ Cardinality(Requests) * LargestOrder \in Nat
    BY PendingType, LotsBounded, RequestsFinite, LargestFits DEF IInv
  <2> QED BY <2>1, EvaluationAssumption DEF IInv, TypeOK, ExposureInv, ExposureBounded
<1> QED BY <1>1, EvaluationInvariance, PTL

\* After a bot is paused, stopped or deleted only the evaluations that found
\* it active before still trade for it.
THEOREM StoppedSettle == Spec => []StoppedBotsSettle
<1>1. IInv => StoppedBotsSettle
  BY PastFinite, RequestsFinite DEF IInv, TypeOK, LateInv, StoppedBotsSettle
<1> QED BY <1>1, EvaluationInvariance, PTL

\* A buy whose position nobody changed since the risk engine approved it ends
\* within the bot's maxPositionUsdt.
THEOREM LimitKept == Spec => LimitRespected
<1> DEFINE Within(r) ==
      pc[r] = "placeOrder" /\ pc'[r] # pc[r] /\ quantity' > quantity /\ ~touched[r]
         => quantity' * call[r].price <= maxPositionUsdt[call[r].bot]
<1>1. IInv /\ [Next]_vars => [\A r \in Requests : Within(r)]_vars
  <2> SUFFICES ASSUME IInv, Next, NEW r \in Requests, pc[r] = "placeOrder", pc'[r] # pc[r],
                      quantity' > quantity, ~touched[r]
               PROVE  quantity' * call[r].price <= maxPositionUsdt[call[r].bot]
    OBVIOUS
  <2>0. TypeOK /\ CallInv
    BY DEF IInv
  <2>1. Own(r)
    <3>1. ~Beside
      BY DEF Beside, SetStatus, DeleteBot, OwnBuy, OwnSell, ResetWallet, NewCandle
    <3>2. \A q \in Requests \ {r} : ~Own(q)
      BY <2>0, OneRequest
    <3> QED BY <3>1, <3>2 DEF Next, Own, Beside
  <2>2. OrderFilled(r) /\ call[r].signal = "buy" /\ quantity' = quantity + call[r].quantity
    <3>1. quantity \in Nat /\ call[r].quantity \in Nat
      BY <2>0 DEF TypeOK
    <3> QED BY <2>1, <3>1 DEF Own, Evaluate, Receive, GetBot, CandlesUnavailable, GetCandles,
        FindPosition, OrderRefused, OrderRejected, OrderFilled, Fault, rows, Hold
  <2> QED BY <2>2 DEF IInv, LimitInv
<1> QED BY <1>1, EvaluationInvariance, PTL DEF Spec, LimitRespected

-----------------------------------------------------------------------------
(* The index. *)

\* Of Period + 1 closes, the gains less the losses are the net change, and
\* together they are the path the closes travelled.
LEMMA GainsAndLosses ==
    ASSUME NEW w \in Seq(Closes), Len(w) = Period + 1
    PROVE  LET step(i) == IF w[i + 1] > w[i] THEN w[i + 1] - w[i] ELSE w[i] - w[i + 1]
               path == Total([i \in 1..Period |-> step(i)])
           IN  /\ GainSum(w) \in Nat /\ LossSum(w) \in Nat
               /\ GainSum(w) - LossSum(w) = w[Len(w)] - w[1]
               /\ GainSum(w) + LossSum(w) = path
<1> DEFINE n == Period
           up == [i \in 1..Len(w) |->
                    IF i \in Moves(w) /\ Delta(w, i) >= 0 THEN Delta(w, i) ELSE 0]
           down == [i \in 1..Len(w) |->
                      IF i \in Moves(w) /\ Delta(w, i) < 0 THEN -Delta(w, i) ELSE 0]
           step(i) == IF w[i + 1] > w[i] THEN w[i + 1] - w[i] ELSE w[i] - w[i + 1]
           steps == [i \in 1..Period |-> step(i)]
<1>1. n \in Nat /\ Len(w) = n + 1
  BY ParametersAssumption DEF ValidParameters
<1>2. \A i \in 1..(n + 1) : w[i] \in Int
  <2>1. \A i \in 1..Len(w) : w[i] \in Closes
    OBVIOUS
  <2>2. Closes \subseteq Int
    BY EvaluationAssumption
  <2> QED BY <1>1, <2>1, <2>2
<1>3. GainSum(w) = Total(up) /\ LossSum(w) = Total(down)
  BY DEF GainSum, LossSum
<1>4. /\ up[1] = 0 /\ down[1] = 0
      /\ \A i \in 1..n :
            /\ up[i + 1] = IF w[i + 1] >= w[i] THEN w[i + 1] - w[i] ELSE 0
            /\ down[i + 1] = IF w[i + 1] < w[i] THEN w[i] - w[i + 1] ELSE 0
            /\ steps[i] = IF w[i + 1] > w[i] THEN w[i + 1] - w[i] ELSE w[i] - w[i + 1]
  <2>1. 1 \in 1..Len(w) /\ 1 \notin Moves(w)
    BY <1>1 DEF Moves
  <2>2. ASSUME NEW i \in 1..n
        PROVE  /\ i + 1 \in 1..Len(w) /\ i + 1 \in Moves(w)
               /\ (i + 1) - 1 = i
               /\ w[i] \in Int /\ w[i + 1] \in Int
    BY <1>1, <1>2 DEF Moves
  <2>3. up[1] = 0 /\ down[1] = 0
    BY <2>1
  <2>4. ASSUME NEW i \in 1..n
        PROVE  /\ up[i + 1] = IF w[i + 1] >= w[i] THEN w[i + 1] - w[i] ELSE 0
               /\ down[i + 1] = IF w[i + 1] < w[i] THEN w[i] - w[i + 1] ELSE 0
    <3>1. Delta(w, i + 1) = w[i + 1] - w[i]
      BY <2>2 DEF Delta
    <3> QED BY <2>2, <3>1
  <2> QED BY <2>3, <2>4
<1>5. /\ up \in Seq(Int) /\ Len(up) = n + 1
      /\ down \in Seq(Int) /\ Len(down) = n + 1
      /\ steps \in Seq(Int) /\ Len(steps) = n
  <2>1. ASSUME NEW i \in 1..(n + 1)
        PROVE  up[i] \in Int /\ down[i] \in Int
    <3>1. CASE i = 1
      BY <1>4, <3>1
    <3>2. CASE i # 1
      <4>1. i - 1 \in 1..n /\ (i - 1) + 1 = i
        BY <1>1, <3>2
      <4>2. w[i] \in Int /\ w[i - 1] \in Int
        BY <1>1, <1>2, <4>1
      <4> HIDE DEF up, down, steps
      <4> QED BY <1>4, <4>1, <4>2
    <3> QED BY <3>1, <3>2
  <2>2. ASSUME NEW i \in 1..n
        PROVE  steps[i] \in Int
    <3>1. w[i] \in Int /\ w[i + 1] \in Int
      BY <1>1, <1>2
    <3> QED BY <3>1
  <2>3. up = [i \in 1..(n + 1) |-> up[i]] /\ down = [i \in 1..(n + 1) |-> down[i]]
    BY <1>1
  <2>4. steps = [i \in 1..n |-> steps[i]]
    OBVIOUS
  <2>5. \A f, m : m \in Nat /\ f = [i \in 1..m |-> f[i]] /\ (\A i \in 1..m : f[i] \in Int)
                 => f \in Seq(Int) /\ Len(f) = m
    OBVIOUS
  <2> HIDE DEF n, up, down, steps
  <2>6. n + 1 \in Nat
    BY <1>1
  <2>7. up \in Seq(Int) /\ Len(up) = n + 1
    BY <2>1, <2>3, <2>5, <2>6, Zenon
  <2>8. down \in Seq(Int) /\ Len(down) = n + 1
    BY <2>1, <2>3, <2>5, <2>6, Zenon
  <2>9. steps \in Seq(Int) /\ Len(steps) = n
    BY <1>1, <2>2, <2>4, <2>5, Zenon
  <2> QED BY <2>7, <2>8, <2>9
<1>6. w[Len(w)] = w[n + 1] /\ Total([i \in 1..Period |-> step(i)]) = Total(steps)
  BY <1>1
<1> HIDE DEF n, up, down, steps
<1>7. PICK g \in [0..Len(up) -> Int] :
         g[0] = 0 /\ (\A i \in 1..Len(up) : g[i] = g[i - 1] + up[i]) /\ Total(up) = g[Len(up)]
  BY <1>5, TotalSteps
<1>8. PICK l \in [0..Len(down) -> Int] :
         l[0] = 0 /\ (\A i \in 1..Len(down) : l[i] = l[i - 1] + down[i])
         /\ Total(down) = l[Len(down)]
  BY <1>5, TotalSteps
<1>9. PICK p \in [0..Len(steps) -> Int] :
         p[0] = 0 /\ (\A i \in 1..Len(steps) : p[i] = p[i - 1] + steps[i])
         /\ Total(steps) = p[Len(steps)]
  BY <1>5, TotalSteps
<1> DEFINE T == {m \in Nat : m <= n =>
                   /\ g[m + 1] \in Nat /\ l[m + 1] \in Nat
                   /\ g[m + 1] - l[m + 1] = w[m + 1] - w[1]
                   /\ g[m + 1] + l[m + 1] = p[m]}
<1>10. 0 \in T
  <2>1. 1 \in 1..(n + 1) /\ 1 - 1 = 0
    BY <1>1
  <2>2. g[1] = g[0] + up[1] /\ l[1] = l[0] + down[1]
    BY <1>5, <1>7, <1>8, <2>1
  <2>3. g[1] = 0 /\ l[1] = 0 /\ p[0] = 0 /\ w[1] - w[1] = 0
    BY <1>2, <1>4, <1>7, <1>8, <1>9, <2>1, <2>2
  <2> QED BY <2>3
<1>11. ASSUME NEW m \in Nat, m \in T
       PROVE  m + 1 \in T
  <2>1. CASE m + 1 <= n
    <3>1. /\ m + 1 \in 1..n /\ (m + 1) + 1 \in 1..(n + 1) /\ m <= n
          /\ ((m + 1) + 1) - 1 = m + 1 /\ (m + 1) - 1 = m /\ 1 \in 1..(n + 1)
          /\ m + 1 \in 1..(n + 1)
      BY <1>1, <2>1
    <3>2. /\ g[(m + 1) + 1] = g[m + 1] + up[(m + 1) + 1]
          /\ l[(m + 1) + 1] = l[m + 1] + down[(m + 1) + 1]
          /\ p[m + 1] = p[m] + steps[m + 1]
      <4>1. g[(m + 1) + 1] = g[m + 1] + up[(m + 1) + 1]
        BY <1>5, <1>7, <3>1
      <4>2. l[(m + 1) + 1] = l[m + 1] + down[(m + 1) + 1]
        BY <1>5, <1>8, <3>1
      <4>3. p[m + 1] = p[m] + steps[m + 1]
        BY <1>5, <1>9, <3>1
      <4> QED BY <4>1, <4>2, <4>3
    <3>3. w[1] \in Int /\ w[m + 1] \in Int /\ w[(m + 1) + 1] \in Int /\ p[m] \in Int
      <4>1. m \in 0..Len(steps)
        BY <1>5, <3>1
      <4>2. p[m] \in Int
        BY <1>9, <4>1
      <4> QED BY <1>2, <3>1, <4>2
    <3>4. /\ g[m + 1] \in Nat /\ l[m + 1] \in Nat
          /\ g[m + 1] - l[m + 1] = w[m + 1] - w[1]
          /\ g[m + 1] + l[m + 1] = p[m]
      BY <1>11, <3>1
    <3>5. /\ up[(m + 1) + 1] = IF w[(m + 1) + 1] >= w[m + 1]
                                 THEN w[(m + 1) + 1] - w[m + 1] ELSE 0
          /\ down[(m + 1) + 1] = IF w[(m + 1) + 1] < w[m + 1]
                                   THEN w[m + 1] - w[(m + 1) + 1] ELSE 0
          /\ steps[m + 1] = IF w[(m + 1) + 1] > w[m + 1]
                              THEN w[(m + 1) + 1] - w[m + 1] ELSE w[m + 1] - w[(m + 1) + 1]
      BY <1>4, <3>1
    <3>6. /\ g[(m + 1) + 1] \in Nat /\ l[(m + 1) + 1] \in Nat
          /\ g[(m + 1) + 1] - l[(m + 1) + 1] = w[(m + 1) + 1] - w[1]
          /\ g[(m + 1) + 1] + l[(m + 1) + 1] = p[m + 1]
      <4> DEFINE x == g[m + 1]
                 y == l[m + 1]
                 q == p[m]
                 first == w[1]
                 old == w[m + 1]
                 new == w[(m + 1) + 1]
                 a == up[(m + 1) + 1]
                 b == down[(m + 1) + 1]
                 c == steps[m + 1]
      <4>1. /\ x \in Nat /\ y \in Nat /\ q \in Int
            /\ first \in Int /\ old \in Int /\ new \in Int
            /\ x - y = old - first /\ x + y = q
        BY <3>3, <3>4
      <4>2. /\ a = IF new >= old THEN new - old ELSE 0
            /\ b = IF new < old THEN old - new ELSE 0
            /\ c = IF new > old THEN new - old ELSE old - new
        BY <3>5
      <4>3. g[(m + 1) + 1] = x + a /\ l[(m + 1) + 1] = y + b /\ p[m + 1] = q + c
        BY <3>2
      <4> HIDE DEF x, y, q, first, old, new, a, b, c
      <4>4. /\ x + a \in Nat /\ y + b \in Nat
            /\ (x + a) - (y + b) = new - first
            /\ (x + a) + (y + b) = q + c
        <5>1. CASE new >= old
          <6>1. a = new - old /\ b = 0 /\ c = new - old /\ new - old \in Nat
            BY <4>1, <4>2, <5>1
          <6> QED BY <4>1, <6>1
        <5>2. CASE new < old
          <6>1. a = 0 /\ b = old - new /\ c = old - new /\ old - new \in Nat
            BY <4>1, <4>2, <5>2
          <6> QED BY <4>1, <6>1
        <5> QED BY <4>1, <5>1, <5>2
      <4> QED BY <4>3, <4>4 DEF new, first
    <3> QED BY <3>6
  <2>2. CASE ~(m + 1 <= n)
    BY <2>2
  <2> QED BY <2>1, <2>2
<1> HIDE DEF T
<1>12. n \in T
  BY <1>1, <1>10, <1>11, NaturalInduction
<1>13. /\ g[n + 1] \in Nat /\ l[n + 1] \in Nat
       /\ g[n + 1] - l[n + 1] = w[n + 1] - w[1]
       /\ g[n + 1] + l[n + 1] = p[n]
  BY <1>1, <1>12 DEF T
<1>14. GainSum(w) = g[n + 1] /\ LossSum(w) = l[n + 1] /\ Total(steps) = p[n]
  BY <1>3, <1>5, <1>7, <1>8, <1>9
<1> QED BY <1>6, <1>13, <1>14

\* RsiIsNetChange: whatever the closes and the period, the index computed
\* from gains and losses is the one the net change and the path give.
THEOREM IndexIsNetChange == Spec => []RsiIsNetChange
<1>1. TypeOK => RsiIsNetChange
  <2> SUFFICES ASSUME TypeOK, Len(candles) = requiredCandleCount
               PROVE  RsiIsNetChange
    BY DEF RsiIsNetChange
  <2> DEFINE gain == GainSum(candles)
             loss == LossSum(candles)
             net == candles[Len(candles)] - candles[1]
             step(i) == IF candles[i + 1] > candles[i] THEN candles[i + 1] - candles[i]
                                                       ELSE candles[i] - candles[i + 1]
             path == Total([i \in 1..Period |-> step(i)])
             rsi == computeRsi(candles)
  <2>1. candles \in Seq(Closes) /\ Len(candles) = Period + 1 /\ Period \in Nat
    BY ParametersAssumption DEF TypeOK, requiredCandleCount, ValidParameters
  <2>2. Window(candles) = candles
    <3>1. Len(candles) - Period = 1
      BY <2>1
    <3>2. SubSeq(candles, 1, Len(candles)) = candles
      BY <2>1
    <3> QED BY <3>1, <3>2 DEF Window
  <2>3. gain \in Nat /\ loss \in Nat /\ gain - loss = net /\ gain + loss = path
    BY <2>1, GainsAndLosses
  <2>4. rsi = IF loss = 0 THEN [num |-> 100, den |-> 1]
              ELSE [num |-> 100 * (loss + gain) - 100 * loss, den |-> loss + gain]
    BY <2>2 DEF computeRsi
  <2> HIDE DEF gain, loss, net, path, rsi
  <2>5. IF net = path THEN rsi.num = 100 * rsi.den
                      ELSE rsi.num * path = 50 * (path + net) * rsi.den
    <3>1. CASE loss = 0
      <4>1. net = path /\ rsi.num = 100 /\ rsi.den = 1
        BY <2>3, <2>4, <3>1
      <4> QED BY <4>1
    <3>2. CASE loss # 0
      <4>1. net # path /\ path + net = 2 * gain /\ path \in Nat
        BY <2>3, <3>2
      <4>2. rsi.num = 100 * gain /\ rsi.den = path
        <5>1. rsi.num = 100 * (loss + gain) - 100 * loss /\ rsi.den = loss + gain
          BY <2>4, <3>2
        <5> QED BY <2>3, <5>1
      <4>3. 50 * (path + net) = 100 * gain
        BY <2>3, <4>1
      <4> QED BY <4>1, <4>2, <4>3
    <3> QED BY <3>1, <3>2
  <2> QED BY <2>5 DEF RsiIsNetChange, net, path, rsi
<1> QED BY <1>1, EvaluationTypes, PTL

=============================================================================

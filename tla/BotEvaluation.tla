--------------------------- MODULE BotEvaluation ---------------------------
(***************************************************************************)
(* POST /bots/{id}/evaluate: BotEvaluationService takes a bot from its     *)
(* strategy over the risk engine to an order, while other requests change  *)
(* the bot, the position and the market.  Evaluations hold no lock: what   *)
(* each of the awaited calls returned may be stale by the next one.        *)
(*                                                                         *)
(* One symbol, one user.  An order is the atomic step that AtomicLedger    *)
(* shows it to be; of the wallet only the quantity held is kept, so        *)
(* whether the balance covers a buy is left open.  Quantities are in lots, *)
(* a close is the price of a lot.                                          *)
(***************************************************************************)
EXTENDS Rsi, FiniteSets

CONSTANTS
    Requests,       \* concurrent evaluations; an identity is reused
    Bots,           \* the bots on the symbol
    Limits,         \* riskLimits.maxPositionUsdt a bot may have
    Closes,         \* prices candles may close at
    MaxOwnLots,     \* bound on the lots the user buys without a bot
    None

ASSUME EvaluationAssumption ==
    /\ Limits \subseteq Nat \ {0} /\ Limits # {} /\ IsFiniteSet(Limits)
    /\ Closes \subseteq Nat \ {0} /\ Closes # {} /\ IsFiniteSet(Closes)
    /\ MaxOwnLots \in Nat
    /\ IsFiniteSet(Requests)
    /\ None \notin Bots

VARIABLES
    status,     \* per bot its status, or "deleted"
    maxPositionUsdt,    \* per bot, of its riskLimits
    quantity,   \* the quantity of the user's position; 0 without a row
    candles,    \* the closes the market can report, at most requiredCandleCount
    pc,         \* per request the call it awaits, or its answer
    call,       \* per request [bot, signal, price, quantity]
    touched,    \* auxiliary: the position changed since the request decided
    ownLots,    \* auxiliary: bought without a bot since the position was empty
    lateFills   \* auxiliary: per bot, fills since it was last active

rows == <<status, maxPositionUsdt, quantity, candles>>
aux  == <<touched, ownLots, lateFills>>
vars == <<rows, pc, call, aux>>

BotStatus == {"stopped", "active", "paused"}
InFlight  == {"getBot", "getCandles", "findPosition", "placeOrder"}
Answers   == {"ok", "badRequest", "notFound", "serverError"}

NoCall == [bot |-> None, signal |-> "hold", price |-> 0, quantity |-> 0]

Init ==
    /\ status \in [Bots -> BotStatus]
    /\ maxPositionUsdt \in [Bots -> Limits]
    /\ quantity = 0
    /\ candles = <<>>
    /\ pc = [r \in Requests |-> "idle"]
    /\ call = [r \in Requests |-> NoCall]
    /\ touched = [r \in Requests |-> FALSE]
    /\ ownLots = 0
    /\ lateFills = [b \in Bots |-> 0]

Answer(r, answer) ==
    /\ pc' = [pc EXCEPT ![r] = answer]
    /\ call' = [call EXCEPT ![r] = NoCall]

Forget(r) == touched' = [touched EXCEPT ![r] = FALSE]

\* Every request that decided on the old quantity now holds a stale one.
Hold(held) ==
    /\ quantity' = held
    /\ touched' = [r \in Requests |->
                     pc[r] = "placeOrder" /\ pc'[r] = pc[r]
                       /\ (touched[r] \/ held # quantity)]

-----------------------------------------------------------------------------
\* Evaluations.
Receive(r) ==
    /\ pc[r] \notin InFlight
    /\ \E b \in Bots : call' = [call EXCEPT ![r] = [NoCall EXCEPT !.bot = b]]
    /\ pc' = [pc EXCEPT ![r] = "getBot"]
    /\ UNCHANGED <<rows, aux>>

\* Mutant: any bot that exists is evaluated.
GetBotAnyStatus(r) ==
    /\ pc[r] = "getBot"
    /\ CASE status[call[r].bot] = "deleted" -> Answer(r, "notFound")
         [] OTHER -> pc' = [pc EXCEPT ![r] = "getCandles"] /\ UNCHANGED call
    /\ UNCHANGED <<rows, aux>>

GetBot(r) ==
    /\ pc[r] = "getBot"
    /\ CASE status[call[r].bot] = "deleted" -> Answer(r, "notFound")
         [] status[call[r].bot] \in {"stopped", "paused"} -> Answer(r, "badRequest")
         [] status[call[r].bot] = "active" ->
              pc' = [pc EXCEPT ![r] = "getCandles"] /\ UNCHANGED call
    /\ UNCHANGED <<rows, aux>>

\* No market data, or fewer candles than the strategy needs: hold, with
\* MARKET_DATA_UNAVAILABLE.
CandlesUnavailable(r) ==
    /\ pc[r] = "getCandles"
    /\ Answer(r, "ok")
    /\ UNCHANGED <<rows, aux>>

GetCandles(r) ==
    /\ pc[r] = "getCandles"
    /\ Len(candles) = requiredCandleCount
    /\ IF Signal(candles) = "hold"
         THEN Answer(r, "ok")
         ELSE /\ pc' = [pc EXCEPT ![r] = "findPosition"]
              /\ call' = [call EXCEPT ![r].signal = Signal(candles),
                                      ![r].price = candles[Len(candles)]]
    /\ UNCHANGED <<rows, aux>>

\* Mutant: the limit is taken per order.
HeadroomPerOrder(r) == maxPositionUsdt[call[r].bot]

\* What is left under the bot's limit at the price of the latest candle.
Headroom(r) == maxPositionUsdt[call[r].bot] - quantity * call[r].price

\* Mutant: a position above the limit is not blocked.
ApprovedAlways(r) == call[r].signal = "buy" \/ quantity > 0

\* MAX_POSITION_EXCEEDED and NO_OPEN_POSITION otherwise.
Approved(r) == IF call[r].signal = "buy" THEN Headroom(r) > 0 ELSE quantity > 0

FindPosition(r) ==
    /\ pc[r] = "findPosition"
    /\ IF ~Approved(r)
         THEN Answer(r, "ok")
         ELSE /\ pc' = [pc EXCEPT ![r] = "placeOrder"]
              /\ call' = [call EXCEPT ![r].quantity =
                            IF call[r].signal = "buy" THEN Headroom(r) \div call[r].price
                                                      ELSE quantity]
    /\ UNCHANGED <<rows, aux>>

\* The headroom did not pay for one lot.
OrderRefused(r) ==
    /\ pc[r] = "placeOrder"
    /\ call[r].quantity = 0
    /\ Answer(r, "badRequest")
    /\ Forget(r)
    /\ UNCHANGED <<rows, ownLots, lateFills>>

\* No ticker, below the minimum notional, balance or position insufficient.
OrderRejected(r) ==
    /\ pc[r] = "placeOrder"
    /\ call[r].quantity > 0
    /\ Answer(r, "ok")
    /\ Forget(r)
    /\ UNCHANGED <<rows, ownLots, lateFills>>

CountFill(b) ==
    lateFills' = [lateFills EXCEPT ![b] = IF status[b] = "active" THEN 0 ELSE @ + 1]

OrderFilled(r) ==
    /\ pc[r] = "placeOrder"
    /\ call[r].quantity > 0
    /\ Answer(r, "ok")
    /\ IF call[r].signal = "buy"
         THEN Hold(quantity + call[r].quantity) /\ UNCHANGED ownLots
         ELSE /\ quantity >= call[r].quantity
              /\ Hold(quantity - call[r].quantity)
              /\ ownLots' = IF quantity = call[r].quantity THEN 0 ELSE ownLots
    /\ CountFill(call[r].bot)
    /\ UNCHANGED <<status, maxPositionUsdt, candles>>

\* A statement of the evaluation or of its order fails.
Fault(r) ==
    /\ pc[r] \in InFlight
    /\ Answer(r, "serverError")
    /\ Forget(r)
    /\ UNCHANGED <<rows, ownLots, lateFills>>

-----------------------------------------------------------------------------
\* What other requests do meanwhile.
SetStatus(b) ==
    /\ status[b] # "deleted"
    /\ \E s \in BotStatus \ {status[b]} : status' = [status EXCEPT ![b] = s]
    /\ lateFills' = [lateFills EXCEPT ![b] = IF status'[b] = "active" THEN 0 ELSE @]
    /\ UNCHANGED <<maxPositionUsdt, quantity, candles, pc, call, touched, ownLots>>

\* Also of a running bot: remove may have read stopped before a start.
DeleteBot(b) ==
    /\ status[b] # "deleted"
    /\ status' = [status EXCEPT ![b] = "deleted"]
    /\ UNCHANGED <<maxPositionUsdt, quantity, candles, pc, call, aux>>

OwnBuy ==
    /\ ownLots < MaxOwnLots
    /\ UNCHANGED <<status, maxPositionUsdt, candles, pc, call, lateFills>>
    /\ Hold(quantity + 1)
    /\ ownLots' = ownLots + 1

OwnSell ==
    /\ quantity > 0
    /\ UNCHANGED <<status, maxPositionUsdt, candles, pc, call, lateFills>>
    /\ Hold(quantity - 1)
    /\ ownLots' = IF quantity = 1 THEN 0 ELSE ownLots

ResetWallet ==
    /\ UNCHANGED <<status, maxPositionUsdt, candles, pc, call, lateFills>>
    /\ Hold(0)
    /\ ownLots' = 0

NewCandle ==
    /\ \E c \in Closes :
         candles' = IF Len(candles) < requiredCandleCount THEN Append(candles, c)
                                                          ELSE Append(Tail(candles), c)
    /\ UNCHANGED <<status, maxPositionUsdt, quantity, pc, call, aux>>

Evaluate(r) ==
    \/ GetBot(r) \/ CandlesUnavailable(r) \/ GetCandles(r) \/ FindPosition(r)
    \/ OrderRefused(r) \/ OrderRejected(r) \/ OrderFilled(r)

Next ==
    \/ \E r \in Requests : Receive(r) \/ Evaluate(r) \/ Fault(r)
    \/ \E b \in Bots : SetStatus(b) \/ DeleteBot(b)
    \/ OwnBuy \/ OwnSell \/ ResetWallet
    \/ NewCandle

Spec == Init /\ [][Next]_vars

-----------------------------------------------------------------------------
\* Types of the rows and the calls.
TypeOK ==
    /\ status \in [Bots -> BotStatus \cup {"deleted"}]
    /\ maxPositionUsdt \in [Bots -> Limits]
    /\ quantity \in Nat
    /\ candles \in Seq(Closes) /\ Len(candles) <= requiredCandleCount
    /\ pc \in [Requests -> {"idle"} \cup InFlight \cup Answers]
    /\ call \in [Requests -> [bot : Bots \cup {None}, signal : {"buy", "sell", "hold"},
                              price : Closes \cup {0}, quantity : Nat]]
    /\ touched \in [Requests -> BOOLEAN]
    /\ ownLots \in 0..MaxOwnLots
    /\ lateFills \in [Bots -> Nat]

\* RSI by its geometry: 50 and half the net change of the closes as a share
\* of the path they travelled.  A path without losses counts as 100, a flat
\* one included.
RsiIsNetChange ==
    Len(candles) = requiredCandleCount =>
        LET rsi  == computeRsi(candles)
            net  == candles[Len(candles)] - candles[1]
            step(i) == IF candles[i + 1] > candles[i] THEN candles[i + 1] - candles[i]
                                                      ELSE candles[i] - candles[i + 1]
            path == Total([i \in 1..Period |-> step(i)])
        IN  IF net = path
              THEN rsi.num = 100 * rsi.den
              ELSE rsi.num * path = 50 * (path + net) * rsi.den

\* A bot's buy leaves the position within the bot's maxPositionUsdt, at the price it
\* decided on, unless the position changed between its decision and its order.
LimitRespected ==
    [][\A r \in Requests :
          pc[r] = "placeOrder" /\ pc'[r] # pc[r] /\ quantity' > quantity /\ ~touched[r]
             => quantity' * call[r].price <= maxPositionUsdt[call[r].bot]]_vars

\* The lots a bot with the largest limit could buy at the lowest price.
LargestOrder ==
    LET largest == CHOOSE m \in Limits : \A n \in Limits : n <= m
        lowest  == CHOOSE c \in Closes : \A n \in Closes : c <= n
    IN  largest \div lowest

\* Concurrent evaluations may exceed the limits, but however many are run
\* over time, the position stays below one largest order per evaluation in
\* flight, plus what the user bought without a bot.
ExposureBounded == quantity <= Cardinality(Requests) * LargestOrder + ownLots

\* Once a bot is paused, stopped or deleted, at most the evaluations that
\* were already in flight still trade for it.
StoppedBotsSettle == \A b \in Bots : lateFills[b] <= Cardinality(Requests)

=============================================================================

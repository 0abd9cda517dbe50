----------------------------- MODULE PaperMoney -----------------------------
(***************************************************************************)
(* The arithmetic of the paper trading simulator (order.service.ts).       *)
(*                                                                         *)
(* Money and prices are stored in units of their column Decimal(24, 8), a  *)
(* quantity is a number of lots, LotsPerUnit of which are one unit of the  *)
(* asset.  A ticker price is an integer number of stored units.  Slippage  *)
(* and fee are whole percents, so an execution price is an integer number  *)
(* of hundredths of a stored unit, and what an order moves is an integer   *)
(* number of the fractions of a stored unit that Exact counts.  The        *)
(* service computes with those exact values; balance, fee, executed price  *)
(* and average entry price are each rounded when they are stored.          *)
(***************************************************************************)
EXTENDS Integers

CONSTANTS FeePercent, SlippagePercent, MinNotionalUsdt, LotStep, LotsPerUnit

ASSUME PercentAssumption ==
    /\ FeePercent \in 0..100
    /\ SlippagePercent \in 0..100

ASSUME BoundAssumption ==
    /\ MinNotionalUsdt \in Nat \ {0}
    /\ LotStep \in Nat \ {0}
    /\ LotsPerUnit \in Nat \ {0}

\* Requested quantities are in finer steps than the exchange's lot; the
\* service truncates them.
RoundDown(raw) == raw \div LotStep

\* Mutant: slippage in the user's favour.
ExecutionPriceFavourable(side, ticker) ==
    IF side = "buy" THEN ticker * (100 - SlippagePercent)
                    ELSE ticker * (100 + SlippagePercent)

\* In hundredths of a stored price.
ExecutionPrice(side, ticker) ==
    IF side = "buy" THEN ticker * (100 + SlippagePercent)
                    ELSE ticker * (100 - SlippagePercent)

\* How many of the fractions that exact amounts are counted in make one
\* stored unit: lots, hundredths of a price, hundredths of an amount.
Exact == 10000 * LotsPerUnit

\* The next four are exact.
Notional(quantity, price) == 100 * (quantity * price)

Fee(quantity, price) == FeePercent * (quantity * price)

TotalCost(quantity, price) == Notional(quantity, price) + Fee(quantity, price)

\* Mutant: the fee is charged on buys only.
ProceedsWithoutFee(quantity, price) == Notional(quantity, price)

Proceeds(quantity, price) == Notional(quantity, price) - Fee(quantity, price)

\* Half-up rounding of a quotient to the scale of the column.
StoredQuotient(numerator, denominator) ==
    (2 * numerator + denominator) \div (2 * denominator)

Stored(amount) == StoredQuotient(amount, Exact)

StoredPrice(price) == StoredQuotient(price, 100)

Affordable(amount, quantity, price) == Exact * amount >= TotalCost(quantity, price)

Debited(amount, quantity, price) == Stored(Exact * amount - TotalCost(quantity, price))

Credited(amount, quantity, price) == Stored(Exact * amount + Proceeds(quantity, price))

\* Mutant: the bought quantity is left out of the weight.
AveragedEntryUnweighted(row, quantity, price) ==
    StoredQuotient(100 * (row.quantity * row.avgEntryPrice) + price,
                   100 * (row.quantity + quantity))

\* The weighted average entry price of a position a buy adds to.
AveragedEntry(row, quantity, price) ==
    StoredQuotient(100 * (row.quantity * row.avgEntryPrice) + quantity * price,
                   100 * (row.quantity + quantity))
=============================================================================

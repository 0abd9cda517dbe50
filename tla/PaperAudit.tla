----------------------------- MODULE PaperAudit -----------------------------
(***************************************************************************)
(* The order history as an audit trail: what the wallet holds can be       *)
(* recomputed from the trades recorded since its latest reset.             *)
(***************************************************************************)
EXTENDS PaperTrading, Totals

SinceReset == SubSeq(orders, resetAt + 1, Len(orders))

Filled(o) == o.status = "filled"

QuantityMoved(o, s) ==
    CASE Filled(o) /\ o.symbol = s /\ o.side = "buy"  -> o.quantity
      [] Filled(o) /\ o.symbol = s /\ o.side = "sell" -> -o.quantity
      [] OTHER                                        -> 0

\* In lots of a stored unit: price times quantity is one, the fee is stored.
CashMoved(o) ==
    CASE Filled(o) /\ o.side = "buy"  -> -(o.quantity * o.price) - LotsPerUnit * o.fee
      [] Filled(o) /\ o.side = "sell" -> o.quantity * o.price - LotsPerUnit * o.fee
      [] OTHER                        -> 0

\* Twice what storing a fill can round away, in lots of a stored unit: half a
\* unit of the balance, half a unit of the fee, and half a unit of the price
\* on every unit of the asset.
Rounding(o) == IF Filled(o) THEN 2 * LotsPerUnit + o.quantity ELSE 0

\* The prices paid for a symbol since the latest reset.
Paid(s) ==
    {SinceReset[i].price : i \in {j \in 1..Len(SinceReset) :
        /\ Filled(SinceReset[j])
        /\ SinceReset[j].symbol = s /\ SinceReset[j].side = "buy"}}

\* Every position equals what the recorded trades bought less what they
\* sold: no fill without its trade, no trade without its fill, and a reset
\* clears exactly what it should.
HoldingsExplained ==
    \A s \in Symbols :
        Total([i \in 1..Len(SinceReset) |-> QuantityMoved(SinceReset[i], s)]) =
            IF position[s] = NoRow THEN 0 ELSE position[s].quantity

\* The balance is the default plus the cash of the recorded trades, up to the
\* rounding of what was stored: balance, fee and executed price are rounded
\* apart from each other, so the trades can say more or less than the
\* balance, but never by more than half a unit of each per fill.
BalanceExplained ==
    balance # NoRow =>
        LET cash  == Total([i \in 1..Len(SinceReset) |-> CashMoved(SinceReset[i])])
            slack == Total([i \in 1..Len(SinceReset) |-> Rounding(SinceReset[i])])
            drift == 2 * (LotsPerUnit * (balance - DefaultBalance) - cash)
        IN  -slack <= drift /\ drift <= slack

\* The average entry price of a held position lies between the lowest and
\* the highest price paid for the symbol since the latest reset, however
\* often it was averaged and rounded.
AverageWithinFills ==
    \A s \in Symbols : position[s] # NoRow =>
        /\ \E e \in Paid(s) : e <= position[s].avgEntryPrice
        /\ \E e \in Paid(s) : position[s].avgEntryPrice <= e
=============================================================================

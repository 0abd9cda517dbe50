---------------------------- MODULE PaperLedger ----------------------------
(***************************************************************************)
(* What the paper wallet of one user promises: every order and every reset *)
(* is one indivisible change of balance, position and order history.       *)
(***************************************************************************)
EXTENDS PaperMoney, Sequences

CONSTANTS
    Symbols,            \* the supported symbols
    Quantities,         \* positive quantities, after rounding to the lot
    Prices,             \* execution prices
    DefaultBalance,     \* PAPER_TRADING_DEFAULT_BALANCE_USDT
    NoRow               \* "no such row"

VARIABLES
    balance,    \* the user's USDT amount, or NoRow before first use
    position,   \* per symbol its quantity and average entry price, or NoRow
    orders      \* every recorded order, in the order of recording

ledgerVars == <<balance, position, orders>>

Trade(symbol, side, quantity, price) ==
    [symbol |-> symbol, side |-> side, quantity |-> quantity, status |-> "filled",
     price |-> StoredPrice(price), fee |-> Stored(Fee(quantity, price))]

Rejection(symbol, side, quantity, reason) ==
    [symbol |-> symbol, side |-> side, quantity |-> quantity, status |-> reason,
     price |-> 0, fee |-> 0]

Reasons == {"MARKET_DATA_UNAVAILABLE", "BELOW_MIN_NOTIONAL",
            "INSUFFICIENT_BALANCE", "INSUFFICIENT_POSITION"}

\* The position after a buy; only buys move the average entry price.
Increased(row, quantity, price) ==
    IF row = NoRow
      THEN [quantity |-> quantity, avgEntryPrice |-> StoredPrice(price)]
      ELSE [quantity |-> row.quantity + quantity,
            avgEntryPrice |-> AveragedEntry(row, quantity, price)]

Decreased(row, quantity) == [row EXCEPT !.quantity = @ - quantity]

Init ==
    /\ balance = NoRow
    /\ position = [s \in Symbols |-> NoRow]
    /\ orders = <<>>

OpenWallet ==
    /\ balance = NoRow
    /\ balance' = DefaultBalance
    /\ UNCHANGED <<position, orders>>

Buy(symbol, quantity, price) ==
    /\ balance # NoRow
    /\ Affordable(balance, quantity, price)
    /\ balance' = Debited(balance, quantity, price)
    /\ position' = [position EXCEPT ![symbol] = Increased(@, quantity, price)]
    /\ orders' = Append(orders, Trade(symbol, "buy", quantity, price))

Sell(symbol, quantity, price) ==
    /\ balance # NoRow
    /\ position[symbol] # NoRow
    /\ position[symbol].quantity >= quantity
    /\ balance' = Credited(balance, quantity, price)
    /\ position' = [position EXCEPT ![symbol] = Decreased(@, quantity)]
    /\ orders' = Append(orders, Trade(symbol, "sell", quantity, price))

Reject(symbol, side, quantity, reason) ==
    /\ balance # NoRow
    /\ orders' = Append(orders, Rejection(symbol, side, quantity, reason))
    /\ UNCHANGED <<balance, position>>

Reset ==
    /\ balance # NoRow
    /\ balance' = DefaultBalance
    /\ position' = [s \in Symbols |-> NoRow]
    /\ UNCHANGED orders

Next ==
    \/ OpenWallet
    \/ Reset
    \/ \E s \in Symbols, q \in Quantities :
          \/ \E e \in Prices : Buy(s, q, e) \/ Sell(s, q, e)
          \/ \E side \in {"buy", "sell"}, reason \in Reasons : Reject(s, side, q, reason)

Spec == Init /\ [][Next]_ledgerVars
=============================================================================

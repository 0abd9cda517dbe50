---------------------------- MODULE PaperTrading ----------------------------
(***************************************************************************)
(* OrderService and WalletService serving concurrent HTTP requests of one  *)
(* user (rows of different users never meet: every query filters on        *)
(* userId).                                                                *)
(*                                                                         *)
(* One action is one awaited database statement.  The statements of a      *)
(* Prisma transaction run on PostgreSQL at READ COMMITTED: a write locks   *)
(* its row until the transaction ends, a conditional UPDATE evaluates its  *)
(* WHERE on the committed row once it owns the lock (and skips a row that  *)
(* does not match without waiting), a plain SELECT reads the committed     *)
(* row without waiting, and what a transaction wrote stays in its draft    *)
(* until it commits.                                                       *)
(***************************************************************************)
EXTENDS PaperMoney, Sequences

CONSTANTS
    Requests,           \* concurrent HTTP requests; an identity is reused
    Symbols,            \* marketData.supportedSymbols
    OtherSymbols,       \* symbols a caller may name that are not supported
    RawQuantities,      \* requested quantities, before rounding to the lot
    TickerPrices,       \* prices the market may quote
    DefaultBalance,     \* PAPER_TRADING_DEFAULT_BALANCE_USDT
    Operations,         \* subset of {"buy", "sell", "reset", "wallet"} callers use
    Faults,             \* TRUE: the process or the database may fail
    MaxRequests,        \* bound on the number of requests served
    NoRow, Nobody

ASSUME ValueAssumption ==
    /\ RawQuantities \subseteq Nat
    /\ TickerPrices \subseteq Nat \ {0}
    /\ DefaultBalance \in Nat
    /\ MaxRequests \in Nat
    /\ Faults \in BOOLEAN
    /\ Operations \subseteq {"buy", "sell", "reset", "wallet"}
    /\ Symbols \cap OtherSymbols = {}

ASSUME NoRowAssumption ==
    /\ NoRow \notin Int
    /\ NoRow \notin [quantity : Int, avgEntryPrice : Int]

ASSUME NobodyAssumption == Nobody \notin Requests

VARIABLES
    balance, position, orders,  \* committed rows, as in PaperLedger
    resetAt,        \* auxiliary: how many orders preceded the latest reset
    balanceLock,    \* the request whose transaction holds the balance row
    positionLock,   \* per symbol, the request holding the position row
    pc,             \* per request, the statement it awaits or its outcome
    call,           \* per request, its arguments and what it computed so far
    draft,          \* per request, the rows its transaction wrote
    issued          \* requests received so far, bounded by MaxRequests

rows  == <<balance, position, orders, resetAt>>
locks == <<balanceLock, positionLock>>
vars  == <<rows, locks, pc, call, draft, issued>>

-----------------------------------------------------------------------------
\* The wallet's promises, one atomic step per order; its operators on rows
\* are used here too.
Quantities == {RoundDown(raw) : raw \in RawQuantities} \ {0}

Prices == {ExecutionPrice(side, p) : side \in {"buy", "sell"}, p \in TickerPrices}

Ledger == INSTANCE PaperLedger WITH
    balance <- balance, position <- position, orders <- orders

-----------------------------------------------------------------------------
OrderSteps == {"findWallet", "createWallet", "getTicker", "recordRejected",
               "buyDebit", "buyFind", "buyUpsert", "buyCommit",
               "sellDebit", "sellCredit", "sellCommit"}

ResetSteps == {"resetBalance", "resetPositions", "resetCommit"}

InFlight == OrderSteps \cup ResetSteps

\* Outcomes: an order resolved, a 400, a wallet summary, and three kinds of
\* 500: a unique violation, a deadlock victim, an infrastructure failure.
Resolved == {"filled", "rejected"}
Failed   == {"conflict", "deadlock", "fault"}
Ended    == Resolved \cup {"badRequest", "served"} \cup Failed

NoCall == [op |-> "wallet", symbol |-> NoRow, quantity |-> 0, price |-> 0,
           reason |-> "none"]

NoDraft == [balance |-> NoRow, read |-> NoRow, position |-> NoRow]

Init ==
    /\ balance = NoRow
    /\ position = [s \in Symbols |-> NoRow]
    /\ orders = <<>>
    /\ resetAt = 0
    /\ balanceLock = Nobody
    /\ positionLock = [s \in Symbols |-> Nobody]
    /\ pc = [r \in Requests |-> "idle"]
    /\ call = [r \in Requests |-> NoCall]
    /\ draft = [r \in Requests |-> NoDraft]
    /\ issued = 0

Goto(r, from, to) == pc[r] = from /\ pc' = [pc EXCEPT ![r] = to]

\* The request is answered; of what it computed only the endpoint matters.
Finish(r, outcome) ==
    /\ pc' = [pc EXCEPT ![r] = outcome]
    /\ call' = [call EXCEPT ![r] = [NoCall EXCEPT !.op = call[r].op]]

\* The statement committed, and its answer got lost on the way back: what it
\* wrote stays, the request fails.
Unacknowledged(r) == Faults /\ Finish(r, "fault")

IsOrder(r) == call[r].op \in {"buy", "sell"}

\* Mutant: the position locks of the transaction are never released.
EndTransactionLeaky(r) ==
    /\ balanceLock' = IF balanceLock = r THEN Nobody ELSE balanceLock
    /\ UNCHANGED positionLock
    /\ draft' = [draft EXCEPT ![r] = NoDraft]

\* Commit or rollback ends a transaction: its locks and its draft are gone.
EndTransaction(r) ==
    /\ balanceLock' = IF balanceLock = r THEN Nobody ELSE balanceLock
    /\ positionLock' = [s \in Symbols |->
                          IF positionLock[s] = r THEN Nobody ELSE positionLock[s]]
    /\ draft' = [draft EXCEPT ![r] = NoDraft]

Record(order) == orders' = Append(orders, order)

-----------------------------------------------------------------------------
(* The endpoints up to the transaction. *)

Arrive(r) ==
    /\ pc[r] \in {"idle"} \cup Ended
    /\ issued < MaxRequests
    /\ issued' = issued + 1
    /\ UNCHANGED <<rows, locks, draft>>

ReceiveOrder(r) ==
    /\ Arrive(r)
    /\ \E op \in Operations \cap {"buy", "sell"}, s \in Symbols, raw \in RawQuantities :
         /\ RoundDown(raw) # 0
         /\ call' = [call EXCEPT ![r] = [NoCall EXCEPT !.op = op, !.symbol = s,
                                                       !.quantity = RoundDown(raw)]]
    /\ pc' = [pc EXCEPT ![r] = "findWallet"]

ReceiveWallet(r) ==
    /\ Arrive(r)
    /\ \E op \in Operations \cap {"reset", "wallet"} :
         call' = [call EXCEPT ![r] = [NoCall EXCEPT !.op = op]]
    /\ pc' = [pc EXCEPT ![r] = "findWallet"]

\* An unsupported symbol, or a quantity that rounds to zero: 400, no order.
Refuse(r) ==
    /\ Arrive(r)
    /\ \E op \in Operations \cap {"buy", "sell"}, s \in Symbols \cup OtherSymbols,
          raw \in RawQuantities :
         /\ s \notin Symbols \/ RoundDown(raw) = 0
         /\ call' = [call EXCEPT ![r] = [NoCall EXCEPT !.op = op]]
    /\ pc' = [pc EXCEPT ![r] = "badRequest"]

\* What follows getOrCreateBalance in each endpoint.
WithWallet(r) ==
    \/ IsOrder(r) /\ pc' = [pc EXCEPT ![r] = "getTicker"] /\ UNCHANGED call
    \/ call[r].op = "reset" /\ pc' = [pc EXCEPT ![r] = "resetBalance"] /\ UNCHANGED call
    \/ call[r].op = "wallet" /\ Finish(r, "served")

\* Mutant: the endpoint trusts that the wallet exists.
FindWalletTrusting(r) ==
    /\ pc[r] = "findWallet"
    /\ WithWallet(r)
    /\ UNCHANGED <<rows, locks, draft, issued>>

FindWallet(r) ==
    /\ pc[r] = "findWallet"
    /\ IF balance # NoRow
         THEN WithWallet(r)
         ELSE pc' = [pc EXCEPT ![r] = "createWallet"] /\ UNCHANGED call
    /\ UNCHANGED <<rows, locks, draft, issued>>

CreateWallet(r) ==
    /\ pc[r] = "createWallet"
    /\ IF balance = NoRow
         THEN balance' = DefaultBalance /\ (WithWallet(r) \/ Unacknowledged(r))
         ELSE UNCHANGED balance /\ Finish(r, "conflict")
    /\ UNCHANGED <<position, orders, resetAt, locks, draft, issued>>

\* The price is fixed here, before any transaction; nothing re-reads it.
GetTicker(r) ==
    /\ \E p \in TickerPrices :
         LET price == ExecutionPrice(call[r].op, p)
         IN  IF Notional(call[r].quantity, price) < Exact * MinNotionalUsdt
               THEN /\ Goto(r, "getTicker", "recordRejected")
                    /\ call' = [call EXCEPT ![r].reason = "BELOW_MIN_NOTIONAL"]
               ELSE /\ Goto(r, "getTicker", IF call[r].op = "buy" THEN "buyDebit"
                                                                 ELSE "sellDebit")
                    /\ call' = [call EXCEPT ![r].price = price]
    /\ UNCHANGED <<rows, locks, draft, issued>>

TickerUnavailable(r) ==
    /\ Goto(r, "getTicker", "recordRejected")
    /\ call' = [call EXCEPT ![r].reason = "MARKET_DATA_UNAVAILABLE"]
    /\ UNCHANGED <<rows, locks, draft, issued>>

\* A rejected order is one inserted row; a transaction that only rejects
\* holds no row lock others wait for.
RecordRejected(r) ==
    /\ pc[r] = "recordRejected"
    /\ Record(Ledger!Rejection(call[r].symbol, call[r].op, call[r].quantity, call[r].reason))
    /\ Finish(r, "rejected") \/ Unacknowledged(r)
    /\ UNCHANGED <<balance, position, resetAt, locks, draft, issued>>

-----------------------------------------------------------------------------
(* executeBuy. *)

\* Mutant: the conditional debit lost its "gte".
BuyDebitUnconditional(r) == balance # NoRow

BuyDebitMatches(r) == balance # NoRow /\ Affordable(balance, call[r].quantity, call[r].price)

\* Mutant: the debit is computed by a read, outside the transaction's locks.
BuyDebitUnlocked(r) ==
    /\ Goto(r, "buyDebit", "buyFind")
    /\ BuyDebitMatches(r)
    /\ draft' = [draft EXCEPT ![r].balance =
                   Debited(balance, call[r].quantity, call[r].price)]
    /\ UNCHANGED <<rows, locks, call, issued>>

BuyDebit(r) ==
    /\ Goto(r, "buyDebit", "buyFind")
    /\ BuyDebitMatches(r)
    /\ balanceLock = Nobody
    /\ balanceLock' = r
    /\ draft' = [draft EXCEPT ![r].balance =
                   Debited(balance, call[r].quantity, call[r].price)]
    /\ UNCHANGED <<rows, positionLock, call, issued>>

BuyDebitMisses(r) ==
    /\ Goto(r, "buyDebit", "recordRejected")
    /\ ~BuyDebitMatches(r)
    /\ call' = [call EXCEPT ![r].reason = "INSUFFICIENT_BALANCE"]
    /\ UNCHANGED <<rows, locks, draft, issued>>

BuyFind(r) ==
    /\ Goto(r, "buyFind", "buyUpsert")
    /\ draft' = [draft EXCEPT ![r].read = position[call[r].symbol]]
    /\ UNCHANGED <<rows, locks, call, issued>>

\* INSERT ... ON CONFLICT DO UPDATE with the values computed from the read.
BuyUpsert(r) ==
    LET s     == call[r].symbol
        basis == IF position[s] = NoRow THEN NoRow ELSE draft[r].read
    IN  /\ Goto(r, "buyUpsert", "buyCommit")
        /\ positionLock[s] = Nobody
        /\ positionLock' = [positionLock EXCEPT ![s] = r]
        /\ draft' = [draft EXCEPT ![r].position =
                       Ledger!Increased(basis, call[r].quantity, call[r].price)]
        /\ UNCHANGED <<rows, balanceLock, call, issued>>

BuyCommit(r) ==
    /\ pc[r] = "buyCommit"
    /\ balance' = draft[r].balance
    /\ position' = [position EXCEPT ![call[r].symbol] = draft[r].position]
    /\ Record(Ledger!Trade(call[r].symbol, "buy", call[r].quantity, call[r].price))
    /\ EndTransaction(r)
    /\ Finish(r, "filled") \/ Unacknowledged(r)
    /\ UNCHANGED <<resetAt, issued>>

-----------------------------------------------------------------------------
(* executeSell. *)

\* Mutant: any existing position may be sold from.
SellDebitUnconditional(r) == position[call[r].symbol] # NoRow

SellDebitMatches(r) ==
    /\ position[call[r].symbol] # NoRow
    /\ position[call[r].symbol].quantity >= call[r].quantity

SellDebit(r) ==
    LET s == call[r].symbol
    IN  /\ Goto(r, "sellDebit", "sellCredit")
        /\ SellDebitMatches(r)
        /\ positionLock[s] = Nobody
        /\ positionLock' = [positionLock EXCEPT ![s] = r]
        /\ draft' = [draft EXCEPT ![r].position =
                       Ledger!Decreased(position[s], call[r].quantity)]
        /\ UNCHANGED <<rows, balanceLock, call, issued>>

SellDebitMisses(r) ==
    /\ Goto(r, "sellDebit", "recordRejected")
    /\ ~SellDebitMatches(r)
    /\ call' = [call EXCEPT ![r].reason = "INSUFFICIENT_POSITION"]
    /\ UNCHANGED <<rows, locks, draft, issued>>

SellCredit(r) ==
    /\ Goto(r, "sellCredit", "sellCommit")
    /\ balanceLock = Nobody
    /\ balanceLock' = r
    /\ draft' = [draft EXCEPT ![r].balance =
                   IF balance = NoRow
                     THEN Stored(Proceeds(call[r].quantity, call[r].price))
                     ELSE Credited(balance, call[r].quantity, call[r].price)]
    /\ UNCHANGED <<rows, positionLock, call, issued>>

SellCommit(r) ==
    /\ pc[r] = "sellCommit"
    /\ balance' = draft[r].balance
    /\ position' = [position EXCEPT ![call[r].symbol] = draft[r].position]
    /\ Record(Ledger!Trade(call[r].symbol, "sell", call[r].quantity, call[r].price))
    /\ EndTransaction(r)
    /\ Finish(r, "filled") \/ Unacknowledged(r)
    /\ UNCHANGED <<resetAt, issued>>

-----------------------------------------------------------------------------
(* reset: one batch transaction, the balance row first. *)

ResetBalance(r) ==
    /\ Goto(r, "resetBalance", "resetPositions")
    /\ balance # NoRow
    /\ balanceLock = Nobody
    /\ balanceLock' = r
    /\ draft' = [draft EXCEPT ![r].balance = DefaultBalance]
    /\ UNCHANGED <<rows, positionLock, call, issued>>

\* deleteMany locks the rows it deletes one after the other.
ResetLockPosition(r) ==
    /\ pc[r] = "resetPositions"
    /\ \E s \in Symbols :
         /\ position[s] # NoRow
         /\ positionLock[s] = Nobody
         /\ positionLock' = [positionLock EXCEPT ![s] = r]
    /\ UNCHANGED <<rows, balanceLock, pc, call, draft, issued>>

\* Mutant: the delete skips rows another transaction holds.
ResetPositionsSkipping(r) ==
    /\ Goto(r, "resetPositions", "resetCommit")
    /\ UNCHANGED <<rows, locks, call, draft, issued>>

ResetPositions(r) ==
    /\ Goto(r, "resetPositions", "resetCommit")
    /\ \A s \in Symbols : position[s] # NoRow => positionLock[s] = r
    /\ UNCHANGED <<rows, locks, call, draft, issued>>

\* Mutant: a reset refills the balance and keeps the positions.
ResetCommitBalanceOnly(r) ==
    /\ pc[r] = "resetCommit"
    /\ balance' = draft[r].balance
    /\ resetAt' = Len(orders)
    /\ EndTransaction(r)
    /\ Finish(r, "served") \/ Unacknowledged(r)
    /\ UNCHANGED <<position, orders, issued>>

ResetCommit(r) ==
    /\ pc[r] = "resetCommit"
    /\ balance' = draft[r].balance
    /\ position' = [s \in Symbols |-> IF positionLock[s] = r THEN NoRow ELSE position[s]]
    /\ resetAt' = Len(orders)
    /\ EndTransaction(r)
    /\ Finish(r, "served") \/ Unacknowledged(r)
    /\ UNCHANGED <<orders, issued>>

-----------------------------------------------------------------------------
(* Failures the database reports; no code catches them, the answer is 500. *)

\* r's statement waits for a row that t's transaction holds.
WaitsFor(r, t) ==
    /\ r # t
    /\ \/ pc[r] \in {"buyDebit", "sellCredit", "resetBalance"} /\ balanceLock = t
       \/ pc[r] \in {"buyUpsert", "sellDebit"} /\ positionLock[call[r].symbol] = t
       \/ pc[r] = "resetPositions" /\ \E s \in Symbols : positionLock[s] = t

\* PostgreSQL aborts one transaction of a cycle of waits.  Two kinds of rows
\* and one balance row: every cycle has two members.
DeadlockVictim(r) ==
    /\ \E t \in Requests : WaitsFor(r, t) /\ WaitsFor(t, r)
    /\ EndTransaction(r)
    /\ Finish(r, "deadlock")
    /\ UNCHANGED <<rows, issued>>

\* A lost connection, a transaction past its 5 s timeout, a process crash,
\* before the statement had any effect.
Fault(r) ==
    /\ Faults
    /\ pc[r] \in InFlight
    /\ EndTransaction(r)
    /\ Finish(r, "fault")
    /\ UNCHANGED <<rows, issued>>

Progress(r) ==
    \/ FindWallet(r) \/ CreateWallet(r)
    \/ GetTicker(r) \/ TickerUnavailable(r) \/ RecordRejected(r)
    \/ BuyDebit(r) \/ BuyDebitMisses(r) \/ BuyFind(r) \/ BuyUpsert(r) \/ BuyCommit(r)
    \/ SellDebit(r) \/ SellDebitMisses(r) \/ SellCredit(r) \/ SellCommit(r)
    \/ ResetBalance(r) \/ ResetLockPosition(r) \/ ResetPositions(r) \/ ResetCommit(r)
    \/ DeadlockVictim(r)

\* The bound on requests is reached and all are answered.
Drained ==
    /\ issued = MaxRequests
    /\ \A r \in Requests : pc[r] \notin InFlight
    /\ UNCHANGED vars

Next ==
    \/ \E r \in Requests :
          ReceiveOrder(r) \/ ReceiveWallet(r) \/ Refuse(r) \/ Progress(r) \/ Fault(r)
    \/ Drained

Spec == Init /\ [][Next]_vars

\* The event loop resumes every handler whose statement returned, and the
\* database completes every statement that does not wait and breaks every
\* deadlock.  Nobody has to send requests, and nothing has to fail.
FairSpec == Spec /\ \A r \in Requests : WF_vars(Progress(r))

-----------------------------------------------------------------------------
Row == [quantity : Int, avgEntryPrice : Int]

Order == [symbol : Symbols, side : {"buy", "sell"}, quantity : Quantities,
          status : {"filled"} \cup Ledger!Reasons, price : Int, fee : Int]

Call == [op : {"buy", "sell", "reset", "wallet"}, symbol : Symbols \cup {NoRow},
         quantity : Nat, price : Nat, reason : {"none"} \cup Ledger!Reasons]

Draft == [balance : Int \cup {NoRow}, read : Row \cup {NoRow}, position : Row \cup {NoRow}]

Step == {"idle"} \cup InFlight \cup Ended

\* Types of rows, locks and what a request carries.
TypeOK ==
    /\ balance \in Int \cup {NoRow}
    /\ position \in [Symbols -> Row \cup {NoRow}]
    /\ orders \in Seq(Order)
    /\ resetAt \in 0..Len(orders)
    /\ balanceLock \in Requests \cup {Nobody}
    /\ positionLock \in [Symbols -> Requests \cup {Nobody}]
    /\ pc \in [Requests -> Step]
    /\ call \in [Requests -> Call]
    /\ draft \in [Requests -> Draft]
    /\ issued \in 0..MaxRequests

\* Orders racing each other never take the wallet below zero: the claim of
\* OrderService's class comment on its conditional debit.
NoOverdraft == balance # NoRow => balance >= 0

\* No short selling: a position row never goes below zero (schema.prisma,
\* model Position).
NoShortSelling == \A s \in Symbols : position[s] # NoRow => position[s].quantity >= 0

\* The buy reads the position with a plain SELECT and writes back absolute
\* values; no sell, buy or reset may commit to that row in between.
ReadStillCurrent ==
    \A r \in Requests :
        pc[r] \in {"buyUpsert", "buyCommit"} => draft[r].read = position[call[r].symbol]

\* The create branch of the sell's balance.upsert, which would open a wallet
\* without its default amount, is dead.
WalletOpenBeforeTrading ==
    \A r \in Requests : pc[r] \in {"sellCredit", "resetBalance"} => balance # NoRow

\* The fee of the smallest order is at least half a stored unit.
FeeCoversRounding == 2 * FeePercent * MinNotionalUsdt >= 100

\* What a fill by r gained at the ticker price p, in exact fractions.
Gain(r, p) ==
    LET s    == call[r].symbol
        held == IF position[s] = NoRow THEN 0 ELSE position[s].quantity
    IN  Exact * (balance' - balance) + 10000 * (p * (position'[s].quantity - held))

\* At the price the market quoted, a fill never makes the user richer:
\* slippage and fee work against both sides, and the rounding of the stored
\* balance outweighs them only where the fee of an order can be less than
\* half a stored unit, and then by no more than that.
FillsNeverPay ==
    [][\A r \in Requests : (pc[r] \in {"buyCommit", "sellCommit"} /\ pc'[r] = "filled") =>
          \E p \in TickerPrices :
             /\ call[r].price = ExecutionPrice(call[r].op, p)
             /\ IF FeeCoversRounding THEN Gain(r, p) <= 0 ELSE 2 * Gain(r, p) <= Exact]_vars

\* Every request behaves as one indivisible step of the ledger, whatever it
\* interleaves with; one that fails takes that step, if its answer was lost
\* after the commit, or none, and never a part of it.
AtomicLedger == Ledger!Spec

\* OrderService's class comment: every call resolves to filled or rejected
\* and never throws for a business-rule rejection.  An order in a transaction
\* has passed the input checks, and a deadlock resolves it to neither.
NoOrderDeadlock == \A r \in Requests : IsOrder(r) => pc[r] # "deadlock"

\* Every request gets an answer, through lock waits and deadlocks.
EveryRequestAnswered ==
    \A r \in Requests : pc[r] \in InFlight ~> pc[r] \in Ended
=============================================================================

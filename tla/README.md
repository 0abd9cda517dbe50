# Niaga Koin (GAIN): TLA+ verification project

Niaga Koin is a paper-trading platform: a NestJS backend on PostgreSQL (Prisma) and a
React frontend. This directory models the parts whose correctness depends on an order
nobody controls: concurrent requests at the database, answers at the browser. TLC checks
them on small instances; TLAPS proves every safety property of the passing runs for
instances of every size.

Paths below are relative to `src/backend/src`, in the frontend's parts to
`src/frontend/src`, unless they start with `src/`.

## 1. Inventory

| Component | State it keeps | Operations | What is hard |
|---|---|---|---|
| Paper trading: `paper-trading/order.service.ts`, `wallet.service.ts` | one `Balance` row, one `Position` row per symbol, `Order`/`Trade` rows per user | `placeOrder` (buy, sell), `reset`, `getSummary`, lazy wallet creation | transactions of several statements, row locks taken in different orders, a plain read written back as absolute values, rounding |
| Bots: `bots/bots.service.ts` | `Bot` rows with `stopped`/`active`/`paused` | `create`, `start`, `pause`, `stop`, `remove` | read, check, unconditional write; no transaction anywhere |
| Exchange accounts: `exchange/exchange.service.ts` | `ExchangeAccount` rows, referred to by bots | `connect`, `disconnect` | stop-bots and delete-account are two statements; foreign key with `SetNull` |
| Authentication: `auth/auth.service.ts`, `auth/guards/registration-token.guard.ts` | `User` row with failure count and lock, `OtpChallenge` rows | `register`, `verifyOtp`, `login` | hashing is awaited between read and write; expiry, limits, lockout |
| Bot evaluation: `bots/bot-evaluation.service.ts`, `risk/risk-engine.service.ts` | none of its own | `evaluate` | decides on a bot status and a position that may be stale when the order is placed; cap on the position |
| Market data: `market-data/market-data.service.ts`, `common/http/fetch-with-retry.ts` | two in-memory caches with expiry | `getTicker`, `getCandles` | concurrent refreshes that answer out of order, timeouts, bounded retries |
| RSI strategy: `strategy/strategies/rsi.strategy.ts` | none | `evaluate` | a pure algorithm with division and boundaries |
| Frontend session: `lib/AuthContext.tsx`, `lib/api.ts`, `lib/auth.ts`, `App.tsx`, `components/ProtectedRoute.tsx`, the pages for login, registration and code | one token in `localStorage`, in `api.ts` and in the provider, the email shown, the route and the router state | hydrate, login, logout, register, verify, navigate, reload | three copies of a token; the code after an `await` runs although the page was left or the user logged out |
| Frontend dashboard: `pages/DashboardPage.tsx`, `components/BotList.tsx`, `components/ResetBalanceModal.tsx` | balance, order total and bots as last fetched, `pendingBotId`, an error, the modal | load, start/pause/stop a bot, reset the balance | overlapping actions on shared state, late and lost answers, a session that changes under the page |
| Roles, credential encryption, configuration, health, users, bootstrap, presentation | none | checks of one request, pure functions, rendering | nothing concurrent |

How they interact: a controller calls one service per request. `placeOrder` calls
`WalletService.getOrCreateBalance` and `MarketDataService.getTicker` before its
transaction. `BotEvaluationService` calls `BotsService.get`, `getCandles`, the strategy
and the risk engine, then `placeOrder`. `ExchangeService.disconnect` writes `Bot` rows
directly. Everything else meets in the database. The frontend calls the backend through
`apiFetch`, which sends the token that `AuthContext` last gave it; the dashboard mounts
and unmounts as `ProtectedRoute` decides. Every query filters on the user, so rows of
different users never meet, and each model is about one user (or one email address).

What makes each component correct:

- *Paper trading*: an order is one indivisible change of balance, position and history
  or none; amounts never become negative; the history explains the wallet; every request
  is answered.
- *Bots and exchange accounts*: the number of bots is limited, pause starts from active,
  only stopped bots are deleted, disconnecting stops the dependent bots, no bot refers
  to a deleted account.
- *Authentication*: activation is final and pairs the password with the code that was
  entered; limits on wrong codes and wrong passwords hold; a lock lasts.
- *Bot evaluation*: a buy respects the bot's limit at the position it decided on,
  concurrent evaluations exceed it by a bounded amount only, and a bot that was stopped
  trades only for evaluations already in flight; RSI equals its definition.
- *Market data*: answers are fresh, a late answer sets the cache back by a bounded time
  only, requests end in bounded time.
- *Frontend session*: the copies of the token agree, a logout is final, the dashboard
  appears only for a token the server has accepted, and no gate stays blank.
- *Frontend dashboard*: cards agree with the database, no late answer sets the balance
  back, and no button stays disabled.

## 2. Modules

| Module | Models |
|---|---|
| `PaperMoney` | prices with slippage, notional, fee, lot rounding, the rounding of `Decimal(24, 8)` columns, the weighted average entry price |
| `PaperLedger` | the abstract wallet: `Buy`, `Sell`, `Reject`, `Reset`, `OpenWallet`, one atomic step each |
| `PaperTrading` | `OrderService` and `WalletService` statement by statement; instantiates `PaperLedger` as `Ledger` |
| `PaperAudit` | extends `PaperTrading` with totals over the order history |
| `PaperTradingProofs` | theorems about `PaperTrading` and `PaperAudit` |
| `BotLifecycle` | `BotsService` and `ExchangeService`, which share the `Bot` rows |
| `BotLifecycleProofs` | theorems about `BotLifecycle` |
| `Authentication` | `AuthService` behind the registration token guard |
| `AuthenticationProofs` | theorems about `Authentication` |
| `MarketData` | `MarketDataService`'s caches in front of `fetchJsonWithRetry` |
| `MarketDataProofs` | theorems about `MarketData` |
| `Rsi` | the indicator, its parameters and its signal, as operators on a sequence of closes |
| `BotEvaluation` | extends `Rsi`: `BotEvaluationService` and `RiskEngineService` among changes of bot, position and market |
| `BotEvaluationProofs` | theorems about `BotEvaluation` and `Rsi` |
| `SessionView` | what a page behind `ProtectedRoute` may count on: a user, shown or not |
| `Session` | `AuthProvider`, `apiFetch`'s token, the routes and the public pages in the tabs of a browser; instantiates `SessionView` as `View` |
| `SessionProofs` | theorems about `Session` |
| `Dashboard` | extends `SessionView`: `DashboardPage`, `BotList` and `ResetBalanceModal` with the endpoints they call |
| `DashboardProofs` | theorems about `Dashboard` |
| `Totals` | the sum of a sequence, used by `PaperAudit` and `Rsi` |
| `NaturalFacts` | lemmas about natural numbers and totals for all proofs |
| `MCPaperTrading`, `MCBotLifecycle`, `MCAuthentication`, `MCMarketData`, `MCBotEvaluation`, `MCSession`, `MCDashboard` | symmetry sets and record-valued constants for TLC |

Definitions named `...Unconditional`, `...Leaky`, and the like, each introduced by a
comment "Mutant:", are deliberately wrong variants of the definition that follows them.
Each property is known to fail when one of them takes the place of the original; the
specifications never use them.

### Paper trading

One action is one awaited database statement together with the code up to the next
`await`. `pc[r]` is the statement that request `r` awaits, or how it ended.

| `pc` | code | action |
|---|---|---|
| `findWallet`, `createWallet` | `wallet.service.ts:31-44` | `FindWallet`, `CreateWallet` |
| `getTicker` | `order.service.ts:91-123` | `GetTicker`, `TickerUnavailable` |
| `recordRejected` | `order.service.ts:237-248` and the two rejecting branches 141-154, 204-217 | `RecordRejected` |
| `buyDebit`, `buyFind`, `buyUpsert`, `buyCommit` | `executeBuy` | `BuyDebit`/`BuyDebitMisses`, `BuyFind`, `BuyUpsert`, `BuyCommit` |
| `sellDebit`, `sellCredit`, `sellCommit` | `executeSell` | `SellDebit`/`SellDebitMisses`, `SellCredit`, `SellCommit` |
| `resetBalance`, `resetPositions`, `resetCommit` | `wallet.service.ts:69-84` | `ResetBalance`, `ResetLockPosition`/`ResetPositions`, `ResetCommit` |

The database is PostgreSQL at READ COMMITTED, Prisma's default:

- a write locks its row until the transaction ends (`balanceLock`, `positionLock`); the
  written row is in `draft[r]` until commit;
- `updateMany` with a condition is one conditional `UPDATE`. It evaluates the condition
  on the committed row once it holds the lock, and a row that does not match is skipped
  without waiting, so `BuyDebitMisses` needs no lock;
- `upsert` is `INSERT ... ON CONFLICT DO UPDATE`; an insert of a missing position takes
  the same lock, standing for the unique index entry;
- `deleteMany` locks its rows in any order; rows inserted later are not seen;
- a cycle of waits ends with one victim rolled back (`DeadlockVictim`). With one balance
  row, and position rows only ever waited for by a transaction that holds the balance or
  holds nothing, each cycle has two members;
- `Fault` is any other way a statement can fail: lost connection, Prisma's 5 s
  transaction timeout, process crash. All roll the transaction back. A statement that
  commits may also lose its answer on the way back (`Unacknowledged`): the request fails
  and what it wrote stays.

Of `getSummary` only the wallet creation changes state and is modelled here; what it and
`listOrders` read is in `Dashboard`, which shows it.

Units: amounts and ticker prices are integer numbers of stored units, the last digit of
`Decimal(24, 8)`. A quantity is a number of lots, `LotsPerUnit` of which make one unit of
the asset (`10^6` in the code, where quantities are cut to six decimals), so a quantity
times a price is in general no whole number of stored units, as in the code. Slippage and
fee are whole percents. What an order moves is therefore an integer number of fractions
of a stored unit, of which `Exact == 10000 * LotsPerUnit` make one, and `Notional`,
`Fee`, `TotalCost` and `Proceeds` are exact in them, as `Prisma.Decimal` computes them.
Rounding happens where the code stores: half-up, apart from each other, for the balance
(`Debited`, `Credited`), the fee (`Stored`), the executed price of the trade and the
entry price of a first buy (`StoredPrice`), and the averaged entry price
(`AveragedEntry`). The conditions `amount >= totalCost` and the minimum notional compare
exact values. Three roundings of the code are left out. decimal.js keeps 20 significant
digits, more than a product of a quantity and a price of ordinary size has; a longer one
would lose digits far below the stored unit. The default percents, 0.1 and 0.05, are no
whole ones; the model's are larger, which needs no smaller fractions than `Exact` counts
and makes the same things round. And `bot-evaluation.service.ts:123` passes a quantity
through a JavaScript number, which at six decimals comes back as it went in.

### Bots and exchange accounts

No handler opens a transaction, so each statement commits alone: `get` and the checks
after it (`AfterGet`), then `setStatus` or `delete` by id; `count`, `findAccount`,
`insert` in `create`; `findConnection`, `stopBots`, `deleteConnection` in `disconnect`.
An update or delete of a missing row and an insert with a dangling foreign key raise a
Prisma error (`serverError`). The exchange's answer in `connect` is nondeterministic.

The rules the API contract states (limit, pause, delete, disconnect) assume that nothing
changes between a handler's check and its write. The auxiliary `disturbed` holds the
requests in flight that another request's write overtook since they arrived;
`Overtaken(s)` says that the present step is the statement `s` of such a request. The
properties then say: whoever breaks the rule was overtaken.

### Authentication

One address. A statement's action includes the hash comparison that follows a read,
because it depends only on what was read. `now` is an abstract clock that may advance
between any two statements; expiry and lock times are computed when the code computes
them. `streak` (failures recorded since the latest success or lock), the `password` of a
challenge, and `undisturbed` (no two requests overlapped and none failed so far) are
auxiliary. All registration tokens of the address name the same user, so they are
represented by when the latest one expires.

### Market data

Tickers and candles are cached the same way, so a cache key stands for either. A datum
is represented by the time at which the exchange produced it. The code between two
awaits is one action: look up and start the first attempt (`Receive`), store and answer
(`Deliver`, `DeliverMalformed`), fail and pause or give up (`FailAttempt`), start the
next attempt (`Retry`). `Serve` is the exchange. A response that parses but lacks the
price is stored like any other (`Deliver`); one that cannot be read at all raises a
`TypeError` that nobody maps (`DeliverMalformed`). Timers fire when due: time does not
pass a deadline of a waiting request (`Tick`). A busy event loop can fire them later;
`EndsInTime`, `FreshAnswers` and `RegressionBounded` hold up to that delay.

### Bot evaluation and RSI

`pc[r]` is the call that evaluation `r` awaits: `getBot`, `getCandles`, `findPosition`,
`placeOrder`. `GetCandles` also contains the strategy, `FindPosition` the risk engine's
decision. `placeOrder` is one step, filled, rejected or refused, which `AtomicLedger`
justifies; of the wallet only the quantity held is kept, so a buy may always be rejected
(balance, minimum notional, ticker). All bots of a user share the position of a symbol,
and so do the user's own orders and the reset (`OwnBuy`, `OwnSell`, `ResetWallet`).
`SetStatus` and `DeleteBot` allow every change `BotLifecycle` can make, including those
its races produce. Quantities are in lots and prices per lot, so `Headroom \div price`
is the division followed by `placeOrder`'s truncation. The code computes RSI in floating
point, the model as an exact fraction.

### Frontend session

One action is one run of the browser's event loop: a click, the loading of a document,
or the code that resumes when a fetch settles. `calls` are the fetches in flight, which
settle in any order, or fail: `lib/api.ts` throws on a lost connection, on any error
status and on a body that is no JSON.

| Code | Actions |
|---|---|
| `AuthContext.tsx:30-49`, hydration | `Load` (`Open`, `Reload`), `HydrateAnswered`, `HydrateFailed` |
| `AuthContext.tsx:51-59` with `LoginPage.tsx:22-34` | `SubmitLogin`, `LoginAnswered`, `ProfileAnswered`, `FormFailed` |
| `AuthContext.tsx:61-65`, `AppHeader` | `Logout` |
| `RegisterPage.tsx`, `VerifyOtpPage.tsx` | `SubmitRegister`, `RegisterAnswered`, `SubmitCode`, `VerifyAnswered`, `FormFailed` |
| `ProtectedRoute.tsx`, `VerifyOtpPage.tsx:20-26` | `Redirected`, part of every action that renders |
| links and the address bar | `Go`, `Open` |
| `JWT_ACCESS_EXPIRES_IN` | `Expire` |

`tab[t]` holds both copies of the token, `api` (the module variable of `api.ts`) and
`token` (the provider's state); `stored` is `localStorage`, the only thing tabs share.
`handoff` is the registration token in the router state, which belongs to the history
entry and survives a reload. Text typed into a form is chosen when it is submitted.
`signedOut` and `confirmed` are auxiliary. Effects run once: React's double invocation
under `StrictMode` exists in development only.

`KeepsView` is the refinement `Session => SessionView` with `view[t]` the user of the
token `api` carries and whether the gate renders the dashboard. `Dashboard` extends
`SessionView` and needs nothing else of a session, so the two compose through it.

### Frontend dashboard

The page is mounted while its view is shown: `Mount` is `Show` with the load effect,
`Unmount` is `Leave` with its cleanup, `LoginAnswered` is `Switch`, a login whose form
was left behind. A fetch is sent with the token of that moment, served (`ServeWallet`,
`ServeOrders` and `ServeBots` of one load separately, in any order, as the server runs
them side by side; `ServeReset`, `ServeAction`) and delivered (`DeliverLoad`,
`DeliverReset`, `DeliverAction`), or lost on either way (`Lose`, `Forget`). The server's
operations are single steps here: that resets and orders are so is `AtomicLedger`, and
an action on a bot of this user is a read and a write that only another tab or device
could come between. A balance is known by how many changes of the wallet it reflects
(`wallet`, which fills and resets advance), enough to tell old from new; of the list of
orders only that it was read. `reset`, whether the balance shown is a reset's answer,
`inDoubt` and `swapped` are auxiliary.

## 3. Runs

| Run | Instance | Properties | Result |
|---|---|---|---|
| `paper_race` | 3 request slots, 3 requests, 2 symbols, 2 prices, all operations, faults | `NoOverdraft`, `NoShortSelling`, `ReadStillCurrent`, `WalletOpenBeforeTrading`, `HoldingsExplained`, `AtomicLedger` | hold |
| `paper_history` | 2 slots, 4 requests, 1 symbol, 2 prices, 4 lots to the unit, no faults | `BalanceExplained`, `AverageWithinFills`, `FillsNeverPay` | hold |
| `paper_answers` | 2 slots, 3 requests, faults, fairness | `EveryRequestAnswered` | holds |
| `paper_deadlock` | 2 slots, 3 orders on one symbol | `NoOrderDeadlock` | violated |
| `bots_concurrent` | 3 slots, 6 requests, 4 bots, 1 account, limit 1 | `AccountsExist`, `OvershootBounded`, `NoResurrection`, `BotLimit`, `PauseOnlyFromActive`, `DeleteOnlyStopped`, `DisconnectStopsUndisturbed` | hold |
| `bots_disconnect_race` | 2 slots, 1 bot, 1 account | `DisconnectStopsBots` | violated |
| `auth_concurrent` | 2 slots, 5 requests, faults, clock to 3, lock after 2 failures | `VerifiedIsActive`, `AttemptsBounded`, `ActiveStays`, `LockoutOnTime`, `ActivationPairsPassword`, `LockoutHoldsAlone` | hold |
| `auth_lock_erased` | 2 slots, 3 logins | `LockoutHolds` | violated |
| `market_data` | 2 slots, 1 key, life 1, timeout 2, 1 retry, clock to 8 | `EndsInTime`, `FreshAnswers`, `RegressionBounded` | hold |
| `bot_evaluation` | 2 slots, 1 bot, period 2, 3 prices, limit 3 | `TypeOK`, `RsiIsNetChange`, `ExposureBounded`, `StoppedBotsSettle`, `LimitRespected` | hold |
| `web_session` | 1 tab, 1 account, 3 fetches at a time, 2 successful logins, 3 documents, fairness | `TokensAgree`, `LogoutFinal`, `ConfirmedBeforeShown`, `HydrationEnds`, `KeepsView` | hold |
| `web_dashboard` | 1 tab, 2 accounts, 2 bots of one of them, 2 fetches at a time, 4 in all, fills up to a wallet's second change | `CardsAreTrue`, `PendingIsAwaited`, `BalanceGoesForward` | hold |

What the passing runs show:

- The buy reads its position with a plain `SELECT` and writes back absolute values,
  which would lose updates in general. `ReadStillCurrent` shows that it does not here,
  because the buy already holds the balance row, every other writer of the position
  takes the balance row before it can commit, and a sell that holds the position row
  first ends in a deadlock instead of an overwrite.
- `AtomicLedger` is the refinement `PaperTrading => PaperLedger`: the identity on
  balance, positions and orders. Requests, locks, drafts and failures are invisible in
  the ledger. An order whose answer was lost is in the ledger whole, one that failed
  before is not at all.
- The stored balance, the stored fees and the stored prices are rounded apart from each
  other, so the balance drifts from what the stored trades explain, in either direction;
  both directions occur in `paper_history`. `BalanceExplained` bounds the drift: half a
  stored unit for the balance and half a unit for the fee of every fill, and half a unit
  of the price on every unit of the asset it moved.
- Slippage and fee act against the user on both sides. `FillsNeverPay` weighs what a fill
  moved at the price the market quoted: the user never gains by it, rounding of the
  stored balance included, provided the fee of the smallest order is at least half a
  stored unit (`FeeCoversRounding`, true of the code's defaults by far); otherwise the
  gain is at most that half unit.
- For bots and authentication the rules the API contract states are checked where they
  hold, for requests that nothing overtook, in a run where everything else overlaps; and
  what is left of them under concurrency: the bot limit and the limit on wrong codes are
  overshot by at most the number of other requests in flight.
- An older price may replace a newer one in the cache, because concurrent refreshes of
  one key are not shared, but one older by at most one attempt's timeout
  (`RegressionBounded`), because what an aborted attempt was sent is dropped.
- The limit of a bot is checked against a position read earlier. Evaluations in flight
  together may all buy, but the excess does not accumulate: an evaluation that starts
  later sees what the earlier ones bought (`ExposureBounded`).
- `RsiIsNetChange` compares the code's averages of gains and losses with another
  definition: RSI is 50 plus half the net change of the window as a share of the path it
  travelled, for every window that the candles can form.
- No order of late answers splits the two copies of the token or brings back a session
  after a logout, though `login` and the hydration both go on after an `await`: `logout`
  cannot be overtaken by a login still waiting for its token, because the login page has
  no logout button, and what comes after the token neither sets it nor needs it.
- Hydration drops the stored token on any failure, a lost connection included, and also
  one another tab has stored meanwhile. That costs a login, but leaves the copies in
  step.
- A login answered after its page was left switches the session under a mounted
  dashboard, which does not load again and goes on showing the previous user's data; its
  next fetches and actions are the new user's. No document speaks of it, so it is
  described here and no property forbids it; `BalanceGoesForward`, which compares
  balances of one account, excepts exactly those tabs (`swapped`).
- `load` and `handleResetBalance` both set the balance, and nothing compares their
  answers. A load read before a reset is still never shown after it
  (`BalanceGoesForward`), because the button that opens the reset's modal is rendered
  only once the load has settled; a page that showed its cards during the load would
  break this. Two resets may overtake each other, and bring the same amount.
- All cards share one `pendingBotId`. An earlier action's answer clears it for a later
  one, so a card may be enabled while its action is under way, but never stays disabled
  (`PendingIsAwaited`), and each answer reaches its own card (`CardsAreTrue`).

What the violated runs show, each in a few steps:

- `paper_deadlock`: a buy holds the balance and waits for the position, a sell holds the
  position and waits for the balance.
- `bots_disconnect_race`: the bots are stopped, start activates one, the account is
  deleted and the bot only detached.
- `auth_lock_erased`: a login read the row before the lock and writes `lockedUntil:
  null` after it.

Three further consequences of concurrency are in the models, but no run is spent on
them: two first orders of a user both find no wallet, and the second insert hits the
unique key and throws (`CreateWallet` ends in `conflict`); remove reads `stopped`, start
activates the bot and remove deletes it; an evaluation whose headroom rounds down to
zero is refused with 400, though the contract promises 200 for an active bot
(`OrderRefused`).

Bounds. `MaxRequests` bounds how many requests are ever received; slots are reused, so a
bound larger than the number of slots lets new requests meet requests that started long
before. The wallet races need two writers and, with reset, a third; two symbols let
orders meet on the balance but not on a position. The default balance affords one lot at
the higher price or three at the lower, so orders compete; raw quantities include one
that rounds to zero and one in finer steps than a lot; the minimum notional rejects the
smallest sale at the lower price. The ticker prices are divisible by neither the lots nor
the percents, so that every stored value is rounded, up and down. `paper_history` trades concurrency for length: buy, sell and
buy again, sell to zero, reset in between. `market_data`'s clock lasts for a request
with all its attempts and pauses and for another one that meets its cache entry.
`bot_evaluation` has no bound on requests; the limit of 3 at prices 1, 2 and 4 buys
three lots, one lot with a remainder, or none. Symmetry permutes interchangeable
identities (requests, bots, accounts, passwords, codes) in the backend's runs except
`paper_answers`, where it would be unsound for liveness. `web_session` has one tab,
because another one only changes `stored`, which a document reads once and may find in
any state already; three fetches are a hydration, a login left behind and the form in
use; two logins and three documents let a token replace another and be found again. The
account is not active from the start, so a login first needs registration and code.
`web_dashboard` has a second account without bots, for a session that changes, and four
fetches: a load, two actions that overlap, resets or a second load; fills can come
before a load, between its parts and its answer, and between two resets. The proofs of
section 4 cover any number of tabs.

The final stuttering step `Drained` marks a state where every request is answered and
the bound is reached, so TLC's deadlock check still reports requests that wait for each
other.

Fairness. `FairSpec` assumes weak fairness of `Progress(r)`, the statements of request
`r`: the event loop resumes every handler and the database completes a statement that is
not waiting, and picks a deadlock victim. Nothing is assumed about arrivals or faults.
`SessionSpec` assumes weak fairness of settling each fetch: a browser resolves or
rejects every `fetch` whose document lives on. Nothing is assumed about users.

## 4. Proofs

### The wallet

`PaperTradingProofs` proves for any number of requests, symbols, quantities and prices,
and any fee and slippage percent up to 100:

| Theorem | States |
|---|---|
| `Invariance` | `Spec => []IInv` |
| `TypeCorrectness` | `Spec => []TypeOK` |
| `Solvency` | `Spec => []NoOverdraft` |
| `NoShort` | `Spec => []NoShortSelling` |
| `FreshRead` | `Spec => []ReadStillCurrent` |
| `WalletFirst` | `Spec => []WalletOpenBeforeTrading` |
| `Atomicity` | `Spec => AtomicLedger` |

None of these is inductive alone. `NoOverdraft` after a commit depends on the draft of
the committing request, which was computed from a balance that has not changed since
because the request holds its lock; that the position read is still current depends on
who may hold which lock while a buy is between its read and its commit. `IInv` says
exactly this: which locks a request holds at each `pc`, what its draft contains in terms
of the committed rows, that call fields have their types, and that committed amounts are
non-negative and a wallet exists for every request past `getOrCreateBalance`. The proof
has one lemma per action. `Atomicity` then maps `BuyCommit`, `SellCommit`,
`RecordRejected`, `ResetCommit` and `CreateWallet` to one ledger step each and every
other action to a stutter, using `IInv` for the values in the draft.

Assumptions used are the named ASSUMEs of `PaperMoney` and `PaperTrading` (percents
between 0 and 100, positive prices, non-negative default balance, distinct markers). TLC
evaluates them in every paper run.

The audit is proved on top of `IInv`:

| Theorem | States |
|---|---|
| `FillsCost` | `Spec => FillsNeverPay` |
| `AuditAgrees` | `Spec => []AuditInv` |
| `Holdings` | `Spec => []HoldingsExplained` |
| `BalanceAudited` | `Spec => []BalanceExplained` |
| `AverageAudited` | `Spec => []AverageWithinFills` |

`FillsNeverPay` needs to know that an order executes at a price quoted for its side and
is worth the minimum notional (`QuoteInv`), that an execution price is never on the good
side of the quote, and that the fee outweighs the rounding of the balance (`FeeCovers`,
`BalanceRounded`). A
filled order appends one record and changes balance and position by the draft, so each
audit total grows by one term (`TotalAppended`, `TradeAudited`); everything else leaves
both sides alone, and a reset empties both (`TrailCleared`). `RoundingDrift` bounds how far
a single order can move the balance from what its trade explains, in either direction,
from `QuotientHalf`: a stored quotient is at most half a unit from the exact one.
`AverageBetween` keeps a rounded weighted average between its two prices.

### Bots and exchange accounts

`BotLifecycleProofs` proves for any number of requests, bots, accounts and any limit:

| Theorem | States |
|---|---|
| `BotsInvariance` | `Spec => []IInv` |
| `BotsTypes` | `Spec => []TypeOK` |
| `AccountsKept` | `Spec => []AccountsExist` |
| `OvershootLimited` | `Spec => []OvershootBounded` |
| `LimitKept`, `PausesActive`, `RemovesStopped`, `DisconnectStops` | `Spec => BotLimit`, `PauseOnlyFromActive`, `DeleteOnlyStopped`, `DisconnectStopsUndisturbed` |
| `DeletedStays` | `Spec => NoResurrection` |

`OvershootBounded` alone is not inductive: an insert does not look at the count.
`Counted` adds the creates that were admitted and have not inserted yet to the bots that
exist; admission needs one bot less than the limit and there are no more admitted
creates than requests. The four rules rest on `Current(r)`: what `r` checked before its
present statement still holds, or `r` is disturbed. A step of `r` establishes it by its
own check (`OwnCurrent`), and a step of another request either writes nothing or
disturbs `r` (`OthersCurrent`). `Attached`, a bot that belongs to an account exists, is
what keeps a disconnect from meeting a bot that it would not stop. Assumed:
`BotsAssumption` (finite sets of requests and bots, a positive limit, a marker that is
no id).

### The session

`SessionProofs` proves for any number of tabs, fetches, accounts and tokens:

| Theorem | States |
|---|---|
| `SessionInvariance` | `SessionSpec => []IInv` |
| `SessionTypes` | `SessionSpec => []SessionTypeOK` |
| `TokenAgreement` | `SessionSpec => []TokensAgree` |
| `LogoutLasts` | `SessionSpec => []LogoutFinal` |
| `Confirmation` | `SessionSpec => []ConfirmedBeforeShown` |
| `ViewKept` | `SessionSpec => KeepsView` |

The strengthening says which fetches a tab can await in which state: a hydration only
while it is loading, no fetch that could still set a token in a tab that signed out,
tokens that are carried were issued. `ViewKept` then takes every action to `Show`,
`Leave`, `Switch` or a stutter of one tab. Assumed: `SessionAssumption`.

### Authentication

`AuthenticationProofs` proves for any number of requests and attempts, any limits and
any lengths of time:

| Theorem | States |
|---|---|
| `AuthenticationInvariance`, `AuthenticationTypes` | `Spec => []IInv`, `Spec => []TypeOK` |
| `VerifiedActive` | `Spec => []VerifiedIsActive` |
| `AttemptsLimited` | `Spec => []AttemptsBounded` |
| `LocksOnTime` | `Spec => []LockoutOnTime` |
| `StaysActive`, `ActivationPairs`, `LockHolds` | `Spec => ActiveStays`, `ActivationPairsPassword`, `LockoutHoldsAlone` |

`CountedInv` counts the wrong codes recorded on a challenge together with those found
wrong and not recorded yet (`Trying`): a request joins them only below the limit, so
together they stay below the limit plus the other requests. `Carries` says what a
request may rely on whatever the others did since it read. `AloneInv` says what holds as
long as no two requests overlapped and none failed: at most one is in flight, what it
read is still so (`Current`), the stored count of failures is the streak, and the latest
challenge was sent for the stored password. Assumed: `LimitAssumption` (positive limits
and durations, a finite set of requests, not empty) and `NoneAssumption` (null is no
row).

### Market data

`MarketDataProofs` proves for any number of requests and keys, any timeout, number of
retries, pauses and cache life:

| Theorem | States |
|---|---|
| `MarketInvariance`, `MarketTypes` | `Spec => []IInv`, `Spec => []TypeOK` |
| `RequestsEndInTime` | `Spec => []EndsInTime` |
| `AnswersFresh` | `Spec => FreshAnswers` |
| `RegressionLimited` | `Spec => RegressionBounded` |

A bound on the whole request is not inductive; `AttemptInv` and `PauseInv` bound the
deadline of the present attempt or pause by `Spent`, the time that so many attempts and
the doubling pauses between them can take, and `SpentGrows` adds one more of each. An
answer carried by an attempt is at most a timeout older than its timer, so an entry
expires at most a timeout and its life after its datum (`CacheInv`). Assumed:
`TimingAssumption` (positive timeout and pause, null is neither a time nor an entry,
the keys of the two caches differ).

### Bot evaluation and RSI

`BotEvaluationProofs` proves for any number of evaluations and bots, any limits, prices
and strategy parameters that `validateParameters` accepts:

| Theorem | States |
|---|---|
| `EvaluationInvariance`, `EvaluationTypes` | `Spec => []IInv`, `Spec => []TypeOK` |
| `ExposureLimited` | `Spec => []ExposureBounded` |
| `StoppedSettle` | `Spec => []StoppedBotsSettle` |
| `LimitKept` | `Spec => LimitRespected` |
| `IndexIsNetChange` | `Spec => []RsiIsNetChange` |

`ExposureInv` bounds the position together with the buys that were decided on and not
placed yet. An evaluation decides on a buy only under its bot's limit, counting the
position it reads, so the sum grows by one order per evaluation at most. The lots of
several pending buys are counted as a set of pairs (`LotsIn`), because cardinalities can
be proved about and sums over a set of requests cannot. `LateInv` counts late fills
together with the evaluations past the status check, in the same way. `IndexIsNetChange`
needs no invariant but the types: `GainsAndLosses` adds up gains, losses and path side by
side, by induction over the window. Assumed: `EvaluationAssumption` (finite sets,
positive limits and prices) and `ParametersAssumption`.

### The dashboard

`DashboardProofs` proves for any number of tabs, accounts, bots, fetches and fills,
over every behaviour that `SessionView` allows:

| Theorem | States |
|---|---|
| `DashboardInvariance`, `DashboardTypes` | `Spec => []IInv`, `Spec => []TypeOK` |
| `CardsTrue` | `Spec => []CardsAreTrue` |
| `PendingAwaited` | `Spec => []PendingIsAwaited` |
| `BalanceForward` | `Spec => BalanceGoesForward` |

What is shown comes from answers, so `IInv` says of the fetches in flight what the
properties say of the page: they belong to its user (`OwnInv`), no answer on the way is
newer than the wallet and no reset's answer older than the balance it replaces
(`ForwardInv`), a page that loads shows nothing and waits for one load and nothing else
(`LoadingInv`), and of a bot that is not in doubt at most one action is under way, whose
answer, once there, is the bot's row (`CardsInv`, `LoadedCardsInv`). With `ViewKept` this
covers the page under `Session`. Assumed: `DashboardAssumption` and `NoneAssumption`
(each bot has an owner; null is no account, bot, number, answer or fetch). TLC checked
this `IInv` on the instance of `web_dashboard` with one fill before it was proved.

### How induction is done

The provers cannot instantiate the library's induction theorems, which take an operator.
`NaturalFacts` states induction over a set instead: a set that has 0, and with each
number the next, has them all (`NaturalInduction`), from the well-foundedness of `<` on
pairs. `PowerOfTwo`, `GreatestOfFinite` and the lemmas on totals follow from it. `Total`
is a recursive function rather than a fold of the library, so that `TotalSteps` can show
that the function its equation describes exists.

### Only model-checked

`EveryRequestAnswered` and `HydrationEnds`: liveness under fairness is out of the
prover's reach. Every other property of a passing run is a theorem. The violated runs
state what does not hold, so there is nothing to prove. Every module states one `TypeOK`;
only `bot_evaluation` lists it among its run's properties.

## 5. Not modelled, and the plan

Not modelled because it is stateless or pure I/O: role checks, credential encryption,
configuration, health, users, bootstrap, presentation. Access tokens appear as what
`Session` distinguishes, accepted or expired; the exchange adapter as the outcomes
`connect` distinguishes. Rate limits of the controllers are left out: they only remove
behaviours. The value of a market datum is not modelled, so neither is a ticker whose
missing price becomes NaN. A client that repeats an order is not modelled: none in the
repository does, and orders carry no identity it could repeat.

Plan:

1. `BotEvaluation` on top of `PaperLedger` instead of a bare quantity, with its proofs.
2. The part of `Session` that `Dashboard` relies on as one specification of both, so that
   the composition is a theorem of its own and not an argument from `ViewKept`.

------------------------------ MODULE Dashboard ------------------------------
(***************************************************************************)
(* DashboardPage with BotList and ResetBalanceModal, and the endpoints it  *)
(* calls, in the tabs of a browser.  Of the session it sees a SessionView, *)
(* which Session implements: the page is mounted while its view is shown.  *)
(* Showing it starts its load, leaving it leaves its fetches without a     *)
(* reader.  A login answered in the background does neither: the page      *)
(* stays, and its next fetches are another user's.                         *)
(*                                                                         *)
(* A fetch is sent, served and delivered in three steps; it may be lost on *)
(* either way.                                                             *)
(***************************************************************************)
EXTENDS SessionView, Naturals

CONSTANTS
    Bots, BotOwner,     \* the bots, and per bot its account
    MaxAsks, MaxSent,   \* bounds on the page's fetches in flight and in all
    MaxTrades           \* bound on the wallets' changes when a fill is let in

ASSUME DashboardAssumption ==
    /\ None \notin Accounts \cup Bots
    /\ BotOwner \in [Bots -> Accounts]
    /\ MaxAsks \in Nat /\ MaxSent \in Nat /\ MaxTrades \in Nat

BotStatus == {"stopped", "active", "paused"}

Targets == [start |-> "active", pause |-> "paused", stop |-> "stopped"]

\* What a page holds.  "reset" is auxiliary: whether the balance it shows is
\* the answer of a reset, the default balance whichever reset it was.
Page == [loading : BOOLEAN, error : BOOLEAN, balance : Nat \cup {None}, reset : BOOLEAN,
         bots : [Bots -> BotStatus \cup {None}], pending : Bots \cup {None}, modal : BOOLEAN]

\* The fetches of a page, each with the answer it has so far.  Of the list of
\* orders it is only known that it was read: no rule here is about its length.
Ask ==
    LET Fetch(kinds, bots, answers) ==
          [tab : Tabs, live : BOOLEAN, kind : kinds, bot : bots, user : Accounts,
           answer : answers]
    IN  Fetch({"load"}, {None},
              [balance : Nat \cup {None}, orders : {"read", None},
               bots : [Bots -> BotStatus \cup {None}] \cup {None}])
          \cup Fetch({"reset"}, {None}, Nat \cup {None})
          \cup Fetch(DOMAIN Targets, Bots, BotStatus \cup {"refused", None})

\* null is none of the values that may take its place.
ASSUME NoneAssumption ==
    /\ None \notin Nat /\ None \notin BotStatus /\ None \notin {"read", "refused"}
    /\ None \notin [Bots -> BotStatus \cup {None}]
    /\ None \notin Ask

VARIABLES
    status,     \* per bot its status in the database
    wallet,     \* per account how often its wallet changed, by a fill or a
                \* reset: a balance is known by the changes it reflects
    board,      \* per tab what its mounted page holds
    asks,       \* per slot a fetch of a page, or None
    sent,       \* fetches of pages so far, bounded by MaxSent
    inDoubt,    \* auxiliary: per tab the bots with overlapping or lost actions
    swapped     \* auxiliary: tabs where a login switched the session under
                \* the mounted page

vars == <<view, status, wallet, board, asks, sent, inDoubt, swapped>>

AskSlots == 1..MaxAsks

Blank == [loading |-> TRUE, error |-> FALSE, balance |-> None, reset |-> FALSE,
          bots |-> [b \in Bots |-> None], pending |-> None, modal |-> FALSE]

Init ==
    /\ ViewInit
    /\ status = [b \in Bots |-> "stopped"]
    /\ wallet = [a \in Accounts |-> 0]
    /\ board = [t \in Tabs |-> Blank]
    /\ asks = [s \in AskSlots |-> None]
    /\ sent = 0
    /\ inDoubt = [t \in Tabs |-> {}]
    /\ swapped = {}

\* apiFetch, with the token it holds at that moment.
Send(t, kind, bot, answer) ==
    /\ sent < MaxSent
    /\ sent' = sent + 1
    /\ \E s \in AskSlots :
         /\ asks[s] = None /\ \A u \in 1..(s - 1) : asks[u] # None
         /\ asks' = [asks EXCEPT ![s] =
              [tab |-> t, live |-> TRUE, kind |-> kind, bot |-> bot, user |-> view[t].user,
               answer |-> answer]]

NothingRead == [balance |-> None, orders |-> None, bots |-> None]

IsAction(s) == asks[s] # None /\ asks[s].kind \in DOMAIN Targets

ActedOn(b) == \E s \in AskSlots : IsAction(s) /\ asks[s].bot = b

-----------------------------------------------------------------------------
(* The page follows the session. *)

\* The cleanup of the load effect, and React dropping what is set on a page
\* that is gone.
Left(t) ==
    [s \in AskSlots |-> IF asks[s] # None /\ asks[s].tab = t
                          THEN [asks[s] EXCEPT !.live = FALSE] ELSE asks[s]]

Mount(t) ==
    /\ Show(t)
    /\ board' = [board EXCEPT ![t] = Blank]
    /\ Send(t, "load", None, NothingRead)
    /\ inDoubt' = [inDoubt EXCEPT ![t] = {b \in Bots : ActedOn(b)}]
    /\ swapped' = swapped \ {t}
    /\ UNCHANGED <<status, wallet>>

Unmount(t) ==
    /\ Leave(t)
    /\ board' = [board EXCEPT ![t] = Blank]
    /\ asks' = Left(t)
    /\ inDoubt' = [inDoubt EXCEPT ![t] = {}]
    /\ swapped' = swapped \ {t}
    /\ UNCHANGED <<status, wallet, sent>>

LoginAnswered(t) ==
    /\ Switch(t)
    /\ swapped' = IF view[t].shown /\ view'[t].user # view[t].user
                    THEN swapped \cup {t} ELSE swapped
    /\ UNCHANGED <<status, wallet, board, asks, sent, inDoubt>>

-----------------------------------------------------------------------------
(* Clicks. *)

\* Mutant: the cards are shown above the notice that data is loading.
ReadyWhileLoading(t) == view[t].shown

\* The cards take the place of that notice once the load has ended.
Ready(t) == view[t].shown /\ ~board[t].loading

\* The buttons a card offers for the status it shows.
Offered(shown) ==
    {op \in DOMAIN Targets : CASE op = "start" -> shown # "active"
                               [] op = "pause" -> shown = "active"
                               [] op = "stop"  -> shown # "stopped"}

Enabled(t, b) == board[t].bots[b] # None /\ board[t].pending # b

\* handleBotAction up to its await.  There is one pendingBotId: a click on
\* another bot's card enables the buttons of the bot clicked before.
Click(t, b) ==
    /\ Ready(t) /\ Enabled(t, b)
    /\ \E op \in Offered(board[t].bots[b]) : Send(t, op, b, None)
    /\ board' = [board EXCEPT ![t].pending = b, ![t].error = FALSE]
    /\ inDoubt' = [u \in Tabs |-> IF u # t \/ ActedOn(b) THEN inDoubt[u] \cup {b}
                                                         ELSE inDoubt[u]]
    /\ UNCHANGED <<view, status, wallet, swapped>>

OpenModal(t) ==
    /\ Ready(t)
    /\ ~board[t].modal
    /\ board' = [board EXCEPT ![t].modal = TRUE]
    /\ UNCHANGED <<view, status, wallet, asks, sent, inDoubt, swapped>>

CancelModal(t) ==
    /\ view[t].shown /\ board[t].modal
    /\ board' = [board EXCEPT ![t].modal = FALSE]
    /\ UNCHANGED <<view, status, wallet, asks, sent, inDoubt, swapped>>

\* handleResetBalance up to its await; the modal stays open and enabled.
ConfirmReset(t) ==
    /\ view[t].shown /\ board[t].modal
    /\ Send(t, "reset", None, None)
    /\ UNCHANGED <<view, status, wallet, board, inDoubt, swapped>>

-----------------------------------------------------------------------------
(* The server, for the user of the fetch's token. *)

\* A fetch whose reader is gone is forgotten once it is served.
Answered(s, answer) ==
    asks' = [asks EXCEPT ![s] = IF @.live THEN [@ EXCEPT !.answer = answer] ELSE None]

Served(s, kind) ==
    /\ asks[s] # None /\ asks[s].kind = kind
    /\ UNCHANGED <<view, board, sent, inDoubt, swapped>>

\* The load's three requests are served each on its own.
ServeWallet(s) ==
    /\ Served(s, "load") /\ asks[s].answer.balance = None
    /\ Answered(s, [asks[s].answer EXCEPT !.balance = wallet[asks[s].user]])
    /\ UNCHANGED <<status, wallet>>

ServeOrders(s) ==
    /\ Served(s, "load") /\ asks[s].answer.orders = None
    /\ Answered(s, [asks[s].answer EXCEPT !.orders = "read"])
    /\ UNCHANGED <<status, wallet>>

ServeBots(s) ==
    /\ Served(s, "load") /\ asks[s].answer.bots = None
    /\ Answered(s, [asks[s].answer EXCEPT !.bots =
          [b \in Bots |-> IF BotOwner[b] = asks[s].user THEN status[b] ELSE None]])
    /\ UNCHANGED <<status, wallet>>

\* resetBalance answers the row it has written.
ServeReset(s) ==
    LET u == asks[s].user IN
    /\ Served(s, "reset")
    /\ asks[s].answer = None
    /\ wallet' = [wallet EXCEPT ![u] = @ + 1]
    /\ Answered(s, wallet[u] + 1)
    /\ UNCHANGED status

\* Another account's bot is not found; a stopped bot cannot be paused.
ServeAction(s) ==
    LET b == asks[s].bot
        op == asks[s].kind
    IN  /\ IsAction(s) /\ Served(s, op)
        /\ asks[s].answer = None
        /\ UNCHANGED wallet
        /\ IF BotOwner[b] # asks[s].user \/ (op = "pause" /\ status[b] = "stopped")
             THEN Answered(s, "refused") /\ UNCHANGED status
             ELSE Answered(s, Targets[op]) /\ status' = [status EXCEPT ![b] = Targets[op]]

\* Bots trade while the page is open.
Trade(a) ==
    /\ wallet[a] < MaxTrades
    /\ wallet' = [wallet EXCEPT ![a] = @ + 1]
    /\ UNCHANGED <<view, status, board, asks, sent, inDoubt, swapped>>

-----------------------------------------------------------------------------
(* The page resumes. *)

Waiting(s) == asks[s] # None /\ asks[s].live

Delivered(s) ==
    /\ asks' = [asks EXCEPT ![s] = None]
    /\ UNCHANGED <<view, status, wallet, sent, swapped>>

DeliverLoad(s) ==
    LET t == asks[s].tab
        read == asks[s].answer
    IN  /\ Waiting(s) /\ asks[s].kind = "load"
        /\ \A part \in DOMAIN read : read[part] # None
        /\ board' = [board EXCEPT ![t].balance = read.balance, ![t].reset = FALSE,
                                  ![t].bots = read.bots, ![t].loading = FALSE]
        /\ Delivered(s)
        /\ UNCHANGED inDoubt

DeliverReset(s) ==
    LET t == asks[s].tab IN
    /\ Waiting(s) /\ asks[s].kind = "reset" /\ asks[s].answer # None
    /\ board' = [board EXCEPT ![t].balance = asks[s].answer, ![t].reset = TRUE,
                              ![t].modal = FALSE]
    /\ Delivered(s)
    /\ UNCHANGED inDoubt

\* Mutant: the answer is written to the bot that is pending now.
DeliverActionToPending(s) ==
    LET t == asks[s].tab
        b == board[t].pending
    IN  /\ Waiting(s) /\ IsAction(s) /\ asks[s].answer # None
        /\ board' = [board EXCEPT ![t].pending = None,
             ![t].bots = IF b = None \/ asks[s].answer = "refused" THEN @
                           ELSE [@ EXCEPT ![b] = asks[s].answer],
             ![t].error = @ \/ asks[s].answer = "refused"]
        /\ Delivered(s)
        /\ UNCHANGED inDoubt

\* The bot answered replaces its card, and pendingBotId is cleared whichever
\* bot it names by now.
DeliverAction(s) ==
    LET t == asks[s].tab
        b == asks[s].bot
    IN  /\ Waiting(s) /\ IsAction(s) /\ asks[s].answer # None
        /\ board' = [board EXCEPT ![t].pending = None,
             ![t].bots[b] = IF asks[s].answer = "refused" THEN @ ELSE asks[s].answer,
             ![t].error = @ \/ asks[s].answer = "refused"]
        /\ Delivered(s)
        /\ UNCHANGED inDoubt

\* Mutant: pendingBotId is cleared on success only.
AfterFailureStuck(ask, page) ==
    CASE ask.kind = "load" -> [page EXCEPT !.error = TRUE, !.loading = FALSE]
      [] OTHER             -> [page EXCEPT !.error = TRUE]

\* What the page shows after a fetch that failed.
AfterFailure(ask, page) ==
    CASE ask.kind = "load"  -> [page EXCEPT !.error = TRUE, !.loading = FALSE]
      [] ask.kind = "reset" -> [page EXCEPT !.error = TRUE]
      [] OTHER              -> [page EXCEPT !.error = TRUE, !.pending = None]

\* A refused token, a server error or a lost connection.  The request may
\* have reached the server, or may still be on its way to it.
Lose(s) ==
    /\ Waiting(s)
    /\ LET t == asks[s].tab IN
         /\ board' = [board EXCEPT ![t] = AfterFailure(asks[s], @)]
         /\ inDoubt' = IF IsAction(s) THEN [inDoubt EXCEPT ![t] = @ \cup {asks[s].bot}]
                                      ELSE inDoubt
    /\ \/ asks' = [asks EXCEPT ![s] = None]
       \/ /\ asks[s].answer = None
          /\ asks' = [asks EXCEPT ![s].live = FALSE]
    /\ UNCHANGED <<view, status, wallet, sent, swapped>>

\* Without a reader, a request that never arrives changes nothing.
Forget(s) ==
    /\ asks[s] # None /\ ~asks[s].live
    /\ Delivered(s)
    /\ UNCHANGED <<board, inDoubt>>

-----------------------------------------------------------------------------
Resume(s) == DeliverLoad(s) \/ DeliverReset(s) \/ DeliverAction(s) \/ Lose(s)

Next ==
    \/ \E t \in Tabs :
          \/ Mount(t) \/ Unmount(t) \/ LoginAnswered(t)
          \/ \E b \in Bots : Click(t, b)
          \/ OpenModal(t) \/ CancelModal(t) \/ ConfirmReset(t)
    \/ \E s \in AskSlots :
          \/ ServeWallet(s) \/ ServeOrders(s) \/ ServeBots(s)
          \/ ServeReset(s) \/ ServeAction(s)
          \/ Resume(s) \/ Forget(s)
    \/ \E a \in Accounts : Trade(a)

Spec == Init /\ [][Next]_vars

-----------------------------------------------------------------------------
\* Types of the page and of the rows it is about; a page not shown is blank.
TypeOK ==
    /\ view \in [Tabs -> [user : Accounts \cup {None}, shown : BOOLEAN]]
    /\ status \in [Bots -> BotStatus]
    /\ wallet \in [Accounts -> Nat]
    /\ board \in [Tabs -> Page]
    /\ \A t \in Tabs : ~view[t].shown => board[t] = Blank
    /\ asks \in [AskSlots -> Ask \cup {None}]
    /\ sent \in 0..MaxSent
    /\ inDoubt \in [Tabs -> SUBSET Bots] /\ swapped \subseteq Tabs

\* A card shows its bot's status in the database once its action is
\* answered, though actions on several bots share one pendingBotId; except
\* for a bot whose actions overlapped or lost their answer.
CardsAreTrue ==
    \A t \in Tabs, b \in Bots :
        view[t].shown /\ board[t].bots[b] # None /\ b \notin inDoubt[t] /\ ~ActedOn(b) =>
            board[t].bots[b] = status[b]

\* A bot's buttons are never left disabled with no action of it under way.
PendingIsAwaited ==
    \A t \in Tabs : board[t].pending # None =>
        \E s \in AskSlots : Waiting(s) /\ asks[s].tab = t /\ asks[s].bot = board[t].pending

\* The balance shown goes back to an earlier one only from a reset's answer to
\* another's, which are the same amount: the load sent when the page opens
\* never arrives after the answer of a reset it was read before
\* (DashboardPage.tsx:57), because the reset's button comes with the load's
\* end.  Except where a login switched the account under the mounted page.
BalanceGoesForward ==
    [][\A t \in Tabs \ swapped :
          LET old == board[t]
              new == board'[t]
          IN  old.balance # None /\ new.balance # None /\ new.balance < old.balance =>
                  old.reset /\ new.reset]_vars

=============================================================================

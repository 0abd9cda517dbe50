-------------------------- MODULE DashboardProofs --------------------------
(***************************************************************************)
(* Dashboard's properties, for any number of tabs, accounts, bots, fetches *)
(* and fills, over every behaviour a SessionView allows.                  *)
(***************************************************************************)
EXTENDS Dashboard, TLAPS

\* A page is shown for an account, and only a shown page waits for fetches.
ShownInv ==
    /\ \A t \in Tabs : view[t].shown => view[t].user \in Accounts
    /\ \A s \in AskSlots : Waiting(s) => view[asks[s].tab].shown

\* A page that loads is untouched and waits for one fetch, its load.
LoadingInv ==
    /\ \A t \in Tabs : board[t].loading => board[t] = Blank
    /\ \A s \in AskSlots : Waiting(s) => (asks[s].kind = "load" <=> board[asks[s].tab].loading)
    /\ \A r, s \in AskSlots :
          Waiting(r) /\ Waiting(s) /\ asks[r].tab = asks[s].tab
             /\ asks[r].kind = "load" /\ asks[s].kind = "load" => r = s

\* What a page waits for is its user's.
OwnInv ==
    \A s \in AskSlots : Waiting(s) /\ asks[s].tab \notin swapped =>
        asks[s].user = view[asks[s].tab].user

\* Of a bot not in doubt at a shown page there is at most one action, that
\* page's, and the page waits for it; the card changes only with its answer.
CardsInv ==
    \A t \in Tabs, b \in Bots : view[t].shown /\ b \notin inDoubt[t] =>
        /\ \A r, s \in AskSlots :
              IsAction(r) /\ asks[r].bot = b /\ IsAction(s) /\ asks[s].bot = b => r = s
        /\ \A s \in AskSlots : IsAction(s) /\ asks[s].bot = b =>
              /\ asks[s].live /\ asks[s].tab = t
              /\ asks[s].answer \in {None, "refused"} \/ asks[s].answer = status[b]
        /\ \/ board[t].bots[b] = None \/ board[t].bots[b] = status[b]
           \/ \E s \in AskSlots : IsAction(s) /\ asks[s].bot = b /\ asks[s].answer = status[b]

\* While a page loads, the bots not in doubt are not acted on.
LoadedCardsInv ==
    \A s \in AskSlots : Waiting(s) /\ asks[s].kind = "load" =>
        \A b \in Bots : b \notin inDoubt[asks[s].tab] =>
            /\ ~ActedOn(b)
            /\ asks[s].answer.bots # None => asks[s].answer.bots[b] \in {None, status[b]}

\* A balance is of a wallet as it is or as it was.
AsOf(n, a) == n # None => n <= wallet[a]

\* What a page shows and what answers bring it is no newer than the wallet;
\* the answer of a reset is no older than what is shown, but for another
\* reset's answer.
ForwardInv ==
    /\ \A t \in Tabs : view[t].shown /\ t \notin swapped => AsOf(board[t].balance, view[t].user)
    /\ \A s \in AskSlots : Waiting(s) /\ asks[s].tab \notin swapped =>
          /\ asks[s].kind = "load" => AsOf(asks[s].answer.balance, asks[s].user)
          /\ asks[s].kind = "reset" => AsOf(asks[s].answer, asks[s].user)
          /\ asks[s].kind = "reset" /\ asks[s].answer # None =>
                LET page == board[asks[s].tab] IN
                page.balance # None /\ ~page.reset => page.balance <= asks[s].answer

IInv ==
    /\ TypeOK
    /\ ShownInv
    /\ LoadingInv
    /\ OwnInv
    /\ PendingIsAwaited
    /\ CardsInv
    /\ LoadedCardsInv
    /\ ForwardInv

-----------------------------------------------------------------------------
(* Fetches and pages. *)

\* The actions are the three buttons.
LEMMA Buttons == DOMAIN Targets = {"start", "pause", "stop"}
BY DEF Targets

\* What a fetch holds, by its kind.
LEMMA AskFields ==
    ASSUME NEW a \in Ask
    PROVE  /\ a # None
           /\ a.tab \in Tabs /\ a.live \in BOOLEAN /\ a.user \in Accounts
           /\ a.kind \in {"load", "reset", "start", "pause", "stop"}
           /\ a.kind \in {"load", "reset"} => a.bot = None
           /\ a.kind \in DOMAIN Targets =>
                 a.bot \in Bots /\ a.answer \in BotStatus \cup {"refused", None}
           /\ a.kind = "reset" => a.answer \in Nat \cup {None}
           /\ a.kind = "load" =>
                 a.answer \in [balance : Nat \cup {None}, orders : {"read", None},
                               bots : [Bots -> BotStatus \cup {None}] \cup {None}]
BY NoneAssumption, Buttons DEF Ask

\* The same of the fetches there are.
LEMMA AskIn ==
    ASSUME TypeOK, NEW s \in AskSlots, asks[s] # None
    PROVE  asks[s] \in Ask
BY DEF TypeOK

\* A fetch that nobody reads any more.
LEMMA AskDropped ==
    ASSUME NEW a \in Ask
    PROVE  LET d == [a EXCEPT !.live = FALSE] IN
           /\ d \in Ask /\ ~d.live /\ d.tab = a.tab /\ d.kind = a.kind
           /\ d.bot = a.bot /\ d.user = a.user /\ d.answer = a.answer
BY DEF Ask

\* A fetch that got an answer of its kind.
LEMMA AskAnswered ==
    ASSUME NEW a \in Ask, NEW answer,
           a.kind \in DOMAIN Targets => answer \in BotStatus \cup {"refused"},
           a.kind = "reset" => answer \in Nat,
           a.kind = "load" =>
               answer \in [balance : Nat \cup {None}, orders : {"read", None},
                           bots : [Bots -> BotStatus \cup {None}] \cup {None}]
    PROVE  LET d == [a EXCEPT !.answer = answer] IN
           /\ d \in Ask /\ d.answer = answer /\ d.tab = a.tab /\ d.kind = a.kind
           /\ d.bot = a.bot /\ d.user = a.user /\ d.live = a.live
BY Buttons DEF Ask

\* A page not shown is blank, and a blank page is a page.
LEMMA BlankPage ==
    /\ Blank \in Page /\ Blank.loading /\ ~Blank.modal /\ ~Blank.reset
    /\ Blank.pending = None /\ Blank.balance = None
    /\ \A b \in Bots : Blank.bots[b] = None
BY DEF Blank, Page

\* The strengthening holds before the first page is shown.
LEMMA InitHolds == Init => IInv
<1> SUFFICES ASSUME Init
             PROVE  IInv
  OBVIOUS
<1>1. /\ Blank \in Page /\ Blank.loading /\ Blank.pending = None /\ Blank.balance = None
  BY BlankPage
<1>2. \A s \in AskSlots : asks[s] = None
  BY DEF Init
<1>3. \A t \in Tabs : ~view[t].shown /\ board[t] = Blank
  BY DEF Init, ViewInit
<1>4. TypeOK
  BY <1>1, <1>3, DashboardAssumption DEF Init, ViewInit, TypeOK, BotStatus
<1>5. ShownInv /\ LoadingInv
  BY <1>1, <1>2, <1>3 DEF ShownInv, LoadingInv, Waiting
<1>6. OwnInv /\ PendingIsAwaited /\ ForwardInv
  BY <1>1, <1>2, <1>3 DEF OwnInv, PendingIsAwaited, ForwardInv, AsOf, Waiting
<1>7. CardsInv /\ LoadedCardsInv
  BY <1>2, <1>3 DEF CardsInv, LoadedCardsInv, Waiting
<1> QED BY <1>4, <1>5, <1>6, <1>7 DEF IInv

-----------------------------------------------------------------------------
(* Steps that leave the fetches alone. *)

\* A login answered in the background gives the page no fetch and takes none.
LEMMA LoginStep ==
    ASSUME IInv, NEW t \in Tabs, LoginAnswered(t)
    PROVE  IInv'
<1>0. TypeOK
  BY DEF IInv
<1>1. /\ UNCHANGED <<status, wallet, board, asks, sent, inDoubt>>
      /\ swapped' = IF view[t].shown /\ view'[t].user # view[t].user
                      THEN swapped \cup {t} ELSE swapped
  BY DEF LoginAnswered
<1>2. PICK u \in Accounts : view' = [view EXCEPT ![t].user = u]
  BY DEF LoginAnswered, Switch
<1>3. /\ view' \in [Tabs -> [user : Accounts \cup {None}, shown : BOOLEAN]]
      /\ view'[t].user = u /\ view'[t].shown = view[t].shown
      /\ \A v \in Tabs \ {t} : view'[v] = view[v]
  BY <1>0, <1>2 DEF TypeOK
<1>4. \A v \in Tabs : /\ view'[v].shown = view[v].shown
                      /\ view[v].shown /\ v \notin swapped' =>
                            v \notin swapped /\ view'[v].user = view[v].user
  BY <1>1, <1>3
<1>5. TypeOK'
  BY <1>0, <1>1, <1>3, <1>4 DEF TypeOK
<1>6. ShownInv' /\ LoadingInv' /\ PendingIsAwaited' /\ CardsInv' /\ LoadedCardsInv'
  <2>1. ShownInv'
    BY <1>0, <1>1, <1>3, <1>4, AskIn, AskFields DEF IInv, ShownInv, Waiting
  <2>2. LoadingInv' /\ PendingIsAwaited'
    BY <1>1 DEF IInv, LoadingInv, PendingIsAwaited, Waiting
  <2>3. CardsInv' /\ LoadedCardsInv'
    BY <1>1, <1>4 DEF IInv, CardsInv, LoadedCardsInv, Waiting, IsAction, ActedOn
  <2> QED BY <2>1, <2>2, <2>3
<1>7. \A s \in AskSlots : Waiting(s) => asks[s].tab \in Tabs /\ view[asks[s].tab].shown
  BY <1>0, AskIn, AskFields DEF IInv, ShownInv, Waiting
<1>8. OwnInv'
  BY <1>1, <1>4, <1>7 DEF IInv, OwnInv, Waiting
<1>9. ForwardInv'
  BY <1>1, <1>4, <1>7 DEF IInv, ForwardInv, Waiting, AsOf
<1> QED BY <1>5, <1>6, <1>8, <1>9 DEF IInv

\* A wallet that changes makes what was read older.
LEMMA WalletChanges ==
    ASSUME IInv, NEW a \in Accounts, wallet' = [wallet EXCEPT ![a] = @ + 1]
    PROVE  /\ wallet' \in [Accounts -> Nat] /\ wallet'[a] = wallet[a] + 1
           /\ \A c \in Accounts : wallet[c] \in Nat /\ wallet[c] <= wallet'[c]
           /\ \A n \in Nat \cup {None}, c \in Accounts : AsOf(n, c) => AsOf(n, c)'
<1>1. TypeOK
  BY DEF IInv
<1>2. /\ wallet' \in [Accounts -> Nat] /\ wallet'[a] = wallet[a] + 1
      /\ \A c \in Accounts : wallet[c] \in Nat /\ wallet[c] <= wallet'[c]
  BY <1>1 DEF TypeOK
<1>3. \A n \in Nat \cup {None}, c \in Accounts : AsOf(n, c) => AsOf(n, c)'
  BY <1>2 DEF AsOf
<1> QED BY <1>2, <1>3

\* A fill changes a wallet and no page.
LEMMA TradeStep ==
    ASSUME IInv, NEW a \in Accounts, Trade(a)
    PROVE  IInv'
<1>0. TypeOK
  BY DEF IInv
<1>1. /\ UNCHANGED <<view, status, board, asks, sent, inDoubt, swapped>>
      /\ wallet' = [wallet EXCEPT ![a] = @ + 1]
  BY DEF Trade
<1>2. /\ wallet' \in [Accounts -> Nat]
      /\ \A n \in Nat \cup {None}, c \in Accounts : AsOf(n, c) => AsOf(n, c)'
  BY <1>1, WalletChanges
<1>3. TypeOK'
  BY <1>0, <1>1, <1>2 DEF TypeOK
<1>4. ShownInv' /\ LoadingInv' /\ OwnInv' /\ PendingIsAwaited'
  BY <1>1 DEF IInv, ShownInv, LoadingInv, OwnInv, PendingIsAwaited, Waiting, Blank
<1>5. CardsInv' /\ LoadedCardsInv'
  BY <1>1 DEF IInv, CardsInv, LoadedCardsInv, Waiting, IsAction, ActedOn
<1>6. ForwardInv'
  <2>1. \A v \in Tabs : board[v].balance \in Nat \cup {None}
    BY <1>0 DEF TypeOK, Page
  <2>2. \A v \in Tabs : view[v].shown /\ v \notin swapped =>
           (AsOf(board[v].balance, view[v].user))'
    BY <1>1, <1>2, <2>1 DEF IInv, ShownInv, ForwardInv, AsOf
  <2>3. \A s \in AskSlots : Waiting(s) =>
           /\ asks[s].user \in Accounts
           /\ asks[s].kind = "load" => asks[s].answer.balance \in Nat \cup {None}
           /\ asks[s].kind = "reset" => asks[s].answer \in Nat \cup {None}
    BY <1>0, AskIn, AskFields DEF Waiting
  <2> QED BY <1>1, <1>2, <2>2, <2>3 DEF IInv, ForwardInv, Waiting, AsOf
<1> QED BY <1>3, <1>4, <1>5, <1>6 DEF IInv

\* Opening and cancelling the modal are about the modal only.
LEMMA ModalStep ==
    ASSUME IInv, NEW t \in Tabs, OpenModal(t) \/ CancelModal(t)
    PROVE  IInv'
<1>0. TypeOK
  BY DEF IInv
<1>1. /\ UNCHANGED <<view, status, wallet, asks, sent, inDoubt, swapped>>
      /\ view[t].shown
  BY DEF OpenModal, CancelModal, Ready
<1>2. PICK m \in BOOLEAN : board' = [board EXCEPT ![t].modal = m]
  BY DEF OpenModal, CancelModal
<1>3. ~board[t].loading
  BY <1>0 DEF OpenModal, CancelModal, Ready, IInv, LoadingInv, Blank, TypeOK, Page
<1>4. /\ board' \in [Tabs -> Page]
      /\ \A v \in Tabs \ {t} : board'[v] = board[v]
      /\ ~board'[t].loading /\ board'[t].bots = board[t].bots
      /\ board'[t].pending = board[t].pending /\ board'[t].balance = board[t].balance
      /\ board'[t].reset = board[t].reset
  <2> DEFINE page == [board[t] EXCEPT !.modal = m]
  <2>1. board' = [board EXCEPT ![t] = page] /\ board \in [Tabs -> Page]
    BY <1>0, <1>2 DEF TypeOK
  <2>2. /\ page \in Page /\ page.loading = board[t].loading /\ page.bots = board[t].bots
        /\ page.pending = board[t].pending /\ page.balance = board[t].balance
        /\ page.reset = board[t].reset
    BY <2>1 DEF Page
  <2> HIDE DEF page
  <2> QED BY <1>3, <2>1, <2>2
<1>5. TypeOK'
  BY <1>0, <1>1, <1>4 DEF TypeOK
<1>6. ShownInv' /\ LoadingInv'
  <2>1. ShownInv'
    BY <1>1 DEF IInv, ShownInv, Waiting
  <2>2. \A v \in Tabs : board'[v].loading = board[v].loading
    BY <1>3, <1>4, <1>0 DEF TypeOK, Page
  <2>3. \A s \in AskSlots : Waiting(s) => asks[s].tab \in Tabs
    BY <1>0, AskIn, AskFields DEF Waiting
  <2>4. \A v \in Tabs : board'[v].loading => board'[v] = board[v]
    BY <1>3, <1>4
  <2>5. \A v \in Tabs : (board[v].loading => board[v] = Blank)'
    BY <2>2, <2>4 DEF IInv, LoadingInv, Blank
  <2>6. \A s \in AskSlots : Waiting(s) => (asks[s].kind = "load" <=> board'[asks[s].tab].loading)
    BY <2>2, <2>3 DEF IInv, LoadingInv
  <2> QED BY <1>1, <2>1, <2>5, <2>6 DEF IInv, LoadingInv, Waiting, Blank
<1>7. OwnInv' /\ PendingIsAwaited'
  BY <1>1, <1>4 DEF IInv, OwnInv, PendingIsAwaited, Waiting
<1>8. CardsInv' /\ LoadedCardsInv'
  BY <1>1, <1>4 DEF IInv, CardsInv, LoadedCardsInv, Waiting, IsAction, ActedOn
<1>9. ForwardInv'
  <2>1. \A v \in Tabs : board'[v].balance = board[v].balance /\ board'[v].reset = board[v].reset
    BY <1>4
  <2>2. \A s \in AskSlots : Waiting(s) => asks[s].tab \in Tabs
    BY <1>0, AskIn, AskFields DEF Waiting
  <2> QED BY <1>1, <2>1, <2>2 DEF IInv, ForwardInv, Waiting, AsOf
<1> QED BY <1>5, <1>6, <1>7, <1>8, <1>9 DEF IInv

-----------------------------------------------------------------------------
(* Serving a fetch. *)

\* An answer changes nothing but the fetch it answers.
LEMMA ServedEffects ==
    ASSUME IInv, NEW s \in AskSlots, asks[s] # None, NEW d \in Ask,
           d.tab = asks[s].tab, d.kind = asks[s].kind, d.bot = asks[s].bot,
           d.user = asks[s].user, d.live = asks[s].live,
           asks' = [asks EXCEPT ![s] = IF asks[s].live THEN d ELSE None],
           UNCHANGED <<view, board, sent, inDoubt, swapped>>,
           status' \in [Bots -> BotStatus], wallet' \in [Accounts -> Nat]
    PROVE  /\ TypeOK' /\ ShownInv' /\ LoadingInv' /\ OwnInv' /\ PendingIsAwaited'
           /\ \A u \in AskSlots : asks'[u] # None =>
                 /\ asks[u] # None /\ (u # s => asks'[u] = asks[u]) /\ (u = s => asks'[u] = d)
                 /\ asks'[u].tab = asks[u].tab /\ asks'[u].kind = asks[u].kind
                 /\ asks'[u].bot = asks[u].bot /\ asks'[u].user = asks[u].user
                 /\ asks'[u].live = asks[u].live
           /\ \A u \in AskSlots : Waiting(u) => asks'[u] # None
<1>0. TypeOK
  BY DEF IInv
<1>1. asks \in [AskSlots -> Ask \cup {None}]
  BY <1>0 DEF TypeOK
<1>2. \A u \in AskSlots : asks'[u] = IF u = s THEN IF asks[s].live THEN d ELSE None ELSE asks[u]
  BY <1>1
<1>3. d # None
  BY AskFields
<1>4. \A u \in AskSlots : asks'[u] # None =>
         /\ asks[u] # None /\ (u # s => asks'[u] = asks[u]) /\ (u = s => asks'[u] = d)
         /\ asks'[u].tab = asks[u].tab /\ asks'[u].kind = asks[u].kind
         /\ asks'[u].bot = asks[u].bot /\ asks'[u].user = asks[u].user
         /\ asks'[u].live = asks[u].live
  BY <1>2, <1>3
<1>5. \A u \in AskSlots : Waiting(u) => asks'[u] # None
  BY <1>2, <1>3 DEF Waiting
<1>6. asks' \in [AskSlots -> Ask \cup {None}]
  BY <1>1
<1>7. TypeOK'
  BY <1>0, <1>6 DEF TypeOK
<1>8. ShownInv'
  BY <1>4 DEF IInv, ShownInv, Waiting
<1>9. LoadingInv'
  BY <1>4 DEF IInv, LoadingInv, Waiting
<1>10. OwnInv'
  BY <1>4 DEF IInv, OwnInv, Waiting
<1>11. PendingIsAwaited'
  <2> SUFFICES ASSUME NEW t \in Tabs, board[t].pending # None
               PROVE  \E u \in AskSlots :
                         /\ asks'[u] # None /\ asks'[u].live
                         /\ asks'[u].tab = t /\ asks'[u].bot = board[t].pending
    BY DEF PendingIsAwaited, Waiting
  <2>1. PICK u \in AskSlots : Waiting(u) /\ asks[u].tab = t /\ asks[u].bot = board[t].pending
    BY DEF IInv, PendingIsAwaited
  <2> QED BY <1>4, <1>5, <2>1 DEF Waiting
<1> QED BY <1>4, <1>5, <1>7, <1>8, <1>9, <1>10, <1>11

\* One of the load's three requests is served.
LEMMA ServeLoadStep ==
    ASSUME IInv, NEW s \in AskSlots, ServeWallet(s) \/ ServeOrders(s) \/ ServeBots(s)
    PROVE  IInv'
<1> DEFINE read == asks[s].answer
           mine == [b \in Bots |-> IF BotOwner[b] = asks[s].user THEN status[b] ELSE None]
<1>0. TypeOK
  BY DEF IInv
<1>1. /\ asks[s] # None /\ asks[s].kind = "load"
      /\ UNCHANGED <<view, status, wallet, board, sent, inDoubt, swapped>>
  BY DEF ServeWallet, ServeOrders, ServeBots, Served
<1>2. /\ asks[s] \in Ask /\ asks[s].user \in Accounts
      /\ read \in [balance : Nat \cup {None}, orders : {"read", None},
                   bots : [Bots -> BotStatus \cup {None}] \cup {None}]
  BY <1>0, <1>1, AskIn, AskFields
<1>3. mine \in [Bots -> BotStatus \cup {None}] /\ wallet[asks[s].user] \in Nat
  BY <1>0, <1>2 DEF TypeOK
<1>4. PICK answer \in [balance : Nat \cup {None}, orders : {"read", None},
                       bots : [Bots -> BotStatus \cup {None}] \cup {None}] :
         /\ Answered(s, answer)
         /\ answer.balance \in {read.balance, wallet[asks[s].user]}
         /\ answer.bots \in {read.bots, mine}
  <2>1. CASE ServeWallet(s)
    <3> DEFINE a == [read EXCEPT !.balance = wallet[asks[s].user]]
    <3>1. Answered(s, a)
      BY <2>1 DEF ServeWallet
    <3>2. /\ a \in [balance : Nat \cup {None}, orders : {"read", None},
                    bots : [Bots -> BotStatus \cup {None}] \cup {None}]
          /\ a.balance = wallet[asks[s].user] /\ a.orders = read.orders /\ a.bots = read.bots
      BY <1>2, <1>3
    <3> QED BY <3>1, <3>2
  <2>2. CASE ServeOrders(s)
    <3> DEFINE a == [read EXCEPT !.orders = "read"]
    <3>1. Answered(s, a)
      BY <2>2 DEF ServeOrders
    <3>2. /\ a \in [balance : Nat \cup {None}, orders : {"read", None},
                    bots : [Bots -> BotStatus \cup {None}] \cup {None}]
          /\ a.balance = read.balance /\ a.orders = "read" /\ a.bots = read.bots
      BY <1>2, <1>3
    <3> QED BY <3>1, <3>2
  <2>3. CASE ServeBots(s)
    <3> DEFINE a == [read EXCEPT !.bots = mine]
    <3>1. Answered(s, a)
      BY <2>3 DEF ServeBots
    <3>2. /\ a \in [balance : Nat \cup {None}, orders : {"read", None},
                    bots : [Bots -> BotStatus \cup {None}] \cup {None}]
          /\ a.balance = read.balance /\ a.orders = read.orders /\ a.bots = mine
      BY <1>2, <1>3
    <3> QED BY <3>1, <3>2
  <2> QED BY <2>1, <2>2, <2>3
<1> DEFINE d == [asks[s] EXCEPT !.answer = answer]
<1>5. /\ d \in Ask /\ d.answer = answer /\ d.tab = asks[s].tab /\ d.kind = asks[s].kind
      /\ d.bot = asks[s].bot /\ d.user = asks[s].user /\ d.live = asks[s].live
  BY <1>1, <1>2, Buttons, AskAnswered
<1>6. asks' = [asks EXCEPT ![s] = IF asks[s].live THEN d ELSE None]
  BY <1>0, <1>4 DEF Answered, TypeOK
<1> HIDE DEF d
<1>7. /\ TypeOK' /\ ShownInv' /\ LoadingInv' /\ OwnInv' /\ PendingIsAwaited'
      /\ \A u \in AskSlots : asks'[u] # None =>
            /\ asks[u] # None /\ (u # s => asks'[u] = asks[u]) /\ (u = s => asks'[u] = d)
            /\ asks'[u].tab = asks[u].tab /\ asks'[u].kind = asks[u].kind
            /\ asks'[u].bot = asks[u].bot /\ asks'[u].user = asks[u].user
            /\ asks'[u].live = asks[u].live
      /\ \A u \in AskSlots : Waiting(u) => asks'[u] # None
  <2>1. status' \in [Bots -> BotStatus] /\ wallet' \in [Accounts -> Nat]
    BY <1>0, <1>1 DEF TypeOK
  <2> QED BY <1>1, <1>5, <1>6, <2>1, ServedEffects
<1>8. \A u \in AskSlots : (IsAction(u)' <=> IsAction(u)) /\ (IsAction(u) => asks'[u] = asks[u])
  <2>1. \A u \in AskSlots : u # s => asks'[u] = asks[u]
    BY <1>0, <1>6 DEF TypeOK
  <2>2. ~IsAction(s) /\ ~IsAction(s)'
    BY <1>1, <1>7, Buttons DEF IsAction
  <2> QED BY <2>1, <2>2 DEF IsAction
<1>9. CardsInv'
  BY <1>1, <1>8 DEF IInv, CardsInv
<1>10. LoadedCardsInv'
  <2> SUFFICES ASSUME NEW u \in AskSlots, Waiting(u)', asks'[u].kind = "load",
                      NEW b \in Bots, b \notin inDoubt[asks'[u].tab]
               PROVE  /\ ~ActedOn(b)'
                      /\ asks'[u].answer.bots # None => asks'[u].answer.bots[b] \in {None, status[b]}
    BY <1>1 DEF LoadedCardsInv
  <2>1. /\ Waiting(u) /\ asks[u].kind = "load" /\ b \notin inDoubt[asks[u].tab]
    BY <1>7 DEF Waiting
  <2>2. /\ ~ActedOn(b)
        /\ asks[u].answer.bots # None => asks[u].answer.bots[b] \in {None, status[b]}
    BY <2>1 DEF IInv, LoadedCardsInv
  <2>3. ~ActedOn(b)'
    BY <1>8, <2>2 DEF ActedOn
  <2>4. CASE u # s
    BY <1>7, <2>2, <2>3, <2>4 DEF Waiting
  <2>5. CASE u = s
    <3>1. asks'[u].answer = answer
      BY <1>5, <1>7, <2>5 DEF Waiting
    <3>2. mine[b] \in {None, status[b]}
      OBVIOUS
    <3> QED BY <1>4, <2>2, <2>3, <2>5, <3>1, <3>2
  <2> QED BY <2>4, <2>5
<1>11. ForwardInv'
  <2> SUFFICES ASSUME NEW u \in AskSlots, Waiting(u)', asks'[u].tab \notin swapped
               PROVE  /\ asks'[u].kind = "load" => AsOf(asks'[u].answer.balance, asks'[u].user)
                      /\ asks'[u].kind = "reset" => AsOf(asks'[u].answer, asks'[u].user)
                      /\ asks'[u].kind = "reset" /\ asks'[u].answer # None =>
                            LET page == board[asks'[u].tab] IN
                            page.balance # None /\ ~page.reset => page.balance <= asks'[u].answer
    BY <1>1 DEF IInv, ForwardInv, AsOf
  <2>1. Waiting(u) /\ asks[u].tab \notin swapped
    BY <1>7 DEF Waiting
  <2>2. CASE u # s
    BY <1>7, <2>1, <2>2 DEF IInv, ForwardInv, Waiting
  <2>3. CASE u = s
    <3>1. /\ asks'[u].answer = answer /\ asks'[u].user = asks[s].user /\ asks'[u].kind = "load"
      BY <1>1, <1>5, <1>7, <2>3 DEF Waiting
    <3>2. AsOf(read.balance, asks[s].user)
      BY <1>1, <2>1, <2>3 DEF IInv, ForwardInv
    <3>3. AsOf(answer.balance, asks[s].user)
      BY <1>3, <1>4, <3>2 DEF AsOf
    <3> QED BY <3>1, <3>3
  <2> QED BY <2>2, <2>3
<1> QED BY <1>7, <1>9, <1>10, <1>11 DEF IInv

\* A reset is served; of the statuses it knows nothing.
LEMMA ServeResetStep ==
    ASSUME IInv, NEW s \in AskSlots, ServeReset(s)
    PROVE  IInv'
<1> DEFINE answer == wallet[asks[s].user] + 1
           d == [asks[s] EXCEPT !.answer = answer]
<1>0. TypeOK
  BY DEF IInv
<1>1. /\ asks[s] # None /\ asks[s].kind = "reset"
      /\ wallet' = [wallet EXCEPT ![asks[s].user] = @ + 1]
      /\ UNCHANGED <<view, status, board, sent, inDoubt, swapped>>
  BY DEF ServeReset, Served
<1>2. asks[s] \in Ask /\ asks[s].user \in Accounts
  BY <1>0, <1>1, AskIn, AskFields
<1>3. /\ wallet' \in [Accounts -> Nat] /\ answer \in Nat /\ answer = wallet'[asks[s].user]
      /\ \A c \in Accounts : wallet[c] \in Nat /\ wallet[c] <= wallet'[c]
      /\ \A n \in Nat \cup {None}, c \in Accounts : AsOf(n, c) => AsOf(n, c)'
  BY <1>1, <1>2, WalletChanges
<1>4. asks' = [asks EXCEPT ![s] = IF asks[s].live THEN d ELSE None]
  BY <1>0 DEF ServeReset, Answered, TypeOK
<1> HIDE DEF answer
<1>5. /\ d \in Ask /\ d.answer = answer /\ d.tab = asks[s].tab /\ d.kind = asks[s].kind
      /\ d.bot = asks[s].bot /\ d.user = asks[s].user /\ d.live = asks[s].live
  <2>1. answer \in Nat
    BY <1>3
  <2> QED BY <1>1, <1>2, <2>1, Buttons, AskAnswered
<1> HIDE DEF d
<1>6. /\ TypeOK' /\ ShownInv' /\ LoadingInv' /\ OwnInv' /\ PendingIsAwaited'
      /\ \A u \in AskSlots : asks'[u] # None =>
            /\ asks[u] # None /\ (u # s => asks'[u] = asks[u]) /\ (u = s => asks'[u] = d)
            /\ asks'[u].tab = asks[u].tab /\ asks'[u].kind = asks[u].kind
            /\ asks'[u].bot = asks[u].bot /\ asks'[u].user = asks[u].user
            /\ asks'[u].live = asks[u].live
      /\ \A u \in AskSlots : Waiting(u) => asks'[u] # None
  <2>1. status' \in [Bots -> BotStatus]
    BY <1>0, <1>1 DEF TypeOK
  <2> QED BY <1>1, <1>3, <1>4, <1>5, <2>1, ServedEffects
<1>7. \A u \in AskSlots : (IsAction(u)' <=> IsAction(u)) /\ (IsAction(u) => asks'[u] = asks[u])
  <2>1. \A u \in AskSlots : u # s => asks'[u] = asks[u]
    BY <1>0, <1>4 DEF TypeOK
  <2>2. ~IsAction(s) /\ ~IsAction(s)'
    BY <1>1, <1>6, Buttons DEF IsAction
  <2> QED BY <2>1, <2>2 DEF IsAction
<1>8. CardsInv'
  BY <1>1, <1>7 DEF IInv, CardsInv
<1>9. LoadedCardsInv'
  <2>1. \A u \in AskSlots : Waiting(u)' /\ asks'[u].kind = "load" =>
           Waiting(u) /\ asks'[u] = asks[u]
    BY <1>1, <1>6 DEF Waiting
  <2>2. \A b \in Bots : ActedOn(b)' <=> ActedOn(b)
    BY <1>7 DEF ActedOn
  <2> QED BY <1>1, <2>1, <2>2 DEF IInv, LoadedCardsInv
<1>10. ForwardInv'
  <2>1. \A v \in Tabs : board[v].balance \in Nat \cup {None}
    BY <1>0 DEF TypeOK, Page
  <2>2. \A v \in Tabs : view[v].shown /\ v \notin swapped =>
           (AsOf(board[v].balance, view[v].user))'
    BY <1>1, <1>3, <2>1 DEF IInv, ShownInv, ForwardInv, AsOf
  <2>3. ASSUME NEW u \in AskSlots, Waiting(u)', asks'[u].tab \notin swapped
        PROVE  /\ asks'[u].kind = "load" => (AsOf(asks[u].answer.balance, asks[u].user))'
               /\ asks'[u].kind = "reset" => (AsOf(asks[u].answer, asks[u].user))'
               /\ asks'[u].kind = "reset" /\ asks'[u].answer # None =>
                     LET page == board[asks'[u].tab] IN
                     page.balance # None /\ ~page.reset => page.balance <= asks'[u].answer
    <3>1. Waiting(u) /\ asks[u].tab \notin swapped
      BY <1>6, <2>3 DEF Waiting
    <3>2. CASE u # s
      <4>1. /\ asks'[u] = asks[u] /\ asks[u].user \in Accounts
            /\ asks[u].kind = "load" => asks[u].answer.balance \in Nat \cup {None}
            /\ asks[u].kind = "reset" => asks[u].answer \in Nat \cup {None}
        BY <1>0, <1>6, <2>3, <3>1, <3>2, AskIn, AskFields DEF Waiting
      <4> QED BY <1>3, <3>1, <4>1 DEF IInv, ForwardInv, AsOf
    <3>3. CASE u = s
      <4>1. /\ asks'[u].kind = "reset" /\ asks'[u].answer = answer
            /\ asks'[u].user = asks[s].user /\ asks'[u].tab = asks[s].tab
        BY <1>1, <1>5, <1>6, <2>3, <3>3 DEF Waiting
      <4>2. asks[s].tab \in Tabs
        BY <1>2, AskFields
      <4>3. view[asks[s].tab].shown /\ asks[s].user = view[asks[s].tab].user
        BY <3>1, <3>3 DEF IInv, ShownInv, OwnInv
      <4>4. board[asks[s].tab].balance # None => board[asks[s].tab].balance <= answer
        <5>1. asks[s].tab \notin swapped
          BY <3>1, <3>3
        <5> QED BY <1>1, <1>3, <2>2, <4>2, <4>3, <5>1 DEF AsOf
      <4>5. answer \in Nat /\ answer = wallet'[asks[s].user]
        BY <1>3
      <4>6. (AsOf(asks[u].answer, asks[u].user))'
        BY <4>1, <4>5 DEF AsOf
      <4> QED BY <4>1, <4>4, <4>6
    <3> QED BY <3>2, <3>3
  <2> QED BY <1>1, <2>2, <2>3 DEF ForwardInv, AsOf
<1> QED BY <1>6, <1>8, <1>9, <1>10 DEF IInv

\* An action is served: the row and the answer say the same, and no other
\* page that counts on the row sees it change.
LEMMA ServeActionStep ==
    ASSUME IInv, NEW s \in AskSlots, ServeAction(s)
    PROVE  IInv'
<1> DEFINE b == asks[s].bot
           d(answer) == [asks[s] EXCEPT !.answer = answer]
<1>0. TypeOK
  BY DEF IInv
<1>1. /\ IsAction(s) /\ asks[s] # None /\ asks[s].answer = None
      /\ UNCHANGED <<view, wallet, board, sent, inDoubt, swapped>>
  BY DEF ServeAction, Served, IsAction
<1>2. asks[s] \in Ask /\ b \in Bots /\ asks[s].kind \in DOMAIN Targets
  BY <1>0, <1>1, AskIn, AskFields DEF IsAction
<1>3. PICK answer \in BotStatus \cup {"refused"} :
         /\ Answered(s, answer)
         /\ \/ answer = "refused" /\ status' = status
            \/ answer \in BotStatus /\ status' = [status EXCEPT ![b] = answer]
  <2>1. Targets[asks[s].kind] \in BotStatus
    BY <1>2, Buttons DEF Targets, BotStatus
  <2> QED BY <2>1 DEF ServeAction
<1>4. asks' = [asks EXCEPT ![s] = IF asks[s].live THEN d(answer) ELSE None]
  BY <1>0, <1>3 DEF Answered, TypeOK
<1>5. LET a == d(answer) IN
      /\ a \in Ask /\ a.answer = answer /\ a.tab = asks[s].tab /\ a.kind = asks[s].kind
      /\ a.bot = asks[s].bot /\ a.user = asks[s].user /\ a.live = asks[s].live
  BY <1>2, <1>3, Buttons, AskAnswered
<1> DEFINE a == d(answer)
<1>6. /\ a \in Ask /\ a.answer = answer /\ a.tab = asks[s].tab /\ a.kind = asks[s].kind
      /\ a.bot = asks[s].bot /\ a.user = asks[s].user /\ a.live = asks[s].live
      /\ asks' = [asks EXCEPT ![s] = IF asks[s].live THEN a ELSE None]
  BY <1>4, <1>5
<1> HIDE DEF a, d
<1>7. /\ status' \in [Bots -> BotStatus] /\ \A c \in Bots \ {b} : status'[c] = status[c]
      /\ wallet' \in [Accounts -> Nat]
  BY <1>0, <1>1, <1>3 DEF TypeOK
<1>8. /\ TypeOK' /\ ShownInv' /\ LoadingInv' /\ OwnInv' /\ PendingIsAwaited'
      /\ \A u \in AskSlots : asks'[u] # None =>
            /\ asks[u] # None /\ (u # s => asks'[u] = asks[u]) /\ (u = s => asks'[u] = a)
            /\ asks'[u].tab = asks[u].tab /\ asks'[u].kind = asks[u].kind
            /\ asks'[u].bot = asks[u].bot /\ asks'[u].user = asks[u].user
            /\ asks'[u].live = asks[u].live
      /\ \A u \in AskSlots : Waiting(u) => asks'[u] # None
  BY <1>1, <1>6, <1>7, ServedEffects
<1>9. \A u \in AskSlots : IsAction(u)' => IsAction(u)
  BY <1>8 DEF IsAction
<1>10. CardsInv'
  <2> SUFFICES ASSUME NEW t \in Tabs, NEW c \in Bots, view[t].shown, c \notin inDoubt[t]
               PROVE  /\ \A q, u \in AskSlots :
                            IsAction(q)' /\ asks'[q].bot = c /\ IsAction(u)' /\ asks'[u].bot = c
                               => q = u
                      /\ \A u \in AskSlots : IsAction(u)' /\ asks'[u].bot = c =>
                            /\ asks'[u].live /\ asks'[u].tab = t
                            /\ asks'[u].answer \in {None, "refused"} \/ asks'[u].answer = status'[c]
                      /\ \/ board[t].bots[c] = None \/ board[t].bots[c] = status'[c]
                         \/ \E u \in AskSlots :
                               IsAction(u)' /\ asks'[u].bot = c /\ asks'[u].answer = status'[c]
    BY <1>1 DEF CardsInv
  <2>1. /\ \A q, u \in AskSlots :
              IsAction(q) /\ asks[q].bot = c /\ IsAction(u) /\ asks[u].bot = c => q = u
        /\ \A u \in AskSlots : IsAction(u) /\ asks[u].bot = c =>
              /\ asks[u].live /\ asks[u].tab = t
              /\ asks[u].answer \in {None, "refused"} \/ asks[u].answer = status[c]
        /\ \/ board[t].bots[c] = None \/ board[t].bots[c] = status[c]
           \/ \E u \in AskSlots : IsAction(u) /\ asks[u].bot = c /\ asks[u].answer = status[c]
    BY DEF IInv, CardsInv
  <2>2. \A q, u \in AskSlots :
           IsAction(q)' /\ asks'[q].bot = c /\ IsAction(u)' /\ asks'[u].bot = c => q = u
    BY <1>8, <1>9, <2>1 DEF IsAction
  <2>3. CASE c = b
    <3>1. asks[s].live
      BY <1>1, <2>1, <2>3
    <3>2. asks'[s] = a /\ IsAction(s)' /\ asks'[s].bot = c
      BY <1>1, <1>2, <1>6, <1>8, <2>3, <3>1, AskFields DEF IsAction, Waiting
    <3>3. \A u \in AskSlots : IsAction(u)' /\ asks'[u].bot = c => u = s
      BY <2>2, <3>2
    <3>4. board[t].bots[c] = None \/ board[t].bots[c] = status[c]
      <4>1. status[c] \in BotStatus
        BY <1>0 DEF TypeOK
      <4> QED BY <1>1, <2>1, <2>3, <4>1, NoneAssumption
    <3>5. answer = "refused" \/ status'[c] = answer
      BY <1>0, <1>2, <1>3, <2>3 DEF TypeOK
    <3>6. \A u \in AskSlots : IsAction(u)' /\ asks'[u].bot = c =>
             /\ asks'[u].live /\ asks'[u].tab = t
             /\ asks'[u].answer \in {None, "refused"} \/ asks'[u].answer = status'[c]
      BY <1>1, <1>6, <2>1, <2>3, <3>2, <3>3, <3>5
    <3>7. \/ board[t].bots[c] = None \/ board[t].bots[c] = status'[c]
          \/ \E u \in AskSlots : IsAction(u)' /\ asks'[u].bot = c /\ asks'[u].answer = status'[c]
      <4>1. CASE answer = "refused"
        <5>1. status' = status
          BY <1>3, <4>1 DEF BotStatus
        <5> QED BY <3>4, <5>1
      <4>2. CASE answer # "refused"
        BY <1>6, <3>2, <3>5, <4>2
      <4> QED BY <4>1, <4>2
    <3> QED BY <2>2, <3>6, <3>7
  <2>4. CASE c # b
    <3>1. status'[c] = status[c]
      BY <1>7, <2>4
    <3>2. \A u \in AskSlots : IsAction(u) /\ asks[u].bot = c => u # s /\ asks'[u] = asks[u]
      BY <1>0, <1>6, <2>4 DEF TypeOK
    <3>3. \A u \in AskSlots : IsAction(u)' /\ asks'[u].bot = c =>
             IsAction(u) /\ asks[u].bot = c /\ asks'[u] = asks[u]
      BY <1>8, <1>9, <3>2 DEF IsAction
    <3>4. \A u \in AskSlots : IsAction(u) /\ asks[u].bot = c => IsAction(u)'
      BY <3>2 DEF IsAction
    <3> QED BY <2>1, <2>2, <3>1, <3>2, <3>3, <3>4
  <2> QED BY <2>3, <2>4
<1>11. LoadedCardsInv'
  <2> SUFFICES ASSUME NEW u \in AskSlots, Waiting(u)', asks'[u].kind = "load",
                      NEW c \in Bots, c \notin inDoubt[asks'[u].tab]
               PROVE  /\ ~ActedOn(c)'
                      /\ asks'[u].answer.bots # None => asks'[u].answer.bots[c] \in {None, status'[c]}
    BY <1>1 DEF LoadedCardsInv
  <2>1. Waiting(u) /\ asks[u].kind = "load" /\ c \notin inDoubt[asks[u].tab]
    BY <1>8 DEF Waiting
  <2>2. /\ ~ActedOn(c)
        /\ asks[u].answer.bots # None => asks[u].answer.bots[c] \in {None, status[c]}
    BY <2>1 DEF IInv, LoadedCardsInv
  <2>3. ~ActedOn(c)'
    BY <1>8, <1>9, <2>2 DEF ActedOn, IsAction
  <2>4. c # b /\ u # s
    BY <1>1, <2>1, <2>2, Buttons DEF ActedOn, IsAction
  <2> QED BY <1>7, <1>8, <2>2, <2>3, <2>4 DEF Waiting
<1>12. ForwardInv'
  <2>1. \A u \in AskSlots : Waiting(u)' /\ asks'[u].kind \in {"load", "reset"} =>
           Waiting(u) /\ asks'[u] = asks[u]
    BY <1>2, <1>8, Buttons DEF Waiting
  <2> QED BY <1>1, <2>1 DEF IInv, ForwardInv, AsOf
<1> QED BY <1>8, <1>10, <1>11, <1>12 DEF IInv

-----------------------------------------------------------------------------
(* The page resumes. *)

\* A fetch taken by its page leaves the other fetches and pages as they were;
\* what the page shows then is what it may show.
LEMMA Resumed ==
    ASSUME IInv, NEW s \in AskSlots, Waiting(s), NEW t \in Tabs, t = asks[s].tab,
           NEW page \in Page, ~page.loading,
           board' = [board EXCEPT ![t] = page],
           \/ asks' = [asks EXCEPT ![s] = None]
           \/ asks' = [asks EXCEPT ![s].live = FALSE],
           UNCHANGED <<view, status, wallet, sent, swapped>>,
           inDoubt' \in [Tabs -> SUBSET Bots], \A v \in Tabs : inDoubt[v] \subseteq inDoubt'[v],
           page.pending = None \/ (page.pending = board[t].pending /\ ~IsAction(s)),
           \A b \in Bots : IF IsAction(s) /\ asks[s].bot = b
             THEN b \in inDoubt'[t] \/ (asks'[s] = None /\ page.bots[b] \in {None, status[b]})
             ELSE b \in inDoubt'[t] \/ page.bots[b] \in {board[t].bots[b], None, status[b]},
           t \notin swapped => AsOf(page.balance, view[t].user),
           \/ page.reset \/ asks[s].kind = "load"
           \/ page.balance = board[t].balance /\ page.reset = board[t].reset
    PROVE  IInv'
<1>0. TypeOK
  BY DEF IInv
<1>1. asks[s] \in Ask /\ asks[s] # None /\ asks[s].live
  BY <1>0, AskIn DEF Waiting
<1> DEFINE d == [asks[s] EXCEPT !.live = FALSE]
<1>2. /\ d \in Ask /\ ~d.live /\ d.tab = asks[s].tab /\ d.kind = asks[s].kind
      /\ d.bot = asks[s].bot /\ d.user = asks[s].user /\ d.answer = asks[s].answer
  BY <1>1, AskDropped
<1>3. asks' = [asks EXCEPT ![s] = None] \/ asks' = [asks EXCEPT ![s] = d]
  BY <1>0 DEF TypeOK
<1> HIDE DEF d
<1>4. /\ asks' \in [AskSlots -> Ask \cup {None}]
      /\ \A u \in AskSlots : u # s => asks'[u] = asks[u]
      /\ asks'[s] = None \/ asks'[s] = d
  BY <1>0, <1>2, <1>3 DEF TypeOK
<1>5. \A u \in AskSlots : Waiting(u)' <=> Waiting(u) /\ u # s
  BY <1>2, <1>4 DEF Waiting
<1>6. \A u \in AskSlots : Waiting(u) => asks[u] \in Ask /\ asks[u].tab \in Tabs
  BY <1>0, AskIn, AskFields DEF Waiting
<1>7. /\ board' \in [Tabs -> Page] /\ board'[t] = page
      /\ \A v \in Tabs : v # t => board'[v] = board[v]
  BY <1>0 DEF TypeOK
<1>8. view[t].shown
  BY DEF IInv, ShownInv
<1>9. \A u \in AskSlots : IsAction(u)' =>
         IsAction(u) /\ asks'[u].bot = asks[u].bot /\ asks'[u].tab = asks[u].tab
  BY <1>1, <1>2, <1>4 DEF IsAction
<1>10. TypeOK'
  BY <1>0, <1>4, <1>7, <1>8 DEF TypeOK
<1>11. ShownInv'
  BY <1>4, <1>5 DEF IInv, ShownInv
<1>12. LoadingInv'
  <2>1. \A v \in Tabs : board'[v].loading => board'[v] = Blank
    BY <1>7 DEF IInv, LoadingInv
  <2>2. \A u \in AskSlots : Waiting(u) /\ u # s =>
           (asks[u].kind = "load" <=> board'[asks[u].tab].loading)
    <3> SUFFICES ASSUME NEW u \in AskSlots, Waiting(u), u # s
                 PROVE  asks[u].kind = "load" <=> board'[asks[u].tab].loading
      OBVIOUS
    <3>1. asks[u].kind = "load" <=> board[asks[u].tab].loading
      BY DEF IInv, LoadingInv
    <3>2. asks[s].kind = "load" <=> board[t].loading
      BY DEF IInv, LoadingInv
    <3>3. asks[u].tab = t => asks[u].kind # "load"
      BY <3>1, <3>2 DEF IInv, LoadingInv
    <3> QED BY <1>6, <1>7, <3>1, <3>3
  <2>3. \A q, u \in AskSlots :
           Waiting(q)' /\ Waiting(u)' /\ asks'[q].tab = asks'[u].tab
              /\ asks'[q].kind = "load" /\ asks'[u].kind = "load" => q = u
    BY <1>4, <1>5 DEF IInv, LoadingInv
  <2>4. \A u \in AskSlots :
           Waiting(u)' => (asks'[u].kind = "load" <=> board'[asks'[u].tab].loading)
    BY <1>4, <1>5, <2>2
  <2>5. \A v \in Tabs : (board[v].loading => board[v] = Blank)'
    BY <2>1 DEF Blank
  <2> QED BY <2>3, <2>4, <2>5 DEF LoadingInv
<1>13. OwnInv'
  BY <1>4, <1>5 DEF IInv, OwnInv
<1>14. PendingIsAwaited'
  <2> SUFFICES ASSUME NEW v \in Tabs, board'[v].pending # None
               PROVE  \E u \in AskSlots :
                         Waiting(u)' /\ asks'[u].tab = v /\ asks'[u].bot = board'[v].pending
    BY DEF PendingIsAwaited
  <2>1. board'[v].pending = board[v].pending /\ (v = t => ~IsAction(s))
    BY <1>7
  <2>2. PICK u \in AskSlots : Waiting(u) /\ asks[u].tab = v /\ asks[u].bot = board[v].pending
    BY <2>1 DEF IInv, PendingIsAwaited
  <2>3. u # s
    <3>1. ~IsAction(s) => asks[s].bot = None
      BY <1>1, AskFields, Buttons DEF IsAction
    <3> QED BY <2>1, <2>2, <3>1
  <2> QED BY <1>4, <1>5, <2>1, <2>2, <2>3
<1>15. CardsInv'
  <2> SUFFICES ASSUME NEW v \in Tabs, NEW b \in Bots, view[v].shown, b \notin inDoubt'[v]
               PROVE  /\ \A q, u \in AskSlots :
                            IsAction(q)' /\ asks'[q].bot = b /\ IsAction(u)' /\ asks'[u].bot = b
                               => q = u
                      /\ \A u \in AskSlots : IsAction(u)' /\ asks'[u].bot = b =>
                            /\ asks'[u].live /\ asks'[u].tab = v
                            /\ asks'[u].answer \in {None, "refused"} \/ asks'[u].answer = status[b]
                      /\ \/ board'[v].bots[b] = None \/ board'[v].bots[b] = status[b]
                         \/ \E u \in AskSlots :
                               IsAction(u)' /\ asks'[u].bot = b /\ asks'[u].answer = status[b]
    BY DEF CardsInv
  <2>0. b \notin inDoubt[v]
    OBVIOUS
  <2>1. /\ \A q, u \in AskSlots :
              IsAction(q) /\ asks[q].bot = b /\ IsAction(u) /\ asks[u].bot = b => q = u
        /\ \A u \in AskSlots : IsAction(u) /\ asks[u].bot = b =>
              /\ asks[u].live /\ asks[u].tab = v
              /\ asks[u].answer \in {None, "refused"} \/ asks[u].answer = status[b]
        /\ \/ board[v].bots[b] = None \/ board[v].bots[b] = status[b]
           \/ \E u \in AskSlots : IsAction(u) /\ asks[u].bot = b /\ asks[u].answer = status[b]
    BY <2>0 DEF IInv, CardsInv
  <2>2. CASE IsAction(s) /\ asks[s].bot = b
    <3>1. v = t /\ asks'[s] = None /\ page.bots[b] \in {None, status[b]}
      BY <2>1, <2>2
    <3>2. \A u \in AskSlots : ~(IsAction(u)' /\ asks'[u].bot = b)
      BY <1>9, <2>1, <2>2, <3>1 DEF IsAction
    <3> QED BY <1>7, <3>1, <3>2
  <2>3. CASE ~(IsAction(s) /\ asks[s].bot = b)
    <3>1. \A u \in AskSlots : IsAction(u)' /\ asks'[u].bot = b =>
             IsAction(u) /\ asks[u].bot = b /\ asks'[u] = asks[u]
      BY <1>4, <1>9, <2>3
    <3>2. \A u \in AskSlots : IsAction(u) /\ asks[u].bot = b => IsAction(u)' /\ asks'[u] = asks[u]
      BY <1>4, <2>3 DEF IsAction
    <3>3. board'[v].bots[b] \in {board[v].bots[b], None, status[b]}
      BY <1>7, <2>3
    <3> QED BY <2>1, <3>1, <3>2, <3>3
  <2> QED BY <2>2, <2>3
<1>16. LoadedCardsInv'
  <2> SUFFICES ASSUME NEW u \in AskSlots, Waiting(u)', asks'[u].kind = "load",
                      NEW b \in Bots, b \notin inDoubt'[asks'[u].tab]
               PROVE  /\ ~ActedOn(b)'
                      /\ asks'[u].answer.bots # None => asks'[u].answer.bots[b] \in {None, status[b]}
    BY DEF LoadedCardsInv
  <2>1. Waiting(u) /\ asks'[u] = asks[u] /\ b \notin inDoubt[asks[u].tab]
    BY <1>4, <1>5, <1>6
  <2>2. /\ ~ActedOn(b)
        /\ asks[u].answer.bots # None => asks[u].answer.bots[b] \in {None, status[b]}
    BY <2>1 DEF IInv, LoadedCardsInv
  <2>3. ~ActedOn(b)'
    BY <1>9, <2>2 DEF ActedOn
  <2> QED BY <2>1, <2>2, <2>3
<1>17. ForwardInv'
  <2>1. \A v \in Tabs : view[v].shown /\ v \notin swapped => AsOf(board'[v].balance, view[v].user)
    BY <1>7 DEF IInv, ForwardInv
  <2>2. ASSUME NEW u \in AskSlots, Waiting(u)', asks'[u].tab \notin swapped
        PROVE  /\ asks'[u] = asks[u]
               /\ asks[u].kind = "load" => AsOf(asks[u].answer.balance, asks[u].user)
               /\ asks[u].kind = "reset" => AsOf(asks[u].answer, asks[u].user)
               /\ asks[u].kind = "reset" /\ asks[u].answer # None =>
                     LET held == board'[asks[u].tab] IN
                     held.balance # None /\ ~held.reset => held.balance <= asks[u].answer
    <3>1. Waiting(u) /\ u # s /\ asks'[u] = asks[u] /\ asks[u].tab \in Tabs
      BY <1>4, <1>5, <1>6, <2>2
    <3>2. asks[u].kind = "reset" /\ asks[u].tab = t => asks[s].kind # "load"
      BY <3>1 DEF IInv, LoadingInv
    <3>3. asks[u].kind = "reset" => \/ board'[asks[u].tab].reset
                                    \/ /\ board'[asks[u].tab].balance = board[asks[u].tab].balance
                                       /\ board'[asks[u].tab].reset = board[asks[u].tab].reset
      BY <1>7, <3>1, <3>2
    <3> QED BY <2>2, <3>1, <3>3 DEF IInv, ForwardInv
  <2> QED BY <2>1, <2>2 DEF ForwardInv, AsOf
<1> QED BY <1>10, <1>11, <1>12, <1>13, <1>14, <1>15, <1>16, <1>17 DEF IInv

\* A load that answers ends the page's loading.
LEMMA DeliverLoadStep ==
    ASSUME IInv, NEW s \in AskSlots, DeliverLoad(s)
    PROVE  IInv'
<1> DEFINE t == asks[s].tab
           read == asks[s].answer
           page == [board[t] EXCEPT !.balance = read.balance, !.reset = FALSE,
                                    !.bots = read.bots, !.loading = FALSE]
<1>0. TypeOK
  BY DEF IInv
<1>1. /\ Waiting(s) /\ asks[s].kind = "load"
      /\ asks' = [asks EXCEPT ![s] = None]
      /\ UNCHANGED <<view, status, wallet, sent, swapped, inDoubt>>
  BY DEF DeliverLoad, Delivered
<1>2. asks[s] \in Ask /\ t \in Tabs /\ asks[s].user \in Accounts /\ ~IsAction(s)
  BY <1>0, <1>1, AskIn, AskFields, Buttons DEF Waiting, IsAction
<1>3. /\ read \in [balance : Nat \cup {None}, orders : {"read", None},
                   bots : [Bots -> BotStatus \cup {None}] \cup {None}]
      /\ read.balance # None /\ read.bots # None
  <2>1. read \in [balance : Nat \cup {None}, orders : {"read", None},
                  bots : [Bots -> BotStatus \cup {None}] \cup {None}]
    BY <1>1, <1>2, AskFields
  <2>2. DOMAIN read = {"balance", "orders", "bots"}
    BY <2>1
  <2>3. \A part \in DOMAIN read : read[part] # None
    BY DEF DeliverLoad
  <2> QED BY <2>1, <2>2, <2>3
<1>4. board' = [board EXCEPT ![t] = page]
  BY <1>0, <1>2 DEF DeliverLoad, TypeOK, Page
<1>5. board[t] \in Page /\ read.bots \in [Bots -> BotStatus \cup {None}]
  BY <1>0, <1>2, <1>3 DEF TypeOK
<1>6. /\ page \in Page /\ ~page.loading /\ page.pending = board[t].pending
      /\ page.balance = read.balance /\ page.bots = read.bots
  <2>1. read.balance \in Nat \cup {None}
    BY <1>3
  <2> QED BY <1>2, <1>5, <2>1 DEF Page
<1> HIDE DEF page
<1>7. \A b \in Bots : b \in inDoubt'[t] \/ page.bots[b] \in {board[t].bots[b], None, status[b]}
  BY <1>1, <1>3, <1>6 DEF IInv, LoadedCardsInv
<1>8. t \notin swapped => AsOf(page.balance, view[t].user)
  BY <1>1, <1>6 DEF IInv, ForwardInv, OwnInv
<1>9. inDoubt' \in [Tabs -> SUBSET Bots] /\ \A v \in Tabs : inDoubt[v] \subseteq inDoubt'[v]
  BY <1>0, <1>1 DEF TypeOK
<1> QED BY <1>1, <1>2, <1>4, <1>6, <1>7, <1>8, <1>9, Resumed

\* A reset that answers shows its account's balance.
LEMMA DeliverResetStep ==
    ASSUME IInv, NEW s \in AskSlots, DeliverReset(s)
    PROVE  IInv'
<1> DEFINE t == asks[s].tab
           page == [board[t] EXCEPT !.balance = asks[s].answer, !.reset = TRUE, !.modal = FALSE]
<1>0. TypeOK
  BY DEF IInv
<1>1. /\ Waiting(s) /\ asks[s].kind = "reset" /\ asks[s].answer # None
      /\ asks' = [asks EXCEPT ![s] = None]
      /\ UNCHANGED <<view, status, wallet, sent, swapped, inDoubt>>
  BY DEF DeliverReset, Delivered
<1>2. /\ asks[s] \in Ask /\ t \in Tabs /\ asks[s].user \in Accounts /\ ~IsAction(s)
      /\ asks[s].answer \in Nat
  BY <1>0, <1>1, AskIn, AskFields, Buttons DEF Waiting, IsAction
<1>3. board' = [board EXCEPT ![t] = page]
  BY <1>0, <1>2 DEF DeliverReset, TypeOK, Page
<1>4. board[t] \in Page
  BY <1>0, <1>2 DEF TypeOK
<1>5. ~board[t].loading
  BY <1>1 DEF IInv, LoadingInv
<1>6. /\ page \in Page /\ ~page.loading /\ page.pending = board[t].pending
      /\ page.balance = asks[s].answer /\ page.reset /\ page.bots = board[t].bots
  BY <1>2, <1>4, <1>5 DEF Page
<1> HIDE DEF page
<1>7. t \notin swapped => AsOf(page.balance, view[t].user)
  BY <1>1, <1>6 DEF IInv, ForwardInv, OwnInv
<1>8. inDoubt' \in [Tabs -> SUBSET Bots] /\ \A v \in Tabs : inDoubt[v] \subseteq inDoubt'[v]
  BY <1>0, <1>1 DEF TypeOK
<1> QED BY <1>1, <1>2, <1>3, <1>6, <1>7, <1>8, Resumed

\* An action that answers is the only one of a bot not in doubt: its answer
\* is the row, or the row is as it was.
LEMMA DeliverActionStep ==
    ASSUME IInv, NEW s \in AskSlots, DeliverAction(s)
    PROVE  IInv'
<1> DEFINE t == asks[s].tab
           b == asks[s].bot
           refused == asks[s].answer = "refused"
           cards == [board[t].bots EXCEPT ![b] = IF refused THEN @ ELSE asks[s].answer]
           page == [board[t] EXCEPT !.pending = None, !.bots = cards, !.error = @ \/ refused]
<1>0. TypeOK
  BY DEF IInv
<1>1. /\ Waiting(s) /\ IsAction(s) /\ asks[s].answer # None
      /\ asks' = [asks EXCEPT ![s] = None]
      /\ UNCHANGED <<view, status, wallet, sent, swapped, inDoubt>>
  BY DEF DeliverAction, Delivered
<1>2. /\ asks[s] \in Ask /\ t \in Tabs /\ asks[s].user \in Accounts /\ b \in Bots
      /\ asks[s].answer \in BotStatus \cup {"refused"}
      /\ asks[s].kind # "load"
  BY <1>0, <1>1, AskIn, AskFields, Buttons DEF Waiting, IsAction
<1>3. board[t] \in Page
  BY <1>0, <1>2 DEF TypeOK
<1>4. board' = [board EXCEPT ![t] = page]
  <2>1. board \in [Tabs -> Page] /\ board[t].bots \in [Bots -> BotStatus \cup {None}]
    BY <1>0, <1>3 DEF TypeOK, Page
  <2> QED BY <1>2, <1>3, <2>1 DEF DeliverAction, Page
<1>5. ~board[t].loading
  BY <1>1, <1>2 DEF IInv, LoadingInv
<1>6. cards \in [Bots -> BotStatus \cup {None}]
  <2>1. board[t].bots \in [Bots -> BotStatus \cup {None}]
    BY <1>3 DEF Page
  <2> QED BY <1>2, <2>1
<1>7. \A c \in Bots : cards[c] = IF c = b /\ ~refused THEN asks[s].answer ELSE board[t].bots[c]
  BY <1>3 DEF Page
<1> HIDE DEF cards
<1>8. /\ page \in Page /\ ~page.loading /\ page.pending = None
      /\ page.balance = board[t].balance /\ page.reset = board[t].reset /\ page.bots = cards
  BY <1>3, <1>5, <1>6 DEF Page
<1> HIDE DEF page
<1>9. t \notin swapped => AsOf(page.balance, view[t].user)
  BY <1>1, <1>2, <1>8 DEF IInv, ForwardInv, ShownInv
<1>10. view[t].shown
  BY <1>1 DEF IInv, ShownInv
<1>11. b \in inDoubt[t] \/ cards[b] \in {None, status[b]}
  <2> SUFFICES ASSUME b \notin inDoubt[t]
               PROVE  cards[b] \in {None, status[b]}
    OBVIOUS
  <2>1. /\ \A u \in AskSlots : IsAction(u) /\ asks[u].bot = b => u = s
        /\ asks[s].answer \in {None, "refused"} \/ asks[s].answer = status[b]
        /\ \/ board[t].bots[b] = None \/ board[t].bots[b] = status[b]
           \/ \E u \in AskSlots : IsAction(u) /\ asks[u].bot = b /\ asks[u].answer = status[b]
    BY <1>1, <1>2, <1>10 DEF IInv, CardsInv
  <2>2. status[b] \in BotStatus /\ "refused" \notin BotStatus
    BY <1>0, <1>2 DEF TypeOK, BotStatus
  <2> QED BY <1>1, <1>2, <1>7, <2>1, <2>2
<1>12. asks'[s] = None
  BY <1>0, <1>1 DEF TypeOK
<1>13. \A c \in Bots : IF c = b THEN c \in inDoubt'[t] \/ page.bots[c] \in {None, status[c]}
                                ELSE page.bots[c] = board[t].bots[c]
  BY <1>1, <1>7, <1>8, <1>11
<1>14. inDoubt' \in [Tabs -> SUBSET Bots] /\ \A v \in Tabs : inDoubt[v] \subseteq inDoubt'[v]
  BY <1>0, <1>1 DEF TypeOK
<1>15. \A c \in Bots : IF IsAction(s) /\ asks[s].bot = c
          THEN c \in inDoubt'[t] \/ (asks'[s] = None /\ page.bots[c] \in {None, status[c]})
          ELSE c \in inDoubt'[t] \/ page.bots[c] \in {board[t].bots[c], None, status[c]}
  BY <1>1, <1>12, <1>13
<1> QED BY <1>1, <1>2, <1>4, <1>8, <1>9, <1>14, <1>15, Resumed

\* A fetch that failed tells the page nothing; a bot whose action failed is in
\* doubt from then on.
LEMMA LoseStep ==
    ASSUME IInv, NEW s \in AskSlots, Lose(s)
    PROVE  IInv'
<1> DEFINE t == asks[s].tab
           page == AfterFailure(asks[s], board[t])
<1>0. TypeOK
  BY DEF IInv
<1>1. /\ Waiting(s)
      /\ inDoubt' = IF IsAction(s) THEN [inDoubt EXCEPT ![t] = @ \cup {asks[s].bot}]
                                   ELSE inDoubt
      /\ \/ asks' = [asks EXCEPT ![s] = None]
         \/ asks' = [asks EXCEPT ![s].live = FALSE]
      /\ UNCHANGED <<view, status, wallet, sent, swapped>>
  BY DEF Lose
<1>2. /\ asks[s] \in Ask /\ t \in Tabs /\ (IsAction(s) => asks[s].bot \in Bots)
      /\ asks[s].kind \in {"load", "reset", "start", "pause", "stop"}
  BY <1>0, <1>1, AskIn, AskFields DEF Waiting, IsAction
<1>3. board[t] \in Page
  BY <1>0, <1>2 DEF TypeOK
<1>4. board' = [board EXCEPT ![t] = page]
  BY <1>0, <1>2 DEF Lose, TypeOK
<1>5. asks[s].kind = "load" <=> board[t].loading
  BY <1>1 DEF IInv, LoadingInv
<1>6. /\ page \in Page /\ ~page.loading
      /\ page.balance = board[t].balance /\ page.reset = board[t].reset
      /\ page.bots = board[t].bots
      /\ page.pending = None \/ (page.pending = board[t].pending /\ ~IsAction(s))
  <2>1. CASE asks[s].kind = "load"
    <3>1. page = [board[t] EXCEPT !.error = TRUE, !.loading = FALSE]
      BY <2>1 DEF AfterFailure
    <3>2. ~IsAction(s)
      BY <2>1, Buttons DEF IsAction
    <3> QED BY <1>3, <3>1, <3>2 DEF Page
  <2>2. CASE asks[s].kind = "reset"
    <3>1. page = [board[t] EXCEPT !.error = TRUE]
      BY <2>2 DEF AfterFailure
    <3>2. ~IsAction(s)
      BY <2>2, Buttons DEF IsAction
    <3> QED BY <1>3, <1>5, <2>2, <3>1, <3>2 DEF Page
  <2>3. CASE asks[s].kind \in {"start", "pause", "stop"}
    <3>1. page = [board[t] EXCEPT !.error = TRUE, !.pending = None]
      BY <2>3 DEF AfterFailure
    <3> QED BY <1>3, <1>5, <2>3, <3>1 DEF Page
  <2> QED BY <1>2, <2>1, <2>2, <2>3
<1> HIDE DEF page
<1>7. t \notin swapped => AsOf(page.balance, view[t].user)
  BY <1>1, <1>2, <1>6 DEF IInv, ForwardInv, ShownInv
<1>8. /\ inDoubt' \in [Tabs -> SUBSET Bots] /\ \A v \in Tabs : inDoubt[v] \subseteq inDoubt'[v]
      /\ IsAction(s) => asks[s].bot \in inDoubt'[t]
  <2>1. inDoubt \in [Tabs -> SUBSET Bots]
    BY <1>0 DEF TypeOK
  <2>2. CASE IsAction(s)
    BY <1>1, <1>2, <2>1, <2>2
  <2>3. CASE ~IsAction(s)
    BY <1>1, <2>1, <2>3
  <2> QED BY <2>2, <2>3
<1>9. \A c \in Bots : IF IsAction(s) /\ asks[s].bot = c
          THEN c \in inDoubt'[t] \/ (asks'[s] = None /\ page.bots[c] \in {None, status[c]})
          ELSE c \in inDoubt'[t] \/ page.bots[c] \in {board[t].bots[c], None, status[c]}
  BY <1>6, <1>8
<1> QED BY <1>1, <1>2, <1>4, <1>6, <1>7, <1>8, <1>9, Resumed

\* A fetch without a reader is of no bot, or of one in doubt on every page.
LEMMA ForgetStep ==
    ASSUME IInv, NEW s \in AskSlots, Forget(s)
    PROVE  IInv'
<1>0. TypeOK
  BY DEF IInv
<1>1. /\ asks[s] # None /\ ~asks[s].live /\ asks' = [asks EXCEPT ![s] = None]
      /\ UNCHANGED <<view, status, wallet, board, sent, inDoubt, swapped>>
  BY DEF Forget, Delivered
<1>2. /\ asks' \in [AskSlots -> Ask \cup {None}] /\ asks'[s] = None
      /\ \A u \in AskSlots : u # s => asks'[u] = asks[u]
  BY <1>0, <1>1 DEF TypeOK
<1>3. \A u \in AskSlots : /\ Waiting(u)' <=> Waiting(u)
                          /\ Waiting(u) => asks'[u] = asks[u]
  BY <1>1, <1>2 DEF Waiting
<1>4. \A u \in AskSlots : IsAction(u)' <=> IsAction(u) /\ u # s
  BY <1>2 DEF IsAction
<1>5. TypeOK'
  BY <1>0, <1>1, <1>2 DEF TypeOK
<1>6. ShownInv'
  BY <1>1, <1>3 DEF IInv, ShownInv
<1>7. LoadingInv'
  <2>1. \A v \in Tabs : (board[v].loading => board[v] = Blank)'
    BY <1>1 DEF IInv, LoadingInv, Blank
  <2>2. \A u \in AskSlots :
           Waiting(u)' => (asks'[u].kind = "load" <=> board'[asks'[u].tab].loading)
    BY <1>1, <1>3 DEF IInv, LoadingInv
  <2>3. \A q, u \in AskSlots :
           Waiting(q)' /\ Waiting(u)' /\ asks'[q].tab = asks'[u].tab
              /\ asks'[q].kind = "load" /\ asks'[u].kind = "load" => q = u
    BY <1>3 DEF IInv, LoadingInv
  <2> QED BY <2>1, <2>2, <2>3 DEF LoadingInv
<1>8. OwnInv' /\ PendingIsAwaited'
  BY <1>1, <1>3 DEF IInv, OwnInv, PendingIsAwaited
<1>9. CardsInv'
  BY <1>1, <1>2, <1>4 DEF IInv, CardsInv
<1>10. LoadedCardsInv'
  <2>1. \A b \in Bots : ActedOn(b)' => ActedOn(b)
    BY <1>2, <1>4 DEF ActedOn
  <2> QED BY <1>1, <1>3, <2>1 DEF IInv, LoadedCardsInv
<1>11. ForwardInv'
  BY <1>1, <1>3 DEF IInv, ForwardInv, AsOf
<1> QED BY <1>5, <1>6, <1>7, <1>8, <1>9, <1>10, <1>11 DEF IInv

-----------------------------------------------------------------------------
(* Leaving a page, and the steps that send a fetch. *)

\* A page that is left is waited for by no fetch any more.
LEMMA UnmountStep ==
    ASSUME IInv, NEW t \in Tabs, Unmount(t)
    PROVE  IInv'
<1>0. TypeOK
  BY DEF IInv
<1>1. /\ board' = [board EXCEPT ![t] = Blank] /\ asks' = Left(t)
      /\ inDoubt' = [inDoubt EXCEPT ![t] = {}] /\ swapped' = swapped \ {t}
      /\ UNCHANGED <<status, wallet, sent>>
  BY DEF Unmount
<1>2. PICK w \in Accounts \cup {None} : view' = [view EXCEPT ![t] = [user |-> w, shown |-> FALSE]]
  BY DEF Unmount, Leave
<1>3. /\ view' \in [Tabs -> [user : Accounts \cup {None}, shown : BOOLEAN]]
      /\ ~view'[t].shown /\ \A v \in Tabs : v # t => view'[v] = view[v]
  BY <1>0, <1>2 DEF TypeOK
<1>4. Blank \in Page /\ Blank.pending = None /\ Blank.balance = None
  BY BlankPage
<1>5. /\ board' \in [Tabs -> Page] /\ board'[t] = Blank
      /\ \A v \in Tabs : v # t => board'[v] = board[v]
  BY <1>0, <1>1, <1>4 DEF TypeOK
<1>6. \A u \in AskSlots : asks[u] # None =>
         LET d == [asks[u] EXCEPT !.live = FALSE] IN
         /\ d \in Ask /\ ~d.live /\ d.tab = asks[u].tab /\ d.kind = asks[u].kind
         /\ d.bot = asks[u].bot /\ d.user = asks[u].user /\ d.answer = asks[u].answer
  BY <1>0, AskIn, AskDropped
<1>7. \A u \in AskSlots :
         asks'[u] = IF asks[u] # None /\ asks[u].tab = t
                      THEN [asks[u] EXCEPT !.live = FALSE] ELSE asks[u]
  BY <1>1 DEF Left
<1>8. asks' \in [AskSlots -> Ask \cup {None}]
  <2>1. \A u \in AskSlots : asks[u] \in Ask \cup {None}
    BY <1>0 DEF TypeOK
  <2>2. \A u \in AskSlots : asks'[u] \in Ask \cup {None}
    BY <1>6, <1>7, <2>1
  <2> QED BY <1>1, <2>2 DEF Left
<1>9. \A u \in AskSlots : /\ Waiting(u)' <=> Waiting(u) /\ asks[u].tab # t
                          /\ Waiting(u)' => asks'[u] = asks[u]
  <2> SUFFICES ASSUME NEW u \in AskSlots
               PROVE  /\ Waiting(u)' <=> Waiting(u) /\ asks[u].tab # t
                      /\ Waiting(u)' => asks'[u] = asks[u]
    OBVIOUS
  <2>1. CASE asks[u] # None /\ asks[u].tab = t
    BY <1>6, <1>7, <2>1 DEF Waiting
  <2>2. CASE ~(asks[u] # None /\ asks[u].tab = t)
    BY <1>7, <2>2 DEF Waiting
  <2> QED BY <2>1, <2>2
<1>10. \A u \in AskSlots :
          /\ IsAction(u)' <=> IsAction(u)
          /\ IsAction(u) => asks'[u].bot = asks[u].bot /\ (asks[u].tab # t => asks'[u] = asks[u])
  <2> SUFFICES ASSUME NEW u \in AskSlots
               PROVE  /\ IsAction(u)' <=> IsAction(u)
                      /\ IsAction(u) =>
                            asks'[u].bot = asks[u].bot /\ (asks[u].tab # t => asks'[u] = asks[u])
    OBVIOUS
  <2>1. CASE asks[u] # None /\ asks[u].tab = t
    <3>1. asks'[u] # None /\ asks'[u].kind = asks[u].kind /\ asks'[u].bot = asks[u].bot
      BY <1>6, <1>7, <2>1, AskFields
    <3> QED BY <2>1, <3>1 DEF IsAction
  <2>2. CASE ~(asks[u] # None /\ asks[u].tab = t)
    BY <1>7, <2>2 DEF IsAction
  <2> QED BY <2>1, <2>2
<1>11. \A u \in AskSlots : Waiting(u) => asks[u].tab \in Tabs
  BY <1>0, AskIn, AskFields DEF Waiting
<1>12. inDoubt' \in [Tabs -> SUBSET Bots] /\ \A v \in Tabs : v # t => inDoubt'[v] = inDoubt[v]
  BY <1>0, <1>1 DEF TypeOK
<1>13. TypeOK'
  BY <1>0, <1>1, <1>3, <1>5, <1>8, <1>12 DEF TypeOK
<1>14. ShownInv'
  BY <1>3, <1>9, <1>11 DEF IInv, ShownInv
<1>15. LoadingInv'
  <2>1. \A v \in Tabs : board'[v].loading => board'[v] = Blank
    BY <1>4, <1>5 DEF IInv, LoadingInv
  <2>2. \A u \in AskSlots :
           Waiting(u)' => (asks'[u].kind = "load" <=> board'[asks'[u].tab].loading)
    BY <1>5, <1>9, <1>11 DEF IInv, LoadingInv
  <2>3. \A q, u \in AskSlots :
           Waiting(q)' /\ Waiting(u)' /\ asks'[q].tab = asks'[u].tab
              /\ asks'[q].kind = "load" /\ asks'[u].kind = "load" => q = u
    BY <1>9 DEF IInv, LoadingInv
  <2>4. \A v \in Tabs : (board[v].loading => board[v] = Blank)'
    BY <2>1 DEF Blank
  <2> QED BY <2>2, <2>3, <2>4 DEF LoadingInv
<1>16. OwnInv'
  BY <1>1, <1>3, <1>9, <1>11 DEF IInv, OwnInv
<1>17. PendingIsAwaited'
  BY <1>4, <1>5, <1>9 DEF IInv, PendingIsAwaited
<1>18. CardsInv'
  <2> SUFFICES ASSUME NEW v \in Tabs, NEW b \in Bots, view'[v].shown, b \notin inDoubt'[v]
               PROVE  /\ \A q, u \in AskSlots :
                            IsAction(q)' /\ asks'[q].bot = b /\ IsAction(u)' /\ asks'[u].bot = b
                               => q = u
                      /\ \A u \in AskSlots : IsAction(u)' /\ asks'[u].bot = b =>
                            /\ asks'[u].live /\ asks'[u].tab = v
                            /\ asks'[u].answer \in {None, "refused"} \/ asks'[u].answer = status'[b]
                      /\ \/ board'[v].bots[b] = None \/ board'[v].bots[b] = status'[b]
                         \/ \E u \in AskSlots :
                               IsAction(u)' /\ asks'[u].bot = b /\ asks'[u].answer = status'[b]
    BY DEF CardsInv
  <2>1. v # t /\ view[v].shown /\ b \notin inDoubt[v] /\ board'[v] = board[v]
    BY <1>3, <1>5, <1>12
  <2>2. /\ \A q, u \in AskSlots :
              IsAction(q) /\ asks[q].bot = b /\ IsAction(u) /\ asks[u].bot = b => q = u
        /\ \A u \in AskSlots : IsAction(u) /\ asks[u].bot = b =>
              /\ asks[u].live /\ asks[u].tab = v
              /\ asks[u].answer \in {None, "refused"} \/ asks[u].answer = status[b]
        /\ \/ board[v].bots[b] = None \/ board[v].bots[b] = status[b]
           \/ \E u \in AskSlots : IsAction(u) /\ asks[u].bot = b /\ asks[u].answer = status[b]
    BY <2>1 DEF IInv, CardsInv
  <2>3. \A u \in AskSlots : IsAction(u) /\ asks[u].bot = b => asks'[u] = asks[u]
    BY <1>10, <2>1, <2>2
  <2> QED BY <1>1, <1>10, <2>1, <2>2, <2>3
<1>19. LoadedCardsInv'
  <2>1. \A b \in Bots : ActedOn(b)' => ActedOn(b)
    BY <1>10 DEF ActedOn
  <2> QED BY <1>1, <1>9, <1>11, <1>12, <2>1 DEF IInv, LoadedCardsInv
<1>20. ForwardInv'
  <2>1. \A v \in Tabs : view'[v].shown /\ v \notin swapped' =>
           v # t /\ view'[v] = view[v] /\ board'[v] = board[v] /\ v \notin swapped
    BY <1>1, <1>3, <1>5
  <2>2. \A u \in AskSlots : Waiting(u)' =>
           /\ Waiting(u) /\ asks'[u] = asks[u] /\ asks[u].tab \in Tabs \ {t}
           /\ board'[asks[u].tab] = board[asks[u].tab]
    BY <1>5, <1>9, <1>11
  <2> QED BY <1>1, <2>1, <2>2 DEF IInv, ForwardInv, AsOf
<1> QED BY <1>13, <1>14, <1>15, <1>16, <1>17, <1>18, <1>19, <1>20 DEF IInv

\* A fetch is sent into a slot that was empty.
LEMMA Sends ==
    ASSUME TypeOK, NEW t \in Tabs, NEW kind, NEW bot, NEW answer,
           [tab |-> t, live |-> TRUE, kind |-> kind, bot |-> bot, user |-> view[t].user,
            answer |-> answer] \in Ask,
           Send(t, kind, bot, answer)
    PROVE  /\ sent' \in 0..MaxSent
           /\ asks' \in [AskSlots -> Ask \cup {None}]
           /\ \E s \in AskSlots :
                 /\ asks[s] = None /\ asks'[s] # None /\ asks'[s].live
                 /\ asks'[s].tab = t /\ asks'[s].kind = kind /\ asks'[s].bot = bot
                 /\ asks'[s].user = view[t].user /\ asks'[s].answer = answer
                 /\ \A u \in AskSlots : u # s => asks'[u] = asks[u]
<1> DEFINE a == [tab |-> t, live |-> TRUE, kind |-> kind, bot |-> bot, user |-> view[t].user,
                 answer |-> answer]
<1>1. PICK s \in AskSlots : asks[s] = None /\ asks' = [asks EXCEPT ![s] = a]
  BY DEF Send
<1>2. /\ a \in Ask /\ a.live /\ a.tab = t /\ a.kind = kind /\ a.bot = bot
      /\ a.user = view[t].user /\ a.answer = answer
  OBVIOUS
<1> HIDE DEF a
<1>3. a # None
  BY <1>2, AskFields
<1>4. asks \in [AskSlots -> Ask \cup {None}]
  BY DEF TypeOK
<1>5. sent' \in 0..MaxSent
  BY DashboardAssumption DEF Send, TypeOK
<1>6. asks' \in [AskSlots -> Ask \cup {None}] /\ asks'[s] = a
  BY <1>1, <1>2, <1>4
<1>7. \A u \in AskSlots : u # s => asks'[u] = asks[u]
  BY <1>1, <1>4
<1> QED BY <1>1, <1>2, <1>3, <1>5, <1>6, <1>7

\* A page is opened: blank, it waits for its load alone.
LEMMA MountStep ==
    ASSUME IInv, NEW t \in Tabs, Mount(t)
    PROVE  IInv'
<1>0. TypeOK
  BY DEF IInv
<1>1. /\ ~view[t].shown /\ view[t].user \in Accounts
      /\ view' = [view EXCEPT ![t].shown = TRUE]
      /\ board' = [board EXCEPT ![t] = Blank]
      /\ Send(t, "load", None, NothingRead)
      /\ inDoubt' = [inDoubt EXCEPT ![t] = {b \in Bots : ActedOn(b)}]
      /\ swapped' = swapped \ {t}
      /\ UNCHANGED <<status, wallet>>
  BY <1>0 DEF Mount, Show, TypeOK
<1>2. /\ view' \in [Tabs -> [user : Accounts \cup {None}, shown : BOOLEAN]]
      /\ view'[t].shown /\ view'[t].user = view[t].user
      /\ \A v \in Tabs : v # t => view'[v] = view[v]
  BY <1>0, <1>1 DEF TypeOK
<1>4. /\ Blank \in Page /\ Blank.loading /\ Blank.pending = None /\ Blank.balance = None
      /\ \A b \in Bots : Blank.bots[b] = None
  BY BlankPage
<1>5. /\ board' \in [Tabs -> Page] /\ board'[t] = Blank
      /\ \A v \in Tabs : v # t => board'[v] = board[v]
  BY <1>0, <1>1, <1>4 DEF TypeOK
<1>6. [tab |-> t, live |-> TRUE, kind |-> "load", bot |-> None, user |-> view[t].user,
       answer |-> NothingRead] \in Ask
  BY <1>1 DEF Ask, NothingRead
<1>7. sent' \in 0..MaxSent /\ asks' \in [AskSlots -> Ask \cup {None}]
  BY <1>0, <1>1, <1>6, Sends
<1>8. PICK s \in AskSlots :
         /\ asks[s] = None /\ asks'[s] # None /\ asks'[s].live
         /\ asks'[s].tab = t /\ asks'[s].kind = "load" /\ asks'[s].bot = None
         /\ asks'[s].user = view[t].user /\ asks'[s].answer = NothingRead
         /\ \A u \in AskSlots : u # s => asks'[u] = asks[u]
  BY <1>0, <1>1, <1>6, Sends
<1>9. \A u \in AskSlots : Waiting(u)' <=> Waiting(u) \/ u = s
  BY <1>8 DEF Waiting
<1>10. \A u \in AskSlots : Waiting(u) => u # s /\ asks'[u] = asks[u] /\ asks[u].tab \in Tabs \ {t}
  BY <1>0, <1>1, <1>8, AskIn, AskFields DEF Waiting, IInv, ShownInv
<1>11. \A u \in AskSlots : /\ IsAction(u)' <=> IsAction(u)
                           /\ IsAction(u) => asks'[u] = asks[u]
  <2>1. ~IsAction(s) /\ ~IsAction(s)'
    BY <1>8, Buttons DEF IsAction
  <2> QED BY <1>8, <2>1 DEF IsAction
<1>12. \A b \in Bots : ActedOn(b)' <=> ActedOn(b)
  BY <1>11 DEF ActedOn
<1>13. /\ inDoubt' \in [Tabs -> SUBSET Bots] /\ inDoubt'[t] = {b \in Bots : ActedOn(b)}
       /\ \A v \in Tabs : v # t => inDoubt'[v] = inDoubt[v]
  BY <1>0, <1>1 DEF TypeOK
<1>14. TypeOK'
  BY <1>0, <1>1, <1>2, <1>5, <1>7, <1>13 DEF TypeOK
<1>15. ShownInv'
  BY <1>1, <1>2, <1>8, <1>9, <1>10 DEF IInv, ShownInv
<1>16. LoadingInv'
  <2>1. \A v \in Tabs : board'[v].loading => board'[v] = Blank
    BY <1>4, <1>5 DEF IInv, LoadingInv
  <2>2. \A u \in AskSlots :
           Waiting(u)' => (asks'[u].kind = "load" <=> board'[asks'[u].tab].loading)
    BY <1>4, <1>5, <1>8, <1>9, <1>10 DEF IInv, LoadingInv
  <2>3. \A q, u \in AskSlots :
           Waiting(q)' /\ Waiting(u)' /\ asks'[q].tab = asks'[u].tab
              /\ asks'[q].kind = "load" /\ asks'[u].kind = "load" => q = u
    BY <1>8, <1>9, <1>10 DEF IInv, LoadingInv
  <2>4. \A v \in Tabs : (board[v].loading => board[v] = Blank)'
    BY <2>1 DEF Blank
  <2> QED BY <2>2, <2>3, <2>4 DEF LoadingInv
<1>17. OwnInv'
  BY <1>1, <1>2, <1>8, <1>9, <1>10 DEF IInv, OwnInv
<1>18. PendingIsAwaited'
  BY <1>4, <1>5, <1>9, <1>10 DEF IInv, PendingIsAwaited
<1>19. CardsInv'
  <2> SUFFICES ASSUME NEW v \in Tabs, NEW b \in Bots, view'[v].shown, b \notin inDoubt'[v]
               PROVE  /\ \A q, u \in AskSlots :
                            IsAction(q)' /\ asks'[q].bot = b /\ IsAction(u)' /\ asks'[u].bot = b
                               => q = u
                      /\ \A u \in AskSlots : IsAction(u)' /\ asks'[u].bot = b =>
                            /\ asks'[u].live /\ asks'[u].tab = v
                            /\ asks'[u].answer \in {None, "refused"} \/ asks'[u].answer = status'[b]
                      /\ \/ board'[v].bots[b] = None \/ board'[v].bots[b] = status'[b]
                         \/ \E u \in AskSlots :
                               IsAction(u)' /\ asks'[u].bot = b /\ asks'[u].answer = status'[b]
    BY DEF CardsInv
  <2>1. CASE v = t
    BY <1>4, <1>5, <1>11, <1>13, <2>1 DEF ActedOn
  <2>2. CASE v # t
    <3>1. view[v].shown /\ b \notin inDoubt[v] /\ board'[v] = board[v]
      BY <1>2, <1>5, <1>13, <2>2
    <3> QED BY <1>1, <1>11, <3>1 DEF IInv, CardsInv
  <2> QED BY <2>1, <2>2
<1>20. LoadedCardsInv'
  <2> SUFFICES ASSUME NEW u \in AskSlots, Waiting(u)', asks'[u].kind = "load",
                      NEW b \in Bots, b \notin inDoubt'[asks'[u].tab]
               PROVE  /\ ~ActedOn(b)'
                      /\ asks'[u].answer.bots # None => asks'[u].answer.bots[b] \in {None, status'[b]}
    BY DEF LoadedCardsInv
  <2>1. CASE u = s
    BY <1>8, <1>12, <1>13, <2>1 DEF NothingRead
  <2>2. CASE u # s
    BY <1>1, <1>9, <1>10, <1>12, <1>13, <2>2 DEF IInv, LoadedCardsInv
  <2> QED BY <2>1, <2>2
<1>21. ForwardInv'
  <2>1. \A v \in Tabs : view'[v].shown /\ v \notin swapped' =>
           AsOf(board'[v].balance, view'[v].user)
    BY <1>1, <1>2, <1>4, <1>5 DEF IInv, ForwardInv, AsOf
  <2>2. \A u \in AskSlots : Waiting(u) => board'[asks[u].tab] = board[asks[u].tab]
    BY <1>5, <1>10
  <2>3. NothingRead.balance = None
    BY DEF NothingRead
  <2>4. ASSUME NEW u \in AskSlots, Waiting(u)', asks'[u].tab \notin swapped'
        PROVE  /\ asks'[u].kind = "load" => AsOf(asks'[u].answer.balance, asks'[u].user)
               /\ asks'[u].kind = "reset" => AsOf(asks'[u].answer, asks'[u].user)
               /\ asks'[u].kind = "reset" /\ asks'[u].answer # None =>
                     LET held == board'[asks'[u].tab] IN
                     held.balance # None /\ ~held.reset => held.balance <= asks'[u].answer
    <3>1. CASE u = s
      BY <1>8, <2>3, <3>1 DEF AsOf
    <3>2. CASE u # s
      BY <1>1, <1>9, <1>10, <2>2, <2>4, <3>2 DEF IInv, ForwardInv
    <3> QED BY <3>1, <3>2
  <2> QED BY <1>1, <2>1, <2>4 DEF ForwardInv, AsOf
<1> QED BY <1>14, <1>15, <1>16, <1>17, <1>18, <1>19, <1>20, <1>21 DEF IInv

\* A reset is sent from a page that has loaded.
LEMMA ConfirmStep ==
    ASSUME IInv, NEW t \in Tabs, ConfirmReset(t)
    PROVE  IInv'
<1>0. TypeOK
  BY DEF IInv
<1>1. /\ view[t].shown /\ board[t].modal /\ Send(t, "reset", None, None)
      /\ UNCHANGED <<view, status, wallet, board, inDoubt, swapped>>
  BY DEF ConfirmReset
<1>2. view[t].user \in Accounts
  BY <1>1 DEF IInv, ShownInv
<1>3. ~board[t].loading
  BY <1>1 DEF IInv, LoadingInv, Blank
<1>4. [tab |-> t, live |-> TRUE, kind |-> "reset", bot |-> None, user |-> view[t].user,
       answer |-> None] \in Ask
  BY <1>2 DEF Ask
<1>5. sent' \in 0..MaxSent /\ asks' \in [AskSlots -> Ask \cup {None}]
  BY <1>0, <1>1, <1>4, Sends
<1>6. PICK s \in AskSlots :
         /\ asks[s] = None /\ asks'[s] # None /\ asks'[s].live
         /\ asks'[s].tab = t /\ asks'[s].kind = "reset" /\ asks'[s].bot = None
         /\ asks'[s].user = view[t].user /\ asks'[s].answer = None
         /\ \A u \in AskSlots : u # s => asks'[u] = asks[u]
  BY <1>0, <1>1, <1>4, Sends
<1>7. \A u \in AskSlots : /\ Waiting(u)' <=> Waiting(u) \/ u = s
                          /\ Waiting(u) => u # s /\ asks'[u] = asks[u]
  BY <1>6 DEF Waiting
<1>8. \A u \in AskSlots : /\ IsAction(u)' <=> IsAction(u)
                          /\ IsAction(u) => asks'[u] = asks[u]
  <2>1. ~IsAction(s) /\ ~IsAction(s)'
    BY <1>6, Buttons DEF IsAction
  <2> QED BY <1>6, <2>1 DEF IsAction
<1>9. TypeOK'
  BY <1>0, <1>1, <1>5 DEF TypeOK
<1>10. ShownInv'
  BY <1>1, <1>6, <1>7 DEF IInv, ShownInv
<1>11. LoadingInv'
  <2>1. \A u \in AskSlots :
           Waiting(u)' => (asks'[u].kind = "load" <=> board'[asks'[u].tab].loading)
    BY <1>1, <1>3, <1>6, <1>7 DEF IInv, LoadingInv
  <2>2. \A q, u \in AskSlots :
           Waiting(q)' /\ Waiting(u)' /\ asks'[q].tab = asks'[u].tab
              /\ asks'[q].kind = "load" /\ asks'[u].kind = "load" => q = u
    BY <1>6, <1>7 DEF IInv, LoadingInv
  <2>3. \A v \in Tabs : (board[v].loading => board[v] = Blank)'
    BY <1>1 DEF IInv, LoadingInv, Blank
  <2> QED BY <2>1, <2>2, <2>3 DEF LoadingInv
<1>12. OwnInv' /\ PendingIsAwaited'
  BY <1>1, <1>6, <1>7 DEF IInv, OwnInv, PendingIsAwaited
<1>13. CardsInv'
  BY <1>1, <1>8 DEF IInv, CardsInv
<1>14. LoadedCardsInv'
  BY <1>1, <1>6, <1>7, <1>8 DEF IInv, LoadedCardsInv, ActedOn
<1>15. ForwardInv'
  BY <1>1, <1>6, <1>7 DEF IInv, ForwardInv, AsOf
<1> QED BY <1>9, <1>10, <1>11, <1>12, <1>13, <1>14, <1>15 DEF IInv

\* An action is sent: of a bot not in doubt after it, it is the only one.
LEMMA ClickStep ==
    ASSUME IInv, NEW t \in Tabs, NEW b \in Bots, Click(t, b)
    PROVE  IInv'
<1> DEFINE page == [board[t] EXCEPT !.pending = b, !.error = FALSE]
<1>0. TypeOK
  BY DEF IInv
<1>1. PICK op \in DOMAIN Targets : Send(t, op, b, None)
  BY DEF Click, Offered
<1>2. /\ view[t].shown
      /\ inDoubt' = [u \in Tabs |-> IF u # t \/ ActedOn(b) THEN inDoubt[u] \cup {b}
                                                           ELSE inDoubt[u]]
      /\ UNCHANGED <<view, status, wallet, swapped>>
  BY DEF Click, Ready
<1>3. board[t] \in Page /\ ~board[t].loading
  BY <1>0 DEF Click, Ready, TypeOK
<1>4. board' = [board EXCEPT ![t] = page]
  BY <1>0 DEF Click, TypeOK, Page
<1>5. /\ page \in Page /\ ~page.loading /\ page.pending = b /\ page.bots = board[t].bots
      /\ page.balance = board[t].balance /\ page.reset = board[t].reset
  BY <1>3 DEF Page
<1> HIDE DEF page
<1>6. /\ board' \in [Tabs -> Page] /\ board'[t] = page
      /\ \A v \in Tabs : v # t => board'[v] = board[v]
  BY <1>0, <1>4, <1>5 DEF TypeOK
<1>7. view[t].user \in Accounts
  BY <1>2 DEF IInv, ShownInv
<1>8. [tab |-> t, live |-> TRUE, kind |-> op, bot |-> b, user |-> view[t].user,
       answer |-> None] \in Ask
  BY <1>7 DEF Ask
<1>9. sent' \in 0..MaxSent /\ asks' \in [AskSlots -> Ask \cup {None}]
  BY <1>0, <1>1, <1>8, Sends
<1>10. PICK s \in AskSlots :
         /\ asks[s] = None /\ asks'[s] # None /\ asks'[s].live
         /\ asks'[s].tab = t /\ asks'[s].kind = op /\ asks'[s].bot = b
         /\ asks'[s].user = view[t].user /\ asks'[s].answer = None
         /\ \A u \in AskSlots : u # s => asks'[u] = asks[u]
  BY <1>0, <1>1, <1>8, Sends
<1>11. \A u \in AskSlots : /\ Waiting(u)' <=> Waiting(u) \/ u = s
                           /\ Waiting(u) => u # s /\ asks'[u] = asks[u]
  BY <1>10 DEF Waiting
<1>12. \A u \in AskSlots : /\ IsAction(u)' <=> IsAction(u) \/ u = s
                           /\ IsAction(u) => u # s /\ asks'[u] = asks[u]
  BY <1>10 DEF IsAction
<1>13. op # "load" /\ op # "reset"
  BY Buttons
<1>14. \A u \in AskSlots : Waiting(u) => asks[u].tab \in Tabs
  BY <1>0, AskIn, AskFields DEF Waiting
<1>15. \A v \in Tabs : /\ board'[v].loading = board[v].loading
                       /\ board'[v].balance = board[v].balance
                       /\ board'[v].reset = board[v].reset /\ board'[v].bots = board[v].bots
                       /\ board[v].loading => v # t /\ board'[v] = board[v]
  <2>1. board \in [Tabs -> Page]
    BY <1>0 DEF TypeOK
  <2>2. page.loading = board[t].loading
    BY <1>3, <1>5 DEF Page
  <2> QED BY <1>3, <1>5, <1>6, <2>2
<1>16. /\ inDoubt' \in [Tabs -> SUBSET Bots]
       /\ \A v \in Tabs : inDoubt[v] \subseteq inDoubt'[v]
       /\ \A v \in Tabs : b \notin inDoubt'[v] => v = t /\ ~ActedOn(b)
  <2>1. inDoubt \in [Tabs -> SUBSET Bots]
    BY <1>0 DEF TypeOK
  <2> QED BY <1>2, <2>1
<1>17. TypeOK'
  BY <1>0, <1>2, <1>6, <1>9, <1>16 DEF TypeOK
<1>18. ShownInv'
  BY <1>2, <1>10, <1>11 DEF IInv, ShownInv
<1>19. LoadingInv'
  <2>1. \A u \in AskSlots :
           Waiting(u)' => (asks'[u].kind = "load" <=> board'[asks'[u].tab].loading)
    BY <1>3, <1>10, <1>11, <1>13, <1>14, <1>15 DEF IInv, LoadingInv
  <2>2. \A q, u \in AskSlots :
           Waiting(q)' /\ Waiting(u)' /\ asks'[q].tab = asks'[u].tab
              /\ asks'[q].kind = "load" /\ asks'[u].kind = "load" => q = u
    BY <1>10, <1>11, <1>13 DEF IInv, LoadingInv
  <2>3. \A v \in Tabs : board'[v].loading => board'[v] = Blank
    BY <1>15 DEF IInv, LoadingInv
  <2>4. \A v \in Tabs : (board[v].loading => board[v] = Blank)'
    BY <2>3 DEF Blank
  <2> QED BY <2>1, <2>2, <2>4 DEF LoadingInv
<1>20. OwnInv'
  BY <1>2, <1>10, <1>11, <1>15 DEF IInv, OwnInv
<1>21. PendingIsAwaited'
  BY <1>5, <1>6, <1>10, <1>11 DEF IInv, PendingIsAwaited
<1>22. CardsInv'
  <2> SUFFICES ASSUME NEW v \in Tabs, NEW c \in Bots, view[v].shown, c \notin inDoubt'[v]
               PROVE  /\ \A q, u \in AskSlots :
                            IsAction(q)' /\ asks'[q].bot = c /\ IsAction(u)' /\ asks'[u].bot = c
                               => q = u
                      /\ \A u \in AskSlots : IsAction(u)' /\ asks'[u].bot = c =>
                            /\ asks'[u].live /\ asks'[u].tab = v
                            /\ asks'[u].answer \in {None, "refused"} \/ asks'[u].answer = status[c]
                      /\ \/ board'[v].bots[c] = None \/ board'[v].bots[c] = status[c]
                         \/ \E u \in AskSlots :
                               IsAction(u)' /\ asks'[u].bot = c /\ asks'[u].answer = status[c]
    BY <1>2 DEF CardsInv
  <2>1. c \notin inDoubt[v]
    BY <1>16
  <2>2. /\ \A q, u \in AskSlots :
              IsAction(q) /\ asks[q].bot = c /\ IsAction(u) /\ asks[u].bot = c => q = u
        /\ \A u \in AskSlots : IsAction(u) /\ asks[u].bot = c =>
              /\ asks[u].live /\ asks[u].tab = v
              /\ asks[u].answer \in {None, "refused"} \/ asks[u].answer = status[c]
        /\ \/ board[v].bots[c] = None \/ board[v].bots[c] = status[c]
           \/ \E u \in AskSlots : IsAction(u) /\ asks[u].bot = c /\ asks[u].answer = status[c]
    BY <2>1 DEF IInv, CardsInv
  <2>3. CASE c = b
    <3>1. v = t /\ ~ActedOn(b)
      BY <1>16, <2>3
    <3>2. \A u \in AskSlots : IsAction(u)' /\ asks'[u].bot = b => u = s
      BY <1>12, <3>1 DEF ActedOn
    <3>3. board[t].bots[b] = None \/ board[t].bots[b] = status[b]
      BY <2>2, <2>3, <3>1 DEF ActedOn
    <3> QED BY <1>10, <1>15, <2>3, <3>1, <3>2, <3>3
  <2>4. CASE c # b
    BY <1>10, <1>12, <1>15, <2>2, <2>4
  <2> QED BY <2>3, <2>4
<1>23. LoadedCardsInv'
  <2> SUFFICES ASSUME NEW u \in AskSlots, Waiting(u)', asks'[u].kind = "load",
                      NEW c \in Bots, c \notin inDoubt'[asks'[u].tab]
               PROVE  /\ ~ActedOn(c)'
                      /\ asks'[u].answer.bots # None => asks'[u].answer.bots[c] \in {None, status[c]}
    BY <1>2 DEF LoadedCardsInv
  <2>1. Waiting(u) /\ asks'[u] = asks[u] /\ asks[u].tab \in Tabs
    BY <1>10, <1>11, <1>13, <1>14
  <2>2. asks[u].tab # t
    BY <1>3, <2>1 DEF IInv, LoadingInv
  <2>3. c # b /\ c \notin inDoubt[asks[u].tab]
    BY <1>16, <2>1, <2>2
  <2>4. ~ActedOn(c)'
    BY <1>10, <1>12, <2>1, <2>3 DEF IInv, LoadedCardsInv, ActedOn
  <2> QED BY <2>1, <2>3, <2>4 DEF IInv, LoadedCardsInv
<1>24. ForwardInv'
  <2>1. \A v \in Tabs : view[v].shown /\ v \notin swapped =>
           AsOf(board'[v].balance, view[v].user)
    BY <1>15 DEF IInv, ForwardInv
  <2>2. \A u \in AskSlots : Waiting(u)' /\ asks'[u].kind \in {"load", "reset"} =>
           /\ Waiting(u) /\ asks'[u] = asks[u] /\ asks[u].tab \in Tabs
           /\ board'[asks[u].tab].balance = board[asks[u].tab].balance
           /\ board'[asks[u].tab].reset = board[asks[u].tab].reset
    BY <1>10, <1>11, <1>13, <1>14, <1>15
  <2> QED BY <1>2, <2>1, <2>2 DEF IInv, ForwardInv, AsOf
<1> QED BY <1>17, <1>18, <1>19, <1>20, <1>21, <1>22, <1>23, <1>24 DEF IInv

-----------------------------------------------------------------------------
(* Every step, and the theorems. *)

\* Every step of the page, its users and the server keeps the strengthening.
LEMMA NextHolds == IInv /\ [Next]_vars => IInv'
<1> SUFFICES ASSUME IInv, [Next]_vars
             PROVE  IInv'
  OBVIOUS
<1>1. CASE Next
  <2>1. ASSUME NEW t \in Tabs,
               \/ Mount(t) \/ Unmount(t) \/ LoginAnswered(t)
               \/ OpenModal(t) \/ CancelModal(t) \/ ConfirmReset(t)
        PROVE  IInv'
    BY <2>1, MountStep, UnmountStep, LoginStep, ModalStep, ConfirmStep
  <2>2. ASSUME NEW t \in Tabs, NEW b \in Bots, Click(t, b)
        PROVE  IInv'
    BY <2>2, ClickStep
  <2>3. ASSUME NEW s \in AskSlots,
               ServeWallet(s) \/ ServeOrders(s) \/ ServeBots(s) \/ ServeReset(s) \/ ServeAction(s)
        PROVE  IInv'
    BY <2>3, ServeLoadStep, ServeResetStep, ServeActionStep
  <2>4. ASSUME NEW s \in AskSlots, Resume(s) \/ Forget(s)
        PROVE  IInv'
    BY <2>4, DeliverLoadStep, DeliverResetStep, DeliverActionStep, LoseStep, ForgetStep DEF Resume
  <2>5. ASSUME NEW a \in Accounts, Trade(a)
        PROVE  IInv'
    BY <2>5, TradeStep
  <2> QED BY <1>1, <2>1, <2>2, <2>3, <2>4, <2>5 DEF Next
<1>2. CASE UNCHANGED vars
  <2>1. UNCHANGED <<view, status, wallet, board, asks, sent, inDoubt, swapped>>
    BY <1>2 DEF vars
  <2>2. /\ \A s \in AskSlots : (Waiting(s)' <=> Waiting(s)) /\ (IsAction(s)' <=> IsAction(s))
        /\ \A b \in Bots : ActedOn(b)' <=> ActedOn(b)
    BY <2>1 DEF Waiting, IsAction, ActedOn
  <2>3. TypeOK' /\ ShownInv' /\ OwnInv' /\ PendingIsAwaited'
    BY <2>1, <2>2 DEF IInv, TypeOK, ShownInv, OwnInv, PendingIsAwaited
  <2>4. LoadingInv'
    BY <2>1, <2>2 DEF IInv, LoadingInv, Blank
  <2>5. CardsInv' /\ LoadedCardsInv'
    BY <2>1, <2>2 DEF IInv, CardsInv, LoadedCardsInv
  <2>6. ForwardInv'
    BY <2>1, <2>2 DEF IInv, ForwardInv, AsOf
  <2> QED BY <2>3, <2>4, <2>5, <2>6 DEF IInv
<1> QED BY <1>1, <1>2

\* The strengthening holds throughout.
THEOREM DashboardInvariance == Spec => []IInv
<1> QED BY InitHolds, NextHolds, PTL DEF Spec

\* The page, the rows and the fetches keep their types.
THEOREM DashboardTypes == Spec => []TypeOK
<1>1. IInv => TypeOK
  BY DEF IInv
<1> QED BY <1>1, DashboardInvariance, PTL

\* The card of a bot that nobody acts on shows the bot's row, unless its
\* actions overlapped or lost an answer: one pendingBotId is enough for that.
THEOREM CardsTrue == Spec => []CardsAreTrue
<1>1. IInv => CardsAreTrue
  BY DEF IInv, CardsInv, CardsAreTrue, ActedOn
<1> QED BY <1>1, DashboardInvariance, PTL

\* Buttons that are disabled wait for an action under way.
THEOREM PendingAwaited == Spec => []PendingIsAwaited
<1>1. IInv => PendingIsAwaited
  BY DEF IInv
<1> QED BY <1>1, DashboardInvariance, PTL

\* Only a load or a reset brings a balance: the load finds none, the reset one
\* that is no newer than its answer, or another reset's.
LEMMA BalanceStep ==
    ASSUME IInv, Next, NEW t \in Tabs, t \notin swapped,
           board[t].balance # None, board'[t].balance # None,
           board'[t].balance < board[t].balance
    PROVE  board[t].reset /\ board'[t].reset
<1>0. TypeOK
  BY DEF IInv
<1>1. board[t] \in Page /\ board \in [Tabs -> Page] /\ board[t].balance \in Nat
  BY <1>0 DEF TypeOK, Page
<1>2. ~(board'[t].balance = board[t].balance)
  BY <1>1
<1>3. CASE \E s \in AskSlots : DeliverLoad(s)
  <2>1. PICK s \in AskSlots : DeliverLoad(s)
    BY <1>3
  <2>2. Waiting(s) /\ asks[s].kind = "load" /\ (asks[s].tab # t => board'[t] = board[t])
    BY <1>0, <2>1 DEF DeliverLoad, TypeOK
  <2>3. asks[s].tab = t => board[t].balance = None
    BY <2>2, BlankPage DEF IInv, LoadingInv
  <2> QED BY <1>2, <2>2, <2>3
<1>4. CASE \E s \in AskSlots : DeliverReset(s)
  <2>1. PICK s \in AskSlots : DeliverReset(s)
    BY <1>4
  <2>2. /\ Waiting(s) /\ asks[s].kind = "reset" /\ asks[s].answer # None
        /\ asks[s].tab # t => board'[t] = board[t]
        /\ asks[s].tab = t => board'[t].balance = asks[s].answer /\ board'[t].reset
    BY <1>0, <1>1, <2>1 DEF DeliverReset, TypeOK, Page
  <2>3. asks[s].tab = t
    BY <1>2, <2>2
  <2>4. asks[s].answer \in Nat
    BY <1>0, <2>2, AskIn, AskFields DEF Waiting
  <2>5. ~board[t].reset => board[t].balance <= asks[s].answer
    BY <2>2, <2>3 DEF IInv, ForwardInv
  <2> QED BY <1>1, <2>2, <2>3, <2>4, <2>5
<1>5. CASE ~(\E s \in AskSlots : DeliverLoad(s) \/ DeliverReset(s))
  <2>1. ASSUME NEW v \in Tabs,
               \/ Mount(v) \/ Unmount(v) \/ LoginAnswered(v) \/ OpenModal(v) \/ CancelModal(v)
               \/ ConfirmReset(v) \/ \E b \in Bots : Click(v, b)
        PROVE  board'[t].balance \in {board[t].balance, None}
    <3>1. CASE Mount(v) \/ Unmount(v)
      BY <1>1, <3>1, BlankPage DEF Mount, Unmount
    <3>2. CASE LoginAnswered(v) \/ ConfirmReset(v)
      BY <3>2 DEF LoginAnswered, ConfirmReset
    <3>3. CASE OpenModal(v) \/ CancelModal(v)
      BY <1>1, <3>3 DEF OpenModal, CancelModal, Page
    <3>4. CASE \E b \in Bots : Click(v, b)
      BY <1>1, <3>4 DEF Click, Page
    <3> QED BY <2>1, <3>1, <3>2, <3>3, <3>4
  <2>2. ASSUME NEW s \in AskSlots,
               \/ ServeWallet(s) \/ ServeOrders(s) \/ ServeBots(s) \/ ServeReset(s)
               \/ ServeAction(s) \/ Forget(s)
        PROVE  board' = board
    BY <2>2 DEF ServeWallet, ServeOrders, ServeBots, ServeReset, ServeAction, Served, Forget
  <2>3. ASSUME NEW s \in AskSlots, DeliverAction(s)
        PROVE  board'[t].balance = board[t].balance
    BY <1>1, <2>3 DEF DeliverAction, Page
  <2>4. ASSUME NEW s \in AskSlots, Lose(s)
        PROVE  board'[t].balance = board[t].balance
    <3>1. board' = [board EXCEPT ![asks[s].tab] = AfterFailure(asks[s], @)]
      BY <2>4 DEF Lose
    <3>2. \A page \in Page : AfterFailure(asks[s], page).balance = page.balance
      BY DEF AfterFailure, Page
    <3> QED BY <1>1, <3>1, <3>2
  <2>5. ASSUME NEW a \in Accounts, Trade(a)
        PROVE  board' = board
    BY <2>5 DEF Trade
  <2> QED BY <1>2, <1>5, <2>1, <2>2, <2>3, <2>4, <2>5 DEF Next, Resume
<1> QED BY <1>3, <1>4, <1>5

\* A page's balance goes forward, through any order of loads, resets, fills
\* and late answers (DashboardPage.tsx:57): a load is never overtaken by a
\* reset, and resets overtake each other only.
THEOREM BalanceForward == Spec => BalanceGoesForward
<1>1. ASSUME IInv, [Next]_vars
      PROVE  [\A t \in Tabs \ swapped :
                 LET old == board[t]
                     new == board'[t]
                 IN  old.balance # None /\ new.balance # None /\ new.balance < old.balance =>
                         old.reset /\ new.reset]_vars
  BY <1>1, BalanceStep
<1> QED BY <1>1, DashboardInvariance, PTL DEF Spec, BalanceGoesForward

=============================================================================

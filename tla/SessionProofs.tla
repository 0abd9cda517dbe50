----------------------------- MODULE SessionProofs -----------------------------
(***************************************************************************)
(* Session's safety properties and the view it implements, for any number  *)
(* of tabs, accounts, tokens, fetches and loads.                           *)
(***************************************************************************)
EXTENDS Session, TLAPS

\* What a render leaves: no code form without a registration, and no closed
\* gate without a way out.
Settled(state) ==
    /\ state.page = "/verify-otp" => state.handoff # None
    /\ state.page = "/" /\ ~state.loading => state.token # None

\* What a fetch carries, by its kind.
Carries(call) ==
    /\ call.kind \in {"login", "register", "verify"} => call.account # None
    /\ call.kind \in {"hydrate", "profile"} => call.token # None /\ owner[call.token] # None

\* Every token that is stored or held was issued.
Issued ==
    /\ stored # None => owner[stored] # None
    /\ \A t \in Tabs : tab[t].token # None => owner[tab[t].token] # None

Confirmed == \A t \in Tabs : tab[t].token # None /\ ~tab[t].loading => t \in confirmed

\* A tab that is logged out for good awaits no login.
SignedOut ==
    \A t \in signedOut :
        /\ tab[t].token = None
        /\ \A s \in Slots : calls[s] # None /\ calls[s].tab = t => calls[s].kind # "login"

IInv ==
    /\ SessionTypeOK
    /\ TokensAgree
    /\ \A t \in Tabs : Settled(tab[t])
    /\ \A s \in Slots : calls[s] # None => Carries(calls[s])
    /\ Issued
    /\ Confirmed
    /\ SignedOut

-----------------------------------------------------------------------------
(* The ways in which a step changes a tab and the fetches. *)

\* A render only ever redirects: it changes the page, never what the gate
\* decides on, and leaves a settled state.
LEMMA RedirectedFacts ==
    ASSUME NEW state \in State
    PROVE  /\ Redirected(state) \in State
           /\ Redirected(state).loading = state.loading
           /\ Redirected(state).api = state.api
           /\ Redirected(state).token = state.token
           /\ Settled(Redirected(state))
           /\ Shown(Redirected(state)) <=> Shown(state)
<1>1. CASE state.page = "/" /\ ~state.loading /\ ~Shown(state)
  BY <1>1 DEF Redirected, State, Settled, Shown, Pages
<1>2. CASE /\ ~(state.page = "/" /\ ~state.loading /\ ~Shown(state))
           /\ state.page = "/verify-otp" /\ state.handoff = None
  BY <1>2 DEF Redirected, State, Settled, Shown, Pages
<1>3. CASE /\ ~(state.page = "/" /\ ~state.loading /\ ~Shown(state))
           /\ ~(state.page = "/verify-otp" /\ state.handoff = None)
  <2>1. Redirected(state) = state
    BY <1>3 DEF Redirected
  <2> QED BY <1>3, <2>1 DEF State, Settled, Shown, Pages
<1> QED BY <1>1, <1>2, <1>3

\* No token loses its owner.
OwnersStay == /\ owner' \in [Tokens -> Accounts \cup {None}]
              /\ \A k \in Tokens : owner[k] # None => owner'[k] # None

\* A render of one tab keeps all that IInv says of each tab by itself.
LEMMA RenderKeeps ==
    ASSUME IInv, OwnersStay, NEW t \in Tabs, NEW state \in State,
           Render(t, state),
           state.api = state.token,
           state.token # None => owner'[state.token] # None
    PROVE  /\ tab' \in [Tabs -> State]
           /\ TokensAgree'
           /\ \A u \in Tabs : Settled(tab'[u])
           /\ \A u \in Tabs : tab'[u].token # None => owner'[tab'[u].token] # None
           /\ \A u \in Tabs \ {t} : tab'[u] = tab[u]
           /\ tab'[t] = Redirected(state)
           /\ tab'[t].token = state.token
           /\ tab'[t].loading = state.loading
<1>1. /\ tab \in [Tabs -> State]
      /\ \A u \in Tabs : /\ tab[u] \in State
                         /\ tab[u].token \in Tokens \cup {None}
                         /\ tab[u].api = tab[u].token
                         /\ Settled(tab[u])
                         /\ tab[u].token # None => owner[tab[u].token] # None
  BY DEF IInv, SessionTypeOK, TokensAgree, Issued, State
<1>2. /\ tab' \in [Tabs -> State]
      /\ tab'[t] = Redirected(state)
      /\ \A u \in Tabs \ {t} : tab'[u] = tab[u]
  BY <1>1, RedirectedFacts DEF Render
<1>3. TokensAgree'
  BY <1>1, <1>2, RedirectedFacts DEF TokensAgree
<1>4. \A u \in Tabs : Settled(tab'[u])
  BY <1>1, <1>2, RedirectedFacts
<1>5. \A u \in Tabs : tab'[u].token # None => owner'[tab'[u].token] # None
  BY <1>1, <1>2, RedirectedFacts DEF OwnersStay
<1> QED BY <1>2, <1>3, <1>4, <1>5, RedirectedFacts

\* Fetches are only forgotten, or their forms are.
CallsKept ==
    /\ calls' \in [Slots -> Call \cup {None}]
    /\ \A s \in Slots : calls'[s] # None =>
          /\ calls[s] # None
          /\ calls'[s].tab = calls[s].tab
          /\ calls'[s].kind = calls[s].kind
          /\ calls'[s].account = calls[s].account
          /\ calls'[s].token = calls[s].token

LEMMA UnmountedKeeps ==
    ASSUME calls \in [Slots -> Call \cup {None}], NEW t
    PROVE  /\ Unmounted(t) \in [Slots -> Call \cup {None}]
           /\ \A s \in Slots :
                 /\ Unmounted(t)[s] # None => calls[s] # None
                 /\ Unmounted(t)[s].tab = calls[s].tab
                 /\ Unmounted(t)[s].kind = calls[s].kind
                 /\ Unmounted(t)[s].account = calls[s].account
                 /\ Unmounted(t)[s].token = calls[s].token
<1>1. ASSUME NEW s \in Slots
      PROVE  /\ Unmounted(t)[s] \in Call \cup {None}
             /\ Unmounted(t)[s] # None => calls[s] # None
             /\ Unmounted(t)[s].tab = calls[s].tab
             /\ Unmounted(t)[s].kind = calls[s].kind
             /\ Unmounted(t)[s].account = calls[s].account
             /\ Unmounted(t)[s].token = calls[s].token
  <2>1. CASE s \in Awaited(t)
    <3>1. calls[s] \in Call /\ calls[s] # None
      BY <2>1 DEF Awaited
    <3>2. Unmounted(t)[s] = [calls[s] EXCEPT !.form = FALSE]
      BY <2>1 DEF Unmounted
    <3> QED BY <3>1, <3>2 DEF Call
  <2>2. CASE s \notin Awaited(t)
    BY <2>2 DEF Unmounted
  <2> QED BY <2>1, <2>2
<1>2. Unmounted(t) = [s \in Slots |-> Unmounted(t)[s]]
  BY DEF Unmounted
<1> QED BY <1>1, <1>2

\* Fetches that were only forgotten still carry what they carried.
LEMMA CallsKeptCarry ==
    ASSUME IInv, OwnersStay, CallsKept
    PROVE  \A s \in Slots : calls'[s] # None => Carries(calls[s])'
<1> SUFFICES ASSUME NEW s \in Slots, calls'[s] # None
             PROVE  Carries(calls[s])'
  OBVIOUS
<1>1. calls[s] # None /\ calls[s] \in Call /\ Carries(calls[s])
  BY DEF CallsKept, IInv, SessionTypeOK
<1> QED BY <1>1 DEF CallsKept, Carries, OwnersStay, Call

\* A step that does not log in keeps the tabs that are logged out so.
LEMMA SignedOutKept ==
    ASSUME IInv, CallsKept, signedOut' \subseteq signedOut,
           \A t \in signedOut : tab'[t].token = None
    PROVE  SignedOut'
BY DEF IInv, SignedOut, CallsKept

\* The parts of IInv that a render does not touch.
RestKept ==
    /\ OwnersStay
    /\ active' \subseteq Accounts /\ expired' \subseteq Tokens
    /\ stored' \in Tokens \cup {None}
    /\ stored' # None => owner'[stored'] # None
    /\ loads' \in 0..MaxLoads
    /\ signedOut' \subseteq Tabs /\ confirmed' \subseteq Tabs
    /\ calls' \in [Slots -> Call \cup {None}]
    /\ \A s \in Slots : calls'[s] # None => Carries(calls[s])'
    /\ SignedOut'

\* A step that renders one tab and keeps the rest keeps IInv.
LEMMA RenderedStep ==
    ASSUME IInv, RestKept, NEW t \in Tabs, NEW state \in State,
           Render(t, state),
           state.api = state.token,
           state.token # None => owner'[state.token] # None,
           state.token # None /\ ~state.loading => t \in confirmed',
           confirmed \ {t} \subseteq confirmed'
    PROVE  IInv'
<1>1. OwnersStay
  BY DEF RestKept
<1>2. /\ tab' \in [Tabs -> State]
      /\ TokensAgree'
      /\ \A u \in Tabs : Settled(tab'[u])
      /\ \A u \in Tabs : tab'[u].token # None => owner'[tab'[u].token] # None
      /\ \A u \in Tabs \ {t} : tab'[u] = tab[u]
      /\ tab'[t].token = state.token
      /\ tab'[t].loading = state.loading
  BY <1>1, RenderKeeps
<1>3. SessionTypeOK'
  BY <1>1, <1>2 DEF RestKept, SessionTypeOK, OwnersStay
<1>4. Issued'
  BY <1>2 DEF RestKept, Issued
<1>5. Confirmed'
  BY <1>2 DEF IInv, Confirmed
<1>6. \A u \in Tabs : Settled(tab[u])'
  BY <1>2 DEF Settled
<1> QED BY <1>2, <1>3, <1>4, <1>5, <1>6 DEF IInv, RestKept

\* A step that leaves the tabs alone and keeps the rest keeps IInv.
LEMMA UnrenderedStep ==
    ASSUME IInv, RestKept, tab' = tab, confirmed \subseteq confirmed'
    PROVE  IInv'
<1>1. SessionTypeOK' /\ TokensAgree'
  BY DEF IInv, RestKept, SessionTypeOK, OwnersStay, TokensAgree
<1>2. Issued'
  BY DEF IInv, RestKept, Issued, OwnersStay, SessionTypeOK, State
<1>3. Confirmed' /\ \A u \in Tabs : Settled(tab[u])'
  BY DEF IInv, Confirmed, Settled
<1> QED BY <1>1, <1>2, <1>3 DEF IInv, RestKept

-----------------------------------------------------------------------------
(* Every action keeps IInv. *)

LEMMA Facts ==
    ASSUME IInv
    PROVE  /\ None \notin Accounts /\ None \notin Tokens
           /\ active \subseteq Accounts /\ expired \subseteq Tokens
           /\ owner \in [Tokens -> Accounts \cup {None}]
           /\ stored \in Tokens \cup {None}
           /\ stored # None => owner[stored] # None
           /\ loads \in 0..MaxLoads
           /\ signedOut \subseteq Tabs /\ confirmed \subseteq Tabs
           /\ calls \in [Slots -> Call \cup {None}]
           /\ \A t \in Tabs :
                 /\ tab[t] \in State
                 /\ tab[t].api = tab[t].token
                 /\ tab[t].token # None => owner[tab[t].token] # None
                 /\ tab[t].token # None /\ ~tab[t].loading => t \in confirmed
                 /\ tab[t].page = "/verify-otp" => tab[t].handoff # None
           /\ \A s \in Slots : calls[s] # None => calls[s] \in Call /\ Carries(calls[s])
BY SessionAssumption DEF IInv, SessionTypeOK, TokensAgree, Issued, Confirmed, Settled, Tokens

LEMMA InitHolds == SessionInit => IInv
<1> SUFFICES ASSUME SessionInit
             PROVE  IInv
  OBVIOUS
<1>1. SessionTypeOK
  BY SessionAssumption DEF SessionInit, SessionTypeOK, Closed, State
<1>2. TokensAgree /\ (\A t \in Tabs : Settled(tab[t])) /\ Issued /\ Confirmed
  BY DEF SessionInit, Closed, TokensAgree, Settled, Issued, Confirmed
<1>3. SignedOut /\ \A s \in Slots : calls[s] # None => Carries(calls[s])
  BY DEF SessionInit, SignedOut
<1> QED BY <1>1, <1>2, <1>3 DEF IInv

\* Forgetting fetches, with the server and the tokens left alone.
LEMMA RestOfForgetting ==
    ASSUME IInv, CallsKept, UNCHANGED <<owner, expired, loads>>,
           active' \subseteq Accounts,
           stored' \in {stored, None},
           confirmed' \subseteq Tabs,
           signedOut' \subseteq signedOut,
           \A t \in signedOut : tab'[t].token = None
    PROVE  RestKept
<1>1. OwnersStay
  BY Facts DEF OwnersStay
<1>2. SignedOut'
  BY SignedOutKept
<1>3. \A s \in Slots : calls'[s] # None => Carries(calls[s])'
  BY <1>1, CallsKeptCarry
<1> QED BY <1>1, <1>2, <1>3, Facts DEF RestKept, CallsKept

LEMMA ForgetOne ==
    ASSUME IInv, NEW s \in Slots, calls' = [calls EXCEPT ![s] = None]
    PROVE  CallsKept
BY Facts DEF CallsKept

LEMMA ForgetForms ==
    ASSUME IInv, NEW t,
           \/ calls' = Unmounted(t)
           \/ \E s \in Slots : calls' = [Unmounted(t) EXCEPT ![s] = None]
    PROVE  CallsKept
<1>1. calls \in [Slots -> Call \cup {None}]
  BY Facts
<1>2. Unmounted(t) \in [Slots -> Call \cup {None}]
  BY <1>1, UnmountedKeeps
<1>3. \A s \in Slots :
         /\ Unmounted(t)[s] # None => calls[s] # None
         /\ Unmounted(t)[s].tab = calls[s].tab
         /\ Unmounted(t)[s].kind = calls[s].kind
         /\ Unmounted(t)[s].account = calls[s].account
         /\ Unmounted(t)[s].token = calls[s].token
  BY <1>1, UnmountedKeeps
<1> QED BY <1>2, <1>3 DEF CallsKept

LEMMA HydrateAnsweredKeeps ==
    ASSUME IInv, NEW s \in Slots, HydrateAnswered(s)
    PROVE  IInv'
<1> DEFINE t     == calls[s].tab
           state == [tab[t] EXCEPT !.email = owner[calls[s].token], !.loading = FALSE]
<1>1. t \in Tabs /\ calls[s].token \in Tokens
  BY Facts DEF HydrateAnswered, Call, Carries
<1>2. /\ state \in State
      /\ state.api = tab[t].api /\ state.token = tab[t].token
  BY <1>1, Facts DEF State
<1>3. Render(t, state)
  BY DEF HydrateAnswered
<1>4. CallsKept
  BY ForgetOne DEF HydrateAnswered
<1>5. \A u \in signedOut : tab'[u].token = None
  BY <1>1, <1>2, <1>3, Facts, RedirectedFacts DEF Render, IInv, SignedOut, SessionTypeOK
<1>6. RestKept
  BY <1>1, <1>4, <1>5, RestOfForgetting, Facts DEF HydrateAnswered, server
<1> HIDE DEF state
<1> QED BY <1>1, <1>2, <1>3, <1>6, Facts, RenderedStep DEF HydrateAnswered, server

LEMMA HydrateFailedKeeps ==
    ASSUME IInv, NEW s \in Slots, HydrateFailed(s)
    PROVE  IInv'
<1> DEFINE t     == calls[s].tab
           state == [tab[t] EXCEPT !.api = None, !.token = None, !.loading = FALSE]
<1>1. t \in Tabs
  BY Facts DEF HydrateFailed, Call
<1>2. /\ state \in State
      /\ state.api = None /\ state.token = None
  BY <1>1, Facts DEF State
<1>3. Render(t, state)
  BY DEF HydrateFailed
<1>4. CallsKept
  BY ForgetOne DEF HydrateFailed
<1>5. \A u \in signedOut : tab'[u].token = None
  BY <1>1, <1>2, <1>3, Facts, RedirectedFacts DEF Render, IInv, SignedOut, SessionTypeOK
<1>6. RestKept
  BY <1>1, <1>4, <1>5, RestOfForgetting, Facts DEF HydrateFailed, server
<1> HIDE DEF state
<1> QED BY <1>1, <1>2, <1>3, <1>6, Facts, RenderedStep DEF HydrateFailed

LEMMA ProfileAnsweredKeeps ==
    ASSUME IInv, NEW s \in Slots, ProfileAnswered(s)
    PROVE  IInv'
<1> DEFINE t     == calls[s].tab
           state == [tab[t] EXCEPT !.email = owner[calls[s].token], !.page = "/"]
<1>1. t \in Tabs /\ calls[s].token \in Tokens
  BY Facts DEF ProfileAnswered, Call, Carries
<1>2. /\ state \in State
      /\ state.api = tab[t].api /\ state.token = tab[t].token
      /\ state.loading = tab[t].loading
  BY <1>1, Facts DEF State, Pages
<1>3. Render(t, state)
  BY DEF ProfileAnswered
<1>4. CallsKept
  BY ForgetForms DEF ProfileAnswered
<1>5. \A u \in signedOut : tab'[u].token = None
  BY <1>1, <1>2, <1>3, Facts, RedirectedFacts DEF Render, IInv, SignedOut, SessionTypeOK
<1>6. RestKept
  BY <1>1, <1>4, <1>5, RestOfForgetting, Facts DEF ProfileAnswered, server
<1> HIDE DEF state
<1> QED BY <1>1, <1>2, <1>3, <1>6, Facts, RenderedStep DEF ProfileAnswered, server

LEMMA RegisterAnsweredKeeps ==
    ASSUME IInv, NEW s \in Slots, RegisterAnswered(s)
    PROVE  IInv'
<1> DEFINE t     == calls[s].tab
           state == [tab[t] EXCEPT !.page = "/verify-otp", !.handoff = calls[s].account]
<1>1. t \in Tabs /\ calls[s].account \in Accounts
  BY Facts DEF RegisterAnswered, Call, Carries
<1>2. /\ state \in State
      /\ state.api = tab[t].api /\ state.token = tab[t].token
      /\ state.loading = tab[t].loading
  BY <1>1, Facts DEF State, Pages
<1>3. Render(t, state)
  BY DEF RegisterAnswered
<1>4. CallsKept
  BY ForgetForms DEF RegisterAnswered
<1>5. \A u \in signedOut : tab'[u].token = None
  BY <1>1, <1>2, <1>3, Facts, RedirectedFacts DEF Render, IInv, SignedOut, SessionTypeOK
<1>6. RestKept
  BY <1>1, <1>4, <1>5, RestOfForgetting, Facts DEF RegisterAnswered, server
<1> HIDE DEF state
<1> QED BY <1>1, <1>2, <1>3, <1>6, Facts, RenderedStep DEF RegisterAnswered, server

LEMMA VerifyAnsweredKeeps ==
    ASSUME IInv, NEW s \in Slots, VerifyAnswered(s)
    PROVE  IInv'
<1> DEFINE t     == calls[s].tab
           state == [tab[t] EXCEPT !.page = "/login"]
<1>1. t \in Tabs /\ calls[s].account \in Accounts
  BY Facts DEF VerifyAnswered, Call, Carries
<1>2. /\ state \in State
      /\ state.api = tab[t].api /\ state.token = tab[t].token
      /\ state.loading = tab[t].loading
  BY <1>1, Facts DEF State, Pages
<1>3. Render(t, state)
  BY DEF VerifyAnswered
<1>4. CallsKept
  BY ForgetForms DEF VerifyAnswered
<1>5. \A u \in signedOut : tab'[u].token = None
  BY <1>1, <1>2, <1>3, Facts, RedirectedFacts DEF Render, IInv, SignedOut, SessionTypeOK
<1>6. RestKept
  BY <1>1, <1>4, <1>5, RestOfForgetting, Facts DEF VerifyAnswered
<1> HIDE DEF state
<1> QED BY <1>1, <1>2, <1>3, <1>6, Facts, RenderedStep DEF VerifyAnswered

LEMMA FormFailedKeeps ==
    ASSUME IInv, NEW s \in Slots, FormFailed(s)
    PROVE  IInv'
<1>1. CallsKept
  BY ForgetOne DEF FormFailed
<1>2. RestKept
  BY <1>1, RestOfForgetting, Facts DEF FormFailed, server, IInv, SignedOut
<1> QED BY <1>2, UnrenderedStep DEF FormFailed

LEMMA GoKeeps ==
    ASSUME IInv, NEW t \in Tabs, NEW page \in Pages, Go(t, page)
    PROVE  IInv'
<1> DEFINE state == [tab[t] EXCEPT !.page = page]
<1>1. /\ state \in State
      /\ state.api = tab[t].api /\ state.token = tab[t].token
      /\ state.loading = tab[t].loading
  BY Facts DEF State
<1>2. Render(t, state)
  BY DEF Go
<1>3. CallsKept
  BY ForgetForms DEF Go
<1>4. \A u \in signedOut : tab'[u].token = None
  BY <1>1, <1>2, Facts, RedirectedFacts DEF Render, IInv, SignedOut, SessionTypeOK
<1>5. RestKept
  BY <1>3, <1>4, RestOfForgetting, Facts DEF Go, server
<1> HIDE DEF state
<1> QED BY <1>1, <1>2, <1>5, Facts, RenderedStep DEF Go, server

LEMMA LogoutKeeps ==
    ASSUME IInv, NEW t \in Tabs, Logout(t)
    PROVE  IInv'
<1> DEFINE state == [tab[t] EXCEPT !.api = None, !.token = None, !.email = None]
<1>1. /\ state \in State
      /\ state.api = None /\ state.token = None
  BY Facts DEF State
<1>2. Render(t, state)
  BY DEF Logout
<1>3. CallsKept
  BY ForgetForms DEF Logout
<1>4. \A u \in signedOut \cup {t} : tab'[u].token = None
  <2> HIDE DEF state
  <2>1. /\ tab'[t] = Redirected(state)
        /\ \A u \in Tabs \ {t} : tab'[u] = tab[u]
    BY <1>1, <1>2 DEF Render, IInv, SessionTypeOK
  <2>2. tab'[t].token = None
    BY <1>1, <2>1, RedirectedFacts
  <2> QED BY <2>1, <2>2, Facts DEF IInv, SignedOut
<1>5. OwnersStay
  BY Facts DEF Logout, server, OwnersStay
<1>6. SignedOut'
  <2>1. signedOut' \subseteq signedOut \cup {t}
    BY DEF Logout
  <2>2. ASSUME NEW u \in signedOut', NEW s \in Slots, calls'[s] # None, calls'[s].tab = u
        PROVE  calls'[s].kind # "login"
    <3>1. calls[s] # None /\ calls[s].tab = u /\ calls'[s].kind = calls[s].kind
      BY <1>3, <2>2 DEF CallsKept
    <3>2. CASE u \in signedOut
      BY <3>1, <3>2 DEF IInv, SignedOut
    <3>3. CASE u \notin signedOut
      BY <2>2, <3>1, <3>3 DEF Logout, Awaited
    <3> QED BY <3>2, <3>3
  <2> QED BY <1>4, <2>1, <2>2 DEF SignedOut
<1>7. RestKept
  BY <1>3, <1>5, <1>6, CallsKeptCarry, Facts DEF RestKept, CallsKept, Logout, server
<1> HIDE DEF state
<1> QED BY <1>1, <1>2, <1>7, Facts, RenderedStep DEF Logout

LEMMA ExpireKeeps ==
    ASSUME IInv, NEW k \in Tokens, Expire(k)
    PROVE  IInv'
<1>1. OwnersStay
  BY Facts DEF Expire, OwnersStay
<1>2. RestKept
  BY <1>1, Facts DEF Expire, RestKept, Carries, IInv, SignedOut
<1> QED BY <1>2, UnrenderedStep DEF Expire

\* A form's fetch goes out with what its kind carries.
LEMMA SubmitKeeps ==
    ASSUME IInv, NEW t \in Tabs, NEW page, NEW kind, NEW account,
           Submit(t, page, kind, account, None),
           kind \in {"login", "register", "verify"}, account \in Accounts,
           signedOut' = IF kind = "login" THEN signedOut \ {t} ELSE signedOut
    PROVE  IInv'
<1> DEFINE sent == Fetch(0, t, kind, account, None)
<1>1. PICK s \in Slots : calls' = [calls EXCEPT ![s] = sent]
  BY DEF Submit, Free, Fetch
<1>2. /\ sent \in Call /\ sent.tab = t /\ sent.kind = kind /\ sent.account = account
  BY DEF Fetch, Call
<1>3. OwnersStay
  BY Facts DEF Submit, server, OwnersStay
<1> HIDE DEF sent
<1>4. calls' \in [Slots -> Call \cup {None}]
  BY <1>1, <1>2, Facts
<1>5. \A u \in Slots : calls'[u] # None => Carries(calls[u])'
  <2>1. Carries(calls[s])'
    BY <1>1, <1>2, Facts DEF Carries
  <2>2. ASSUME NEW u \in Slots \ {s}, calls'[u] # None
        PROVE  Carries(calls[u])'
    BY <1>1, <2>2, Facts DEF Carries, Submit, server
  <2> QED BY <2>1, <2>2
<1>6. SignedOut'
  BY <1>1, <1>2, Facts DEF Submit, SignedOut, IInv
<1>7. RestKept
  BY <1>3, <1>4, <1>5, <1>6, Facts DEF RestKept, Submit, server
<1> QED BY <1>7, UnrenderedStep DEF Submit

LEMMA SubmitsKeep ==
    ASSUME IInv, NEW t \in Tabs, SubmitLogin(t) \/ SubmitRegister(t) \/ SubmitCode(t)
    PROVE  IInv'
<1>1. CASE SubmitLogin(t)
  BY <1>1, SubmitKeeps DEF SubmitLogin
<1>2. CASE SubmitRegister(t)
  BY <1>2, SubmitKeeps DEF SubmitRegister
<1>3. CASE SubmitCode(t)
  <2>1. tab[t].handoff \in Accounts
    BY <1>3, Facts DEF SubmitCode, Submit, State
  <2> QED BY <1>3, <2>1, SubmitKeeps DEF SubmitCode
<1> QED BY <1>1, <1>2, <1>3

LEMMA LoadKeeps ==
    ASSUME IInv, NEW t \in Tabs, NEW page \in Pages \cup {"none"},
           NEW handoff \in Accounts \cup {None},
           Load(t, page, handoff)
    PROVE  IInv'
<1> DEFINE kept  == [s \in Slots |-> IF s \in Awaited(t) THEN None ELSE calls[s]]
           blank == [Closed EXCEPT !.page = page, !.handoff = handoff]
           fresh == [blank EXCEPT !.loading = TRUE, !.api = stored, !.token = stored]
           asked == Fetch(0, t, "hydrate", None, stored)
<1>1. OwnersStay
  BY Facts DEF Load, server, OwnersStay
<1>2. /\ kept \in [Slots -> Call \cup {None}]
      /\ \A s \in Slots : kept[s] # None => kept[s] = calls[s] /\ calls[s].tab # t
  BY Facts DEF Awaited
<1>3. CASE stored = None
  <2>1. Render(t, blank) /\ calls' = kept
    BY <1>3 DEF Load
  <2>2. /\ blank \in State /\ blank.token = None /\ blank.api = None
    BY DEF Closed, State
  <2> HIDE DEF blank, kept
  <2>3. \A s \in Slots : calls'[s] # None => Carries(calls[s])'
    BY <1>2, <2>1, Facts DEF Carries, Load, server
  <2>4. /\ \A u \in Tabs \ {t} : tab'[u] = tab[u]
    BY <2>1 DEF Render, IInv, SessionTypeOK
  <2>5. SignedOut'
    BY <1>2, <2>1, <2>4, Facts DEF Load, SignedOut, IInv
  <2>6. RestKept
    BY <1>1, <1>2, <2>1, <2>3, <2>5, Facts, SessionAssumption DEF RestKept, Load, server
  <2> QED BY <2>1, <2>2, <2>6, RenderedStep DEF Load
<1>4. CASE stored # None
  <2>1. /\ Render(t, fresh)
        /\ \E s \in Slots : calls' = [kept EXCEPT ![s] = asked]
    BY <1>4 DEF Load, Free, Fetch
  <2>2. /\ fresh \in State /\ fresh.token = stored /\ fresh.api = stored
        /\ fresh.loading = TRUE
    BY Facts DEF Closed, State
  <2>3. /\ asked \in Call /\ asked.tab = t /\ asked.kind = "hydrate" /\ asked.token = stored
    BY Facts DEF Fetch, Call
  <2> HIDE DEF fresh, kept, asked
  <2>4. PICK s \in Slots : calls' = [kept EXCEPT ![s] = asked]
    BY <2>1
  <2>5. calls' \in [Slots -> Call \cup {None}]
    BY <1>2, <2>3, <2>4
  <2>6. \A u \in Slots : calls'[u] # None => Carries(calls[u])'
    <3>1. Carries(calls[s])'
      BY <1>2, <1>4, <2>3, <2>4, Facts DEF Carries, Load, server
    <3>2. ASSUME NEW u \in Slots \ {s}, calls'[u] # None
          PROVE  Carries(calls[u])'
      BY <1>2, <2>4, <3>2, Facts DEF Carries, Load, server
    <3> QED BY <3>1, <3>2
  <2>7. /\ \A u \in Tabs \ {t} : tab'[u] = tab[u]
    BY <2>1 DEF Render, IInv, SessionTypeOK
  <2>8. SignedOut'
    BY <1>2, <2>3, <2>4, <2>7, Facts DEF Load, SignedOut, IInv
  <2>9. RestKept
    BY <1>1, <2>5, <2>6, <2>8, Facts, SessionAssumption DEF RestKept, Load, server
  <2> QED BY <1>4, <2>1, <2>2, <2>9, Facts, RenderedStep DEF Load, server
<1> QED BY <1>3, <1>4

LEMMA LoginAnsweredKeeps ==
    ASSUME IInv, NEW s \in Slots, LoginAnswered(s)
    PROVE  IInv'
<1> DEFINE t == calls[s].tab
           a == calls[s].account
<1>1. /\ t \in Tabs /\ a \in Accounts /\ calls[s] \in Call
      /\ calls[s].kind = "login" /\ calls[s] # None
  BY Facts DEF LoginAnswered, Call, Carries
<1>2. PICK k \in Tokens :
         /\ owner[k] = None
         /\ owner' = [owner EXCEPT ![k] = a]
         /\ stored' = k
         /\ Render(t, [tab[t] EXCEPT !.api = k, !.token = k])
         /\ calls' = [calls EXCEPT ![s].kind = "profile", ![s].token = k]
  BY DEF LoginAnswered
<1> DEFINE state == [tab[t] EXCEPT !.api = k, !.token = k]
           asked == [[calls[s] EXCEPT !.kind = "profile"] EXCEPT !.token = k]
<1>3. /\ state \in State /\ state.api = k /\ state.token = k
  BY <1>1, Facts DEF State
<1>4. /\ asked \in Call /\ asked.tab = t /\ asked.kind = "profile" /\ asked.token = k
  BY <1>1 DEF Call
<1>5. calls' = [calls EXCEPT ![s] = asked]
  BY <1>2, Facts
<1> HIDE DEF state, asked
<1>6. OwnersStay /\ owner'[k] # None
  BY <1>1, <1>2, Facts DEF OwnersStay
<1>7. calls' \in [Slots -> Call \cup {None}]
  BY <1>4, <1>5, Facts
<1>8. \A u \in Slots : calls'[u] # None => Carries(calls[u])'
  <2>1. Carries(calls[s])'
    BY <1>4, <1>5, <1>6, Facts DEF Carries
  <2>2. ASSUME NEW u \in Slots \ {s}, calls'[u] # None
        PROVE  Carries(calls[u])'
    BY <1>5, <1>6, <2>2, Facts DEF Carries, OwnersStay, Call
  <2> QED BY <2>1, <2>2
<1>9. t \notin signedOut
  BY <1>1 DEF IInv, SignedOut
<1>10. Render(t, state)
  BY <1>2 DEF state
<1>11. \A u \in Tabs \ {t} : tab'[u] = tab[u]
  BY <1>10 DEF Render, IInv, SessionTypeOK
<1>12. SignedOut'
  BY <1>4, <1>5, <1>9, <1>11, Facts DEF LoginAnswered, SignedOut, IInv
<1>13. RestKept
  BY <1>1, <1>2, <1>6, <1>7, <1>8, <1>12, Facts DEF RestKept, LoginAnswered
<1> QED BY <1>1, <1>3, <1>6, <1>10, <1>13, Facts, RenderedStep DEF LoginAnswered

LEMMA SettleKeeps ==
    ASSUME IInv, NEW s \in Slots, Settle(s)
    PROVE  IInv'
BY HydrateAnsweredKeeps, HydrateFailedKeeps, LoginAnsweredKeeps, ProfileAnsweredKeeps,
   RegisterAnsweredKeeps, VerifyAnsweredKeeps, FormFailedKeeps DEF Settle

LEMMA TabActionKeeps ==
    ASSUME IInv, NEW t \in Tabs,
           \/ \E page \in Pages : Open(t, page) \/ Go(t, page)
           \/ Reload(t) \/ Logout(t)
           \/ SubmitLogin(t) \/ SubmitRegister(t) \/ SubmitCode(t)
    PROVE  IInv'
<1>1. CASE \E page \in Pages : Open(t, page)
  BY <1>1, LoadKeeps DEF Open
<1>2. CASE \E page \in Pages : Go(t, page)
  BY <1>2, GoKeeps
<1>3. CASE Reload(t)
  <2>1. tab[t].page \in Pages \cup {"none"} /\ tab[t].handoff \in Accounts \cup {None}
    BY Facts DEF State
  <2> QED BY <1>3, <2>1, LoadKeeps DEF Reload
<1>4. CASE Logout(t)
  BY <1>4, LogoutKeeps
<1>5. CASE SubmitLogin(t) \/ SubmitRegister(t) \/ SubmitCode(t)
  BY <1>5, SubmitsKeep
<1> QED BY <1>1, <1>2, <1>3, <1>4, <1>5

LEMMA StepKeeps == IInv /\ [SessionNext]_sessionVars => IInv'
<1> SUFFICES ASSUME IInv, [SessionNext]_sessionVars
             PROVE  IInv'
  OBVIOUS
<1>1. CASE SessionNext
  BY <1>1, SettleKeeps, TabActionKeeps, ExpireKeeps DEF SessionNext
<1>2. CASE UNCHANGED sessionVars
  BY <1>2 DEF sessionVars, server, IInv, SessionTypeOK, TokensAgree, Settled, Carries,
              Issued, Confirmed, SignedOut
<1> QED BY <1>1, <1>2

-----------------------------------------------------------------------------
\* The inductive invariant holds: tabs are settled, tokens are issued before
\* they are held, and a tab that is logged out awaits no login.
THEOREM SessionInvariance == SessionSpec => []IInv
<1>1. SessionInit => IInv
  BY InitHolds
<1>2. IInv /\ [SessionNext]_sessionVars => IInv'
  BY StepKeeps
<1> QED BY <1>1, <1>2, PTL DEF SessionSpec

\* Types of the browser's state.
THEOREM SessionTypes == SessionSpec => []SessionTypeOK
<1>1. IInv => SessionTypeOK
  BY DEF IInv
<1> QED BY <1>1, SessionInvariance, PTL

\* The provider and api.ts always hold the same token.
THEOREM TokenAgreement == SessionSpec => []TokensAgree
<1>1. IInv => TokensAgree
  BY DEF IInv
<1> QED BY <1>1, SessionInvariance, PTL

\* No late answer brings a session back after a logout.
THEOREM LogoutLasts == SessionSpec => []LogoutFinal
<1>1. IInv => LogoutFinal
  BY Facts DEF IInv, SignedOut, LogoutFinal, TokensAgree
<1> QED BY <1>1, SessionInvariance, PTL

\* The dashboard is never shown for a token nobody confirmed.
THEOREM Confirmation == SessionSpec => []ConfirmedBeforeShown
<1>1. IInv => ConfirmedBeforeShown
  BY DEF IInv, Confirmed, ConfirmedBeforeShown, Shown
<1> QED BY <1>1, SessionInvariance, PTL

-----------------------------------------------------------------------------
(* Session implements SessionView. *)

UserOf(t) == IF tab[t].token = None THEN None ELSE owner[tab[t].token]

ViewOf == [t \in Tabs |-> [user |-> UserOf(t), shown |-> Shown(tab[t])]]

\* A step that renders one tab, and shows protected pages only where they
\* were shown or where the user was already there, is a step of the view.
LEMMA OneTabStep ==
    ASSUME IInv, IInv', NEW t \in Tabs,
           \A u \in Tabs \ {t} : tab'[u] = tab[u],
           \A k \in Tokens : owner[k] # None => owner'[k] = owner[k],
           Shown(tab'[t]) => Shown(tab[t]) \/ tab'[t].token = tab[t].token
    PROVE  ViewOf' = ViewOf \/ View!ViewNext
<1> DEFINE user  == IF tab'[t].token = None THEN None ELSE owner'[tab'[t].token]
           shown == Shown(tab'[t])
<1>1. /\ tab[t] \in State /\ Shown(tab[t]) \in BOOLEAN
      /\ \A u \in Tabs : /\ tab[u].token \in Tokens \cup {None}
                         /\ tab[u].token # None => owner[tab[u].token] # None
  BY Facts DEF State, Shown
<1>2. /\ user \in Accounts \cup {None} /\ shown \in BOOLEAN
      /\ shown => tab'[t].token # None /\ user # None
  <2>1. /\ tab'[t].token \in Tokens \cup {None}
        /\ tab'[t].token # None => owner'[tab'[t].token] # None
        /\ owner' \in [Tokens -> Accounts \cup {None}]
    BY DEF IInv, SessionTypeOK, Issued, State
  <2> QED BY <2>1 DEF Shown
<1>3. ViewOf' = [ViewOf EXCEPT ![t] = [user |-> user, shown |-> shown]]
  <2>1. ViewOf' = [u \in Tabs |->
           [user  |-> IF tab'[u].token = None THEN None ELSE owner'[tab'[u].token],
            shown |-> Shown(tab'[u])]]
    BY DEF ViewOf, UserOf, Shown
  <2>2. ViewOf = [u \in Tabs |->
           [user  |-> IF tab[u].token = None THEN None ELSE owner[tab[u].token],
            shown |-> Shown(tab[u])]]
    BY DEF ViewOf, UserOf
  <2>3. \A u \in Tabs \ {t} : ViewOf'[u] = ViewOf[u]
    BY <1>1, <2>1, <2>2
  <2>4. ViewOf'[t] = [user |-> user, shown |-> shown]
    BY <2>1
  <2> QED BY <2>1, <2>2, <2>3, <2>4
<1>4. /\ ViewOf \in [Tabs -> [user : Accounts \cup {None}, shown : BOOLEAN]]
      /\ ViewOf[t].shown = Shown(tab[t])
      /\ ViewOf[t].user = IF tab[t].token = None THEN None ELSE owner[tab[t].token]
  BY <1>1, Facts DEF ViewOf, UserOf, Shown
<1> HIDE DEF user, shown
<1>5. CASE ~shown
  <2>1. ViewOf' = [ViewOf EXCEPT ![t] = [user |-> user, shown |-> FALSE]]
    BY <1>2, <1>3, <1>5
  <2> QED BY <1>2, <2>1 DEF View!ViewNext, View!Leave, ViewOf, UserOf
<1>6. CASE shown /\ Shown(tab[t])
  <2>1. ViewOf' = [ViewOf EXCEPT ![t].user = user]
    BY <1>2, <1>3, <1>4, <1>6
  <2> QED BY <1>2, <1>6, <2>1 DEF View!ViewNext, View!Switch, ViewOf, UserOf
<1>7. CASE shown /\ ~Shown(tab[t])
  <2>1. tab'[t].token = tab[t].token /\ tab[t].token # None
    BY <1>2, <1>7 DEF shown
  <2>2. user = ViewOf[t].user /\ user # None
    BY <1>1, <1>2, <1>4, <1>7, <2>1 DEF user
  <2>3. ViewOf' = [ViewOf EXCEPT ![t].shown = TRUE]
    BY <1>2, <1>3, <1>4, <1>7, <2>2
  <2> QED BY <1>4, <1>7, <2>2, <2>3 DEF View!ViewNext, View!Show, ViewOf, UserOf
<1> QED BY <1>2, <1>5, <1>6, <1>7

LEMMA RenderedView ==
    ASSUME IInv, IInv', NEW t \in Tabs, NEW state \in State, Render(t, state),
           \A k \in Tokens : owner[k] # None => owner'[k] = owner[k],
           Shown(state) => Shown(tab[t]) \/ state.token = tab[t].token
    PROVE  ViewOf' = ViewOf \/ View!ViewNext
<1>1. /\ tab'[t] = Redirected(state)
      /\ \A u \in Tabs \ {t} : tab'[u] = tab[u]
  BY DEF Render, IInv, SessionTypeOK
<1>2. Shown(tab'[t]) => Shown(tab[t]) \/ tab'[t].token = tab[t].token
  BY <1>1, RedirectedFacts
<1> QED BY <1>1, <1>2, OneTabStep

LEMMA UnrenderedView ==
    ASSUME UNCHANGED <<tab, owner>>
    PROVE  ViewOf' = ViewOf
BY DEF ViewOf, UserOf, Shown

LEMMA SettleView ==
    ASSUME IInv, IInv', NEW s \in Slots, Settle(s)
    PROVE  ViewOf' = ViewOf \/ View!ViewNext
<1> DEFINE t == calls[s].tab
<1>1. /\ t \in Tabs /\ tab[t] \in State
      /\ Carries(calls[s])
  BY Facts DEF Settle, HydrateAnswered, HydrateFailed, LoginAnswered, ProfileAnswered,
               RegisterAnswered, VerifyAnswered, FormFailed, Call
<1>2. CASE HydrateAnswered(s)
  <2> DEFINE state == [tab[t] EXCEPT !.email = owner[calls[s].token], !.loading = FALSE]
  <2>1. state \in State /\ state.token = tab[t].token
    BY <1>1, <1>2, Facts DEF HydrateAnswered, Carries, Call, State
  <2> QED BY <1>1, <1>2, <2>1, RenderedView DEF HydrateAnswered, server
<1>3. CASE HydrateFailed(s)
  <2> DEFINE state == [tab[t] EXCEPT !.api = None, !.token = None, !.loading = FALSE]
  <2>1. state \in State /\ state.token = None
    BY <1>1 DEF State
  <2>2. ~Shown(state)
    BY <2>1 DEF Shown
  <2> QED BY <1>1, <1>3, <2>1, <2>2, RenderedView DEF HydrateFailed, server
<1>4. CASE LoginAnswered(s)
  <2>1. PICK k \in Tokens :
           /\ owner[k] = None
           /\ owner' = [owner EXCEPT ![k] = calls[s].account]
           /\ Render(t, [tab[t] EXCEPT !.api = k, !.token = k])
    BY <1>4 DEF LoginAnswered
  <2> DEFINE state == [tab[t] EXCEPT !.api = k, !.token = k]
  <2>2. /\ state \in State /\ state.page = tab[t].page /\ state.loading = tab[t].loading
    BY <1>1 DEF State
  <2>3. Shown(state) => Shown(tab[t])
    BY <1>1, <2>2 DEF Shown, Settled, IInv
  <2>4. \A j \in Tokens : owner[j] # None => owner'[j] = owner[j]
    BY <2>1, Facts
  <2> QED BY <1>1, <2>1, <2>2, <2>3, <2>4, RenderedView
<1>5. CASE ProfileAnswered(s)
  <2> DEFINE state == [tab[t] EXCEPT !.email = owner[calls[s].token], !.page = "/"]
  <2>1. state \in State /\ state.token = tab[t].token
    BY <1>1, <1>5, Facts DEF ProfileAnswered, Carries, Call, State, Pages
  <2> QED BY <1>1, <1>5, <2>1, RenderedView DEF ProfileAnswered, server
<1>6. CASE RegisterAnswered(s)
  <2> DEFINE state == [tab[t] EXCEPT !.page = "/verify-otp", !.handoff = calls[s].account]
  <2>1. state \in State /\ state.token = tab[t].token
    BY <1>1, <1>6, Facts DEF RegisterAnswered, Call, State, Pages
  <2> QED BY <1>1, <1>6, <2>1, RenderedView DEF RegisterAnswered, server
<1>7. CASE VerifyAnswered(s)
  <2> DEFINE state == [tab[t] EXCEPT !.page = "/login"]
  <2>1. state \in State /\ state.token = tab[t].token
    BY <1>1 DEF State, Pages
  <2> QED BY <1>1, <1>7, <2>1, RenderedView DEF VerifyAnswered
<1>8. CASE FormFailed(s)
  BY <1>8, UnrenderedView DEF FormFailed, server
<1> QED BY <1>2, <1>3, <1>4, <1>5, <1>6, <1>7, <1>8 DEF Settle

LEMMA LoadView ==
    ASSUME IInv, IInv', NEW t \in Tabs, NEW page \in Pages \cup {"none"},
           NEW handoff \in Accounts \cup {None},
           Load(t, page, handoff)
    PROVE  ViewOf' = ViewOf \/ View!ViewNext
<1> DEFINE blank == [Closed EXCEPT !.page = page, !.handoff = handoff]
           fresh == [blank EXCEPT !.loading = TRUE, !.api = stored, !.token = stored]
<1>1. Render(t, blank) \/ Render(t, fresh)
  BY DEF Load
<1>2. /\ blank \in State /\ ~Shown(blank)
      /\ fresh \in State /\ ~Shown(fresh)
  BY Facts DEF Closed, State, Shown
<1>3. owner' = owner
  BY DEF Load, server
<1> HIDE DEF blank, fresh
<1> QED BY <1>1, <1>2, <1>3, RenderedView

LEMMA TabActionView ==
    ASSUME IInv, IInv', NEW t \in Tabs,
           \/ \E page \in Pages : Open(t, page) \/ Go(t, page)
           \/ Reload(t) \/ Logout(t)
           \/ SubmitLogin(t) \/ SubmitRegister(t) \/ SubmitCode(t)
    PROVE  ViewOf' = ViewOf \/ View!ViewNext
<1>1. CASE \E page \in Pages : Open(t, page)
  BY <1>1, LoadView DEF Open
<1>2. CASE \E page \in Pages : Go(t, page)
  <2>1. PICK page \in Pages : Go(t, page)
    BY <1>2
  <2> DEFINE state == [tab[t] EXCEPT !.page = page]
  <2>2. state \in State /\ state.token = tab[t].token
    BY Facts DEF State
  <2> QED BY <2>1, <2>2, RenderedView DEF Go, server
<1>3. CASE Reload(t)
  <2>1. tab[t].page \in Pages \cup {"none"} /\ tab[t].handoff \in Accounts \cup {None}
    BY Facts DEF State
  <2> QED BY <1>3, <2>1, LoadView DEF Reload
<1>4. CASE Logout(t)
  <2> DEFINE state == [tab[t] EXCEPT !.api = None, !.token = None, !.email = None]
  <2>1. state \in State /\ ~Shown(state)
    BY Facts DEF State, Shown
  <2> QED BY <1>4, <2>1, RenderedView DEF Logout, server
<1>5. CASE SubmitLogin(t) \/ SubmitRegister(t) \/ SubmitCode(t)
  BY <1>5, UnrenderedView DEF SubmitLogin, SubmitRegister, SubmitCode, Submit, server
<1> QED BY <1>1, <1>2, <1>3, <1>4, <1>5

\* Session implements SessionView: protected pages appear only for the user
\* already there, and that user changes under them only by a login.
THEOREM ViewKept == SessionSpec => KeepsView
<1>1. SessionInit => View!ViewInit
  <2> SUFFICES ASSUME SessionInit
               PROVE  View!ViewInit
    OBVIOUS
  <2>1. \A t \in Tabs : tab[t].token = None /\ ~Shown(tab[t])
    BY DEF SessionInit, Closed, Shown
  <2>2. \A t \in Tabs : Shown(tab[t]) = FALSE
    BY <2>1 DEF Shown
  <2> QED BY <2>1, <2>2 DEF View!ViewInit
<1>2. IInv /\ IInv' /\ [SessionNext]_sessionVars => [View!ViewNext]_ViewOf
  <2> SUFFICES ASSUME IInv, IInv', [SessionNext]_sessionVars
               PROVE  ViewOf' = ViewOf \/ View!ViewNext
    OBVIOUS
  <2>1. ASSUME NEW k \in Tokens, Expire(k)
        PROVE  ViewOf' = ViewOf
    BY <2>1, UnrenderedView DEF Expire
  <2>2. CASE UNCHANGED sessionVars
    BY <2>2, UnrenderedView DEF sessionVars, server
  <2> QED BY <2>1, <2>2, SettleView, TabActionView DEF SessionNext
<1> QED BY <1>1, <1>2, SessionInvariance, PTL DEF SessionSpec, KeepsView,
       View!ViewSpec, ViewOf, UserOf
=============================================================================

------------------------------- MODULE Session -------------------------------
(***************************************************************************)
(* The browser's side of authentication: AuthProvider over localStorage,   *)
(* the token apiFetch sends, the routes of App and the three public pages, *)
(* in the tabs of one browser.  Tabs share localStorage and nothing else.  *)
(*                                                                         *)
(* One action is one run of the event loop: a click, a load, or the code   *)
(* that resumes when a fetch settles.  Fetches settle in any order, and    *)
(* the code after an await runs even if its page was left meanwhile; only  *)
(* loading the document anew abandons it.  What the server does with codes *)
(* and passwords is Authentication's; here it accepts or refuses.          *)
(***************************************************************************)
EXTENDS Naturals, FiniteSets

CONSTANTS
    Tabs, Accounts,
    MaxFetches,     \* bound on the fetches of AuthProvider and forms in flight
    MaxTokens,      \* bound on the logins that succeed
    MaxLoads,       \* bound on the documents loaded
    Verified,       \* accounts active from the start
    Forms,          \* subset of {"login", "register", "verify"} users submit
    None

ASSUME SessionAssumption ==
    /\ MaxTokens \in Nat /\ MaxLoads \in Nat /\ MaxFetches \in Nat
    /\ Verified \subseteq Accounts /\ Forms \subseteq {"login", "register", "verify"}
    /\ None \notin Accounts \cup (1..MaxTokens)

Tokens == 1..MaxTokens

Slots == 1..MaxFetches

VARIABLES
    active,     \* accounts whose status is active
    owner,      \* per token its account, None before it is issued
    expired,    \* tokens past JWT_ACCESS_EXPIRES_IN
    stored,     \* gain_access_token in localStorage, or None
    tab,        \* per tab its page and the state of AuthProvider
    calls,      \* per slot the fetch awaited, or None
    loads,      \* documents loaded so far
    signedOut,  \* auxiliary: tabs whose user logged out, with no login in
                \* flight, and did nothing to log in since
    confirmed   \* auxiliary: tabs whose document saw a token accepted

server == <<active, owner, expired>>
sessionVars == <<server, stored, tab, calls, loads, signedOut, confirmed>>

Pages == {"/", "/login", "/register", "/verify-otp"}

Closed == [page |-> "none", loading |-> FALSE, api |-> None, token |-> None,
           email |-> None, handoff |-> None]

SessionInit ==
    /\ active = Verified
    /\ owner = [k \in Tokens |-> None]
    /\ expired = {}
    /\ stored = None
    /\ tab = [t \in Tabs |-> Closed]
    /\ calls = [s \in Slots |-> None]
    /\ loads = 0
    /\ signedOut = {}
    /\ confirmed = {}

Awaited(t) == {s \in Slots : calls[s] # None /\ calls[s].tab = t}

\* The form on t's page is submitting: its button is disabled.  A form that
\* was left and entered again is a new one.
Submitting(t) == \E s \in Awaited(t) : calls[s].form

IsOpen(t) == tab[t].page # "none"

\* Mutant: the gate does not wait for hydration.
ShownEagerly(state) == state.page = "/" /\ state.token # None

\* Mutant: the gate only waits for hydration.
ShownToAnyone(state) == state.page = "/" /\ ~state.loading

\* ProtectedRoute renders the dashboard.
Shown(state) == state.page = "/" /\ ~state.loading /\ state.token # None

\* The redirects a render performs: out of the gate, and away from a code
\* form that has nothing to verify.
Redirected(state) ==
    CASE state.page = "/" /\ ~state.loading /\ ~Shown(state) -> [state EXCEPT !.page = "/login"]
      [] state.page = "/verify-otp" /\ state.handoff = None -> [state EXCEPT !.page = "/register"]
      [] OTHER -> state

Render(t, state) == tab' = [tab EXCEPT ![t] = Redirected(state)]

\* Leaving a page unmounts its form.
Unmounted(t) == [s \in Slots |-> IF s \in Awaited(t) THEN [calls[s] EXCEPT !.form = FALSE]
                                                     ELSE calls[s]]

Fetch(s, t, kind, account, token) ==
    [tab |-> t, kind |-> kind, account |-> account, token |-> token,
     form |-> kind # "hydrate"]

\* The first slot without a fetch.
Free(fetches) == {s \in Slots : fetches[s] = None /\ \A u \in 1..(s - 1) : fetches[u] # None}

-----------------------------------------------------------------------------
(* Loading the document: AuthProvider mounts and hydrates. *)

\* "handoff" is the registration token of the history entry, which the
\* browser keeps over a reload; an address typed anew has none.
Load(t, page, handoff) ==
    /\ loads < MaxLoads
    /\ loads' = loads + 1
    /\ LET kept == [s \in Slots |-> IF s \in Awaited(t) THEN None ELSE calls[s]]
           fresh == [Closed EXCEPT !.page = page, !.handoff = handoff]
       IN  IF stored = None
             THEN /\ calls' = kept
                  /\ Render(t, fresh)
             ELSE /\ Render(t, [fresh EXCEPT !.loading = TRUE, !.api = stored, !.token = stored])
                  /\ \E s \in Free(kept) :
                        calls' = [kept EXCEPT ![s] = Fetch(s, t, "hydrate", None, stored)]
    /\ signedOut' = signedOut \ {t}
    /\ confirmed' = confirmed \ {t}
    /\ UNCHANGED <<server, stored>>

Open(t, page) == Load(t, page, None)

Reload(t) == IsOpen(t) /\ Load(t, tab[t].page, tab[t].handoff)

\* getMe is accepted for an access token that has not expired.
Accepted(token) == token # None /\ token \notin expired

HydrateAnswered(s) ==
    LET t == calls[s].tab IN
    /\ calls[s] # None /\ calls[s].kind = "hydrate"
    /\ Accepted(calls[s].token)
    /\ Render(t, [tab[t] EXCEPT !.email = owner[calls[s].token], !.loading = FALSE])
    /\ calls' = [calls EXCEPT ![s] = None]
    /\ confirmed' = confirmed \cup {t}
    /\ UNCHANGED <<server, stored, loads, signedOut>>

\* Mutant: the flag falls only when hydration succeeds.
HydrateFailedStuck(s) ==
    LET t == calls[s].tab IN
    /\ calls[s] # None /\ calls[s].kind = "hydrate"
    /\ stored' = None
    /\ Render(t, [tab[t] EXCEPT !.api = None, !.token = None])
    /\ calls' = [calls EXCEPT ![s] = None]
    /\ UNCHANGED <<server, loads, signedOut, confirmed>>

\* Mutant: the provider's own state keeps the token.
HydrateFailedHalf(s) ==
    LET t == calls[s].tab IN
    /\ calls[s] # None /\ calls[s].kind = "hydrate"
    /\ stored' = None
    /\ Render(t, [tab[t] EXCEPT !.api = None, !.loading = FALSE])
    /\ calls' = [calls EXCEPT ![s] = None]
    /\ UNCHANGED <<server, loads, signedOut, confirmed>>

\* A refusal, a server error and a lost connection are caught alike: the
\* session in localStorage is dropped, whoever stored it.
HydrateFailed(s) ==
    LET t == calls[s].tab IN
    /\ calls[s] # None /\ calls[s].kind = "hydrate"
    /\ stored' = None
    /\ Render(t, [tab[t] EXCEPT !.api = None, !.token = None, !.loading = FALSE])
    /\ calls' = [calls EXCEPT ![s] = None]
    /\ confirmed' = confirmed \ {t}
    /\ UNCHANGED <<server, loads, signedOut>>

-----------------------------------------------------------------------------
(* Login and logout. *)

\* A submit of the form on t's page: apiFetch goes out with the token the
\* kind of call asks for (none, or the registration token of the entry).
Submit(t, page, kind, account, token) ==
    /\ kind \in Forms
    /\ tab[t].page = page
    /\ ~Submitting(t)
    /\ \E s \in Free(calls) : calls' = [calls EXCEPT ![s] = Fetch(s, t, kind, account, token)]
    /\ UNCHANGED <<server, stored, tab, loads, confirmed>>

SubmitLogin(t) ==
    /\ \E a \in Accounts : Submit(t, "/login", "login", a, None)
    /\ signedOut' = signedOut \ {t}

\* Both tokens are stored and the session switches before getMe is asked.
LoginAnswered(s) ==
    LET t == calls[s].tab
        a == calls[s].account
    IN  /\ calls[s] # None /\ calls[s].kind = "login"
        /\ a \in active
        /\ \E k \in Tokens :
             /\ owner[k] = None /\ \A j \in 1..(k - 1) : owner[j] # None
             /\ owner' = [owner EXCEPT ![k] = a]
             /\ stored' = k
             /\ Render(t, [tab[t] EXCEPT !.api = k, !.token = k])
             /\ calls' = [calls EXCEPT ![s].kind = "profile", ![s].token = k]
        /\ confirmed' = confirmed \cup {t}
        /\ UNCHANGED <<active, expired, loads, signedOut>>

\* Mutant: the session switches only after getMe answered.
ProfileAnsweredLate(s) ==
    LET t == calls[s].tab IN
    /\ calls[s] # None /\ calls[s].kind = "profile"
    /\ Accepted(calls[s].token)
    /\ Render(t, [tab[t] EXCEPT !.email = owner[calls[s].token], !.page = "/",
                                !.api = calls[s].token, !.token = calls[s].token])
    /\ calls' = [Unmounted(t) EXCEPT ![s] = None]
    /\ UNCHANGED <<server, stored, loads, signedOut, confirmed>>

\* The email is set and the user is taken to the dashboard, wherever in the
\* application the tab is by now.
ProfileAnswered(s) ==
    LET t == calls[s].tab IN
    /\ calls[s] # None /\ calls[s].kind = "profile"
    /\ Accepted(calls[s].token)
    /\ Render(t, [tab[t] EXCEPT !.email = owner[calls[s].token], !.page = "/"])
    /\ calls' = [Unmounted(t) EXCEPT ![s] = None]
    /\ UNCHANGED <<server, stored, loads, signedOut, confirmed>>

\* A public form's fetch failed: the form, if it is still there, says so.  A
\* login that failed after its tokens were stored leaves them in place.
FormFailed(s) ==
    /\ calls[s] # None /\ calls[s].kind # "hydrate"
    /\ calls' = [calls EXCEPT ![s] = None]
    /\ UNCHANGED <<server, stored, tab, loads, signedOut, confirmed>>

Logout(t) ==
    /\ Shown(tab[t])
    /\ stored' = None
    /\ Render(t, [tab[t] EXCEPT !.api = None, !.token = None, !.email = None])
    /\ calls' = Unmounted(t)
    /\ signedOut' = IF \E s \in Awaited(t) : calls[s].kind = "login"
                      THEN signedOut ELSE signedOut \cup {t}
    /\ confirmed' = confirmed \ {t}
    /\ UNCHANGED <<server, loads>>

-----------------------------------------------------------------------------
(* Registration, and the way between the pages. *)

SubmitRegister(t) ==
    /\ \E a \in Accounts : Submit(t, "/register", "register", a, None)
    /\ UNCHANGED signedOut

\* The registration token travels in the history entry navigated to.
RegisterAnswered(s) ==
    LET t == calls[s].tab IN
    /\ calls[s] # None /\ calls[s].kind = "register"
    /\ calls[s].account \notin active
    /\ Render(t, [tab[t] EXCEPT !.page = "/verify-otp", !.handoff = calls[s].account])
    /\ calls' = [Unmounted(t) EXCEPT ![s] = None]
    /\ UNCHANGED <<server, stored, loads, signedOut, confirmed>>

SubmitCode(t) ==
    /\ Submit(t, "/verify-otp", "verify", tab[t].handoff, None)
    /\ UNCHANGED signedOut

VerifyAnswered(s) ==
    LET t == calls[s].tab IN
    /\ calls[s] # None /\ calls[s].kind = "verify"
    /\ active' = active \cup {calls[s].account}
    /\ Render(t, [tab[t] EXCEPT !.page = "/login"])
    /\ calls' = [Unmounted(t) EXCEPT ![s] = None]
    /\ UNCHANGED <<owner, expired, stored, loads, signedOut, confirmed>>

\* A link between the public pages, or the browser's back and forward.
Go(t, page) ==
    /\ IsOpen(t)
    /\ page # tab[t].page
    /\ Render(t, [tab[t] EXCEPT !.page = page])
    /\ calls' = Unmounted(t)
    /\ UNCHANGED <<server, stored, loads, signedOut, confirmed>>

Expire(k) ==
    /\ owner[k] # None
    /\ expired' = expired \cup {k}
    /\ UNCHANGED <<active, owner, stored, tab, calls, loads, signedOut, confirmed>>

-----------------------------------------------------------------------------
Settle(s) ==
    \/ HydrateAnswered(s) \/ HydrateFailed(s)
    \/ LoginAnswered(s) \/ ProfileAnswered(s)
    \/ RegisterAnswered(s) \/ VerifyAnswered(s) \/ FormFailed(s)

SessionNext ==
    \/ \E s \in Slots : Settle(s)
    \/ \E t \in Tabs :
          \/ \E page \in Pages : Open(t, page) \/ Go(t, page)
          \/ Reload(t) \/ Logout(t)
          \/ SubmitLogin(t) \/ SubmitRegister(t) \/ SubmitCode(t)
    \/ \E k \in Tokens : Expire(k)

\* A browser settles every fetch, if only with an error.
SessionSpec ==
    SessionInit /\ [][SessionNext]_sessionVars /\ \A s \in Slots : WF_sessionVars(Settle(s))

-----------------------------------------------------------------------------
\* What the protected pages see of the session.
View == INSTANCE SessionView WITH
    Tabs <- Tabs, Accounts <- Accounts, None <- None,
    view <- [t \in Tabs |->
               [user  |-> IF tab[t].token = None THEN None ELSE owner[tab[t].token],
                shown |-> Shown(tab[t])]]

State == [page : Pages \cup {"none"}, loading : BOOLEAN, api : Tokens \cup {None},
          token : Tokens \cup {None}, email : Accounts \cup {None},
          handoff : Accounts \cup {None}]

Call == [tab : Tabs, kind : {"hydrate", "login", "profile", "register", "verify"},
         account : Accounts \cup {None}, token : Tokens \cup {None}, form : BOOLEAN]

\* Types of the browser's state, of the fetches and of what the server keeps.
SessionTypeOK ==
    /\ active \subseteq Accounts
    /\ owner \in [Tokens -> Accounts \cup {None}]
    /\ expired \subseteq Tokens
    /\ stored \in Tokens \cup {None}
    /\ tab \in [Tabs -> State]
    /\ calls \in [Slots -> Call \cup {None}]
    /\ loads \in 0..MaxLoads
    /\ signedOut \subseteq Tabs /\ confirmed \subseteq Tabs

\* The two copies of the token in a document never part: requests go out as
\* the user the interface shows as logged in, through late hydrations, late
\* logins and logouts (api.ts setAccessToken, AuthContext).
TokensAgree == \A t \in Tabs : tab[t].api = tab[t].token

\* Logging out lasts: no answer that arrives afterwards, of a hydration, of
\* the profile a login still asks for or of another tab, brings a session
\* back before the user asks for one (AuthContext logout).
LogoutFinal == \A t \in signedOut : tab[t].api = None /\ tab[t].token = None

\* ProtectedRoute's purpose: a token merely found in localStorage shows no
\* dashboard before the server has accepted it, or a login has replaced it.
ConfirmedBeforeShown == \A t \in Tabs : Shown(tab[t]) => t \in confirmed

\* The session keeps what it promises the protected pages: they appear only
\* for a user who is there, and the user never changes as they appear nor
\* vanishes while they stay (ProtectedRoute, AuthContext).
KeepsView == View!ViewSpec

\* Hydration ends, however it ends, so the gate never stays blank.
HydrationEnds == \A t \in Tabs : tab[t].loading ~> ~tab[t].loading
=============================================================================

---------------------------- MODULE BotLifecycle ----------------------------
(***************************************************************************)
(* BotsService (create, start, pause, stop, remove) and ExchangeService    *)
(* (connect, disconnect) serving concurrent requests of one user; every    *)
(* query filters on userId, so rows of different users never meet.         *)
(*                                                                         *)
(* There are no transactions here: each awaited statement commits on its   *)
(* own, and what a handler read before it may be stale.  A missing row in  *)
(* an update or a delete, and a foreign key to a deleted account, raise a  *)
(* Prisma error nobody catches: the answer is 500.                         *)
(***************************************************************************)
EXTENDS Naturals, FiniteSets

CONSTANTS
    Requests,       \* concurrent HTTP requests; an identity is reused
    Bots,           \* bot ids the database may hand out, each at most once
    Accounts,       \* exchange account ids, each handed out at most once
    MaxBotsPerUser,
    MaxRequests,    \* bound on the number of requests served
    None            \* no bot, no account

ASSUME BotsAssumption ==
    /\ IsFiniteSet(Bots)
    /\ IsFiniteSet(Requests)
    /\ Requests # {}
    /\ MaxBotsPerUser \in Nat \ {0}
    /\ MaxRequests \in Nat
    /\ None \notin Bots \cup Accounts

VARIABLES
    status,     \* per bot "none", "deleted" or its BotStatus
    account,    \* per bot its exchangeAccountId, or None
    connected,  \* exchange accounts in the database
    spent,      \* account ids handed out before
    pc,         \* per request, the statement it awaits or its answer
    call,       \* per request [op, bot, account]
    issued,     \* requests received so far, bounded by MaxRequests
    disturbed   \* auxiliary: requests in flight while another one wrote

rows == <<status, account, connected, spent>>
vars == <<rows, pc, call, issued, disturbed>>

BotStatus == {"stopped", "active", "paused"}

Existing == {b \in Bots : status[b] \in BotStatus}

\* Awaited statements: of create, of the lifecycle endpoints, of connect and
\* disconnect.
InFlight == {"count", "findAccount", "insert", "get", "setStatus", "delete",
             "checkPermissions", "insertAccount",
             "findConnection", "stopBots", "deleteConnection"}

Answers == {"ok", "badRequest", "notFound", "conflict", "unprocessable",
            "unavailable", "serverError"}

Targets == [start |-> "active", pause |-> "paused", stop |-> "stopped"]

Init ==
    /\ status = [b \in Bots |-> "none"]
    /\ account = [b \in Bots |-> None]
    /\ connected = {}
    /\ spent = {}
    /\ pc = [r \in Requests |-> "idle"]
    /\ call = [r \in Requests |-> [op |-> "none", bot |-> None, account |-> None]]
    /\ issued = 0
    /\ disturbed = {}

Goto(r, from, to) == pc[r] = from /\ pc' = [pc EXCEPT ![r] = to]

Answer(r, answer) == pc' = [pc EXCEPT ![r] = answer]

Arrive(r, op, b, a, first) ==
    /\ pc[r] \notin InFlight
    /\ issued < MaxRequests
    /\ issued' = issued + 1
    /\ call' = [call EXCEPT ![r] = [op |-> op, bot |-> b, account |-> a]]
    /\ pc' = [pc EXCEPT ![r] = first]
    /\ UNCHANGED rows

-----------------------------------------------------------------------------
(* create *)

ReceiveCreate(r) ==
    \E a \in spent \cup {None} : Arrive(r, "create", None, a, "count")

\* An unsupported symbol is refused before the first query.
RefuseCreate(r) == Arrive(r, "create", None, None, "badRequest")

\* Mutant: off by one at the limit.
CountBotsLoosely(r) ==
    /\ IF Cardinality(Existing) > MaxBotsPerUser
         THEN Goto(r, "count", "badRequest")
         ELSE Goto(r, "count", IF call[r].account = None THEN "insert" ELSE "findAccount")
    /\ UNCHANGED <<rows, call, issued>>

\* The count of the user's bots; parameters are checked after it, without an
\* await, so a semantic error ends the request here too.
CountBots(r) ==
    /\ IF Cardinality(Existing) >= MaxBotsPerUser
         THEN Goto(r, "count", "badRequest")
         ELSE \/ Goto(r, "count", "badRequest")
              \/ Goto(r, "count", IF call[r].account = None THEN "insert" ELSE "findAccount")
    /\ UNCHANGED <<rows, call, issued>>

FindAccount(r) ==
    /\ Goto(r, "findAccount", IF call[r].account \in connected THEN "insert" ELSE "notFound")
    /\ UNCHANGED <<rows, call, issued>>

\* The foreign key is checked by the insert itself.
InsertBot(r) ==
    /\ pc[r] = "insert"
    /\ \E b \in Bots :
         /\ status[b] = "none"
         /\ IF call[r].account \in connected \cup {None}
              THEN /\ status' = [status EXCEPT ![b] = "stopped"]
                   /\ account' = [account EXCEPT ![b] = call[r].account]
                   /\ Answer(r, "ok")
              ELSE /\ Answer(r, "serverError")
                   /\ UNCHANGED <<status, account>>
    /\ UNCHANGED <<connected, spent, call, issued>>

-----------------------------------------------------------------------------
(* start, pause, stop, remove: get, a check, one unconditional write. *)

ReceiveBotRequest(r) ==
    \E op \in {"start", "pause", "stop", "remove"}, b \in Bots :
        status[b] # "none" /\ Arrive(r, op, b, None, "get")

\* Mutant: pause does not ask for active.
AfterGetPauseAnyway(op, seen) ==
    CASE seen \notin BotStatus                       -> "notFound"
      [] op = "remove" /\ seen = "stopped"           -> "delete"
      [] op = "remove" /\ seen # "stopped"           -> "conflict"
      [] op # "remove" /\ seen = Targets[op]         -> "ok"
      [] OTHER                                       -> "setStatus"

\* Mutant: a paused bot may be removed.
AfterGetRemovePaused(op, seen) ==
    CASE seen \notin BotStatus                       -> "notFound"
      [] op = "remove" /\ seen # "active"            -> "delete"
      [] op = "remove" /\ seen = "active"            -> "conflict"
      [] op # "remove" /\ seen = Targets[op]         -> "ok"
      [] op = "pause" /\ seen = "stopped"            -> "badRequest"
      [] OTHER                                       -> "setStatus"

AfterGet(op, seen) ==
    CASE seen \notin BotStatus                       -> "notFound"
      [] op = "remove" /\ seen = "stopped"           -> "delete"
      [] op = "remove" /\ seen # "stopped"           -> "conflict"
      [] op # "remove" /\ seen = Targets[op]         -> "ok"
      [] op = "pause" /\ seen = "stopped"            -> "badRequest"
      [] OTHER                                       -> "setStatus"

GetBot(r) ==
    /\ Goto(r, "get", AfterGet(call[r].op, status[call[r].bot]))
    /\ UNCHANGED <<rows, call, issued>>

\* Mutant: an upsert instead of an update.
SetStatusUpsert(r) ==
    /\ Goto(r, "setStatus", "ok")
    /\ status' = [status EXCEPT ![call[r].bot] = Targets[call[r].op]]
    /\ UNCHANGED <<account, connected, spent, call, issued>>

\* update({where: {id}}): by id only, whatever the status has become.
SetStatus(r) ==
    LET b == call[r].bot IN
    /\ pc[r] = "setStatus"
    /\ IF status[b] \in BotStatus
         THEN /\ status' = [status EXCEPT ![b] = Targets[call[r].op]]
              /\ Answer(r, "ok")
         ELSE /\ Answer(r, "serverError")
              /\ UNCHANGED status
    /\ UNCHANGED <<account, connected, spent, call, issued>>

DeleteBot(r) ==
    LET b == call[r].bot IN
    /\ pc[r] = "delete"
    /\ IF status[b] \in BotStatus
         THEN /\ status' = [status EXCEPT ![b] = "deleted"]
              /\ account' = [account EXCEPT ![b] = None]
              /\ Answer(r, "ok")
         ELSE /\ Answer(r, "serverError")
              /\ UNCHANGED <<status, account>>
    /\ UNCHANGED <<connected, spent, call, issued>>

-----------------------------------------------------------------------------
(* connect and disconnect *)

ReceiveConnect(r) == Arrive(r, "connect", None, None, "checkPermissions")

\* What the adapter makes of the exchange's answer: a refusal (400 or 401),
\* none within the retries, one without a body to read, or the permissions.
PermissionReports ==
    {"invalidCredentials", "upstreamUnavailable", "malformed", "withdraw", "noWithdraw"}

\* A key that may withdraw is never stored.
CheckPermissions(r) ==
    /\ \E report \in PermissionReports :
         Goto(r, "checkPermissions",
              CASE report = "invalidCredentials"  -> "badRequest"
                [] report = "upstreamUnavailable" -> "unavailable"
                [] report = "malformed"           -> "serverError"
                [] report = "withdraw"            -> "unprocessable"
                [] report = "noWithdraw"          -> "insertAccount")
    /\ UNCHANGED <<rows, call, issued>>

InsertAccount(r) ==
    /\ \E a \in Accounts \ spent :
         /\ connected' = connected \cup {a}
         /\ spent' = spent \cup {a}
    /\ Goto(r, "insertAccount", "ok")
    /\ UNCHANGED <<status, account, call, issued>>

ReceiveDisconnect(r) ==
    \E a \in spent : Arrive(r, "disconnect", None, a, "findConnection")

FindConnection(r) ==
    /\ Goto(r, "findConnection",
            IF call[r].account \in connected THEN "stopBots" ELSE "notFound")
    /\ UNCHANGED <<rows, call, issued>>

\* Mutant: paused bots are forgotten.
StopActiveBots(r) ==
    /\ Goto(r, "stopBots", "deleteConnection")
    /\ status' = [b \in Bots |->
                    IF account[b] = call[r].account /\ status[b] = "active"
                      THEN "stopped" ELSE status[b]]
    /\ UNCHANGED <<account, connected, spent, call, issued>>

StopBots(r) ==
    /\ Goto(r, "stopBots", "deleteConnection")
    /\ status' = [b \in Bots |->
                    IF account[b] = call[r].account /\ status[b] \in {"active", "paused"}
                      THEN "stopped" ELSE status[b]]
    /\ UNCHANGED <<account, connected, spent, call, issued>>

\* Mutant: the account is deleted under its bots.
DeleteConnectionOnly(r) ==
    /\ Goto(r, "deleteConnection", "ok")
    /\ connected' = connected \ {call[r].account}
    /\ UNCHANGED <<status, account, spent, call, issued>>

\* The foreign key detaches what is left (onDelete: SetNull).
DeleteConnection(r) ==
    LET a == call[r].account IN
    /\ pc[r] = "deleteConnection"
    /\ IF a \in connected
         THEN /\ connected' = connected \ {a}
              /\ account' = [b \in Bots |-> IF account[b] = a THEN None ELSE account[b]]
              /\ Answer(r, "ok")
         ELSE /\ Answer(r, "serverError")
              /\ UNCHANGED <<account, connected>>
    /\ UNCHANGED <<status, spent, call, issued>>

-----------------------------------------------------------------------------
\* The bound on requests is reached and all are answered, or the ids this
\* instance has are used up.
Drained ==
    /\ \A r \in Requests : pc[r] \in InFlight =>
          \/ pc[r] = "insert" /\ \A b \in Bots : status[b] # "none"
          \/ pc[r] = "insertAccount" /\ spent = Accounts
    /\ \/ issued = MaxRequests
       \/ \A r \in Requests : pc[r] \in InFlight
    /\ UNCHANGED vars

Step(r) ==
    \/ ReceiveCreate(r) \/ RefuseCreate(r)
    \/ CountBots(r) \/ FindAccount(r) \/ InsertBot(r)
    \/ ReceiveBotRequest(r) \/ GetBot(r) \/ SetStatus(r) \/ DeleteBot(r)
    \/ ReceiveConnect(r) \/ CheckPermissions(r) \/ InsertAccount(r)
    \/ ReceiveDisconnect(r) \/ FindConnection(r) \/ StopBots(r)
    \/ DeleteConnection(r)

\* What the others in flight have read may be stale once r writes.
Disturb(r) ==
    disturbed' = {q \in Requests :
        /\ pc'[q] \in InFlight
        /\ q \in disturbed \/ (q # r /\ rows' # rows)}

Next ==
    \/ \E r \in Requests : Step(r) /\ Disturb(r)
    \/ Drained

Spec == Init /\ [][Next]_vars

-----------------------------------------------------------------------------
Call == [op : {"none", "create", "start", "pause", "stop", "remove", "connect", "disconnect"},
         bot : Bots \cup {None}, account : Accounts \cup {None}]

\* Types of rows and requests.
TypeOK ==
    /\ status \in [Bots -> BotStatus \cup {"none", "deleted"}]
    /\ account \in [Bots -> Accounts \cup {None}]
    /\ connected \subseteq spent /\ spent \subseteq Accounts
    /\ pc \in [Requests -> {"idle"} \cup InFlight \cup Answers]
    /\ call \in [Requests -> Call]
    /\ issued \in 0..MaxRequests
    /\ disturbed \subseteq Requests

\* No bot points to a disconnected account, whichever of create, disconnect
\* and remove overlap: the insert's foreign key and SetNull close the window
\* the handlers' own checks leave open.
AccountsExist == \A b \in Bots : account[b] \in connected \cup {None}

\* What the count-then-insert does guarantee: the limit is overshot by at
\* most the requests that were in flight beside the last one admitted.
OvershootBounded ==
    Cardinality(Existing) <= MaxBotsPerUser + Cardinality(Requests) - 1

\* This step is the statement of a request another one overtook.
Overtaken(statement) == \E r \in disturbed : pc[r] = statement /\ pc'[r] # statement

\* API_CONTRACT.md:58, at most MAX_BOTS_PER_USER bots per user: only a create
\* that another write overtook goes beyond it.
BotLimit ==
    [][Cardinality(Existing') > Cardinality(Existing) =>
          Cardinality(Existing') <= MaxBotsPerUser \/ Overtaken("insert")]_vars

\* API_CONTRACT.md:62, pause is only valid from active: the unconditional
\* write breaks it only for a pause that was overtaken.
PauseOnlyFromActive ==
    [][\A b \in Bots : status[b] # "paused" /\ status'[b] = "paused" =>
          status[b] = "active" \/ Overtaken("setStatus")]_vars

\* API_CONTRACT.md:64 and the 409 of remove, a running bot is not deleted:
\* only by a remove that was overtaken.
DeleteOnlyStopped ==
    [][\A b \in Bots : status[b] # "deleted" /\ status'[b] = "deleted" =>
          status[b] = "stopped" \/ Overtaken("delete")]_vars

\* exchange.service.ts:112 (FR-EXC-002): disconnecting stops every bot that
\* depends on the connection, it does not just detach it.
DisconnectStopsBots ==
    [][\A b \in Bots :
          account[b] # None /\ account'[b] = None /\ status'[b] # "deleted"
             => status'[b] = "stopped"]_vars

\* The same, for every disconnect that no other write overtook.
DisconnectStopsUndisturbed ==
    [][\A b \in Bots :
          account[b] # None /\ account'[b] = None /\ status'[b] # "deleted"
             => status'[b] = "stopped" \/ Overtaken("deleteConnection")]_vars

\* A deleted bot stays deleted, whatever a request that read it before does
\* next: start, pause and stop write by id and must not bring it back.
NoResurrection ==
    [][\A b \in Bots : status[b] = "deleted" => status'[b] = "deleted"]_vars
=============================================================================

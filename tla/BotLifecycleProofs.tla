-------------------------- MODULE BotLifecycleProofs --------------------------
(***************************************************************************)
(* BotLifecycle's safety properties, for any number of requests, bots,     *)
(* accounts and any limit.                                                 *)
(***************************************************************************)
EXTENDS BotLifecycle, FiniteSetTheorems, TLAPS

\* What a request in flight carries, by the statement it awaits.
CallInv ==
    \A r \in Requests :
        /\ pc[r] = "get" =>
              call[r].op \in {"start", "pause", "stop", "remove"} /\ call[r].bot \in Bots
        /\ pc[r] = "setStatus" => call[r].op \in DOMAIN Targets /\ call[r].bot \in Bots
        /\ pc[r] = "delete" => call[r].bot \in Bots
        /\ pc[r] \in {"findConnection", "stopBots", "deleteConnection"} =>
              call[r].account # None

\* Only bots that exist belong to an account.
Attached == \A b \in Bots : account[b] # None => status[b] \in BotStatus

\* What a request has checked still holds, unless another one wrote since.
Current(r) ==
    r \notin disturbed =>
        /\ pc[r] \in {"findAccount", "insert"} => Cardinality(Existing) < MaxBotsPerUser
        /\ pc[r] = "setStatus" /\ call[r].op = "pause" => status[call[r].bot] = "active"
        /\ pc[r] = "delete" => status[call[r].bot] = "stopped"
        /\ pc[r] = "deleteConnection" =>
              \A b \in Bots : account[b] = call[r].account => status[b] = "stopped"

\* Creates past the count will each add a bot.
Admitted == {r \in Requests : pc[r] \in {"findAccount", "insert"}}

Counted ==
    Cardinality(Existing) + Cardinality(Admitted) <= MaxBotsPerUser + Cardinality(Requests) - 1

IInv ==
    /\ TypeOK
    /\ CallInv
    /\ AccountsExist
    /\ Attached
    /\ \A r \in Requests : Current(r)
    /\ Counted

-----------------------------------------------------------------------------
\* The bots and the admitted creates can be counted.
LEMMA Finite ==
    /\ IsFiniteSet(Existing) /\ Cardinality(Existing) \in Nat
    /\ IsFiniteSet(Admitted) /\ Cardinality(Admitted) \in Nat
    /\ IsFiniteSet(Requests) /\ Cardinality(Requests) \in Nat \ {0}
    /\ Cardinality(Admitted) <= Cardinality(Requests)
<1>1. Existing \subseteq Bots /\ Admitted \subseteq Requests
  BY DEF Existing, Admitted
<1>2. IsFiniteSet(Requests) /\ IsFiniteSet(Existing) /\ IsFiniteSet(Admitted)
  BY <1>1, BotsAssumption, FS_Subset
<1>3. Cardinality(Requests) # 0
  BY <1>2, BotsAssumption, FS_EmptySet
<1> QED BY <1>1, <1>2, <1>3, FS_CardinalityType, FS_Subset

\* The same after a step.
LEMMA FiniteNext ==
    /\ IsFiniteSet(Existing') /\ Cardinality(Existing') \in Nat
    /\ IsFiniteSet(Admitted') /\ Cardinality(Admitted') \in Nat
    /\ Cardinality(Admitted') <= Cardinality(Requests)
<1>1. Existing' \subseteq Bots /\ Admitted' \subseteq Requests
  BY DEF Existing, Admitted
<1>2. IsFiniteSet(Requests) /\ IsFiniteSet(Existing') /\ IsFiniteSet(Admitted')
  BY <1>1, BotsAssumption, FS_Subset
<1> QED BY <1>1, <1>2, FS_CardinalityType, FS_Subset, BotsAssumption

\* A step that adds neither a bot nor an admitted create keeps the count.
LEMMA NotMore ==
    ASSUME Counted, Existing' \subseteq Existing, Admitted' \subseteq Admitted
    PROVE  Counted'
<1>1. /\ Cardinality(Existing') <= Cardinality(Existing)
      /\ Cardinality(Admitted') <= Cardinality(Admitted)
  BY Finite, FS_Subset
<1>2. Cardinality(Existing)' = Cardinality(Existing') /\ Cardinality(Admitted)' = Cardinality(Admitted')
  OBVIOUS
<1> QED BY <1>1, <1>2, Finite, FiniteNext, BotsAssumption DEF Counted

\* The strengthening holds of an empty database.
LEMMA InitHolds == Init => IInv
<1> SUFFICES ASSUME Init
             PROVE  IInv
  OBVIOUS
<1>0. TypeOK
  BY BotsAssumption DEF Init, TypeOK, Call
<1>1. CallInv /\ AccountsExist /\ Attached
  BY DEF Init, CallInv, AccountsExist, Attached
<1>2. \A r \in Requests : Current(r)
  BY DEF Init, Current
<1>3. Existing = {} /\ Admitted = {}
  BY DEF Init, Existing, Admitted, BotStatus
<1>4. Counted
  BY <1>3, FS_EmptySet, Finite, BotsAssumption DEF Counted
<1> QED BY <1>0, <1>1, <1>2, <1>4 DEF IInv

-----------------------------------------------------------------------------
\* A step changes one request's statement, and what it carries only when
\* the request arrives.
LEMMA OneRequest ==
    ASSUME TypeOK, NEW r \in Requests, Step(r)
    PROVE  /\ \A q \in Requests \ {r} : pc'[q] = pc[q] /\ call'[q] = call[q]
           /\ pc[r] \in InFlight => call' = call
<1>1. CASE ReceiveCreate(r)
  BY <1>1 DEF ReceiveCreate, Arrive, TypeOK, InFlight, Answers
<1>2. CASE RefuseCreate(r)
  BY <1>2 DEF RefuseCreate, Arrive, TypeOK, InFlight, Answers
<1>3. CASE CountBots(r)
  BY <1>3 DEF CountBots, Goto, TypeOK, InFlight, Answers
<1>4. CASE FindAccount(r)
  BY <1>4 DEF FindAccount, Goto, TypeOK, InFlight, Answers
<1>5. CASE InsertBot(r)
  BY <1>5 DEF InsertBot, Answer, TypeOK, InFlight, Answers
<1>6. CASE ReceiveBotRequest(r)
  BY <1>6 DEF ReceiveBotRequest, Arrive, TypeOK, InFlight, Answers
<1>7. CASE GetBot(r)
  BY <1>7 DEF GetBot, Goto, AfterGet, TypeOK, InFlight, Answers
<1>8. CASE SetStatus(r)
  BY <1>8 DEF SetStatus, Answer, TypeOK, InFlight, Answers
<1>9. CASE DeleteBot(r)
  BY <1>9 DEF DeleteBot, Answer, TypeOK, InFlight, Answers
<1>10. CASE ReceiveConnect(r)
  BY <1>10 DEF ReceiveConnect, Arrive, TypeOK, InFlight, Answers
<1>11. CASE CheckPermissions(r)
  BY <1>11 DEF CheckPermissions, Goto, PermissionReports, TypeOK, InFlight, Answers
<1>12. CASE InsertAccount(r)
  BY <1>12 DEF InsertAccount, Goto, TypeOK, InFlight, Answers
<1>13. CASE ReceiveDisconnect(r)
  BY <1>13 DEF ReceiveDisconnect, Arrive, TypeOK, InFlight, Answers
<1>14. CASE FindConnection(r)
  BY <1>14 DEF FindConnection, Goto, TypeOK, InFlight, Answers
<1>15. CASE StopBots(r)
  BY <1>15 DEF StopBots, Goto, TypeOK, InFlight, Answers
<1>16. CASE DeleteConnection(r)
  BY <1>16 DEF DeleteConnection, Answer, TypeOK, InFlight, Answers
<1> QED BY <1>1, <1>2, <1>3, <1>4, <1>5, <1>6, <1>7, <1>8, <1>9, <1>10, <1>11, <1>12,
   <1>13, <1>14, <1>15, <1>16 DEF Step

\* No step leaves the types.
LEMMA TypeStep ==
    ASSUME IInv, NEW r \in Requests, Step(r), Disturb(r)
    PROVE  TypeOK'
<1> USE BotsAssumption DEF IInv, TypeOK, Call, rows, Disturb
<1>1. CASE ReceiveCreate(r)
  BY <1>1 DEF ReceiveCreate, Arrive, InFlight, Answers, BotStatus
<1>2. CASE RefuseCreate(r)
  BY <1>2 DEF RefuseCreate, Arrive, InFlight, Answers, BotStatus
<1>3. CASE CountBots(r)
  BY <1>3 DEF CountBots, Goto, InFlight, Answers, BotStatus
<1>4. CASE FindAccount(r)
  BY <1>4 DEF FindAccount, Goto, InFlight, Answers, BotStatus
<1>5. CASE InsertBot(r)
  BY <1>5 DEF InsertBot, Answer, InFlight, Answers, BotStatus
<1>6. CASE ReceiveBotRequest(r)
  BY <1>6 DEF ReceiveBotRequest, Arrive, InFlight, Answers, BotStatus
<1>7. CASE GetBot(r)
  BY <1>7 DEF GetBot, Goto, AfterGet, InFlight, Answers, BotStatus
<1>8. CASE SetStatus(r)
  <2>1. Targets[call[r].op] \in BotStatus
    BY <1>8 DEF SetStatus, CallInv, Targets, BotStatus
  <2> QED BY <1>8, <2>1 DEF SetStatus, Answer, InFlight, Answers, BotStatus
<1>9. CASE DeleteBot(r)
  BY <1>9 DEF DeleteBot, Answer, InFlight, Answers, BotStatus
<1>10. CASE ReceiveConnect(r)
  BY <1>10 DEF ReceiveConnect, Arrive, InFlight, Answers, BotStatus
<1>11. CASE CheckPermissions(r)
  BY <1>11 DEF CheckPermissions, Goto, PermissionReports, InFlight, Answers, BotStatus
<1>12. CASE InsertAccount(r)
  BY <1>12 DEF InsertAccount, Goto, InFlight, Answers, BotStatus
<1>13. CASE ReceiveDisconnect(r)
  BY <1>13 DEF ReceiveDisconnect, Arrive, InFlight, Answers, BotStatus
<1>14. CASE FindConnection(r)
  BY <1>14 DEF FindConnection, Goto, InFlight, Answers, BotStatus
<1>15. CASE StopBots(r)
  BY <1>15 DEF StopBots, Goto, InFlight, Answers, BotStatus
<1>16. CASE DeleteConnection(r)
  BY <1>16 DEF DeleteConnection, Answer, InFlight, Answers, BotStatus
<1> QED BY <1>1, <1>2, <1>3, <1>4, <1>5, <1>6, <1>7, <1>8, <1>9, <1>10, <1>11, <1>12,
   <1>13, <1>14, <1>15, <1>16 DEF Step

\* Nor does it separate a statement from what it needs.
LEMMA CallStep ==
    ASSUME IInv, NEW r \in Requests, Step(r)
    PROVE  CallInv'
<1> USE BotsAssumption DEF IInv, TypeOK, Call, CallInv, InFlight
<1>1. CASE ReceiveCreate(r)
  BY <1>1 DEF ReceiveCreate, Arrive, rows
<1>2. CASE RefuseCreate(r)
  BY <1>2 DEF RefuseCreate, Arrive, rows
<1>3. CASE CountBots(r)
  BY <1>3 DEF CountBots, Goto, rows
<1>4. CASE FindAccount(r)
  BY <1>4 DEF FindAccount, Goto, rows
<1>5. CASE InsertBot(r)
  BY <1>5 DEF InsertBot, Answer, rows
<1>6. CASE ReceiveBotRequest(r)
  BY <1>6 DEF ReceiveBotRequest, Arrive, rows
<1>7. CASE GetBot(r)
  BY <1>7 DEF GetBot, Goto, AfterGet, rows, BotStatus, Targets
<1>8. CASE SetStatus(r)
  BY <1>8 DEF SetStatus, Answer, rows
<1>9. CASE DeleteBot(r)
  BY <1>9 DEF DeleteBot, Answer, rows
<1>10. CASE ReceiveConnect(r)
  BY <1>10 DEF ReceiveConnect, Arrive, rows
<1>11. CASE CheckPermissions(r)
  BY <1>11 DEF CheckPermissions, Goto, PermissionReports, rows
<1>12. CASE InsertAccount(r)
  BY <1>12 DEF InsertAccount, Goto, rows
<1>13. CASE ReceiveDisconnect(r)
  BY <1>13 DEF ReceiveDisconnect, Arrive, rows
<1>14. CASE FindConnection(r)
  BY <1>14 DEF FindConnection, Goto, rows
<1>15. CASE StopBots(r)
  BY <1>15 DEF StopBots, Goto, rows
<1>16. CASE DeleteConnection(r)
  BY <1>16 DEF DeleteConnection, Answer, rows
<1> QED BY <1>1, <1>2, <1>3, <1>4, <1>5, <1>6, <1>7, <1>8, <1>9, <1>10, <1>11, <1>12,
   <1>13, <1>14, <1>15, <1>16 DEF Step

\* Rows refer to rows that are there.
LEMMA ReferencesStep ==
    ASSUME IInv, NEW r \in Requests, Step(r)
    PROVE  AccountsExist' /\ Attached'
<1> USE BotsAssumption DEF IInv, TypeOK, Call, AccountsExist, Attached, BotStatus
<1>1. CASE ReceiveCreate(r)
  BY <1>1 DEF ReceiveCreate, Arrive, rows
<1>2. CASE RefuseCreate(r)
  BY <1>2 DEF RefuseCreate, Arrive, rows
<1>3. CASE CountBots(r)
  BY <1>3 DEF CountBots, Goto, rows
<1>4. CASE FindAccount(r)
  BY <1>4 DEF FindAccount, Goto, rows
<1>5. CASE InsertBot(r)
  BY <1>5 DEF InsertBot, Answer, rows
<1>6. CASE ReceiveBotRequest(r)
  BY <1>6 DEF ReceiveBotRequest, Arrive, rows
<1>7. CASE GetBot(r)
  BY <1>7 DEF GetBot, Goto, AfterGet, rows
<1>8. CASE SetStatus(r)
  <2>1. Targets[call[r].op] \in BotStatus
    BY <1>8 DEF SetStatus, CallInv, Targets
  <2> QED BY <1>8, <2>1 DEF SetStatus, Answer
<1>9. CASE DeleteBot(r)
  BY <1>9 DEF DeleteBot, Answer, rows
<1>10. CASE ReceiveConnect(r)
  BY <1>10 DEF ReceiveConnect, Arrive, rows
<1>11. CASE CheckPermissions(r)
  BY <1>11 DEF CheckPermissions, Goto, PermissionReports, rows
<1>12. CASE InsertAccount(r)
  BY <1>12 DEF InsertAccount, Goto, rows
<1>13. CASE ReceiveDisconnect(r)
  BY <1>13 DEF ReceiveDisconnect, Arrive, rows
<1>14. CASE FindConnection(r)
  BY <1>14 DEF FindConnection, Goto, rows
<1>15. CASE StopBots(r)
  BY <1>15 DEF StopBots, Goto, rows
<1>16. CASE DeleteConnection(r)
  BY <1>16 DEF DeleteConnection, Answer, rows
<1> QED BY <1>1, <1>2, <1>3, <1>4, <1>5, <1>6, <1>7, <1>8, <1>9, <1>10, <1>11, <1>12,
   <1>13, <1>14, <1>15, <1>16 DEF Step

\* What the others have checked is current, or they are disturbed.
LEMMA OthersCurrent ==
    ASSUME IInv, NEW r \in Requests, Step(r), Disturb(r), NEW q \in Requests \ {r}
    PROVE  Current(q)'
<1>1. pc'[q] = pc[q] /\ call'[q] = call[q]
  BY OneRequest DEF IInv
<1>2. CASE rows' # rows
  <2>1. q \in disturbed' \/ pc[q] \notin InFlight
    BY <1>1, <1>2 DEF Disturb
  <2> QED BY <1>1, <2>1 DEF Current, InFlight
<1>3. CASE rows' = rows
  <2>1. q \in disturbed => q \in disturbed' \/ pc[q] \notin InFlight
    BY <1>1 DEF Disturb
  <2>2. status' = status /\ account' = account /\ Existing' = Existing
    BY <1>3 DEF rows, Existing
  <2>3. Current(q)
    BY DEF IInv
  <2> QED BY <1>1, <2>1, <2>2, <2>3 DEF Current, InFlight
<1> QED BY <1>2, <1>3

\* What the request itself has checked is current if it was not disturbed.
LEMMA OwnCurrent ==
    ASSUME IInv, NEW r \in Requests, Step(r), Disturb(r)
    PROVE  Current(r)'
<1>1. /\ pc'[r] \in InFlight /\ r \notin disturbed' => r \notin disturbed
      /\ pc \in [Requests -> {"idle"} \cup InFlight \cup Answers]
      /\ Current(r)
  BY DEF Disturb, IInv, TypeOK
<1>2. CASE CountBots(r)
  <2>1. pc'[r] \in {"findAccount", "insert"} => Cardinality(Existing) < MaxBotsPerUser
    BY <1>1, <1>2, Finite, BotsAssumption DEF CountBots, Goto
  <2>2. Existing' = Existing /\ pc'[r] \in {"badRequest", "findAccount", "insert"}
    BY <1>1, <1>2 DEF CountBots, Goto, rows, Existing
  <2> QED BY <2>1, <2>2 DEF Current
<1>3. CASE FindAccount(r)
  <2>1. Existing' = Existing /\ pc[r] = "findAccount" /\ pc'[r] \in {"insert", "notFound"}
    BY <1>1, <1>3 DEF FindAccount, Goto, rows, Existing
  <2> QED BY <1>1, <2>1 DEF Current, InFlight
<1>4. CASE GetBot(r)
  <2>1. /\ pc'[r] = AfterGet(call[r].op, status[call[r].bot])
        /\ status' = status /\ call' = call
    BY <1>1, <1>4 DEF GetBot, Goto, rows
  <2>2. /\ pc'[r] \in {"notFound", "delete", "conflict", "ok", "badRequest", "setStatus"}
        /\ pc'[r] = "delete" => status[call[r].bot] = "stopped"
        /\ pc'[r] = "setStatus" /\ call[r].op = "pause" => status[call[r].bot] = "active"
    BY <2>1 DEF AfterGet, BotStatus, Targets
  <2> QED BY <2>1, <2>2 DEF Current
<1>5. CASE StopBots(r)
  <2>1. /\ pc[r] = "stopBots" /\ pc'[r] = "deleteConnection" /\ account' = account
        /\ call' = call
    BY <1>1, <1>5 DEF StopBots, Goto
  <2>2. ASSUME NEW b \in Bots, account[b] = call[r].account
        PROVE  status'[b] = "stopped"
    <3>1. status[b] \in BotStatus
      BY <2>1, <2>2 DEF IInv, CallInv, Attached
    <3> QED BY <1>5, <2>2, <3>1 DEF StopBots, BotStatus
  <2> QED BY <2>1, <2>2 DEF Current
<1>6. CASE FindConnection(r)
  BY <1>1, <1>6 DEF FindConnection, Goto, Current
<1>7. CASE CheckPermissions(r) \/ InsertAccount(r)
  <2>1. pc'[r] \in {"badRequest", "unavailable", "serverError", "unprocessable",
                    "insertAccount", "ok"}
    BY <1>1, <1>7 DEF CheckPermissions, PermissionReports, InsertAccount, Goto
  <2> QED BY <2>1 DEF Current
<1>8. CASE InsertBot(r) \/ SetStatus(r) \/ DeleteBot(r) \/ DeleteConnection(r)
  <2>1. pc'[r] \in {"ok", "serverError"}
    BY <1>1, <1>8 DEF InsertBot, SetStatus, DeleteBot, DeleteConnection, Answer
  <2> QED BY <2>1 DEF Current
<1>9. CASE \/ ReceiveCreate(r) \/ RefuseCreate(r) \/ ReceiveBotRequest(r)
           \/ ReceiveConnect(r) \/ ReceiveDisconnect(r)
  <2>1. pc'[r] \in {"count", "badRequest", "get", "checkPermissions", "findConnection"}
    BY <1>1, <1>9 DEF ReceiveCreate, RefuseCreate, ReceiveBotRequest, ReceiveConnect,
                      ReceiveDisconnect, Arrive
  <2> QED BY <2>1 DEF Current
<1> QED BY <1>2, <1>3, <1>4, <1>5, <1>6, <1>7, <1>8, <1>9 DEF Step

\* Only an insert adds a bot.
LEMMA InsertAdds ==
    ASSUME IInv, NEW r \in Requests, InsertBot(r), pc'[r] = "ok"
    PROVE  /\ r \in Admitted /\ Admitted' = Admitted \ {r}
           /\ Cardinality(Existing') = Cardinality(Existing) + 1
<1>1. /\ pc \in [Requests -> {"idle"} \cup InFlight \cup Answers]
      /\ status \in [Bots -> BotStatus \cup {"none", "deleted"}]
  BY DEF IInv, TypeOK
<1>2. PICK b \in Bots : status[b] = "none" /\ status' = [status EXCEPT ![b] = "stopped"]
  BY <1>1 DEF InsertBot, Answer
<1>3. Existing' = Existing \cup {b} /\ b \notin Existing
  BY <1>1, <1>2 DEF Existing, BotStatus
<1>4. r \in Admitted /\ Admitted' = Admitted \ {r}
  <2>1. pc' = [pc EXCEPT ![r] = "ok"] /\ pc[r] = "insert"
    BY <1>1 DEF InsertBot, Answer
  <2> QED BY <1>1, <2>1 DEF Admitted
<1> QED BY <1>3, <1>4, Finite, FS_AddElement

\* Every other statement adds none.
LEMMA OthersAddNone ==
    ASSUME IInv, NEW r \in Requests, Step(r), ~(InsertBot(r) /\ pc'[r] = "ok")
    PROVE  Existing' \subseteq Existing
<1>1. /\ pc \in [Requests -> {"idle"} \cup InFlight \cup Answers]
      /\ status \in [Bots -> BotStatus \cup {"none", "deleted"}]
  BY DEF IInv, TypeOK
<1>2. CASE SetStatus(r)
  BY <1>1, <1>2 DEF SetStatus, Existing
<1>3. CASE StopBots(r)
  BY <1>1, <1>3 DEF StopBots, Existing, BotStatus
<1>4. CASE DeleteBot(r)
  BY <1>1, <1>4 DEF DeleteBot, Existing, BotStatus
<1>5. CASE ~SetStatus(r) /\ ~StopBots(r) /\ ~DeleteBot(r)
  <2>1. status' = status
    BY <1>1, <1>5 DEF Step, ReceiveCreate, RefuseCreate, CountBots, FindAccount,
         InsertBot, ReceiveBotRequest, GetBot, ReceiveConnect, CheckPermissions,
         InsertAccount, ReceiveDisconnect, FindConnection, DeleteConnection, Arrive,
         Answer, rows
  <2> QED BY <2>1 DEF Existing
<1> QED BY <1>2, <1>3, <1>4, <1>5

\* The count-then-insert: every admitted create was counted below the limit.
LEMMA CountedStep ==
    ASSUME IInv, NEW r \in Requests, Step(r)
    PROVE  Counted'
<1>1. /\ pc \in [Requests -> {"idle"} \cup InFlight \cup Answers]
      /\ status \in [Bots -> BotStatus \cup {"none", "deleted"}]
      /\ Counted
      /\ \A q \in Requests \ {r} : pc'[q] = pc[q]
  BY OneRequest DEF IInv, TypeOK
<1>2. Cardinality(Existing)' = Cardinality(Existing') /\ Cardinality(Admitted)' = Cardinality(Admitted')
  OBVIOUS
<1>3. CASE CountBots(r) /\ pc'[r] # "badRequest"
  <2>1. Cardinality(Existing) < MaxBotsPerUser
    BY <1>1, <1>3, Finite, BotsAssumption DEF CountBots, Goto
  <2>2. Existing' = Existing
    BY <1>3 DEF CountBots, rows, Existing
  <2> QED BY <1>2, <2>1, <2>2, Finite, FiniteNext, BotsAssumption DEF Counted
<1>4. CASE InsertBot(r) /\ pc'[r] = "ok"
  <2>1. /\ r \in Admitted /\ Admitted' = Admitted \ {r}
        /\ Cardinality(Existing') = Cardinality(Existing) + 1
    BY <1>4, InsertAdds
  <2>2. Cardinality(Admitted') = Cardinality(Admitted) - 1
    BY <2>1, Finite, FS_RemoveElement
  <2> QED BY <1>1, <1>2, <2>1, <2>2, Finite, BotsAssumption DEF Counted
<1>5. CASE ~(CountBots(r) /\ pc'[r] # "badRequest") /\ ~(InsertBot(r) /\ pc'[r] = "ok")
  <2>1. Existing' \subseteq Existing
    BY <1>5, OthersAddNone
  <2>2. pc'[r] \in {"findAccount", "insert"} => pc[r] \in {"findAccount", "insert"}
    <3>1. CASE CountBots(r)
      BY <1>5, <3>1
    <3>2. CASE FindAccount(r)
      BY <1>1, <3>2 DEF FindAccount, Goto
    <3>3. CASE GetBot(r)
      <4>1. AfterGet(call[r].op, status[call[r].bot]) \in
               {"notFound", "delete", "conflict", "ok", "badRequest", "setStatus"}
        BY DEF AfterGet, BotStatus, Targets
      <4> QED BY <1>1, <3>3, <4>1 DEF GetBot, Goto
    <3>4. CASE ~CountBots(r) /\ ~FindAccount(r) /\ ~GetBot(r)
      <4>1. pc'[r] \in {"count", "badRequest", "get", "checkPermissions", "findConnection",
                        "ok", "serverError", "unavailable", "unprocessable", "insertAccount",
                        "stopBots", "deleteConnection", "notFound"}
        BY <1>1, <3>4 DEF Step, ReceiveCreate, RefuseCreate, InsertBot,
           ReceiveBotRequest, SetStatus, DeleteBot, ReceiveConnect, CheckPermissions,
           PermissionReports, InsertAccount, ReceiveDisconnect, FindConnection,
           StopBots, DeleteConnection, Arrive, Answer, Goto
      <4> QED BY <4>1
    <3> QED BY <3>1, <3>2, <3>3, <3>4
  <2>3. Admitted' \subseteq Admitted
    BY <1>1, <2>2 DEF Admitted
  <2> QED BY <1>1, <2>1, <2>3, NotMore
<1> QED BY <1>3, <1>4, <1>5

\* Every step preserves the strengthening.
LEMMA StepKeeps == IInv /\ [Next]_vars => IInv'
<1> SUFFICES ASSUME IInv, [Next]_vars
             PROVE  IInv'
  OBVIOUS
<1>1. ASSUME NEW r \in Requests, Step(r), Disturb(r)
      PROVE  IInv'
  <2>1. TypeOK' /\ CallInv' /\ AccountsExist' /\ Attached' /\ Counted'
    BY <1>1, TypeStep, CallStep, ReferencesStep, CountedStep
  <2>2. \A q \in Requests : Current(q)'
    BY <1>1, OthersCurrent, OwnCurrent
  <2> QED BY <2>1, <2>2 DEF IInv
<1>2. CASE UNCHANGED vars
  <2> USE <1>2 DEF vars, rows
  <2>1. TypeOK' /\ CallInv' /\ AccountsExist' /\ Attached'
    BY DEF IInv, TypeOK, CallInv, AccountsExist, Attached
  <2>2. Existing' \subseteq Existing /\ Admitted' \subseteq Admitted
    BY DEF Existing, Admitted
  <2>3. Counted'
    BY <2>2, NotMore DEF IInv
  <2>4. \A q \in Requests : Current(q)'
    <3>1. Existing' = Existing
      BY DEF Existing
    <3> QED BY <3>1 DEF IInv, Current
  <2> QED BY <2>1, <2>3, <2>4 DEF IInv
<1> QED BY <1>1, <1>2 DEF Next, Drained

-----------------------------------------------------------------------------
\* The strengthening holds in every reachable state of any instance.
THEOREM BotsInvariance == Spec => []IInv
BY InitHolds, StepKeeps, PTL DEF Spec

\* BotsService and ExchangeService keep rows and requests in their types.
THEOREM BotsTypes == Spec => []TypeOK
<1>1. IInv => TypeOK
  BY DEF IInv
<1> QED BY <1>1, BotsInvariance, PTL

\* No bot points to a disconnected account, whichever of create, disconnect
\* and remove overlap.
THEOREM AccountsKept == Spec => []AccountsExist
<1>1. IInv => AccountsExist
  BY DEF IInv
<1> QED BY <1>1, BotsInvariance, PTL

\* create's count-then-insert overshoots the limit by less than the number of
\* requests served at once.
THEOREM OvershootLimited == Spec => []OvershootBounded
<1>1. IInv => OvershootBounded
  BY Finite, BotsAssumption DEF IInv, Counted, OvershootBounded
<1> QED BY <1>1, BotsInvariance, PTL

-----------------------------------------------------------------------------
\* A row changes under its handler's statement only; what the handler had
\* checked is current there, or the request was overtaken.
LEMMA StepPromises ==
    ASSUME IInv, NEW r \in Requests, Step(r)
    PROVE  /\ Cardinality(Existing') > Cardinality(Existing) =>
                 Cardinality(Existing') <= MaxBotsPerUser \/ Overtaken("insert")
           /\ \A b \in Bots : status[b] # "paused" /\ status'[b] = "paused" =>
                 status[b] = "active" \/ Overtaken("setStatus")
           /\ \A b \in Bots : status[b] # "deleted" /\ status'[b] = "deleted" =>
                 status[b] = "stopped" \/ Overtaken("delete")
           /\ \A b \in Bots :
                 account[b] # None /\ account'[b] = None /\ status'[b] # "deleted"
                    => status'[b] = "stopped" \/ Overtaken("deleteConnection")
           /\ \A b \in Bots : status[b] = "deleted" => status'[b] = "deleted"
<1>1. /\ pc \in [Requests -> {"idle"} \cup InFlight \cup Answers]
      /\ status \in [Bots -> BotStatus \cup {"none", "deleted"}]
      /\ account \in [Bots -> Accounts \cup {None}]
      /\ Current(r)
      /\ CallInv
      /\ Attached
  BY DEF IInv, TypeOK
<1>2. ASSUME NEW statement, r \in disturbed, pc[r] = statement, pc'[r] # statement
      PROVE  Overtaken(statement)
  BY <1>2 DEF Overtaken
<1>3. CASE InsertBot(r)
  <2>1. /\ account' = account \/ \E b \in Bots : status[b] = "none" /\
              account' = [account EXCEPT ![b] = call[r].account]
        /\ status' = status \/ \E b \in Bots : status[b] = "none" /\
              status' = [status EXCEPT ![b] = "stopped"]
        /\ pc[r] = "insert" /\ pc'[r] # "insert"
    BY <1>1, <1>3 DEF InsertBot, Answer
  <2>2. Cardinality(Existing') > Cardinality(Existing) =>
           Cardinality(Existing') <= MaxBotsPerUser \/ Overtaken("insert")
    <3>1. CASE r \in disturbed
      BY <1>2, <2>1, <3>1
    <3>2. CASE r \notin disturbed
      <4>1. Cardinality(Existing) < MaxBotsPerUser
        BY <1>1, <2>1, <3>2 DEF Current
      <4>2. CASE pc'[r] = "ok"
        BY <1>3, <4>1, <4>2, InsertAdds, Finite, BotsAssumption
      <4>3. CASE pc'[r] # "ok"
        <5>1. Existing' \subseteq Existing
          BY <4>3, OthersAddNone
        <5> QED BY <5>1, Finite, FiniteNext, FS_Subset
      <4> QED BY <4>2, <4>3
    <3> QED BY <3>1, <3>2
  <2>3. \A b \in Bots : status[b] # "none" => status'[b] = status[b] /\ account'[b] = account[b]
    BY <1>1, <2>1
  <2>4. \A b \in Bots : status[b] = "none" => account[b] = None /\ status'[b] \in {"none", "stopped"}
    BY <1>1, <2>1 DEF Attached, BotStatus
  <2> QED BY <2>2, <2>3, <2>4
<1>4. CASE ~InsertBot(r)
  <2>1. ~(Cardinality(Existing') > Cardinality(Existing))
    <3>1. Existing' \subseteq Existing
      BY <1>4, OthersAddNone
    <3> QED BY <3>1, Finite, FiniteNext, FS_Subset
  <2>2. CASE SetStatus(r)
    <3>1. /\ pc[r] = "setStatus" /\ pc'[r] # "setStatus"
          /\ account' = account
          /\ call[r].op \in {"start", "pause", "stop"} /\ call[r].bot \in Bots
      BY <1>1, <2>2 DEF SetStatus, Answer, CallInv, Targets
    <3>2. \/ status' = status
          \/ /\ status[call[r].bot] \in BotStatus
             /\ status' = [status EXCEPT ![call[r].bot] = Targets[call[r].op]]
      BY <2>2 DEF SetStatus
    <3>3. /\ Targets[call[r].op] \in BotStatus
          /\ Targets[call[r].op] = "paused" => call[r].op = "pause"
      BY <3>1 DEF Targets, BotStatus
    <3>4. \A b \in Bots : status[b] # "paused" /\ status'[b] = "paused" =>
             status[b] = "active" \/ Overtaken("setStatus")
      <4>1. CASE r \in disturbed
        BY <1>2, <3>1, <4>1
      <4>2. CASE r \notin disturbed
        BY <1>1, <3>1, <3>2, <3>3, <4>2 DEF Current
      <4> QED BY <4>1, <4>2
    <3>5. \A b \in Bots : status[b] = "deleted" <=> status'[b] = "deleted"
      BY <1>1, <3>2, <3>3 DEF BotStatus
    <3> QED BY <2>1, <3>1, <3>4, <3>5
  <2>3. CASE DeleteBot(r)
    <3>1. /\ pc[r] = "delete" /\ pc'[r] # "delete" /\ call[r].bot \in Bots
          /\ \/ status' = status /\ account' = account
             \/ /\ status' = [status EXCEPT ![call[r].bot] = "deleted"]
                /\ account' = [account EXCEPT ![call[r].bot] = None]
      BY <1>1, <2>3 DEF DeleteBot, Answer, CallInv
    <3>2. r \notin disturbed => status[call[r].bot] = "stopped"
      BY <1>1, <3>1 DEF Current
    <3>3. r \in disturbed => Overtaken("delete")
      BY <1>2, <3>1
    <3> QED BY <1>1, <2>1, <3>1, <3>2, <3>3
  <2>4. CASE StopBots(r)
    <3>1. /\ account' = account
          /\ \A b \in Bots : status'[b] = status[b] \/
                (status[b] \in {"active", "paused"} /\ status'[b] = "stopped")
      BY <1>1, <2>4 DEF StopBots
    <3> QED BY <2>1, <3>1
  <2>5. CASE DeleteConnection(r)
    <3>1. /\ pc[r] = "deleteConnection" /\ pc'[r] # "deleteConnection"
          /\ status' = status
          /\ \A b \in Bots : account'[b] # account[b] => account[b] = call[r].account
      BY <1>1, <2>5 DEF DeleteConnection, Answer
    <3>2. CASE r \in disturbed
      <4>1. Overtaken("deleteConnection")
        BY <1>2, <3>1, <3>2
      <4> QED BY <2>1, <3>1, <4>1
    <3>3. CASE r \notin disturbed
      <4>1. \A b \in Bots : account[b] = call[r].account => status[b] = "stopped"
        BY <1>1, <3>1, <3>3 DEF Current
      <4> QED BY <2>1, <3>1, <4>1
    <3> QED BY <3>2, <3>3
  <2>6. CASE ~SetStatus(r) /\ ~DeleteBot(r) /\ ~StopBots(r) /\ ~DeleteConnection(r)
    <3>1. status' = status /\ account' = account
      BY <1>4, <2>6 DEF Step, ReceiveCreate, RefuseCreate, CountBots, FindAccount,
           ReceiveBotRequest, GetBot, ReceiveConnect, CheckPermissions, InsertAccount,
           ReceiveDisconnect, FindConnection, Arrive, rows
    <3> QED BY <2>1, <3>1
  <2> QED BY <2>2, <2>3, <2>4, <2>5, <2>6
<1> QED BY <1>3, <1>4

\* The same for every step of the specification.
LEMMA NextPromises ==
    ASSUME IInv, [Next]_vars
    PROVE  /\ [Cardinality(Existing') > Cardinality(Existing) =>
                 Cardinality(Existing') <= MaxBotsPerUser \/ Overtaken("insert")]_vars
           /\ [\A b \in Bots : status[b] # "paused" /\ status'[b] = "paused" =>
                 status[b] = "active" \/ Overtaken("setStatus")]_vars
           /\ [\A b \in Bots : status[b] # "deleted" /\ status'[b] = "deleted" =>
                 status[b] = "stopped" \/ Overtaken("delete")]_vars
           /\ [\A b \in Bots :
                 account[b] # None /\ account'[b] = None /\ status'[b] # "deleted"
                    => status'[b] = "stopped" \/ Overtaken("deleteConnection")]_vars
           /\ [\A b \in Bots : status[b] = "deleted" => status'[b] = "deleted"]_vars
<1>1. CASE UNCHANGED vars
  BY <1>1
<1>2. CASE \E r \in Requests : Step(r) /\ Disturb(r)
  BY <1>2, StepPromises
<1> QED BY <1>1, <1>2 DEF Next, Drained

\* API_CONTRACT.md:58: only an overtaken create goes beyond the limit.
THEOREM LimitKept == Spec => BotLimit
BY BotsInvariance, NextPromises, PTL DEF Spec, BotLimit

\* API_CONTRACT.md:62: only an overtaken pause pauses a bot that is not active.
THEOREM PausesActive == Spec => PauseOnlyFromActive
BY BotsInvariance, NextPromises, PTL DEF Spec, PauseOnlyFromActive

\* API_CONTRACT.md:64: only an overtaken remove deletes a bot that is not stopped.
THEOREM RemovesStopped == Spec => DeleteOnlyStopped
BY BotsInvariance, NextPromises, PTL DEF Spec, DeleteOnlyStopped

\* exchange.service.ts:112 (FR-EXC-002): a disconnect that is not overtaken
\* detaches stopped bots only.
THEOREM DisconnectStops == Spec => DisconnectStopsUndisturbed
BY BotsInvariance, NextPromises, PTL DEF Spec, DisconnectStopsUndisturbed

\* A deleted bot stays deleted.
THEOREM DeletedStays == Spec => NoResurrection
BY BotsInvariance, NextPromises, PTL DEF Spec, NoResurrection
=============================================================================

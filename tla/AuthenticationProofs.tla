------------------------ MODULE AuthenticationProofs ------------------------
(***************************************************************************)
(* Authentication's properties, for any number of requests and attempts,   *)
(* any lengths of time and any parameters.                                 *)
(***************************************************************************)
EXTENDS Authentication, NaturalFacts

\* What a request's arguments may be while there are n challenges.
Calls(n) == [secret : Passwords \cup Codes \cup {None}, found : BOOLEAN,
             challenge : 0..n, failed : Nat]

\* Without an account there is nothing to verify, and a consumed challenge
\* has activated the account.
RowsInv ==
    /\ user = None => challenges = <<>> /\ tokenExpires = 0
    /\ \A i \in DOMAIN challenges : challenges[i].consumed => user.status = "active"

\* What a request may rely on, whatever the others did since it read.
Carries(r) ==
    /\ pc[r] \in {"findUser", "saveUser", "insertChallenge", "findLogin"} =>
          call[r].secret \in Passwords
    /\ pc[r] \in {"insertChallenge", "findAccount", "findChallenge", "countAttempt", "activate",
                  "recordFailure", "recordSuccess", "verified"} => user # None
    /\ pc[r] \in InFlight /\ call[r].found => user # None
    /\ pc[r] \in {"countAttempt", "activate"} => call[r].challenge \in DOMAIN challenges
    /\ pc[r] = "verified" => user.status = "active"

\* The requests that found a wrong code and have not counted it yet.
Trying(i) == {q \in Requests : pc[q] = "countAttempt" /\ call[q].challenge = i}

\* The attempts counted on a challenge and those about to be counted.
CountedInv ==
    \A i \in DOMAIN challenges :
        challenges[i].attempts + Cardinality(Trying(i))
           <= OtpMaxAttempts + Cardinality(Requests) - 1

\* What a request in flight read is still so, as long as it is alone.
Current(r) ==
    /\ pc[r] = "saveUser" => (call[r].found <=> user # None)
    /\ pc[r] \in {"saveUser", "findChallenge", "activate"} /\ user # None =>
          user.status = "pending"
    /\ pc[r] = "insertChallenge" => user.password = call[r].secret
    /\ pc[r] = "activate" => call[r].challenge = Len(challenges)
    /\ pc[r] = "recordFailure" => call[r].failed = user.failedLoginAttempts
    /\ pc[r] \in {"recordFailure", "recordSuccess"} => ~Locked

\* While no two requests overlapped and none failed: one request at a time,
\* the stored count of failures is the streak, and the latest challenge
\* belongs to the password stored, except between the two statements that
\* replace them.
AloneInv ==
    undisturbed =>
        /\ \A q, r \in Requests : pc[q] \in InFlight /\ pc[r] \in InFlight => q = r
        /\ \A r \in Requests : Current(r)
        /\ streak = IF user = None THEN 0 ELSE user.failedLoginAttempts
        /\ (\A r \in Requests : pc[r] # "insertChallenge") /\ challenges # <<>> =>
              challenges[Len(challenges)].password = user.password

IInv ==
    /\ TypeOK
    /\ RowsInv
    /\ \A r \in Requests : Carries(r)
    /\ CountedInv
    /\ AloneInv

-----------------------------------------------------------------------------
\* The strengthening holds before the first request.
LEMMA InitHolds == Init => IInv
<1> SUFFICES ASSUME Init
             PROVE  IInv
  OBVIOUS
<1>1. user = None \/ \E p \in Passwords : user = [NewUser(p) EXCEPT !.status = "active"]
  BY DEF Init
<1>2. user \in User \cup {None} /\ (user # None => user.failedLoginAttempts = 0)
  <2>1. ASSUME NEW p \in Passwords, user = [NewUser(p) EXCEPT !.status = "active"]
        PROVE  user \in User /\ user.failedLoginAttempts = 0
    <3>1. 0 \in 0..LoginMaxAttempts - 1
      BY LimitAssumption
    <3>2. user = [status |-> "active", password |-> p, failedLoginAttempts |-> 0,
                  lockedUntil |-> 0]
      BY <2>1 DEF NewUser
    <3> QED BY <3>1, <3>2 DEF User
  <2> QED BY <1>1, <2>1
<1>3. TypeOK
  BY <1>2, LimitAssumption DEF Init, TypeOK, NoCall
<1>4. RowsInv /\ CountedInv
  BY DEF Init, RowsInv, CountedInv
<1>5. \A r \in Requests : Carries(r) /\ Current(r)
  BY DEF Init, Carries, Current, InFlight
<1>6. AloneInv
  BY <1>2, <1>5 DEF Init, AloneInv, InFlight
<1> QED BY <1>3, <1>4, <1>5, <1>6 DEF IInv

-----------------------------------------------------------------------------
(* What all steps of requests have in common. *)

\* What a challenge holds.
LEMMA ChallengeAt ==
    ASSUME TypeOK, NEW i \in DOMAIN challenges
    PROVE  /\ i \in 1..Len(challenges) /\ challenges[i] \in Challenge
           /\ challenges[i].attempts \in Nat /\ challenges[i].consumed \in BOOLEAN
           /\ challenges[i].password \in Passwords
<1>1. challenges \in Seq(Challenge)
  BY DEF TypeOK
<1>2. i \in 1..Len(challenges) /\ challenges[i] \in Challenge
  BY <1>1
<1> QED BY <1>2 DEF Challenge

\* A request that keeps one thing it read.
LEMMA OneKept ==
    ASSUME NEW n \in Nat
    PROVE  /\ NoCall \in Calls(n)
           /\ \A p \in Passwords \cup Codes :
                 [NoCall EXCEPT !.secret = p] \in Calls(n)
           /\ \A i \in 0..n : LET kept == [NoCall EXCEPT !.challenge = i] IN
                 kept \in Calls(n) /\ kept.challenge = i /\ ~kept.found
           /\ \A k \in Nat : LET kept == [NoCall EXCEPT !.failed = k] IN
                 kept \in Calls(n) /\ kept.failed = k /\ ~kept.found
<1>1. NoCall \in Calls(n)
  BY DEF NoCall, Calls
<1>2. ~NoCall.found
  BY DEF NoCall
<1>3. ASSUME NEW c \in Calls(n), ~c.found
      PROVE  /\ \A p \in Passwords \cup Codes : [c EXCEPT !.secret = p] \in Calls(n)
             /\ \A i \in 0..n : LET kept == [c EXCEPT !.challenge = i] IN
                   kept \in Calls(n) /\ kept.challenge = i /\ ~kept.found
             /\ \A k \in Nat : LET kept == [c EXCEPT !.failed = k] IN
                   kept \in Calls(n) /\ kept.failed = k /\ ~kept.found
  BY <1>3 DEF Calls
<1> QED BY <1>1, <1>2, <1>3

\* A step to the next statement or to an answer touches its own request only.
LEMMA GotoEffects ==
    ASSUME TypeOK, NEW r \in Requests, NEW from, NEW to \in InFlight \cup Answers, NEW kept,
           Goto(r, from, to, kept), to \notin Answers => kept \in Calls(Len(challenges))
    PROVE  /\ pc[r] = from /\ pc'[r] = to
           /\ pc' \in [Requests -> {"idle"} \cup InFlight \cup Answers]
           /\ call'[r] = IF to \in Answers THEN NoCall ELSE kept
           /\ call' \in [Requests -> Calls(Len(challenges))]
           /\ \A q \in Requests \ {r} : pc'[q] = pc[q] /\ call'[q] = call[q]
<1>1. Len(challenges) \in Nat
  BY DEF TypeOK
<1>2. NoCall \in Calls(Len(challenges))
  BY <1>1 DEF NoCall, Calls
<1> QED BY <1>2 DEF TypeOK, Goto, Calls

\* The same of a request that arrives.
LEMMA ArriveEffects ==
    ASSUME TypeOK, NEW r \in Requests, NEW op, NEW given \in Passwords \cup Codes,
           NEW first \in InFlight, Arrive(r, op, given, first)
    PROVE  /\ pc'[r] = first /\ pc[r] \notin InFlight
           /\ pc' \in [Requests -> {"idle"} \cup InFlight \cup Answers]
           /\ call'[r] = [NoCall EXCEPT !.secret = given]
           /\ call' \in [Requests -> Calls(Len(challenges))]
           /\ \A q \in Requests \ {r} : pc'[q] = pc[q] /\ call'[q] = call[q]
           /\ UNCHANGED <<user, challenges, tokenExpires, now, streak>>
           /\ issued' \in 0..MaxRequests
<1>1. Len(challenges) \in Nat
  BY DEF TypeOK
<1>2. [NoCall EXCEPT !.secret = given] \in Calls(Len(challenges))
  BY <1>1, OneKept
<1>3. issued' \in 0..MaxRequests
  BY LimitAssumption DEF TypeOK, Arrive
<1> QED BY <1>2, <1>3 DEF TypeOK, Arrive, Calls, rows

\* What the other requests rely on is never taken away.
LEMMA OthersCarry ==
    ASSUME IInv, NEW r \in Requests,
           \A q \in Requests \ {r} : pc'[q] = pc[q] /\ call'[q] = call[q],
           user # None => user' # None,
           user # None /\ user.status = "active" => user'.status = "active",
           DOMAIN challenges \subseteq DOMAIN challenges'
    PROVE  \A q \in Requests \ {r} : Carries(q)'
BY DEF IInv, Carries

\* A step that leaves no second request beside it keeps what holds alone.
LEMMA AloneAfter ==
    ASSUME IInv, NEW r \in Requests, Disturb(r),
           \A q \in Requests \ {r} : pc'[q] = pc[q] /\ call'[q] = call[q],
           undisturbed' =>
               /\ Current(r)'
               /\ streak' = IF user' = None THEN 0 ELSE user'.failedLoginAttempts
               /\ pc'[r] # "insertChallenge" /\ challenges' # <<>> =>
                     challenges'[Len(challenges')].password = user'.password
    PROVE  AloneInv'
<1> SUFFICES ASSUME undisturbed'
             PROVE  /\ \A q, s \in Requests : pc'[q] \in InFlight /\ pc'[s] \in InFlight => q = s
                    /\ \A q \in Requests : Current(q)'
  BY DEF AloneInv
<1>1. \A q \in Requests \ {r} : pc'[q] \notin InFlight
  BY DEF Disturb
<1>2. \A q \in Requests \ {r} : Current(q)'
  BY <1>1 DEF Current, InFlight
<1> QED BY <1>1, <1>2

\* The requests can be counted, and so can those about to count an attempt.
LEMMA TryingFinite ==
    ASSUME NEW i
    PROVE  /\ Cardinality(Requests) \in Nat
           /\ IsFiniteSet(Trying(i)) /\ Cardinality(Trying(i)) \in Nat
           /\ IsFiniteSet(Trying(i)') /\ Cardinality(Trying(i)') \in Nat
           /\ Cardinality(Trying(i)') <= Cardinality(Requests)
<1>1. Trying(i) \subseteq Requests /\ Trying(i)' \subseteq Requests
  BY DEF Trying
<1>2. IsFiniteSet(Requests)
  BY LimitAssumption
<1> QED BY <1>1, <1>2, FS_Subset, FS_CardinalityType

\* A step that counts no attempt and finds no wrong code keeps the bound; a
\* new challenge starts at 0.
LEMMA CountedAfter ==
    ASSUME IInv, NEW r \in Requests, pc'[r] # "countAttempt",
           \A q \in Requests \ {r} : pc'[q] = pc[q] /\ call'[q] = call[q],
           \A i \in DOMAIN challenges' :
               IF i \in DOMAIN challenges THEN challenges'[i].attempts = challenges[i].attempts
                                          ELSE challenges'[i].attempts = 0
    PROVE  CountedInv'
<1> SUFFICES ASSUME NEW i \in DOMAIN challenges'
             PROVE  challenges'[i].attempts + Cardinality(Trying(i)')
                       <= OtpMaxAttempts + Cardinality(Requests) - 1
  BY DEF CountedInv
<1>1. CASE i \in DOMAIN challenges
  <2>1. Trying(i)' \subseteq Trying(i)
    BY DEF Trying
  <2>2. Cardinality(Trying(i)') <= Cardinality(Trying(i))
    BY <2>1, TryingFinite, FS_Subset
  <2>3. challenges[i].attempts \in Nat
    BY <1>1, ChallengeAt DEF IInv
  <2>4. challenges[i].attempts + Cardinality(Trying(i))
           <= OtpMaxAttempts + Cardinality(Requests) - 1
    BY <1>1 DEF IInv, CountedInv
  <2> QED BY <1>1, <2>2, <2>3, <2>4, TryingFinite, LimitAssumption
<1>2. CASE i \notin DOMAIN challenges
  BY <1>2, TryingFinite, LimitAssumption
<1> QED BY <1>1, <1>2

\* A statement that only reads.
LEMMA ReadStep ==
    ASSUME IInv, NEW r \in Requests, Disturb(r),
           UNCHANGED <<user, challenges, tokenExpires, now, streak>>,
           issued' \in 0..MaxRequests,
           pc' \in [Requests -> {"idle"} \cup InFlight \cup Answers],
           call' \in [Requests -> Calls(Len(challenges))],
           \A q \in Requests \ {r} : pc'[q] = pc[q] /\ call'[q] = call[q],
           Carries(r)',
           undisturbed' => Current(r)' /\ pc[r] # "insertChallenge",
           pc'[r] = "countAttempt" =>
               challenges[call'[r].challenge].attempts < OtpMaxAttempts
    PROVE  IInv'
<1>1. TypeOK'
  BY DEF IInv, TypeOK, Calls, Disturb
<1>2. RowsInv'
  BY DEF IInv, RowsInv
<1>3. \A q \in Requests : Carries(q)'
  BY OthersCarry
<1>4. AloneInv'
  <2>1. undisturbed' => undisturbed /\ \A q \in Requests \ {r} : pc[q] # "insertChallenge"
    BY DEF Disturb, InFlight
  <2>2. undisturbed' => streak' = IF user' = None THEN 0 ELSE user'.failedLoginAttempts
    BY <2>1 DEF IInv, AloneInv
  <2>3. undisturbed' /\ challenges' # <<>> =>
           challenges'[Len(challenges')].password = user'.password
    BY <2>1 DEF IInv, AloneInv
  <2> QED BY <2>2, <2>3, AloneAfter
<1>5. CountedInv'
  <2>1. CASE pc'[r] # "countAttempt"
    BY <2>1, CountedAfter
  <2>2. CASE pc'[r] = "countAttempt"
    <3> SUFFICES ASSUME NEW i \in DOMAIN challenges
                 PROVE  challenges[i].attempts + Cardinality(Trying(i)')
                           <= OtpMaxAttempts + Cardinality(Requests) - 1
      BY DEF CountedInv
    <3>1. challenges[i].attempts \in Nat
      BY ChallengeAt DEF IInv
    <3>2. CASE call'[r].challenge = i
      <4>1. challenges[i].attempts + 1 <= OtpMaxAttempts
        BY <2>2, <3>1, <3>2, LimitAssumption
      <4> QED BY <3>1, <4>1, TryingFinite, LimitAssumption
    <3>3. CASE call'[r].challenge # i
      <4>1. Trying(i)' \subseteq Trying(i)
        BY <3>3 DEF Trying
      <4>2. Cardinality(Trying(i)') <= Cardinality(Trying(i))
        BY <4>1, TryingFinite, FS_Subset
      <4>3. challenges[i].attempts + Cardinality(Trying(i))
               <= OtpMaxAttempts + Cardinality(Requests) - 1
        BY DEF IInv, CountedInv
      <4> QED BY <3>1, <4>2, <4>3, TryingFinite, LimitAssumption
    <3> QED BY <3>2, <3>3
  <2> QED BY <2>1, <2>2
<1> QED BY <1>1, <1>2, <1>3, <1>4, <1>5 DEF IInv

-----------------------------------------------------------------------------
(* The statements that only read, one by one. *)

\* A request arrives carrying what its operation starts from.
LEMMA ReceiveStep ==
    ASSUME IInv, NEW r \in Requests,
           ReceiveRegister(r) \/ ReceiveVerifyOtp(r) \/ ReceiveLogin(r), Disturb(r)
    PROVE  IInv'
<1>0. TypeOK /\ RowsInv
  BY DEF IInv
<1>1. PICK op \in Operations, given \in Passwords \cup Codes, first \in InFlight :
         /\ Arrive(r, op, given, first)
         /\ \/ first \in {"findUser", "findLogin"} /\ given \in Passwords
            \/ first = "findAccount" /\ user # None
  <2>1. CASE ReceiveRegister(r) \/ ReceiveLogin(r)
    BY <2>1 DEF ReceiveRegister, ReceiveLogin, Arrive, InFlight
  <2>2. CASE ReceiveVerifyOtp(r)
    <3>1. user # None
      BY <1>0, <2>2 DEF ReceiveVerifyOtp, RowsInv, TypeOK
    <3> QED BY <2>2, <3>1 DEF ReceiveVerifyOtp, Arrive, InFlight
  <2> QED BY <2>1, <2>2
<1>2. /\ pc'[r] = first /\ pc[r] \notin InFlight
      /\ pc' \in [Requests -> {"idle"} \cup InFlight \cup Answers]
      /\ call' \in [Requests -> Calls(Len(challenges))]
      /\ \A q \in Requests \ {r} : pc'[q] = pc[q] /\ call'[q] = call[q]
      /\ UNCHANGED <<user, challenges, tokenExpires, now, streak>>
      /\ issued' \in 0..MaxRequests
  BY <1>0, <1>1, ArriveEffects
<1>3. call'[r].secret = given /\ call'[r].found = FALSE
  <2>1. call'[r] = [NoCall EXCEPT !.secret = given]
    BY <1>0, <1>1, ArriveEffects
  <2> QED BY <2>1 DEF NoCall
<1>4. Carries(r)'
  BY <1>1, <1>2, <1>3 DEF Carries
<1>5. undisturbed' => Current(r)' /\ pc[r] # "insertChallenge"
  BY <1>1, <1>2 DEF Current, InFlight
<1> QED BY <1>1, <1>2, <1>4, <1>5, ReadStep

\* Register finds the address free, pending or taken.
LEMMA FindUserStep ==
    ASSUME IInv, NEW r \in Requests, FindUser(r), Disturb(r)
    PROVE  IInv'
<1> DEFINE to == IF user # None /\ user.status = "active" THEN "conflict" ELSE "saveUser"
           kept == [call[r] EXCEPT !.found = user # None]
<1>0. TypeOK /\ Carries(r) /\ issued \in 0..MaxRequests
  BY DEF IInv, TypeOK
<1>1. /\ Goto(r, "findUser", to, kept)
      /\ UNCHANGED <<user, challenges, tokenExpires, now, streak, issued>>
  BY DEF FindUser, rows
<1>2. /\ kept \in Calls(Len(challenges)) /\ kept.secret = call[r].secret
      /\ kept.found <=> user # None
  BY <1>0 DEF TypeOK, Calls
<1>3. to \in InFlight \cup Answers
  BY DEF InFlight, Answers
<1>4. to = "saveUser" => user = None \/ user.status = "pending"
  BY <1>0 DEF TypeOK, User
<1>5. to \in {"conflict", "saveUser"}
  OBVIOUS
<1> HIDE DEF to, kept
<1>6. /\ pc[r] = "findUser" /\ pc'[r] = to
      /\ pc' \in [Requests -> {"idle"} \cup InFlight \cup Answers]
      /\ call'[r] = IF to \in Answers THEN NoCall ELSE kept
      /\ call' \in [Requests -> Calls(Len(challenges))]
      /\ \A q \in Requests \ {r} : pc'[q] = pc[q] /\ call'[q] = call[q]
  BY <1>0, <1>1, <1>2, <1>3, GotoEffects
<1>7. CASE to = "conflict"
  <2>1. Carries(r)' /\ Current(r)'
    BY <1>6, <1>7 DEF Carries, Current, InFlight
  <2> QED BY <1>0, <1>1, <1>6, <1>7, <2>1, ReadStep
<1>8. CASE to = "saveUser"
  <2>1. call'[r] = kept
    BY <1>6, <1>8 DEF Answers
  <2>2. Carries(r)'
    BY <1>0, <1>1, <1>2, <1>6, <1>8, <2>1 DEF Carries
  <2>3. Current(r)'
    BY <1>1, <1>2, <1>4, <1>6, <1>8, <2>1 DEF Current
  <2> QED BY <1>0, <1>1, <1>6, <1>8, <2>2, <2>3, ReadStep
<1> QED BY <1>5, <1>7, <1>8

\* The account to verify is read.
LEMMA FindAccountStep ==
    ASSUME IInv, NEW r \in Requests, FindAccount(r), Disturb(r)
    PROVE  IInv'
<1> DEFINE to == IF user.status = "active" THEN "verified" ELSE "findChallenge"
<1>0. TypeOK /\ Carries(r) /\ issued \in 0..MaxRequests
  BY DEF IInv, TypeOK
<1>1. /\ Goto(r, "findAccount", to, call[r])
      /\ UNCHANGED <<user, challenges, tokenExpires, now, streak, issued>>
  BY DEF FindAccount, rows
<1>2. call[r] \in Calls(Len(challenges))
  BY <1>0 DEF TypeOK, Calls
<1>3. to \in InFlight \cup Answers /\ to \in {"verified", "findChallenge"}
  BY DEF InFlight, Answers
<1>4. user # None
  BY <1>0, <1>1 DEF Goto, Carries
<1>5. /\ to = "findChallenge" => user.status = "pending"
      /\ to = "verified" => user.status = "active"
  BY <1>0, <1>4 DEF TypeOK, User
<1> HIDE DEF to
<1>6. /\ pc[r] = "findAccount" /\ pc'[r] = to
      /\ pc' \in [Requests -> {"idle"} \cup InFlight \cup Answers]
      /\ call' \in [Requests -> Calls(Len(challenges))]
      /\ \A q \in Requests \ {r} : pc'[q] = pc[q] /\ call'[q] = call[q]
  BY <1>0, <1>1, <1>2, <1>3, GotoEffects
<1>7. Carries(r)'
  BY <1>1, <1>3, <1>4, <1>5, <1>6 DEF Carries
<1>8. Current(r)'
  BY <1>1, <1>3, <1>5, <1>6 DEF Current
<1>9. pc'[r] # "countAttempt"
  BY <1>3, <1>6
<1> QED BY <1>0, <1>1, <1>6, <1>7, <1>8, <1>9, ReadStep

\* The latest challenge not consumed exists wherever one is left.
LEMMA LatestIsLatest ==
    ASSUME TypeOK, Unconsumed # {}
    PROVE  /\ LatestChallenge \in Unconsumed
           /\ \A j \in Unconsumed : j <= LatestChallenge
<1>1. Len(challenges) \in Nat /\ DOMAIN challenges = 1..Len(challenges)
  BY DEF TypeOK
<1>2. Unconsumed \subseteq Nat /\ \A i \in Unconsumed : i <= Len(challenges)
  BY <1>1 DEF Unconsumed
<1>3. \E i \in Unconsumed : \A j \in Unconsumed : j <= i
  BY <1>1, <1>2, GreatestNatural
<1> QED BY <1>3 DEF LatestChallenge

\* A code is compared with the latest challenge; of a pending account that is
\* the last one created.
LEMMA FindChallengeStep ==
    ASSUME IInv, NEW r \in Requests, FindChallenge(r), Disturb(r)
    PROVE  IInv'
<1>0. TypeOK /\ Carries(r) /\ RowsInv /\ issued \in 0..MaxRequests
  BY DEF IInv, TypeOK
<1>1. UNCHANGED <<user, challenges, tokenExpires, now, streak, issued>>
  BY DEF FindChallenge, rows
<1>2. Len(challenges) \in Nat /\ DOMAIN challenges = 1..Len(challenges)
  BY <1>0 DEF TypeOK
<1>3. CASE Goto(r, "findChallenge", "badRequest", NoCall)
  <2>1. "badRequest" \in Answers
    BY DEF Answers
  <2>2. /\ pc[r] = "findChallenge" /\ pc'[r] = "badRequest"
        /\ pc' \in [Requests -> {"idle"} \cup InFlight \cup Answers]
        /\ call' \in [Requests -> Calls(Len(challenges))]
        /\ \A q \in Requests \ {r} : pc'[q] = pc[q] /\ call'[q] = call[q]
    BY <1>0, <1>3, <2>1, GotoEffects
  <2>3. Carries(r)' /\ Current(r)'
    BY <2>2 DEF Carries, Current, InFlight
  <2> QED BY <1>0, <1>1, <2>2, <2>3, ReadStep
<1>4. CASE ~Goto(r, "findChallenge", "badRequest", NoCall)
  <2> DEFINE to == IF call[r].secret = challenges[LatestChallenge].code
                     THEN "activate" ELSE "countAttempt"
             kept == [NoCall EXCEPT !.challenge = LatestChallenge]
  <2>1. /\ Unconsumed # {} /\ MayTry(challenges[LatestChallenge])
        /\ Goto(r, "findChallenge", to, kept)
    BY <1>4 DEF FindChallenge
  <2>2. /\ LatestChallenge \in DOMAIN challenges
        /\ \A j \in Unconsumed : j <= LatestChallenge
    BY <1>0, <2>1, LatestIsLatest DEF Unconsumed
  <2>3. kept \in Calls(Len(challenges)) /\ kept.challenge = LatestChallenge /\ ~kept.found
    BY <1>2, <2>2, OneKept
  <2>4. to \in InFlight \cup Answers
    BY DEF InFlight, Answers
  <2>5. to \in InFlight /\ to \notin Answers /\ to \in {"activate", "countAttempt"}
    BY DEF InFlight, Answers
  <2> HIDE DEF to, kept
  <2>6. /\ pc[r] = "findChallenge" /\ pc'[r] = to
        /\ pc' \in [Requests -> {"idle"} \cup InFlight \cup Answers]
        /\ call'[r] = kept
        /\ call' \in [Requests -> Calls(Len(challenges))]
        /\ \A q \in Requests \ {r} : pc'[q] = pc[q] /\ call'[q] = call[q]
    BY <1>0, <2>1, <2>3, <2>4, <2>5, GotoEffects
  <2>7. user # None
    BY <1>0, <2>6 DEF Carries
  <2>8. Carries(r)'
    BY <1>1, <2>2, <2>3, <2>5, <2>6, <2>7 DEF Carries
  <2>9. undisturbed' => Current(r)'
    <3> SUFFICES ASSUME undisturbed'
                 PROVE  Current(r)'
      OBVIOUS
    <3>1. user.status = "pending"
      BY <2>6, <2>7 DEF Disturb, IInv, AloneInv, Current
    <3>2. Unconsumed = DOMAIN challenges
      BY <1>0, <3>1 DEF RowsInv, Unconsumed
    <3>3. Len(challenges) \in Unconsumed
      BY <1>2, <2>2, <3>2
    <3>4. LatestChallenge = Len(challenges)
      BY <1>2, <2>2, <3>3
    <3> QED BY <1>1, <2>3, <2>5, <2>6, <3>1, <3>4 DEF Current
  <2>10. challenges[LatestChallenge].attempts < OtpMaxAttempts
    BY <2>1 DEF MayTry
  <2> QED BY <1>0, <1>1, <2>3, <2>6, <2>8, <2>9, <2>10, ReadStep
<1> QED BY <1>3, <1>4

\* A login reads the account and its count of failures.
LEMMA FindLoginStep ==
    ASSUME IInv, NEW r \in Requests, FindLogin(r), Disturb(r)
    PROVE  IInv'
<1> DEFINE to == IF user = None \/ Locked \/ user.status # "active" THEN "unauthorized"
                   ELSE IF user.password = call[r].secret THEN "recordSuccess"
                                                          ELSE "recordFailure"
           read == IF user = None THEN 0 ELSE user.failedLoginAttempts
           kept == [NoCall EXCEPT !.failed = read]
<1>0. TypeOK /\ Carries(r) /\ issued \in 0..MaxRequests
  BY DEF IInv, TypeOK
<1>1. /\ Goto(r, "findLogin", to, kept)
      /\ UNCHANGED <<user, challenges, tokenExpires, now, streak, issued>>
  BY DEF FindLogin, rows
<1>2. read \in Nat
  BY <1>0, LimitAssumption DEF TypeOK, User
<1>3. /\ to \in InFlight \cup Answers /\ to \in {"unauthorized", "recordSuccess", "recordFailure"}
      /\ to # "unauthorized" => user # None /\ ~Locked
  BY DEF InFlight, Answers
<1>4. user # None => read = user.failedLoginAttempts
  OBVIOUS
<1> HIDE DEF to, read
<1>5. kept \in Calls(Len(challenges)) /\ kept.failed = read /\ ~kept.found
  <2>1. Len(challenges) \in Nat
    BY <1>0 DEF TypeOK
  <2> QED BY <1>2, <2>1, OneKept
<1> HIDE DEF kept
<1>6. /\ pc[r] = "findLogin" /\ pc'[r] = to
      /\ pc' \in [Requests -> {"idle"} \cup InFlight \cup Answers]
      /\ call'[r] = IF to \in Answers THEN NoCall ELSE kept
      /\ call' \in [Requests -> Calls(Len(challenges))]
      /\ \A q \in Requests \ {r} : pc'[q] = pc[q] /\ call'[q] = call[q]
  BY <1>0, <1>1, <1>3, <1>5, GotoEffects
<1>7. Carries(r)'
  BY <1>1, <1>3, <1>5, <1>6 DEF Carries, InFlight, Answers
<1>8. Current(r)'
  BY <1>1, <1>3, <1>4, <1>5, <1>6 DEF Current, Answers, Locked
<1>9. pc'[r] # "countAttempt"
  BY <1>3, <1>6
<1> QED BY <1>0, <1>1, <1>6, <1>7, <1>8, <1>9, ReadStep

\* A statement that fails ends its request and changes no row.
LEMMA FaultStep ==
    ASSUME IInv, NEW r \in Requests, Fault(r), Disturb(r)
    PROVE  IInv'
<1>0. TypeOK /\ issued \in 0..MaxRequests
  BY DEF IInv, TypeOK
<1>1. /\ Goto(r, pc[r], "fault", NoCall)
      /\ UNCHANGED <<user, challenges, tokenExpires, now, streak, issued>>
  BY DEF Fault, rows
<1>2. "fault" \in Answers
  BY DEF Answers
<1>3. /\ pc'[r] = "fault"
      /\ pc' \in [Requests -> {"idle"} \cup InFlight \cup Answers]
      /\ call' \in [Requests -> Calls(Len(challenges))]
      /\ \A q \in Requests \ {r} : pc'[q] = pc[q] /\ call'[q] = call[q]
  BY <1>0, <1>1, <1>2, GotoEffects
<1>4. ~undisturbed'
  BY <1>3 DEF Disturb
<1>5. Carries(r)'
  BY <1>3 DEF Carries, InFlight
<1> QED BY <1>0, <1>1, <1>3, <1>4, <1>5, ReadStep

-----------------------------------------------------------------------------
(* The statements that write rows, one by one. *)

\* A request that ends leaves nothing to rely on.
LEMMA EndedCarries ==
    ASSUME NEW r \in Requests, pc'[r] \in Answers \ {"verified"}
    PROVE  Carries(r)' /\ Current(r)' /\ pc'[r] # "countAttempt"
BY DEF Carries, Current, Answers, InFlight

\* The new password is stored, in a row that is there already or in a new one.
LEMMA SaveUserStep ==
    ASSUME IInv, NEW r \in Requests, SaveUser(r), Disturb(r)
    PROVE  IInv'
<1>0. TypeOK /\ Carries(r) /\ RowsInv /\ issued \in 0..MaxRequests
  BY DEF IInv, TypeOK
<1>1. /\ pc[r] = "saveUser"
      /\ UNCHANGED <<challenges, tokenExpires, now, streak, issued>>
  BY DEF SaveUser, Goto
<1>2. call[r].secret \in Passwords /\ call[r] \in Calls(Len(challenges))
  BY <1>0, <1>1 DEF Carries, TypeOK, Calls
<1>3. CASE ~call[r].found /\ user # None
  <2>1. "uniqueViolation" \in Answers \ {"verified"}
    BY DEF Answers
  <2>2. Goto(r, "saveUser", "uniqueViolation", NoCall) /\ user' = user
    BY <1>3 DEF SaveUser
  <2>3. /\ pc'[r] = "uniqueViolation"
        /\ pc' \in [Requests -> {"idle"} \cup InFlight \cup Answers]
        /\ call' \in [Requests -> Calls(Len(challenges))]
        /\ \A q \in Requests \ {r} : pc'[q] = pc[q] /\ call'[q] = call[q]
    BY <1>0, <2>1, <2>2, GotoEffects
  <2>4. Carries(r)' /\ Current(r)' /\ pc'[r] # "countAttempt"
    BY <2>1, <2>3, EndedCarries
  <2> QED BY <1>0, <1>1, <2>2, <2>3, <2>4, ReadStep
<1>4. CASE call[r].found \/ user = None
  <2>1. /\ Goto(r, "saveUser", "insertChallenge", call[r])
        /\ IF call[r].found THEN user' = [user EXCEPT !.password = call[r].secret]
                            ELSE user = None /\ user' = NewUser(call[r].secret)
    BY <1>4 DEF SaveUser
  <2>2. "insertChallenge" \in InFlight \cup Answers /\ "insertChallenge" \notin Answers
    BY DEF InFlight, Answers
  <2>3. /\ pc'[r] = "insertChallenge" /\ call'[r] = call[r]
        /\ pc' \in [Requests -> {"idle"} \cup InFlight \cup Answers]
        /\ call' \in [Requests -> Calls(Len(challenges))]
        /\ \A q \in Requests \ {r} : pc'[q] = pc[q] /\ call'[q] = call[q]
    BY <1>0, <1>2, <2>1, <2>2, GotoEffects
  <2>4. /\ user' \in User /\ user'.password = call[r].secret
        /\ user # None => /\ user'.status = user.status
                          /\ user'.failedLoginAttempts = user.failedLoginAttempts
        /\ user = None => user'.failedLoginAttempts = 0
    <3>1. CASE call[r].found
      <4>1. user # None
        BY <1>0, <1>1, <3>1 DEF Carries, InFlight
      <4>2. user \in User /\ user' = [user EXCEPT !.password = call[r].secret]
        BY <1>0, <2>1, <3>1, <4>1 DEF TypeOK
      <4> QED BY <1>2, <4>1, <4>2 DEF User
    <3>2. CASE ~call[r].found
      <4>1. 0 \in 0..LoginMaxAttempts - 1
        BY LimitAssumption
      <4>2. user = None /\ user' = NewUser(call[r].secret)
        BY <2>1, <3>2
      <4> QED BY <1>2, <4>1, <4>2 DEF User, NewUser
    <3> QED BY <3>1, <3>2
  <2>5. user' # None
    BY <2>4, NoneAssumption
  <2>6. TypeOK'
    BY <1>0, <1>1, <2>3, <2>4 DEF TypeOK, Calls, Disturb
  <2>7. RowsInv'
    BY <1>0, <1>1, <2>4, <2>5 DEF RowsInv
  <2>8. \A q \in Requests : Carries(q)'
    <3>1. Carries(r)'
      BY <1>2, <2>3, <2>5 DEF Carries
    <3> QED BY <1>1, <2>3, <2>4, <2>5, <3>1, OthersCarry
  <2>9. CountedInv'
    BY <1>1, <2>3, CountedAfter
  <2>10. AloneInv'
    <3>1. Current(r)'
      BY <2>3, <2>4 DEF Current
    <3>2. undisturbed' => streak' = IF user' = None THEN 0 ELSE user'.failedLoginAttempts
      BY <1>1, <2>4, <2>5 DEF Disturb, IInv, AloneInv
    <3> QED BY <2>3, <3>1, <3>2, AloneAfter
  <2> QED BY <2>6, <2>7, <2>8, <2>9, <2>10 DEF IInv
<1> QED BY <1>3, <1>4

\* The challenge belongs to the password its registration stored.
LEMMA InsertChallengeStep ==
    ASSUME IInv, NEW r \in Requests, InsertChallenge(r), Disturb(r)
    PROVE  IInv'
<1>0. TypeOK /\ Carries(r) /\ RowsInv
  BY DEF IInv
<1>1. /\ Goto(r, "insertChallenge", "registered", NoCall)
      /\ tokenExpires' = now + OtpTtl
      /\ UNCHANGED <<user, now, streak, issued>>
  BY DEF InsertChallenge
<1>2. "registered" \in Answers \ {"verified"}
  BY DEF Answers
<1>3. /\ pc[r] = "insertChallenge" /\ pc'[r] = "registered"
      /\ pc' \in [Requests -> {"idle"} \cup InFlight \cup Answers]
      /\ call' \in [Requests -> Calls(Len(challenges))]
      /\ \A q \in Requests \ {r} : pc'[q] = pc[q] /\ call'[q] = call[q]
  BY <1>0, <1>1, <1>2, GotoEffects
<1>4. user # None /\ call[r].secret \in Passwords
  BY <1>0, <1>3 DEF Carries
<1>5. PICK c \in Challenge :
         /\ challenges' = Append(challenges, c)
         /\ c.attempts = 0 /\ ~c.consumed /\ c.password = call[r].secret
  <2>1. PICK code \in Codes :
           challenges' = Append(challenges,
               [code |-> code, attempts |-> 0, expiresAt |-> now + OtpTtl,
                consumed |-> FALSE, password |-> call[r].secret])
    BY DEF InsertChallenge
  <2>2. now + OtpTtl \in Nat
    BY <1>0, LimitAssumption DEF TypeOK
  <2> DEFINE c == [code |-> code, attempts |-> 0, expiresAt |-> now + OtpTtl,
                   consumed |-> FALSE, password |-> call[r].secret]
  <2>3. c \in Challenge /\ c.attempts = 0 /\ ~c.consumed /\ c.password = call[r].secret
    BY <1>4, <2>2 DEF Challenge
  <2>4. challenges' = Append(challenges, c)
    BY <2>1
  <2> QED BY <2>3, <2>4
<1>6. /\ challenges' \in Seq(Challenge) /\ challenges' # <<>>
      /\ Len(challenges) \in Nat /\ Len(challenges') = Len(challenges) + 1
      /\ DOMAIN challenges = 1..Len(challenges) /\ DOMAIN challenges' = 1..Len(challenges')
      /\ \A i \in DOMAIN challenges : challenges'[i] = challenges[i]
      /\ challenges'[Len(challenges')] = c
  BY <1>0, <1>5 DEF TypeOK
<1>7. TypeOK'
  <2>1. call' \in [Requests -> Calls(Len(challenges'))]
    BY <1>3, <1>6 DEF Calls
  <2>2. tokenExpires' \in Nat
    BY <1>0, <1>1, LimitAssumption DEF TypeOK
  <2> QED BY <1>0, <1>1, <1>3, <1>6, <2>1, <2>2 DEF TypeOK, Calls, Disturb
<1>8. RowsInv'
  BY <1>0, <1>1, <1>4, <1>5, <1>6 DEF RowsInv
<1>9. \A q \in Requests : Carries(q)'
  <2>1. Carries(r)'
    BY <1>2, <1>3, EndedCarries
  <2> QED BY <1>1, <1>3, <1>6, <2>1, OthersCarry
<1>10. CountedInv'
  <2>1. \A i \in DOMAIN challenges' :
           IF i \in DOMAIN challenges THEN challenges'[i].attempts = challenges[i].attempts
                                      ELSE challenges'[i].attempts = 0
    BY <1>5, <1>6
  <2> QED BY <1>2, <1>3, <2>1, CountedAfter, EndedCarries
<1>11. AloneInv'
  <2>1. Current(r)'
    BY <1>2, <1>3, EndedCarries
  <2>2. undisturbed' => /\ streak' = IF user' = None THEN 0 ELSE user'.failedLoginAttempts
                        /\ user.password = call[r].secret
    BY <1>1, <1>3 DEF Disturb, IInv, AloneInv, Current
  <2> QED BY <1>1, <1>3, <1>5, <1>6, <2>1, <2>2, AloneAfter
<1> QED BY <1>7, <1>8, <1>9, <1>10, <1>11 DEF IInv

\* What a statement that changes one challenge leaves of the challenges.
LEMMA OneChallenge ==
    ASSUME TypeOK, NEW i \in DOMAIN challenges, NEW c \in Challenge,
           challenges' = [challenges EXCEPT ![i] = c], c.password = challenges[i].password
    PROVE  /\ challenges' \in Seq(Challenge) /\ Len(challenges') = Len(challenges)
           /\ DOMAIN challenges' = DOMAIN challenges
           /\ challenges'[i] = c
           /\ \A j \in DOMAIN challenges \ {i} : challenges'[j] = challenges[j]
           /\ \A j \in DOMAIN challenges : challenges'[j].password = challenges[j].password
<1>1. challenges \in Seq(Challenge)
  BY DEF TypeOK
<1>2. /\ challenges' \in Seq(Challenge) /\ Len(challenges') = Len(challenges)
      /\ DOMAIN challenges' = DOMAIN challenges
      /\ challenges'[i] = c /\ \A j \in DOMAIN challenges \ {i} : challenges'[j] = challenges[j]
  BY <1>1
<1> QED BY <1>2

\* One attempt moves from the requests about to count it to the challenge.
LEMMA CountAttemptStep ==
    ASSUME IInv, NEW r \in Requests, CountAttempt(r), Disturb(r)
    PROVE  IInv'
<1> DEFINE i == call[r].challenge
           c == [challenges[i] EXCEPT !.attempts = @ + 1]
<1>0. TypeOK /\ Carries(r) /\ RowsInv
  BY DEF IInv
<1>1. /\ Goto(r, "countAttempt", "badRequest", NoCall)
      /\ challenges' = [challenges EXCEPT ![i] = c]
      /\ UNCHANGED <<user, tokenExpires, now, streak, issued>>
  BY DEF CountAttempt
<1>2. "badRequest" \in Answers \ {"verified"}
  BY DEF Answers
<1>3. /\ pc[r] = "countAttempt" /\ pc'[r] = "badRequest"
      /\ pc' \in [Requests -> {"idle"} \cup InFlight \cup Answers]
      /\ call' \in [Requests -> Calls(Len(challenges))]
      /\ \A q \in Requests \ {r} : pc'[q] = pc[q] /\ call'[q] = call[q]
  BY <1>0, <1>1, <1>2, GotoEffects
<1>4. i \in DOMAIN challenges /\ user # None
  BY <1>0, <1>3 DEF Carries
<1>5. /\ c \in Challenge /\ c.password = challenges[i].password
      /\ c.attempts = challenges[i].attempts + 1 /\ c.consumed = challenges[i].consumed
      /\ challenges[i].attempts \in Nat
  <2>1. challenges[i] \in Challenge
    BY <1>0, <1>4, ChallengeAt
  <2> QED BY <2>1 DEF Challenge
<1> HIDE DEF c
<1>6. /\ challenges' \in Seq(Challenge) /\ Len(challenges') = Len(challenges)
      /\ DOMAIN challenges' = DOMAIN challenges
      /\ challenges'[i] = c /\ \A j \in DOMAIN challenges \ {i} : challenges'[j] = challenges[j]
      /\ \A j \in DOMAIN challenges : challenges'[j].password = challenges[j].password
  BY <1>0, <1>1, <1>4, <1>5, OneChallenge
<1>7. TypeOK'
  BY <1>0, <1>1, <1>3, <1>6 DEF TypeOK, Calls, Disturb
<1>8. RowsInv'
  BY <1>0, <1>1, <1>4, <1>5, <1>6 DEF RowsInv
<1>9. \A q \in Requests : Carries(q)'
  <2>1. Carries(r)'
    BY <1>2, <1>3, EndedCarries
  <2> QED BY <1>1, <1>3, <1>6, <2>1, OthersCarry
<1>10. CountedInv'
  <2> SUFFICES ASSUME NEW j \in DOMAIN challenges
               PROVE  challenges'[j].attempts + Cardinality(Trying(j)')
                         <= OtpMaxAttempts + Cardinality(Requests) - 1
    BY <1>6 DEF CountedInv
  <2>1. /\ challenges[j].attempts \in Nat
        /\ challenges[j].attempts + Cardinality(Trying(j))
              <= OtpMaxAttempts + Cardinality(Requests) - 1
    BY <1>0, ChallengeAt DEF IInv, CountedInv
  <2>2. CASE j = i
    <3>1. r \in Trying(j) /\ Trying(j)' = Trying(j) \ {r}
      BY <1>3, <2>2 DEF Trying
    <3>2. Cardinality(Trying(j)') = Cardinality(Trying(j)) - 1
      BY <3>1, TryingFinite, FS_RemoveElement
    <3>3. challenges'[j].attempts = challenges[j].attempts + 1
      BY <1>5, <1>6, <2>2
    <3> QED BY <2>1, <3>2, <3>3, TryingFinite, LimitAssumption
  <2>3. CASE j # i
    <3>1. Trying(j)' \subseteq Trying(j)
      BY <1>3 DEF Trying
    <3>2. Cardinality(Trying(j)') <= Cardinality(Trying(j))
      BY <3>1, TryingFinite, FS_Subset
    <3>3. challenges'[j] = challenges[j]
      BY <1>6, <2>3
    <3> QED BY <2>1, <3>2, <3>3, TryingFinite, LimitAssumption
  <2> QED BY <2>2, <2>3
<1>11. AloneInv'
  <2>1. Current(r)'
    BY <1>2, <1>3, EndedCarries
  <2>2. undisturbed' =>
           /\ streak' = IF user' = None THEN 0 ELSE user'.failedLoginAttempts
           /\ challenges[Len(challenges)].password = user.password
    <3> SUFFICES ASSUME undisturbed'
                 PROVE  /\ streak' = IF user' = None THEN 0 ELSE user'.failedLoginAttempts
                        /\ challenges[Len(challenges)].password = user.password
      OBVIOUS
    <3>1. undisturbed /\ \A q \in Requests : pc[q] # "insertChallenge"
      BY <1>3 DEF Disturb, InFlight
    <3>2. challenges # <<>>
      BY <1>4
    <3> QED BY <1>1, <3>1, <3>2 DEF IInv, AloneInv
  <2>3. Len(challenges) \in DOMAIN challenges
    BY <1>0, <1>4 DEF TypeOK
  <2> QED BY <1>1, <1>3, <1>6, <2>1, <2>2, <2>3, AloneAfter
<1> QED BY <1>7, <1>8, <1>9, <1>10, <1>11 DEF IInv

\* The challenge and the account change together.
LEMMA ActivateStep ==
    ASSUME IInv, NEW r \in Requests, Activate(r), Disturb(r)
    PROVE  IInv'
<1> DEFINE i == call[r].challenge
           c == [challenges[i] EXCEPT !.consumed = TRUE]
<1>0. TypeOK /\ Carries(r) /\ RowsInv
  BY DEF IInv
<1>1. /\ Goto(r, "activate", "verified", NoCall)
      /\ challenges' = [challenges EXCEPT ![i] = c]
      /\ user' = [user EXCEPT !.status = "active"]
      /\ UNCHANGED <<tokenExpires, now, streak, issued>>
  BY DEF Activate
<1>2. "verified" \in Answers
  BY DEF Answers
<1>3. /\ pc[r] = "activate" /\ pc'[r] = "verified"
      /\ pc' \in [Requests -> {"idle"} \cup InFlight \cup Answers]
      /\ call'[r] = NoCall
      /\ call' \in [Requests -> Calls(Len(challenges))]
      /\ \A q \in Requests \ {r} : pc'[q] = pc[q] /\ call'[q] = call[q]
  BY <1>0, <1>1, <1>2, GotoEffects
<1>4. i \in DOMAIN challenges /\ user # None /\ user \in User
  BY <1>0, <1>3 DEF Carries, TypeOK
<1>5. /\ c \in Challenge /\ c.password = challenges[i].password
      /\ c.attempts = challenges[i].attempts
  <2>1. challenges[i] \in Challenge
    BY <1>0, <1>4, ChallengeAt
  <2> QED BY <2>1 DEF Challenge
<1> HIDE DEF c
<1>6. /\ challenges' \in Seq(Challenge) /\ Len(challenges') = Len(challenges)
      /\ DOMAIN challenges' = DOMAIN challenges
      /\ challenges'[i] = c /\ \A j \in DOMAIN challenges \ {i} : challenges'[j] = challenges[j]
      /\ \A j \in DOMAIN challenges : challenges'[j].password = challenges[j].password
  BY <1>0, <1>1, <1>4, <1>5, OneChallenge
<1>7. /\ user' \in User /\ user'.status = "active" /\ user'.password = user.password
      /\ user'.failedLoginAttempts = user.failedLoginAttempts
  BY <1>1, <1>4 DEF User
<1>8. user' # None
  BY <1>7, NoneAssumption
<1>9. TypeOK'
  BY <1>0, <1>1, <1>3, <1>6, <1>7 DEF TypeOK, Calls, Disturb
<1>10. RowsInv'
  BY <1>7, <1>8 DEF RowsInv
<1>11. \A q \in Requests : Carries(q)'
  <2>1. Carries(r)'
    BY <1>3, <1>7, <1>8 DEF Carries, InFlight
  <2> QED BY <1>3, <1>6, <1>7, <1>8, <2>1, OthersCarry
<1>12. CountedInv'
  <2>1. \A j \in DOMAIN challenges : challenges'[j].attempts = challenges[j].attempts
    BY <1>5, <1>6
  <2> QED BY <1>3, <1>6, <2>1, CountedAfter
<1>13. AloneInv'
  <2>1. Current(r)'
    BY <1>3 DEF Current
  <2>2. undisturbed' =>
           /\ streak = user.failedLoginAttempts
           /\ challenges[Len(challenges)].password = user.password
    <3> SUFFICES ASSUME undisturbed'
                 PROVE  /\ streak = user.failedLoginAttempts
                        /\ challenges[Len(challenges)].password = user.password
      OBVIOUS
    <3>1. undisturbed /\ \A q \in Requests : pc[q] # "insertChallenge"
      BY <1>3 DEF Disturb, InFlight
    <3>2. challenges # <<>>
      BY <1>4
    <3> QED BY <1>4, <3>1, <3>2 DEF IInv, AloneInv
  <2>3. Len(challenges) \in DOMAIN challenges
    BY <1>0, <1>4 DEF TypeOK
  <2> QED BY <1>1, <1>3, <1>6, <1>7, <1>8, <2>1, <2>2, <2>3, AloneAfter
<1> QED BY <1>9, <1>10, <1>11, <1>12, <1>13 DEF IInv

\* What a login writes, a failure or a success.
LEMMA RecordStep ==
    ASSUME IInv, NEW r \in Requests, RecordFailure(r) \/ RecordSuccess(r), Disturb(r)
    PROVE  IInv'
<1>0. TypeOK /\ Carries(r) /\ RowsInv
  BY DEF IInv
<1>1. UNCHANGED <<challenges, tokenExpires, now, issued>>
  BY DEF RecordFailure, RecordSuccess
<1>2. PICK answer \in {"unauthorized", "loggedIn"} :
         Goto(r, pc[r], answer, NoCall) /\ pc[r] \in {"recordFailure", "recordSuccess"}
  BY DEF RecordFailure, RecordSuccess, Goto
<1>3. answer \in Answers \ {"verified"}
  BY <1>2 DEF Answers
<1>4. /\ pc'[r] = answer
      /\ pc' \in [Requests -> {"idle"} \cup InFlight \cup Answers]
      /\ call' \in [Requests -> Calls(Len(challenges))]
      /\ \A q \in Requests \ {r} : pc'[q] = pc[q] /\ call'[q] = call[q]
  BY <1>0, <1>2, <1>3, GotoEffects
<1>5. user # None /\ user \in User
  BY <1>0, <1>2 DEF Carries, TypeOK
<1>6. /\ user' \in User /\ user'.status = user.status /\ user'.password = user.password
      /\ streak' \in Nat
      /\ undisturbed' => streak' = user'.failedLoginAttempts
  <2>1. streak \in Nat /\ now \in Nat /\ call[r].failed \in Nat
    BY <1>0 DEF TypeOK
  <2>2. 0 \in 0..LoginMaxAttempts - 1
    BY LimitAssumption
  <2>3. CASE RecordSuccess(r)
    BY <1>5, <2>2, <2>3 DEF RecordSuccess, User
  <2>4. CASE RecordFailure(r)
    <3>1. undisturbed' => call[r].failed = user.failedLoginAttempts
                            /\ streak = user.failedLoginAttempts
      BY <1>5, <2>4 DEF Disturb, IInv, AloneInv, Current, RecordFailure, Goto
    <3>2. CASE LockingNow(call[r].failed)
      <4>1. /\ user' = [user EXCEPT !.failedLoginAttempts = 0, !.lockedUntil = now + LockoutTime]
            /\ streak' = 0
        BY <2>4, <3>2 DEF RecordFailure
      <4>2. now + LockoutTime \in Nat
        BY <2>1, LimitAssumption
      <4> QED BY <1>5, <2>2, <4>1, <4>2 DEF User
    <3>3. CASE ~LockingNow(call[r].failed)
      <4>1. /\ user' = [user EXCEPT !.failedLoginAttempts = call[r].failed + 1, !.lockedUntil = 0]
            /\ streak' = streak + 1
        BY <2>4, <3>3 DEF RecordFailure
      <4>2. call[r].failed + 1 \in 0..LoginMaxAttempts - 1
        BY <2>1, <3>3, LimitAssumption DEF LockingNow
      <4>3. /\ user' \in User /\ user'.status = user.status /\ user'.password = user.password
            /\ user'.failedLoginAttempts = call[r].failed + 1
        BY <1>5, <4>1, <4>2 DEF User
      <4> QED BY <2>1, <3>1, <4>1, <4>3
    <3> QED BY <3>2, <3>3
  <2> QED BY <2>3, <2>4
<1>7. user' # None
  BY <1>6, NoneAssumption
<1>8. TypeOK'
  BY <1>0, <1>1, <1>4, <1>6 DEF TypeOK, Calls, Disturb
<1>9. RowsInv'
  BY <1>0, <1>1, <1>5, <1>6, <1>7 DEF RowsInv
<1>10. \A q \in Requests : Carries(q)'
  <2>1. Carries(r)'
    BY <1>3, <1>4, EndedCarries
  <2> QED BY <1>1, <1>4, <1>6, <1>7, <2>1, OthersCarry
<1>11. CountedInv'
  BY <1>1, <1>3, <1>4, CountedAfter, EndedCarries
<1>12. AloneInv'
  <2>1. Current(r)'
    BY <1>3, <1>4, EndedCarries
  <2>2. undisturbed' /\ challenges # <<>> =>
           challenges[Len(challenges)].password = user.password
    <3>1. undisturbed' => undisturbed /\ \A q \in Requests : pc[q] # "insertChallenge"
      BY <1>2 DEF Disturb, InFlight
    <3> QED BY <3>1 DEF IInv, AloneInv
  <2> QED BY <1>1, <1>4, <1>6, <1>7, <2>1, <2>2, AloneAfter
<1> QED BY <1>8, <1>9, <1>10, <1>11, <1>12 DEF IInv

\* Every step keeps the strengthening.
LEMMA NextHolds == IInv /\ [Next]_vars => IInv'
<1> SUFFICES ASSUME IInv, [Next]_vars
             PROVE  IInv'
  OBVIOUS
<1>1. ASSUME NEW r \in Requests, Step(r), Disturb(r)
      PROVE  IInv'
  BY <1>1, ReceiveStep, FindUserStep, SaveUserStep, InsertChallengeStep, FindAccountStep,
     FindChallengeStep, CountAttemptStep, ActivateStep, FindLoginStep, RecordStep, FaultStep
  DEF Step
<1>2. CASE Tick /\ UNCHANGED undisturbed
  <2>1. UNCHANGED <<user, challenges, tokenExpires, pc, call, streak, issued, undisturbed>>
    BY <1>2 DEF Tick, rows
  <2>2. now \in 1..MaxTime /\ now' = now + 1 /\ now' \in 1..MaxTime
    BY <1>2, LimitAssumption DEF Tick, IInv, TypeOK
  <2>3. TypeOK' /\ RowsInv'
    BY <2>1, <2>2 DEF IInv, TypeOK, RowsInv
  <2>4. \A r \in Requests : Carries(r)'
    BY <2>1 DEF IInv, Carries
  <2>5. CountedInv'
    <3>1. \A i \in DOMAIN challenges : Trying(i)' = Trying(i)
      BY <2>1 DEF Trying
    <3> QED BY <2>1, <3>1 DEF IInv, CountedInv
  <2>6. AloneInv'
    <3>1. user # None /\ ~Locked => ~Locked'
      <4>1. user # None => user.lockedUntil \in Nat
        BY DEF IInv, TypeOK, User
      <4> QED BY <2>1, <2>2, <4>1 DEF Locked
    <3>2. ASSUME NEW r \in Requests, undisturbed
          PROVE  Current(r)'
      <4>1. Current(r)
        BY <3>2 DEF IInv, AloneInv
      <4>2. pc[r] \in {"recordFailure", "recordSuccess"} => user # None
        BY DEF IInv, Carries
      <4> QED BY <2>1, <3>1, <4>1, <4>2 DEF Current
    <3> QED BY <2>1, <3>2 DEF IInv, AloneInv
  <2> QED BY <2>3, <2>4, <2>5, <2>6 DEF IInv
<1>3. CASE UNCHANGED vars
  <2>1. UNCHANGED <<user, challenges, tokenExpires, now, pc, call, streak, issued, undisturbed>>
    BY <1>3 DEF vars, rows
  <2>2. \A i \in DOMAIN challenges : Trying(i)' = Trying(i)
    BY <2>1 DEF Trying
  <2>3. TypeOK' /\ RowsInv' /\ CountedInv'
    BY <2>1, <2>2 DEF IInv, TypeOK, RowsInv, CountedInv
  <2>4. \A r \in Requests : Carries(r)' /\ (undisturbed => Current(r)')
    BY <2>1 DEF IInv, Carries, AloneInv, Current, Locked
  <2>5. AloneInv'
    BY <2>1, <2>4 DEF IInv, AloneInv
  <2> QED BY <2>3, <2>4, <2>5 DEF IInv
<1> QED BY <1>1, <1>2, <1>3 DEF Next, Drained

-----------------------------------------------------------------------------
\* What a request read stays good enough for what it writes, in any
\* interleaving, with failures and with time passing between statements.
THEOREM AuthenticationInvariance == Spec => []IInv
BY InitHolds, NextHolds, PTL DEF Spec

\* Rows and requests keep their types; the count of failures stays below the limit.
THEOREM AuthenticationTypes == Spec => []TypeOK
<1>1. IInv => TypeOK
  BY DEF IInv
<1> QED BY <1>1, AuthenticationInvariance, PTL

\* verifyOtp answers "verified" for active accounts only.
THEOREM VerifiedActive == Spec => []VerifiedIsActive
<1>1. IInv => VerifiedIsActive
  BY DEF IInv, Carries, VerifiedIsActive
<1> QED BY <1>1, AuthenticationInvariance, PTL

\* Codes tried at the same time overshoot OTP_MAX_ATTEMPTS by less than the
\* number of requests, whenever they are counted.
THEOREM AttemptsLimited == Spec => []AttemptsBounded
<1>1. IInv => AttemptsBounded
  <2> SUFFICES ASSUME IInv, NEW i \in DOMAIN challenges
               PROVE  challenges[i].attempts <= OtpMaxAttempts + Cardinality(Requests) - 1
    BY DEF AttemptsBounded
  <2>1. challenges[i].attempts \in Nat
    BY ChallengeAt DEF IInv
  <2> QED BY <2>1, TryingFinite, LimitAssumption DEF IInv, CountedInv
<1> QED BY <1>1, AuthenticationInvariance, PTL

\* Failed logins one after the other lock the account no later than the
\* LOGIN_MAX_ATTEMPTS-th.
THEOREM LocksOnTime == Spec => []LockoutOnTime
<1>1. IInv => LockoutOnTime
  <2> SUFFICES ASSUME IInv, undisturbed
               PROVE  streak < LoginMaxAttempts
    BY DEF LockoutOnTime
  <2>1. streak = IF user = None THEN 0 ELSE user.failedLoginAttempts
    BY DEF IInv, AloneInv
  <2>2. user # None => user.failedLoginAttempts \in 0..LoginMaxAttempts - 1
    BY DEF IInv, TypeOK, User
  <2> QED BY <2>1, <2>2, LimitAssumption
<1> QED BY <1>1, AuthenticationInvariance, PTL

\* No statement of any request takes an account back from active.
THEOREM StaysActive == Spec => ActiveStays
<1>1. IInv /\ [Next]_vars => [user # None /\ user.status = "active" => user'.status = "active"]_vars
  <2> SUFFICES ASSUME IInv, Next, user # None, user.status = "active"
               PROVE  user'.status = "active"
    OBVIOUS
  <2>1. user \in User
    BY DEF IInv, TypeOK
  <2>2. CASE user' = user
    BY <2>2
  <2>3. ASSUME NEW r \in Requests, Step(r), user' # user
        PROVE  user'.status = "active"
    <3>1. SaveUser(r) \/ Activate(r) \/ RecordFailure(r) \/ RecordSuccess(r)
      BY <2>3 DEF Step, ReceiveRegister, FindUser, InsertChallenge, ReceiveVerifyOtp, FindAccount,
         FindChallenge, CountAttempt, ReceiveLogin, FindLogin, Fault, Arrive, rows
    <3>2. CASE SaveUser(r)
      BY <2>1, <2>3, <3>2 DEF SaveUser, User
    <3>3. CASE Activate(r)
      BY <2>1, <3>3 DEF Activate, User
    <3>4. CASE RecordFailure(r)
      BY <2>1, <3>4 DEF RecordFailure, User
    <3>5. CASE RecordSuccess(r)
      BY <2>1, <3>5 DEF RecordSuccess, User
    <3> QED BY <3>1, <3>2, <3>3, <3>4, <3>5
  <2>4. CASE Tick \/ Drained
    BY <2>4 DEF Tick, Drained, vars, rows
  <2> QED BY <2>2, <2>3, <2>4 DEF Next
<1> QED BY <1>1, AuthenticationInvariance, PTL DEF Spec, ActiveStays

\* A step of a request that nothing disturbed found every other one at rest.
LEMMA AloneBefore ==
    ASSUME IInv, NEW r \in Requests, Disturb(r), undisturbed'
    PROVE  undisturbed /\ Current(r) /\ \A q \in Requests \ {r} : pc[q] # "insertChallenge"
BY DEF Disturb, IInv, AloneInv, InFlight

\* The code that activates the account was sent for the password the account
\* then has.
THEOREM ActivationPairs == Spec => ActivationPairsPassword
<1> DEFINE Paired == undisturbed' =>
             \A i \in DOMAIN challenges :
                ~challenges[i].consumed /\ challenges'[i].consumed
                   => user.password = challenges[i].password
<1>1. IInv /\ [Next]_vars => [Paired]_vars
  <2> SUFFICES ASSUME IInv, Next, undisturbed', NEW i \in DOMAIN challenges,
                      ~challenges[i].consumed, challenges'[i].consumed
               PROVE  user.password = challenges[i].password
    OBVIOUS
  <2>0. TypeOK /\ i \in 1..Len(challenges) /\ challenges[i] \in Challenge
    BY ChallengeAt DEF IInv
  <2>1. ~(Tick \/ Drained)
    BY DEF Tick, Drained, vars, rows
  <2>2. PICK r \in Requests : Step(r) /\ Disturb(r)
    BY <2>1 DEF Next
  <2>3. Activate(r)
    <3>1. InsertChallenge(r) \/ CountAttempt(r) \/ Activate(r)
      BY <2>2 DEF Step, ReceiveRegister, FindUser, SaveUser, ReceiveVerifyOtp, FindAccount,
         FindChallenge, ReceiveLogin, FindLogin, RecordFailure, RecordSuccess, Fault, Arrive, rows
    <3>2. ~InsertChallenge(r)
      <4> SUFFICES ASSUME InsertChallenge(r)
                   PROVE  FALSE
        OBVIOUS
      <4>1. PICK c : challenges' = Append(challenges, c)
        BY DEF InsertChallenge
      <4>2. challenges'[i] = challenges[i]
        BY <2>0, <4>1 DEF TypeOK
      <4> QED BY <4>2
    <3>3. ~CountAttempt(r)
      BY <2>0 DEF CountAttempt, TypeOK, Challenge
    <3> QED BY <3>1, <3>2, <3>3
  <2>4. i = call[r].challenge
    BY <2>0, <2>3 DEF Activate, TypeOK
  <2>5. i = Len(challenges)
    BY <2>2, <2>3, <2>4, AloneBefore DEF Activate, Goto, Current
  <2>6. \A q \in Requests : pc[q] # "insertChallenge"
    BY <2>2, <2>3, AloneBefore DEF Activate, Goto
  <2>7. undisturbed /\ challenges # <<>>
    BY <2>0, <2>2, AloneBefore
  <2> QED BY <2>5, <2>6, <2>7 DEF IInv, AloneInv
<1> QED BY <1>1, AuthenticationInvariance, PTL DEF Spec, ActivationPairsPassword

\* No login that comes alone lifts or shortens a lock.
THEOREM LockHolds == Spec => LockoutHoldsAlone
<1> DEFINE Holds == undisturbed' /\ user # None /\ Locked => user'.lockedUntil >= user.lockedUntil
<1>1. IInv /\ [Next]_vars => [Holds]_vars
  <2> SUFFICES ASSUME IInv, Next, undisturbed', user # None, Locked
               PROVE  user'.lockedUntil >= user.lockedUntil
    OBVIOUS
  <2>1. user \in User /\ user.lockedUntil \in Nat
    BY DEF IInv, TypeOK, User
  <2>2. CASE Tick \/ Drained
    <3>1. user' = user
      BY <2>2 DEF Tick, Drained, vars, rows
    <3> QED BY <2>1, <3>1
  <2>3. ASSUME NEW r \in Requests, Step(r), Disturb(r)
        PROVE  user'.lockedUntil >= user.lockedUntil
    <3>1. ~RecordFailure(r) /\ ~RecordSuccess(r)
      BY <2>3, AloneBefore DEF RecordFailure, RecordSuccess, Goto, Current
    <3>2. CASE SaveUser(r)
      BY <2>1, <3>2 DEF SaveUser, User
    <3>3. CASE Activate(r)
      BY <2>1, <3>3 DEF Activate, User
    <3>4. CASE ~SaveUser(r) /\ ~Activate(r)
      BY <2>1, <2>3, <3>1, <3>4 DEF Step, ReceiveRegister, FindUser, InsertChallenge,
         ReceiveVerifyOtp, FindAccount, FindChallenge, CountAttempt, ReceiveLogin, FindLogin,
         Fault, Arrive, rows
    <3> QED BY <3>2, <3>3, <3>4
  <2> QED BY <2>2, <2>3 DEF Next
<1> QED BY <1>1, AuthenticationInvariance, PTL DEF Spec, LockoutHoldsAlone
=============================================================================

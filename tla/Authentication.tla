--------------------------- MODULE Authentication ---------------------------
(***************************************************************************)
(* AuthService (register, verifyOtp, login) serving concurrent requests    *)
(* about one email address; accounts of different addresses never meet.    *)
(*                                                                         *)
(* One action is one awaited statement together with the code up to the    *)
(* next one.  Hashing is awaited too, but reads no shared state: a code or *)
(* a password is compared with the hash that was read.  Time is abstract   *)
(* and may pass between any two statements.                                *)
(***************************************************************************)
EXTENDS Naturals, Sequences, FiniteSets

CONSTANTS
    Requests,           \* concurrent HTTP requests; an identity is reused
    Passwords, Codes,
    OtpTtl,             \* OTP_TTL_SECONDS, also the registration token's life
    OtpMaxAttempts,
    LoginMaxAttempts,
    LockoutTime,        \* LOGIN_LOCKOUT_MINUTES
    Operations,         \* subset of {"register", "verifyOtp", "login"} callers use
    Faults,             \* TRUE: the process or the database may fail
    Found,              \* TRUE: start with an active account already there
    MaxTime, MaxRequests, \* bounds on the clock and on the requests served
    None

ASSUME LimitAssumption ==
    /\ OtpTtl \in Nat \ {0} /\ OtpMaxAttempts \in Nat \ {0}
    /\ LoginMaxAttempts \in Nat \ {0} /\ LockoutTime \in Nat \ {0}
    /\ MaxTime \in Nat \ {0} /\ MaxRequests \in Nat
    /\ IsFiniteSet(Requests) /\ Requests # {}
    /\ None \notin Passwords \cup Codes

\* Rows of User; lockedUntil 0 is null: the clock starts at 1.
User == [status : {"pending", "active"}, password : Passwords,
         failedLoginAttempts : 0..LoginMaxAttempts - 1, lockedUntil : Nat]

\* No row is null.
ASSUME NoneAssumption == None \notin User

VARIABLES
    user,           \* the row of the address, or None
    challenges,     \* its OTP challenges, in the order of creation
    tokenExpires,   \* when the latest registration token expires
    now,
    pc,             \* per request, the statement it awaits or its answer
    call,           \* per request, its arguments and what it read
    streak,         \* auxiliary: failures recorded since a success or a lock
    issued,         \* requests received so far, bounded by MaxRequests
    undisturbed     \* auxiliary: no two requests overlapped and none failed

rows == <<user, challenges, tokenExpires>>
vars == <<rows, now, pc, call, streak, issued, undisturbed>>

InFlight == {"findUser", "saveUser", "insertChallenge",
             "findAccount", "findChallenge", "countAttempt", "activate",
             "findLogin", "recordFailure", "recordSuccess"}

Answers == {"registered", "conflict", "verified", "badRequest", "loggedIn",
            "unauthorized", "uniqueViolation", "fault"}

NewUser(password) ==
    [status |-> "pending", password |-> password, failedLoginAttempts |-> 0,
     lockedUntil |-> 0]

NoCall == [secret |-> None, found |-> FALSE, challenge |-> 0, failed |-> 0]

Init ==
    /\ user \in IF Found THEN {[NewUser(p) EXCEPT !.status = "active"] : p \in Passwords}
                         ELSE {None}
    /\ challenges = <<>>
    /\ tokenExpires = 0
    /\ now = 1
    /\ pc = [r \in Requests |-> "idle"]
    /\ call = [r \in Requests |-> NoCall]
    /\ streak = 0
    /\ issued = 0
    /\ undisturbed = TRUE

\* An answered request keeps nothing; others keep what later statements use.
Goto(r, from, to, kept) ==
    /\ pc[r] = from
    /\ pc' = [pc EXCEPT ![r] = to]
    /\ call' = [call EXCEPT ![r] = IF to \in Answers THEN NoCall ELSE kept]

Arrive(r, op, secret, first) ==
    /\ op \in Operations
    /\ pc[r] \notin InFlight
    /\ issued < MaxRequests
    /\ issued' = issued + 1
    /\ pc' = [pc EXCEPT ![r] = first]
    /\ call' = [call EXCEPT ![r] = [NoCall EXCEPT !.secret = secret]]
    /\ UNCHANGED <<rows, now, streak>>

-----------------------------------------------------------------------------
(* register *)

ReceiveRegister(r) == \E p \in Passwords : Arrive(r, "register", p, "findUser")

FindUser(r) ==
    /\ Goto(r, "findUser",
            IF user # None /\ user.status = "active" THEN "conflict" ELSE "saveUser",
            [call[r] EXCEPT !.found = user # None])
    /\ UNCHANGED <<rows, now, streak, issued>>

\* Mutant: the update also puts the account back to pending.
SaveUserPending(r) ==
    LET password == call[r].secret IN
    /\ user' = IF call[r].found \/ user = None THEN NewUser(password) ELSE user
    /\ Goto(r, "saveUser", IF user = None \/ call[r].found THEN "insertChallenge"
                                                            ELSE "uniqueViolation",
            call[r])
    /\ UNCHANGED <<challenges, tokenExpires, now, streak, issued>>

\* Update of the row found before (by id, whatever its status is now), or
\* insert of a new one, which the unique email may refuse.
SaveUser(r) ==
    LET password == call[r].secret IN
    /\ \/ /\ call[r].found
          /\ user' = [user EXCEPT !.password = password]
          /\ Goto(r, "saveUser", "insertChallenge", call[r])
       \/ /\ ~call[r].found /\ user = None
          /\ user' = NewUser(password)
          /\ Goto(r, "saveUser", "insertChallenge", call[r])
       \/ /\ ~call[r].found /\ user # None
          /\ Goto(r, "saveUser", "uniqueViolation", NoCall)
          /\ UNCHANGED user
    /\ UNCHANGED <<challenges, tokenExpires, now, streak, issued>>

\* The challenge is stored, the code sent and the registration token signed.
\* "password" is auxiliary: the one this registration asked for.
InsertChallenge(r) ==
    /\ Goto(r, "insertChallenge", "registered", NoCall)
    /\ \E code \in Codes :
         challenges' = Append(challenges,
             [code |-> code, attempts |-> 0, expiresAt |-> now + OtpTtl,
              consumed |-> FALSE, password |-> call[r].secret])
    /\ tokenExpires' = now + OtpTtl
    /\ UNCHANGED <<user, now, streak, issued>>

-----------------------------------------------------------------------------
(* verifyOtp, behind RegistrationTokenGuard *)

ReceiveVerifyOtp(r) ==
    /\ now < tokenExpires
    /\ \E code \in Codes : Arrive(r, "verifyOtp", code, "findAccount")

FindAccount(r) ==
    /\ Goto(r, "findAccount", IF user.status = "active" THEN "verified" ELSE "findChallenge",
            call[r])
    /\ UNCHANGED <<rows, now, streak, issued>>

Unconsumed == {i \in DOMAIN challenges : ~challenges[i].consumed}

\* Mutant: the order of creation is reversed.
OldestChallenge == CHOOSE i \in Unconsumed : \A j \in Unconsumed : i <= j

LatestChallenge == CHOOSE i \in Unconsumed : \A j \in Unconsumed : j <= i

\* Mutant: off by one at the limit.
MayTryOnceMore(challenge) == challenge.expiresAt >= now /\ challenge.attempts <= OtpMaxAttempts

MayTry(challenge) == challenge.expiresAt >= now /\ challenge.attempts < OtpMaxAttempts

FindChallenge(r) ==
    /\ IF Unconsumed = {} \/ ~MayTry(challenges[LatestChallenge])
         THEN Goto(r, "findChallenge", "badRequest", NoCall)
         ELSE Goto(r, "findChallenge",
                   IF call[r].secret = challenges[LatestChallenge].code
                     THEN "activate" ELSE "countAttempt",
                   [NoCall EXCEPT !.challenge = LatestChallenge])
    /\ UNCHANGED <<rows, now, streak, issued>>

CountAttempt(r) ==
    /\ Goto(r, "countAttempt", "badRequest", NoCall)
    /\ challenges' = [challenges EXCEPT ![call[r].challenge].attempts = @ + 1]
    /\ UNCHANGED <<user, tokenExpires, now, streak, issued>>

\* Mutant: the answer does not wait for the transaction's second statement.
ActivateHalf(r) ==
    /\ Goto(r, "activate", "verified", NoCall)
    /\ challenges' = [challenges EXCEPT ![call[r].challenge].consumed = TRUE]
    /\ UNCHANGED <<user, tokenExpires, now, streak, issued>>

\* One transaction: the challenge is consumed and the account is active.
Activate(r) ==
    /\ Goto(r, "activate", "verified", NoCall)
    /\ challenges' = [challenges EXCEPT ![call[r].challenge].consumed = TRUE]
    /\ user' = [user EXCEPT !.status = "active"]
    /\ UNCHANGED <<tokenExpires, now, streak, issued>>

-----------------------------------------------------------------------------
(* login *)

ReceiveLogin(r) == \E p \in Passwords : Arrive(r, "login", p, "findLogin")

Locked == user.lockedUntil > now

\* Mutant: a locked account is not refused.
FindLoginUnlocked(r) ==
    /\ Goto(r, "findLogin",
            IF user = None \/ user.status # "active" THEN "unauthorized"
              ELSE IF user.password = call[r].secret THEN "recordSuccess" ELSE "recordFailure",
            [NoCall EXCEPT !.failed = IF user = None THEN 0 ELSE user.failedLoginAttempts])
    /\ UNCHANGED <<rows, now, streak, issued>>

\* The password is compared with the hash read here, and the count of
\* failures the update will write is based on the count read here.
FindLogin(r) ==
    /\ Goto(r, "findLogin",
            IF user = None \/ Locked \/ user.status # "active" THEN "unauthorized"
              ELSE IF user.password = call[r].secret THEN "recordSuccess" ELSE "recordFailure",
            [NoCall EXCEPT !.failed = IF user = None THEN 0 ELSE user.failedLoginAttempts])
    /\ UNCHANGED <<rows, now, streak, issued>>

\* Mutant: locks one failure late.
LockingNowLate(failed) == failed + 1 > LoginMaxAttempts

LockingNow(failed) == failed + 1 >= LoginMaxAttempts

RecordFailure(r) ==
    LET locking == LockingNow(call[r].failed) IN
    /\ Goto(r, "recordFailure", "unauthorized", NoCall)
    /\ user' = [user EXCEPT
           !.failedLoginAttempts = IF locking THEN 0 ELSE call[r].failed + 1,
           !.lockedUntil = IF locking THEN now + LockoutTime ELSE 0]
    /\ streak' = IF locking THEN 0 ELSE streak + 1
    /\ UNCHANGED <<challenges, tokenExpires, now, issued>>

RecordSuccess(r) ==
    /\ Goto(r, "recordSuccess", "loggedIn", NoCall)
    /\ user' = [user EXCEPT !.failedLoginAttempts = 0, !.lockedUntil = 0]
    /\ streak' = 0
    /\ UNCHANGED <<challenges, tokenExpires, now, issued>>

-----------------------------------------------------------------------------
Fault(r) ==
    /\ Faults
    /\ pc[r] \in InFlight
    /\ Goto(r, pc[r], "fault", NoCall)
    /\ UNCHANGED <<rows, now, streak, issued>>

Tick ==
    /\ now < MaxTime
    /\ now' = now + 1
    /\ UNCHANGED <<rows, pc, call, streak, issued>>

\* The bounds on requests and time are reached and all are answered.
Drained ==
    /\ \A r \in Requests : pc[r] \notin InFlight
    /\ issued = MaxRequests
    /\ now = MaxTime
    /\ UNCHANGED vars

Step(r) ==
    \/ ReceiveRegister(r) \/ FindUser(r) \/ SaveUser(r) \/ InsertChallenge(r)
    \/ ReceiveVerifyOtp(r) \/ FindAccount(r) \/ FindChallenge(r)
    \/ CountAttempt(r) \/ Activate(r)
    \/ ReceiveLogin(r) \/ FindLogin(r) \/ RecordFailure(r) \/ RecordSuccess(r)
    \/ Fault(r)

Disturb(r) ==
    undisturbed' = (/\ undisturbed
                    /\ pc'[r] # "fault"
                    /\ \A q \in Requests \ {r} : pc[q] \notin InFlight)

Next ==
    \/ \E r \in Requests : Step(r) /\ Disturb(r)
    \/ Tick /\ UNCHANGED undisturbed
    \/ Drained

Spec == Init /\ [][Next]_vars

-----------------------------------------------------------------------------
Challenge == [code : Codes, attempts : Nat, expiresAt : Nat, consumed : BOOLEAN,
              password : Passwords]

\* Types of rows and requests; the stored count of failures stays below the
\* limit, since reaching it locks and restarts the count.
TypeOK ==
    /\ user \in User \cup {None}
    /\ challenges \in Seq(Challenge)
    /\ pc \in [Requests -> {"idle"} \cup InFlight \cup Answers]
    /\ call \in [Requests -> [secret : Passwords \cup Codes \cup {None}, found : BOOLEAN,
                              challenge : 0..Len(challenges), failed : Nat]]
    /\ tokenExpires \in Nat /\ now \in 1..MaxTime /\ streak \in Nat
    /\ issued \in 0..MaxRequests
    /\ undisturbed \in BOOLEAN

\* An account once active stays active: a register that read it as pending
\* writes after the activation and must not undo it.
ActiveStays ==
    [][user # None /\ user.status = "active" => user'.status = "active"]_vars

\* "verified: true" is only answered for an active account.
VerifiedIsActive == \A r \in Requests : pc[r] = "verified" => user.status = "active"

\* The check of attempts and the count of a wrong code are two statements:
\* the limit is overshot by at most the requests in flight beside the last
\* one admitted.
AttemptsBounded ==
    \A i \in DOMAIN challenges :
        challenges[i].attempts <= OtpMaxAttempts + Cardinality(Requests) - 1

\* The account is activated with the password whose registration sent the
\* entered code, not with that of another registration of the same address,
\* unless registrations overlapped or one failed halfway.
ActivationPairsPassword ==
    [][undisturbed' =>
          \A i \in DOMAIN challenges :
             ~challenges[i].consumed /\ challenges'[i].consumed
                => user.password = challenges[i].password]_vars

\* API_CONTRACT.md:12: a lock after LOGIN_MAX_ATTEMPTS failures in a row,
\* when they come one after the other.
LockoutOnTime == undisturbed => streak < LoginMaxAttempts

\* API_CONTRACT.md:12: the lock lasts LOGIN_LOCKOUT_MINUTES.
LockoutHolds == [][user # None /\ Locked => user'.lockedUntil >= user.lockedUntil]_vars

\* The same, when logins come one after the other.
LockoutHoldsAlone ==
    [][undisturbed' /\ user # None /\ Locked => user'.lockedUntil >= user.lockedUntil]_vars
=============================================================================

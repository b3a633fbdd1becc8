------------------------------ MODULE PhoneAuth ------------------------------
(***************************************************************************)
(* Phone verification codes, the accounts and password resets they unlock, *)
(* and the refresh-token sessions of those accounts.                       *)
(*                                                                         *)
(* Every request is a process that is suspended at each await: what it     *)
(* read before one may be stale after it, and Abandon ends it anywhere (a  *)
(* crash, a lost connection, a failed cleanup).  A request the code        *)
(* refuses changes nothing and has no action.  An account is named by its  *)
(* phone, which is unique; its password by how often it was set.  The      *)
(* Kakao flows and account deletion are not part of this module.           *)
(***************************************************************************)
EXTENDS Integers, Sequences, FiniteSets

CONSTANTS
    Phones, Ips, Devices,
    Requests,       \* concurrent requests
    Purposes,       \* purposes codes are requested for
    Cooldown,       \* instants between two codes of a phone
    CodeTtl,        \* life of a code once it is sent
    Hour,           \* the quota window
    PhoneLimit, IpLimit, MaxAttempts,
    TokenTtl,       \* life of a phoneVerificationToken
    SessionTtl,     \* life of a refresh token
    None,           \* no session, no token
    MaxCodes,       \* bound: rows of phoneVerification
    MaxSessions,    \* bound: refresh tokens issued
    MaxTime         \* bound: the last instant

AllPurposes == {"signup", "login", "password_reset"}
Codes == 1 .. MaxCodes
Times == 0 .. MaxTime

ASSUME PhoneAuthConstants ==
    /\ Purposes \subseteq AllPurposes
    /\ {Cooldown, CodeTtl, Hour, PhoneLimit, IpLimit, MaxAttempts} \subseteq Nat \ {0}
    /\ {TokenTtl, SessionTtl} \subseteq Nat \ {0}
    /\ {MaxCodes, MaxSessions, MaxTime} \subseteq Nat

VARIABLES
    now,             \* clock_timestamp(), and the servers' clocks
    verifications,   \* phoneVerification, a row per code
    phoneTokens,     \* phoneVerificationToken, at most one per verified code
    password,        \* users: 0 without account, else how often the password was set
    sessions,        \* refreshToken, keyed by account and device
    issued,          \* history: the refresh tokens handed out, in order
    request,         \* requests in flight
    accepted         \* history: how often a code was accepted

vars == <<now, verifications, phoneTokens, password, sessions, issued, request, accepted>>

Verification ==
    [phone : Phones, ip : Ips, purpose : AllPurposes, createdAt : Times,
     expiresAt : Nat, codeHash : {"pending", "hashed", "deleted"},
     attemptCount : Nat, verified : BOOLEAN]
\* password is history: how often it had been set when a login saved the
\* session; the refreshes of the session pass it on.
Session == [token : Nat, exp : Nat, password : Nat]
PhoneToken == [used : BOOLEAN, expiresAt : Nat]
RefreshToken == [user : Phones, device : Devices, exp : Nat, exchanged : Nat]
Idle == [step |-> "idle"]
RequestType ==
    {Idle}
    \cup [step : {"reserving"}, phone : Phones, ip : Ips, purpose : AllPurposes, at : Times]
    \cup [step : {"sending", "activating", "deleting", "resetting", "minting"}, id : Codes]
    \cup [step : {"claiming"}, id : Codes, reset : BOOLEAN, device : Devices]
    \cup [step : {"marking", "looking"}, id : Codes, device : Devices]
    \cup [step : {"issuing"}, user : Phones, device : Devices]
    \cup [step : {"rotating", "leaving"}, user : Phones, device : Devices, saved : Session]

Init ==
    /\ now = 0
    /\ verifications = <<>>
    /\ phoneTokens = [id \in Codes |-> None]
    /\ password \in [Phones -> {0, 1}]
    /\ sessions = [s \in Phones \X Devices |-> None]
    /\ issued = <<>>
    /\ request = [r \in Requests |-> Idle]
    /\ accepted = [id \in Codes |-> 0]

Step(r, next) == request' = [request EXCEPT ![r] = next]
End(r) == Step(r, Idle)
-----------------------------------------------------------------------------
(* Requesting a code: reserve, send, activate, or else delete.             *)

Existing == {id \in DOMAIN verifications : verifications[id].codeHash # "deleted"}
CodesOf(phone) == {id \in Existing : verifications[id].phone = phone}

Newer(id, other) ==
    \/ verifications[id].createdAt > verifications[other].createdAt
    \/ verifications[id].createdAt = verifications[other].createdAt /\ id > other
isLatestVerification(id) ==
    /\ id \in Existing
    /\ \A other \in CodesOf(verifications[id].phone) : ~ Newer(other, id)

\* The advisory locks a reservation holds from its checks to its commit.
Reserving == {r \in Requests : request[r].step = "reserving"}

\* Mutant: the phone is not locked.
IpLockOnly(phone, ip) == \A r \in Reserving : request[r].ip # ip

LocksFree(phone, ip) == \A r \in Reserving : request[r].phone # phone /\ request[r].ip # ip

Recent(id) == verifications[id].createdAt > now - Hour
Admitted(phone, ip) ==
    /\ \A id \in CodesOf(phone) : now - verifications[id].createdAt >= Cooldown
    /\ Cardinality({id \in CodesOf(phone) : Recent(id)}) < PhoneLimit
    /\ Cardinality({id \in Existing : verifications[id].ip = ip /\ Recent(id)}) < IpLimit

beginReservation(r, phone, ip, purpose) ==
    /\ request[r] = Idle
    /\ Len(verifications) < MaxCodes
    /\ LocksFree(phone, ip)
    /\ Admitted(phone, ip)
    /\ Step(r, [step |-> "reserving", phone |-> phone, ip |-> ip, purpose |-> purpose, at |-> now])
    /\ UNCHANGED <<now, verifications, phoneTokens, password, sessions, issued, accepted>>

commitReservation(r) ==
    /\ request[r].step = "reserving"
    /\ Len(verifications) < MaxCodes
    /\ verifications' = Append(verifications,
         [phone |-> request[r].phone, ip |-> request[r].ip, purpose |-> request[r].purpose,
          createdAt |-> request[r].at, expiresAt |-> request[r].at, codeHash |-> "pending",
          attemptCount |-> 0, verified |-> FALSE])
    /\ Step(r, [step |-> "sending", id |-> Len(verifications) + 1])
    /\ UNCHANGED <<now, phoneTokens, password, sessions, issued, accepted>>

sendCode(r) ==
    /\ request[r].step = "sending"
    /\ Step(r, [request[r] EXCEPT !.step = "activating"])
    /\ UNCHANGED <<now, verifications, phoneTokens, password, sessions, issued, accepted>>

\* The SMS provider, or the database, failed both times it was tried.
sendOrActivateFails(r) ==
    /\ request[r].step \in {"sending", "activating"}
    /\ Step(r, [request[r] EXCEPT !.step = "deleting"])
    /\ UNCHANGED <<now, verifications, phoneTokens, password, sessions, issued, accepted>>

CanActivate(id) == verifications[id].codeHash = "pending" /\ isLatestVerification(id)

\* The update may also commit and its answer be lost: `answered' is FALSE.
activateVerification(r, answered) ==
    /\ request[r].step = "activating"
    /\ LET id == request[r].id
       IN  \/ /\ CanActivate(id)
              /\ verifications' = [verifications EXCEPT ![id].codeHash = "hashed",
                                                        ![id].expiresAt = now + CodeTtl]
              /\ Step(r, IF answered THEN Idle ELSE [request[r] EXCEPT !.step = "deleting"])
           \/ /\ ~ CanActivate(id)
              /\ Step(r, [request[r] EXCEPT !.step = "deleting"])
              /\ UNCHANGED verifications
    /\ UNCHANGED <<now, phoneTokens, password, sessions, issued, accepted>>

\* A code that a token already refers to cannot be deleted.
deleteVerification(r) ==
    /\ request[r].step = "deleting"
    /\ phoneTokens[request[r].id] = None
    /\ verifications' = [verifications EXCEPT ![request[r].id].codeHash = "deleted"]
    /\ End(r)
    /\ UNCHANGED <<now, phoneTokens, password, sessions, issued, accepted>>
-----------------------------------------------------------------------------
(* Submitting a code: read the latest, claim an attempt, compare, then     *)
(* mark it verified (sign-up and login) or reset the password with it.     *)

PurposesOf(reset) == IF reset THEN {"password_reset"} ELSE {"signup", "login"}

getUsableVerification(r, phone, reset, device) ==
    /\ request[r] = Idle
    /\ \E id \in CodesOf(phone) :
         /\ isLatestVerification(id)
         /\ ~ verifications[id].verified
         /\ verifications[id].purpose \in PurposesOf(reset)
         /\ verifications[id].attemptCount < MaxAttempts
         /\ Step(r, [step |-> "claiming", id |-> id, reset |-> reset, device |-> device])
    /\ UNCHANGED <<now, verifications, phoneTokens, password, sessions, issued, accepted>>

Unexpired(id) == verifications[id].expiresAt > now

CanClaim(id) ==
    /\ ~ verifications[id].verified /\ Unexpired(id)
    /\ verifications[id].attemptCount < MaxAttempts
    /\ isLatestVerification(id)

\* right: whether bcrypt.compare accepts the submitted code.
claimVerificationAttempt(r, right) ==
    /\ request[r].step = "claiming"
    /\ LET id == request[r].id
       IN  \/ /\ CanClaim(id)
              /\ verifications' = [verifications EXCEPT ![id].attemptCount = @ + 1]
              /\ Step(r, IF ~ right THEN Idle
                         ELSE IF request[r].reset THEN [step |-> "resetting", id |-> id]
                         ELSE [step |-> "marking", id |-> id, device |-> request[r].device])
           \/ ~ CanClaim(id) /\ End(r) /\ UNCHANGED verifications
    /\ UNCHANGED <<now, phoneTokens, password, sessions, issued, accepted>>

CanMarkAgain(id) ==
    /\ Unexpired(id)
    /\ verifications[id].attemptCount > 0
    /\ isLatestVerification(id)
CanMarkOlder(id) ==
    /\ ~ verifications[id].verified /\ Unexpired(id)
    /\ verifications[id].attemptCount > 0
CanMark(id) ==
    /\ ~ verifications[id].verified /\ Unexpired(id)
    /\ verifications[id].attemptCount > 0
    /\ isLatestVerification(id)

Accept(id) ==
    /\ verifications' = [verifications EXCEPT ![id].verified = TRUE]
    /\ accepted' = [accepted EXCEPT ![id] = @ + 1]

markVerified(r) ==
    /\ request[r].step = "marking"
    /\ \/ /\ CanMark(request[r].id)
          /\ Accept(request[r].id)
          /\ Step(r, [request[r] EXCEPT !.step = "looking"])
       \/ ~ CanMark(request[r].id) /\ End(r) /\ UNCHANGED <<verifications, accepted>>
    /\ UNCHANGED <<now, phoneTokens, password, sessions, issued>>

Issue(r, user, device) == Step(r, [step |-> "issuing", user |-> user, device |-> device])

findUserByPhone(r) ==
    /\ request[r].step = "looking"
    /\ LET phone == verifications[request[r].id].phone
       IN  IF password[phone] > 0
           THEN Issue(r, phone, request[r].device)
           ELSE Step(r, [step |-> "minting", id |-> request[r].id])
    /\ UNCHANGED <<now, verifications, phoneTokens, password, sessions, issued, accepted>>

createPhoneVerificationToken(r) ==
    /\ request[r].step = "minting"
    /\ request[r].id \in Existing
    /\ phoneTokens' = [phoneTokens EXCEPT ![request[r].id] = [used |-> FALSE, expiresAt |-> now + TokenTtl]]
    /\ End(r)
    /\ UNCHANGED <<now, verifications, password, sessions, issued, accepted>>

\* One transaction under the lock of the users row, so no rotation of a
\* refresh token falls between the new password and the end of the sessions.
resetPasswordWithVerification(r) ==
    /\ request[r].step = "resetting"
    /\ LET id == request[r].id
           phone == verifications[id].phone
           Possible == password[phone] > 0 /\ CanMark(id)
       IN  \/ /\ Possible
              /\ Accept(id)
              /\ password' = [password EXCEPT ![phone] = @ + 1]
              /\ sessions' = [s \in Phones \X Devices |-> IF s[1] = phone THEN None ELSE sessions[s]]
           \/ ~ Possible /\ UNCHANGED <<verifications, accepted, password, sessions>>
    /\ End(r)
    /\ UNCHANGED <<now, phoneTokens, issued>>
-----------------------------------------------------------------------------
(* Sign-up and sessions.                                                   *)

Consumable(id) == phoneTokens[id] # None /\ ~ phoneTokens[id].used /\ phoneTokens[id].expiresAt > now
Consume(id) == phoneTokens' = [phoneTokens EXCEPT ![id].used = TRUE]

\* The token is used in a transaction of its own: a duplicate keeps it used.
signupConsumesFirst(r, id, device) ==
    /\ request[r] = Idle
    /\ Consumable(id)
    /\ Consume(id)
    /\ LET phone == verifications[id].phone
       IN  IF password[phone] = 0
           THEN password' = [password EXCEPT ![phone] = 1] /\ Issue(r, phone, device)
           ELSE UNCHANGED <<password, request>>
    /\ UNCHANGED <<now, verifications, sessions, issued, accepted>>

\* A second account for the phone violates its unique index and rolls back.
signup(r, id, device) ==
    /\ request[r] = Idle
    /\ Consumable(id)
    /\ Consume(id)
    /\ LET phone == verifications[id].phone
       IN  /\ password[phone] = 0
           /\ password' = [password EXCEPT ![phone] = 1]
           /\ Issue(r, phone, device)
    /\ UNCHANGED <<now, verifications, sessions, issued, accepted>>

\* A new refresh token, saved for the account and device in place of the old.
Save(user, device, pw, earlier) ==
    /\ Len(issued) < MaxSessions
    /\ issued' = Append(earlier, [user |-> user, device |-> device, exp |-> now + SessionTtl, exchanged |-> 0])
    /\ sessions' = [sessions EXCEPT ![<<user, device>>] =
                      [token |-> Len(issued) + 1, exp |-> now + SessionTtl, password |-> pw]]

saveRefreshToken(r) ==
    /\ request[r].step = "issuing"
    /\ Save(request[r].user, request[r].device, password[request[r].user], issued)
    /\ End(r)
    /\ UNCHANGED <<now, verifications, phoneTokens, password, accepted>>

\* bcrypt hashes the first 72 bytes: of a JWT, its header and the start of
\* its userId, so the comparison tells accounts apart and not tokens.
bcryptCompare(token, saved) == issued[token].user = issued[saved].user

validateUserRefreshToken(r, token, step) ==
    /\ request[r] = Idle
    /\ issued[token].exp > now
    /\ LET user == issued[token].user
           device == issued[token].device
           saved == sessions[<<user, device>>]
       IN  /\ saved # None
           /\ saved.exp > now
           /\ bcryptCompare(token, saved.token)
           /\ Step(r, [step |-> step, user |-> user, device |-> device, saved |-> saved])
    /\ UNCHANGED <<now, verifications, phoneTokens, password, sessions, issued, accepted>>

RotatableUpsert(user, device, expected) == TRUE
RotatableAnySaved(user, device, expected) ==
    sessions[<<user, device>>] # None /\ sessions[<<user, device>>].exp > now
Rotatable(user, device, expected) ==
    /\ sessions[<<user, device>>] # None
    /\ sessions[<<user, device>>].token = expected
    /\ sessions[<<user, device>>].exp > now

rotateRefreshToken(r) ==
    /\ request[r].step = "rotating"
    /\ LET user == request[r].user
           device == request[r].device
           saved == request[r].saved
       IN  \/ /\ Rotatable(user, device, saved.token)
              /\ Save(user, device, saved.password, [issued EXCEPT ![saved.token].exchanged = @ + 1])
           \/ ~ Rotatable(user, device, saved.token) /\ UNCHANGED <<issued, sessions>>
    /\ End(r)
    /\ UNCHANGED <<now, verifications, phoneTokens, password, accepted>>

logout(r) ==
    /\ request[r].step = "leaving"
    /\ sessions' = [sessions EXCEPT ![<<request[r].user, request[r].device>>] = None]
    /\ End(r)
    /\ UNCHANGED <<now, verifications, phoneTokens, password, issued, accepted>>
-----------------------------------------------------------------------------
Abandon(r) ==
    /\ request[r] # Idle
    /\ End(r)
    /\ UNCHANGED <<now, verifications, phoneTokens, password, sessions, issued, accepted>>

Tick ==
    /\ now < MaxTime
    /\ now' = now + 1
    /\ UNCHANGED <<verifications, phoneTokens, password, sessions, issued, request, accepted>>

RequestCode(r) ==
    \/ \E phone \in Phones, ip \in Ips, purpose \in Purposes : beginReservation(r, phone, ip, purpose)
    \/ commitReservation(r)
    \/ sendCode(r)
    \/ sendOrActivateFails(r)
    \/ \E answered \in BOOLEAN : activateVerification(r, answered)
    \/ deleteVerification(r)

SubmitCode(r) ==
    \/ \E phone \in Phones, reset \in BOOLEAN, device \in Devices :
         getUsableVerification(r, phone, reset, device)
    \/ \E right \in BOOLEAN : claimVerificationAttempt(r, right)
    \/ markVerified(r)
    \/ findUserByPhone(r)
    \/ createPhoneVerificationToken(r)
    \/ resetPasswordWithVerification(r)

UseSession(r) ==
    \/ \E id \in Codes, device \in Devices : signup(r, id, device)
    \/ saveRefreshToken(r)
    \/ \E token \in DOMAIN issued, step \in {"rotating", "leaving"} : validateUserRefreshToken(r, token, step)
    \/ rotateRefreshToken(r)
    \/ logout(r)

Next ==
    \/ \E r \in Requests : RequestCode(r) \/ SubmitCode(r) \/ UseSession(r) \/ Abandon(r)
    \/ Tick

Spec == Init /\ [][Next]_vars
-----------------------------------------------------------------------------
(* Properties.                                                             *)

\* The tables and the requests in flight have the shape the schema and the
\* handlers give them; ids refer to codes that were reserved.
TypeOK ==
    /\ now \in Times
    /\ verifications \in Seq(Verification) /\ Len(verifications) <= MaxCodes
    /\ phoneTokens \in [Codes -> PhoneToken \cup {None}]
    /\ password \in [Phones -> Nat]
    /\ sessions \in [Phones \X Devices -> Session \cup {None}]
    /\ issued \in Seq(RefreshToken) /\ Len(issued) <= MaxSessions
    /\ request \in [Requests -> RequestType]
    /\ accepted \in [Codes -> Nat]

\* No hour holds more codes of a phone, or from an address, than the limits
\* reserveVerification enforces, whatever requests ran at the same time.
RequestQuota ==
    \A id \in Existing :
      LET Before == {b \in Existing :
                       /\ verifications[b].createdAt <= verifications[id].createdAt
                       /\ verifications[b].createdAt > verifications[id].createdAt - Hour}
      IN  /\ Cardinality({b \in Before : verifications[b].phone = verifications[id].phone}) <= PhoneLimit
          /\ Cardinality({b \in Before : verifications[b].ip = verifications[id].ip}) <= IpLimit

\* Of several submissions of the right code, by login and by reset, one at
\* most is accepted.
CodeAcceptedOnce == \A id \in Codes : accepted[id] <= 1

\* A submission that claimed its attempt in time is still refused once a
\* newer code of the phone was reserved.
NewestCodeOnly ==
    [][\A id \in DOMAIN verifications :
         accepted'[id] > accepted[id] =>
           ~ \E b \in CodesOf(verifications[id].phone) : b > id]_vars

\* Of the tokens a phone was verified for, one at most is ever used, for the
\* account that exists since: a sign-up that meets an account gives its
\* token back.
TokenMakesAccount ==
    \A phone \in Phones :
      LET Used == {id \in DOMAIN verifications :
                     verifications[id].phone = phone /\ phoneTokens[id] # None /\ phoneTokens[id].used}
      IN  Used # {} => Cardinality(Used) = 1 /\ password[phone] > 0

\* A saved refresh token is exchanged for at most one successor, however
\* many refreshes validated it before the first of them rotated it.
RotatedOnce == \A token \in DOMAIN issued : issued[token].exchanged <= 1

\* After a password reset no session remains that a login saved before it,
\* not even through a refresh that validated the session before the reset and
\* rotates it after.  (A login that was let in before the reset and saves its
\* session after it does keep the session.)
ResetEndsSessions ==
    \A s \in Phones \X Devices : sessions[s] # None => sessions[s].password = password[s[1]]
=============================================================================

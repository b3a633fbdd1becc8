------------------------------ MODULE KakaoAuth ------------------------------
(***************************************************************************)
(* Sign-in and sign-up through Kakao: the identity that names an account,  *)
(* the one-time tokens that carry a Kakao sign-in to its completion, and   *)
(* the phone tokens (of PhoneAuth) a completion may spend beside them.     *)
(*                                                                         *)
(* Every request is a process suspended at each await; `abandon' ends it   *)
(* anywhere.  A transaction is one action: it updates its tokens under     *)
(* their row locks and rolls everything back when a token is spent or a    *)
(* unique constraint fails.  Time is left out: a token expires, and an     *)
(* account that is leaving is restored or anonymized, at any moment        *)
(* (AccountDeletion has the deadlines).  The session that every flow ends  *)
(* with is PhoneAuth's, and the text of names and addresses is dropped.    *)
(***************************************************************************)
EXTENDS Integers, Sequences, FiniteSets

CONSTANTS
    Providers,      \* Kakao's user ids
    Phones,
    PhoneTokens,    \* the phoneVerificationTokens handed out
    PhoneOf,        \* the phone each of them verified
    Requests,       \* concurrent requests
    None,           \* SQL NULL, no token
    MaxTokens,      \* bound: Kakao tokens minted
    MaxAccounts     \* bound: accounts created

ASSUME KakaoConstants ==
    /\ PhoneOf \in [PhoneTokens -> Phones]
    /\ MaxTokens \in Nat /\ MaxAccounts \in Nat \ {0}
    /\ None \notin Phones \cup PhoneTokens \cup Providers \cup Nat

VARIABLES
    accounts,       \* users, in the order of their creation
    identity,       \* authIdentity: the account of each Kakao user
    kakaoTokens,    \* kakaoPhoneVerificationToken, in the order of minting
    phoneTokens,    \* phoneVerificationToken: whether each can be spent
    request,        \* requests in flight
    opened          \* history: the completions that committed

vars == <<accounts, identity, kakaoTokens, phoneTokens, request, opened>>

Ids == 1 .. MaxAccounts
TokenIds == 1 .. MaxTokens
TokenState == {"fresh", "used", "expired"}

\* An account's e-mail is the one Kakao passed on, or made up from the id.
Emails == Providers \X {"kakao", "local"}
Account ==
    [kakao : Providers \cup {None}, email : Emails \cup {None},
     phone : Phones \cup {None}, status : {"active", "leaving", "gone"}]
KakaoToken ==
    [provider : Providers, email : Emails, user : Ids \cup {None}, state : TokenState]
Completion ==
    [kakao : TokenIds, phone : PhoneTokens \cup {None}, user : Ids]

Idle == [step |-> "idle"]
RequestType ==
    {Idle}
    \cup [step : {"reading"}, provider : Providers, email : Emails, user : Ids, app : BOOLEAN]
    \cup [step : {"minting"}, provider : Providers, email : Emails, user : Ids \cup {None}]
    \cup [step : {"consuming", "creating", "checking", "attaching"},
          kakao : TokenIds, phone : PhoneTokens \cup {None}]
    \cup [step : {"restoring"}, user : Ids]

PhoneAccount(phone) == [kakao |-> None, email |-> None, phone |-> phone, status |-> "active"]

\* A phone may already belong to an account without Kakao.
Init ==
    /\ accounts \in {<<>>} \cup {<<PhoneAccount(phone)>> : phone \in Phones}
    /\ identity = [k \in Providers |-> None]
    /\ kakaoTokens = <<>>
    /\ phoneTokens = [p \in PhoneTokens |-> "fresh"]
    /\ request = [r \in Requests |-> Idle]
    /\ opened = {}

Step(r, next) == request' = [request EXCEPT ![r] = next]
End(r) == Step(r, Idle)
-----------------------------------------------------------------------------
(* Signing in with Kakao: from the app with an access token, or through    *)
(* the web callback, which always hands out a token.                       *)

\* findUserByIdentity reads the identity and then the account.
findUserByIdentity(r, k, email, app) ==
    /\ request[r] = Idle
    /\ Step(r, IF identity[k] = None
               THEN [step |-> "minting", provider |-> k, email |-> email, user |-> None]
               ELSE [step |-> "reading", provider |-> k, email |-> email,
                     user |-> identity[k], app |-> app])
    /\ UNCHANGED <<accounts, identity, kakaoTokens, phoneTokens, opened>>

loginWithKakao(r, k, email) == findUserByIdentity(r, k, email, FALSE)
loginWithKakaoAccessToken(r, k, email) == findUserByIdentity(r, k, email, TRUE)

\* An account with a phone is signed in from the app at once.
readUser(r) ==
    /\ request[r].step = "reading"
    /\ LET q == request[r]
       IN  Step(r, IF q.app /\ accounts[q.user].phone # None
                   THEN [step |-> "restoring", user |-> q.user]
                   ELSE [step |-> "minting", provider |-> q.provider, email |-> q.email,
                         user |-> q.user])
    /\ UNCHANGED <<accounts, identity, kakaoTokens, phoneTokens, opened>>

\* The token keeps the account that was found, whatever happens to it.
createKakaoPhoneVerificationToken(r) ==
    /\ request[r].step = "minting"
    /\ Len(kakaoTokens) < MaxTokens
    /\ LET q == request[r]
       IN  kakaoTokens' = Append(kakaoTokens,
             [provider |-> q.provider, email |-> q.email, user |-> q.user, state |-> "fresh"])
    /\ End(r)
    /\ UNCHANGED <<accounts, identity, phoneTokens, opened>>
-----------------------------------------------------------------------------
(* completeKakaoPhoneSignup: find the tokens, then spend them in the       *)
(* transaction the flow calls for.                                         *)

Fresh(t, p) ==
    /\ kakaoTokens[t].state = "fresh"
    /\ p # None => phoneTokens[p] = "fresh"

\* Mutant: a transaction trusts the tokens the request found earlier.
FreshWhenFound(t, p) == TRUE

FreshAtCommit(t, p) == Fresh(t, p)

completeKakaoPhoneSignup(r, t, p) ==
    /\ request[r] = Idle
    /\ t \in DOMAIN kakaoTokens
    /\ Fresh(t, p)
    /\ Step(r, [step |-> IF kakaoTokens[t].user = None THEN "creating"
                         ELSE IF p = None THEN "consuming" ELSE "checking",
                kakao |-> t, phone |-> p])
    /\ UNCHANGED <<accounts, identity, kakaoTokens, phoneTokens, opened>>

Spend(t, p, user) ==
    /\ kakaoTokens' = [kakaoTokens EXCEPT ![t].state = "used"]
    /\ phoneTokens' = IF p = None THEN phoneTokens ELSE [phoneTokens EXCEPT ![p] = "used"]
    /\ opened' = opened \cup {[kakao |-> t, phone |-> p, user |-> user]}

Refused(r) == End(r) /\ UNCHANGED <<accounts, identity, kakaoTokens, phoneTokens, opened>>

consumeKakaoPhoneVerificationTokenForUser(r) ==
    /\ request[r].step = "consuming"
    /\ LET t == request[r].kakao
           user == kakaoTokens[t].user
       IN  \/ /\ FreshAtCommit(t, None)
              /\ Spend(t, None, user)
              /\ Step(r, [step |-> "restoring", user |-> user])
              /\ UNCHANGED <<accounts, identity>>
           \/ ~ FreshAtCommit(t, None) /\ Refused(r)

PhoneFree(p, user) ==
    p # None => \A a \in DOMAIN accounts : accounts[a].phone = PhoneOf[p] => a = user

PhoneGiven(p) == IF p = None THEN None ELSE PhoneOf[p]

\* findUser, and the phone the account has must be the verified one.
checkPhone(r) ==
    /\ request[r].step = "checking"
    /\ LET phone == accounts[kakaoTokens[request[r].kakao].user].phone
       IN  Step(r, IF phone \in {None, PhoneOf[request[r].phone]}
                   THEN [request[r] EXCEPT !.step = "attaching"] ELSE Idle)
    /\ UNCHANGED <<accounts, identity, kakaoTokens, phoneTokens, opened>>

\* The account is not looked at again: neither its phone nor its deletion.
attachPhoneWithKakaoPhoneVerificationTokens(r) ==
    /\ request[r].step = "attaching"
    /\ LET t == request[r].kakao
           p == request[r].phone
           user == kakaoTokens[t].user
       IN  \/ /\ FreshAtCommit(t, p) /\ PhoneFree(p, user)
              /\ accounts' = [accounts EXCEPT ![user].phone = PhoneOf[p]]
              /\ Spend(t, p, user)
              /\ Step(r, [step |-> "restoring", user |-> user])
              /\ UNCHANGED identity
           \/ ~ (FreshAtCommit(t, p) /\ PhoneFree(p, user)) /\ Refused(r)

EmailFree(email) == \A a \in DOMAIN accounts : accounts[a].email # email

\* Mutant: authIdentity has no unique constraint.
IdentityNotUnique(t) == TRUE
IdentityFree(t) == identity[kakaoTokens[t].provider] = None

CanCreate(t, p) ==
    /\ FreshAtCommit(t, p)
    /\ IdentityFree(t)
    /\ EmailFree(kakaoTokens[t].email)
    /\ PhoneFree(p, None)

\* Mutant: the tokens are spent before the transaction that creates the
\* account, and stay spent when it fails.
CreateSpends(r) ==
    /\ End(r)
    /\ kakaoTokens' = [kakaoTokens EXCEPT ![request[r].kakao].state = "used"]
    /\ UNCHANGED <<accounts, identity, phoneTokens, opened>>

createRefused(r) == Refused(r)

\* createKakaoUserWithToken, or createKakaoPhoneUserWithTokens with a phone.
createKakaoUser(r) ==
    /\ request[r].step = "creating"
    /\ Len(accounts) < MaxAccounts
    /\ LET t == request[r].kakao
           p == request[r].phone
           token == kakaoTokens[t]
           new == Len(accounts) + 1
       IN  \/ /\ CanCreate(t, p)
              /\ accounts' = Append(accounts,
                   [kakao |-> token.provider, email |-> token.email,
                    phone |-> PhoneGiven(p), status |-> "active"])
              /\ identity' = [identity EXCEPT ![token.provider] = new]
              /\ Spend(t, p, new)
              /\ End(r)
           \/ ~ CanCreate(t, p) /\ createRefused(r)

restoreIfWithinGrace(r) ==
    /\ request[r].step = "restoring"
    /\ LET user == request[r].user
       IN  accounts' = IF accounts[user].status = "leaving"
                       THEN [accounts EXCEPT ![user].status = "active"] ELSE accounts
    /\ End(r)
    /\ UNCHANGED <<identity, kakaoTokens, phoneTokens, opened>>

abandon(r) == request[r] # Idle /\ Refused(r)
-----------------------------------------------------------------------------
(* What the rest of the system does meanwhile.                             *)

scheduleDeletion(a) ==
    /\ a \in DOMAIN accounts /\ accounts[a].status = "active"
    /\ accounts' = [accounts EXCEPT ![a].status = "leaving"]
    /\ UNCHANGED <<identity, kakaoTokens, phoneTokens, request, opened>>

\* Mutant: anonymizing an account forgets its identities.
IdentitiesKept(a) == identity
IdentitiesWithout(a) == [k \in Providers |-> IF identity[k] = a THEN None ELSE identity[k]]

anonymizeDeletedAccount(a) ==
    /\ a \in DOMAIN accounts /\ accounts[a].status = "leaving"
    /\ accounts' = [accounts EXCEPT ![a] = [@ EXCEPT !.email = None, !.phone = None,
                                                     !.status = "gone"]]
    /\ identity' = IdentitiesWithout(a)
    /\ UNCHANGED <<kakaoTokens, phoneTokens, request, opened>>

expireKakaoToken(t) ==
    /\ t \in DOMAIN kakaoTokens /\ kakaoTokens[t].state = "fresh"
    /\ kakaoTokens' = [kakaoTokens EXCEPT ![t].state = "expired"]
    /\ UNCHANGED <<accounts, identity, phoneTokens, request, opened>>

expirePhoneToken(p) ==
    /\ phoneTokens[p] = "fresh"
    /\ phoneTokens' = [phoneTokens EXCEPT ![p] = "expired"]
    /\ UNCHANGED <<accounts, identity, kakaoTokens, request, opened>>
-----------------------------------------------------------------------------
EmailsOf(k) == {k} \X {"kakao", "local"}

Next ==
    \/ \E r \in Requests :
         \/ \E k \in Providers : \E email \in EmailsOf(k) :
              loginWithKakao(r, k, email) \/ loginWithKakaoAccessToken(r, k, email)
         \/ \E t \in TokenIds, p \in PhoneTokens \cup {None} : completeKakaoPhoneSignup(r, t, p)
         \/ readUser(r)
         \/ createKakaoPhoneVerificationToken(r)
         \/ consumeKakaoPhoneVerificationTokenForUser(r)
         \/ checkPhone(r)
         \/ attachPhoneWithKakaoPhoneVerificationTokens(r)
         \/ createKakaoUser(r)
         \/ restoreIfWithinGrace(r)
         \/ abandon(r)
    \/ \E a \in Ids : scheduleDeletion(a) \/ anonymizeDeletedAccount(a)
    \/ \E t \in TokenIds : expireKakaoToken(t)
    \/ \E p \in PhoneTokens : expirePhoneToken(p)

Spec == Init /\ [][Next]_vars
-----------------------------------------------------------------------------
TypeOK ==
    /\ accounts \in Seq(Account) /\ Len(accounts) <= MaxAccounts
    /\ identity \in [Providers -> Ids \cup {None}]
    /\ kakaoTokens \in Seq(KakaoToken) /\ Len(kakaoTokens) <= MaxTokens
    /\ phoneTokens \in [PhoneTokens -> TokenState]
    /\ request \in [Requests -> RequestType]
    /\ opened \subseteq Completion

LivingOf(k) ==
    {a \in DOMAIN accounts : accounts[a].kakao = k /\ accounts[a].status # "gone"}

\* A Kakao user has at most one living account, and the identity row names
\* exactly that one: racing sign-ups with tokens from before the account
\* existed, or with another e-mail, do not make a second, and no anonymized
\* account is named (auth.repository.ts:312, :407, user.repository.ts:308).
\* Tokens handed out before an account was anonymized are not covered.
IdentityNamesOneAccount ==
    \A k \in Providers : LivingOf(k) = {identity[k]} \ {None}

\* A token is spent by exactly one completion, and only by one that
\* committed: a completion that loses a race, meets a taken phone, e-mail or
\* identity, or comes too late costs neither of its tokens
\* (auth.repository.ts:219, :287, :369).
TokensSpentTogether ==
    /\ \A t \in DOMAIN kakaoTokens :
         Cardinality({c \in opened : c.kakao = t})
           = IF kakaoTokens[t].state = "used" THEN 1 ELSE 0
    /\ \A p \in PhoneTokens :
         Cardinality({c \in opened : c.phone = p})
           = IF phoneTokens[p] = "used" THEN 1 ELSE 0
=============================================================================

--------------------------- MODULE KakaoAuthProofs ---------------------------
(***************************************************************************)
(* Proofs about KakaoAuth, for every number of Kakao users, phones, tokens *)
(* and concurrent requests.                                                *)
(*                                                                         *)
(* The argument: a request holds on to rows only (an account's id, a       *)
(* token's id), rows are never removed, and a transaction looks at the     *)
(* state of its tokens and at the identity again before it writes.         *)
(***************************************************************************)
EXTENDS KakaoAuth, SequenceTheorems, FiniteSetTheorems, TLAPS

\* The rows a suspended request refers to exist.
SoundRequest(q) ==
    /\ q.step \in {"reading", "restoring"} => q.user \in DOMAIN accounts
    /\ q.step = "minting" => q.user \in DOMAIN accounts \cup {None}
    /\ q.step \in {"consuming", "creating", "checking", "attaching"} =>
         q.kakao \in DOMAIN kakaoTokens
    /\ q.step \in {"consuming", "checking", "attaching"} => kakaoTokens[q.kakao].user # None
    /\ q.step \in {"checking", "attaching"} => q.phone # None

RowsExist ==
    /\ \A r \in Requests : SoundRequest(request[r])
    /\ \A t \in DOMAIN kakaoTokens : kakaoTokens[t].user \in DOMAIN accounts \cup {None}

\* TokensSpentTogether without counting: the completions that spent a token.
SpentBy(cs, used) == IF used THEN \E c \in cs : cs = {c} ELSE cs = {}

SpentOnce ==
    /\ \A t \in DOMAIN kakaoTokens :
         SpentBy({c \in opened : c.kakao = t}, kakaoTokens[t].state = "used")
    /\ \A p \in PhoneTokens : SpentBy({c \in opened : c.phone = p}, phoneTokens[p] = "used")
    /\ \A c \in opened : c.kakao \in DOMAIN kakaoTokens

KakaoInv ==
    /\ TypeOK
    /\ RowsExist
    /\ IdentityNamesOneAccount
    /\ SpentOnce
-----------------------------------------------------------------------------
(* Rows and requests *)

LEMMA Bounds ==
  MaxTokens \in Nat /\ MaxAccounts \in Nat /\ None \notin Nat /\ None \notin PhoneTokens
  BY KakaoConstants

LEMMA RequestFacts ==
  ASSUME NEW q \in RequestType
  PROVE  /\ q.step \in {"idle", "reading", "minting", "consuming", "creating", "checking",
                        "attaching", "restoring"}
         /\ q.step = "idle" => q = Idle
         /\ q.step = "reading" =>
              q.provider \in Providers /\ q.email \in Emails /\ q.user \in Ids /\ q.app \in BOOLEAN
         /\ q.step = "minting" =>
              q.provider \in Providers /\ q.email \in Emails /\ q.user \in Ids \cup {None}
         /\ q.step \in {"consuming", "creating", "checking", "attaching"} =>
              q.kakao \in TokenIds /\ q.phone \in PhoneTokens \cup {None}
         /\ q.step = "restoring" => q.user \in Ids
  BY DEF RequestType, Idle

LEMMA TableFacts ==
  ASSUME TypeOK
  PROVE  /\ DOMAIN accounts = 1 .. Len(accounts) /\ Len(accounts) \in Nat
         /\ DOMAIN accounts \subseteq Ids
         /\ DOMAIN kakaoTokens = 1 .. Len(kakaoTokens) /\ Len(kakaoTokens) \in Nat
         /\ DOMAIN kakaoTokens \subseteq TokenIds
         /\ \A a \in DOMAIN accounts : accounts[a] \in Account /\ a # None
         /\ \A t \in DOMAIN kakaoTokens : kakaoTokens[t] \in KakaoToken
<1>1. accounts \in Seq(Account) /\ kakaoTokens \in Seq(KakaoToken)
  BY DEF TypeOK
<1>2. /\ DOMAIN accounts = 1 .. Len(accounts) /\ Len(accounts) \in Nat
      /\ DOMAIN kakaoTokens = 1 .. Len(kakaoTokens) /\ Len(kakaoTokens) \in Nat
  BY <1>1, LenProperties
<1>3. DOMAIN accounts \subseteq Ids /\ DOMAIN kakaoTokens \subseteq TokenIds
  BY <1>2, Bounds DEF TypeOK, Ids, TokenIds
<1>4. /\ \A a \in DOMAIN accounts : accounts[a] \in Account /\ a # None
      /\ \A t \in DOMAIN kakaoTokens : kakaoTokens[t] \in KakaoToken
  BY <1>1, <1>2, ElementOfSeq, Bounds
<1> QED
  BY <1>2, <1>3, <1>4

\* One row of a table is written.
LEMMA AccountWritten ==
  ASSUME TypeOK, NEW a \in DOMAIN accounts, NEW e \in Account,
         accounts' = [accounts EXCEPT ![a] = e]
  PROVE  /\ accounts' \in Seq(Account) /\ Len(accounts') = Len(accounts)
         /\ DOMAIN accounts' = DOMAIN accounts
         /\ \A b \in DOMAIN accounts : accounts'[b] = IF b = a THEN e ELSE accounts[b]
<1>1. accounts \in Seq(Account) /\ a \in 1 .. Len(accounts)
  BY TableFacts DEF TypeOK
<1>2. /\ [accounts EXCEPT ![a] = e] \in Seq(Account)
      /\ Len([accounts EXCEPT ![a] = e]) = Len(accounts)
  BY <1>1, ExceptSeq
<1> QED
  BY <1>2

LEMMA TokenWritten ==
  ASSUME TypeOK, NEW t \in DOMAIN kakaoTokens, NEW st \in TokenState,
         kakaoTokens' = [kakaoTokens EXCEPT ![t].state = st]
  PROVE  /\ kakaoTokens' \in Seq(KakaoToken) /\ Len(kakaoTokens') = Len(kakaoTokens)
         /\ DOMAIN kakaoTokens' = DOMAIN kakaoTokens
         /\ \A u \in DOMAIN kakaoTokens :
              /\ kakaoTokens'[u].user = kakaoTokens[u].user
              /\ kakaoTokens'[u].state = IF u = t THEN st ELSE kakaoTokens[u].state
<1>1. kakaoTokens \in Seq(KakaoToken) /\ t \in 1 .. Len(kakaoTokens) /\ kakaoTokens[t] \in KakaoToken
  BY TableFacts DEF TypeOK
<1> DEFINE e == [kakaoTokens[t] EXCEPT !.state = st]
<1>2. e \in KakaoToken /\ e.user = kakaoTokens[t].user /\ e.state = st
  BY <1>1 DEF KakaoToken
<1>3. kakaoTokens' = [kakaoTokens EXCEPT ![t] = e]
  OBVIOUS
<1> HIDE DEF e
<1>4. /\ [kakaoTokens EXCEPT ![t] = e] \in Seq(KakaoToken)
      /\ Len([kakaoTokens EXCEPT ![t] = e]) = Len(kakaoTokens)
  BY <1>1, <1>2, ExceptSeq
<1>5. \A u \in DOMAIN kakaoTokens : kakaoTokens'[u] = IF u = t THEN e ELSE kakaoTokens[u]
  BY <1>3
<1> QED
  BY <1>2, <1>3, <1>4, <1>5

\* Rows are only added, and no token forgets its account.
Grown ==
    /\ DOMAIN accounts \subseteq DOMAIN accounts'
    /\ DOMAIN kakaoTokens \subseteq DOMAIN kakaoTokens'
    /\ \A t \in DOMAIN kakaoTokens : kakaoTokens'[t].user = kakaoTokens[t].user

LEMMA RowsKept ==
  ASSUME KakaoInv, Grown, NEW r \in Requests, NEW q, Step(r, q), SoundRequest(q)',
         \A t \in DOMAIN kakaoTokens' \ DOMAIN kakaoTokens :
             kakaoTokens'[t].user \in DOMAIN accounts' \cup {None}
  PROVE  RowsExist'
<1>1. \A v \in Requests : v # r => request'[v] = request[v] /\ SoundRequest(request[v])
  BY DEF KakaoInv, TypeOK, RowsExist, Step
<1>2. request'[r] = q
  BY DEF KakaoInv, TypeOK, Step
<1>3. ASSUME NEW v \in Requests PROVE SoundRequest(request[v])'
  <2>1. CASE v = r
    BY <1>2, <2>1 DEF SoundRequest
  <2>2. CASE v # r
    BY <1>1, <2>2 DEF SoundRequest, Grown
  <2> QED
    BY <2>1, <2>2
<1>4. \A t \in DOMAIN kakaoTokens' : kakaoTokens'[t].user \in DOMAIN accounts' \cup {None}
  BY DEF KakaoInv, RowsExist, Grown
<1> QED
  BY <1>3, <1>4 DEF RowsExist

\* A request that only moves on.
LEMMA RequestMoves ==
  ASSUME KakaoInv, NEW r \in Requests, NEW q \in RequestType, SoundRequest(q), Step(r, q),
         UNCHANGED <<accounts, identity, kakaoTokens, phoneTokens, opened>>
  PROVE  KakaoInv'
<1>1. TypeOK'
  BY DEF KakaoInv, TypeOK, Step
<1>2. RowsExist'
  <2>1. Grown /\ SoundRequest(q)'
    BY DEF Grown, SoundRequest
  <2> QED
    BY <2>1, RowsKept
<1>3. IdentityNamesOneAccount' /\ SpentOnce'
  BY DEF KakaoInv, IdentityNamesOneAccount, LivingOf, SpentOnce
<1> QED
  BY <1>1, <1>2, <1>3 DEF KakaoInv

LEMMA IdleRequest ==
  Idle \in RequestType /\ SoundRequest(Idle)
  BY DEF RequestType, Idle, SoundRequest

LEMMA RefusedKeeps ==
  ASSUME KakaoInv, NEW r \in Requests, Refused(r) PROVE KakaoInv'
  BY IdleRequest, RequestMoves DEF Refused, End

-----------------------------------------------------------------------------
(* Tokens and identities *)

\* A transaction that spends fresh tokens: each gets its first completion.
LEMMA SpendKeeps ==
  ASSUME KakaoInv, NEW t \in DOMAIN kakaoTokens, NEW p \in PhoneTokens \cup {None},
         NEW user \in Ids, FreshAtCommit(t, p), Spend(t, p, user)
  PROVE  /\ kakaoTokens' \in Seq(KakaoToken) /\ Len(kakaoTokens') = Len(kakaoTokens)
         /\ DOMAIN kakaoTokens' = DOMAIN kakaoTokens
         /\ \A u \in DOMAIN kakaoTokens : kakaoTokens'[u].user = kakaoTokens[u].user
         /\ phoneTokens' \in [PhoneTokens -> TokenState]
         /\ opened' \subseteq Completion
         /\ SpentOnce'
<1> DEFINE c == [kakao |-> t, phone |-> p, user |-> user]
<1>t. TypeOK /\ t \in TokenIds
  BY TableFacts DEF KakaoInv
<1>1. /\ kakaoTokens' \in Seq(KakaoToken) /\ Len(kakaoTokens') = Len(kakaoTokens)
      /\ DOMAIN kakaoTokens' = DOMAIN kakaoTokens
      /\ \A u \in DOMAIN kakaoTokens :
           /\ kakaoTokens'[u].user = kakaoTokens[u].user
           /\ kakaoTokens'[u].state = IF u = t THEN "used" ELSE kakaoTokens[u].state
  BY <1>t, TokenWritten DEF Spend, TokenState
<1>2. /\ phoneTokens' \in [PhoneTokens -> TokenState]
      /\ \A v \in PhoneTokens : phoneTokens'[v] = IF v = p THEN "used" ELSE phoneTokens[v]
  BY <1>t, Bounds DEF Spend, TypeOK, TokenState
<1>3. c \in Completion /\ c.kakao = t /\ c.phone = p /\ opened' = opened \cup {c}
  BY <1>t DEF Completion, Spend
<1> HIDE DEF c
<1>4. opened' \subseteq Completion
  BY <1>t, <1>3 DEF TypeOK
<1>5. ASSUME NEW u \in DOMAIN kakaoTokens
      PROVE  SpentBy({d \in opened' : d.kakao = u}, kakaoTokens'[u].state = "used")
  <2>1. SpentBy({d \in opened : d.kakao = u}, kakaoTokens[u].state = "used")
    BY DEF KakaoInv, SpentOnce
  <2>2. CASE u = t
    <3>1. {d \in opened : d.kakao = u} = {}
      BY <2>1, <2>2 DEF FreshAtCommit, Fresh, SpentBy
    <3>2. {d \in opened' : d.kakao = u} = {c}
      BY <1>3, <2>2, <3>1
    <3> QED
      BY <1>1, <2>2, <3>2 DEF SpentBy
  <2>3. CASE u # t
    <3>1. {d \in opened' : d.kakao = u} = {d \in opened : d.kakao = u}
      BY <1>3, <2>3
    <3>2. (kakaoTokens'[u].state = "used") = (kakaoTokens[u].state = "used")
      BY <1>1, <2>3
    <3> QED
      BY <2>1, <3>1, <3>2
  <2> QED
    BY <2>2, <2>3
<1>6. ASSUME NEW v \in PhoneTokens
      PROVE  SpentBy({d \in opened' : d.phone = v}, phoneTokens'[v] = "used")
  <2>1. SpentBy({d \in opened : d.phone = v}, phoneTokens[v] = "used")
    BY DEF KakaoInv, SpentOnce
  <2>2. CASE v = p
    <3>1. {d \in opened : d.phone = v} = {}
      BY <2>1, <2>2, Bounds DEF FreshAtCommit, Fresh, SpentBy
    <3>2. {d \in opened' : d.phone = v} = {c}
      BY <1>3, <2>2, <3>1
    <3> QED
      BY <1>2, <2>2, <3>2 DEF SpentBy
  <2>3. CASE v # p
    <3>1. {d \in opened' : d.phone = v} = {d \in opened : d.phone = v}
      BY <1>3, <2>3
    <3>2. (phoneTokens'[v] = "used") = (phoneTokens[v] = "used")
      BY <1>2, <2>3
    <3> QED
      BY <2>1, <3>1, <3>2
  <2> QED
    BY <2>2, <2>3
<1>7. \A d \in opened' : d.kakao \in DOMAIN kakaoTokens'
  BY <1>1, <1>3 DEF KakaoInv, SpentOnce
<1> QED
  BY <1>1, <1>2, <1>4, <1>5, <1>6, <1>7 DEF SpentOnce

\* A token that leaves "fresh" without being spent, or is new, has no completion.
LEMMA UnspentKeeps ==
  ASSUME KakaoInv, UNCHANGED opened,
         DOMAIN kakaoTokens \subseteq DOMAIN kakaoTokens',
         \A t \in DOMAIN kakaoTokens :
             kakaoTokens'[t].state = "used" <=> kakaoTokens[t].state = "used",
         \A t \in DOMAIN kakaoTokens' \ DOMAIN kakaoTokens : kakaoTokens'[t].state # "used",
         \A p \in PhoneTokens : phoneTokens'[p] = "used" <=> phoneTokens[p] = "used"
  PROVE  SpentOnce'
<1>1. ASSUME NEW t \in DOMAIN kakaoTokens'
      PROVE  SpentBy({c \in opened : c.kakao = t}, kakaoTokens'[t].state = "used")
  <2>1. CASE t \in DOMAIN kakaoTokens
    BY <2>1 DEF KakaoInv, SpentOnce, SpentBy
  <2>2. CASE t \notin DOMAIN kakaoTokens
    <3>1. {c \in opened : c.kakao = t} = {}
      BY <2>2 DEF KakaoInv, SpentOnce
    <3> QED
      BY <1>1, <2>2, <3>1 DEF SpentBy
  <2> QED
    BY <2>1, <2>2
<1>2. \A p \in PhoneTokens : SpentBy({c \in opened : c.phone = p}, phoneTokens'[p] = "used")
  BY DEF KakaoInv, SpentOnce, SpentBy
<1>3. \A c \in opened : c.kakao \in DOMAIN kakaoTokens'
  BY DEF KakaoInv, SpentOnce
<1> QED
  BY <1>1, <1>2, <1>3 DEF SpentOnce

\* Writing an account without making it gone does not change whose it is.
LEMMA LivingKept ==
  ASSUME KakaoInv, UNCHANGED identity, DOMAIN accounts' = DOMAIN accounts,
         \A a \in DOMAIN accounts :
             /\ accounts'[a].kakao = accounts[a].kakao
             /\ accounts'[a].status = "gone" <=> accounts[a].status = "gone"
  PROVE  IdentityNamesOneAccount'
<1>1. \A k \in Providers : LivingOf(k)' = LivingOf(k)
  BY DEF LivingOf
<1> QED
  BY <1>1 DEF KakaoInv, IdentityNamesOneAccount

-----------------------------------------------------------------------------
(* Signing in *)

LEMMA FindKeeps ==
  ASSUME KakaoInv, NEW r \in Requests, NEW k \in Providers, NEW email \in EmailsOf(k),
         NEW app \in BOOLEAN, findUserByIdentity(r, k, email, app)
  PROVE  KakaoInv'
<1>1. email \in Emails
  BY DEF EmailsOf, Emails
<1>2. identity[k] \in DOMAIN accounts \cup {None} /\ identity[k] \in Ids \cup {None}
  BY DEF KakaoInv, TypeOK, IdentityNamesOneAccount, LivingOf
<1> DEFINE q == IF identity[k] = None
                THEN [step |-> "minting", provider |-> k, email |-> email, user |-> None]
                ELSE [step |-> "reading", provider |-> k, email |-> email,
                      user |-> identity[k], app |-> app]
<1>3. q \in RequestType /\ SoundRequest(q)
  BY <1>1, <1>2 DEF RequestType, SoundRequest
<1>4. Step(r, q) /\ UNCHANGED <<accounts, identity, kakaoTokens, phoneTokens, opened>>
  BY DEF findUserByIdentity
<1> HIDE DEF q
<1> QED
  BY <1>3, <1>4, RequestMoves DEF Step

LEMMA ReadKeeps ==
  ASSUME KakaoInv, NEW r \in Requests, readUser(r) PROVE KakaoInv'
<1>1. PICK o \in RequestType : o = request[r]
  BY DEF KakaoInv, TypeOK
<1>2. o.step = "reading" /\ SoundRequest(o)
  BY <1>1 DEF readUser, KakaoInv, RowsExist
<1> DEFINE q == IF o.app /\ accounts[o.user].phone # None
                THEN [step |-> "restoring", user |-> o.user]
                ELSE [step |-> "minting", provider |-> o.provider, email |-> o.email,
                      user |-> o.user]
<1>3. q \in RequestType /\ SoundRequest(q)
  <2>1. /\ o.provider \in Providers /\ o.email \in Emails /\ o.user \in Ids
        /\ o.user \in DOMAIN accounts
    BY <1>2, RequestFacts DEF SoundRequest
  <2> QED
    BY <2>1 DEF RequestType, SoundRequest
<1>4. Step(r, q) /\ UNCHANGED <<accounts, identity, kakaoTokens, phoneTokens, opened>>
  BY <1>1 DEF readUser
<1> HIDE DEF q
<1> QED
  BY <1>3, <1>4, RequestMoves DEF Step

LEMMA MintKeeps ==
  ASSUME KakaoInv, NEW r \in Requests, createKakaoPhoneVerificationToken(r) PROVE KakaoInv'
<1>t. TypeOK
  BY DEF KakaoInv
<1>1. PICK o \in RequestType : o = request[r]
  BY <1>t DEF TypeOK
<1> DEFINE e == [provider |-> o.provider, email |-> o.email, user |-> o.user, state |-> "fresh"]
<1>2. e \in KakaoToken /\ e.user \in DOMAIN accounts \cup {None} /\ e.state = "fresh"
  <2>1. o.step = "minting" /\ SoundRequest(o)
    BY <1>1 DEF createKakaoPhoneVerificationToken, KakaoInv, RowsExist
  <2> QED
    BY <2>1, RequestFacts DEF SoundRequest, KakaoToken, TokenState
<1>3. kakaoTokens' = Append(kakaoTokens, e) /\ Len(kakaoTokens) < MaxTokens
  BY <1>1 DEF createKakaoPhoneVerificationToken
<1> HIDE DEF e
<1>4. /\ kakaoTokens' \in Seq(KakaoToken) /\ Len(kakaoTokens') = Len(kakaoTokens) + 1
      /\ \A t \in 1 .. Len(kakaoTokens) : kakaoTokens'[t] = kakaoTokens[t]
      /\ kakaoTokens'[Len(kakaoTokens) + 1] = e
  BY <1>t, <1>2, <1>3, AppendProperties DEF TypeOK
<1>5. DOMAIN kakaoTokens' = 1 .. Len(kakaoTokens) + 1 /\ DOMAIN kakaoTokens = 1 .. Len(kakaoTokens)
  BY <1>t, <1>4, LenProperties, TableFacts
<1>6. TypeOK'
  BY <1>t, <1>3, <1>4, IdleRequest, TableFacts, Bounds
     DEF createKakaoPhoneVerificationToken, TypeOK, End, Step
<1>7. \A t \in DOMAIN kakaoTokens' \ DOMAIN kakaoTokens : kakaoTokens'[t] = e
  BY <1>t, <1>4, <1>5, TableFacts
<1>8. RowsExist'
  <2>1. Grown /\ SoundRequest(Idle)'
    BY <1>t, <1>4, <1>5, TableFacts
       DEF createKakaoPhoneVerificationToken, Grown, SoundRequest, Idle
  <2>2. \A t \in DOMAIN kakaoTokens' \ DOMAIN kakaoTokens :
           kakaoTokens'[t].user \in DOMAIN accounts' \cup {None}
    BY <1>2, <1>7 DEF createKakaoPhoneVerificationToken
  <2>3. Step(r, Idle)
    BY DEF createKakaoPhoneVerificationToken, End
  <2> QED
    BY <2>1, <2>2, <2>3, RowsKept
<1>9. IdentityNamesOneAccount'
  BY DEF createKakaoPhoneVerificationToken, KakaoInv, IdentityNamesOneAccount, LivingOf
<1>10. SpentOnce'
  <2>1. DOMAIN kakaoTokens \subseteq DOMAIN kakaoTokens'
    BY <1>t, <1>5, TableFacts
  <2>2. \A t \in DOMAIN kakaoTokens : kakaoTokens'[t] = kakaoTokens[t]
    BY <1>4, <1>5
  <2> QED
    BY <1>2, <1>7, <2>1, <2>2, UnspentKeeps DEF createKakaoPhoneVerificationToken
<1> QED
  BY <1>6, <1>8, <1>9, <1>10 DEF KakaoInv

-----------------------------------------------------------------------------
(* Completing *)

LEMMA CompleteKeeps ==
  ASSUME KakaoInv, NEW r \in Requests, NEW t \in TokenIds, NEW p \in PhoneTokens \cup {None},
         completeKakaoPhoneSignup(r, t, p)
  PROVE  KakaoInv'
<1> DEFINE q == [step |-> IF kakaoTokens[t].user = None THEN "creating"
                          ELSE IF p = None THEN "consuming" ELSE "checking",
                 kakao |-> t, phone |-> p]
<1>1. q \in RequestType /\ SoundRequest(q)
  BY DEF completeKakaoPhoneSignup, RequestType, SoundRequest
<1>2. Step(r, q) /\ UNCHANGED <<accounts, identity, kakaoTokens, phoneTokens, opened>>
  BY DEF completeKakaoPhoneSignup
<1> HIDE DEF q
<1> QED
  BY <1>1, <1>2, RequestMoves DEF Step

LEMMA CheckKeeps ==
  ASSUME KakaoInv, NEW r \in Requests, checkPhone(r) PROVE KakaoInv'
<1>1. PICK o \in RequestType : o = request[r]
  BY DEF KakaoInv, TypeOK
<1>2. o.step = "checking" /\ SoundRequest(o)
  BY <1>1 DEF checkPhone, KakaoInv, RowsExist
<1> DEFINE q == [o EXCEPT !.step = "attaching"]
<1>3. q \in RequestType /\ SoundRequest(q)
  <2>1. o \in [step : {"consuming", "creating", "checking", "attaching"},
               kakao : TokenIds, phone : PhoneTokens \cup {None}]
    BY <1>2 DEF RequestType, Idle
  <2>2. q.step = "attaching" /\ q.kakao = o.kakao /\ q.phone = o.phone
    BY <2>1
  <2>3. q \in [step : {"consuming", "creating", "checking", "attaching"},
               kakao : TokenIds, phone : PhoneTokens \cup {None}]
    BY <2>1
  <2> QED
    BY <1>2, <2>2, <2>3 DEF RequestType, SoundRequest
<1>4. /\ Step(r, q) \/ Step(r, Idle)
      /\ UNCHANGED <<accounts, identity, kakaoTokens, phoneTokens, opened>>
  BY <1>1 DEF checkPhone, Step
<1> HIDE DEF q
<1> QED
  BY <1>3, <1>4, IdleRequest, RequestMoves DEF Step

\* The request goes on to restore the account it signed in to.
LEMMA RestoringRequest ==
  ASSUME NEW user \in Ids
  PROVE  /\ [step |-> "restoring", user |-> user] \in RequestType
         /\ user \in DOMAIN accounts => SoundRequest([step |-> "restoring", user |-> user])
  BY DEF RequestType, SoundRequest

LEMMA ConsumeKeeps ==
  ASSUME KakaoInv, NEW r \in Requests, consumeKakaoPhoneVerificationTokenForUser(r)
  PROVE  KakaoInv'
<1>t. TypeOK
  BY DEF KakaoInv
<1>1. PICK o \in RequestType : o = request[r]
  BY <1>t DEF TypeOK
<1>2. o.step = "consuming" /\ SoundRequest(o)
  BY <1>1 DEF consumeKakaoPhoneVerificationTokenForUser, KakaoInv, RowsExist
<1>3. PICK t \in DOMAIN kakaoTokens, user \in Ids :
        t = o.kakao /\ user = kakaoTokens[t].user /\ user \in DOMAIN accounts
  BY <1>t, <1>2, TableFacts DEF SoundRequest, KakaoInv, RowsExist
<1>4. CASE /\ FreshAtCommit(t, None) /\ Spend(t, None, user)
           /\ Step(r, [step |-> "restoring", user |-> user])
           /\ UNCHANGED <<accounts, identity>>
  <2>1. /\ kakaoTokens' \in Seq(KakaoToken) /\ Len(kakaoTokens') = Len(kakaoTokens)
        /\ DOMAIN kakaoTokens' = DOMAIN kakaoTokens
        /\ \A u \in DOMAIN kakaoTokens : kakaoTokens'[u].user = kakaoTokens[u].user
        /\ phoneTokens' \in [PhoneTokens -> TokenState]
        /\ opened' \subseteq Completion
        /\ SpentOnce'
    BY <1>4, SpendKeeps
  <2>2. TypeOK'
    BY <1>t, <1>4, <2>1, RestoringRequest DEF TypeOK, Step
  <2>3. RowsExist'
    <3>1. SoundRequest([step |-> "restoring", user |-> user])'
      BY <1>3, <1>4 DEF SoundRequest
    <3> QED
      BY <1>4, <2>1, <3>1, RowsKept DEF Grown
  <2>4. IdentityNamesOneAccount'
    BY <1>4, LivingKept
  <2> QED
    BY <2>1, <2>2, <2>3, <2>4 DEF KakaoInv
<1>5. CASE Refused(r)
  BY <1>5, RefusedKeeps
<1> QED
  BY <1>1, <1>3, <1>4, <1>5 DEF consumeKakaoPhoneVerificationTokenForUser

LEMMA AttachKeeps ==
  ASSUME KakaoInv, NEW r \in Requests, attachPhoneWithKakaoPhoneVerificationTokens(r)
  PROVE  KakaoInv'
<1>t. TypeOK
  BY DEF KakaoInv
<1>1. PICK o \in RequestType : o = request[r]
  BY <1>t DEF TypeOK
<1>2. o.step = "attaching" /\ SoundRequest(o)
  BY <1>1 DEF attachPhoneWithKakaoPhoneVerificationTokens, KakaoInv, RowsExist
<1>3. PICK t \in DOMAIN kakaoTokens, p \in PhoneTokens, user \in Ids :
        t = o.kakao /\ p = o.phone /\ user = kakaoTokens[t].user /\ user \in DOMAIN accounts
  BY <1>t, <1>2, TableFacts, RequestFacts DEF SoundRequest, KakaoInv, RowsExist
<1>4. CASE /\ FreshAtCommit(t, p)
           /\ accounts' = [accounts EXCEPT ![user].phone = PhoneOf[p]]
           /\ Spend(t, p, user)
           /\ Step(r, [step |-> "restoring", user |-> user])
           /\ UNCHANGED identity
  <2>1. /\ kakaoTokens' \in Seq(KakaoToken) /\ Len(kakaoTokens') = Len(kakaoTokens)
        /\ DOMAIN kakaoTokens' = DOMAIN kakaoTokens
        /\ \A u \in DOMAIN kakaoTokens : kakaoTokens'[u].user = kakaoTokens[u].user
        /\ phoneTokens' \in [PhoneTokens -> TokenState]
        /\ opened' \subseteq Completion
        /\ SpentOnce'
    BY <1>4, SpendKeeps
  <2> DEFINE e == [accounts[user] EXCEPT !.phone = PhoneOf[p]]
  <2>2. /\ e \in Account /\ e.kakao = accounts[user].kakao /\ e.status = accounts[user].status
        /\ accounts' = [accounts EXCEPT ![user] = e]
    BY <1>t, <1>3, <1>4, TableFacts, KakaoConstants DEF Account
  <2> HIDE DEF e
  <2>3. /\ accounts' \in Seq(Account) /\ Len(accounts') = Len(accounts)
        /\ DOMAIN accounts' = DOMAIN accounts
        /\ \A b \in DOMAIN accounts : accounts'[b] = IF b = user THEN e ELSE accounts[b]
    BY <1>t, <1>3, <2>2, AccountWritten
  <2>4. TypeOK'
    BY <1>t, <1>4, <2>1, <2>3, RestoringRequest DEF TypeOK, Step
  <2>5. RowsExist'
    <3>1. SoundRequest([step |-> "restoring", user |-> user])'
      BY <1>3, <2>3 DEF SoundRequest
    <3> QED
      BY <1>4, <2>1, <2>3, <3>1, RowsKept DEF Grown
  <2>6. IdentityNamesOneAccount'
    BY <1>4, <2>2, <2>3, LivingKept
  <2> QED
    BY <2>1, <2>4, <2>5, <2>6 DEF KakaoInv
<1>5. CASE Refused(r)
  BY <1>5, RefusedKeeps
<1> QED
  BY <1>1, <1>3, <1>4, <1>5 DEF attachPhoneWithKakaoPhoneVerificationTokens

LEMMA CreateKeeps ==
  ASSUME KakaoInv, NEW r \in Requests, createKakaoUser(r)
  PROVE  KakaoInv'
<1>t. TypeOK
  BY DEF KakaoInv
<1>1. PICK o \in RequestType : o = request[r]
  BY <1>t DEF TypeOK
<1>2. o.step = "creating" /\ SoundRequest(o)
  BY <1>1 DEF createKakaoUser, KakaoInv, RowsExist
<1>3. PICK t \in DOMAIN kakaoTokens, p \in PhoneTokens \cup {None}, k \in Providers, new \in Nat :
        t = o.kakao /\ p = o.phone /\ k = kakaoTokens[t].provider /\ new = Len(accounts) + 1
  <2>1. o.kakao \in DOMAIN kakaoTokens /\ kakaoTokens[o.kakao].provider \in Providers
    BY <1>t, <1>2, TableFacts DEF SoundRequest, KakaoToken
  <2>2. o.phone \in PhoneTokens \cup {None} /\ Len(accounts) + 1 \in Nat
    BY <1>t, <1>2, TableFacts, RequestFacts
  <2> QED
    BY <2>1, <2>2
<1> DEFINE e == [kakao |-> k, email |-> kakaoTokens[t].email,
                 phone |-> PhoneGiven(p), status |-> "active"]
<1>4. CASE /\ CanCreate(t, p)
           /\ accounts' = Append(accounts, e)
           /\ identity' = [identity EXCEPT ![k] = new]
           /\ Spend(t, p, new)
           /\ End(r)
  <2>1. e \in Account /\ e.kakao = k /\ e.status = "active"
    BY <1>t, <1>3, TableFacts, KakaoConstants DEF Account, KakaoToken, PhoneGiven
  <2> HIDE DEF e
  <2>2. /\ new \in Ids /\ new \notin DOMAIN accounts /\ Len(accounts) < MaxAccounts
    BY <1>t, <1>3, TableFacts, Bounds DEF createKakaoUser, Ids
  <2>3. /\ kakaoTokens' \in Seq(KakaoToken) /\ Len(kakaoTokens') = Len(kakaoTokens)
        /\ DOMAIN kakaoTokens' = DOMAIN kakaoTokens
        /\ \A u \in DOMAIN kakaoTokens : kakaoTokens'[u].user = kakaoTokens[u].user
        /\ phoneTokens' \in [PhoneTokens -> TokenState]
        /\ opened' \subseteq Completion
        /\ SpentOnce'
    BY <1>4, <2>2, SpendKeeps DEF CanCreate
  <2>4. /\ accounts' \in Seq(Account) /\ Len(accounts') = new
        /\ \A a \in 1 .. Len(accounts) : accounts'[a] = accounts[a]
        /\ accounts'[new] = e
    BY <1>t, <1>3, <1>4, <2>1, AppendProperties DEF TypeOK
  <2>5. DOMAIN accounts' = DOMAIN accounts \cup {new}
    <3>1. DOMAIN accounts' = 1 .. new
      BY <2>4, LenProperties
    <3> QED
      BY <1>t, <1>3, <3>1, TableFacts
  <2>6. TypeOK'
    BY <1>t, <1>3, <1>4, <2>2, <2>3, <2>4, IdleRequest, TableFacts, Bounds DEF TypeOK, End, Step
  <2>7. RowsExist'
    <3>1. SoundRequest(Idle)'
      BY DEF SoundRequest, Idle
    <3> QED
      BY <1>4, <2>3, <2>5, <3>1, RowsKept DEF Grown, End
  <2>8. IdentityNamesOneAccount'
    <3>1. \A a \in DOMAIN accounts : accounts'[a] = accounts[a]
      BY <1>t, <2>4, TableFacts
    <3>2. ASSUME NEW j \in Providers PROVE LivingOf(j)' = {identity'[j]} \ {None}
      <4>1. LivingOf(j) = {identity[j]} \ {None}
        BY DEF KakaoInv, IdentityNamesOneAccount
      <4>2. LivingOf(j)' = IF j = k THEN LivingOf(j) \cup {new} ELSE LivingOf(j)
        BY <2>1, <2>4, <2>5, <3>1 DEF LivingOf
      <4>3. identity[k] = None /\ new # None
        BY <1>3, <1>4, Bounds DEF CanCreate, IdentityFree
      <4>4. identity'[j] = IF j = k THEN new ELSE identity[j]
        BY <1>t, <1>4 DEF TypeOK
      <4> QED
        BY <4>1, <4>2, <4>3, <4>4
    <3> QED
      BY <3>2 DEF IdentityNamesOneAccount
  <2> QED
    BY <2>3, <2>6, <2>7, <2>8 DEF KakaoInv
<1>5. CASE Refused(r)
  BY <1>5, RefusedKeeps
<1> QED
  BY <1>1, <1>3, <1>4, <1>5 DEF createKakaoUser, createRefused

LEMMA RestoreKeeps ==
  ASSUME KakaoInv, NEW r \in Requests, restoreIfWithinGrace(r) PROVE KakaoInv'
<1>t. TypeOK
  BY DEF KakaoInv
<1>1. PICK user \in DOMAIN accounts : user = request[r].user
  BY DEF restoreIfWithinGrace, KakaoInv, RowsExist, SoundRequest
<1>2. CASE accounts[user].status = "leaving"
  <2> DEFINE e == [accounts[user] EXCEPT !.status = "active"]
  <2>1. /\ e \in Account /\ e.kakao = accounts[user].kakao /\ e.status = "active"
        /\ accounts' = [accounts EXCEPT ![user] = e]
    BY <1>t, <1>1, <1>2, TableFacts DEF restoreIfWithinGrace, Account
  <2> HIDE DEF e
  <2>2. /\ accounts' \in Seq(Account) /\ Len(accounts') = Len(accounts)
        /\ DOMAIN accounts' = DOMAIN accounts
        /\ \A b \in DOMAIN accounts : accounts'[b] = IF b = user THEN e ELSE accounts[b]
    BY <1>t, <2>1, AccountWritten
  <2>3. TypeOK'
    BY <1>t, <2>2, IdleRequest DEF restoreIfWithinGrace, TypeOK, End, Step
  <2>4. RowsExist'
    <3>1. SoundRequest(Idle)'
      BY DEF SoundRequest, Idle
    <3> QED
      BY <2>2, <3>1, RowsKept DEF restoreIfWithinGrace, Grown, End
  <2>5. IdentityNamesOneAccount'
    BY <1>2, <2>1, <2>2, LivingKept DEF restoreIfWithinGrace
  <2>6. SpentOnce'
    BY UnspentKeeps DEF restoreIfWithinGrace
  <2> QED
    BY <2>3, <2>4, <2>5, <2>6 DEF KakaoInv
<1>3. CASE accounts[user].status # "leaving"
  BY <1>1, <1>3, RefusedKeeps DEF restoreIfWithinGrace, Refused
<1> QED
  BY <1>2, <1>3

-----------------------------------------------------------------------------
(* The rest of the system *)

\* Without a request the rows that requests refer to stay.
LEMMA RowsStay ==
  ASSUME KakaoInv, Grown, UNCHANGED request,
         DOMAIN kakaoTokens' = DOMAIN kakaoTokens
  PROVE  RowsExist'
<1>1. \A v \in Requests : SoundRequest(request[v])
  BY DEF KakaoInv, RowsExist
<1>2. \A v \in Requests : SoundRequest(request[v])'
  BY <1>1 DEF SoundRequest, Grown
<1> QED
  BY <1>2 DEF KakaoInv, RowsExist, Grown

LEMMA ScheduleKeeps ==
  ASSUME KakaoInv, NEW a \in Ids, scheduleDeletion(a) PROVE KakaoInv'
<1>t. TypeOK
  BY DEF KakaoInv
<1> DEFINE e == [accounts[a] EXCEPT !.status = "leaving"]
<1>1. /\ e \in Account /\ e.kakao = accounts[a].kakao /\ e.status = "leaving"
      /\ accounts' = [accounts EXCEPT ![a] = e] /\ accounts[a].status = "active"
  BY <1>t, TableFacts DEF scheduleDeletion, Account
<1> HIDE DEF e
<1>2. /\ accounts' \in Seq(Account) /\ Len(accounts') = Len(accounts)
      /\ DOMAIN accounts' = DOMAIN accounts
      /\ \A b \in DOMAIN accounts : accounts'[b] = IF b = a THEN e ELSE accounts[b]
  BY <1>t, <1>1, AccountWritten DEF scheduleDeletion
<1>3. TypeOK'
  BY <1>t, <1>2 DEF scheduleDeletion, TypeOK
<1>4. RowsExist'
  BY <1>2, RowsStay DEF scheduleDeletion, Grown
<1>5. IdentityNamesOneAccount'
  BY <1>1, <1>2, LivingKept DEF scheduleDeletion
<1>6. SpentOnce'
  BY UnspentKeeps DEF scheduleDeletion
<1> QED
  BY <1>3, <1>4, <1>5, <1>6 DEF KakaoInv

LEMMA AnonymizeKeeps ==
  ASSUME KakaoInv, NEW a \in Ids, anonymizeDeletedAccount(a) PROVE KakaoInv'
<1>t. TypeOK
  BY DEF KakaoInv
<1> DEFINE e == [accounts[a] EXCEPT !.email = None, !.phone = None, !.status = "gone"]
<1>1. /\ e \in Account /\ e.kakao = accounts[a].kakao /\ e.status = "gone"
      /\ accounts' = [accounts EXCEPT ![a] = e]
  BY <1>t, TableFacts DEF anonymizeDeletedAccount, Account
<1> HIDE DEF e
<1>2. /\ accounts' \in Seq(Account) /\ Len(accounts') = Len(accounts)
      /\ DOMAIN accounts' = DOMAIN accounts
      /\ \A b \in DOMAIN accounts : accounts'[b] = IF b = a THEN e ELSE accounts[b]
  BY <1>t, <1>1, AccountWritten DEF anonymizeDeletedAccount
<1>3. /\ identity' \in [Providers -> Ids \cup {None}]
      /\ \A k \in Providers : identity'[k] = IF identity[k] = a THEN None ELSE identity[k]
  BY <1>t DEF anonymizeDeletedAccount, IdentitiesWithout, TypeOK
<1>4. TypeOK'
  BY <1>t, <1>2, <1>3 DEF anonymizeDeletedAccount, TypeOK
<1>5. RowsExist'
  BY <1>2, RowsStay DEF anonymizeDeletedAccount, Grown
<1>6. IdentityNamesOneAccount'
  <2>1. ASSUME NEW k \in Providers PROVE LivingOf(k)' = {identity'[k]} \ {None}
    <3>1. LivingOf(k) = {identity[k]} \ {None}
      BY DEF KakaoInv, IdentityNamesOneAccount
    <3>2. LivingOf(k)' = LivingOf(k) \ {a}
      BY <1>1, <1>2 DEF LivingOf
    <3> QED
      BY <1>3, <3>1, <3>2
  <2> QED
    BY <2>1 DEF IdentityNamesOneAccount
<1>7. SpentOnce'
  BY UnspentKeeps DEF anonymizeDeletedAccount
<1> QED
  BY <1>4, <1>5, <1>6, <1>7 DEF KakaoInv

LEMMA ExpireKeeps ==
  ASSUME KakaoInv,
         \/ \E t \in TokenIds : expireKakaoToken(t)
         \/ \E p \in PhoneTokens : expirePhoneToken(p)
  PROVE  KakaoInv'
<1>t. TypeOK
  BY DEF KakaoInv
<1>1. ASSUME NEW t \in TokenIds, expireKakaoToken(t) PROVE KakaoInv'
  <2>1. /\ kakaoTokens' \in Seq(KakaoToken) /\ Len(kakaoTokens') = Len(kakaoTokens)
        /\ DOMAIN kakaoTokens' = DOMAIN kakaoTokens
        /\ \A u \in DOMAIN kakaoTokens :
             /\ kakaoTokens'[u].user = kakaoTokens[u].user
             /\ kakaoTokens'[u].state = IF u = t THEN "expired" ELSE kakaoTokens[u].state
    BY <1>1, <1>t, TokenWritten DEF expireKakaoToken, TokenState
  <2>2. TypeOK'
    BY <1>1, <1>t, <2>1 DEF expireKakaoToken, TypeOK
  <2>3. RowsExist'
    BY <1>1, <2>1, RowsStay DEF expireKakaoToken, Grown
  <2>4. IdentityNamesOneAccount'
    BY <1>1, LivingKept DEF expireKakaoToken
  <2>5. SpentOnce'
    BY <1>1, <2>1, UnspentKeeps DEF expireKakaoToken
  <2> QED
    BY <2>2, <2>3, <2>4, <2>5 DEF KakaoInv
<1>2. ASSUME NEW p \in PhoneTokens, expirePhoneToken(p) PROVE KakaoInv'
  <2>1. /\ phoneTokens' \in [PhoneTokens -> TokenState]
        /\ \A v \in PhoneTokens : phoneTokens'[v] = "used" <=> phoneTokens[v] = "used"
    BY <1>2, <1>t DEF expirePhoneToken, TypeOK, TokenState
  <2>2. TypeOK'
    BY <1>2, <1>t, <2>1 DEF expirePhoneToken, TypeOK
  <2>3. RowsExist'
    BY <1>2, RowsStay DEF expirePhoneToken, Grown
  <2>4. IdentityNamesOneAccount'
    BY <1>2, LivingKept DEF expirePhoneToken
  <2>5. SpentOnce'
    BY <1>2, <2>1, UnspentKeeps DEF expirePhoneToken
  <2> QED
    BY <2>2, <2>3, <2>4, <2>5 DEF KakaoInv
<1> QED
  BY <1>1, <1>2

-----------------------------------------------------------------------------
(* The inductive invariant *)

LEMMA KakaoInit == Init => KakaoInv
<1> SUFFICES ASSUME Init PROVE KakaoInv
  OBVIOUS
<1>1. /\ accounts \in Seq(Account) /\ Len(accounts) <= MaxAccounts
      /\ \A a \in DOMAIN accounts : accounts[a].kakao = None
  <2>1. CASE accounts = <<>>
    BY <2>1, EmptySeq, Bounds
  <2>2. ASSUME NEW phone \in Phones, accounts = <<PhoneAccount(phone)>>
        PROVE  /\ accounts \in Seq(Account) /\ Len(accounts) <= MaxAccounts
               /\ \A a \in DOMAIN accounts : accounts[a].kakao = None
    <3>1. PhoneAccount(phone) \in Account /\ PhoneAccount(phone).kakao = None
      BY DEF PhoneAccount, Account
    <3>2. MaxAccounts \in Nat \ {0}
      BY KakaoConstants
    <3> QED
      BY <2>2, <3>1, <3>2
  <2> QED
    BY <2>1, <2>2 DEF Init
<1>2. kakaoTokens \in Seq(KakaoToken) /\ Len(kakaoTokens) = 0 /\ DOMAIN kakaoTokens = {}
  BY EmptySeq DEF Init
<1>3. TypeOK
  BY <1>1, <1>2, IdleRequest, Bounds DEF Init, TypeOK, TokenState
<1>4. RowsExist
  BY <1>2, IdleRequest DEF Init, RowsExist
<1>5. IdentityNamesOneAccount
  BY <1>1, KakaoConstants DEF Init, IdentityNamesOneAccount, LivingOf
<1>6. SpentOnce
  BY <1>2 DEF Init, SpentOnce, SpentBy
<1> QED
  BY <1>3, <1>4, <1>5, <1>6 DEF KakaoInv

LEMMA KakaoNext == KakaoInv /\ [Next]_vars => KakaoInv'
<1> SUFFICES ASSUME KakaoInv, [Next]_vars PROVE KakaoInv'
  OBVIOUS
<1>1. ASSUME NEW r \in Requests, NEW k \in Providers, NEW email \in EmailsOf(k),
             loginWithKakao(r, k, email) \/ loginWithKakaoAccessToken(r, k, email)
      PROVE  KakaoInv'
  BY <1>1, FindKeeps DEF loginWithKakao, loginWithKakaoAccessToken
<1>2. ASSUME NEW r \in Requests, abandon(r) PROVE KakaoInv'
  BY <1>2, RefusedKeeps DEF abandon
<1>3. CASE UNCHANGED vars
  BY <1>3 DEF vars, KakaoInv, TypeOK, RowsExist, SoundRequest, IdentityNamesOneAccount,
              LivingOf, SpentOnce
<1> QED
  BY <1>1, <1>2, <1>3, CompleteKeeps, ReadKeeps, MintKeeps, ConsumeKeeps, CheckKeeps,
     AttachKeeps, CreateKeeps, RestoreKeeps, ScheduleKeeps, AnonymizeKeeps, ExpireKeeps DEF Next

LEMMA KakaoAlways == Spec => []KakaoInv
  BY KakaoInit, KakaoNext, PTL DEF Spec

-----------------------------------------------------------------------------
(* Theorems *)

\* Every row and every suspended request keeps its type.
THEOREM KakaoTypes == Spec => []TypeOK
<1>1. KakaoInv => TypeOK
  BY DEF KakaoInv
<1> QED
  BY <1>1, KakaoAlways, PTL

\* Whatever sign-ups race, a Kakao user has at most one living account and
\* the identity names exactly that one.
THEOREM OneAccountPerIdentity == Spec => []IdentityNamesOneAccount
<1>1. KakaoInv => IdentityNamesOneAccount
  BY DEF KakaoInv
<1> QED
  BY <1>1, KakaoAlways, PTL

\* Every token is spent by one committed completion or by none: a transaction
\* that fails gives both of its tokens back.
THEOREM SpentTogether == Spec => []TokensSpentTogether
<1>1. KakaoInv => TokensSpentTogether
  <2>1. \A cs, used : SpentBy(cs, used) => Cardinality(cs) = IF used THEN 1 ELSE 0
    BY FS_Singleton, FS_EmptySet DEF SpentBy
  <2> QED
    BY <2>1 DEF KakaoInv, SpentOnce, TokensSpentTogether
<1> QED
  BY <1>1, KakaoAlways, PTL
=============================================================================

--------------------------- MODULE PhoneAuthProofs ---------------------------
(***************************************************************************)
(* Proofs about PhoneAuth, for every number of phones, addresses, devices, *)
(* codes, sessions and concurrent requests, and for every limit.           *)
(*                                                                         *)
(* The argument: what a reservation read stays true under its locks until  *)
(* it commits, a code's row is looked at again by every statement that     *)
(* changes it, and a refresh token that was exchanged is in no session.    *)
(***************************************************************************)
EXTENDS PhoneAuth, SequenceTheorems, FiniteSetTheorems, TLAPS

CodesFrom(ip) == {id \in Existing : verifications[id].ip = ip}
Since(ids, t) == {b \in ids : verifications[b].createdAt > t - Hour}
Within(ids, t) == {b \in Since(ids, t) : verifications[b].createdAt <= t}

IdSteps == {"sending", "activating", "deleting", "resetting", "minting", "claiming", "marking",
            "looking"}

\* What a request knows of codes: its own exists, and under its locks a
\* reservation still finds room, and no newer code.
CodeRequest(q) ==
    /\ q.step \in IdSteps => q.id \in DOMAIN verifications
    /\ q.step = "reserving" =>
         /\ q.at <= now
         /\ \A id \in CodesOf(q.phone) : verifications[id].createdAt <= q.at
         /\ Cardinality(Since(CodesOf(q.phone), q.at)) < PhoneLimit
         /\ Cardinality(Since(CodesFrom(q.ip), q.at)) < IpLimit

LocksHeld ==
    \A r, s \in Requests :
      r # s /\ request[r].step = "reserving" /\ request[s].step = "reserving" =>
        request[r].phone # request[s].phone /\ request[r].ip # request[s].ip

PhonesOrdered ==
    \A a, b \in Existing :
      a < b /\ verifications[a].phone = verifications[b].phone =>
        verifications[a].createdAt <= verifications[b].createdAt

\* The quotas of every hour, not only of those that end with a code.
HoursFull ==
    \A t \in Times :
      /\ \A phone \in Phones : Cardinality(Within(CodesOf(phone), t)) <= PhoneLimit
      /\ \A ip \in Ips : Cardinality(Within(CodesFrom(ip), t)) <= IpLimit

AcceptedMeansVerified ==
    \A id \in Codes :
      accepted[id] = IF id \in DOMAIN verifications /\ verifications[id].verified THEN 1 ELSE 0

CodeInv ==
    /\ \A r \in Requests : CodeRequest(request[r])
    /\ LocksHeld /\ PhonesOrdered /\ HoursFull /\ AcceptedMeansVerified
    /\ \A id \in Codes : phoneTokens[id] # None => id \in DOMAIN verifications

\* What a request knows of sessions: the one it rotates is unchanged as long
\* as its token is, and the one it issues is for an account that exists.
SessionRequest(q) ==
    /\ q.step = "rotating" =>
         /\ q.saved.token \in DOMAIN issued
         /\ LET s == sessions[<<q.user, q.device>>]
            IN  s # None /\ s.token = q.saved.token => s = q.saved
    /\ q.step = "issuing" => password[q.user] > 0

UsedTokens == {id \in DOMAIN verifications : phoneTokens[id] # None /\ phoneTokens[id].used}

OneUsed ==
    /\ \A id \in UsedTokens : password[verifications[id].phone] > 0
    /\ \A a, b \in UsedTokens : verifications[a].phone = verifications[b].phone => a = b

\* A session's refresh token is its account's and device's own, and has not
\* been exchanged.
SessionSound(s) ==
    sessions[s] # None =>
      /\ sessions[s].token \in DOMAIN issued
      /\ issued[sessions[s].token].exchanged = 0
      /\ <<issued[sessions[s].token].user, issued[sessions[s].token].device>> = s
      /\ sessions[s].password > 0
      /\ sessions[s].password = password[s[1]]

SessionInv ==
    /\ \A r \in Requests : SessionRequest(request[r])
    /\ OneUsed
    /\ \A s \in Phones \X Devices : SessionSound(s)
    /\ RotatedOnce

PhoneInv == TypeOK /\ CodeInv /\ SessionInv
-----------------------------------------------------------------------------
(* Rows and requests *)

LEMMA Limits ==
  /\ Cooldown \in Nat \ {0} /\ CodeTtl \in Nat \ {0} /\ Hour \in Nat \ {0}
  /\ PhoneLimit \in Nat \ {0} /\ IpLimit \in Nat \ {0}
  /\ TokenTtl \in Nat \ {0} /\ SessionTtl \in Nat \ {0}
  /\ MaxCodes \in Nat /\ MaxSessions \in Nat /\ MaxTime \in Nat
  /\ Purposes \subseteq AllPurposes
  BY PhoneAuthConstants

LEMMA RequestFacts ==
  ASSUME NEW q \in RequestType
  PROVE  /\ q.step \in {"idle", "reserving", "issuing", "rotating", "leaving"} \cup IdSteps
         /\ q.step = "idle" => q = Idle
         /\ q.step = "reserving" =>
              q.phone \in Phones /\ q.ip \in Ips /\ q.purpose \in AllPurposes /\ q.at \in Times
         /\ q.step \in IdSteps => q.id \in Codes
         /\ q.step = "claiming" => q.reset \in BOOLEAN
         /\ q.step \in {"claiming", "marking", "looking"} => q.device \in Devices
         /\ q.step \in {"issuing", "rotating", "leaving"} => q.user \in Phones /\ q.device \in Devices
         /\ q.step = "rotating" => q.saved \in Session
  BY DEF RequestType, Idle, IdSteps

LEMMA RequestOf ==
  ASSUME TypeOK, NEW r \in Requests PROVE request[r] \in RequestType
  BY DEF TypeOK

LEMMA Rows ==
  ASSUME NEW v \in Verification
  PROVE  /\ v.phone \in Phones /\ v.ip \in Ips /\ v.purpose \in AllPurposes
         /\ v.createdAt \in Times /\ v.createdAt \in Int /\ v.expiresAt \in Nat
         /\ v.codeHash \in {"pending", "hashed", "deleted"}
         /\ v.attemptCount \in Nat /\ v.verified \in BOOLEAN
  BY DEF Verification, Times

LEMMA TableFacts ==
  ASSUME TypeOK
  PROVE  /\ DOMAIN verifications = 1 .. Len(verifications) /\ Len(verifications) \in Nat
         /\ DOMAIN verifications \subseteq Codes
         /\ \A id \in DOMAIN verifications : verifications[id] \in Verification
         /\ DOMAIN issued = 1 .. Len(issued) /\ Len(issued) \in Nat
         /\ \A k \in DOMAIN issued : issued[k] \in RefreshToken
<1>1. verifications \in Seq(Verification) /\ issued \in Seq(RefreshToken)
  BY DEF TypeOK
<1>2. /\ DOMAIN verifications = 1 .. Len(verifications) /\ Len(verifications) \in Nat
      /\ DOMAIN issued = 1 .. Len(issued) /\ Len(issued) \in Nat
  BY <1>1, LenProperties
<1>3. DOMAIN verifications \subseteq Codes
  BY <1>2, Limits DEF TypeOK, Codes
<1> QED
  BY <1>1, <1>2, <1>3, ElementOfSeq

LEMMA Counts ==
  ASSUME TypeOK
  PROVE  /\ \A ids \in SUBSET DOMAIN verifications :
              IsFiniteSet(ids) /\ Cardinality(ids) \in Nat
         /\ \A big \in SUBSET DOMAIN verifications : \A ids \in SUBSET big :
              Cardinality(ids) <= Cardinality(big)
<1>1. IsFiniteSet(DOMAIN verifications)
  BY TableFacts, FS_Interval
<1>2. \A ids \in SUBSET DOMAIN verifications : IsFiniteSet(ids) /\ Cardinality(ids) \in Nat
  BY <1>1, FS_Subset, FS_CardinalityType
<1> QED
  BY <1>2, FS_Subset

\* A statement may change a code's row, and delete it, and nothing else.
RowsKept ==
    /\ DOMAIN verifications' = DOMAIN verifications
    /\ \A id \in DOMAIN verifications :
         /\ verifications'[id].phone = verifications[id].phone
         /\ verifications'[id].ip = verifications[id].ip
         /\ verifications'[id].createdAt = verifications[id].createdAt
         /\ verifications[id].codeHash = "deleted" => verifications'[id].codeHash = "deleted"

LEMMA RowWritten ==
  ASSUME TypeOK, NEW id \in DOMAIN verifications, NEW v \in Verification,
         verifications' = [verifications EXCEPT ![id] = v],
         v.phone = verifications[id].phone, v.ip = verifications[id].ip,
         v.createdAt = verifications[id].createdAt,
         verifications[id].codeHash = "deleted" => v.codeHash = "deleted"
  PROVE  /\ verifications' \in Seq(Verification) /\ Len(verifications') = Len(verifications)
         /\ \A b \in DOMAIN verifications :
              verifications'[b] = IF b = id THEN v ELSE verifications[b]
         /\ RowsKept
<1>1. verifications \in Seq(Verification) /\ id \in 1 .. Len(verifications)
  BY TableFacts DEF TypeOK
<1>2. /\ [verifications EXCEPT ![id] = v] \in Seq(Verification)
      /\ Len([verifications EXCEPT ![id] = v]) = Len(verifications)
  BY <1>1, ExceptSeq
<1>3. \A b \in DOMAIN verifications :
        verifications'[b] = IF b = id THEN v ELSE verifications[b]
  OBVIOUS
<1> QED
  BY <1>2, <1>3 DEF RowsKept

LEMMA KeptSets ==
  ASSUME TypeOK, RowsKept
  PROVE  /\ Existing' \subseteq Existing /\ Existing \subseteq DOMAIN verifications
         /\ \A phone : CodesOf(phone)' \subseteq CodesOf(phone)
         /\ \A t \in Times, phone \in Phones, n \in Nat :
              /\ Cardinality(Since(CodesOf(phone), t)) < n => Cardinality(Since(CodesOf(phone), t)') < n
              /\ Cardinality(Within(CodesOf(phone), t)) <= n =>
                   Cardinality(Within(CodesOf(phone), t)') <= n
         /\ \A t \in Times, ip \in Ips, n \in Nat :
              /\ Cardinality(Since(CodesFrom(ip), t)) < n => Cardinality(Since(CodesFrom(ip), t)') < n
              /\ Cardinality(Within(CodesFrom(ip), t)) <= n =>
                   Cardinality(Within(CodesFrom(ip), t)') <= n
<1>1. Existing' \subseteq Existing /\ Existing \subseteq DOMAIN verifications
  BY DEF Existing, RowsKept
<1>2. /\ \A phone : CodesOf(phone)' \subseteq CodesOf(phone) /\ CodesOf(phone) \subseteq Existing
      /\ \A ip : CodesFrom(ip)' \subseteq CodesFrom(ip) /\ CodesFrom(ip) \subseteq Existing
  BY <1>1 DEF CodesOf, CodesFrom, RowsKept
<1>3. ASSUME NEW big \in SUBSET DOMAIN verifications, NEW ids \in SUBSET big, NEW n \in Nat
      PROVE  /\ Cardinality(big) < n => Cardinality(ids) < n
             /\ Cardinality(big) <= n => Cardinality(ids) <= n
  <2>1. PICK a \in Nat, b \in Nat : a = Cardinality(ids) /\ b = Cardinality(big) /\ a <= b
    BY Counts
  <2> QED
    BY <2>1
<1>4. ASSUME NEW t \in Times, NEW phone \in Phones
      PROVE  /\ Since(CodesOf(phone), t)' \subseteq Since(CodesOf(phone), t)
             /\ Within(CodesOf(phone), t)' \subseteq Within(CodesOf(phone), t)
             /\ Since(CodesOf(phone), t) \subseteq DOMAIN verifications
             /\ Within(CodesOf(phone), t) \subseteq DOMAIN verifications
  BY <1>1, <1>2 DEF Since, Within, RowsKept
<1>5. ASSUME NEW t \in Times, NEW ip \in Ips
      PROVE  /\ Since(CodesFrom(ip), t)' \subseteq Since(CodesFrom(ip), t)
             /\ Within(CodesFrom(ip), t)' \subseteq Within(CodesFrom(ip), t)
             /\ Since(CodesFrom(ip), t) \subseteq DOMAIN verifications
             /\ Within(CodesFrom(ip), t) \subseteq DOMAIN verifications
  BY <1>1, <1>2 DEF Since, Within, RowsKept
<1> QED
  BY <1>1, <1>2, <1>3, <1>4, <1>5

LEMMA Moved ==
  ASSUME TypeOK, NEW r \in Requests, NEW q \in RequestType, Step(r, q)
  PROVE  /\ request' \in [Requests -> RequestType] /\ request'[r] = q
         /\ \A v \in Requests : v # r => request'[v] = request[v]
  BY DEF TypeOK, Step

LEMMA RowsSame ==
  ASSUME UNCHANGED verifications PROVE RowsKept
  BY DEF RowsKept

\* A step that reserves no code keeps what is known of the codes.
LEMMA CodesKept ==
  ASSUME PhoneInv, RowsKept, now' \in Nat, now <= now', request' \in [Requests -> RequestType],
         \A v \in Requests :
             \/ request'[v] = request[v]
             \/ /\ request'[v].step # "reserving"
                /\ request'[v].step \in IdSteps => request'[v].id \in DOMAIN verifications,
         AcceptedMeansVerified',
         \A id \in Codes : phoneTokens'[id] # None => id \in DOMAIN verifications
  PROVE  CodeInv'
<1>t. TypeOK /\ now \in Nat
  BY DEF PhoneInv, TypeOK, Times
<1>1. ASSUME NEW v \in Requests PROVE CodeRequest(request[v])'
  <2>1. PICK o \in RequestType : o = request'[v]
    OBVIOUS
  <2>2. CASE o.step # "reserving" /\ (o.step \in IdSteps => o.id \in DOMAIN verifications)
    BY <2>1, <2>2 DEF CodeRequest, RowsKept
  <2>3. CASE o = request[v] /\ o.step = "reserving"
    <3>1. /\ o.at <= now
          /\ \A id \in CodesOf(o.phone) : verifications[id].createdAt <= o.at
          /\ Cardinality(Since(CodesOf(o.phone), o.at)) < PhoneLimit
          /\ Cardinality(Since(CodesFrom(o.ip), o.at)) < IpLimit
      BY <2>3 DEF PhoneInv, CodeInv, CodeRequest
    <3>2. o.phone \in Phones /\ o.ip \in Ips /\ o.at \in Times
      BY <2>3, RequestFacts
    <3>3. o.at <= now'
      BY <1>t, <3>1, <3>2 DEF Times
    <3>4. \A id \in CodesOf(o.phone)' : verifications'[id].createdAt <= o.at
      <4> SUFFICES ASSUME NEW id \in CodesOf(o.phone)'
                   PROVE  verifications'[id].createdAt <= o.at
        OBVIOUS
      <4>1. id \in CodesOf(o.phone) /\ id \in DOMAIN verifications
        BY <1>t, KeptSets DEF CodesOf, Existing
      <4> QED
        BY <3>1, <4>1 DEF RowsKept
    <3>5. /\ Cardinality(Since(CodesOf(o.phone), o.at)') < PhoneLimit
          /\ Cardinality(Since(CodesFrom(o.ip), o.at)') < IpLimit
      BY <1>t, <3>1, <3>2, Limits, KeptSets
    <3> QED
      BY <2>1, <2>3, <3>3, <3>4, <3>5 DEF CodeRequest, IdSteps
  <2>4. CASE o = request[v] /\ o.step # "reserving"
    BY <2>1, <2>4 DEF PhoneInv, CodeInv, CodeRequest, RowsKept
  <2> QED
    BY <2>1, <2>2, <2>3, <2>4
<1>2. LocksHeld'
  BY DEF PhoneInv, CodeInv, LocksHeld
<1>3. PhonesOrdered'
  BY <1>t, KeptSets DEF PhoneInv, CodeInv, PhonesOrdered, RowsKept
<1>4. HoursFull'
  BY <1>t, KeptSets, Limits DEF PhoneInv, CodeInv, HoursFull
<1>5. \A id \in Codes : phoneTokens'[id] # None => id \in DOMAIN verifications'
  BY DEF RowsKept
<1> QED
  BY <1>1, <1>2, <1>3, <1>4, <1>5 DEF CodeInv

\* A step that changes no account and no session keeps what is known of them.
LEMMA SessionsKept ==
  ASSUME PhoneInv, RowsKept, UNCHANGED <<password, sessions, issued>>,
         \A v \in Requests : request'[v] = request[v] \/ SessionRequest(request'[v]),
         \A id \in DOMAIN verifications :
             phoneTokens'[id] # None /\ phoneTokens'[id].used =>
               phoneTokens[id] # None /\ phoneTokens[id].used
  PROVE  SessionInv'
<1>1. ASSUME NEW v \in Requests PROVE SessionRequest(request[v])'
  <2>1. SessionRequest(request'[v])
    BY DEF PhoneInv, SessionInv
  <2> QED
    BY <2>1 DEF SessionRequest
<1>2. OneUsed'
  <2>1. UsedTokens' \subseteq UsedTokens
    BY DEF UsedTokens, RowsKept
  <2>2. \A id \in UsedTokens : verifications'[id].phone = verifications[id].phone
    BY DEF UsedTokens, RowsKept
  <2> QED
    BY <2>1, <2>2 DEF PhoneInv, SessionInv, OneUsed
<1>3. \A s \in Phones \X Devices : SessionSound(s)'
  BY DEF PhoneInv, SessionInv, SessionSound
<1>4. RotatedOnce'
  BY DEF PhoneInv, SessionInv, RotatedOnce
<1> QED
  BY <1>1, <1>2, <1>3, <1>4 DEF SessionInv

LEMMA IdleRequest ==
  Idle \in RequestType /\ Idle.step = "idle"
  BY DEF RequestType, Idle

LEMMA StepTo ==
  ASSUME NEW q \in RequestType
  PROVE  /\ q.step \in {"sending", "activating"} =>
              \A st \in {"activating", "deleting"} :
                /\ [q EXCEPT !.step = st] \in RequestType
                /\ [q EXCEPT !.step = st].step = st /\ [q EXCEPT !.step = st].id = q.id
         /\ q.step = "marking" =>
              /\ [q EXCEPT !.step = "looking"] \in RequestType
              /\ [q EXCEPT !.step = "looking"].step = "looking"
              /\ [q EXCEPT !.step = "looking"].id = q.id
<1>1. ASSUME q.step \in {"sending", "activating"}, NEW st \in {"activating", "deleting"}
      PROVE  /\ [q EXCEPT !.step = st] \in RequestType
             /\ [q EXCEPT !.step = st].step = st /\ [q EXCEPT !.step = st].id = q.id
  <2>1. q \in [step : {"sending", "activating", "deleting", "resetting", "minting"}, id : Codes]
    BY <1>1 DEF RequestType, Idle
  <2>2. [q EXCEPT !.step = st] \in
          [step : {"sending", "activating", "deleting", "resetting", "minting"}, id : Codes]
    BY <2>1
  <2> QED
    BY <2>1, <2>2 DEF RequestType
<1>2. ASSUME q.step = "marking"
      PROVE  /\ [q EXCEPT !.step = "looking"] \in RequestType
             /\ [q EXCEPT !.step = "looking"].step = "looking"
             /\ [q EXCEPT !.step = "looking"].id = q.id
  <2>1. q \in [step : {"marking", "looking"}, id : Codes, device : Devices]
    BY <1>2 DEF RequestType, Idle
  <2>2. [q EXCEPT !.step = "looking"] \in [step : {"marking", "looking"}, id : Codes, device : Devices]
    BY <2>1
  <2> QED
    BY <2>1, <2>2 DEF RequestType
<1> QED
  BY <1>1, <1>2

\* Steps after which the request knows nothing of a session.
Plain(q) ==
    /\ q.step \in {"idle", "leaving"} \cup IdSteps
    /\ q.step \in IdSteps => q.id \in DOMAIN verifications

LEMMA PlainSessions ==
  ASSUME NEW q, Plain(q) PROVE SessionRequest(q) /\ q.step # "reserving"
  BY DEF Plain, SessionRequest, IdSteps

\* The request moves on.
LEMMA RequestMoves ==
  ASSUME PhoneInv, NEW r \in Requests, NEW q \in RequestType, Step(r, q),
         Plain(q) \/ (q.step \in {"rotating", "issuing"} /\ SessionRequest(q)),
         UNCHANGED <<now, verifications, phoneTokens, password, sessions, issued, accepted>>
  PROVE  PhoneInv'
<1>t. TypeOK /\ now \in Nat
  BY DEF PhoneInv, TypeOK, Times
<1>1. /\ request' \in [Requests -> RequestType] /\ request'[r] = q
      /\ \A v \in Requests : v # r => request'[v] = request[v]
  BY <1>t, Moved
<1>2. RowsKept
  BY RowsSame
<1>3. /\ SessionRequest(q) /\ q.step # "reserving"
      /\ q.step \in IdSteps => q.id \in DOMAIN verifications
  BY PlainSessions DEF Plain, IdSteps
<1>4. TypeOK'
  BY <1>t, <1>1 DEF TypeOK
<1>5. AcceptedMeansVerified' /\ \A id \in Codes : phoneTokens'[id] # None => id \in DOMAIN verifications
  BY DEF PhoneInv, CodeInv, AcceptedMeansVerified
<1>6. CodeInv'
  BY <1>t, <1>1, <1>2, <1>3, <1>5, CodesKept
<1>7. SessionInv'
  BY <1>1, <1>2, <1>3, SessionsKept
<1> QED
  BY <1>4, <1>6, <1>7 DEF PhoneInv

\* The request moves on and writes the row of a code.
LEMMA CodeMoves ==
  ASSUME PhoneInv, NEW r \in Requests, NEW q \in RequestType, Step(r, q), Plain(q),
         NEW id \in DOMAIN verifications, NEW v \in Verification,
         verifications' = [verifications EXCEPT ![id] = v],
         v.phone = verifications[id].phone, v.ip = verifications[id].ip,
         v.createdAt = verifications[id].createdAt, v.verified = verifications[id].verified,
         verifications[id].codeHash = "deleted" => v.codeHash = "deleted",
         UNCHANGED <<now, phoneTokens, password, sessions, issued, accepted>>
  PROVE  PhoneInv'
<1>t. TypeOK /\ now \in Nat
  BY DEF PhoneInv, TypeOK, Times
<1>1. /\ request' \in [Requests -> RequestType] /\ request'[r] = q
      /\ \A u \in Requests : u # r => request'[u] = request[u]
  BY <1>t, Moved
<1>2. /\ RowsKept /\ verifications' \in Seq(Verification) /\ Len(verifications') = Len(verifications)
      /\ \A b \in DOMAIN verifications : verifications'[b] = IF b = id THEN v ELSE verifications[b]
  BY <1>t, RowWritten
<1>3. SessionRequest(q) /\ q.step # "reserving" /\ (q.step \in IdSteps => q.id \in DOMAIN verifications)
  BY PlainSessions DEF Plain
<1>4. TypeOK'
  BY <1>t, <1>1, <1>2 DEF TypeOK
<1>5. AcceptedMeansVerified' /\ \A b \in Codes : phoneTokens'[b] # None => b \in DOMAIN verifications
  BY <1>2 DEF PhoneInv, CodeInv, AcceptedMeansVerified, RowsKept
<1>6. CodeInv'
  BY <1>t, <1>1, <1>2, <1>3, <1>5, CodesKept
<1>7. SessionInv'
  BY <1>1, <1>2, <1>3, SessionsKept
<1> QED
  BY <1>4, <1>6, <1>7 DEF PhoneInv
-----------------------------------------------------------------------------
(* Requesting a code *)

LEMMA SendKeeps ==
  ASSUME PhoneInv, NEW r \in Requests, sendCode(r) \/ sendOrActivateFails(r) PROVE PhoneInv'
<1>t. TypeOK
  BY DEF PhoneInv
<1>1. PICK o \in RequestType : o = request[r] /\ o.step \in {"sending", "activating"}
  BY <1>t, RequestOf DEF sendCode, sendOrActivateFails
<1>2. o.id \in DOMAIN verifications /\ o.id \in Codes
  BY <1>1, RequestFacts DEF PhoneInv, CodeInv, CodeRequest, IdSteps
<1>3. PICK st \in {"activating", "deleting"} : Step(r, [o EXCEPT !.step = st])
  BY <1>1 DEF sendCode, sendOrActivateFails
<1> DEFINE q == [o EXCEPT !.step = st]
<1>4. q \in RequestType /\ q.step = st /\ q.id = o.id
  <2>1. o.step \in {"sending", "activating"} /\ st \in {"activating", "deleting"}
    BY <1>1
  <2> QED
    BY <2>1, StepTo
<1>5. Step(r, q)
  BY <1>3
<1> HIDE DEF q
<1>6. Plain(q)
  BY <1>2, <1>4 DEF Plain, IdSteps
<1> QED
  BY <1>4, <1>5, <1>6, RequestMoves DEF sendCode, sendOrActivateFails

LEMMA BeginKeeps ==
  ASSUME PhoneInv, NEW r \in Requests, NEW phone \in Phones, NEW ip \in Ips,
         NEW purpose \in Purposes, beginReservation(r, phone, ip, purpose)
  PROVE  PhoneInv'
<1>t. TypeOK /\ now \in Times
  BY DEF PhoneInv, TypeOK
<1>s. UNCHANGED <<now, verifications, phoneTokens, password, sessions, issued, accepted>>
  BY DEF beginReservation
<1> DEFINE q == [step |-> "reserving", phone |-> phone, ip |-> ip, purpose |-> purpose, at |-> now]
<1>1. /\ q \in RequestType /\ q.step = "reserving" /\ q.phone = phone /\ q.ip = ip
      /\ q.at = now /\ Step(r, q)
  BY <1>t, Limits DEF RequestType, beginReservation
<1> HIDE DEF q
<1>2. /\ request' \in [Requests -> RequestType] /\ request'[r] = q
      /\ \A v \in Requests : v # r => request'[v] = request[v]
  BY <1>t, <1>1, Moved
<1>3. TypeOK'
  BY <1>t, <1>s, <1>2 DEF TypeOK
<1>4. CodeRequest(q)
  <2>1. \A id \in CodesOf(phone) : verifications[id].createdAt <= now
    <3> SUFFICES ASSUME NEW id \in CodesOf(phone) PROVE verifications[id].createdAt <= now
      OBVIOUS
    <3>1. PICK c \in Nat : c = verifications[id].createdAt
      BY <1>t, TableFacts, Rows DEF CodesOf, Existing, Times
    <3>2. now - c >= Cooldown
      BY <3>1 DEF beginReservation, Admitted
    <3> QED
      BY <1>t, <3>1, <3>2, Limits DEF Times
  <2>2. /\ {id \in CodesOf(phone) : Recent(id)} = Since(CodesOf(phone), now)
        /\ {id \in Existing : verifications[id].ip = ip /\ Recent(id)} = Since(CodesFrom(ip), now)
    BY DEF Recent, Since, CodesFrom
  <2>3. /\ Cardinality(Since(CodesOf(phone), now)) < PhoneLimit
        /\ Cardinality(Since(CodesFrom(ip), now)) < IpLimit
    BY <2>2 DEF beginReservation, Admitted
  <2> QED
    BY <1>t, <1>1, <2>1, <2>3 DEF CodeRequest, IdSteps, Times
<1>5. ASSUME NEW v \in Requests PROVE CodeRequest(request[v])'
  <2>1. CodeRequest(request'[v])
    BY <1>2, <1>4 DEF PhoneInv, CodeInv
  <2> QED
    BY <1>s, <2>1 DEF CodeRequest, CodesOf, CodesFrom, Since, Existing
<1>6. LocksHeld'
  <2>1. \A v \in Requests : v # r /\ request[v].step = "reserving" =>
          request[v].phone # phone /\ request[v].ip # ip
    BY DEF beginReservation, LocksFree, Reserving
  <2> QED
    BY <1>1, <1>2, <2>1 DEF PhoneInv, CodeInv, LocksHeld
<1>7. PhonesOrdered' /\ HoursFull' /\ AcceptedMeansVerified'
  BY <1>s DEF PhoneInv, CodeInv, PhonesOrdered, HoursFull, AcceptedMeansVerified, CodesOf,
              CodesFrom, Since, Within, Existing
<1>8. CodeInv'
  BY <1>s, <1>5, <1>6, <1>7 DEF PhoneInv, CodeInv
<1>9. SessionInv'
  <2>1. SessionRequest(q)
    BY <1>1 DEF SessionRequest
  <2> QED
    BY <1>s, <1>2, <2>1, RowsSame, SessionsKept
<1> QED
  BY <1>3, <1>8, <1>9 DEF PhoneInv

LEMMA ActivateKeeps ==
  ASSUME PhoneInv, NEW r \in Requests, NEW answered \in BOOLEAN, activateVerification(r, answered)
  PROVE  PhoneInv'
<1>t. TypeOK
  BY DEF PhoneInv
<1>s. UNCHANGED <<now, phoneTokens, password, sessions, issued, accepted>>
  BY DEF activateVerification
<1>1. PICK o \in RequestType : o = request[r] /\ o.step = "activating"
  BY <1>t, RequestOf DEF activateVerification
<1>2. PICK id \in DOMAIN verifications : id = o.id /\ id \in Codes
  BY <1>1, RequestFacts DEF PhoneInv, CodeInv, CodeRequest, IdSteps
<1>3. PICK d \in RequestType : d = [o EXCEPT !.step = "deleting"] /\ d.step = "deleting" /\ d.id = id
  BY <1>1, <1>2, StepTo
<1>4. PICK q \in RequestType : Step(r, q) /\ (q = Idle \/ q = d)
  BY <1>1, <1>3, IdleRequest DEF activateVerification
<1>5. Plain(q)
  BY <1>2, <1>3, <1>4, IdleRequest DEF Plain, IdSteps
<1>6. CASE UNCHANGED verifications
  BY <1>s, <1>4, <1>5, <1>6, RequestMoves
<1>7. CASE /\ CanActivate(id)
           /\ verifications' = [verifications EXCEPT ![id].codeHash = "hashed",
                                                     ![id].expiresAt = now + CodeTtl]
  <2>1. verifications[id] \in Verification /\ now + CodeTtl \in Nat
    BY <1>t, TableFacts, Limits DEF TypeOK, Times
  <2> DEFINE v == [verifications[id] EXCEPT !.codeHash = "hashed", !.expiresAt = now + CodeTtl]
  <2>2. /\ v \in Verification /\ v.phone = verifications[id].phone /\ v.ip = verifications[id].ip
        /\ v.createdAt = verifications[id].createdAt /\ v.verified = verifications[id].verified
    BY <2>1 DEF Verification
  <2>3. verifications' = [verifications EXCEPT ![id] = v]
    BY <1>7
  <2>4. verifications[id].codeHash # "deleted"
    BY <1>7 DEF CanActivate
  <2> HIDE DEF v
  <2> QED
    BY <1>s, <1>4, <1>5, <2>2, <2>3, <2>4, CodeMoves
<1> QED
  BY <1>1, <1>2, <1>6, <1>7 DEF activateVerification

LEMMA DeleteKeeps ==
  ASSUME PhoneInv, NEW r \in Requests, deleteVerification(r) PROVE PhoneInv'
<1>t. TypeOK
  BY DEF PhoneInv
<1>s. UNCHANGED <<now, phoneTokens, password, sessions, issued, accepted>>
  BY DEF deleteVerification
<1>1. PICK o \in RequestType : o = request[r] /\ o.step = "deleting"
  BY <1>t, RequestOf DEF deleteVerification
<1>2. PICK id \in DOMAIN verifications : id = o.id
  BY <1>1 DEF PhoneInv, CodeInv, CodeRequest, IdSteps
<1>3. verifications[id] \in Verification
  BY <1>t, TableFacts
<1> DEFINE v == [verifications[id] EXCEPT !.codeHash = "deleted"]
<1>4. /\ v \in Verification /\ v.phone = verifications[id].phone /\ v.ip = verifications[id].ip
      /\ v.createdAt = verifications[id].createdAt /\ v.verified = verifications[id].verified
      /\ v.codeHash = "deleted"
  BY <1>3 DEF Verification
<1>5. verifications' = [verifications EXCEPT ![id] = v]
  BY <1>1, <1>2 DEF deleteVerification
<1>6. Step(r, Idle) /\ Plain(Idle)
  BY IdleRequest DEF deleteVerification, End, Plain, IdSteps
<1> HIDE DEF v
<1> QED
  BY <1>s, <1>4, <1>5, <1>6, IdleRequest, CodeMoves

\* A reservation commits: under its locks there still is room in every hour
\* that the new code falls into.
LEMMA RoomLeft ==
  ASSUME TypeOK, NEW ids \in SUBSET DOMAIN verifications, NEW new, NEW at \in Times, NEW t \in Times,
         NEW limit \in Nat, NEW after,
         Cardinality(Since(ids, at)) < limit, Cardinality(Within(ids, t)) <= limit,
         after \subseteq Within(ids, t) \cup {new}, new \in after => at <= t
  PROVE  Cardinality(after) <= limit
<1>1. /\ Since(ids, at) \subseteq DOMAIN verifications
      /\ Within(ids, t) \subseteq DOMAIN verifications
      /\ IsFiniteSet(Since(ids, at)) /\ IsFiniteSet(Within(ids, t))
  BY Counts DEF Since, Within
<1>2. PICK a \in Nat, w \in Nat : a = Cardinality(Since(ids, at)) /\ w = Cardinality(Within(ids, t))
  BY <1>1, Counts
<1>3. CASE new \notin after
  <2>1. after \subseteq Within(ids, t)
    BY <1>3
  <2> QED
    BY <1>1, <2>1, FS_Subset, FS_CardinalityType
<1>4. CASE new \in after
  <2>1. Within(ids, t) \subseteq Since(ids, at)
    <3> SUFFICES ASSUME NEW b \in Within(ids, t) PROVE b \in Since(ids, at)
      OBVIOUS
    <3>1. PICK c \in Nat : c = verifications[b].createdAt
      BY TableFacts, Rows DEF Within, Since, Times
    <3>2. c > t - Hour /\ b \in ids
      BY <3>1 DEF Within, Since
    <3>3. c > at - Hour
      BY <1>4, <3>1, <3>2, Limits DEF Times
    <3> QED
      BY <3>1, <3>2, <3>3 DEF Since
  <2>2. after \subseteq Since(ids, at) \cup {new}
    BY <2>1
  <2>3. /\ IsFiniteSet(Since(ids, at) \cup {new})
        /\ Cardinality(Since(ids, at) \cup {new}) \in {a, a + 1}
    BY <1>1, <1>2, FS_AddElement
  <2>4. PICK n \in Nat : n = Cardinality(after) /\ n <= Cardinality(Since(ids, at) \cup {new})
    BY <2>2, <2>3, FS_Subset, FS_CardinalityType
  <2> QED
    BY <1>2, <2>3, <2>4
<1> QED
  BY <1>3, <1>4

LEMMA CommitKeeps ==
  ASSUME PhoneInv, NEW r \in Requests, commitReservation(r) PROVE PhoneInv'
<1>t. TypeOK
  BY DEF PhoneInv
<1>s. UNCHANGED <<now, phoneTokens, password, sessions, issued, accepted>>
  BY DEF commitReservation
<1>1. PICK o \in RequestType : o = request[r] /\ o.step = "reserving"
  BY <1>t, RequestOf DEF commitReservation
<1>2. o.phone \in Phones /\ o.ip \in Ips /\ o.purpose \in AllPurposes /\ o.at \in Times
  BY <1>1, RequestFacts
<1>3. CodeRequest(o)
  BY <1>1 DEF PhoneInv, CodeInv
<1> DEFINE row == [phone |-> o.phone, ip |-> o.ip, purpose |-> o.purpose, createdAt |-> o.at,
                   expiresAt |-> o.at, codeHash |-> "pending", attemptCount |-> 0,
                   verified |-> FALSE]
<1>4. /\ row \in Verification /\ row.phone = o.phone /\ row.ip = o.ip /\ row.createdAt = o.at
      /\ row.codeHash = "pending" /\ row.verified = FALSE
  BY <1>2, Limits DEF Verification, Times
<1>5. verifications' = Append(verifications, row)
  BY <1>1 DEF commitReservation
<1> HIDE DEF row
<1>6. PICK new \in Codes : new = Len(verifications) + 1 /\ new \notin DOMAIN verifications
  BY <1>t, TableFacts, Limits DEF commitReservation, Codes
<1>7. /\ verifications' \in Seq(Verification) /\ Len(verifications') = new
      /\ DOMAIN verifications' = DOMAIN verifications \cup {new}
      /\ verifications'[new] = row
      /\ \A id \in DOMAIN verifications : verifications'[id] = verifications[id]
      /\ \A id \in DOMAIN verifications : id < new
  <2>1. verifications \in Seq(Verification) /\ DOMAIN verifications = 1 .. Len(verifications)
    BY <1>t, TableFacts DEF TypeOK
  <2>2. /\ verifications' \in Seq(Verification) /\ Len(verifications') = Len(verifications) + 1
        /\ \A i \in 1 .. Len(verifications) : verifications'[i] = verifications[i]
        /\ verifications'[Len(verifications) + 1] = row
    BY <1>4, <1>5, <2>1, AppendProperties
  <2>3. DOMAIN verifications' = 1 .. (Len(verifications) + 1)
    BY <2>2, LenProperties
  <2> QED
    BY <1>6, <2>1, <2>2, <2>3, <1>t, TableFacts
<1> DEFINE q == [step |-> "sending", id |-> new]
<1>8. q \in RequestType /\ q.step = "sending" /\ q.id = new /\ Step(r, q)
  BY <1>6 DEF RequestType, commitReservation
<1> HIDE DEF q
<1>9. /\ request' \in [Requests -> RequestType] /\ request'[r] = q
      /\ \A v \in Requests : v # r => request'[v] = request[v]
  BY <1>t, <1>8, Moved
<1>10. TypeOK'
  BY <1>t, <1>s, <1>6, <1>7, <1>9 DEF TypeOK, Codes
<1>11. /\ Existing' = Existing \cup {new}
       /\ \A phone : CodesOf(phone)' = CodesOf(phone) \cup (IF phone = o.phone THEN {new} ELSE {})
       /\ \A ip : CodesFrom(ip)' = CodesFrom(ip) \cup (IF ip = o.ip THEN {new} ELSE {})
       /\ Existing \subseteq DOMAIN verifications
       /\ \A phone : CodesOf(phone) \subseteq DOMAIN verifications
       /\ \A ip : CodesFrom(ip) \subseteq DOMAIN verifications
  <2>1. Existing' = Existing \cup {new} /\ Existing \subseteq DOMAIN verifications
    BY <1>4, <1>7 DEF Existing
  <2> QED
    BY <1>4, <1>6, <1>7, <2>1 DEF CodesOf, CodesFrom
<1>12. ASSUME NEW v \in Requests PROVE CodeRequest(request[v])'
  <2>1. CASE v = r
    BY <1>7, <1>8, <1>9, <2>1 DEF CodeRequest, IdSteps
  <2>2. CASE v # r
    <3>1. PICK p \in RequestType : p = request[v] /\ p = request'[v]
      BY <1>t, <1>9, <2>2, RequestOf
    <3>2. CodeRequest(p)
      BY <3>1 DEF PhoneInv, CodeInv
    <3>3. CASE p.step = "reserving"
      <4>1. p.phone # o.phone /\ p.ip # o.ip
        BY <1>1, <2>2, <3>1, <3>3 DEF PhoneInv, CodeInv, LocksHeld
      <4>2. CodesOf(p.phone)' = CodesOf(p.phone) /\ CodesFrom(p.ip)' = CodesFrom(p.ip)
        BY <1>11, <4>1
      <4>3. /\ \A id \in CodesOf(p.phone) : verifications'[id] = verifications[id]
            /\ \A id \in CodesFrom(p.ip) : verifications'[id] = verifications[id]
        BY <1>7, <1>11
      <4>4. /\ Since(CodesOf(p.phone), p.at)' = Since(CodesOf(p.phone), p.at)
            /\ Since(CodesFrom(p.ip), p.at)' = Since(CodesFrom(p.ip), p.at)
        BY <4>2, <4>3 DEF Since
      <4> QED
        BY <1>s, <3>1, <3>2, <3>3, <4>2, <4>3, <4>4 DEF CodeRequest, IdSteps
    <3>4. CASE p.step # "reserving"
      BY <1>7, <3>1, <3>2, <3>4 DEF CodeRequest
    <3> QED
      BY <3>3, <3>4
  <2> QED
    BY <2>1, <2>2
<1>13. LocksHeld'
  BY <1>8, <1>9 DEF PhoneInv, CodeInv, LocksHeld
<1>14. PhonesOrdered'
  <2> SUFFICES ASSUME NEW a \in Existing', NEW b \in Existing', a < b,
                      verifications'[a].phone = verifications'[b].phone
               PROVE  verifications'[a].createdAt <= verifications'[b].createdAt
    BY DEF PhonesOrdered
  <2>1. CASE b = new
    <3>1. a \in Existing /\ a \in DOMAIN verifications
      BY <1>6, <1>11, <2>1
    <3>2. a \in CodesOf(o.phone)
      BY <1>4, <1>7, <2>1, <3>1 DEF CodesOf
    <3> QED
      BY <1>1, <1>3, <1>4, <1>7, <2>1, <3>1, <3>2 DEF CodeRequest
  <2>2. CASE b # new
    <3>1. b \in Existing /\ b \in DOMAIN verifications
      BY <1>11, <2>2
    <3>2. a # new
      BY <1>6, <1>7, <3>1, <1>t, TableFacts
    <3>3. a \in Existing /\ a \in DOMAIN verifications
      BY <1>11, <3>2
    <3> QED
      BY <1>7, <3>1, <3>3 DEF PhoneInv, CodeInv, PhonesOrdered
  <2> QED
    BY <2>1, <2>2
<1>15. HoursFull'
  <2>1. ASSUME NEW t \in Times, NEW ids \in SUBSET DOMAIN verifications, NEW S,
               S \subseteq ids \cup {new}
        PROVE  /\ {b \in S : verifications'[b].createdAt > t - Hour /\ verifications'[b].createdAt <= t}
                    \subseteq Within(ids, t) \cup {new}
               /\ new \in {b \in S : /\ verifications'[b].createdAt > t - Hour
                                     /\ verifications'[b].createdAt <= t} => o.at <= t
    BY <1>4, <1>7, <2>1 DEF Within, Since
  <2>2. ASSUME NEW t \in Times, NEW phone \in Phones
        PROVE  Cardinality(Within(CodesOf(phone), t)') <= PhoneLimit
    <3> DEFINE after == {b \in CodesOf(phone)' : /\ verifications'[b].createdAt > t - Hour
                                                /\ verifications'[b].createdAt <= t}
    <3>1. Within(CodesOf(phone), t)' = after
      BY DEF Within, Since
    <3>2. after \subseteq Within(CodesOf(phone), t) \cup {new} /\ (new \in after => o.at <= t)
      BY <1>11, <2>1
    <3>3. new \in after => phone = o.phone
      BY <1>6, <1>11
    <3>4. Cardinality(Within(CodesOf(phone), t)) <= PhoneLimit
      BY DEF PhoneInv, CodeInv, HoursFull
    <3>5. PICK lim \in Nat : lim = PhoneLimit
      BY Limits
    <3> HIDE DEF after
    <3>6. CASE phone = o.phone
      <4>1. Cardinality(Since(CodesOf(phone), o.at)) < lim
        BY <1>1, <1>3, <3>5, <3>6 DEF CodeRequest
      <4>2. Cardinality(after) <= lim
        BY <1>t, <1>2, <1>11, <3>2, <3>4, <3>5, <4>1, RoomLeft
      <4> QED
        BY <3>1, <3>5, <4>2
    <3>7. CASE phone # o.phone
      <4>1. after \subseteq Within(CodesOf(phone), t)
        BY <3>2, <3>3, <3>7
      <4>2. Within(CodesOf(phone), t) \subseteq DOMAIN verifications
        BY <1>11 DEF Within, Since
      <4>3. PICK a \in Nat, w \in Nat :
              a = Cardinality(after) /\ w = Cardinality(Within(CodesOf(phone), t)) /\ a <= w
        BY <1>t, <4>1, <4>2, Counts
      <4> QED
        BY <3>1, <3>4, <3>5, <4>3
    <3> QED
      BY <3>6, <3>7
  <2>3. ASSUME NEW t \in Times, NEW ip \in Ips
        PROVE  Cardinality(Within(CodesFrom(ip), t)') <= IpLimit
    <3> DEFINE after == {b \in CodesFrom(ip)' : /\ verifications'[b].createdAt > t - Hour
                                               /\ verifications'[b].createdAt <= t}
    <3>1. Within(CodesFrom(ip), t)' = after
      BY DEF Within, Since
    <3>2. after \subseteq Within(CodesFrom(ip), t) \cup {new} /\ (new \in after => o.at <= t)
      BY <1>11, <2>1
    <3>3. new \in after => ip = o.ip
      BY <1>6, <1>11
    <3>4. Cardinality(Within(CodesFrom(ip), t)) <= IpLimit
      BY DEF PhoneInv, CodeInv, HoursFull
    <3>5. PICK lim \in Nat : lim = IpLimit
      BY Limits
    <3> HIDE DEF after
    <3>6. CASE ip = o.ip
      <4>1. Cardinality(Since(CodesFrom(ip), o.at)) < lim
        BY <1>1, <1>3, <3>5, <3>6 DEF CodeRequest
      <4>2. Cardinality(after) <= lim
        BY <1>t, <1>2, <1>11, <3>2, <3>4, <3>5, <4>1, RoomLeft
      <4> QED
        BY <3>1, <3>5, <4>2
    <3>7. CASE ip # o.ip
      <4>1. after \subseteq Within(CodesFrom(ip), t)
        BY <3>2, <3>3, <3>7
      <4>2. Within(CodesFrom(ip), t) \subseteq DOMAIN verifications
        BY <1>11 DEF Within, Since
      <4>3. PICK a \in Nat, w \in Nat :
              a = Cardinality(after) /\ w = Cardinality(Within(CodesFrom(ip), t)) /\ a <= w
        BY <1>t, <4>1, <4>2, Counts
      <4> QED
        BY <3>1, <3>4, <3>5, <4>3
    <3> QED
      BY <3>6, <3>7
  <2> QED
    BY <2>2, <2>3 DEF HoursFull
<1>16. AcceptedMeansVerified' /\ \A id \in Codes : phoneTokens'[id] # None => id \in DOMAIN verifications'
  BY <1>s, <1>4, <1>6, <1>7 DEF PhoneInv, CodeInv, AcceptedMeansVerified
<1>17. SessionInv'
  <2>1. ASSUME NEW v \in Requests PROVE SessionRequest(request[v])'
    <3>1. SessionRequest(request'[v])
      BY <1>8, <1>9 DEF PhoneInv, SessionInv, SessionRequest
    <3> QED
      BY <1>s, <3>1 DEF SessionRequest
  <2>2. OneUsed'
    <3>1. new \notin UsedTokens'
      BY <1>s, <1>6 DEF PhoneInv, CodeInv, UsedTokens
    <3>2. UsedTokens' \subseteq UsedTokens
      BY <1>s, <1>7, <3>1 DEF UsedTokens
    <3> QED
      BY <1>s, <1>7, <3>2 DEF PhoneInv, SessionInv, OneUsed, UsedTokens
  <2>3. RotatedOnce' /\ \A s \in Phones \X Devices : SessionSound(s)'
    BY <1>s DEF PhoneInv, SessionInv, RotatedOnce, SessionSound
  <2> QED
    BY <2>1, <2>2, <2>3 DEF SessionInv
<1> QED
  BY <1>10, <1>12, <1>13, <1>14, <1>15, <1>16, <1>17 DEF PhoneInv, CodeInv
-----------------------------------------------------------------------------
(* Submitting a code *)

LEMMA UsableKeeps ==
  ASSUME PhoneInv, NEW r \in Requests, NEW phone \in Phones, NEW reset \in BOOLEAN,
         NEW device \in Devices, getUsableVerification(r, phone, reset, device)
  PROVE  PhoneInv'
<1>1. PICK id \in CodesOf(phone) :
        Step(r, [step |-> "claiming", id |-> id, reset |-> reset, device |-> device])
  BY DEF getUsableVerification
<1>2. id \in DOMAIN verifications /\ id \in Codes
  BY TableFacts DEF CodesOf, Existing, PhoneInv
<1> DEFINE q == [step |-> "claiming", id |-> id, reset |-> reset, device |-> device]
<1>3. q \in RequestType /\ Plain(q) /\ Step(r, q)
  BY <1>1, <1>2 DEF RequestType, Plain, IdSteps
<1> HIDE DEF q
<1> QED
  BY <1>3, RequestMoves DEF getUsableVerification

LEMMA EndKeeps ==
  ASSUME PhoneInv, NEW r \in Requests, End(r),
         UNCHANGED <<now, verifications, phoneTokens, password, sessions, issued, accepted>>
  PROVE  PhoneInv'
<1>1. Step(r, Idle) /\ Plain(Idle)
  BY IdleRequest DEF End, Plain, IdSteps
<1> QED
  BY <1>1, IdleRequest, RequestMoves

LEMMA ClaimKeeps ==
  ASSUME PhoneInv, NEW r \in Requests, NEW right \in BOOLEAN, claimVerificationAttempt(r, right)
  PROVE  PhoneInv'
<1>t. TypeOK
  BY DEF PhoneInv
<1>s. UNCHANGED <<now, phoneTokens, password, sessions, issued, accepted>>
  BY DEF claimVerificationAttempt
<1>1. PICK o \in RequestType : o = request[r] /\ o.step = "claiming"
  BY <1>t, RequestOf DEF claimVerificationAttempt
<1>2. PICK id \in DOMAIN verifications : id = o.id /\ id \in Codes /\ o.device \in Devices
  BY <1>1, RequestFacts DEF PhoneInv, CodeInv, CodeRequest, IdSteps
<1>3. CASE End(r) /\ UNCHANGED verifications
  BY <1>s, <1>3, EndKeeps
<1>4. CASE /\ verifications' = [verifications EXCEPT ![id].attemptCount = @ + 1]
           /\ Step(r, IF ~ right THEN Idle
                      ELSE IF o.reset THEN [step |-> "resetting", id |-> id]
                      ELSE [step |-> "marking", id |-> id, device |-> o.device])
  <2>1. PICK q \in RequestType : Step(r, q) /\ Plain(q)
    <3> DEFINE a == [step |-> "resetting", id |-> id]
               b == [step |-> "marking", id |-> id, device |-> o.device]
    <3>1. a \in RequestType /\ Plain(a) /\ b \in RequestType /\ Plain(b)
      BY <1>2 DEF RequestType, Plain, IdSteps
    <3>2. Idle \in RequestType /\ Plain(Idle)
      BY IdleRequest DEF Plain, IdSteps
    <3>3. Step(r, Idle) \/ Step(r, a) \/ Step(r, b)
      BY <1>4
    <3> HIDE DEF a, b
    <3> QED
      BY <3>1, <3>2, <3>3
  <2>2. verifications[id] \in Verification /\ verifications[id].attemptCount \in Nat
    BY <1>t, TableFacts, Rows
  <2> DEFINE v == [verifications[id] EXCEPT !.attemptCount = verifications[id].attemptCount + 1]
  <2>3. /\ v \in Verification /\ v.phone = verifications[id].phone /\ v.ip = verifications[id].ip
        /\ v.createdAt = verifications[id].createdAt /\ v.verified = verifications[id].verified
        /\ v.codeHash = verifications[id].codeHash
    BY <2>2 DEF Verification
  <2>4. verifications' = [verifications EXCEPT ![id] = v]
    BY <1>4
  <2> HIDE DEF v
  <2> QED
    BY <1>s, <2>1, <2>3, <2>4, CodeMoves
<1> QED
  BY <1>1, <1>2, <1>3, <1>4 DEF claimVerificationAttempt

\* A code that may be marked is not verified yet, and is then, once.
LEMMA AcceptFacts ==
  ASSUME PhoneInv, NEW id \in DOMAIN verifications, CanMark(id), Accept(id)
  PROVE  /\ verifications' \in Seq(Verification) /\ Len(verifications') = Len(verifications)
         /\ RowsKept /\ accepted' \in [Codes -> Nat] /\ AcceptedMeansVerified'
<1>t. TypeOK /\ id \in Codes /\ verifications[id] \in Verification
  BY TableFacts DEF PhoneInv
<1> DEFINE v == [verifications[id] EXCEPT !.verified = TRUE]
<1>1. /\ v \in Verification /\ v.phone = verifications[id].phone /\ v.ip = verifications[id].ip
      /\ v.createdAt = verifications[id].createdAt /\ v.verified = TRUE
      /\ v.codeHash = verifications[id].codeHash
  BY <1>t DEF Verification
<1>2. verifications' = [verifications EXCEPT ![id] = v]
  BY DEF Accept
<1> HIDE DEF v
<1>3. /\ verifications' \in Seq(Verification) /\ Len(verifications') = Len(verifications)
      /\ \A b \in DOMAIN verifications : verifications'[b] = IF b = id THEN v ELSE verifications[b]
      /\ RowsKept
  BY <1>t, <1>1, <1>2, RowWritten
<1>4. accepted[id] = 0
  BY <1>t DEF PhoneInv, CodeInv, AcceptedMeansVerified, CanMark
<1>5. \A b \in Codes : accepted'[b] = IF b = id THEN 1 ELSE accepted[b]
  BY <1>t, <1>4 DEF Accept, TypeOK
<1>6. accepted' \in [Codes -> Nat]
  BY <1>t, <1>4 DEF Accept, TypeOK
<1>7. AcceptedMeansVerified'
  BY <1>1, <1>3, <1>5 DEF PhoneInv, CodeInv, AcceptedMeansVerified, RowsKept
<1> QED
  BY <1>3, <1>6, <1>7

LEMMA MarkKeeps ==
  ASSUME PhoneInv, NEW r \in Requests, markVerified(r) PROVE PhoneInv'
<1>t. TypeOK /\ now \in Nat
  BY DEF PhoneInv, TypeOK, Times
<1>s. UNCHANGED <<now, phoneTokens, password, sessions, issued>>
  BY DEF markVerified
<1>1. PICK o \in RequestType : o = request[r] /\ o.step = "marking"
  BY <1>t, RequestOf DEF markVerified
<1>2. PICK id \in DOMAIN verifications : id = o.id
  BY <1>1 DEF PhoneInv, CodeInv, CodeRequest, IdSteps
<1>3. CASE End(r) /\ UNCHANGED <<verifications, accepted>>
  BY <1>s, <1>3, EndKeeps
<1>4. CASE CanMark(id) /\ Accept(id) /\ Step(r, [o EXCEPT !.step = "looking"])
  <2> DEFINE q == [o EXCEPT !.step = "looking"]
  <2>1. q \in RequestType /\ q.step = "looking" /\ q.id = id
    BY <1>1, <1>2, StepTo
  <2>2. Step(r, q)
    BY <1>4
  <2> HIDE DEF q
  <2>3. /\ request' \in [Requests -> RequestType] /\ request'[r] = q
        /\ \A v \in Requests : v # r => request'[v] = request[v]
    BY <1>t, <2>1, <2>2, Moved
  <2>4. /\ verifications' \in Seq(Verification) /\ Len(verifications') = Len(verifications)
        /\ RowsKept /\ accepted' \in [Codes -> Nat] /\ AcceptedMeansVerified'
    BY <1>4, AcceptFacts
  <2>5. TypeOK'
    BY <1>t, <1>s, <2>3, <2>4 DEF TypeOK
  <2>6. Plain(q)
    BY <2>1 DEF Plain, IdSteps
  <2>7. \A b \in Codes : phoneTokens'[b] # None => b \in DOMAIN verifications
    BY <1>s DEF PhoneInv, CodeInv
  <2>8. CodeInv'
    BY <1>t, <1>s, <2>1, <2>3, <2>4, <2>7, CodesKept
  <2>9. SessionInv'
    BY <1>s, <2>3, <2>4, <2>6, PlainSessions, SessionsKept
  <2> QED
    BY <2>5, <2>8, <2>9 DEF PhoneInv
<1> QED
  BY <1>1, <1>2, <1>3, <1>4 DEF markVerified

LEMMA LookKeeps ==
  ASSUME PhoneInv, NEW r \in Requests, findUserByPhone(r) PROVE PhoneInv'
<1>t. TypeOK
  BY DEF PhoneInv
<1>1. PICK o \in RequestType : o = request[r] /\ o.step = "looking"
  BY <1>t, RequestOf DEF findUserByPhone
<1>2. PICK id \in DOMAIN verifications : id = o.id /\ id \in Codes /\ o.device \in Devices
  BY <1>1, RequestFacts DEF PhoneInv, CodeInv, CodeRequest, IdSteps
<1>3. PICK phone \in Phones : phone = verifications[id].phone
  BY <1>t, TableFacts, Rows
<1>4. PICK pw \in Nat : pw = password[phone]
  BY <1>t DEF TypeOK
<1> DEFINE a == [step |-> "issuing", user |-> phone, device |-> o.device]
           b == [step |-> "minting", id |-> id]
<1>5. CASE pw > 0
  <2>1. Step(r, a)
    BY <1>1, <1>2, <1>3, <1>4, <1>5 DEF findUserByPhone, Issue
  <2>2. a \in RequestType /\ a.step = "issuing" /\ SessionRequest(a)
    BY <1>2, <1>4, <1>5 DEF RequestType, SessionRequest
  <2> HIDE DEF a
  <2> QED
    BY <2>1, <2>2, RequestMoves DEF findUserByPhone
<1>6. CASE ~ (pw > 0)
  <2>1. Step(r, b)
    BY <1>1, <1>2, <1>3, <1>4, <1>6 DEF findUserByPhone
  <2>2. b \in RequestType /\ Plain(b)
    BY <1>2 DEF RequestType, Plain, IdSteps
  <2> HIDE DEF b
  <2> QED
    BY <2>1, <2>2, RequestMoves DEF findUserByPhone
<1> QED
  BY <1>5, <1>6

LEMMA MintKeeps ==
  ASSUME PhoneInv, NEW r \in Requests, createPhoneVerificationToken(r) PROVE PhoneInv'
<1>t. TypeOK /\ now \in Nat
  BY DEF PhoneInv, TypeOK, Times
<1>s. UNCHANGED <<now, verifications, password, sessions, issued, accepted>> /\ Step(r, Idle)
  BY DEF createPhoneVerificationToken, End
<1>1. PICK o \in RequestType : o = request[r] /\ o.step = "minting"
  BY <1>t, RequestOf DEF createPhoneVerificationToken
<1>2. PICK id \in DOMAIN verifications : id = o.id /\ id \in Codes
  BY <1>1, RequestFacts DEF PhoneInv, CodeInv, CodeRequest, IdSteps
<1> DEFINE new == [used |-> FALSE, expiresAt |-> now + TokenTtl]
<1>3. new \in PhoneToken /\ new.used = FALSE
  BY <1>t, Limits DEF PhoneToken
<1>4. phoneTokens' = [phoneTokens EXCEPT ![id] = new]
  BY <1>1, <1>2 DEF createPhoneVerificationToken
<1> HIDE DEF new
<1>5. /\ phoneTokens' \in [Codes -> PhoneToken \cup {None}]
      /\ \A b \in Codes : phoneTokens'[b] = IF b = id THEN new ELSE phoneTokens[b]
  BY <1>t, <1>2, <1>3, <1>4 DEF TypeOK
<1>6. /\ request' \in [Requests -> RequestType] /\ request'[r] = Idle
      /\ \A v \in Requests : v # r => request'[v] = request[v]
  BY <1>t, <1>s, IdleRequest, Moved
<1>7. TypeOK'
  BY <1>t, <1>s, <1>5, <1>6 DEF TypeOK
<1>8. RowsKept /\ Plain(Idle)
  BY <1>s, RowsSame, IdleRequest DEF Plain, IdSteps
<1>9. CodeInv'
  <2>1. \A b \in Codes : phoneTokens'[b] # None => b \in DOMAIN verifications
    BY <1>2, <1>5 DEF PhoneInv, CodeInv
  <2>2. AcceptedMeansVerified'
    BY <1>s DEF PhoneInv, CodeInv, AcceptedMeansVerified
  <2> QED
    BY <1>t, <1>s, <1>6, <1>8, <2>1, <2>2, IdleRequest, CodesKept DEF IdSteps
<1>10. SessionInv'
  <2>1. \A b \in DOMAIN verifications :
          phoneTokens'[b] # None /\ phoneTokens'[b].used =>
            phoneTokens[b] # None /\ phoneTokens[b].used
    BY <1>t, <1>3, <1>5, TableFacts
  <2> QED
    BY <1>s, <1>6, <1>8, <2>1, PlainSessions, SessionsKept
<1> QED
  BY <1>7, <1>9, <1>10 DEF PhoneInv

\* The last part of every step: the request ends, or issues a session.
LEMMA AccountMoves ==
  ASSUME PhoneInv, NEW r \in Requests, NEW q \in RequestType, Step(r, q),
         q.step \in {"idle", "issuing"}, RowsKept,
         verifications' \in Seq(Verification), Len(verifications') = Len(verifications),
         accepted' \in [Codes -> Nat], AcceptedMeansVerified',
         phoneTokens' \in [Codes -> PhoneToken \cup {None}],
         \A b \in Codes : phoneTokens'[b] # None => phoneTokens[b] # None,
         password' \in [Phones -> Nat], sessions' \in [Phones \X Devices -> Session \cup {None}],
         issued' \in Seq(RefreshToken), Len(issued') <= MaxSessions, UNCHANGED now
  PROVE  /\ TypeOK' /\ CodeInv' /\ request'[r] = q
         /\ \A v \in Requests : v # r => request'[v] = request[v] /\ request[v] \in RequestType
<1>t. TypeOK /\ now \in Nat
  BY DEF PhoneInv, TypeOK, Times
<1>1. /\ request' \in [Requests -> RequestType] /\ request'[r] = q
      /\ \A v \in Requests : v # r => request'[v] = request[v] /\ request[v] \in RequestType
  BY <1>t, Moved, RequestOf
<1>2. TypeOK'
  BY <1>t, <1>1 DEF TypeOK
<1>3. \A b \in Codes : phoneTokens'[b] # None => b \in DOMAIN verifications
  BY DEF PhoneInv, CodeInv
<1>4. \A v \in Requests :
        \/ request'[v] = request[v]
        \/ /\ request'[v].step # "reserving"
           /\ request'[v].step \in IdSteps => request'[v].id \in DOMAIN verifications
  BY <1>1 DEF IdSteps
<1>5. CodeInv'
  BY <1>t, <1>1, <1>3, <1>4, CodesKept
<1> QED
  BY <1>1, <1>2, <1>5

LEMMA ResetKeeps ==
  ASSUME PhoneInv, NEW r \in Requests, resetPasswordWithVerification(r) PROVE PhoneInv'
<1>t. TypeOK
  BY DEF PhoneInv
<1>s. UNCHANGED <<now, phoneTokens, issued>> /\ Step(r, Idle)
  BY DEF resetPasswordWithVerification, End
<1>1. PICK o \in RequestType : o = request[r] /\ o.step = "resetting"
  BY <1>t, RequestOf DEF resetPasswordWithVerification
<1>2. PICK id \in DOMAIN verifications : id = o.id
  BY <1>1 DEF PhoneInv, CodeInv, CodeRequest, IdSteps
<1>3. PICK phone \in Phones : phone = verifications[id].phone
  BY <1>t, TableFacts, Rows
<1>4. CASE UNCHANGED <<verifications, accepted, password, sessions>>
  <2>1. End(r)
    BY DEF resetPasswordWithVerification
  <2> QED
    BY <1>s, <1>4, <2>1, EndKeeps
<1>5. CASE /\ CanMark(id) /\ Accept(id)
           /\ password' = [password EXCEPT ![phone] = @ + 1]
           /\ sessions' = [s \in Phones \X Devices |-> IF s[1] = phone THEN None ELSE sessions[s]]
  <2>1. /\ verifications' \in Seq(Verification) /\ Len(verifications') = Len(verifications)
        /\ RowsKept /\ accepted' \in [Codes -> Nat] /\ AcceptedMeansVerified'
    BY <1>5, AcceptFacts
  <2>2. /\ password' \in [Phones -> Nat]
        /\ \A p \in Phones : password'[p] = IF p = phone THEN password[p] + 1 ELSE password[p]
    BY <1>t, <1>5 DEF TypeOK
  <2>3. /\ sessions' \in [Phones \X Devices -> Session \cup {None}]
        /\ \A s \in Phones \X Devices : sessions'[s] = IF s[1] = phone THEN None ELSE sessions[s]
    BY <1>t, <1>5 DEF TypeOK
  <2>4. /\ TypeOK' /\ CodeInv' /\ request'[r] = Idle
        /\ \A v \in Requests : v # r => request'[v] = request[v] /\ request[v] \in RequestType
    BY <1>t, <1>s, <2>1, <2>2, <2>3, IdleRequest, AccountMoves DEF TypeOK
  <2>5. ASSUME NEW v \in Requests PROVE SessionRequest(request[v])'
    <3>1. CASE v = r
      BY <2>4, <3>1, IdleRequest DEF SessionRequest
    <3>2. CASE v # r
      <4>1. PICK q \in RequestType : q = request[v] /\ q = request'[v] /\ SessionRequest(q)
        BY <2>4, <3>2 DEF PhoneInv, SessionInv
      <4>2. q.step = "issuing" => password'[q.user] > 0
        <5>1. q.step = "issuing" => q.user \in Phones /\ password[q.user] \in Nat
          BY <1>t, RequestFacts DEF TypeOK
        <5> QED
          BY <2>2, <4>1, <5>1 DEF SessionRequest
      <4>3. q.step = "rotating" =>
              \/ sessions'[<<q.user, q.device>>] = None
              \/ sessions'[<<q.user, q.device>>] = sessions[<<q.user, q.device>>]
        BY <2>3, RequestFacts
      <4> QED
        BY <1>s, <4>1, <4>2, <4>3 DEF SessionRequest
    <3> QED
      BY <3>1, <3>2
  <2>6. OneUsed'
    <3>1. UsedTokens' = UsedTokens
      BY <1>s, <2>1 DEF UsedTokens, RowsKept
    <3>2. ASSUME NEW b \in UsedTokens PROVE password'[verifications'[b].phone] > 0
      <4>1. PICK p \in Phones : p = verifications[b].phone /\ p = verifications'[b].phone
        BY <1>t, <2>1, TableFacts, Rows DEF UsedTokens, RowsKept
      <4>2. PICK n \in Nat : n = password[p] /\ n > 0
        BY <1>t, <4>1 DEF PhoneInv, SessionInv, OneUsed, TypeOK
      <4> QED
        BY <2>2, <4>1, <4>2
    <3>3. \A a, b \in UsedTokens : verifications'[a].phone = verifications'[b].phone => a = b
      BY <2>1 DEF PhoneInv, SessionInv, OneUsed, UsedTokens, RowsKept
    <3> QED
      BY <3>1, <3>2, <3>3 DEF OneUsed
  <2>7. ASSUME NEW s \in Phones \X Devices PROVE SessionSound(s)'
    <3>1. SessionSound(s) /\ s[1] \in Phones
      BY DEF PhoneInv, SessionInv
    <3> QED
      BY <1>s, <2>2, <2>3, <3>1 DEF SessionSound
  <2>8. RotatedOnce'
    BY <1>s DEF PhoneInv, SessionInv, RotatedOnce
  <2> QED
    BY <2>4, <2>5, <2>6, <2>7, <2>8 DEF PhoneInv, SessionInv
<1> QED
  BY <1>1, <1>2, <1>3, <1>4, <1>5 DEF resetPasswordWithVerification
-----------------------------------------------------------------------------
(* Sign-up and sessions *)

LEMMA SignupKeeps ==
  ASSUME PhoneInv, NEW r \in Requests, NEW id \in Codes, NEW device \in Devices, signup(r, id, device)
  PROVE  PhoneInv'
<1>t. TypeOK
  BY DEF PhoneInv
<1>s. UNCHANGED <<now, verifications, sessions, issued, accepted>> /\ Consumable(id) /\ Consume(id)
  BY DEF signup
<1>1. id \in DOMAIN verifications /\ phoneTokens[id] \in PhoneToken /\ ~ phoneTokens[id].used
  BY <1>t, <1>s DEF Consumable, PhoneInv, CodeInv, TypeOK
<1>2. PICK phone \in Phones : phone = verifications[id].phone
  BY <1>t, <1>1, TableFacts, Rows
<1>3. password[phone] = 0 /\ password' = [password EXCEPT ![phone] = 1]
  BY <1>2 DEF signup
<1>4. /\ password' \in [Phones -> Nat]
      /\ \A p \in Phones : password'[p] = IF p = phone THEN 1 ELSE password[p]
  BY <1>t, <1>3 DEF TypeOK
<1> DEFINE q == [step |-> "issuing", user |-> phone, device |-> device]
<1>5. Step(r, q)
  BY <1>2 DEF signup, Issue
<1>6. /\ q \in RequestType /\ q.step = "issuing" /\ q.user = phone
  BY DEF RequestType
<1> HIDE DEF q
<1> DEFINE new == [phoneTokens[id] EXCEPT !.used = TRUE]
<1>7. new \in PhoneToken /\ new.used = TRUE
  BY <1>1 DEF PhoneToken
<1>8. phoneTokens' = [phoneTokens EXCEPT ![id] = new]
  BY <1>s DEF Consume
<1> HIDE DEF new
<1>9. /\ phoneTokens' \in [Codes -> PhoneToken \cup {None}]
      /\ \A b \in Codes : phoneTokens'[b] = IF b = id THEN new ELSE phoneTokens[b]
      /\ \A b \in Codes : phoneTokens'[b] # None => phoneTokens[b] # None
  BY <1>t, <1>s, <1>7, <1>8 DEF TypeOK, Consumable
<1>10. AcceptedMeansVerified'
  BY <1>s DEF PhoneInv, CodeInv, AcceptedMeansVerified
<1>11. /\ TypeOK' /\ CodeInv' /\ request'[r] = q
       /\ \A v \in Requests : v # r => request'[v] = request[v] /\ request[v] \in RequestType
  BY <1>t, <1>s, <1>4, <1>5, <1>6, <1>9, <1>10, RowsSame, AccountMoves DEF TypeOK
<1>12. ASSUME NEW v \in Requests PROVE SessionRequest(request[v])'
  <2>1. CASE v = r
    BY <1>4, <1>6, <1>11, <2>1 DEF SessionRequest
  <2>2. CASE v # r
    <3>1. PICK o \in RequestType : o = request[v] /\ o = request'[v] /\ SessionRequest(o)
      BY <1>11, <2>2 DEF PhoneInv, SessionInv
    <3>2. o.step = "issuing" => password'[o.user] > 0
      BY <1>3, <1>4, <3>1, RequestFacts DEF SessionRequest
    <3> QED
      BY <1>s, <3>1, <3>2 DEF SessionRequest
  <2> QED
    BY <2>1, <2>2
<1>13. OneUsed'
  <2>1. UsedTokens' \subseteq UsedTokens \cup {id}
    BY <1>t, <1>s, <1>9, TableFacts DEF UsedTokens
  <2>2. \A b \in UsedTokens :
          /\ verifications[b].phone \in Phones /\ verifications[b].phone # phone
          /\ password[verifications[b].phone] > 0
    BY <1>t, <1>3, TableFacts, Rows DEF PhoneInv, SessionInv, OneUsed, UsedTokens
  <2>3. \A b \in UsedTokens \cup {id} : password'[verifications[b].phone] > 0
    BY <1>2, <1>4, <2>2
  <2>4. \A a, b \in UsedTokens \cup {id} : verifications[a].phone = verifications[b].phone => a = b
    BY <1>2, <2>2 DEF PhoneInv, SessionInv, OneUsed
  <2> QED
    BY <1>s, <2>1, <2>3, <2>4 DEF OneUsed
<1>14. ASSUME NEW s \in Phones \X Devices PROVE SessionSound(s)'
  <2>1. SessionSound(s) /\ s[1] \in Phones
    BY DEF PhoneInv, SessionInv
  <2>2. sessions[s] # None => s[1] # phone
    BY <1>3, <2>1 DEF SessionSound
  <2> QED
    BY <1>s, <1>4, <2>1, <2>2 DEF SessionSound
<1>15. RotatedOnce'
  BY <1>s DEF PhoneInv, SessionInv, RotatedOnce
<1> QED
  BY <1>11, <1>12, <1>13, <1>14, <1>15 DEF PhoneInv, SessionInv

\* A new token takes the place of the session's old one, which alone may
\* have been exchanged for it.
LEMMA SaveKeeps ==
  ASSUME PhoneInv, NEW r \in Requests, Step(r, Idle), NEW user \in Phones, NEW device \in Devices,
         NEW pw \in Nat, pw > 0, pw = password[user],
         NEW earlier \in Seq(RefreshToken), Len(earlier) = Len(issued),
         \A k \in DOMAIN issued :
             /\ earlier[k].user = issued[k].user /\ earlier[k].device = issued[k].device
             /\ earlier[k].exchanged <= 1
             /\ \/ earlier[k].exchanged = issued[k].exchanged
                \/ sessions[<<user, device>>] # None /\ sessions[<<user, device>>].token = k,
         Save(user, device, pw, earlier),
         UNCHANGED <<now, verifications, phoneTokens, password, accepted>>
  PROVE  PhoneInv'
<1>t. TypeOK /\ now \in Nat
  BY DEF PhoneInv, TypeOK, Times
<1>u. <<user, device>> \in Phones \X Devices
  OBVIOUS
<1>1. now + SessionTtl \in Nat /\ Len(issued) \in Nat /\ DOMAIN issued = 1 .. Len(issued)
  BY <1>t, Limits, TableFacts
<1> DEFINE row == [user |-> user, device |-> device, exp |-> now + SessionTtl, exchanged |-> 0]
<1>2. /\ row \in RefreshToken /\ row.user = user /\ row.device = device /\ row.exchanged = 0
  BY <1>1 DEF RefreshToken
<1>3. issued' = Append(earlier, row) /\ Len(issued) < MaxSessions
  BY DEF Save
<1> HIDE DEF row
<1>4. PICK n \in Nat : n = Len(issued) + 1 /\ n \notin DOMAIN issued
  BY <1>1
<1>5. /\ issued' \in Seq(RefreshToken) /\ Len(issued') = n /\ Len(issued') <= MaxSessions
      /\ DOMAIN issued' = DOMAIN issued \cup {n} /\ issued'[n] = row
      /\ \A k \in DOMAIN issued : issued'[k] = earlier[k]
  <2>1. /\ issued' \in Seq(RefreshToken) /\ Len(issued') = Len(earlier) + 1
        /\ \A i \in 1 .. Len(earlier) : issued'[i] = earlier[i]
        /\ issued'[Len(earlier) + 1] = row
    BY <1>2, <1>3, AppendProperties
  <2>2. DOMAIN issued' = 1 .. (Len(issued) + 1)
    BY <2>1, LenProperties
  <2> QED
    BY <1>1, <1>3, <1>4, <2>1, <2>2, Limits
<1> DEFINE new == [token |-> Len(issued) + 1, exp |-> now + SessionTtl, password |-> pw]
<1>6. new \in Session /\ new.token = n /\ new.password = pw
  BY <1>1, <1>4 DEF Session
<1>7. sessions' = [sessions EXCEPT ![<<user, device>>] = new]
  BY DEF Save
<1> HIDE DEF new
<1>8. /\ sessions' \in [Phones \X Devices -> Session \cup {None}]
      /\ \A s \in Phones \X Devices :
           sessions'[s] = IF s = <<user, device>> THEN new ELSE sessions[s]
  BY <1>t, <1>u, <1>6, <1>7 DEF TypeOK
<1>9. AcceptedMeansVerified'
  BY DEF PhoneInv, CodeInv, AcceptedMeansVerified
<1>10. /\ TypeOK' /\ CodeInv' /\ request'[r] = Idle
       /\ \A v \in Requests : v # r => request'[v] = request[v] /\ request[v] \in RequestType
  BY <1>t, <1>5, <1>8, <1>9, IdleRequest, RowsSame, AccountMoves DEF TypeOK
<1>11. ASSUME NEW v \in Requests PROVE SessionRequest(request[v])'
  <2>1. CASE v = r
    BY <1>10, <2>1, IdleRequest DEF SessionRequest
  <2>2. CASE v # r
    <3>1. PICK o \in RequestType : o = request[v] /\ o = request'[v] /\ SessionRequest(o)
      BY <1>10, <2>2 DEF PhoneInv, SessionInv
    <3>2. CASE o.step = "rotating"
      <4>1. <<o.user, o.device>> \in Phones \X Devices
        BY <3>2, RequestFacts
      <4>2. o.saved.token \in DOMAIN issued' /\ o.saved.token # n
        BY <1>4, <1>5, <3>1, <3>2 DEF SessionRequest
      <4>3. sessions'[<<o.user, o.device>>] \in {new, sessions[<<o.user, o.device>>]}
        BY <1>8, <4>1
      <4> QED
        BY <1>6, <3>1, <3>2, <4>2, <4>3 DEF SessionRequest
    <3>3. CASE o.step # "rotating"
      BY <3>1, <3>3 DEF SessionRequest
    <3> QED
      BY <3>2, <3>3
  <2> QED
    BY <2>1, <2>2
<1>12. OneUsed'
  BY DEF PhoneInv, SessionInv, OneUsed, UsedTokens
<1>13. ASSUME NEW s \in Phones \X Devices PROVE SessionSound(s)'
  <2>1. CASE s = <<user, device>>
    <3>1. sessions'[s] = new /\ s[1] = user
      BY <1>8, <2>1
    <3> QED
      BY <1>2, <1>5, <1>6, <2>1, <3>1 DEF SessionSound
  <2>2. CASE s # <<user, device>>
    <3>1. sessions'[s] = sessions[s] /\ SessionSound(s) /\ SessionSound(<<user, device>>)
      BY <1>u, <1>8, <2>2 DEF PhoneInv, SessionInv
    <3>2. CASE sessions[s] # None
      <4>1. PICK k \in DOMAIN issued : k = sessions[s].token
        BY <3>1, <3>2 DEF SessionSound
      <4>2. /\ issued[k].exchanged = 0 /\ <<issued[k].user, issued[k].device>> = s
            /\ sessions[s].password > 0 /\ sessions[s].password = password[s[1]]
        BY <3>1, <3>2, <4>1 DEF SessionSound
      <4>3. ~ (sessions[<<user, device>>] # None /\ sessions[<<user, device>>].token = k)
        BY <2>2, <3>1, <4>2 DEF SessionSound
      <4>4. /\ issued'[k].exchanged = 0
            /\ issued'[k].user = issued[k].user /\ issued'[k].device = issued[k].device
        BY <1>5, <4>2, <4>3
      <4>5. k \in DOMAIN issued'
        BY <1>5
      <4> QED
        BY <3>1, <4>1, <4>2, <4>4, <4>5 DEF SessionSound
    <3>3. CASE sessions[s] = None
      BY <3>1, <3>3 DEF SessionSound
    <3> QED
      BY <3>2, <3>3
  <2> QED
    BY <2>1, <2>2
<1>14. RotatedOnce'
  BY <1>2, <1>5 DEF RotatedOnce
<1> QED
  BY <1>10, <1>11, <1>12, <1>13, <1>14 DEF PhoneInv, SessionInv

LEMMA IssueKeeps ==
  ASSUME PhoneInv, NEW r \in Requests, saveRefreshToken(r) PROVE PhoneInv'
<1>t. TypeOK
  BY DEF PhoneInv
<1>1. PICK o \in RequestType : o = request[r] /\ o.step = "issuing"
  BY <1>t, RequestOf DEF saveRefreshToken
<1>2. o.user \in Phones /\ o.device \in Devices /\ password[o.user] \in Nat
  BY <1>t, <1>1, RequestFacts DEF TypeOK
<1>3. password[o.user] > 0
  BY <1>1 DEF PhoneInv, SessionInv, SessionRequest
<1>4. issued \in Seq(RefreshToken) /\ \A k \in DOMAIN issued : issued[k].exchanged <= 1
  BY <1>t DEF PhoneInv, SessionInv, RotatedOnce, TypeOK
<1>5. /\ Save(o.user, o.device, password[o.user], issued) /\ Step(r, Idle)
      /\ UNCHANGED <<now, verifications, phoneTokens, password, accepted>>
  BY <1>1 DEF saveRefreshToken, End
<1> QED
  BY <1>2, <1>3, <1>4, <1>5, SaveKeeps

LEMMA ValidateKeeps ==
  ASSUME PhoneInv, NEW r \in Requests, NEW token \in DOMAIN issued,
         NEW step \in {"rotating", "leaving"}, validateUserRefreshToken(r, token, step)
  PROVE  PhoneInv'
<1>t. TypeOK /\ issued[token] \in RefreshToken
  BY TableFacts DEF PhoneInv
<1>1. PICK user \in Phones, device \in Devices : user = issued[token].user /\ device = issued[token].device
  BY <1>t DEF RefreshToken
<1>2. <<user, device>> \in Phones \X Devices /\ sessions[<<user, device>>] # None
  BY <1>1 DEF validateUserRefreshToken
<1>3. PICK saved \in Session : saved = sessions[<<user, device>>]
  BY <1>t, <1>2 DEF TypeOK
<1>4. saved.token \in DOMAIN issued
  BY <1>2, <1>3 DEF PhoneInv, SessionInv, SessionSound
<1> DEFINE q == [step |-> step, user |-> user, device |-> device, saved |-> saved]
<1>5. Step(r, q)
  BY <1>1, <1>3 DEF validateUserRefreshToken
<1>6. /\ q \in RequestType /\ q.step = step /\ q.user = user /\ q.device = device /\ q.saved = saved
  BY DEF RequestType
<1> HIDE DEF q
<1>7. SessionRequest(q)
  BY <1>3, <1>4, <1>6 DEF SessionRequest
<1>8. Plain(q) \/ q.step = "rotating"
  BY <1>6 DEF Plain, IdSteps
<1> QED
  BY <1>5, <1>6, <1>7, <1>8, RequestMoves DEF validateUserRefreshToken

LEMMA RotateKeeps ==
  ASSUME PhoneInv, NEW r \in Requests, rotateRefreshToken(r) PROVE PhoneInv'
<1>t. TypeOK
  BY DEF PhoneInv
<1>s. UNCHANGED <<now, verifications, phoneTokens, password, accepted>> /\ Step(r, Idle) /\ End(r)
  BY DEF rotateRefreshToken, End
<1>1. PICK o \in RequestType : o = request[r] /\ o.step = "rotating"
  BY <1>t, RequestOf DEF rotateRefreshToken
<1>2. PICK user \in Phones, device \in Devices, saved \in Session :
        user = o.user /\ device = o.device /\ saved = o.saved
  BY <1>1, RequestFacts
<1>3. CASE UNCHANGED <<issued, sessions>>
  BY <1>s, <1>3, EndKeeps
<1>4. CASE /\ Rotatable(user, device, saved.token)
           /\ Save(user, device, saved.password, [issued EXCEPT ![saved.token].exchanged = @ + 1])
  <2>1. /\ sessions[<<user, device>>] # None /\ sessions[<<user, device>>].token = saved.token
        /\ <<user, device>> \in Phones \X Devices
    BY <1>4 DEF Rotatable
  <2>2. sessions[<<user, device>>] = saved /\ SessionSound(<<user, device>>)
    BY <1>1, <1>2, <2>1 DEF PhoneInv, SessionInv, SessionRequest
  <2>3. PICK k \in DOMAIN issued : k = saved.token /\ issued[k].exchanged = 0
    BY <2>1, <2>2 DEF SessionSound
  <2>4. /\ saved.password \in Nat /\ saved.password > 0
        /\ saved.password = password[user]
    BY <2>1, <2>2 DEF SessionSound, Session
  <2>5. issued[k] \in RefreshToken /\ issued \in Seq(RefreshToken) /\ k \in 1 .. Len(issued)
    BY <1>t, TableFacts DEF TypeOK
  <2> DEFINE row == [issued[k] EXCEPT !.exchanged = issued[k].exchanged + 1]
             earlier == [issued EXCEPT ![k] = row]
  <2>6. /\ row \in RefreshToken /\ row.user = issued[k].user /\ row.device = issued[k].device
        /\ row.exchanged = 1
    BY <2>3, <2>5 DEF RefreshToken
  <2>7. Save(user, device, saved.password, earlier)
    BY <1>4, <2>3
  <2> HIDE DEF row
  <2>8. /\ earlier \in Seq(RefreshToken) /\ Len(earlier) = Len(issued)
        /\ \A i \in DOMAIN issued : earlier[i] = IF i = k THEN row ELSE issued[i]
    BY <2>5, <2>6, ExceptSeq
  <2> HIDE DEF earlier
  <2>9. \A i \in DOMAIN issued :
          /\ earlier[i].user = issued[i].user /\ earlier[i].device = issued[i].device
          /\ earlier[i].exchanged <= 1
          /\ \/ earlier[i].exchanged = issued[i].exchanged
             \/ sessions[<<user, device>>] # None /\ sessions[<<user, device>>].token = i
    BY <2>1, <2>3, <2>6, <2>8 DEF PhoneInv, SessionInv, RotatedOnce
  <2> QED
    BY <1>s, <2>4, <2>7, <2>8, <2>9, SaveKeeps
<1> QED
  BY <1>1, <1>2, <1>3, <1>4 DEF rotateRefreshToken

LEMMA LogoutKeeps ==
  ASSUME PhoneInv, NEW r \in Requests, logout(r) PROVE PhoneInv'
<1>t. TypeOK
  BY DEF PhoneInv
<1>s. UNCHANGED <<now, verifications, phoneTokens, password, issued, accepted>> /\ Step(r, Idle)
  BY DEF logout, End
<1>1. PICK o \in RequestType : o = request[r] /\ o.step = "leaving"
  BY <1>t, RequestOf DEF logout
<1>2. PICK k \in Phones \X Devices : k = <<o.user, o.device>>
  BY <1>1, RequestFacts
<1>3. /\ sessions' \in [Phones \X Devices -> Session \cup {None}]
      /\ \A s \in Phones \X Devices : sessions'[s] = IF s = k THEN None ELSE sessions[s]
  BY <1>t, <1>1, <1>2 DEF logout, TypeOK
<1>4. AcceptedMeansVerified'
  BY <1>s DEF PhoneInv, CodeInv, AcceptedMeansVerified
<1>5. /\ TypeOK' /\ CodeInv' /\ request'[r] = Idle
      /\ \A v \in Requests : v # r => request'[v] = request[v] /\ request[v] \in RequestType
  BY <1>t, <1>s, <1>3, <1>4, IdleRequest, RowsSame, AccountMoves DEF TypeOK
<1>6. ASSUME NEW v \in Requests PROVE SessionRequest(request[v])'
  <2>1. CASE v = r
    BY <1>5, <2>1, IdleRequest DEF SessionRequest
  <2>2. CASE v # r
    <3>1. PICK q \in RequestType : q = request[v] /\ q = request'[v] /\ SessionRequest(q)
      BY <1>5, <2>2 DEF PhoneInv, SessionInv
    <3>2. q.step = "rotating" =>
            \/ sessions'[<<q.user, q.device>>] = None
            \/ sessions'[<<q.user, q.device>>] = sessions[<<q.user, q.device>>]
      BY <1>3, RequestFacts
    <3> QED
      BY <1>s, <3>1, <3>2 DEF SessionRequest
  <2> QED
    BY <2>1, <2>2
<1>7. OneUsed' /\ RotatedOnce'
  BY <1>s DEF PhoneInv, SessionInv, OneUsed, UsedTokens, RotatedOnce
<1>8. \A s \in Phones \X Devices : SessionSound(s)'
  BY <1>s, <1>3 DEF PhoneInv, SessionInv, SessionSound
<1> QED
  BY <1>5, <1>6, <1>7, <1>8 DEF PhoneInv, SessionInv

\* Time passes, or nothing happens.
LEMMA TickKeeps ==
  ASSUME PhoneInv, Tick \/ UNCHANGED vars PROVE PhoneInv'
<1>t. TypeOK /\ now \in Nat
  BY DEF PhoneInv, TypeOK, Times
<1>s. UNCHANGED <<verifications, phoneTokens, password, sessions, issued, request, accepted>>
  BY DEF Tick, vars
<1>1. now' \in Times /\ now' \in Nat /\ now <= now'
  BY <1>t, Limits DEF Tick, vars, Times, TypeOK, PhoneInv
<1>2. TypeOK'
  BY <1>t, <1>s, <1>1 DEF TypeOK
<1>3. AcceptedMeansVerified' /\ \A b \in Codes : phoneTokens'[b] # None => b \in DOMAIN verifications
  BY <1>s DEF PhoneInv, CodeInv, AcceptedMeansVerified
<1>4. CodeInv'
  BY <1>t, <1>s, <1>1, <1>2, <1>3, RowsSame, CodesKept DEF TypeOK
<1>5. SessionInv'
  BY <1>s, RowsSame, SessionsKept
<1> QED
  BY <1>2, <1>4, <1>5 DEF PhoneInv
-----------------------------------------------------------------------------
(* The theorems *)

LEMMA PhoneInit ==
  ASSUME Init PROVE PhoneInv
<1>1. verifications \in Seq(Verification) /\ Len(verifications) = 0 /\ DOMAIN verifications = {}
  BY EmptySeq, LenProperties DEF Init
<1>2. issued \in Seq(RefreshToken) /\ Len(issued) = 0 /\ DOMAIN issued = {}
  BY EmptySeq, LenProperties DEF Init
<1>3. TypeOK
  BY <1>1, <1>2, Limits, IdleRequest DEF Init, TypeOK, Times
<1>4. Existing = {} /\ \A phone : CodesOf(phone) = {}
  BY <1>1 DEF Existing, CodesOf
<1>5. \A t \in Times :
        /\ \A phone \in Phones : Within(CodesOf(phone), t) = {}
        /\ \A ip \in Ips : Within(CodesFrom(ip), t) = {}
  BY <1>4 DEF Within, Since, CodesFrom
<1>6. HoursFull
  BY <1>5, FS_EmptySet, Limits DEF HoursFull
<1>7. CodeInv
  BY <1>1, <1>4, <1>6, IdleRequest
     DEF Init, CodeInv, CodeRequest, IdSteps, LocksHeld, PhonesOrdered, AcceptedMeansVerified
<1>8. SessionInv
  BY <1>1, <1>2, IdleRequest
     DEF Init, SessionInv, SessionRequest, OneUsed, UsedTokens, SessionSound, RotatedOnce
<1> QED
  BY <1>3, <1>7, <1>8 DEF PhoneInv

LEMMA PhoneStep ==
  ASSUME PhoneInv, [Next]_vars PROVE PhoneInv'
<1>1. ASSUME NEW r \in Requests, RequestCode(r) PROVE PhoneInv'
  BY <1>1, BeginKeeps, CommitKeeps, SendKeeps, ActivateKeeps, DeleteKeeps DEF RequestCode
<1>2. ASSUME NEW r \in Requests, SubmitCode(r) PROVE PhoneInv'
  BY <1>2, UsableKeeps, ClaimKeeps, MarkKeeps, LookKeeps, MintKeeps, ResetKeeps DEF SubmitCode
<1>3. ASSUME NEW r \in Requests, UseSession(r) PROVE PhoneInv'
  BY <1>3, SignupKeeps, IssueKeeps, ValidateKeeps, RotateKeeps, LogoutKeeps DEF UseSession
<1>4. ASSUME NEW r \in Requests, Abandon(r) PROVE PhoneInv'
  BY <1>4, EndKeeps DEF Abandon
<1> QED
  BY <1>1, <1>2, <1>3, <1>4, TickKeeps DEF Next

LEMMA PhoneAlways == Spec => []PhoneInv
<1>1. PhoneInv /\ [Next]_vars => PhoneInv'
  BY PhoneStep
<1> QED
  BY <1>1, PhoneInit, PTL DEF Spec

\* Every variable keeps its type.
THEOREM PhoneTypes == Spec => []TypeOK
<1>1. PhoneInv => TypeOK
  BY DEF PhoneInv
<1> QED
  BY <1>1, PhoneAlways, PTL

\* However many requests reserve codes at once, no hour holds more codes of a
\* phone or of an address than its limit (reserveVerification).
THEOREM QuotasKept == Spec => []RequestQuota
<1>1. PhoneInv => RequestQuota
  <2> SUFFICES ASSUME PhoneInv PROVE RequestQuota
    OBVIOUS
  <2> SUFFICES ASSUME NEW id \in Existing
      PROVE  LET Before == {b \in Existing :
                       /\ verifications[b].createdAt <= verifications[id].createdAt
                       /\ verifications[b].createdAt > verifications[id].createdAt - Hour}
             IN  /\ Cardinality({b \in Before : verifications[b].phone = verifications[id].phone})
                      <= PhoneLimit
                 /\ Cardinality({b \in Before : verifications[b].ip = verifications[id].ip}) <= IpLimit
    BY DEF RequestQuota
  <2>1. PICK phone \in Phones, ip \in Ips, t \in Times :
          /\ phone = verifications[id].phone /\ ip = verifications[id].ip
          /\ t = verifications[id].createdAt
    BY TableFacts, Rows DEF PhoneInv, Existing
  <2> DEFINE Before == {b \in Existing : /\ verifications[b].createdAt <= t
                                        /\ verifications[b].createdAt > t - Hour}
  <2>2. /\ {b \in Before : verifications[b].phone = phone} = Within(CodesOf(phone), t)
        /\ {b \in Before : verifications[b].ip = ip} = Within(CodesFrom(ip), t)
    BY DEF Within, Since, CodesOf, CodesFrom
  <2>3. /\ Cardinality(Within(CodesOf(phone), t)) <= PhoneLimit
        /\ Cardinality(Within(CodesFrom(ip), t)) <= IpLimit
    BY DEF PhoneInv, CodeInv, HoursFull
  <2> QED
    BY <2>1, <2>2, <2>3
<1> QED
  BY <1>1, PhoneAlways, PTL

\* Of the submissions of a right code, by login or reset, one at most is
\* accepted (markVerified, resetPasswordWithVerification).
THEOREM AcceptedOnce == Spec => []CodeAcceptedOnce
<1>1. PhoneInv => CodeAcceptedOnce
  BY DEF PhoneInv, CodeInv, AcceptedMeansVerified, CodeAcceptedOnce
<1> QED
  BY <1>1, PhoneAlways, PTL

\* What NewestCodeOnly says of one step.
NewestAccepted ==
    \A id \in DOMAIN verifications :
      accepted'[id] > accepted[id] => ~ \E b \in CodesOf(verifications[id].phone) : b > id

\* No code is accepted once a newer code of its phone has been reserved, even
\* if the submission claimed its attempt before (isLatestVerification).
THEOREM NewestAcceptedOnly == Spec => NewestCodeOnly
<1>1. ASSUME PhoneInv, NEW id \in DOMAIN verifications, CanMark(id)
      PROVE  ~ \E b \in CodesOf(verifications[id].phone) : b > id
  <2> SUFFICES ASSUME NEW b \in CodesOf(verifications[id].phone), b > id PROVE FALSE
    OBVIOUS
  <2>1. TypeOK /\ id \in Existing /\ b \in Existing /\ b \in DOMAIN verifications
    BY <1>1 DEF PhoneInv, CanMark, isLatestVerification, CodesOf, Existing
  <2>2. PICK m \in Nat, n \in Nat : m = id /\ n = b
    BY <2>1, TableFacts
  <2>3. PICK c \in Nat, d \in Nat : c = verifications[id].createdAt /\ d = verifications[b].createdAt
    BY <2>1, TableFacts, Rows DEF Times
  <2>4. c <= d
    BY <1>1, <2>1, <2>2, <2>3 DEF PhoneInv, CodeInv, PhonesOrdered, CodesOf
  <2>5. Newer(b, id)
    BY <2>2, <2>3, <2>4 DEF Newer
  <2> QED
    BY <1>1, <2>5 DEF CanMark, isLatestVerification
<1>2. ASSUME PhoneInv, NEW id \in DOMAIN verifications, CanMark(id), Accept(id) PROVE NewestAccepted
  <2>1. TypeOK /\ DOMAIN verifications \subseteq Codes
    BY <1>2, TableFacts DEF PhoneInv
  <2>2. ASSUME NEW b \in DOMAIN verifications, b # id PROVE ~ (accepted'[b] > accepted[b])
    BY <1>2, <2>1, <2>2 DEF Accept, TypeOK
  <2> QED
    BY <1>1, <1>2, <2>2 DEF NewestAccepted
<1>3. ASSUME PhoneInv, UNCHANGED accepted PROVE NewestAccepted
  <2>1. \A id \in DOMAIN verifications : accepted[id] \in Nat
    BY <1>3, TableFacts DEF PhoneInv, TypeOK
  <2> QED
    BY <1>3, <2>1 DEF NewestAccepted
<1>4. ASSUME PhoneInv, NEW r \in Requests, markVerified(r) \/ resetPasswordWithVerification(r)
      PROVE  NewestAccepted
  <2>1. request[r].id \in DOMAIN verifications
    BY <1>4 DEF PhoneInv, CodeInv, CodeRequest, IdSteps, markVerified, resetPasswordWithVerification
  <2>2. UNCHANGED accepted \/ (CanMark(request[r].id) /\ Accept(request[r].id))
    BY <1>4 DEF markVerified, resetPasswordWithVerification
  <2> QED
    BY <1>2, <1>3, <1>4, <2>1, <2>2
<1>5. PhoneInv /\ [Next]_vars => NewestAccepted
  <2> SUFFICES ASSUME PhoneInv, [Next]_vars PROVE NewestAccepted
    OBVIOUS
  <2>1. UNCHANGED accepted \/ \E r \in Requests : markVerified(r) \/ resetPasswordWithVerification(r)
    BY DEF Next, RequestCode, SubmitCode, UseSession, Abandon, Tick, vars, beginReservation,
           commitReservation, sendCode, sendOrActivateFails, activateVerification,
           deleteVerification, getUsableVerification, claimVerificationAttempt, findUserByPhone,
           createPhoneVerificationToken, signup, saveRefreshToken, validateUserRefreshToken,
           rotateRefreshToken, logout
  <2> QED
    BY <1>3, <1>4, <2>1
<1>6. NewestAccepted <=> \A id \in DOMAIN verifications :
        accepted'[id] > accepted[id] => ~ \E b \in CodesOf(verifications[id].phone) : b > id
  BY DEF NewestAccepted
<1> QED
  BY <1>5, <1>6, PhoneAlways, PTL DEF NewestCodeOnly, Spec

\* Of a phone's verification tokens one at most is ever used, and only where
\* it made the account (consumePhoneVerificationToken within signup).
THEOREM OneTokenOneAccount == Spec => []TokenMakesAccount
<1>1. PhoneInv => TokenMakesAccount
  <2> SUFFICES ASSUME PhoneInv, NEW phone \in Phones,
                      NEW id \in DOMAIN verifications, verifications[id].phone = phone,
                      phoneTokens[id] # None, phoneTokens[id].used
      PROVE  LET Used == {b \in DOMAIN verifications : /\ verifications[b].phone = phone
                                                      /\ phoneTokens[b] # None /\ phoneTokens[b].used}
             IN  Cardinality(Used) = 1 /\ password[phone] > 0
    BY DEF TokenMakesAccount
  <2> DEFINE Used == {b \in DOMAIN verifications : /\ verifications[b].phone = phone
                                                  /\ phoneTokens[b] # None /\ phoneTokens[b].used}
  <2>1. Used = {id} /\ password[phone] > 0
    BY DEF PhoneInv, SessionInv, OneUsed, UsedTokens
  <2> QED
    BY <2>1, FS_Singleton
<1> QED
  BY <1>1, PhoneAlways, PTL

\* However many refreshes validated a saved refresh token, it is exchanged for one
\* successor at most (rotateRefreshToken).
THEOREM ExchangedOnce == Spec => []RotatedOnce
<1>1. PhoneInv => RotatedOnce
  BY DEF PhoneInv, SessionInv
<1> QED
  BY <1>1, PhoneAlways, PTL

\* A password reset leaves no session that was saved before it, nor does a
\* refresh in flight bring one back, however the requests interleave
\* (resetPasswordWithVerification, rotateRefreshToken).
THEOREM NoSessionSurvivesReset == Spec => []ResetEndsSessions
<1>1. PhoneInv => ResetEndsSessions
  BY DEF PhoneInv, SessionInv, SessionSound, ResetEndsSessions
<1> QED
  BY <1>1, PhoneAlways, PTL

=============================================================================

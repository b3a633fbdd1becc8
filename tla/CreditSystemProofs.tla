---------------------------- MODULE CreditSystemProofs --------------------------
(***************************************************************************)
(* Proofs about Matching, about Billing and about CreditSystem, which      *)
(* composes them, for every number of accounts, requests, plans, instants, *)
(* events and store transactions.                                          *)
(*                                                                         *)
(* Matching: from its locked reads to its commit a request owns the rows   *)
(* between its two members, because whoever else would change them needs   *)
(* the lock on the pair (or the account to be quiet).  So the like it did  *)
(* or did not find is still there or still missing when it decides on the  *)
(* match, and two reciprocal likes cannot both find nothing.               *)
(*                                                                         *)
(* Billing: a row is the newest event of its history, so a webhook is      *)
(* either stale and changes no row, or newer than all before it; then the  *)
(* delta it books is the difference between two sets of held purchases.    *)
(*                                                                         *)
(* Together: to billing, a step of matching uses or returns one credit; to *)
(* matching, a webhook moves a balance.  Each keeps its invariant, and     *)
(* what relates both (credits in use, plans and counted likes) is kept on  *)
(* top of them.                                                            *)
(***************************************************************************)
EXTENDS CreditSystem, FiniteSetTheorems, TLAPS

RowsSound ==
    /\ IsFiniteSet(userLikes) /\ IsFiniteSet(matchActions)
    /\ \A x \in matchActions : x.actor # x.target
    /\ \A l \in userLikes : l.liker # l.liked
    /\ \A x, y \in matchActions : x.actor = y.actor /\ x.target = y.target => x = y
    /\ \A l, m \in userLikes : l.liker = m.liker /\ l.liked = m.liked => l = m

\* A like row is there exactly when an open like says so.
LikesBacked ==
    \A a, b \in Users :
        HasLiked(a, b) <=> \E x \in OpenActions(a, b) : x.action \in Likes

\* MutualLikesMatched by the two members of a pair.
MutualMatched ==
    \A a, b \in Users : a # b =>
        ({a, b} \in matches <=> HasLiked(a, b) /\ HasLiked(b, a))

\* A superlike that can still be undone was paid for and not yet refunded.
SuperlikesPaid == \A u \in Users : Cardinality(Superlikes(u)) <= spent[u]["superlike"]

\* What a request has read still holds.
ReadsHold(q) ==
    /\ OpenActions(q.user, q.target) = {}
    /\ q.reverse <=> HasLiked(q.target, q.user)
    /\ ~ q.liked
    /\ account[q.user] # "deleted" /\ account[q.target] # "deleted"

RequestsSound ==
    /\ \A r \in Requests : request[r] # None => request[r].user # request[r].target
    /\ \A r \in Requests : Holding(r) => ReadsHold(request[r])
    /\ \A r, s \in Requests : r # s /\ Holding(r) /\ Holding(s) =>
         /\ request[r].user # request[s].user
         /\ {request[r].user, request[r].target} # {request[s].user, request[s].target}

\* A match goes only with one of its members, who does not come back.
AnnouncedForGood ==
    \A p \in Pairs :
        /\ announced[p] <= 1
        /\ announced[p] # 0 => p \in matches \/ \E u \in p : account[u] = "deleted"

MatchingInv ==
    /\ MatchingTypeOK
    /\ RowsSound
    /\ LikesBacked
    /\ MutualMatched
    /\ SuperlikesPaid
    /\ RequestsSound
    /\ AnnouncedForGood
    /\ BoostsDisjoint

-----------------------------------------------------------------------------
(* Pairs, rows and counting *)

LEMMA PairFacts ==
  /\ \A a, b \in Users : a # b => {a, b} \in Pairs
  /\ \A p \in Pairs : \E a, b \in Users : a # b /\ p = {a, b}
<1>1. ASSUME NEW a \in Users, NEW b \in Users, a # b PROVE {a, b} \in Pairs
  <2>1. <<a, b>> \in Candidates
    BY <1>1 DEF Candidates
  <2> QED
    BY <2>1 DEF Pairs
<1>2. ASSUME NEW p \in Pairs PROVE \E a, b \in Users : a # b /\ p = {a, b}
  <2>1. PICK c \in Candidates : p = {c[1], c[2]}
    BY DEF Pairs
  <2>2. c[1] \in Users /\ c[2] \in Users /\ c[1] # c[2]
    BY DEF Candidates
  <2> QED
    BY <2>1, <2>2
<1> QED
  BY <1>1, <1>2

LEMMA SamePair ==
  ASSUME NEW a, NEW b, NEW c, NEW d
  PROVE  {a, b} = {c, d} <=> (a = c /\ b = d) \/ (a = d /\ b = c)
  OBVIOUS

\* A set without two different elements counts at most one.
LEMMA AtMostOne ==
  ASSUME NEW S, \A x, y \in S : x = y
  PROVE  Cardinality(S) <= 1
<1>1. CASE S = {}
  BY <1>1, FS_EmptySet
<1>2. CASE S # {}
  <2>1. PICK x \in S : TRUE
    BY <1>2
  <2>2. S = {x}
    BY <2>1
  <2>3. Cardinality({x}) = 1
    BY FS_Singleton, Zenon
  <2> QED
    BY <2>2, <2>3
<1> QED
  BY <1>1, <1>2

LEMMA RowTypes ==
  ASSUME MatchingTypeOK
  PROVE  /\ \A x \in matchActions : x.actor \in Users /\ x.target \in Users /\ x.action \in Choices
         /\ \A l \in userLikes : l.liker \in Users /\ l.liked \in Users
         /\ \A b \in userBoosts : b.startsAt \in Nat /\ b.endsAt \in Nat
         /\ \A r \in Requests : request[r] # None => request[r] \in RequestType
  BY DEF MatchingTypeOK, ActionType, LikeType, BoostType, Times

LEMMA RequestFields ==
  ASSUME NEW q \in RequestType
  PROVE  /\ q.phase \in {"requested", "checked"} /\ q.user \in Users /\ q.target \in Users
         /\ q.action \in Choices /\ q.at \in Times /\ q.limit \in Limits
         /\ q.reverse \in BOOLEAN /\ q.liked \in BOOLEAN /\ q.count \in Nat
  BY DEF RequestType

\* spendCredit and returnCredit change one counter of one account.
LEMMA SpendFacts ==
  ASSUME AccountsTypeOK, NEW u \in Users, NEW k \in CreditKinds, spendCredit(u, k)
  PROVE  /\ credits' \in [Users -> [CreditKinds -> Int]]
         /\ spent' \in [Users -> [CreditKinds -> Nat]]
         /\ \A v \in Users, j \in CreditKinds :
              spent'[v][j] = IF v = u /\ j = k THEN spent[v][j] + 1 ELSE spent[v][j]
  BY DEF AccountsTypeOK, spendCredit

LEMMA ReturnFacts ==
  ASSUME AccountsTypeOK, NEW u \in Users, NEW k \in CreditKinds, returnCredit(u, k),
         spent[u][k] > 0
  PROVE  /\ credits' \in [Users -> [CreditKinds -> Int]]
         /\ spent' \in [Users -> [CreditKinds -> Nat]]
         /\ \A v \in Users, j \in CreditKinds :
              spent'[v][j] = IF v = u /\ j = k THEN spent[v][j] - 1 ELSE spent[v][j]
  BY DEF AccountsTypeOK, returnCredit

-----------------------------------------------------------------------------
(* What carries over when the rows it is about do not change *)

LEMMA RowsKept ==
  ASSUME RowsSound, LikesBacked, MutualMatched, UNCHANGED <<userLikes, matchActions, matches>>
  PROVE  RowsSound' /\ LikesBacked' /\ MutualMatched'
  BY DEF RowsSound, LikesBacked, MutualMatched, HasLiked, OpenActions

LEMMA PaidKept ==
  ASSUME SuperlikesPaid, UNCHANGED matchActions,
         \A u \in Users : spent'[u]["superlike"] = spent[u]["superlike"]
  PROVE  SuperlikesPaid'
  BY DEF SuperlikesPaid, Superlikes

LEMMA RequestsKept ==
  ASSUME RequestsSound, UNCHANGED <<account, userLikes, matchActions, request>>
  PROVE  RequestsSound'
  BY DEF RequestsSound, ReadsHold, Holding, HasLiked, OpenActions

LEMMA AnnouncedKept ==
  ASSUME AnnouncedForGood, UNCHANGED <<matches, announced>>,
         \A u \in Users : account[u] = "deleted" => account'[u] = "deleted"
  PROVE  AnnouncedForGood'
  BY PairFacts DEF AnnouncedForGood

LEMMA BoostsKept ==
  ASSUME BoostsDisjoint, UNCHANGED userBoosts
  PROVE  BoostsDisjoint'
  BY DEF BoostsDisjoint

-----------------------------------------------------------------------------
(* Initial states, and the steps of clients and accounts *)

LEMMA MatchingInvInit ==
  ASSUME MatchingInit
  PROVE  MatchingInv
<1> USE DEF AccountsInit, MatchingInit
<1>1. MatchingTypeOK
  BY MatchingConstants DEF MatchingTypeOK, AccountsTypeOK, NoCredits, Times
<1>2. RowsSound /\ LikesBacked /\ MutualMatched /\ BoostsDisjoint
  BY FS_EmptySet DEF RowsSound, LikesBacked, MutualMatched, BoostsDisjoint, HasLiked, OpenActions
<1>3. SuperlikesPaid
  <2>1. \A u \in Users : Superlikes(u) = {} /\ spent[u]["superlike"] = 0
    BY DEF Superlikes, NoCredits, CreditKinds
  <2>2. \A u \in Users : Cardinality(Superlikes(u)) = 0 /\ spent[u]["superlike"] = 0
    BY <2>1, FS_EmptySet
  <2>3. \A u \in Users : Cardinality(Superlikes(u)) <= spent[u]["superlike"]
    BY <2>2, 0 <= 0
  <2> QED
    BY <2>3 DEF SuperlikesPaid
<1>4. RequestsSound /\ AnnouncedForGood
  BY DEF RequestsSound, Holding, AnnouncedForGood
<1> QED
  BY <1>1, <1>2, <1>3, <1>4 DEF MatchingInv

LEMMA InvTick ==
  ASSUME MatchingInv, Tick
  PROVE  MatchingInv'
<1> USE DEF MatchingInv, Tick, accountVars
<1>1. MatchingTypeOK'
  BY MatchingConstants DEF MatchingTypeOK, AccountsTypeOK, Times
<1> QED
  BY <1>1, RowsKept, PaidKept, RequestsKept, AnnouncedKept, BoostsKept

\* To matching, a purchase or a webhook only moves a balance.
LEMMA InvCreditsOnly ==
  ASSUME MatchingInv, AccountsTypeOK', UNCHANGED <<account, spent, matchingVars>>
  PROVE  MatchingInv'
<1> USE DEF MatchingInv, matchingVars
<1>1. MatchingTypeOK'
  BY DEF MatchingTypeOK
<1> QED
  BY <1>1, RowsKept, PaidKept, RequestsKept, AnnouncedKept, BoostsKept

LEMMA InvBuy ==
  ASSUME MatchingInv, NEW u \in Users, NEW k \in CreditKinds, buyCredit(u, k)
  PROVE  MatchingInv'
<1>1. AccountsTypeOK'
  BY DEF MatchingInv, MatchingTypeOK, AccountsTypeOK, NoCredits, buyCredit, addCredits
<1> QED
  BY <1>1, InvCreditsOnly DEF buyCredit, addCredits

LEMMA InvBlock ==
  ASSUME MatchingInv, NEW u \in Users, NEW v \in Users, blockUser(u, v)
  PROVE  MatchingInv'
<1> USE DEF MatchingInv, blockUser, accountVars
<1>1. MatchingTypeOK'
  BY DEF MatchingTypeOK, AccountsTypeOK, Candidates
<1> QED
  BY <1>1, RowsKept, PaidKept, RequestsKept, AnnouncedKept, BoostsKept

\* The boosts of an account that have ended by `at' end before the new one.
LEMMA InvBoost ==
  ASSUME MatchingInv, NEW u \in Users, NEW at \in Times, activateBoost(u, at)
  PROVE  MatchingInv'
<1> USE DEF MatchingInv, activateBoost
<1> DEFINE new == [user |-> u, startsAt |-> at, endsAt |-> at + BoostTime]
<1>1. at \in Nat /\ BoostTime \in Nat
  BY MatchingConstants DEF Times
<1>2. new \in BoostType
  BY <1>1 DEF BoostType
<1>3. AccountsTypeOK /\ "boost" \in CreditKinds /\ "superlike" \in CreditKinds
  BY DEF MatchingTypeOK, CreditKinds
<1>4. MatchingTypeOK'
  BY <1>2, <1>3, SpendFacts DEF MatchingTypeOK, AccountsTypeOK
<1>5. \A v \in Users : spent'[v]["superlike"] = spent[v]["superlike"]
  BY <1>3, SpendFacts
<1>6. BoostsDisjoint'
  <2>1. \A b \in userBoosts : b.user = u => b.endsAt <= at
    BY <1>1, RowTypes DEF NoActiveBoost
  <2>2. userBoosts' = userBoosts \cup {new} /\ new.user = u /\ new.startsAt = at
    OBVIOUS
  <2> HIDE DEF new
  <2> QED
    BY <2>1, <2>2 DEF BoostsDisjoint
<1> QED
  BY <1>4, <1>5, <1>6, RowsKept, PaidKept, RequestsKept, AnnouncedKept

LEMMA InvHide ==
  ASSUME MatchingInv, NEW u \in Users, hideAccount(u) \/ restoreAccount(u), UNCHANGED matchingVars
  PROVE  MatchingInv'
<1> USE DEF MatchingInv, matchingVars
<1>1. /\ account' \in [Users -> {"active", "hidden", "deleted"}]
      /\ \A v \in Users : account'[v] = "deleted" <=> account[v] = "deleted"
      /\ UNCHANGED <<credits, spent>>
  BY DEF MatchingTypeOK, AccountsTypeOK, hideAccount, restoreAccount
<1>2. MatchingTypeOK'
  BY <1>1 DEF MatchingTypeOK, AccountsTypeOK
<1>3. RequestsSound'
  <2>1. \A r \in Requests : Holding(r) => request[r].user \in Users /\ request[r].target \in Users
    BY RowTypes, RequestFields DEF Holding
  <2> QED
    BY <1>1, <2>1 DEF RequestsSound, ReadsHold, Holding, HasLiked, OpenActions
<1> QED
  BY <1>1, <1>2, <1>3, RowsKept, PaidKept, AnnouncedKept, BoostsKept

\* Whoever leaves for good takes all rows along, and nobody is looking.
LEMMA InvClose ==
  ASSUME MatchingInv, NEW u \in Users, closeAccount(u), deleteMatching(u)
  PROVE  MatchingInv'
<1> USE DEF MatchingInv, deleteMatching
<1>1. /\ account' \in [Users -> {"active", "hidden", "deleted"}]
      /\ \A v \in Users : account'[v] = "deleted" <=> v = u \/ account[v] = "deleted"
      /\ credits' \in [Users -> [CreditKinds -> Int]]
      /\ spent' \in [Users -> [CreditKinds -> Nat]]
      /\ \A v \in Users : spent'[v] = IF v = u THEN NoCredits ELSE spent[v]
  BY DEF MatchingTypeOK, AccountsTypeOK, closeAccount, NoCredits
<1>2. MatchingTypeOK'
  BY <1>1 DEF MatchingTypeOK, AccountsTypeOK
<1>3. userLikes' \subseteq userLikes /\ matchActions' \subseteq matchActions
  OBVIOUS
<1>4. RowsSound'
  BY <1>3, FS_Subset DEF RowsSound
<1>5. \A a, b \in Users :
        /\ HasLiked(a, b)' <=> HasLiked(a, b) /\ a # u /\ b # u
        /\ OpenActions(a, b)' = IF a = u \/ b = u THEN {} ELSE OpenActions(a, b)
  BY DEF HasLiked, OpenActions
<1>6. LikesBacked'
  BY <1>5 DEF LikesBacked
<1>7. MutualMatched'
  BY <1>5 DEF MutualMatched
<1>8. SuperlikesPaid'
  <2> SUFFICES ASSUME NEW v \in Users
               PROVE  Cardinality(Superlikes(v)') <= spent'[v]["superlike"]
    BY DEF SuperlikesPaid
  <2>1. CASE v = u
    <3>1. Superlikes(v)' = {} /\ spent'[v]["superlike"] = 0
      BY <1>1, <2>1 DEF Superlikes, NoCredits, CreditKinds
    <3> QED
      BY <3>1, FS_EmptySet
  <2>2. CASE v # u
    <3>1. IsFiniteSet(Superlikes(v)) /\ Superlikes(v)' \in SUBSET Superlikes(v)
      BY FS_Subset DEF RowsSound, Superlikes
    <3>2. PICK n \in Nat, m \in Nat :
            n = Cardinality(Superlikes(v)) /\ m = Cardinality(Superlikes(v)') /\ m <= n
      BY <3>1, FS_Subset, FS_CardinalityType
    <3>3. spent'[v] = spent[v]
      BY <1>1, <2>2
    <3>4. n <= spent[v]["superlike"] /\ spent[v]["superlike"] \in Nat
      BY <3>2 DEF SuperlikesPaid, MatchingTypeOK, AccountsTypeOK, CreditKinds
    <3> QED
      BY <3>2, <3>3, <3>4
  <2> QED
    BY <2>1, <2>2
<1>9. RequestsSound'
  <2>1. \A r \in Requests : Holding(r) =>
          /\ request[r].user \in Users /\ request[r].target \in Users
          /\ request[r].user # u /\ request[r].target # u
    BY RowTypes, RequestFields DEF Holding, Quiet
  <2>2. \A r \in Requests : request'[r] = request[r] /\ (Holding(r)' <=> Holding(r))
    BY DEF Holding
  <2>3. \A r \in Requests : Holding(r)' => ReadsHold(request[r])'
    <3> SUFFICES ASSUME NEW r \in Requests, Holding(r)'
                 PROVE  ReadsHold(request[r])'
      OBVIOUS
    <3>1. Holding(r) /\ ReadsHold(request[r]) /\ request'[r] = request[r]
      BY <2>2 DEF RequestsSound
    <3>2. PICK o : o = request[r]
      OBVIOUS
    <3>3. /\ o.user \in Users /\ o.target \in Users /\ o.user # u /\ o.target # u
          /\ ReadsHold(o) /\ o = request'[r]
      BY <2>1, <3>1, <3>2
    <3>4. /\ OpenActions(o.user, o.target)' = {} /\ ~ o.liked
          /\ o.reverse <=> HasLiked(o.target, o.user)'
          /\ account'[o.user] # "deleted" /\ account'[o.target] # "deleted"
      BY <1>1, <1>5, <3>3 DEF ReadsHold
    <3> QED
      BY <3>3, <3>4 DEF ReadsHold
  <2>4. /\ \A r \in Requests : request'[r] # None => request'[r].user # request'[r].target
        /\ \A r, s \in Requests : r # s /\ Holding(r)' /\ Holding(s)' =>
             /\ request'[r].user # request'[s].user
             /\ {request'[r].user, request'[r].target} # {request'[s].user, request'[s].target}
    BY <2>2 DEF RequestsSound
  <2> QED
    BY <2>3, <2>4 DEF RequestsSound
<1>10. AnnouncedForGood'
  <2>1. \A p \in Pairs : p \in matches' <=> p \in matches /\ u \notin p
    OBVIOUS
  <2> QED
    BY <1>1, <2>1, PairFacts DEF AnnouncedForGood
<1>11. BoostsDisjoint'
  BY DEF BoostsDisjoint
<1> QED
  BY <1>2, <1>4, <1>6, <1>7, <1>8, <1>9, <1>10, <1>11

-----------------------------------------------------------------------------
(* Requests that arrive, take their locks, or give up *)

\* A step of one request that leaves it without locks.
LEMMA OneRequest ==
  ASSUME RequestsSound, NEW r \in Requests, ~ Holding(r)',
         request'[r] # None => request'[r].user # request'[r].target,
         \A s \in Requests \ {r} : request'[s] = request[s],
         \A s \in Requests \ {r} : Holding(s) => ReadsHold(request[s])'
  PROVE  RequestsSound'
<1>1. \A s \in Requests \ {r} : Holding(s)' <=> Holding(s)
  BY DEF Holding
<1>2. \A s \in Requests : Holding(s)' => s # r /\ Holding(s)
  BY <1>1
<1>3. \A s \in Requests : Holding(s)' => ReadsHold(request[s])'
  BY <1>2
<1>4. \A s \in Requests : request'[s] # None => request'[s].user # request'[s].target
  BY DEF RequestsSound
<1>5. \A s, t \in Requests : s # t /\ Holding(s)' /\ Holding(t)' =>
        /\ request'[s].user # request'[t].user
        /\ {request'[s].user, request'[s].target} # {request'[t].user, request'[t].target}
  BY <1>2 DEF RequestsSound
<1> QED
  BY <1>3, <1>4, <1>5 DEF RequestsSound

\* When no row changes, every other request still knows what it read.
LEMMA OtherReads ==
  ASSUME RequestsSound, UNCHANGED <<account, userLikes, matchActions>>,
         NEW s \in Requests, Holding(s), request'[s] = request[s]
  PROVE  ReadsHold(request[s])'
<1>1. PICK o : o = request[s]
  OBVIOUS
<1>2. ReadsHold(o) /\ o = request'[s]
  BY <1>1 DEF RequestsSound
<1>3. ReadsHold(o)'
  BY <1>2 DEF ReadsHold, HasLiked, OpenActions
<1> QED
  BY <1>2, <1>3 DEF ReadsHold

LEMMA InvArrive ==
  ASSUME MatchingInv, NEW r \in Requests, NEW u \in Users, NEW t \in Users,
         NEW choice \in Choices, NEW limit \in Limits, likeUser(r, u, t, choice, limit)
  PROVE  MatchingInv'
<1> USE DEF MatchingInv, likeUser, accountVars
<1> DEFINE q == [phase |-> "requested", user |-> u, target |-> t, action |-> choice,
                 at |-> now, limit |-> limit, reverse |-> FALSE, liked |-> FALSE, count |-> 0]
<1>1. q \in RequestType
  BY DEF MatchingTypeOK, RequestType
<1>2. q.phase = "requested" /\ q.user = u /\ q.target = t /\ u # t
  OBVIOUS
<1>3. request' = [request EXCEPT ![r] = q]
  OBVIOUS
<1> HIDE DEF q
<1>4. request \in [Requests -> RequestType \cup {None}]
  BY DEF MatchingTypeOK
<1>5. /\ request' \in [Requests -> RequestType \cup {None}] /\ request'[r] = q
      /\ \A s \in Requests \ {r} : request'[s] = request[s]
  BY <1>1, <1>3, <1>4
<1>6. MatchingTypeOK'
  BY <1>5 DEF MatchingTypeOK, AccountsTypeOK
<1>7. \A s \in Requests \ {r} : Holding(s) => ReadsHold(request[s])'
  BY <1>5, OtherReads
<1>8. ~ Holding(r)'
  BY <1>2, <1>5 DEF Holding
<1>9. RequestsSound'
  BY <1>2, <1>5, <1>7, <1>8, OneRequest
<1> QED
  BY <1>6, <1>9, RowsKept, PaidKept, AnnouncedKept, BoostsKept

LEMMA InvAbort ==
  ASSUME MatchingInv, NEW r \in Requests, abortAction(r)
  PROVE  MatchingInv'
<1> USE DEF MatchingInv, abortAction, accountVars
<1>1. /\ request' \in [Requests -> RequestType \cup {None}] /\ request'[r] = None
      /\ \A s \in Requests \ {r} : request'[s] = request[s]
  BY DEF MatchingTypeOK
<1>2. MatchingTypeOK'
  BY <1>1 DEF MatchingTypeOK, AccountsTypeOK
<1>3. \A s \in Requests \ {r} : Holding(s) => ReadsHold(request[s])'
  BY <1>1, OtherReads
<1>4. ~ Holding(r)'
  BY <1>1 DEF Holding
<1>5. RequestsSound'
  BY <1>1, <1>3, <1>4, OneRequest
<1> QED
  BY <1>2, <1>5, RowsKept, PaidKept, AnnouncedKept, BoostsKept

\* The locks make the request the only one at this pair and for this actor.
LEMMA InvCheck ==
  ASSUME MatchingInv, NEW r \in Requests, checkCandidate(r)
  PROVE  MatchingInv'
<1> USE DEF MatchingInv, accountVars
<1>1. PICK q : q = request[r] /\ q # None
  BY DEF checkCandidate
<1>2. q \in RequestType
  BY <1>1, RowTypes
<1>3. q.user \in Users /\ q.target \in Users /\ q.user # q.target
  BY <1>1, <1>2, RequestFields DEF RequestsSound
<1> DEFINE n == Cardinality(LikesOn(q.user, Day(q.at)))
           o == [q EXCEPT !.phase = "checked", !.reverse = HasLiked(q.target, q.user),
                          !.liked = HasLiked(q.user, q.target), !.count = n]
<1>4. /\ LocksFree(q.user, q.target)
      /\ request' = [request EXCEPT ![r] = IF NotActionable(q.user, q.target) THEN None ELSE o]
      /\ UNCHANGED <<accountVars, now, userLikes, matchActions, matches, userBlocks,
                     userBoosts, announced>>
  BY <1>1 DEF checkCandidate
<1>5. n \in Nat
  <2>1. LikesOn(q.user, Day(q.at)) \in SUBSET userLikes
    BY DEF LikesOn
  <2> QED
    BY <2>1, FS_Subset, FS_CardinalityType DEF RowsSound
<1>6. /\ o \in RequestType /\ o.phase = "checked" /\ o.user = q.user /\ o.target = q.target
      /\ o.reverse <=> HasLiked(q.target, q.user)
      /\ o.liked <=> HasLiked(q.user, q.target)
  <2> HIDE DEF n
  <2>1. HasLiked(q.target, q.user) \in BOOLEAN /\ HasLiked(q.user, q.target) \in BOOLEAN
    BY DEF HasLiked
  <2> QED
    BY <1>2, <1>5, <2>1 DEF RequestType
<1> HIDE DEF o, n
<1>7. request \in [Requests -> RequestType \cup {None}]
  BY DEF MatchingTypeOK
<1>8. /\ request' \in [Requests -> RequestType \cup {None}]
      /\ request'[r] = IF NotActionable(q.user, q.target) THEN None ELSE o
      /\ \A s \in Requests \ {r} : request'[s] = request[s]
  BY <1>4, <1>6, <1>7
<1>9. MatchingTypeOK'
  BY <1>4, <1>8 DEF MatchingTypeOK, AccountsTypeOK
<1>10. \A s \in Requests \ {r} : Holding(s) => ReadsHold(request[s])'
  BY <1>4, <1>8, OtherReads
<1>11. RequestsSound'
  <2>1. CASE NotActionable(q.user, q.target)
    <3>1. ~ Holding(r)'
      BY <1>8, <2>1 DEF Holding
    <3> QED
      BY <1>8, <1>10, <2>1, <3>1, OneRequest
  <2>2. CASE ~ NotActionable(q.user, q.target)
    <3>1. request'[r] = o
      BY <1>8, <2>2
    <3>2. /\ OpenActions(q.user, q.target) = {}
          /\ account[q.user] = "active" /\ account[q.target] = "active"
      BY <2>2 DEF NotActionable
    <3>3. ~ HasLiked(q.user, q.target)
      BY <1>3, <3>2 DEF LikesBacked
    <3>4. ReadsHold(o)
      BY <1>6, <3>2, <3>3 DEF ReadsHold
    <3>5. PICK c : c = o
      OBVIOUS
    <3>6. ReadsHold(request[r])'
      <4>1. ReadsHold(c) /\ request'[r] = c
        BY <3>1, <3>4, <3>5
      <4>2. ReadsHold(c)'
        BY <1>4, <4>1 DEF ReadsHold, HasLiked, OpenActions
      <4> QED
        BY <4>1, <4>2 DEF ReadsHold
    <3>7. \A s \in Requests \ {r} : Holding(s)' <=> Holding(s)
      BY <1>8 DEF Holding
    <3>8. \A s \in Requests : Holding(s)' => ReadsHold(request[s])'
      BY <1>10, <3>6, <3>7
    <3>9. \A s \in Requests : request'[s] # None => request'[s].user # request'[s].target
      BY <1>3, <1>6, <1>8, <3>1 DEF RequestsSound
    <3>10. \A s \in Requests : Holding(s) =>
             q.user # request[s].user /\ {q.user, q.target} # {request[s].user, request[s].target}
      BY <1>4 DEF LocksFree, UserKeyFree, PairKeyFree
    <3>11. \A s, t \in Requests : s # t /\ Holding(s)' /\ Holding(t)' =>
             /\ request'[s].user # request'[t].user
             /\ {request'[s].user, request'[s].target} # {request'[t].user, request'[t].target}
      BY <1>6, <1>8, <3>1, <3>7, <3>10 DEF RequestsSound
    <3> QED
      BY <3>8, <3>9, <3>11 DEF RequestsSound
  <2> QED
    BY <2>1, <2>2
<1> QED
  BY <1>4, <1>9, <1>11, RowsKept, PaidKept, AnnouncedKept, BoostsKept

-----------------------------------------------------------------------------
(* The commit of an action *)

\* Counting the superlikes of an account when one action is added.
LEMMA PaidAdded ==
  ASSUME SuperlikesPaid, MatchingTypeOK, RowsSound, NEW x, matchActions' = matchActions \cup {x},
         x.actor \in Users,
         \A v \in Users : spent'[v]["superlike"] =
             IF v = x.actor /\ x.action = "superlike" THEN spent[v]["superlike"] + 1
             ELSE spent[v]["superlike"]
  PROVE  SuperlikesPaid'
<1> SUFFICES ASSUME NEW v \in Users
             PROVE  Cardinality(Superlikes(v)') <= spent'[v]["superlike"]
  BY DEF SuperlikesPaid
<1>1. IsFiniteSet(Superlikes(v))
  BY FS_Subset DEF RowsSound, Superlikes
<1>2. PICK n \in Nat, m \in Nat :
        n = Cardinality(Superlikes(v)) /\ m = spent[v]["superlike"] /\ n <= m
  BY <1>1, FS_CardinalityType DEF SuperlikesPaid, MatchingTypeOK, AccountsTypeOK, CreditKinds
<1>3. CASE v = x.actor /\ x.action = "superlike"
  <2>1. Superlikes(v)' = Superlikes(v) \cup {x}
    BY <1>3 DEF Superlikes
  <2>2. Cardinality(Superlikes(v) \cup {x}) \in {n, n + 1}
    BY <1>1, <1>2, FS_AddElement
  <2>3. spent'[v]["superlike"] = m + 1
    BY <1>2, <1>3
  <2> QED
    BY <1>2, <2>1, <2>2, <2>3
<1>4. CASE ~ (v = x.actor /\ x.action = "superlike")
  <2>1. Superlikes(v)' = Superlikes(v)
    BY <1>4 DEF Superlikes
  <2>2. spent'[v]["superlike"] = m
    BY <1>2, <1>4
  <2> QED
    BY <1>2, <2>1, <2>2
<1> QED
  BY <1>3, <1>4

\* The commit relies on reads that the locks have kept true: the actor has
\* not liked the target yet, so that the match is new exactly when the
\* reverse like was found.
LEMMA InvCommit ==
  ASSUME MatchingInv, NEW r \in Requests, commitAction(r)
  PROVE  MatchingInv'
<1> USE DEF MatchingInv
<1>1. PICK q \in RequestType : q = request[r]
  BY RowTypes DEF commitAction, Holding
<1>2. /\ q.user \in Users /\ q.target \in Users /\ q.action \in Choices /\ q.at \in Times
      /\ q.user # q.target /\ Holding(r) /\ ReadsHold(q)
  BY <1>1, RequestFields DEF RequestsSound, commitAction, Holding
<1> DEFINE u == q.user
           t == q.target
           x == [actor |-> u, target |-> t, action |-> q.action, at |-> q.at]
           l == [liker |-> u, liked |-> t, at |-> q.at]
<1>3. /\ x \in ActionType /\ x.actor = u /\ x.target = t /\ x.action = q.action
      /\ l \in LikeType /\ l.liker = u /\ l.liked = t
  BY <1>2 DEF ActionType, LikeType
<1>4. /\ OpenActions(u, t) = {} /\ ~ q.liked /\ (q.reverse <=> HasLiked(t, u))
      /\ account[u] # "deleted" /\ account[t] # "deleted"
  BY <1>2 DEF ReadsHold
<1>5. ~ HasLiked(u, t)
  BY <1>2, <1>4 DEF LikesBacked
<1>6. /\ IF q.action = "superlike" THEN spendCredit(u, "superlike") ELSE UNCHANGED <<credits, spent>>
      /\ userLikes' = IF q.action \in Likes THEN userLikes \cup {l} ELSE userLikes
      /\ matchActions' = matchActions \cup {x}
      /\ matches' = IF q.action \in Likes /\ HasLiked(t, u) THEN matches \cup {{u, t}} ELSE matches
      /\ announced' = [announced EXCEPT ![{u, t}] =
                          IF q.action \in Likes /\ HasLiked(t, u) THEN @ + 1 ELSE @]
      /\ request' = [request EXCEPT ![r] = None]
      /\ UNCHANGED <<account, now, userBlocks, userBoosts>>
  BY <1>1, <1>2, <1>4 DEF commitAction, MatchesWith, Choices, Likes
<1> HIDE DEF x, l
<1>7. {u, t} \in Pairs
  BY <1>2, PairFacts
<1>8. /\ credits' \in [Users -> [CreditKinds -> Int]]
      /\ spent' \in [Users -> [CreditKinds -> Nat]]
      /\ \A v \in Users : spent'[v]["superlike"] =
             IF v = u /\ q.action = "superlike" THEN spent[v]["superlike"] + 1
             ELSE spent[v]["superlike"]
  <2>1. AccountsTypeOK /\ "superlike" \in CreditKinds
    BY DEF MatchingTypeOK, CreditKinds
  <2>2. CASE q.action = "superlike"
    BY <1>2, <1>6, <2>1, <2>2, SpendFacts
  <2>3. CASE q.action # "superlike"
    BY <1>6, <2>1, <2>3 DEF AccountsTypeOK
  <2> QED
    BY <2>2, <2>3
<1>9. /\ request' \in [Requests -> RequestType \cup {None}] /\ request'[r] = None
      /\ \A s \in Requests \ {r} : request'[s] = request[s]
  BY <1>6 DEF MatchingTypeOK
<1>10. MatchingTypeOK'
  <2>1. announced' \in [Pairs -> Nat]
    BY <1>6, <1>7 DEF MatchingTypeOK
  <2>2. /\ userLikes' \subseteq LikeType /\ matchActions' \subseteq ActionType
        /\ matches' \subseteq Pairs
    BY <1>3, <1>6, <1>7 DEF MatchingTypeOK
  <2> QED
    BY <1>6, <1>8, <1>9, <2>1, <2>2 DEF MatchingTypeOK, AccountsTypeOK
<1>11. \A a, b \in Users :
         /\ HasLiked(a, b)' <=> HasLiked(a, b) \/ (q.action \in Likes /\ a = u /\ b = t)
         /\ OpenActions(a, b)' = IF a = u /\ b = t THEN {x} ELSE OpenActions(a, b)
  BY <1>3, <1>4, <1>6 DEF HasLiked, OpenActions
<1>12. RowsSound'
  <2>1. IsFiniteSet(userLikes') /\ IsFiniteSet(matchActions')
    BY <1>6, FS_AddElement DEF RowsSound
  <2>2. \A y \in matchActions : ~ (y.actor = u /\ y.target = t)
    BY <1>4 DEF OpenActions
  <2>3. \A m \in userLikes : ~ (m.liker = u /\ m.liked = t)
    BY <1>5 DEF HasLiked
  <2> QED
    BY <1>2, <1>3, <1>6, <2>1, <2>2, <2>3 DEF RowsSound
<1>13. LikesBacked'
  BY <1>3, <1>5, <1>11 DEF LikesBacked
<1>14. MutualMatched'
  <2> SUFFICES ASSUME NEW a \in Users, NEW b \in Users, a # b
               PROVE  {a, b} \in matches' <=> HasLiked(a, b)' /\ HasLiked(b, a)'
    BY DEF MutualMatched
  <2>1. {a, b} \in matches <=> HasLiked(a, b) /\ HasLiked(b, a)
    BY DEF MutualMatched
  <2>2. CASE {a, b} = {u, t}
    <3>1. (a = u /\ b = t) \/ (a = t /\ b = u)
      BY <2>2, SamePair
    <3> QED
      BY <1>2, <1>5, <1>6, <1>11, <2>1, <2>2, <3>1
  <2>3. CASE {a, b} # {u, t}
    <3>1. ~ (a = u /\ b = t) /\ ~ (a = t /\ b = u)
      BY <2>3, SamePair
    <3>2. {a, b} \in matches' <=> {a, b} \in matches
      BY <1>6, <2>3
    <3> QED
      BY <1>11, <2>1, <3>1, <3>2
  <2> QED
    BY <2>2, <2>3
<1>15. SuperlikesPaid'
  BY <1>2, <1>3, <1>6, <1>8, PaidAdded
<1>16. RequestsSound'
  <2>1. ASSUME NEW s \in Requests \ {r}, Holding(s) PROVE ReadsHold(request[s])'
    <3>1. PICK o \in RequestType : o = request[s]
      BY <2>1, RowTypes DEF Holding
    <3>2. /\ o.user \in Users /\ o.target \in Users /\ ReadsHold(o) /\ o = request'[s]
          /\ o.user # u /\ {o.user, o.target} # {u, t}
      BY <1>1, <1>2, <1>9, <2>1, <3>1, RequestFields DEF RequestsSound
    <3>3. ~ (o.target = u /\ o.user = t)
      BY <3>2, SamePair
    <3>4. /\ OpenActions(o.user, o.target)' = {} /\ ~ o.liked
          /\ o.reverse <=> HasLiked(o.target, o.user)'
          /\ account'[o.user] # "deleted" /\ account'[o.target] # "deleted"
      BY <1>6, <1>11, <3>2, <3>3 DEF ReadsHold
    <3> QED
      BY <3>2, <3>4 DEF ReadsHold
  <2>2. ~ Holding(r)'
    BY <1>9 DEF Holding
  <2> QED
    BY <1>9, <2>1, <2>2, OneRequest
<1>17. AnnouncedForGood'
  <2> SUFFICES ASSUME NEW p \in Pairs
               PROVE  /\ announced'[p] <= 1
                      /\ announced'[p] # 0 =>
                           p \in matches' \/ \E v \in p : account'[v] = "deleted"
    BY DEF AnnouncedForGood
  <2>1. /\ announced[p] \in Nat /\ announced[p] <= 1
        /\ announced[p] # 0 => p \in matches \/ \E v \in p : account[v] = "deleted"
    BY DEF AnnouncedForGood, MatchingTypeOK
  <2>2. CASE p = {u, t} /\ q.action \in Likes /\ HasLiked(t, u)
    <3>1. p \notin matches
      BY <1>2, <1>5, <2>2 DEF MutualMatched
    <3>2. announced[p] = 0
      BY <1>4, <2>1, <2>2, <3>1
    <3>3. announced'[p] = 1 /\ p \in matches'
      BY <1>6, <2>2, <3>2 DEF MatchingTypeOK
    <3> QED
      BY <3>3
  <2>3. CASE ~ (p = {u, t} /\ q.action \in Likes /\ HasLiked(t, u))
    <3>1. announced'[p] = announced[p]
      BY <1>6, <2>3 DEF MatchingTypeOK
    <3>2. p \in matches => p \in matches'
      BY <1>6
    <3> QED
      BY <1>6, <2>1, <3>1, <3>2
  <2> QED
    BY <2>2, <2>3
<1>18. BoostsDisjoint'
  BY <1>6, BoostsKept
<1> QED
  BY <1>10, <1>12, <1>13, <1>14, <1>15, <1>16, <1>17, <1>18

-----------------------------------------------------------------------------
(* Undo *)

\* A superlike that is undone is still paid for, so its refund leaves spent
\* a natural number that covers the superlikes that remain.
LEMMA PaidRemoved ==
  ASSUME SuperlikesPaid, MatchingTypeOK, RowsSound, NEW x \in matchActions,
         matchActions' = matchActions \ {x}, x.actor \in Users, refundSuperlike(x)
  PROVE  /\ SuperlikesPaid'
         /\ credits' \in [Users -> [CreditKinds -> Int]]
         /\ spent' \in [Users -> [CreditKinds -> Nat]]
<1>1. AccountsTypeOK /\ "superlike" \in CreditKinds
  BY DEF MatchingTypeOK, CreditKinds
<1>2. ASSUME NEW v \in Users
      PROVE  /\ IsFiniteSet(Superlikes(v)) /\ Cardinality(Superlikes(v)) \in Nat
             /\ spent[v]["superlike"] \in Nat
             /\ Cardinality(Superlikes(v)) <= spent[v]["superlike"]
  <2>1. IsFiniteSet(Superlikes(v))
    BY FS_Subset DEF RowsSound, Superlikes
  <2> QED
    BY <1>1, <2>1, FS_CardinalityType DEF SuperlikesPaid, AccountsTypeOK
<1>3. CASE x.action = "superlike"
  <2>1. x \in Superlikes(x.actor)
    BY <1>3 DEF Superlikes
  <2>2. PICK n \in Nat, m \in Nat :
          n = Cardinality(Superlikes(x.actor)) /\ m = spent[x.actor]["superlike"] /\ n <= m
    BY <1>2
  <2>3. n # 0
    BY <1>2, <2>1, <2>2, FS_EmptySet
  <2>4. /\ credits' \in [Users -> [CreditKinds -> Int]]
        /\ spent' \in [Users -> [CreditKinds -> Nat]]
        /\ \A v \in Users : spent'[v]["superlike"] =
             IF v = x.actor THEN spent[v]["superlike"] - 1 ELSE spent[v]["superlike"]
    <3>1. returnCredit(x.actor, "superlike") /\ spent[x.actor]["superlike"] > 0
      BY <1>3, <2>2, <2>3 DEF refundSuperlike
    <3> QED
      BY <1>1, <3>1, ReturnFacts
  <2>5. ASSUME NEW v \in Users PROVE Cardinality(Superlikes(v)') <= spent'[v]["superlike"]
    <3>1. CASE v = x.actor
      <4>1. Superlikes(v)' = Superlikes(v) \ {x}
        BY <3>1 DEF Superlikes
      <4>2. Cardinality(Superlikes(v) \ {x}) = n - 1
        BY <1>2, <2>1, <2>2, <3>1, FS_RemoveElement
      <4>3. spent'[v]["superlike"] = m - 1
        BY <2>2, <2>4, <3>1
      <4> QED
        BY <2>2, <4>1, <4>2, <4>3
    <3>2. CASE v # x.actor
      <4>1. Superlikes(v)' = Superlikes(v) /\ spent'[v]["superlike"] = spent[v]["superlike"]
        BY <2>4, <3>2 DEF Superlikes
      <4> QED
        BY <1>2, <4>1
    <3> QED
      BY <3>1, <3>2
  <2> QED
    BY <2>4, <2>5 DEF SuperlikesPaid
<1>4. CASE x.action # "superlike"
  <2>1. UNCHANGED <<credits, spent>>
    BY <1>4 DEF refundSuperlike
  <2>2. \A v \in Users : Superlikes(v)' = Superlikes(v)
    BY <1>4 DEF Superlikes
  <2>3. SuperlikesPaid'
    BY <2>1, <2>2 DEF SuperlikesPaid
  <2> QED
    BY <1>1, <2>1, <2>3 DEF AccountsTypeOK
<1> QED
  BY <1>3, <1>4

\* An undo waits for the pair's lock, so that no request loses what it has
\* read, and leaves matched pairs alone.
LEMMA InvUndo ==
  ASSUME MatchingInv, NEW u \in Users, undoLastAction(u)
  PROVE  MatchingInv'
<1> USE DEF MatchingInv
<1>1. PICK x \in matchActions :
        /\ x.actor = u /\ Undoable(x)
        /\ matchActions' = matchActions \ {x}
        /\ userLikes' = userLikes \ Revoked(x)
        /\ refundSuperlike(x)
  BY DEF undoLastAction, LastActions
<1>2. UNCHANGED <<account, now, matches, userBlocks, userBoosts, request, announced>>
  BY DEF undoLastAction
<1>3. PICK t \in Users : t = x.target
  BY RowTypes
<1>4. u # t /\ {u, t} \notin matches
  BY <1>1, <1>3 DEF RowsSound, Undoable
<1>5. /\ SuperlikesPaid'
      /\ credits' \in [Users -> [CreditKinds -> Int]]
      /\ spent' \in [Users -> [CreditKinds -> Nat]]
  BY <1>1, PaidRemoved
<1>6. userLikes' \subseteq userLikes /\ matchActions' \subseteq matchActions
  BY <1>1
<1>7. MatchingTypeOK'
  BY <1>2, <1>5, <1>6 DEF MatchingTypeOK, AccountsTypeOK
<1>8. RowsSound'
  BY <1>6, FS_Subset DEF RowsSound
<1>9. \A a, b \in Users :
        /\ HasLiked(a, b)' <=> HasLiked(a, b) /\ ~ (x.action \in Likes /\ a = u /\ b = t)
        /\ OpenActions(a, b)' = IF a = u /\ b = t THEN {} ELSE OpenActions(a, b)
  <2>1. Revoked(x) = IF x.action \in Likes THEN {l \in userLikes : l.liker = u /\ l.liked = t}
                     ELSE {}
    BY <1>1, <1>3 DEF Revoked
  <2>2. \A y \in matchActions : y.actor = u /\ y.target = t <=> y = x
    BY <1>1, <1>3 DEF RowsSound
  <2>3. \A a, b \in Users :
          HasLiked(a, b)' <=> HasLiked(a, b) /\ ~ (x.action \in Likes /\ a = u /\ b = t)
    BY <1>1, <2>1 DEF HasLiked
  <2>4. \A a, b \in Users :
          OpenActions(a, b)' = IF a = u /\ b = t THEN {} ELSE OpenActions(a, b)
    BY <1>1, <1>3, <2>2 DEF OpenActions
  <2> QED
    BY <2>3, <2>4
<1>10. LikesBacked'
  <2>1. OpenActions(u, t) = {x}
    BY <1>1, <1>3 DEF OpenActions, RowsSound
  <2> QED
    BY <1>9, <2>1 DEF LikesBacked
<1>11. MutualMatched'
  <2> SUFFICES ASSUME NEW a \in Users, NEW b \in Users, a # b
               PROVE  {a, b} \in matches' <=> HasLiked(a, b)' /\ HasLiked(b, a)'
    BY DEF MutualMatched
  <2>1. {a, b} \in matches <=> HasLiked(a, b) /\ HasLiked(b, a)
    BY DEF MutualMatched
  <2>2. {a, b} \in matches => ~ (a = u /\ b = t) /\ ~ (b = u /\ a = t)
    BY <1>4, SamePair
  <2> QED
    BY <1>2, <1>9, <2>1, <2>2
<1>12. RequestsSound'
  <2>1. \A s \in Requests : request'[s] = request[s] /\ (Holding(s)' <=> Holding(s))
    BY <1>2 DEF Holding
  <2>2. ASSUME NEW s \in Requests, Holding(s)' PROVE ReadsHold(request[s])'
    <3>1. PICK o \in RequestType : o = request[s]
      BY <2>1, <2>2, RowTypes DEF Holding
    <3>2. /\ o.user \in Users /\ o.target \in Users /\ ReadsHold(o) /\ o = request'[s]
          /\ {o.user, o.target} # {u, t}
      BY <1>1, <1>3, <2>1, <2>2, <3>1, RequestFields DEF RequestsSound, Undoable, PairKeyFree
    <3>3. ~ (o.target = u /\ o.user = t) /\ ~ (o.user = u /\ o.target = t)
      BY <3>2, SamePair
    <3>4. /\ OpenActions(o.user, o.target)' = {} /\ ~ o.liked
          /\ o.reverse <=> HasLiked(o.target, o.user)'
          /\ account'[o.user] # "deleted" /\ account'[o.target] # "deleted"
      BY <1>2, <1>9, <3>2, <3>3 DEF ReadsHold
    <3> QED
      BY <3>2, <3>4 DEF ReadsHold
  <2>3. /\ \A r \in Requests : request'[r] # None => request'[r].user # request'[r].target
        /\ \A r, s \in Requests : r # s /\ Holding(r)' /\ Holding(s)' =>
             /\ request'[r].user # request'[s].user
             /\ {request'[r].user, request'[r].target} # {request'[s].user, request'[s].target}
    BY <2>1 DEF RequestsSound
  <2> QED
    BY <2>2, <2>3 DEF RequestsSound
<1> QED
  BY <1>2, <1>5, <1>7, <1>8, <1>10, <1>11, <1>12, AnnouncedKept, BoostsKept

-----------------------------------------------------------------------------
(* The invariant of matching, and what it gives *)

LEMMA InvMatchingStep ==
  ASSUME MatchingInv, MatchingStep
  PROVE  MatchingInv'
<1>1. ASSUME NEW r \in Requests, RequestRuns(r) PROVE MatchingInv'
  BY <1>1, InvCheck, InvCommit, InvAbort DEF RequestRuns
<1>2. ASSUME NEW u \in Users, UserStep(u) PROVE MatchingInv'
  BY <1>2, InvUndo, InvBoost, InvBlock DEF UserStep
<1> QED
  BY <1>1, <1>2, InvTick DEF MatchingStep

LEMMA MatchingInvNext ==
  ASSUME MatchingInv, [MatchingNext]_<<accountVars, matchingVars>>
  PROVE  MatchingInv'
<1>1. ASSUME NEW r \in Requests, RequestArrives(r) PROVE MatchingInv'
  <2>1. PICK c \in Candidates, choice \in Choices, limit \in Limits :
          likeUser(r, c[1], c[2], choice, limit)
    BY <1>1 DEF RequestArrives
  <2>2. c[1] \in Users /\ c[2] \in Users
    BY DEF Candidates
  <2> QED
    BY <2>1, <2>2, InvArrive
<1>2. ASSUME NEW u \in Leavers, MatchingAccountStep(u) PROVE MatchingInv'
  <2>1. u \in Users
    BY MatchingConstants
  <2> QED
    BY <1>2, <2>1, InvHide, InvClose DEF MatchingAccountStep
<1>3. CASE UNCHANGED <<accountVars, matchingVars>>
  <2>1. UNCHANGED <<account, credits, spent>> /\ UNCHANGED matchingVars
    BY <1>3 DEF accountVars
  <2>2. AccountsTypeOK'
    BY <2>1 DEF MatchingInv, MatchingTypeOK, AccountsTypeOK
  <2> QED
    BY <2>1, <2>2, InvCreditsOnly
<1>4. CASE MatchingNext
  BY <1>1, <1>2, <1>4, InvMatchingStep, InvBuy DEF MatchingNext
<1> QED
  BY <1>3, <1>4

LEMMA MatchingInvariant == MatchingSpec => []MatchingInv
  BY MatchingInvInit, MatchingInvNext, PTL DEF MatchingSpec

LEMMA InvMutual == MatchingInv => MutualLikesMatched
<1> SUFFICES ASSUME MatchingInv, NEW p \in Pairs
             PROVE  p \in matches <=> \A a, b \in p : a # b => HasLiked(a, b)
  BY DEF MutualLikesMatched
<1>1. PICK a \in Users, b \in Users : a # b /\ p = {a, b}
  BY PairFacts
<1>2. p \in matches <=> HasLiked(a, b) /\ HasLiked(b, a)
  BY <1>1 DEF MatchingInv, MutualMatched
<1> QED
  BY <1>1, <1>2

LEMMA InvLikes == MatchingInv => LikesFollowActions
<1> SUFFICES ASSUME MatchingInv, NEW c \in Candidates
             PROVE  /\ Cardinality(OpenActions(c[1], c[2])) <= 1
                    /\ HasLiked(c[1], c[2]) <=>
                         \E x \in OpenActions(c[1], c[2]) : x.action \in Likes
                    /\ Cardinality({l \in userLikes : l.liker = c[1] /\ l.liked = c[2]}) <= 1
  BY DEF LikesFollowActions
<1>1. c[1] \in Users /\ c[2] \in Users
  BY DEF Candidates
<1>2. Cardinality(OpenActions(c[1], c[2])) <= 1
  <2>1. \A x, y \in OpenActions(c[1], c[2]) : x = y
    BY DEF MatchingInv, RowsSound, OpenActions
  <2> QED
    BY <2>1, AtMostOne
<1>3. Cardinality({l \in userLikes : l.liker = c[1] /\ l.liked = c[2]}) <= 1
  <2> DEFINE S == {l \in userLikes : l.liker = c[1] /\ l.liked = c[2]}
  <2>1. \A x, y \in S : x = y
    BY DEF MatchingInv, RowsSound
  <2> HIDE DEF S
  <2> QED
    BY <2>1, AtMostOne DEF S
<1> QED
  BY <1>1, <1>2, <1>3 DEF MatchingInv, LikesBacked

\* Rows, requests and balances have the types of the schema at every moment;
\* in particular no sequence of likes, undos and deletions of targets
\* refunds more superlikes than were paid for (matching.repository.ts).
THEOREM MatchingTypes == MatchingSpec => []MatchingTypeOK
<1>1. MatchingInv => MatchingTypeOK
  BY DEF MatchingInv
<1> QED
  BY <1>1, MatchingInvariant, PTL

\* Two people are matched exactly when each has liked the other, however
\* reciprocal likes, undos and deletions interleave between the locked reads
\* of actOnCandidate and its commit.
THEOREM MatchesAreMutual == MatchingSpec => []MutualLikesMatched
  BY InvMutual, MatchingInvariant, PTL

\* A pair is told of its match at most once: the commit that completes it
\* found it incomplete, and a match is only ever removed with a member.
THEOREM AnnouncedOnce == MatchingSpec => []MatchAnnouncedOnce
<1>1. MatchingInv => MatchAnnouncedOnce
  BY DEF MatchingInv, AnnouncedForGood, MatchAnnouncedOnce
<1> QED
  BY <1>1, MatchingInvariant, PTL

\* user_likes and the open rows of match_actions never part: one open action
\* of an actor on a target at most, and a like row exactly with an open like.
THEOREM LikesBackedByActions == MatchingSpec => []LikesFollowActions
  BY InvLikes, MatchingInvariant, PTL

\* The boosts of an account never overlap, although an activation may use a
\* clock read before another's commit.
THEOREM BoostsApart == MatchingSpec => []BoostsDisjoint
<1>1. MatchingInv => BoostsDisjoint
  BY DEF MatchingInv
<1> QED
  BY <1>1, MatchingInvariant, PTL

-----------------------------------------------------------------------------
(* The invariant of billing *)

\* A payload is kept under its own id.
EventsKeyed == \A i \in EventIds : billingEvents[i] # None => billingEvents[i].id = i

Bought == {t \in Txns : transaction[t] # None}

\* A plan was asked for by an event, even where the account was deleted since.
SubscriptionBacked(u) ==
    subscription[u] # None =>
        \E e \in SubscriptionEventsOf(u) :
            /\ e.product = subscription[u].plan
            /\ revenueCatSubscriptionStatus(e) = subscription[u].status

BillingInv ==
    /\ BillingTypeOK
    /\ EventsKeyed
    /\ IsFiniteSet(Bought) /\ IsFiniteSet(ledger)
    /\ NewestEventWins
    /\ \A u \in Users : SubscriptionBacked(u)
    /\ BalanceConserved
    /\ LedgerExplains

-----------------------------------------------------------------------------
(* Events, units and deltas *)

LEMMA EventFields ==
  ASSUME NEW e \in Events
  PROVE  /\ e # None /\ e.id \in EventIds /\ e.user \in Users /\ e.txn \in Txns
         /\ e.product \in Products /\ e.ts \in Nat /\ e.ts \in Timestamps
  BY BillingConstants DEF EventType

LEMMA TransactionFields ==
  ASSUME NEW row \in TransactionType
  PROVE  /\ row # None /\ row.user \in Users /\ row.product \in CreditKinds
         /\ row.state \in TransactionStates /\ row.ts \in Nat
  BY BillingConstants DEF TransactionType

LEMMA SubscriptionFields ==
  ASSUME NEW row \in SubscriptionType
  PROVE  row # None /\ row.ts \in Nat
  BY BillingConstants DEF SubscriptionType

LEMMA TargetFacts ==
  ASSUME NEW e, IsConsumableEvent(e)
  PROVE  /\ revenueCatConsumableTargetState(e) \in TransactionStates
         /\ e.product \in CreditKinds
  BY DEF IsConsumableEvent, revenueCatConsumableTargetState, TransactionStates

LEMMA StatusFacts ==
  ASSUME NEW e, IsSubscriptionEvent(e)
  PROVE  /\ revenueCatSubscriptionStatus(e) \in {"active", "expired"}
         /\ e.product \in SubscriptionProducts
  BY DEF IsSubscriptionEvent, revenueCatSubscriptionStatus

LEMMA EitherKind ==
  ASSUME NEW e
  PROVE  ~ (IsConsumableEvent(e) /\ IsSubscriptionEvent(e))
  BY DEF IsConsumableEvent, IsSubscriptionEvent, CreditKinds, SubscriptionProducts

LEMMA UnitsFacts ==
  ASSUME NEW p \in CreditKinds
  PROVE  /\ UnitsOf(p) \in [CreditKinds -> Nat] /\ UnitsOf(p)[p] > 0
         /\ \A k \in CreditKinds \ {p} : UnitsOf(p)[k] = 0
         /\ Negated(UnitsOf(p)) \in [CreditKinds -> Int]
         /\ \A k \in CreditKinds : Negated(UnitsOf(p))[k] = - UnitsOf(p)[k]
         /\ NoCredits \in [CreditKinds -> Nat] /\ \A k \in CreditKinds : NoCredits[k] = 0
<1>1. NoCredits \in [CreditKinds -> Nat] /\ \A k \in CreditKinds : NoCredits[k] = 0
  BY DEF NoCredits
<1>2. SuperLikePack \in Nat /\ SuperLikePack > 0
  BY BillingConstants
<1>3. UnitsOf(p) \in [CreditKinds -> Nat] /\ UnitsOf(p)[p] > 0
      /\ \A k \in CreditKinds \ {p} : UnitsOf(p)[k] = 0
  BY <1>1, <1>2 DEF UnitsOf
<1>4. /\ Negated(UnitsOf(p)) \in [CreditKinds -> Int]
      /\ \A k \in CreditKinds : Negated(UnitsOf(p))[k] = - UnitsOf(p)[k]
  BY <1>3 DEF Negated
<1> QED
  BY <1>1, <1>3, <1>4

\* A grant, its return and no change are told apart by their deltas.
LEMMA DeltasDiffer ==
  ASSUME NEW p \in CreditKinds
  PROVE  /\ UnitsOf(p) # Negated(UnitsOf(p)) /\ UnitsOf(p) # NoCredits
         /\ Negated(UnitsOf(p)) # NoCredits
<1>1. PICK n \in Nat : n = UnitsOf(p)[p] /\ n > 0
  BY UnitsFacts
<1>2. Negated(UnitsOf(p))[p] = - n /\ NoCredits[p] = 0
  BY <1>1, UnitsFacts
<1> QED
  BY <1>1, <1>2

LEMMA DeltaFacts ==
  ASSUME NEW cur, NEW target \in TransactionStates, NEW units
  PROVE  transitionDelta(cur, target, units) =
           IF (target = "granted") <=> (cur = "granted") THEN NoCredits
           ELSE IF target = "granted" THEN units ELSE Negated(units)
  BY DEF transitionDelta, TransactionStates

LEMMA InsertFacts ==
  ASSUME BillingTypeOK, EventsKeyed, NEW e \in Events, insertEvent(e)
  PROVE  /\ billingEvents' \in [EventIds -> Events \cup {None}]
         /\ EventsKeyed'
         /\ Received' = Received \cup {e}
         /\ \A d \in Received : d \in Events /\ d.id # e.id /\ billingEvents[d.id] = d
         /\ billingEvents'[e.id] = e
         /\ \A i \in EventIds \ {e.id} : billingEvents'[i] = billingEvents[i]
<1>1. e.id \in EventIds /\ e # None
  BY EventFields
<1>2. /\ billingEvents \in [EventIds -> Events \cup {None}] /\ billingEvents[e.id] = None
      /\ billingEvents' = [billingEvents EXCEPT ![e.id] = e]
  BY DEF BillingTypeOK, insertEvent
<1>3. /\ billingEvents' \in [EventIds -> Events \cup {None}]
      /\ billingEvents'[e.id] = e
      /\ \A i \in EventIds \ {e.id} : billingEvents'[i] = billingEvents[i]
  BY <1>1, <1>2
<1>4. EventsKeyed'
  BY <1>3 DEF EventsKeyed
<1>5. Received' = Received \cup {e}
  BY <1>1, <1>2, <1>3 DEF Received
<1>6. \A d \in Received : d \in Events /\ d.id # e.id /\ billingEvents[d.id] = d
  BY <1>2 DEF Received, EventsKeyed
<1> QED
  BY <1>3, <1>4, <1>5, <1>6

LEMMA HistoryGrows ==
  ASSUME NEW e, Received' = Received \cup {e}
  PROVE  /\ \A t : TransitionsOf(t)' = IF IsConsumableEvent(e) /\ e.txn = t
                                     THEN TransitionsOf(t) \cup {e} ELSE TransitionsOf(t)
         /\ \A u : SubscriptionEventsOf(u)' = IF IsSubscriptionEvent(e) /\ e.user = u
                                            THEN SubscriptionEventsOf(u) \cup {e}
                                            ELSE SubscriptionEventsOf(u)
  BY DEF TransitionsOf, SubscriptionEventsOf

-----------------------------------------------------------------------------
(* What carries over when the rows it is about do not change *)

LEMMA NewestKept ==
  ASSUME NEW t, TransactionNewest(t), TransitionsOf(t)' = TransitionsOf(t),
         transaction'[t] = transaction[t]
  PROVE  TransactionNewest(t)'
  BY DEF TransactionNewest

LEMMA NewestMade ==
  ASSUME NEW t, NEW next, next # None, transaction'[t] = next,
         NEW T, TransitionsOf(t)' = T,
         \A d \in T : /\ next.user = d.user /\ next.product = d.product
                      /\ next.ts >= d.ts
                      /\ next.ts = d.ts => next.state = revenueCatConsumableTargetState(d),
         \E d \in T : d.ts = next.ts
  PROVE  TransactionNewest(t)'
  BY DEF TransactionNewest

LEMMA SubscriptionKept ==
  ASSUME NEW u, SubscriptionNewest(u), SubscriptionEventsOf(u)' = SubscriptionEventsOf(u),
         subscription'[u] = subscription[u]
  PROVE  SubscriptionNewest(u)'
  BY DEF SubscriptionNewest

LEMMA BackedKept ==
  ASSUME NEW u, SubscriptionBacked(u), SubscriptionEventsOf(u) \subseteq SubscriptionEventsOf(u)',
         subscription'[u] = subscription[u]
  PROVE  SubscriptionBacked(u)'
  BY DEF SubscriptionBacked

LEMMA ExplainedKept ==
  ASSUME NEW t, TransactionExplained(t), transaction'[t] = transaction[t],
         EntriesOf(t)' = EntriesOf(t),
         \A l \in EntriesOf(t) : billingEvents'[l.id] = billingEvents[l.id]
  PROVE  TransactionExplained(t)'
  BY DEF TransactionExplained, EntriesWith

LEMMA LedgerKept ==
  ASSUME LedgerExplains, UNCHANGED <<transaction, ledger>>,
         \A t \in Txns : TransitionsOf(t)' = TransitionsOf(t),
         \A l \in ledger : billingEvents'[l.id] = billingEvents[l.id]
  PROVE  LedgerExplains'
<1>1. \A t \in Txns : EntriesOf(t)' = EntriesOf(t)
  BY DEF EntriesOf
<1>2. /\ \A t \in Txns : {l.id : l \in EntriesOf(t)'} = {e.id : e \in TransitionsOf(t)'}
      /\ \A l, m \in ledger' : l.id = m.id => l = m
  BY <1>1 DEF LedgerExplains
<1>3. ASSUME NEW t \in Txns, transaction'[t] # None PROVE TransactionExplained(t)'
  <2>1. TransactionExplained(t)
    BY <1>3 DEF LedgerExplains
  <2>2. \A l \in EntriesOf(t) : billingEvents'[l.id] = billingEvents[l.id]
    BY DEF EntriesOf
  <2> QED
    BY <1>1, <2>1, <2>2, ExplainedKept
<1> QED
  BY <1>2, <1>3 DEF LedgerExplains

LEMMA GrantedType ==
  ASSUME IsFiniteSet(Bought), NEW u, NEW k \in CreditKinds
  PROVE  IsFiniteSet(HeldPurchases(u, k)) /\ GrantedUnits(u, k) \in Int
<1>1. HeldPurchases(u, k) \in SUBSET Bought
  BY DEF HeldPurchases, Bought
<1>2. IsFiniteSet(HeldPurchases(u, k)) /\ Cardinality(HeldPurchases(u, k)) \in Nat
  BY <1>1, FS_Subset, FS_CardinalityType
<1>3. UnitsOf(k)[k] \in Nat
  BY UnitsFacts
<1> QED
  BY <1>2, <1>3 DEF GrantedUnits

\* Credits that are used and returned move between the balance and spent.
LEMMA BalanceKept ==
  ASSUME BillingTypeOK, BillingTypeOK', IsFiniteSet(Bought), BalanceConserved, UNCHANGED transaction,
         \A u \in Users, k \in CreditKinds : account'[u] # "deleted" =>
           /\ account[u] # "deleted"
           /\ credits'[u][k] + spent'[u][k] = credits[u][k] + spent[u][k]
  PROVE  BalanceConserved'
<1> SUFFICES ASSUME NEW u \in Users, NEW k \in CreditKinds, account'[u] # "deleted"
             PROVE  credits'[u][k] = GrantedUnits(u, k)' - spent'[u][k]
  BY DEF BalanceConserved
<1>1. PICK g : g = GrantedUnits(u, k)
  OBVIOUS
<1>2. GrantedUnits(u, k)' = g
  BY <1>1 DEF GrantedUnits, HeldPurchases
<1>3. PICK c \in Int, s \in Int, d \in Int, z \in Int :
        c = credits[u][k] /\ s = spent[u][k] /\ d = credits'[u][k] /\ z = spent'[u][k]
  BY DEF BillingTypeOK, AccountsTypeOK
<1>4. c = g - s /\ d + z = c + s
  BY <1>1, <1>3 DEF BalanceConserved
<1>5. g \in Int
  BY <1>1, GrantedType
<1> QED
  BY <1>2, <1>3, <1>4, <1>5

LEMMA EntryIds ==
  ASSUME BillingTypeOK, LedgerExplains, NEW l \in ledger
  PROVE  l.txn \in Txns /\ l.id \in EventIds /\ \E d \in Received : d.id = l.id
<1>1. l.txn \in Txns /\ l.id \in EventIds
  BY DEF BillingTypeOK, LedgerType
<1>2. l \in EntriesOf(l.txn)
  BY DEF EntriesOf
<1>3. l.id \in {e.id : e \in TransitionsOf(l.txn)}
  BY <1>1, <1>2 DEF LedgerExplains
<1> QED
  BY <1>1, <1>3 DEF TransitionsOf

-----------------------------------------------------------------------------
(* Webhooks *)

\* An event that concerns no store transaction leaves what is about them.
LEMMA TransactionsKept ==
  ASSUME BillingInv, NEW e \in Events, ~ IsConsumableEvent(e), insertEvent(e), BillingTypeOK',
         UNCHANGED <<accountVars, transaction, ledger>>
  PROVE  /\ EventsKeyed'
         /\ IsFiniteSet(Bought)' /\ IsFiniteSet(ledger)'
         /\ \A t \in Txns : TransactionNewest(t)'
         /\ BalanceConserved'
         /\ LedgerExplains'
<1> USE DEF BillingInv
<1>1. /\ EventsKeyed' /\ Received' = Received \cup {e}
      /\ \A d \in Received : d.id # e.id
      /\ \A i \in EventIds \ {e.id} : billingEvents'[i] = billingEvents[i]
  BY InsertFacts
<1>2. \A t : TransitionsOf(t)' = TransitionsOf(t)
  BY <1>1, HistoryGrows
<1>3. \A t \in Txns : TransactionNewest(t)'
  BY <1>2, NewestKept DEF NewestEventWins
<1>4. IsFiniteSet(Bought)' /\ IsFiniteSet(ledger)'
  BY DEF Bought
<1>5. BalanceConserved'
  BY BalanceKept DEF accountVars
<1>6. \A l \in ledger : billingEvents'[l.id] = billingEvents[l.id]
  BY <1>1, EntryIds
<1> QED
  BY <1>1, <1>2, <1>3, <1>4, <1>5, <1>6, LedgerKept

LEMMA InvRecord ==
  ASSUME BillingInv, NEW e \in Events, recordEvent(e)
  PROVE  BillingInv'
<1> USE DEF BillingInv, recordEvent
<1>1. billingEvents' \in [EventIds -> Events \cup {None}] /\ Received' = Received \cup {e}
  BY InsertFacts
<1>2. BillingTypeOK'
  BY <1>1 DEF BillingTypeOK, AccountsTypeOK, accountVars
<1>3. \A u : SubscriptionEventsOf(u)' = SubscriptionEventsOf(u)
  BY <1>1, HistoryGrows
<1>4. \A u \in Users : account'[u] # "deleted" => SubscriptionNewest(u)'
  BY <1>3, SubscriptionKept DEF NewestEventWins, accountVars
<1>5. \A u \in Users : SubscriptionBacked(u)'
  BY <1>3, BackedKept
<1> QED
  BY <1>2, <1>4, <1>5, TransactionsKept DEF NewestEventWins

\* A subscription event is stale, or the newest of its account.
LEMMA InvSubscription ==
  ASSUME BillingInv, NEW e \in Events, applySubscription(e)
  PROVE  BillingInv'
<1> USE DEF BillingInv
<1> DEFINE u == e.user
           new == [plan |-> e.product, status |-> revenueCatSubscriptionStatus(e), ts |-> e.ts]
<1>1. /\ billingEvents' \in [EventIds -> Events \cup {None}] /\ Received' = Received \cup {e}
      /\ \A d \in Received : d \in Events
  BY InsertFacts DEF applySubscription
<1>2. /\ IsSubscriptionEvent(e) /\ insertEvent(e) /\ ~ IsConsumableEvent(e)
      /\ UNCHANGED <<accountVars, transaction, ledger>>
  BY EitherKind DEF applySubscription
<1>3. /\ new \in SubscriptionType /\ u \in Users /\ new # None
      /\ new.ts = e.ts /\ new.plan = e.product /\ new.status = revenueCatSubscriptionStatus(e)
  BY <1>2, StatusFacts, EventFields, SubscriptionFields DEF SubscriptionType
<1>4. subscription' = IF SubscriptionStale(e) THEN subscription ELSE [subscription EXCEPT ![u] = new]
  BY DEF applySubscription
<1>5. notifying' \subseteq Events
  BY DEF applySubscription, BillingTypeOK
<1> HIDE DEF new
<1>6. BillingTypeOK'
  BY <1>1, <1>2, <1>3, <1>4, <1>5 DEF BillingTypeOK, AccountsTypeOK, accountVars
<1>7. \A v \in Users \ {u} : /\ subscription'[v] = subscription[v]
                             /\ SubscriptionEventsOf(v)' = SubscriptionEventsOf(v)
  BY <1>1, <1>3, <1>4, HistoryGrows DEF BillingTypeOK
<1>8. SubscriptionEventsOf(u)' = SubscriptionEventsOf(u) \cup {e}
  BY <1>1, <1>2, HistoryGrows
<1>9. subscription[u] # None => subscription[u].ts \in Nat
  BY <1>3, SubscriptionFields DEF BillingTypeOK
<1>10. CASE SubscriptionStale(e)
  <2>1. subscription'[u] = subscription[u] /\ subscription[u] # None /\ subscription[u].ts >= e.ts
    BY <1>4, <1>10 DEF SubscriptionStale
  <2>2. SubscriptionNewest(u) => SubscriptionNewest(u)'
    BY <1>8, <2>1 DEF SubscriptionNewest
  <2>3. SubscriptionBacked(u)'
    BY <1>3, <1>8, <2>1, BackedKept
  <2>4. \A v \in Users : account'[v] # "deleted" => SubscriptionNewest(v)'
    BY <1>2, <1>7, <2>2, SubscriptionKept DEF NewestEventWins, accountVars
  <2>5. \A v \in Users : SubscriptionBacked(v)'
    BY <1>7, <2>3, BackedKept
  <2> QED
    BY <1>2, <1>6, <2>4, <2>5, TransactionsKept DEF NewestEventWins
<1>11. CASE ~ SubscriptionStale(e)
  <2>1. subscription'[u] = new
    BY <1>3, <1>4, <1>11 DEF BillingTypeOK
  <2>2. SubscriptionBacked(u)'
    BY <1>3, <1>8, <2>1 DEF SubscriptionBacked
  <2>3. ASSUME SubscriptionNewest(u) PROVE SubscriptionNewest(u)'
    <3>1. \A d \in SubscriptionEventsOf(u) : e.ts >= d.ts
      <4> SUFFICES ASSUME NEW d \in SubscriptionEventsOf(u) PROVE e.ts >= d.ts
        OBVIOUS
      <4>1. subscription[u] # None /\ subscription[u].ts >= d.ts
        BY <2>3 DEF SubscriptionNewest
      <4>2. ~ (subscription[u].ts >= e.ts)
        BY <1>11, <4>1 DEF SubscriptionStale
      <4>3. PICK a \in Nat, b \in Nat, c \in Nat : a = subscription[u].ts /\ b = e.ts /\ c = d.ts
        BY <1>1, <1>9, <4>1, EventFields DEF SubscriptionEventsOf
      <4> QED
        BY <4>1, <4>2, <4>3
    <3>2. e.ts >= e.ts
      BY EventFields
    <3> QED
      BY <1>3, <1>8, <2>1, <3>1, <3>2 DEF SubscriptionNewest
  <2>4. \A v \in Users : account'[v] # "deleted" => SubscriptionNewest(v)'
    BY <1>2, <1>7, <2>3, SubscriptionKept DEF NewestEventWins, accountVars
  <2>5. \A v \in Users : SubscriptionBacked(v)'
    BY <1>7, <2>2, BackedKept
  <2> QED
    BY <1>2, <1>6, <2>4, <2>5, TransactionsKept DEF NewestEventWins
<1> QED
  BY <1>10, <1>11

\* What a transition does to the row of its transaction, to the balance and to
\* the ledger.
TransitionMade(e, row, new, target, stale, delta, entry) ==
    /\ row = transaction[e.txn]
    /\ target = revenueCatConsumableTargetState(e) /\ target \in TransactionStates
    /\ stale \in BOOLEAN /\ (stale <=> row # None /\ row.ts >= e.ts)
    /\ row # None => /\ row \in TransactionType
                     /\ row.user = e.user /\ row.product = e.product
                     /\ row.ts = e.ts => row.state = target
    /\ new \in TransactionType
    /\ new.user = e.user /\ new.product = e.product /\ new.state = target /\ new.ts = e.ts
    /\ delta = IF stale \/ ((target = "granted") <=> (row # None /\ row.state = "granted"))
               THEN NoCredits
               ELSE IF target = "granted" THEN UnitsOf(e.product) ELSE Negated(UnitsOf(e.product))
    /\ entry \in LedgerType
    /\ entry.id = e.id /\ entry.txn = e.txn /\ entry.delta = delta
    /\ ~ stale => entry.applied /\ entry.effective = target
    /\ transaction' = IF stale THEN transaction ELSE [transaction EXCEPT ![e.txn] = new]
    /\ ledger' = ledger \cup {entry}

LEMMA TransitionFacts ==
  ASSUME BillingInv, NEW e \in Events, applyConsumableTransition(e)
  PROVE  /\ IsConsumableEvent(e) /\ e.product \in CreditKinds
         /\ insertEvent(e) /\ UNCHANGED <<account, subscription, spent>>
         /\ notifying' \subseteq Events
         /\ \E row, new, target, stale, delta, entry :
              /\ TransitionMade(e, row, new, target, stale, delta, entry)
              /\ addCredits(e.user, delta)
<1> USE DEF BillingInv
<1>0. /\ IsConsumableEvent(e) /\ insertEvent(e) /\ UNCHANGED <<account, subscription, spent>>
      /\ notifying' \subseteq Events
  BY DEF applyConsumableTransition, addCredits, BillingTypeOK
<1>1. PICK row, target, stale :
        /\ row = transaction[e.txn] /\ target = revenueCatConsumableTargetState(e)
        /\ stale = TransactionStale(row, e)
  OBVIOUS
<1>2. target \in TransactionStates /\ e.product \in CreditKinds
  BY <1>0, <1>1, TargetFacts
<1>3. /\ e.txn \in Txns /\ e.user \in Users /\ e.id \in EventIds /\ e.ts \in Timestamps
  BY EventFields
<1>4. row # None => row \in TransactionType
  BY <1>1, <1>3 DEF BillingTypeOK
<1>5. row # None => SameTransaction(row, e) /\ ~ TimestampConflict(row, e)
  BY <1>1 DEF applyConsumableTransition
<1>6. stale \in BOOLEAN /\ (stale <=> row # None /\ row.ts >= e.ts)
  BY <1>1 DEF TransactionStale
<1>a. PICK new : new = [user |-> e.user, product |-> e.product, state |-> target, ts |-> e.ts]
  OBVIOUS
<1>7. /\ new \in TransactionType
      /\ new.user = e.user /\ new.product = e.product /\ new.state = target /\ new.ts = e.ts
  BY <1>2, <1>3, <1>a DEF TransactionType
<1>8. PICK delta :
        delta = IF stale THEN NoCredits
                ELSE transitionDelta(IF row = None THEN None ELSE row.state, target,
                                     UnitsOf(e.product))
  OBVIOUS
<1>9. delta = IF stale \/ ((target = "granted") <=> (row # None /\ row.state = "granted"))
              THEN NoCredits
              ELSE IF target = "granted" THEN UnitsOf(e.product) ELSE Negated(UnitsOf(e.product))
  <2>1. None # "granted"
    BY BillingConstants DEF TransactionStates
  <2> QED
    BY <1>2, <1>8, <2>1, DeltaFacts
<1>10. delta \in [CreditKinds -> Int]
  <2>1. /\ NoCredits \in [CreditKinds -> Int] /\ UnitsOf(e.product) \in [CreditKinds -> Int]
        /\ Negated(UnitsOf(e.product)) \in [CreditKinds -> Int]
    BY <1>2, UnitsFacts
  <2> QED
    BY <1>9, <2>1
<1>11. PICK entry :
         entry = [id |-> e.id, txn |-> e.txn, requested |-> target,
                  effective |-> IF stale THEN row.state ELSE target,
                  delta |-> delta, applied |-> ~ stale]
  OBVIOUS
<1>12. entry \in LedgerType
  <2>1. (IF stale THEN row.state ELSE target) \in TransactionStates
    BY <1>2, <1>4, <1>6, TransactionFields
  <2> QED
    BY <1>2, <1>3, <1>6, <1>10, <1>11, <2>1 DEF LedgerType
<1>13. /\ transaction' = IF stale THEN transaction ELSE [transaction EXCEPT ![e.txn] = new]
       /\ ledger' = ledger \cup {entry}
       /\ addCredits(e.user, delta)
  BY <1>1, <1>a, <1>8, <1>11 DEF applyConsumableTransition
<1>14. /\ entry.id = e.id /\ entry.txn = e.txn /\ entry.delta = delta
       /\ ~ stale => entry.applied /\ entry.effective = target
  BY <1>11
<1>15. TransitionMade(e, row, new, target, stale, delta, entry)
  BY <1>1, <1>2, <1>4, <1>5, <1>6, <1>7, <1>9, <1>12, <1>13, <1>14
     DEF TransitionMade, SameTransaction, TimestampConflict
<1> QED
  BY <1>0, <1>2, <1>13, <1>15

\* The newest accepted transition of a transaction decides its row.
LEMMA TransitionNewest ==
  ASSUME BillingInv, NEW e \in Events, IsConsumableEvent(e), insertEvent(e),
         NEW row, NEW new, NEW target, NEW stale, NEW delta, NEW entry,
         TransitionMade(e, row, new, target, stale, delta, entry)
  PROVE  \A t \in Txns : TransactionNewest(t)'
<1> USE DEF BillingInv
<1>0. e.txn \in Txns /\ e.ts \in Nat
  BY EventFields
<1>1. Received' = Received \cup {e} /\ \A d \in Received : d \in Events
  BY InsertFacts
<1>2. ASSUME NEW t \in Txns, t # e.txn PROVE TransactionNewest(t)'
  <2>1. transaction'[t] = transaction[t]
    BY <1>2 DEF TransitionMade, BillingTypeOK
  <2>2. TransitionsOf(t)' = TransitionsOf(t)
    BY <1>1, <1>2, HistoryGrows
  <2> QED
    BY <2>1, <2>2, NewestKept DEF NewestEventWins
<1>3. PICK t \in Txns : t = e.txn
  BY <1>0
<1>4. TransitionsOf(t)' = TransitionsOf(t) \cup {e}
  BY <1>1, <1>3, HistoryGrows
<1>5. TransactionNewest(t) /\ row = transaction[t]
  BY <1>3 DEF NewestEventWins, TransitionMade
<1>6. ASSUME stale PROVE TransactionNewest(t)'
  <2>1. /\ transaction'[t] = row /\ row # None /\ row.ts >= e.ts
        /\ row.user = e.user /\ row.product = e.product
        /\ row.ts = e.ts => row.state = revenueCatConsumableTargetState(e)
    BY <1>5, <1>6 DEF TransitionMade
  <2>2. PICK T : T = TransitionsOf(t)
    OBVIOUS
  <2>3. TransitionsOf(t)' = T \cup {e}
    BY <1>4, <2>2
  <2>4. /\ \A d \in T : /\ row.user = d.user /\ row.product = d.product
                        /\ row.ts >= d.ts
                        /\ row.ts = d.ts => row.state = revenueCatConsumableTargetState(d)
        /\ \E d \in T : d.ts = row.ts
    BY <1>5, <2>1, <2>2 DEF TransactionNewest
  <2> QED
    BY <2>1, <2>3, <2>4, NewestMade
<1>7. ASSUME ~ stale PROVE TransactionNewest(t)'
  <2>1. /\ transaction'[t] = new /\ new # None
        /\ new.user = e.user /\ new.product = e.product /\ new.ts = e.ts
        /\ new.state = revenueCatConsumableTargetState(e)
    BY <1>3, <1>7, TransactionFields DEF TransitionMade, BillingTypeOK
  <2>2. ASSUME NEW d \in TransitionsOf(t)
        PROVE  d.user = e.user /\ d.product = e.product /\ e.ts >= d.ts /\ e.ts # d.ts
    <3>1. row # None /\ row.user = d.user /\ row.product = d.product /\ row.ts >= d.ts
      BY <1>5 DEF TransactionNewest
    <3>2. row.user = e.user /\ row.product = e.product /\ row.ts \in Nat /\ ~ (row.ts >= e.ts)
      BY <1>7, <3>1, TransactionFields DEF TransitionMade
    <3>3. d.ts \in Nat
      BY <1>1, EventFields DEF TransitionsOf
    <3>4. e.ts >= d.ts /\ e.ts # d.ts
      BY <1>0, <3>1, <3>2, <3>3
    <3> QED
      BY <3>1, <3>2, <3>4
  <2>3. e.ts >= e.ts
    BY <1>0
  <2>4. PICK T : T = TransitionsOf(t)
    OBVIOUS
  <2>5. TransitionsOf(t)' = T \cup {e}
    BY <1>4, <2>4
  <2>6. \A d \in T \cup {e} :
          /\ new.user = d.user /\ new.product = d.product
          /\ new.ts >= d.ts
          /\ new.ts = d.ts => new.state = revenueCatConsumableTargetState(d)
    BY <2>1, <2>2, <2>3, <2>4
  <2> QED
    BY <2>1, <2>5, <2>6, NewestMade
<1> QED
  BY <1>2, <1>3, <1>6, <1>7

\* A transition moves the balance by what its purchase adds to, or takes from,
\* the purchases that are held.
LEMMA TransitionBalance ==
  ASSUME BillingInv, NEW e \in Events, e.product \in CreditKinds,
         UNCHANGED <<account, spent>>,
         NEW row, NEW new, NEW target, NEW stale, NEW delta, NEW entry,
         TransitionMade(e, row, new, target, stale, delta, entry), addCredits(e.user, delta)
  PROVE  BalanceConserved'
<1> USE DEF BillingInv
<1>0. e.txn \in Txns /\ e.user \in Users
  BY EventFields
<1> SUFFICES ASSUME NEW u \in Users, NEW k \in CreditKinds, account[u] # "deleted"
             PROVE  credits'[u][k] = GrantedUnits(u, k)' - spent'[u][k]
  BY DEF BalanceConserved
<1>1. credits[u][k] = GrantedUnits(u, k) - spent[u][k]
  BY DEF BalanceConserved
<1>2. credits'[u][k] = IF u = e.user THEN credits[u][k] + delta[k] ELSE credits[u][k]
  BY DEF addCredits, BillingTypeOK, AccountsTypeOK
<1>a. PICK H : H = HeldPurchases(u, k)
  OBVIOUS
<1>3. PICK n \in Nat, w \in Nat, c \in Int, s \in Int :
        /\ H = HeldPurchases(u, k) /\ IsFiniteSet(H) /\ n = Cardinality(H)
        /\ w = UnitsOf(k)[k] /\ c = credits[u][k] /\ s = spent[u][k]
  <2>1. IsFiniteSet(H)
    BY <1>a, GrantedType
  <2>2. Cardinality(H) \in Nat /\ UnitsOf(k)[k] \in Nat
    BY <2>1, FS_CardinalityType, UnitsFacts
  <2>3. credits[u][k] \in Int /\ spent[u][k] \in Int
    BY DEF BillingTypeOK, AccountsTypeOK
  <2> QED
    BY <1>a, <2>1, <2>2, <2>3
<1>4. c = w * n - s /\ spent'[u][k] = s
  BY <1>1, <1>3 DEF GrantedUnits
<1>5. \A t \in Txns \ {e.txn} : t \in HeldPurchases(u, k)' <=> t \in H
  BY <1>3 DEF HeldPurchases, TransitionMade, BillingTypeOK
<1>6. H \subseteq Txns /\ HeldPurchases(u, k)' \subseteq Txns
  BY <1>3 DEF HeldPurchases
<1>7. e.txn \in H <=> row # None /\ row.user = u /\ row.product = k /\ row.state = "granted"
  BY <1>0, <1>3 DEF HeldPurchases, TransitionMade
<1>8. CASE stale \/ ~ (u = e.user /\ k = e.product)
  <2>1. e.txn \in HeldPurchases(u, k)' <=> e.txn \in H
    <3>1. CASE stale
      BY <1>3, <3>1 DEF HeldPurchases, TransitionMade
    <3>2. CASE ~ stale /\ ~ (u = e.user /\ k = e.product)
      <4>1. transaction'[e.txn] = new /\ new.user = e.user /\ new.product = e.product
        BY <1>0, <3>2 DEF TransitionMade, BillingTypeOK
      <4>2. e.txn \notin HeldPurchases(u, k)'
        BY <3>2, <4>1 DEF HeldPurchases
      <4>3. e.txn \notin H
        BY <1>7, <3>2 DEF TransitionMade
      <4> QED
        BY <4>2, <4>3
    <3> QED
      BY <1>8, <3>1, <3>2
  <2>2. HeldPurchases(u, k)' = H
    BY <1>5, <1>6, <2>1
  <2>3. GrantedUnits(u, k)' = w * n
    BY <1>3, <2>2 DEF GrantedUnits
  <2>4. u = e.user => delta[k] = 0
    BY <1>8, UnitsFacts DEF TransitionMade
  <2>5. credits'[u][k] = c
    BY <1>2, <1>3, <2>4
  <2> QED
    BY <1>4, <2>3, <2>5
<1>9. CASE ~ stale /\ u = e.user /\ k = e.product
  <2>1. /\ transaction'[e.txn] = new /\ new # None /\ new.user = u /\ new.product = k
        /\ new.state = target
    BY <1>0, <1>9, TransactionFields DEF TransitionMade, BillingTypeOK
  <2>2. e.txn \in HeldPurchases(u, k)' <=> target = "granted"
    BY <1>0, <2>1 DEF HeldPurchases
  <2>3. e.txn \in H <=> row # None /\ row.state = "granted"
    BY <1>7, <1>9 DEF TransitionMade
  <2>4. credits'[u][k] = c + delta[k]
    BY <1>2, <1>3, <1>9
  <2>5. CASE (target = "granted") <=> (e.txn \in H)
    <3>1. HeldPurchases(u, k)' = H
      BY <1>5, <1>6, <2>2, <2>5
    <3>2. GrantedUnits(u, k)' = w * n
      BY <1>3, <3>1 DEF GrantedUnits
    <3>3. delta[k] = 0
      BY <1>9, <2>3, <2>5, UnitsFacts DEF TransitionMade
    <3> QED
      BY <1>4, <2>4, <3>2, <3>3
  <2>6. CASE target = "granted" /\ e.txn \notin H
    <3>1. HeldPurchases(u, k)' = H \cup {e.txn}
      BY <1>0, <1>5, <1>6, <2>2, <2>6
    <3>2. Cardinality(H \cup {e.txn}) = n + 1
      BY <1>3, <2>6, FS_AddElement
    <3>3. GrantedUnits(u, k)' = w * (n + 1)
      BY <1>3, <3>1, <3>2 DEF GrantedUnits
    <3>4. delta[k] = w
      BY <1>3, <1>9, <2>3, <2>6 DEF TransitionMade
    <3>5. w * (n + 1) = w * n + w
      BY <1>3
    <3> QED
      BY <1>4, <2>4, <3>3, <3>4, <3>5
  <2>7. CASE target # "granted" /\ e.txn \in H
    <3>1. HeldPurchases(u, k)' = H \ {e.txn}
      BY <1>0, <1>5, <1>6, <2>2, <2>7
    <3>2. Cardinality(H \ {e.txn}) = n - 1
      BY <1>3, <2>7, FS_RemoveElement
    <3>3. GrantedUnits(u, k)' = w * (n - 1)
      BY <1>3, <3>1, <3>2 DEF GrantedUnits
    <3>4. delta[k] = - w
      BY <1>3, <1>9, <2>3, <2>7, UnitsFacts DEF TransitionMade
    <3>5. w * (n - 1) = w * n - w
      BY <1>3
    <3> QED
      BY <1>4, <2>4, <3>3, <3>4, <3>5
  <2> QED
    BY <2>5, <2>6, <2>7
<1> QED
  BY <1>8, <1>9

\* Explained, given the entries and the row a step leaves.
LEMMA ExplainedMade ==
  ASSUME NEW t, NEW next, transaction'[t] = next, NEW L, EntriesOf(t)' = L,
         NEW units, units = UnitsOf(next.product),
         \A l \in L : l.delta \in {units, Negated(units), NoCredits},
         Cardinality({l \in L : l.delta = units}) - Cardinality({l \in L : l.delta = Negated(units)})
           = (IF next.state = "granted" THEN 1 ELSE 0),
         \E l \in L : l.applied /\ l.effective = next.state /\ billingEvents'[l.id].ts = next.ts
  PROVE  TransactionExplained(t)'
  BY DEF TransactionExplained, EntriesWith

\* A transition leaves one entry more, under an id of its own, and with it
\* what the entries of its transaction add up to follows the row.
LEMMA TransitionLedger ==
  ASSUME BillingInv, NEW e \in Events, IsConsumableEvent(e), e.product \in CreditKinds,
         insertEvent(e),
         NEW row, NEW new, NEW target, NEW stale, NEW delta, NEW entry,
         TransitionMade(e, row, new, target, stale, delta, entry)
  PROVE  LedgerExplains'
<1> USE DEF BillingInv
<1>1. e.txn \in Txns /\ e.id \in EventIds
  BY EventFields
<1>2. /\ Received' = Received \cup {e} /\ billingEvents'[e.id] = e
      /\ \A d \in Received : d.id # e.id
      /\ \A i \in EventIds \ {e.id} : billingEvents'[i] = billingEvents[i]
  BY InsertFacts
<1>3. \A l \in ledger : l.id # e.id /\ billingEvents'[l.id] = billingEvents[l.id]
  BY <1>2, EntryIds
<1>4. /\ ledger' = ledger \cup {entry} /\ entry.id = e.id /\ entry.txn = e.txn
      /\ entry.delta = delta /\ entry \notin ledger
  BY <1>3 DEF TransitionMade
<1>5. \A t \in Txns :
        /\ EntriesOf(t)' = IF t = e.txn THEN EntriesOf(t) \cup {entry} ELSE EntriesOf(t)
        /\ TransitionsOf(t)' = IF t = e.txn THEN TransitionsOf(t) \cup {e} ELSE TransitionsOf(t)
  <2>1. \A t \in Txns :
          EntriesOf(t)' = IF t = e.txn THEN EntriesOf(t) \cup {entry} ELSE EntriesOf(t)
    BY <1>4 DEF EntriesOf
  <2> QED
    BY <1>2, <2>1, HistoryGrows
<1>6. ASSUME NEW t \in Txns
      PROVE  {l.id : l \in EntriesOf(t)'} = {d.id : d \in TransitionsOf(t)'}
  <2>1. PICK L, T : L = EntriesOf(t) /\ T = TransitionsOf(t)
    OBVIOUS
  <2>2. {l.id : l \in L} = {d.id : d \in T}
    BY <2>1 DEF LedgerExplains
  <2>3. CASE t = e.txn
    <3>1. EntriesOf(t)' = L \cup {entry} /\ TransitionsOf(t)' = T \cup {e}
      BY <1>5, <2>1, <2>3
    <3>2. {l.id : l \in L \cup {entry}} = {d.id : d \in T \cup {e}}
      BY <1>4, <2>2
    <3> QED
      BY <3>1, <3>2
  <2>4. CASE t # e.txn
    BY <1>5, <2>1, <2>2, <2>4
  <2> QED
    BY <2>3, <2>4
<1>7. \A l, m \in ledger' : l.id = m.id => l = m
  BY <1>3, <1>4 DEF LedgerExplains
<1>8. ASSUME NEW t \in Txns, t # e.txn, transaction'[t] # None PROVE TransactionExplained(t)'
  <2>1. transaction'[t] = transaction[t]
    BY <1>8 DEF TransitionMade, BillingTypeOK
  <2>2. TransactionExplained(t) /\ EntriesOf(t)' = EntriesOf(t)
    BY <1>5, <1>8, <2>1 DEF LedgerExplains
  <2>3. \A l \in EntriesOf(t) : billingEvents'[l.id] = billingEvents[l.id]
    BY <1>3 DEF EntriesOf
  <2> QED
    BY <2>1, <2>2, <2>3, ExplainedKept
<1>9. PICK t \in Txns : t = e.txn
  BY <1>1
<1>10. PICK next : next = IF stale THEN row ELSE new
  OBVIOUS
<1>11. /\ transaction'[t] = next /\ next.product = e.product
       /\ next.state = IF stale THEN row.state ELSE target
       /\ row = transaction[t]
  BY <1>9, <1>10 DEF TransitionMade, BillingTypeOK
<1>12. PICK L, units : L = EntriesOf(t) /\ units = UnitsOf(e.product)
  OBVIOUS
<1>13. EntriesOf(t)' = L \cup {entry} /\ entry \notin L /\ IsFiniteSet(L)
  <2>1. L \subseteq ledger
    BY <1>12 DEF EntriesOf
  <2> QED
    BY <1>4, <1>5, <1>9, <1>12, <2>1, FS_Subset
<1>14. row = None => L = {}
  <2>1. row = None => TransitionsOf(t) = {}
    BY <1>11 DEF NewestEventWins, TransactionNewest
  <2>2. {l.id : l \in L} = {d.id : d \in TransitionsOf(t)}
    BY <1>12 DEF LedgerExplains
  <2> QED
    BY <2>1, <2>2
<1>15. row # None => TransactionExplained(t) /\ UnitsOf(transaction[t].product) = units
  BY <1>9, <1>11, <1>12 DEF LedgerExplains, TransitionMade
<1>16. \A l \in L \cup {entry} : l.delta \in {units, Negated(units), NoCredits}
  <2>1. \A l \in L : l.delta \in {units, Negated(units), NoCredits}
    BY <1>12, <1>14, <1>15 DEF TransactionExplained
  <2>2. delta \in {units, Negated(units), NoCredits}
    BY <1>12 DEF TransitionMade
  <2> QED
    BY <1>4, <2>1, <2>2
<1>17. \E l \in L \cup {entry} : l.applied /\ l.effective = next.state /\ billingEvents'[l.id].ts = next.ts
  <2>1. CASE stale
    <3>1. next = row /\ row # None
      BY <1>10, <2>1 DEF TransitionMade
    <3>2. \A l \in L : billingEvents'[l.id] = billingEvents[l.id]
      BY <1>3, <1>12 DEF EntriesOf
    <3>3. \E l \in L : l.applied /\ l.effective = next.state /\ billingEvents[l.id].ts = next.ts
      BY <1>11, <1>12, <1>15, <3>1 DEF TransactionExplained
    <3> QED
      BY <3>2, <3>3
  <2>2. CASE ~ stale
    <3>1. entry.applied /\ entry.effective = next.state /\ next.ts = e.ts
      BY <1>10, <2>2 DEF TransitionMade
    <3> QED
      BY <1>2, <1>4, <3>1
  <2> QED
    BY <2>1, <2>2 DEF TransitionMade
<1>18. PICK G, R : G = {l \in L : l.delta = units} /\ R = {l \in L : l.delta = Negated(units)}
  OBVIOUS
<1>19. PICK g \in Nat, b \in Nat : /\ g = Cardinality(G) /\ b = Cardinality(R)
                                   /\ IsFiniteSet(G) /\ IsFiniteSet(R)
  <2>1. IsFiniteSet(G) /\ IsFiniteSet(R)
    BY <1>13, <1>18, FS_Subset
  <2> QED
    BY <2>1, FS_CardinalityType
<1>20. g - b = IF row # None /\ row.state = "granted" THEN 1 ELSE 0
  <2>1. CASE row = None
    <3>1. G = {} /\ R = {}
      BY <1>14, <1>18, <2>1
    <3>2. g = 0 /\ b = 0
      BY <1>19, <3>1, FS_EmptySet
    <3> QED
      BY <2>1, <3>2
  <2>2. CASE row # None
    <3>1. EntriesWith(t, units) = G /\ EntriesWith(t, Negated(units)) = R
      BY <1>12, <1>18 DEF EntriesWith
    <3>2. Cardinality(G) - Cardinality(R) = IF row.state = "granted" THEN 1 ELSE 0
      BY <1>11, <1>15, <2>2, <3>1 DEF TransactionExplained
    <3> QED
      BY <1>19, <2>2, <3>2
  <2> QED
    BY <2>1, <2>2
<1>21. /\ units # Negated(units) /\ units # NoCredits /\ Negated(units) # NoCredits
  BY <1>12, DeltasDiffer
<1>22. /\ {l \in L \cup {entry} : l.delta = units} = IF delta = units THEN G \cup {entry} ELSE G
       /\ {l \in L \cup {entry} : l.delta = Negated(units)} =
            IF delta = Negated(units) THEN R \cup {entry} ELSE R
  BY <1>4, <1>18
<1>23. Cardinality(G \cup {entry}) = g + 1 /\ Cardinality(R \cup {entry}) = b + 1
  BY <1>13, <1>18, <1>19, FS_AddElement
<1>24. Cardinality({l \in L \cup {entry} : l.delta = units})
         - Cardinality({l \in L \cup {entry} : l.delta = Negated(units)})
           = IF next.state = "granted" THEN 1 ELSE 0
  <2>1. CASE stale \/ ((target = "granted") <=> (row # None /\ row.state = "granted"))
    <3>1. delta = NoCredits
      BY <2>1 DEF TransitionMade
    <3>2. (row # None /\ row.state = "granted") <=> next.state = "granted"
      BY <1>11, <2>1 DEF TransitionMade
    <3> QED
      BY <1>19, <1>20, <1>21, <1>22, <3>1, <3>2
  <2>2. CASE ~ stale /\ target = "granted" /\ ~ (row # None /\ row.state = "granted")
    <3>1. delta = units /\ next.state = "granted"
      BY <1>11, <1>12, <2>2 DEF TransitionMade
    <3>2. g - b = 0
      BY <1>20, <2>2
    <3>3. /\ Cardinality({l \in L \cup {entry} : l.delta = units}) = g + 1
          /\ Cardinality({l \in L \cup {entry} : l.delta = Negated(units)}) = b
      BY <1>19, <1>21, <1>22, <1>23, <3>1
    <3>4. g + 1 - b = 1
      BY <1>19, <3>2
    <3> QED
      BY <3>1, <3>3, <3>4
  <2>3. CASE ~ stale /\ target # "granted" /\ row # None /\ row.state = "granted"
    <3>1. delta = Negated(units) /\ next.state # "granted"
      BY <1>11, <1>12, <2>3 DEF TransitionMade
    <3>2. g - b = 1
      BY <1>20, <2>3
    <3>3. /\ Cardinality({l \in L \cup {entry} : l.delta = units}) = g
          /\ Cardinality({l \in L \cup {entry} : l.delta = Negated(units)}) = b + 1
      BY <1>19, <1>21, <1>22, <1>23, <3>1
    <3>4. g - (b + 1) = 0
      BY <1>19, <3>2
    <3> QED
      BY <3>1, <3>3, <3>4
  <2> QED
    BY <2>1, <2>2, <2>3
<1>25. TransactionExplained(t)'
  BY <1>11, <1>12, <1>13, <1>16, <1>17, <1>24, ExplainedMade
<1> QED
  BY <1>6, <1>7, <1>8, <1>9, <1>25 DEF LedgerExplains

LEMMA InvTransition ==
  ASSUME BillingInv, NEW e \in Events, applyConsumableTransition(e)
  PROVE  BillingInv'
<1>1. /\ IsConsumableEvent(e) /\ e.product \in CreditKinds
      /\ insertEvent(e) /\ UNCHANGED <<account, subscription, spent>>
      /\ notifying' \subseteq Events
  BY TransitionFacts
<1>2. PICK row, new, target, stale, delta, entry :
        TransitionMade(e, row, new, target, stale, delta, entry) /\ addCredits(e.user, delta)
  BY TransitionFacts
<1>3. /\ billingEvents' \in [EventIds -> Events \cup {None}] /\ EventsKeyed'
      /\ Received' = Received \cup {e}
  BY <1>1, InsertFacts DEF BillingInv
<1>4. e.txn \in Txns /\ e.user \in Users
  BY EventFields
<1>5. transaction' \in [Txns -> TransactionType \cup {None}]
  BY <1>2 DEF BillingInv, BillingTypeOK, TransitionMade
<1>6. ledger' = ledger \cup {entry} /\ entry \in LedgerType
  BY <1>2 DEF TransitionMade
<1>7. credits' \in [Users -> [CreditKinds -> Int]]
  <2>1. delta \in [CreditKinds -> Int]
    BY <1>6, <1>2 DEF LedgerType, TransitionMade
  <2> QED
    BY <1>2, <1>4, <2>1 DEF BillingInv, BillingTypeOK, AccountsTypeOK, addCredits
<1>8. BillingTypeOK'
  BY <1>1, <1>3, <1>5, <1>6, <1>7 DEF BillingInv, BillingTypeOK, AccountsTypeOK
<1>9. IsFiniteSet(Bought)' /\ IsFiniteSet(ledger)'
  <2>1. IsFiniteSet(Bought \cup {e.txn})
    BY FS_AddElement DEF BillingInv
  <2>2. Bought' \subseteq Bought \cup {e.txn}
    BY <1>2 DEF BillingInv, BillingTypeOK, Bought, TransitionMade
  <2>3. IsFiniteSet(Bought')
    BY <2>1, <2>2, FS_Subset
  <2>4. IsFiniteSet(ledger')
    BY <1>6, FS_AddElement DEF BillingInv
  <2> QED
    BY <2>3, <2>4
<1>10. \A u : SubscriptionEventsOf(u)' = SubscriptionEventsOf(u)
  BY <1>1, <1>3, EitherKind, HistoryGrows
<1>11. \A u \in Users : account'[u] # "deleted" => SubscriptionNewest(u)'
  BY <1>1, <1>10, SubscriptionKept DEF BillingInv, NewestEventWins
<1>12. \A u \in Users : SubscriptionBacked(u)'
  BY <1>1, <1>10, BackedKept DEF BillingInv
<1>13. \A t \in Txns : TransactionNewest(t)'
  BY <1>1, <1>2, TransitionNewest
<1>14. BalanceConserved'
  BY <1>1, <1>2, TransitionBalance
<1>15. LedgerExplains'
  BY <1>1, <1>2, TransitionLedger
<1> QED
  BY <1>3, <1>8, <1>9, <1>11, <1>12, <1>13, <1>14, <1>15 DEF BillingInv, NewestEventWins

-----------------------------------------------------------------------------
(* Accounts, credits and notifications *)

\* Whatever receives no webhook leaves the purchases and the ledger alone.
LEMMA InvNoWebhook ==
  ASSUME BillingInv, BillingTypeOK', UNCHANGED <<billingEvents, transaction, ledger>>,
         \A u \in Users :
           \/ subscription'[u] = subscription[u] /\ (account'[u] # "deleted" => account[u] # "deleted")
           \/ subscription'[u] = None /\ account'[u] = "deleted",
         \A u \in Users, k \in CreditKinds : account'[u] # "deleted" =>
           credits'[u][k] + spent'[u][k] = credits[u][k] + spent[u][k]
  PROVE  BillingInv'
<1> USE DEF BillingInv
<1>1. EventsKeyed' /\ IsFiniteSet(Bought)' /\ IsFiniteSet(ledger)'
  BY DEF EventsKeyed, Bought
<1>2. /\ \A t : TransitionsOf(t)' = TransitionsOf(t)
      /\ \A u : SubscriptionEventsOf(u)' = SubscriptionEventsOf(u)
  BY DEF TransitionsOf, SubscriptionEventsOf, Received
<1>3. \A t \in Txns : TransactionNewest(t)'
  BY <1>2, NewestKept DEF NewestEventWins
<1>4. \A u \in Users : account'[u] # "deleted" => SubscriptionNewest(u)'
  BY <1>2, SubscriptionKept DEF NewestEventWins
<1>5. \A u \in Users : SubscriptionBacked(u)'
  <2> SUFFICES ASSUME NEW u \in Users PROVE SubscriptionBacked(u)'
    OBVIOUS
  <2>1. CASE subscription'[u] = subscription[u]
    BY <1>2, <2>1, BackedKept
  <2>2. CASE subscription'[u] = None
    BY <2>2 DEF SubscriptionBacked
  <2> QED
    BY <2>1, <2>2
<1>6. \A u \in Users : account'[u] # "deleted" => account[u] # "deleted"
  OBVIOUS
<1>7. BalanceConserved'
  BY <1>6, BalanceKept
<1>8. LedgerExplains'
  BY <1>2, LedgerKept
<1> QED
  BY <1>1, <1>3, <1>4, <1>5, <1>7, <1>8 DEF NewestEventWins

LEMMA InvNotify ==
  ASSUME BillingInv, NEW e \in Events, notifyPurchase(e)
  PROVE  BillingInv'
<1>1. BillingTypeOK'
  BY DEF BillingInv, BillingTypeOK, AccountsTypeOK, notifyPurchase, accountVars
<1> QED
  BY <1>1, InvNoWebhook DEF notifyPurchase, accountVars

LEMMA InvBillingAccount ==
  ASSUME BillingInv, NEW u \in Users, BillingAccountStep(u)
  PROVE  BillingInv'
<1> USE DEF BillingInv
<1>1. CASE (hideAccount(u) \/ restoreAccount(u)) /\ UNCHANGED billingVars
  <2>1. /\ account' \in [Users -> {"active", "hidden", "deleted"}]
        /\ \A v \in Users : account'[v] # "deleted" => account[v] # "deleted"
        /\ UNCHANGED <<credits, spent>>
    BY <1>1 DEF BillingTypeOK, AccountsTypeOK, hideAccount, restoreAccount
  <2>2. BillingTypeOK'
    BY <1>1, <2>1 DEF BillingTypeOK, AccountsTypeOK, billingVars
  <2> QED
    BY <1>1, <2>1, <2>2, InvNoWebhook DEF billingVars
<1>2. CASE /\ closeAccount(u) /\ deleteSubscription(u)
           /\ UNCHANGED <<billingEvents, transaction, ledger, notifying>>
  <2>1. /\ account' \in [Users -> {"active", "hidden", "deleted"}]
        /\ credits' \in [Users -> [CreditKinds -> Int]]
        /\ spent' \in [Users -> [CreditKinds -> Nat]]
        /\ subscription' \in [Users -> SubscriptionType \cup {None}]
    BY <1>2 DEF BillingTypeOK, AccountsTypeOK, closeAccount, deleteSubscription, NoCredits
  <2>2. BillingTypeOK'
    BY <1>2, <2>1 DEF BillingTypeOK, AccountsTypeOK
  <2>3. /\ account'[u] = "deleted" /\ subscription'[u] = None
        /\ \A v \in Users \ {u} :
             /\ account'[v] = account[v] /\ subscription'[v] = subscription[v]
             /\ credits'[v] = credits[v] /\ spent'[v] = spent[v]
    BY <1>2 DEF BillingTypeOK, AccountsTypeOK, closeAccount, deleteSubscription
  <2>4. \A v \in Users, k \in CreditKinds : account'[v] # "deleted" =>
          credits'[v][k] + spent'[v][k] = credits[v][k] + spent[v][k]
    BY <2>3
  <2>5. \A v \in Users :
           \/ subscription'[v] = subscription[v] /\ (account'[v] # "deleted" => account[v] # "deleted")
           \/ subscription'[v] = None /\ account'[v] = "deleted"
    BY <2>3
  <2> QED
    BY <1>2, <2>2, <2>4, <2>5, InvNoWebhook
<1> QED
  BY <1>1, <1>2 DEF BillingAccountStep

\* A credit that is used or returned stays within balance and spent.
LEMMA CreditMoves ==
  ASSUME AccountsTypeOK, NEW u \in Users, NEW k \in CreditKinds,
         spendCredit(u, k) \/ (spent[u][k] > 0 /\ returnCredit(u, k))
  PROVE  /\ credits' \in [Users -> [CreditKinds -> Int]]
         /\ spent' \in [Users -> [CreditKinds -> Nat]]
         /\ \A v \in Users, j \in CreditKinds :
              credits'[v][j] + spent'[v][j] = credits[v][j] + spent[v][j]
<1>1. CASE spendCredit(u, k)
  <2>1. /\ credits' \in [Users -> [CreditKinds -> Int]]
        /\ spent' \in [Users -> [CreditKinds -> Nat]]
        /\ \A v \in Users, j \in CreditKinds :
             /\ credits'[v][j] = IF v = u /\ j = k THEN credits[v][j] - 1 ELSE credits[v][j]
             /\ spent'[v][j] = IF v = u /\ j = k THEN spent[v][j] + 1 ELSE spent[v][j]
    BY <1>1 DEF AccountsTypeOK, spendCredit
  <2>2. ASSUME NEW v \in Users, NEW j \in CreditKinds
        PROVE  credits'[v][j] + spent'[v][j] = credits[v][j] + spent[v][j]
    <3>1. PICK c \in Int, s \in Int : c = credits[v][j] /\ s = spent[v][j]
      BY DEF AccountsTypeOK
    <3>2. c - 1 + (s + 1) = c + s
      BY <3>1
    <3> QED
      BY <2>1, <3>1, <3>2
  <2> QED
    BY <2>1, <2>2
<1>2. CASE spent[u][k] > 0 /\ returnCredit(u, k)
  <2>1. /\ credits' \in [Users -> [CreditKinds -> Int]]
        /\ spent' \in [Users -> [CreditKinds -> Nat]]
        /\ \A v \in Users, j \in CreditKinds :
             /\ credits'[v][j] = IF v = u /\ j = k THEN credits[v][j] + 1 ELSE credits[v][j]
             /\ spent'[v][j] = IF v = u /\ j = k THEN spent[v][j] - 1 ELSE spent[v][j]
    BY <1>2 DEF AccountsTypeOK, returnCredit
  <2>2. ASSUME NEW v \in Users, NEW j \in CreditKinds
        PROVE  credits'[v][j] + spent'[v][j] = credits[v][j] + spent[v][j]
    <3>1. PICK c \in Int, s \in Int : c = credits[v][j] /\ s = spent[v][j]
      BY DEF AccountsTypeOK
    <3>2. c + 1 + (s - 1) = c + s
      BY <3>1
    <3> QED
      BY <2>1, <3>1, <3>2
  <2> QED
    BY <2>1, <2>2
<1> QED
  BY <1>1, <1>2

LEMMA InvCredit ==
  ASSUME BillingInv, NEW u \in Users, NEW k \in CreditKinds, CreditStep(u, k)
  PROVE  BillingInv'
<1>1. AccountsTypeOK
  BY DEF BillingInv, BillingTypeOK
<1>2. /\ credits' \in [Users -> [CreditKinds -> Int]]
      /\ spent' \in [Users -> [CreditKinds -> Nat]]
      /\ \A v \in Users, j \in CreditKinds :
           credits'[v][j] + spent'[v][j] = credits[v][j] + spent[v][j]
  BY <1>1, CreditMoves DEF CreditStep
<1>3. UNCHANGED <<account, billingEvents, subscription, transaction, ledger, notifying>>
  BY DEF CreditStep, billingVars
<1>4. BillingTypeOK'
  BY <1>2, <1>3 DEF BillingInv, BillingTypeOK, AccountsTypeOK
<1> QED
  BY <1>2, <1>3, <1>4, InvNoWebhook

-----------------------------------------------------------------------------
(* Billing *)

LEMMA BillingInvInit ==
  ASSUME BillingInit
  PROVE  BillingInv
<1> USE DEF AccountsInit, BillingInit
<1>1. BillingTypeOK
  BY DEF BillingTypeOK, AccountsTypeOK, NoCredits
<1>2. Received = {}
  BY DEF Received
<1>3. (\A t : TransitionsOf(t) = {} /\ EntriesOf(t) = {}) /\ \A u : SubscriptionEventsOf(u) = {}
  BY <1>2 DEF TransitionsOf, SubscriptionEventsOf, EntriesOf
<1>4. Bought = {} /\ \A u, k : HeldPurchases(u, k) = {}
  BY DEF Bought, HeldPurchases
<1>5. NewestEventWins /\ \A u \in Users : SubscriptionBacked(u)
  BY <1>3 DEF NewestEventWins, TransactionNewest, SubscriptionNewest, SubscriptionBacked
<1>6. BalanceConserved
  <2> SUFFICES ASSUME NEW u \in Users, NEW k \in CreditKinds
               PROVE  credits[u][k] = GrantedUnits(u, k) - spent[u][k]
    BY DEF BalanceConserved
  <2>1. credits[u][k] = 0 /\ spent[u][k] = 0
    BY DEF NoCredits
  <2>2. UnitsOf(k)[k] \in Nat /\ Cardinality(HeldPurchases(u, k)) = 0
    BY <1>4, UnitsFacts, FS_EmptySet
  <2>3. GrantedUnits(u, k) = 0
    BY <2>2 DEF GrantedUnits
  <2> QED
    BY <2>1, <2>3
<1>7. LedgerExplains
  <2>1. \A t \in Txns : transaction[t] = None
    OBVIOUS
  <2> QED
    BY <1>3, <2>1 DEF LedgerExplains
<1> QED
  BY <1>1, <1>4, <1>5, <1>6, <1>7, FS_EmptySet DEF BillingInv, EventsKeyed

LEMMA InvWebhook ==
  ASSUME BillingInv, NEW e \in Events, handleRevenueCatWebhook(e) \/ notifyPurchase(e)
  PROVE  BillingInv'
  BY InvRecord, InvSubscription, InvTransition, InvNotify DEF handleRevenueCatWebhook

LEMMA BillingInvNext ==
  ASSUME BillingInv, [BillingNext]_<<accountVars, billingVars>>
  PROVE  BillingInv'
<1>1. CASE BillingNext
  BY <1>1, InvWebhook, InvBillingAccount, InvCredit DEF BillingNext
<1>2. CASE UNCHANGED <<accountVars, billingVars>>
  <2>1. UNCHANGED <<account, credits, spent, billingEvents, subscription, transaction, ledger,
                    notifying>>
    BY <1>2 DEF accountVars, billingVars
  <2>2. BillingTypeOK'
    BY <2>1 DEF BillingInv, BillingTypeOK, AccountsTypeOK
  <2> QED
    BY <2>1, <2>2, InvNoWebhook
<1> QED
  BY <1>1, <1>2

LEMMA BillingInvariant == BillingSpec => []BillingInv
  BY BillingInvInit, BillingInvNext, PTL DEF BillingSpec

-----------------------------------------------------------------------------
(* The invariant of both together *)

\* As long as nobody has left for good, the credits used and not returned are
\* the open superlikes and the boosts.  (A deletion takes along superlikes of
\* others, whose credits stay used.)
SpentIsOpen ==
    (\A v \in Users : account[v] # "deleted") =>
        \A u \in Users :
            /\ spent[u]["superlike"] = Cardinality(Superlikes(u))
            /\ spent[u]["boost"] = Cardinality(BoostsOf(u))

CreditInv == IsFiniteSet(userBoosts) /\ SpentIsOpen

\* The limit of a request is that of a plan its user has been given.
Planned(q) == \E plan \in ReceivedPlans(q.user) : q.limit = getDailyLikeLimit(plan)

\* The likes of the day have not become more since they were counted.
Counted(q) == Cardinality(LikesOn(q.user, Day(q.at))) <= q.count

PlanInv ==
    /\ \A r \in Requests : request[r] # None => Planned(request[r])
    /\ \A r \in Requests : Holding(r) => Counted(request[r])
    /\ PlanHonoured

SystemInv == MatchingInv /\ BillingInv /\ CreditInv /\ PlanInv

-----------------------------------------------------------------------------
(* The steps of the composition *)

\* What a commit does, given that what was read still holds.
CommitMade(r, q, x, l) ==
    /\ q \in RequestType /\ q = request[r] /\ q.user \in Users /\ q.at \in Times
    /\ Holding(r) /\ WithinLimit(q) /\ ~ q.liked /\ account[q.user] # "deleted"
    /\ x \notin matchActions /\ x.actor = q.user /\ x.action = q.action
    /\ l.liker = q.user /\ l.at = q.at
    /\ IF q.action = "superlike" THEN spendCredit(q.user, "superlike")
       ELSE UNCHANGED <<credits, spent>>
    /\ userLikes' = IF q.action \in Likes THEN userLikes \cup {l} ELSE userLikes
    /\ matchActions' = matchActions \cup {x}
    /\ request'[r] = None /\ \A s \in Requests \ {r} : request'[s] = request[s]
    /\ UNCHANGED <<account, now, userBoosts>>

LEMMA CommitFacts ==
  ASSUME MatchingInv, NEW r \in Requests, commitAction(r)
  PROVE  \E q, x, l : CommitMade(r, q, x, l)
<1> USE DEF MatchingInv
<1>1. PICK q \in RequestType : q = request[r]
  BY RowTypes DEF commitAction, Holding
<1>2. /\ q.user \in Users /\ q.target \in Users /\ q.action \in Choices /\ q.at \in Times
      /\ Holding(r) /\ ReadsHold(q) /\ WithinLimit(q)
  BY <1>1, RequestFields DEF RequestsSound, commitAction, Holding
<1>3. PICK x : x = [actor |-> q.user, target |-> q.target, action |-> q.action, at |-> q.at]
  OBVIOUS
<1>4. PICK l : l = [liker |-> q.user, liked |-> q.target, at |-> q.at]
  OBVIOUS
<1>5. x.actor = q.user /\ x.target = q.target /\ x.action = q.action
  BY <1>3
<1>6. l.liker = q.user /\ l.at = q.at
  BY <1>4
<1>7. ~ q.liked /\ account[q.user] # "deleted" /\ x \notin matchActions
  BY <1>2, <1>5 DEF ReadsHold, OpenActions
<1>8. /\ IF q.action = "superlike" THEN spendCredit(q.user, "superlike")
         ELSE UNCHANGED <<credits, spent>>
      /\ userLikes' = IF q.action \in Likes THEN userLikes \cup {l} ELSE userLikes
      /\ matchActions' = matchActions \cup {x}
      /\ request' = [request EXCEPT ![r] = None]
      /\ UNCHANGED <<account, now, userBoosts>>
  BY <1>1, <1>2, <1>3, <1>4, <1>7 DEF commitAction, Choices, Likes
<1>9. request'[r] = None /\ \A s \in Requests \ {r} : request'[s] = request[s]
  BY <1>8 DEF MatchingTypeOK
<1> QED
  BY <1>1, <1>2, <1>5, <1>6, <1>7, <1>8, <1>9 DEF CommitMade

\* An undone superlike was paid for, so there is a credit to return.
LEMMA UndoFacts ==
  ASSUME MatchingInv, NEW u \in Users, undoLastAction(u)
  PROVE  \E x \in matchActions :
           /\ x.actor = u /\ matchActions' = matchActions \ {x}
           /\ userLikes' \subseteq userLikes
           /\ IF x.action = "superlike"
              THEN returnCredit(u, "superlike") /\ spent[u]["superlike"] > 0
              ELSE UNCHANGED <<credits, spent>>
<1>1. PICK x \in matchActions :
        /\ x.actor = u /\ matchActions' = matchActions \ {x}
        /\ userLikes' = userLikes \ Revoked(x) /\ refundSuperlike(x)
  BY DEF undoLastAction, LastActions
<1>2. ASSUME x.action = "superlike" PROVE spent[u]["superlike"] > 0
  <2>1. x \in Superlikes(u)
    BY <1>1, <1>2 DEF Superlikes
  <2>2. IsFiniteSet(Superlikes(u))
    BY FS_Subset DEF MatchingInv, RowsSound, Superlikes
  <2>3. PICK n \in Nat, m \in Nat :
          n = Cardinality(Superlikes(u)) /\ m = spent[u]["superlike"] /\ n <= m
    BY <2>2, FS_CardinalityType
       DEF MatchingInv, SuperlikesPaid, MatchingTypeOK, AccountsTypeOK, CreditKinds
  <2>4. n # 0
    BY <2>1, <2>2, <2>3, FS_EmptySet
  <2> QED
    BY <2>3, <2>4
<1> QED
  BY <1>1, <1>2 DEF refundSuperlike

\* The plan that a request reads comes from the subscription row.
LEMMA PlanRead ==
  ASSUME BillingInv, NEW u \in Users, NEW plan \in CurrentPlans(u)
  PROVE  plan \in ReceivedPlans(u) /\ getDailyLikeLimit(plan) \in Limits
<1>1. CASE plan = "free"
  BY <1>1, SystemConstants DEF ReceivedPlans, PlanLimits
<1>2. CASE plan # "free"
  <2>1. /\ subscription[u] # None /\ subscription[u].status = "active"
        /\ plan = subscription[u].plan
    BY <1>2 DEF CurrentPlans
  <2>2. subscription[u] \in SubscriptionType
    BY <2>1 DEF BillingInv, BillingTypeOK
  <2>3. plan \in SubscriptionProducts
    BY <2>1, <2>2 DEF SubscriptionType
  <2>4. PICK e \in SubscriptionEventsOf(u) :
          e.product = plan /\ revenueCatSubscriptionStatus(e) = "active"
    BY <2>1 DEF BillingInv, SubscriptionBacked
  <2> QED
    BY <2>3, <2>4, SystemConstants DEF ReceivedPlans, PlanLimits
<1> QED
  BY <1>1, <1>2

LEMMA WebhookFrame ==
  ASSUME NEW e \in Events, webhook(e)
  PROVE  UNCHANGED <<account, spent, matchingVars>>
<1>1. CASE recordEvent(e)
  BY <1>1 DEF webhook, recordEvent, accountVars
<1>2. CASE applySubscription(e)
  BY <1>2 DEF webhook, applySubscription, accountVars
<1>3. CASE applyConsumableTransition(e)
  BY <1>3 DEF webhook, applyConsumableTransition, addCredits
<1>4. CASE notifyPurchase(e)
  BY <1>4 DEF webhook, notifyPurchase, accountVars
<1> QED
  BY <1>1, <1>2, <1>3, <1>4 DEF webhook, handleRevenueCatWebhook

\* To billing, the steps of matching use or return one credit, or nothing.
LEMMA MatchingIsCreditStep ==
  ASSUME MatchingInv, matching
  PROVE  [BillingNext]_<<accountVars, billingVars>>
<1>0. UNCHANGED billingVars /\ MatchingStep
  BY DEF matching
<1>1. CASE Tick
  BY <1>0, <1>1 DEF Tick
<1>2. ASSUME NEW r \in Requests, RequestRuns(r)
      PROVE  [BillingNext]_<<accountVars, billingVars>>
  <2>1. CASE checkCandidate(r)
    BY <1>0, <2>1 DEF checkCandidate
  <2>2. CASE abortAction(r)
    BY <1>0, <2>2 DEF abortAction
  <2>3. CASE commitAction(r)
    <3>1. PICK q, x, l : CommitMade(r, q, x, l)
      BY <2>3, CommitFacts
    <3>2. CASE q.action = "superlike"
      <4>1. CreditStep(q.user, "superlike")
        BY <1>0, <3>1, <3>2 DEF CommitMade, CreditStep
      <4> QED
        BY <3>1, <4>1 DEF BillingNext, CommitMade, CreditKinds
    <3>3. CASE q.action # "superlike"
      BY <1>0, <3>1, <3>3 DEF CommitMade, accountVars
    <3> QED
      BY <3>2, <3>3
  <2> QED
    BY <1>2, <2>1, <2>2, <2>3 DEF RequestRuns
<1>3. ASSUME NEW u \in Users, UserStep(u)
      PROVE  [BillingNext]_<<accountVars, billingVars>>
  <2>1. CASE undoLastAction(u)
    <3>1. account[u] # "deleted" /\ UNCHANGED account
      BY <2>1 DEF undoLastAction
    <3>2. PICK x : IF x.action = "superlike"
                   THEN returnCredit(u, "superlike") /\ spent[u]["superlike"] > 0
                   ELSE UNCHANGED <<credits, spent>>
      BY <2>1, UndoFacts
    <3>3. CASE x.action = "superlike"
      <4>1. CreditStep(u, "superlike")
        BY <1>0, <3>1, <3>2, <3>3 DEF CreditStep
      <4> QED
        BY <4>1 DEF BillingNext, CreditKinds
    <3>4. CASE x.action # "superlike"
      BY <1>0, <3>1, <3>2, <3>4 DEF accountVars
    <3> QED
      BY <3>3, <3>4
  <2>2. ASSUME NEW at \in Times, activateBoost(u, at)
        PROVE  [BillingNext]_<<accountVars, billingVars>>
    <3>1. CreditStep(u, "boost")
      BY <1>0, <2>2 DEF activateBoost, CreditStep
    <3> QED
      BY <3>1 DEF BillingNext, CreditKinds
  <2>3. ASSUME NEW v \in Users, blockUser(u, v)
        PROVE  [BillingNext]_<<accountVars, billingVars>>
    BY <1>0, <2>3 DEF blockUser
  <2> QED
    BY <1>3, <2>1, <2>2, <2>3 DEF UserStep
<1> QED
  BY <1>0, <1>1, <1>2, <1>3 DEF MatchingStep

LEMMA SystemStepIsBilling ==
  ASSUME MatchingInv, [Next]_vars
  PROVE  [BillingNext]_<<accountVars, billingVars>>
<1>1. ASSUME NEW e \in Events, webhook(e) PROVE BillingNext
  BY <1>1 DEF webhook, BillingNext
<1>2. ASSUME NEW r \in Requests, actOnCandidate(r) PROVE UNCHANGED <<accountVars, billingVars>>
  BY <1>2 DEF actOnCandidate, likeUser
<1>3. ASSUME NEW u \in Leavers,
             scheduleDeletion(u) \/ restoreScheduledDeletion(u) \/ anonymizeDeletedAccount(u)
      PROVE  BillingNext
  <2>1. u \in Users
    BY MatchingConstants
  <2>2. BillingAccountStep(u)
    BY <1>3 DEF scheduleDeletion, restoreScheduledDeletion, anonymizeDeletedAccount,
                BillingAccountStep
  <2> QED
    BY <2>1, <2>2 DEF BillingNext
<1>4. CASE UNCHANGED vars
  BY <1>4 DEF vars
<1> QED
  BY <1>1, <1>2, <1>3, <1>4, MatchingIsCreditStep DEF Next

LEMMA SystemMatchingNext ==
  ASSUME MatchingInv, BillingInv, BillingInv', [Next]_vars
  PROVE  MatchingInv'
<1>0. AccountsTypeOK'
  BY DEF BillingInv, BillingTypeOK
<1>1. ASSUME NEW e \in Events, webhook(e) PROVE MatchingInv'
  BY <1>0, <1>1, WebhookFrame, InvCreditsOnly
<1>2. ASSUME NEW r \in Requests, actOnCandidate(r) PROVE MatchingInv'
  <2>1. PICK c \in Candidates, choice \in Choices : \E plan \in CurrentPlans(c[1]) :
          likeUser(r, c[1], c[2], choice, getDailyLikeLimit(plan))
    BY <1>2 DEF actOnCandidate
  <2>2. c[1] \in Users /\ c[2] \in Users
    BY DEF Candidates
  <2>3. PICK plan \in CurrentPlans(c[1]) :
          likeUser(r, c[1], c[2], choice, getDailyLikeLimit(plan))
    BY <2>1
  <2>4. getDailyLikeLimit(plan) \in Limits
    BY <2>2, PlanRead
  <2> QED
    BY <2>2, <2>3, <2>4, InvArrive
<1>3. ASSUME NEW u \in Leavers,
             scheduleDeletion(u) \/ restoreScheduledDeletion(u) \/ anonymizeDeletedAccount(u)
      PROVE  MatchingInv'
  <2>1. u \in Users
    BY MatchingConstants
  <2> QED
    BY <1>3, <2>1, InvHide, InvClose
       DEF scheduleDeletion, restoreScheduledDeletion, anonymizeDeletedAccount
<1>4. CASE UNCHANGED vars
  BY <1>0, <1>4, InvCreditsOnly DEF vars, accountVars
<1> QED
  BY <1>1, <1>2, <1>3, <1>4, InvMatchingStep DEF Next, matching

-----------------------------------------------------------------------------
(* Credits in use *)

\* What is said of the credits in use carries over when they do not change.
LEMMA CreditKept ==
  ASSUME CreditInv, UNCHANGED <<spent, matchActions, userBoosts>>,
         \A v \in Users : account[v] = "deleted" => account'[v] = "deleted"
  PROVE  CreditInv'
<1>1. \A u : Superlikes(u)' = Superlikes(u) /\ BoostsOf(u)' = BoostsOf(u)
  BY DEF Superlikes, BoostsOf
<1>2. SpentIsOpen'
  BY <1>1 DEF CreditInv, SpentIsOpen
<1> QED
  BY <1>2 DEF CreditInv

LEMMA CreditCommit ==
  ASSUME MatchingInv, CreditInv, NEW r \in Requests, commitAction(r)
  PROVE  CreditInv'
<1>1. PICK q, x, l : CommitMade(r, q, x, l)
  BY CommitFacts
<1>2. /\ q.user \in Users /\ x \notin matchActions /\ x.actor = q.user /\ x.action = q.action
      /\ matchActions' = matchActions \cup {x} /\ UNCHANGED <<account, userBoosts>>
  BY <1>1 DEF CommitMade
<1>3. AccountsTypeOK /\ "superlike" \in CreditKinds /\ "boost" \in CreditKinds
  BY DEF MatchingInv, MatchingTypeOK, CreditKinds
<1>4. \A v \in Users :
        /\ spent'[v]["boost"] = spent[v]["boost"]
        /\ spent'[v]["superlike"] = IF v = q.user /\ q.action = "superlike"
                                    THEN spent[v]["superlike"] + 1 ELSE spent[v]["superlike"]
  <2>1. CASE q.action = "superlike"
    BY <1>1, <1>2, <1>3, <2>1, SpendFacts DEF CommitMade
  <2>2. CASE q.action # "superlike"
    BY <1>1, <2>2 DEF CommitMade
  <2> QED
    BY <2>1, <2>2
<1>5. SpentIsOpen'
  <2> SUFFICES ASSUME \A v \in Users : account[v] # "deleted", NEW u \in Users
               PROVE  /\ spent'[u]["superlike"] = Cardinality(Superlikes(u)')
                      /\ spent'[u]["boost"] = Cardinality(BoostsOf(u)')
    BY <1>2 DEF SpentIsOpen
  <2>1. /\ spent[u]["superlike"] = Cardinality(Superlikes(u))
        /\ spent[u]["boost"] = Cardinality(BoostsOf(u))
    BY DEF CreditInv, SpentIsOpen
  <2>2. BoostsOf(u)' = BoostsOf(u)
    BY <1>2 DEF BoostsOf
  <2>3. CASE u = q.user /\ q.action = "superlike"
    <3>1. Superlikes(u)' = Superlikes(u) \cup {x} /\ x \notin Superlikes(u)
      BY <1>2, <2>3 DEF Superlikes
    <3>2. IsFiniteSet(Superlikes(u))
      BY FS_Subset DEF MatchingInv, RowsSound, Superlikes
    <3>3. Cardinality(Superlikes(u) \cup {x}) = Cardinality(Superlikes(u)) + 1
      BY <3>1, <3>2, FS_AddElement
    <3> QED
      BY <1>4, <2>1, <2>2, <2>3, <3>1, <3>3
  <2>4. CASE ~ (u = q.user /\ q.action = "superlike")
    <3>1. Superlikes(u)' = Superlikes(u)
      BY <1>2, <2>4 DEF Superlikes
    <3> QED
      BY <1>4, <2>1, <2>2, <2>4, <3>1
  <2> QED
    BY <2>3, <2>4
<1> QED
  BY <1>2, <1>5 DEF CreditInv

LEMMA CreditUndo ==
  ASSUME MatchingInv, CreditInv, NEW u \in Users, undoLastAction(u)
  PROVE  CreditInv'
<1>1. PICK x \in matchActions :
        /\ x.actor = u /\ matchActions' = matchActions \ {x}
        /\ IF x.action = "superlike"
           THEN returnCredit(u, "superlike") /\ spent[u]["superlike"] > 0
           ELSE UNCHANGED <<credits, spent>>
  BY UndoFacts
<1>2. UNCHANGED <<account, userBoosts>>
  BY DEF undoLastAction
<1>3. AccountsTypeOK /\ "superlike" \in CreditKinds /\ "boost" \in CreditKinds
  BY DEF MatchingInv, MatchingTypeOK, CreditKinds
<1>4. \A v \in Users :
        /\ spent'[v]["boost"] = spent[v]["boost"]
        /\ spent'[v]["superlike"] = IF v = u /\ x.action = "superlike"
                                    THEN spent[v]["superlike"] - 1 ELSE spent[v]["superlike"]
  <2>1. CASE x.action = "superlike"
    BY <1>1, <1>3, <2>1, ReturnFacts
  <2>2. CASE x.action # "superlike"
    BY <1>1, <2>2
  <2> QED
    BY <2>1, <2>2
<1>5. SpentIsOpen'
  <2> SUFFICES ASSUME \A v \in Users : account[v] # "deleted", NEW w \in Users
               PROVE  /\ spent'[w]["superlike"] = Cardinality(Superlikes(w)')
                      /\ spent'[w]["boost"] = Cardinality(BoostsOf(w)')
    BY <1>2 DEF SpentIsOpen
  <2>1. /\ spent[w]["superlike"] = Cardinality(Superlikes(w))
        /\ spent[w]["boost"] = Cardinality(BoostsOf(w))
    BY DEF CreditInv, SpentIsOpen
  <2>2. BoostsOf(w)' = BoostsOf(w)
    BY <1>2 DEF BoostsOf
  <2>3. CASE w = u /\ x.action = "superlike"
    <3>1. Superlikes(w)' = Superlikes(w) \ {x} /\ x \in Superlikes(w)
      BY <1>1, <2>3 DEF Superlikes
    <3>2. IsFiniteSet(Superlikes(w))
      BY FS_Subset DEF MatchingInv, RowsSound, Superlikes
    <3>3. Cardinality(Superlikes(w) \ {x}) = Cardinality(Superlikes(w)) - 1
      BY <3>1, <3>2, FS_RemoveElement
    <3> QED
      BY <1>4, <2>1, <2>2, <2>3, <3>1, <3>3
  <2>4. CASE ~ (w = u /\ x.action = "superlike")
    <3>1. Superlikes(w)' = Superlikes(w)
      BY <1>1, <2>4 DEF Superlikes
    <3> QED
      BY <1>4, <2>1, <2>2, <2>4, <3>1
  <2> QED
    BY <2>3, <2>4
<1> QED
  BY <1>2, <1>5 DEF CreditInv

\* A boost that starts now is none of those that have ended.
LEMMA CreditBoost ==
  ASSUME MatchingInv, CreditInv, NEW u \in Users, NEW at \in Times, activateBoost(u, at)
  PROVE  CreditInv'
<1>1. PICK new : new = [user |-> u, startsAt |-> at, endsAt |-> at + BoostTime]
  OBVIOUS
<1>2. userBoosts' = userBoosts \cup {new} /\ UNCHANGED <<account, matchActions>>
  BY <1>1 DEF activateBoost
<1>3. new.user = u /\ new.endsAt = at + BoostTime /\ at \in Nat /\ BoostTime \in Nat \ {0}
  BY <1>1, MatchingConstants DEF Times
<1>4. new \notin userBoosts
  <2>1. new.endsAt > at
    BY <1>3
  <2> QED
    BY <1>3, <2>1 DEF activateBoost, NoActiveBoost
<1>5. AccountsTypeOK /\ "superlike" \in CreditKinds /\ "boost" \in CreditKinds
  BY DEF MatchingInv, MatchingTypeOK, CreditKinds
<1>6. \A v \in Users :
        /\ spent'[v]["superlike"] = spent[v]["superlike"]
        /\ spent'[v]["boost"] = IF v = u THEN spent[v]["boost"] + 1 ELSE spent[v]["boost"]
  BY <1>5, SpendFacts DEF activateBoost
<1>7. IsFiniteSet(userBoosts')
  BY <1>2, FS_AddElement DEF CreditInv
<1>8. SpentIsOpen'
  <2> SUFFICES ASSUME \A v \in Users : account[v] # "deleted", NEW w \in Users
               PROVE  /\ spent'[w]["superlike"] = Cardinality(Superlikes(w)')
                      /\ spent'[w]["boost"] = Cardinality(BoostsOf(w)')
    BY <1>2 DEF SpentIsOpen
  <2>1. /\ spent[w]["superlike"] = Cardinality(Superlikes(w))
        /\ spent[w]["boost"] = Cardinality(BoostsOf(w))
    BY DEF CreditInv, SpentIsOpen
  <2>2. Superlikes(w)' = Superlikes(w)
    BY <1>2 DEF Superlikes
  <2>3. CASE w = u
    <3>1. BoostsOf(w)' = BoostsOf(w) \cup {new} /\ new \notin BoostsOf(w)
      BY <1>2, <1>3, <1>4, <2>3 DEF BoostsOf
    <3>2. IsFiniteSet(BoostsOf(w))
      BY FS_Subset DEF CreditInv, BoostsOf
    <3>3. Cardinality(BoostsOf(w) \cup {new}) = Cardinality(BoostsOf(w)) + 1
      BY <3>1, <3>2, FS_AddElement
    <3> QED
      BY <1>6, <2>1, <2>2, <2>3, <3>1, <3>3
  <2>4. CASE w # u
    <3>1. BoostsOf(w)' = BoostsOf(w)
      BY <1>2, <1>3, <2>4 DEF BoostsOf
    <3> QED
      BY <1>6, <2>1, <2>2, <2>4, <3>1
  <2> QED
    BY <2>3, <2>4
<1> QED
  BY <1>7, <1>8 DEF CreditInv

LEMMA CreditNext ==
  ASSUME MatchingInv, CreditInv, [Next]_vars
  PROVE  CreditInv'
<1>1. ASSUME NEW e \in Events, webhook(e) PROVE CreditInv'
  BY <1>1, WebhookFrame, CreditKept DEF matchingVars
<1>2. ASSUME NEW r \in Requests, actOnCandidate(r) PROVE CreditInv'
  BY <1>2, CreditKept DEF actOnCandidate, likeUser, accountVars
<1>3. ASSUME NEW r \in Requests, RequestRuns(r) PROVE CreditInv'
  <2>1. CASE checkCandidate(r)
    BY <2>1, CreditKept DEF checkCandidate, accountVars
  <2>2. CASE abortAction(r)
    BY <2>2, CreditKept DEF abortAction, accountVars
  <2> QED
    BY <1>3, <2>1, <2>2, CreditCommit DEF RequestRuns
<1>4. ASSUME NEW u \in Users, UserStep(u) PROVE CreditInv'
  <2>1. ASSUME NEW v \in Users, blockUser(u, v) PROVE CreditInv'
    BY <2>1, CreditKept DEF blockUser, accountVars
  <2> QED
    BY <1>4, <2>1, CreditUndo, CreditBoost DEF UserStep
<1>5. CASE Tick
  BY <1>5, CreditKept DEF Tick, accountVars
<1>6. ASSUME NEW u \in Leavers,
             scheduleDeletion(u) \/ restoreScheduledDeletion(u) \/ anonymizeDeletedAccount(u)
      PROVE  CreditInv'
  <2>0. u \in Users /\ AccountsTypeOK
    BY MatchingConstants DEF MatchingInv, MatchingTypeOK
  <2>1. CASE scheduleDeletion(u) \/ restoreScheduledDeletion(u)
    <3>1. \A v \in Users : account[v] = "deleted" => account'[v] = "deleted"
      BY <2>0, <2>1 DEF AccountsTypeOK, scheduleDeletion, restoreScheduledDeletion,
                        hideAccount, restoreAccount
    <3> QED
      BY <2>1, <3>1, CreditKept DEF scheduleDeletion, restoreScheduledDeletion, hideAccount,
                                    restoreAccount, matchingVars
  <2>2. CASE anonymizeDeletedAccount(u)
    <3>1. account'[u] = "deleted" /\ userBoosts' \subseteq userBoosts
      BY <2>0, <2>2 DEF AccountsTypeOK, anonymizeDeletedAccount, closeAccount, deleteMatching
    <3>2. SpentIsOpen'
      BY <2>0, <3>1 DEF SpentIsOpen
    <3> QED
      BY <3>1, <3>2, FS_Subset DEF CreditInv
  <2> QED
    BY <1>6, <2>1, <2>2
<1>7. CASE UNCHANGED vars
  BY <1>7, CreditKept DEF vars, accountVars, matchingVars
<1> QED
  BY <1>1, <1>2, <1>3, <1>4, <1>5, <1>6, <1>7 DEF Next, matching, MatchingStep

-----------------------------------------------------------------------------
(* Plans and the likes of a day *)

LEMMA ReceivedLimits ==
  ASSUME NEW u, NEW plan \in ReceivedPlans(u)
  PROVE  getDailyLikeLimit(plan) \in Limits
<1>1. plan \in {"free"} \cup SubscriptionProducts
  BY StatusFacts DEF ReceivedPlans, SubscriptionEventsOf
<1> QED
  BY <1>1, SystemConstants DEF PlanLimits

LEMMA LikesCounted ==
  ASSUME IsFiniteSet(userLikes), NEW u, NEW day
  PROVE  IsFiniteSet(LikesOn(u, day)) /\ Cardinality(LikesOn(u, day)) \in Nat
<1>1. LikesOn(u, day) \in SUBSET userLikes
  BY DEF LikesOn
<1> QED
  BY <1>1, FS_Subset, FS_CardinalityType

LEMMA LikesShrink ==
  ASSUME IsFiniteSet(userLikes), NEW u, NEW day, LikesOn(u, day)' \subseteq LikesOn(u, day)
  PROVE  \E n, m \in Nat : /\ n = Cardinality(LikesOn(u, day))
                           /\ m = Cardinality(LikesOn(u, day)') /\ m <= n
<1>1. IsFiniteSet(LikesOn(u, day)) /\ LikesOn(u, day)' \in SUBSET LikesOn(u, day)
  BY LikesCounted
<1> QED
  BY <1>1, FS_Subset, FS_CardinalityType

\* The plans received become more, the likes of a day fewer.
LEMMA HonouredKept ==
  ASSUME PlanHonoured, IsFiniteSet(userLikes), NEW u \in Users, NEW t \in Times,
         ReceivedPlans(u) \subseteq ReceivedPlans(u)',
         LikesOn(u, Day(t))' \subseteq LikesOn(u, Day(t))
  PROVE  \E plan \in ReceivedPlans(u)' :
           getDailyLikeLimit(plan) # Unlimited =>
             Cardinality(LikesOn(u, Day(t))') <= getDailyLikeLimit(plan)
<1>1. PICK plan \in ReceivedPlans(u) :
        getDailyLikeLimit(plan) # Unlimited =>
          Cardinality(LikesOn(u, Day(t))) <= getDailyLikeLimit(plan)
  BY DEF PlanHonoured
<1>2. PICK n \in Nat, m \in Nat : /\ n = Cardinality(LikesOn(u, Day(t)))
                                  /\ m = Cardinality(LikesOn(u, Day(t))') /\ m <= n
  BY LikesShrink
<1>3. PICK k : k = getDailyLikeLimit(plan)
  OBVIOUS
<1>4. k \in Nat \cup {Unlimited}
  BY <1>3, ReceivedLimits, MatchingConstants
<1>5. k # Unlimited => m <= k
  BY <1>1, <1>2, <1>3, <1>4
<1> QED
  BY <1>2, <1>3, <1>5

LEMMA CountedKept ==
  ASSUME IsFiniteSet(userLikes), NEW q \in RequestType, Counted(q),
         LikesOn(q.user, Day(q.at))' \subseteq LikesOn(q.user, Day(q.at))
  PROVE  Cardinality(LikesOn(q.user, Day(q.at))') <= q.count
<1>1. PICK n \in Nat, m \in Nat : /\ n = Cardinality(LikesOn(q.user, Day(q.at)))
                                  /\ m = Cardinality(LikesOn(q.user, Day(q.at))') /\ m <= n
  BY LikesShrink
<1>2. PICK c \in Nat : c = q.count /\ n <= c
  BY <1>1, RequestFields DEF Counted
<1> QED
  BY <1>1, <1>2

\* A step that adds no like and no request.
LEMMA PlanKept ==
  ASSUME MatchingInv, PlanInv, \A u : ReceivedPlans(u) \subseteq ReceivedPlans(u)',
         userLikes' \subseteq userLikes,
         \A r \in Requests : request'[r] # None => request'[r] = request[r]
  PROVE  PlanInv'
<1>0. IsFiniteSet(userLikes)
  BY DEF MatchingInv, RowsSound
<1>1. \A u, day : LikesOn(u, day)' \subseteq LikesOn(u, day)
  BY DEF LikesOn
<1>2. PlanHonoured'
  <2>1. PlanHonoured
    BY DEF PlanInv
  <2>2. ASSUME NEW u \in Users, NEW t \in Times
        PROVE  \E plan \in ReceivedPlans(u)' :
                 getDailyLikeLimit(plan) # Unlimited =>
                   Cardinality(LikesOn(u, Day(t))') <= getDailyLikeLimit(plan)
    BY <1>0, <1>1, <2>1, HonouredKept
  <2> QED
    BY <2>2 DEF PlanHonoured
<1>3. ASSUME NEW r \in Requests, request'[r] # None PROVE Planned(request[r])'
  <2>1. PICK q : q = request[r]
    OBVIOUS
  <2>2. request'[r] = q /\ Planned(q)
    BY <1>3, <2>1 DEF PlanInv
  <2>3. \E plan \in ReceivedPlans(q.user)' : q.limit = getDailyLikeLimit(plan)
    BY <2>2 DEF Planned
  <2> QED
    BY <2>2, <2>3 DEF Planned
<1>4. ASSUME NEW r \in Requests, Holding(r)' PROVE Counted(request[r])'
  <2>1. PICK q : q = request[r]
    OBVIOUS
  <2>2. request'[r] = q /\ Holding(r) /\ Counted(q)
    BY <1>4, <2>1 DEF PlanInv, Holding
  <2>3. q \in RequestType
    BY <2>1, <2>2, RowTypes DEF Holding, MatchingInv
  <2>4. Cardinality(LikesOn(q.user, Day(q.at))') <= q.count
    BY <1>0, <1>1, <2>2, <2>3, CountedKept
  <2> QED
    BY <2>2, <2>4 DEF Counted
<1> QED
  BY <1>2, <1>3, <1>4 DEF PlanInv

LEMMA PlanArrive ==
  ASSUME MatchingInv, BillingInv, PlanInv, NEW r \in Requests, actOnCandidate(r)
  PROVE  PlanInv'
<1>0. UNCHANGED <<billingEvents, userLikes>>
  BY DEF actOnCandidate, likeUser, billingVars
<1>1. PICK c \in Candidates, choice \in Choices : \E plan \in CurrentPlans(c[1]) :
        likeUser(r, c[1], c[2], choice, getDailyLikeLimit(plan))
  BY DEF actOnCandidate
<1>2. PICK plan \in CurrentPlans(c[1]) : likeUser(r, c[1], c[2], choice, getDailyLikeLimit(plan))
  BY <1>1
<1>3. PICK q : q = [phase |-> "requested", user |-> c[1], target |-> c[2], action |-> choice,
                    at |-> now, limit |-> getDailyLikeLimit(plan), reverse |-> FALSE,
                    liked |-> FALSE, count |-> 0]
  OBVIOUS
<1>4. q.phase = "requested" /\ q.user = c[1] /\ q.limit = getDailyLikeLimit(plan)
  BY <1>3
<1>5. request'[r] = q /\ \A s \in Requests \ {r} : request'[s] = request[s]
  BY <1>2, <1>3 DEF likeUser, MatchingInv, MatchingTypeOK
<1>6. plan \in ReceivedPlans(q.user)
  <2>1. c[1] \in Users
    BY DEF Candidates
  <2> QED
    BY <1>4, <2>1, PlanRead
<1>7. /\ \A u : ReceivedPlans(u)' = ReceivedPlans(u)
      /\ \A u, day : LikesOn(u, day)' = LikesOn(u, day)
  BY <1>0 DEF ReceivedPlans, SubscriptionEventsOf, Received, LikesOn
<1>8. ASSUME NEW s \in Requests, request'[s] # None PROVE Planned(request[s])'
  <2>1. PICK o : o = request'[s]
    OBVIOUS
  <2>2. Planned(o)
    BY <1>4, <1>5, <1>6, <1>8, <2>1 DEF PlanInv, Planned
  <2>3. \E p \in ReceivedPlans(o.user)' : o.limit = getDailyLikeLimit(p)
    BY <1>7, <2>2 DEF Planned
  <2> QED
    BY <2>1, <2>3 DEF Planned
<1>9. ASSUME NEW s \in Requests, Holding(s)' PROVE Counted(request[s])'
  <2>1. PICK o : o = request'[s]
    OBVIOUS
  <2>2. s # r /\ o = request[s] /\ Holding(s)
    BY <1>4, <1>5, <1>9, <2>1 DEF Holding
  <2>3. Cardinality(LikesOn(o.user, Day(o.at))') <= o.count
    BY <1>7, <2>2 DEF PlanInv, Counted
  <2> QED
    BY <2>1, <2>3 DEF Counted
<1>10. PlanHonoured'
  BY <1>7 DEF PlanInv, PlanHonoured
<1> QED
  BY <1>8, <1>9, <1>10 DEF PlanInv

\* The count is taken under the actor's lock.
LEMMA PlanCheck ==
  ASSUME MatchingInv, PlanInv, UNCHANGED billingVars, NEW r \in Requests, checkCandidate(r)
  PROVE  PlanInv'
<1>0. UNCHANGED <<billingEvents, userLikes>>
  BY DEF checkCandidate, billingVars
<1>1. PICK q : q = request[r] /\ q # None
  BY DEF checkCandidate
<1>2. q \in RequestType
  BY <1>1, RowTypes DEF MatchingInv
<1>3. PICK n : n = Cardinality(LikesOn(q.user, Day(q.at)))
  OBVIOUS
<1>4. PICK o : o = [q EXCEPT !.phase = "checked", !.reverse = HasLiked(q.target, q.user),
                             !.liked = HasLiked(q.user, q.target), !.count = n]
  OBVIOUS
<1>5. o.user = q.user /\ o.at = q.at /\ o.limit = q.limit /\ o.count = n
  BY <1>2, <1>4 DEF RequestType
<1>6. request' = [request EXCEPT ![r] = IF NotActionable(q.user, q.target) THEN None ELSE o]
  BY <1>1, <1>3, <1>4 DEF checkCandidate
<1>7. request'[r] \in {None, o} /\ \A s \in Requests \ {r} : request'[s] = request[s]
  BY <1>6 DEF MatchingInv, MatchingTypeOK
<1>8. /\ \A u : ReceivedPlans(u)' = ReceivedPlans(u)
      /\ \A u, day : LikesOn(u, day)' = LikesOn(u, day)
  BY <1>0 DEF ReceivedPlans, SubscriptionEventsOf, Received, LikesOn
<1>9. ASSUME NEW s \in Requests, request'[s] # None PROVE Planned(request[s])'
  <2>1. PICK z : z = request'[s]
    OBVIOUS
  <2>2. Planned(q)
    BY <1>1 DEF PlanInv
  <2>3. Planned(z)
    BY <1>5, <1>7, <1>9, <2>1, <2>2 DEF PlanInv, Planned
  <2>4. \E p \in ReceivedPlans(z.user)' : z.limit = getDailyLikeLimit(p)
    BY <1>8, <2>3 DEF Planned
  <2> QED
    BY <2>1, <2>4 DEF Planned
<1>10. ASSUME NEW s \in Requests, Holding(s)' PROVE Counted(request[s])'
  <2>1. PICK z : z = request'[s] /\ z # None
    BY <1>10 DEF Holding
  <2>2. CASE s = r
    <3>1. z = o
      BY <1>7, <2>1, <2>2
    <3>2. n \in Nat
      BY <1>3, LikesCounted DEF MatchingInv, RowsSound
    <3>3. Cardinality(LikesOn(z.user, Day(z.at))') <= z.count
      BY <1>3, <1>5, <1>8, <3>1, <3>2
    <3> QED
      BY <2>1, <3>3 DEF Counted
  <2>3. CASE s # r
    <3>1. z = request[s] /\ Holding(s)
      BY <1>7, <1>10, <2>1, <2>3 DEF Holding
    <3>2. Cardinality(LikesOn(z.user, Day(z.at))') <= z.count
      BY <1>8, <3>1 DEF PlanInv, Counted
    <3> QED
      BY <2>1, <3>2 DEF Counted
  <2> QED
    BY <2>2, <2>3
<1>11. PlanHonoured'
  BY <1>8 DEF PlanInv, PlanHonoured
<1> QED
  BY <1>9, <1>10, <1>11 DEF PlanInv

\* At most one like more than were counted, and fewer were counted than the
\* plan allows; whoever else holds locks acts for somebody else.
LEMMA PlanCommit ==
  ASSUME MatchingInv, PlanInv, UNCHANGED billingVars, NEW r \in Requests, commitAction(r)
  PROVE  PlanInv'
<1>0. IsFiniteSet(userLikes)
  BY DEF MatchingInv, RowsSound
<1>1. PICK q, x, l : CommitMade(r, q, x, l)
  BY CommitFacts
<1>2. /\ q \in RequestType /\ q = request[r] /\ q.user \in Users /\ q.at \in Times
      /\ Holding(r) /\ WithinLimit(q) /\ ~ q.liked
      /\ l.liker = q.user /\ l.at = q.at
      /\ userLikes' = IF q.action \in Likes THEN userLikes \cup {l} ELSE userLikes
      /\ request'[r] = None /\ \A s \in Requests \ {r} : request'[s] = request[s]
  BY <1>1 DEF CommitMade
<1>3. \A u : ReceivedPlans(u)' = ReceivedPlans(u)
  BY DEF ReceivedPlans, SubscriptionEventsOf, Received, billingVars
<1>4. \A u, day : ~ (u = q.user /\ day = Day(q.at)) => LikesOn(u, day)' = LikesOn(u, day)
  BY <1>2 DEF LikesOn
<1>5. LikesOn(q.user, Day(q.at))' =
        IF q.action \in Likes THEN LikesOn(q.user, Day(q.at)) \cup {l} ELSE LikesOn(q.user, Day(q.at))
  BY <1>2 DEF LikesOn
<1>6. ASSUME NEW s \in Requests, request'[s] # None PROVE Planned(request[s])'
  <2>1. PICK z : z = request'[s]
    OBVIOUS
  <2>2. z = request[s]
    BY <1>2, <1>6, <2>1
  <2>3. Planned(z)
    BY <1>6, <2>1, <2>2 DEF PlanInv
  <2>4. \E p \in ReceivedPlans(z.user)' : z.limit = getDailyLikeLimit(p)
    BY <1>3, <2>3 DEF Planned
  <2> QED
    BY <2>1, <2>4 DEF Planned
<1>7. ASSUME NEW s \in Requests, Holding(s)' PROVE Counted(request[s])'
  <2>1. PICK z : z = request'[s]
    OBVIOUS
  <2>2. s # r /\ z = request[s] /\ Holding(s)
    BY <1>2, <1>7, <2>1 DEF Holding
  <2>3. z.user # q.user
    BY <1>2, <2>2 DEF MatchingInv, RequestsSound
  <2>4. LikesOn(z.user, Day(z.at))' = LikesOn(z.user, Day(z.at))
    BY <1>4, <2>3
  <2>5. Cardinality(LikesOn(z.user, Day(z.at))') <= z.count
    BY <2>2, <2>4 DEF PlanInv, Counted
  <2> QED
    BY <2>1, <2>5 DEF Counted
<1>8. ASSUME NEW u \in Users, NEW t \in Times
      PROVE  \E plan \in ReceivedPlans(u)' :
               getDailyLikeLimit(plan) # Unlimited =>
                 Cardinality(LikesOn(u, Day(t))') <= getDailyLikeLimit(plan)
  <2>1. PlanHonoured
    BY DEF PlanInv
  <2>2. CASE ~ (u = q.user /\ Day(t) = Day(q.at) /\ q.action \in Likes)
    <3>1. LikesOn(u, Day(t))' = LikesOn(u, Day(t))
      BY <1>4, <1>5, <2>2
    <3> QED
      BY <1>0, <1>3, <2>1, <3>1, HonouredKept
  <2>3. CASE u = q.user /\ Day(t) = Day(q.at) /\ q.action \in Likes
    <3>1. PICK plan \in ReceivedPlans(u) : q.limit = getDailyLikeLimit(plan)
      BY <1>2, <2>3 DEF PlanInv, Planned, Holding
    <3>2. PICK L : L = LikesOn(u, Day(t))
      OBVIOUS
    <3>3. LikesOn(u, Day(t))' = L \cup {l}
      BY <1>5, <2>3, <3>2
    <3>4. PICK n \in Nat : n = Cardinality(L) /\ IsFiniteSet(L)
      BY <1>0, <3>2, LikesCounted
    <3>5. Cardinality(L \cup {l}) \in {n, n + 1}
      BY <3>4, FS_AddElement
    <3>6. PICK c \in Nat : c = q.count /\ n <= c
      BY <1>2, <2>3, <3>2, <3>4, RequestFields DEF PlanInv, Counted
    <3>7. q.limit # Unlimited => c < q.limit
      BY <1>2, <2>3, <3>6 DEF WithinLimit
    <3>8. q.limit \in Nat \cup {Unlimited}
      BY <1>2, RequestFields, MatchingConstants
    <3>9. q.limit # Unlimited => Cardinality(L \cup {l}) <= q.limit
      BY <3>4, <3>5, <3>6, <3>7, <3>8
    <3> QED
      BY <1>3, <3>1, <3>3, <3>9
  <2> QED
    BY <2>2, <2>3
<1>9. PlanHonoured'
  BY <1>8 DEF PlanHonoured
<1> QED
  BY <1>6, <1>7, <1>9 DEF PlanInv

\* A webhook keeps what was received.
LEMMA PlansGrow ==
  ASSUME BillingInv, NEW e \in Events, webhook(e)
  PROVE  \A u : ReceivedPlans(u) \subseteq ReceivedPlans(u)'
<1>1. Received \subseteq Received'
  <2>1. CASE insertEvent(e)
    BY <2>1, InsertFacts DEF BillingInv
  <2>2. CASE notifyPurchase(e)
    BY <2>2 DEF notifyPurchase, Received
  <2> QED
    BY <2>1, <2>2 DEF webhook, handleRevenueCatWebhook, recordEvent, applySubscription,
                      applyConsumableTransition
<1> QED
  BY <1>1 DEF ReceivedPlans, SubscriptionEventsOf

LEMMA PlanNext ==
  ASSUME MatchingInv, BillingInv, PlanInv, [Next]_vars
  PROVE  PlanInv'
<1>0. UNCHANGED billingEvents => \A u : ReceivedPlans(u) \subseteq ReceivedPlans(u)'
  BY DEF ReceivedPlans, SubscriptionEventsOf, Received
<1>1. ASSUME NEW e \in Events, webhook(e) PROVE PlanInv'
  <2>1. UNCHANGED <<userLikes, request>>
    BY <1>1, WebhookFrame DEF matchingVars
  <2> QED
    BY <1>1, <2>1, PlansGrow, PlanKept
<1>2. ASSUME NEW r \in Requests, UNCHANGED billingVars, RequestRuns(r) PROVE PlanInv'
  <2>1. CASE abortAction(r)
    <3>1. UNCHANGED userLikes /\ \A s \in Requests : request'[s] # None => request'[s] = request[s]
      BY <2>1 DEF abortAction, MatchingInv, MatchingTypeOK
    <3> QED
      BY <1>0, <1>2, <3>1, PlanKept DEF billingVars
  <2> QED
    BY <1>2, <2>1, PlanCheck, PlanCommit DEF RequestRuns
<1>3. ASSUME NEW u \in Users, UNCHANGED billingVars, UserStep(u) PROVE PlanInv'
  <2>1. userLikes' \subseteq userLikes /\ UNCHANGED request
    <3>1. CASE undoLastAction(u)
      BY <3>1, UndoFacts DEF undoLastAction
    <3>2. ASSUME NEW at \in Times, activateBoost(u, at)
          PROVE  userLikes' \subseteq userLikes /\ UNCHANGED request
      BY <3>2 DEF activateBoost
    <3>3. ASSUME NEW v \in Users, blockUser(u, v)
          PROVE  userLikes' \subseteq userLikes /\ UNCHANGED request
      BY <3>3 DEF blockUser
    <3> QED
      BY <1>3, <3>1, <3>2, <3>3 DEF UserStep
  <2> QED
    BY <1>0, <1>3, <2>1, PlanKept DEF billingVars
<1>4. CASE Tick /\ UNCHANGED billingVars
  BY <1>0, <1>4, PlanKept DEF Tick, billingVars
<1>5. ASSUME NEW u \in Leavers,
             scheduleDeletion(u) \/ restoreScheduledDeletion(u) \/ anonymizeDeletedAccount(u)
      PROVE  PlanInv'
  <2>1. UNCHANGED <<billingEvents, request>> /\ userLikes' \subseteq userLikes
    BY <1>5 DEF scheduleDeletion, restoreScheduledDeletion, anonymizeDeletedAccount,
                deleteMatching, billingVars, matchingVars
  <2> QED
    BY <1>0, <2>1, PlanKept
<1>6. CASE UNCHANGED vars
  BY <1>0, <1>6, PlanKept DEF vars, billingVars, matchingVars
<1> QED
  BY <1>1, <1>2, <1>3, <1>4, <1>5, <1>6, PlanArrive DEF Next, matching, MatchingStep

-----------------------------------------------------------------------------
(* The invariant of the composition *)

LEMMA SystemInvInit ==
  ASSUME Init
  PROVE  SystemInv
<1>1. MatchingInv /\ BillingInv
  BY MatchingInvInit, BillingInvInit DEF Init
<1>2. \A u : Superlikes(u) = {} /\ BoostsOf(u) = {}
  BY DEF Init, MatchingInit, Superlikes, BoostsOf
<1>3. \A u : Cardinality(Superlikes(u)) = 0 /\ Cardinality(BoostsOf(u)) = 0
  BY <1>2, FS_EmptySet
<1>4. \A u \in Users : spent[u]["superlike"] = 0 /\ spent[u]["boost"] = 0
  BY DEF Init, BillingInit, AccountsInit, NoCredits, CreditKinds
<1>5. CreditInv
  BY <1>3, <1>4, FS_EmptySet DEF CreditInv, SpentIsOpen, Init, MatchingInit
<1>6. PlanHonoured
  <2> SUFFICES ASSUME NEW u \in Users, NEW t \in Times
               PROVE  \E plan \in ReceivedPlans(u) :
                        getDailyLikeLimit(plan) # Unlimited =>
                          Cardinality(LikesOn(u, Day(t))) <= getDailyLikeLimit(plan)
    BY DEF PlanHonoured
  <2>1. PICK k : k = getDailyLikeLimit("free")
    OBVIOUS
  <2>2. "free" \in ReceivedPlans(u) /\ k \in Nat \cup {Unlimited}
    <3>1. "free" \in ReceivedPlans(u)
      BY DEF ReceivedPlans
    <3> QED
      BY <2>1, <3>1, ReceivedLimits, MatchingConstants
  <2>3. LikesOn(u, Day(t)) = {}
    BY DEF Init, MatchingInit, LikesOn
  <2>4. Cardinality(LikesOn(u, Day(t))) = 0
    BY <2>3, FS_EmptySet
  <2> QED
    BY <2>1, <2>2, <2>4
<1>7. PlanInv
  BY <1>6 DEF PlanInv, Init, MatchingInit, Holding
<1> QED
  BY <1>1, <1>5, <1>7 DEF SystemInv

LEMMA SystemInvNext ==
  ASSUME SystemInv, [Next]_vars
  PROVE  SystemInv'
<1> USE DEF SystemInv
<1>1. BillingInv'
  BY SystemStepIsBilling, BillingInvNext
<1>2. MatchingInv'
  BY <1>1, SystemMatchingNext
<1>3. CreditInv'
  BY CreditNext
<1>4. PlanInv'
  BY PlanNext
<1> QED
  BY <1>1, <1>2, <1>3, <1>4

LEMMA SystemInvariant == Spec => []SystemInv
  BY SystemInvInit, SystemInvNext, PTL DEF Spec

-----------------------------------------------------------------------------
(* Theorems about billing *)

\* In whatever order, and however often, RevenueCat's webhooks arrive, a store
\* transaction is in the state the newest accepted one asks for, and so is the
\* subscription of an account that still exists (billing.repository.ts).
THEOREM NewestWins == BillingSpec => []NewestEventWins
<1>1. BillingInv => NewestEventWins
  BY DEF BillingInv
<1> QED
  BY <1>1, BillingInvariant, PTL

\* The credits of an account are its purchases not refunded, less what it has
\* spent, after any mix of grants, refunds, reversals, duplicates and stale
\* webhooks.
THEOREM BalanceIsConserved == BillingSpec => []BalanceConserved
<1>1. BillingInv => BalanceConserved
  BY DEF BillingInv
<1> QED
  BY <1>1, BillingInvariant, PTL

\* The ledger has one entry per accepted transition, and its entries alone
\* explain the state of every store transaction.
THEOREM LedgerIsComplete == BillingSpec => []LedgerExplains
<1>1. BillingInv => LedgerExplains
  BY DEF BillingInv
<1> QED
  BY <1>1, BillingInvariant, PTL

-----------------------------------------------------------------------------
(* Theorems about billing and matching together *)

\* Composed with matching, billing does what it does on its own: a commit, an
\* undo and a boost use or return one credit of an account that exists, every
\* other step of matching is none of billing's.
THEOREM SystemImplementsBilling == Spec => BillingSpec
<1>1. Init => BillingInit
  BY DEF Init
<1>2. SystemInv /\ [Next]_vars => [BillingNext]_<<accountVars, billingVars>>
  BY SystemStepIsBilling DEF SystemInv
<1> QED
  BY <1>1, <1>2, SystemInvariant, PTL DEF Spec, BillingSpec

\* What is proved of matching with purchases of one credit holds with the
\* webhooks in their place: a refund may take a balance below zero, but not
\* disturb matches, their announcements, likes or boosts.
THEOREM SystemMatches ==
  Spec => [](/\ MutualLikesMatched /\ MatchAnnouncedOnce
             /\ LikesFollowActions /\ BoostsDisjoint)
<1>1. SystemInv => /\ MutualLikesMatched /\ MatchAnnouncedOnce
                   /\ LikesFollowActions /\ BoostsDisjoint
  BY InvMutual, InvLikes DEF SystemInv, MatchingInv, AnnouncedForGood, MatchAnnouncedOnce
<1> QED
  BY <1>1, SystemInvariant, PTL

\* No credit appears or is lost between billing.repository.ts, which grants
\* and takes back, and matching.repository.ts, which spends and returns.
THEOREM CreditsReconcile == Spec => []CreditsReconciled
<1>1. SystemInv => CreditsReconciled
  <2> SUFFICES ASSUME SystemInv, \A v \in Users : account[v] # "deleted", NEW u \in Users
               PROVE  /\ credits[u]["superlike"] =
                           GrantedUnits(u, "superlike") - Cardinality(Superlikes(u))
                      /\ credits[u]["boost"] = GrantedUnits(u, "boost") - Cardinality(BoostsOf(u))
    BY DEF CreditsReconciled
  <2>1. \A k \in CreditKinds : credits[u][k] = GrantedUnits(u, k) - spent[u][k]
    BY DEF SystemInv, BillingInv, BalanceConserved
  <2>2. /\ spent[u]["superlike"] = Cardinality(Superlikes(u))
        /\ spent[u]["boost"] = Cardinality(BoostsOf(u))
    BY DEF SystemInv, CreditInv, SpentIsOpen
  <2> QED
    BY <2>1, <2>2 DEF CreditKinds
<1> QED
  BY <1>1, SystemInvariant, PTL

\* The likes of a day never exceed what some plan allows that an event had
\* activated by then, although actOnCandidate reads the plan before, and
\* counts the likes inside, its transaction.
THEOREM PlansAreHonoured == Spec => []PlanHonoured
<1>1. SystemInv => PlanHonoured
  BY DEF SystemInv, PlanInv
<1> QED
  BY <1>1, SystemInvariant, PTL
=============================================================================

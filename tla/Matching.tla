------------------------------- MODULE Matching -------------------------------
(***************************************************************************)
(* Likes, superlikes, skips, their undo, matches and boosts.               *)
(*                                                                         *)
(* actOnCandidate runs under two advisory locks, on the actor and on the   *)
(* pair.  It is modelled as the request (which fixes `now' and the plan's  *)
(* daily limit), the locked reads, and the commit that acts on what was    *)
(* read, so that whatever the locks do not cover can change in between.    *)
(* Rows of match_actions that were reverted are never read again and are   *)
(* not kept; nor are liked-me views, which touch nothing else.             *)
(***************************************************************************)
EXTENDS Accounts, FiniteSets

CONSTANTS
    Requests,      \* concurrent actOnCandidate requests
    Compatible,    \* pairs whose genders and interests admit each other
    Limits,        \* daily like limits of the plans; Unlimited is none
    Unlimited,
    DayLength,     \* instants per UTC day
    BoostTime,     \* length of a boost
    Leavers,       \* bound: the accounts that may be deleted
    MaxBlocks,     \* bound: rows of user_blocks
    MaxLag,        \* bound: instants between an activation's now and its commit
    MaxCredits,    \* bound: the credits of each kind an account ever buys
    MaxTime        \* bound: the last instant

Candidates == {p \in Users \X Users : p[1] # p[2]}
Pairs == {{c[1], c[2]} : c \in Candidates}
Times == 0 .. MaxTime
Choices == {"skip", "like", "superlike"}
Likes == {"like", "superlike"}

ASSUME MatchingConstants ==
    /\ Compatible \subseteq Pairs
    /\ Limits \subseteq Nat \cup {Unlimited} /\ Unlimited \notin Nat
    /\ DayLength \in Nat \ {0} /\ BoostTime \in Nat \ {0}
    /\ Leavers \subseteq Users /\ MaxBlocks \in Nat
    /\ MaxLag \in Nat /\ MaxTime \in Nat
    /\ MaxCredits \in [Users -> [CreditKinds -> Nat]]

VARIABLES
    now,
    userLikes,      \* user_likes
    matchActions,   \* match_actions with revertedAt null
    matches,        \* matches, each with its room
    userBlocks,     \* user_blocks: <<blocker, blocked>>
    userBoosts,     \* user_boosts
    request,        \* actOnCandidate requests in flight
    announced       \* history: how often a pair was told of its match

matchingVars ==
    <<now, userLikes, matchActions, matches, userBlocks, userBoosts, request, announced>>

ActionType == [actor : Users, target : Users, action : Choices, at : Times]
LikeType == [liker : Users, liked : Users, at : Times]
BoostType == [user : Users, startsAt : Times, endsAt : Nat]

\* requested: waiting for its locks; checked: holding them, having read
\* reverse (the target's like), liked (its own) and count (likes of the day).
RequestType ==
    [phase : {"requested", "checked"}, user : Users, target : Users,
     action : Choices, at : Times, limit : Limits,
     reverse : BOOLEAN, liked : BOOLEAN, count : Nat]

\* Rows and requests have the types of the schema; likes are keyed by pair.
MatchingTypeOK ==
    /\ AccountsTypeOK
    /\ now \in Times
    /\ userLikes \subseteq LikeType
    /\ matchActions \subseteq ActionType
    /\ matches \subseteq Pairs
    /\ userBlocks \subseteq Candidates
    /\ userBoosts \subseteq BoostType
    /\ request \in [Requests -> RequestType \cup {None}]
    /\ announced \in [Pairs -> Nat]

MatchingInit ==
    /\ AccountsInit
    /\ now = 0
    /\ userLikes = {} /\ matchActions = {} /\ matches = {}
    /\ userBlocks = {} /\ userBoosts = {}
    /\ request = [r \in Requests |-> None]
    /\ announced = [p \in Pairs |-> 0]

-----------------------------------------------------------------------------
(* Reads *)

HasLiked(a, b) == \E l \in userLikes : l.liker = a /\ l.liked = b
OpenActions(a, b) == {x \in matchActions : x.actor = a /\ x.target = b}
Day(t) == t \div DayLength
LikesOn(u, day) == {l \in userLikes : l.liker = u /\ Day(l.at) = day}
Blocked(a, b) == <<a, b>> \in userBlocks \/ <<b, a>> \in userBlocks

Holding(r) == request[r] # None /\ request[r].phase = "checked"
UserKeyFree(u) == \A r \in Requests : Holding(r) => request[r].user # u
PairKeyFree(a, b) ==
    \A r \in Requests : Holding(r) => {request[r].user, request[r].target} # {a, b}

\* Mutant: the pair is not locked.
LocksActorOnly(u, t) == UserKeyFree(u)

\* Mutant: the actor is not locked.
LocksPairOnly(u, t) == PairKeyFree(u, t)

LocksFree(u, t) == UserKeyFree(u) /\ PairKeyFree(u, t)

-----------------------------------------------------------------------------
(* actOnCandidate *)

likeUser(r, u, t, choice, limit) ==
    /\ request[r] = None
    /\ account[u] = "active" /\ u # t
    /\ request' = [request EXCEPT ![r] =
            [phase |-> "requested", user |-> u, target |-> t, action |-> choice,
             at |-> now, limit |-> limit, reverse |-> FALSE, liked |-> FALSE, count |-> 0]]
    /\ UNCHANGED <<accountVars, now, userLikes, matchActions, matches, userBlocks,
                   userBoosts, announced>>

\* A replay or a conflict with an action still open, or a candidate who is
\* not (or no longer) to be acted on.
NotActionable(u, t) ==
    \/ OpenActions(u, t) # {}
    \/ account[u] # "active" \/ account[t] # "active"
    \/ {u, t} \notin Compatible
    \/ Blocked(u, t)

\* Both locks are taken; the transaction ends here or goes on with its reads.
checkCandidate(r) ==
    LET q == request[r] IN
    /\ q # None /\ q.phase = "requested"
    /\ LocksFree(q.user, q.target)
    /\ request' = [request EXCEPT ![r] =
            IF NotActionable(q.user, q.target) THEN None
            ELSE [q EXCEPT !.phase = "checked",
                           !.reverse = HasLiked(q.target, q.user),
                           !.liked = HasLiked(q.user, q.target),
                           !.count = Cardinality(LikesOn(q.user, Day(q.at)))]]
    /\ UNCHANGED <<accountVars, now, userLikes, matchActions, matches, userBlocks,
                   userBoosts, announced>>

WithinLimit(q) ==
    q.action \in Likes /\ ~ q.liked /\ q.limit # Unlimited => q.count < q.limit

\* matchIfReverseExists
MatchesWith(q) == q.action \in Likes /\ q.reverse

\* The rest of the transaction, and the notification that follows it.
commitAction(r) ==
    LET q == request[r]
        pair == {q.user, q.target}
    IN
    /\ Holding(r) /\ WithinLimit(q)
    /\ IF q.action = "superlike"
       THEN spendCredit(q.user, "superlike")
       ELSE UNCHANGED <<credits, spent>>
    /\ userLikes' = IF q.action = "skip" \/ q.liked THEN userLikes
                    ELSE userLikes \cup {[liker |-> q.user, liked |-> q.target, at |-> q.at]}
    /\ matchActions' = matchActions \cup
            {[actor |-> q.user, target |-> q.target, action |-> q.action, at |-> q.at]}
    /\ matches' = IF MatchesWith(q) THEN matches \cup {pair} ELSE matches
    /\ announced' = [announced EXCEPT ![pair] = IF MatchesWith(q) THEN @ + 1 ELSE @]
    /\ request' = [request EXCEPT ![r] = None]
    /\ UNCHANGED <<account, now, userBlocks, userBoosts>>

\* LIKE_LIMIT_REACHED, SUPERLIKE_CREDITS_REQUIRED, a lost connection: rollback.
abortAction(r) ==
    /\ Holding(r)
    /\ request' = [request EXCEPT ![r] = None]
    /\ UNCHANGED <<accountVars, now, userLikes, matchActions, matches, userBlocks,
                   userBoosts, announced>>

-----------------------------------------------------------------------------
(* undoLastAction, activateBoost, blockUser *)

\* The open action with the latest createdAt, any of them on a tie.
LastActions(u) ==
    {x \in matchActions : x.actor = u /\ \A y \in matchActions : y.actor = u => y.at <= x.at}

\* Mutant: a matched action can be undone.
UndoableAlways(x) == PairKeyFree(x.actor, x.target)

Undoable(x) ==
    /\ PairKeyFree(x.actor, x.target)
    /\ {x.actor, x.target} \notin matches

\* Mutant: only a plain like takes the like row with it.
RevokedPlain(x) ==
    IF x.action = "like"
    THEN {l \in userLikes : l.liker = x.actor /\ l.liked = x.target} ELSE {}

Revoked(x) ==
    IF x.action \in Likes
    THEN {l \in userLikes : l.liker = x.actor /\ l.liked = x.target} ELSE {}

\* Mutant: any undone like returns a credit.
refundLike(x) ==
    IF x.action \in Likes THEN returnCredit(x.actor, "superlike")
    ELSE UNCHANGED <<credits, spent>>

refundSuperlike(x) ==
    IF x.action = "superlike" THEN returnCredit(x.actor, "superlike")
    ELSE UNCHANGED <<credits, spent>>

undoLastAction(u) ==
    /\ account[u] = "active" /\ UserKeyFree(u)
    /\ \E x \in LastActions(u) :
        /\ Undoable(x)
        /\ matchActions' = matchActions \ {x}
        /\ userLikes' = userLikes \ Revoked(x)
        /\ refundSuperlike(x)
    /\ UNCHANGED <<account, now, matches, userBlocks, userBoosts, request, announced>>

\* Mutant: only a boost that starts at the same instant is in the way.
NoActiveBoostSameStart(u, at) == ~ \E b \in userBoosts : b.user = u /\ b.startsAt = at

NoActiveBoost(u, at) == ~ \E b \in userBoosts : b.user = u /\ b.endsAt > at

\* The decrement locks the balance row, so activations follow one another;
\* each looks for an active boost at its own, possibly old, now.
activateBoost(u, at) ==
    /\ account[u] = "active"
    /\ at <= now /\ now - at <= MaxLag
    /\ NoActiveBoost(u, at)
    /\ spendCredit(u, "boost")
    /\ userBoosts' = userBoosts \cup
            {[user |-> u, startsAt |-> at, endsAt |-> at + BoostTime]}
    /\ UNCHANGED <<account, now, userLikes, matchActions, matches, userBlocks,
                   request, announced>>

\* No lock: a block can fall between the checks and the commit of a like.
blockUser(blocker, blocked) ==
    /\ blocker # blocked
    /\ Cardinality(userBlocks \cup {<<blocker, blocked>>}) <= MaxBlocks
    /\ userBlocks' = userBlocks \cup {<<blocker, blocked>>}
    /\ UNCHANGED <<accountVars, now, userLikes, matchActions, matches, userBoosts,
                   request, announced>>

-----------------------------------------------------------------------------
(* Account deletion, the part that concerns matching *)

\* No request outlives the 14 days between hiding and anonymizing.
Quiet(u) == \A r \in Requests : request[r] # None => u \notin {request[r].user, request[r].target}

deleteMatching(u) ==
    /\ Quiet(u)
    /\ userLikes' = {l \in userLikes : u \notin {l.liker, l.liked}}
    /\ matchActions' = {x \in matchActions : u \notin {x.actor, x.target}}
    /\ matches' = {p \in matches : u \notin p}
    /\ userBlocks' = {b \in userBlocks : u \notin {b[1], b[2]}}
    /\ userBoosts' = {b \in userBoosts : b.user # u}
    /\ UNCHANGED <<now, request, announced>>

-----------------------------------------------------------------------------
(* The specification; purchases are reduced to the credit they bring *)

buyCredit(u, k) ==
    /\ credits[u][k] + spent[u][k] < MaxCredits[u][k]
    /\ addCredits(u, [NoCredits EXCEPT ![k] = 1])
    /\ UNCHANGED <<account, matchingVars>>

Tick ==
    /\ now < MaxTime
    /\ now' = now + 1
    /\ UNCHANGED <<accountVars, userLikes, matchActions, matches, userBlocks,
                   userBoosts, request, announced>>

RequestArrives(r) ==
    \E c \in Candidates, choice \in Choices, limit \in Limits :
        likeUser(r, c[1], c[2], choice, limit)

RequestRuns(r) == checkCandidate(r) \/ commitAction(r) \/ abortAction(r)

UserStep(u) ==
    \/ undoLastAction(u)
    \/ \E at \in Times : activateBoost(u, at)
    \/ \E v \in Users : blockUser(u, v)

MatchingAccountStep(u) ==
    \/ (hideAccount(u) \/ restoreAccount(u)) /\ UNCHANGED matchingVars
    \/ closeAccount(u) /\ deleteMatching(u)

MatchingStep ==
    \/ Tick
    \/ \E r \in Requests : RequestRuns(r)
    \/ \E u \in Users : UserStep(u)

MatchingNext ==
    \/ MatchingStep
    \/ \E r \in Requests : RequestArrives(r)
    \/ \E u \in Leavers : MatchingAccountStep(u)
    \/ \E u \in Users, k \in CreditKinds : buyCredit(u, k)

MatchingSpec == MatchingInit /\ [][MatchingNext]_<<accountVars, matchingVars>>

-----------------------------------------------------------------------------
(* Properties *)

\* Two people are matched exactly when each has liked the other: reciprocal
\* likes that run at the same time never miss each other, and an undo never
\* leaves a match that one side took back.
MutualLikesMatched ==
    \A p \in Pairs :
        p \in matches <=> \A a, b \in p : a # b => HasLiked(a, b)

\* A pair is told of its match once, by whoever's like completes it.
MatchAnnouncedOnce == \A p \in Pairs : announced[p] <= 1

\* At most one action of an actor on a target is open, and the like row is
\* there exactly when that action is a like.
LikesFollowActions ==
    \A c \in Candidates :
        /\ Cardinality(OpenActions(c[1], c[2])) <= 1
        /\ HasLiked(c[1], c[2]) <=> \E x \in OpenActions(c[1], c[2]) : x.action \in Likes
        /\ Cardinality({l \in userLikes : l.liker = c[1] /\ l.liked = c[2]}) <= 1

\* A credit never buys boost time that is already paid for: the boosts of an
\* account do not overlap, late activations included.
BoostsDisjoint ==
    \A b, c \in userBoosts :
        b.user = c.user /\ b # c => b.endsAt <= c.startsAt \/ c.endsAt <= b.startsAt
=============================================================================

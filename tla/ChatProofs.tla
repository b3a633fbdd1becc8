------------------------------ MODULE ChatProofs ------------------------------
(***************************************************************************)
(* Proofs about Chat, for every number of members, sends, requests and     *)
(* messages and every page size.                                           *)
(*                                                                         *)
(* The invariant has two halves: SendInv is what the sends rely on, and    *)
(* ReadInv what the readers do.  Only a commit and a change of a message   *)
(* can disturb both, and neither ever moves a message that was sent.       *)
(***************************************************************************)
EXTENDS Chat, FiniteSetTheorems, TLAPS

\* createdAt is a time that has passed.
SentInPast ==
    /\ \A id \in Committed : messages[id].at <= now
    /\ \A r \in Requests : sending[r].step = "inserting" => sending[r].at <= now

\* A long text that may be sent has seen a message, and so follows a short one.
LongFollows ==
    \A r \in Requests :
        /\ sending[r].step = "beginning" /\ sending[r].what.text = "long" =>
             \E first \in Committed : messages[first].sent = "short"
        /\ sending[r].step = "inserting" /\ sending[r].what.text = "long" =>
             \E first \in Committed :
                 messages[first].sent = "short" /\ messages[first].at <= sending[r].at

\* FirstMessageShort of the texts as they were sent, which edits leave alone.
SentFollows ==
    \A id \in Committed : messages[id].sent = "long" =>
        \E first \in Committed :
            messages[first].sent = "short" /\ messages[first].at <= messages[id].at

KeysUnique ==
    \A u \in Members, key \in Keys : \A a, b \in WithKey(u, key) : a = b

\* A message has one request that announces it, the one that made it.
OneAnnounces ==
    \A id \in Ids : announcers[id] <= 1 /\ (announcers[id] # 0 => id \in Committed)

SendInv ==
    /\ SentInPast
    /\ LongFollows
    /\ KeysUnique
    /\ OneAnnounces
    /\ SentFollows

\* Cursors and the statements in flight name messages that were sent.
CursorsSound ==
    \A u \in Readers :
        /\ marking[u] \subseteq Committed
        /\ \/ view[u].low = None /\ view[u].high = None
           \/ view[u].low \in Committed /\ view[u].high \in Committed

ReadInv ==
    /\ CursorsSound
    /\ NoGapInHistory

ChatInv ==
    /\ TypeOK
    /\ SendInv
    /\ ReadInv
-----------------------------------------------------------------------------
(* Least elements *)

LEMMA LeastNat ==
  ASSUME NEW T, T \subseteq Nat, T # {}
  PROVE  \E m \in T : \A n \in T : m <= n
<1>1. \E m \in T : \A n \in T : ~ (<<n, m>> \in OpToRel(<, Nat))
  BY NatLessThanWellFounded, WFMin
<1>2. PICK m \in T : \A n \in T : ~ (<<n, m>> \in OpToRel(<, Nat))
  BY <1>1
<1>3. ASSUME NEW n \in T PROVE m <= n
  <2>1. n \in Nat /\ m \in Nat
    OBVIOUS
  <2>2. ~ (n < m)
    BY <1>2, <2>1 DEF OpToRel
  <2> QED
    BY <2>1, <2>2
<1> QED
  BY <1>3

LEMMA Bounds ==
  /\ MaxMessages \in Nat /\ MaxTime \in Nat /\ PageLimit \in Nat \ {0}
  /\ Ids \subseteq Nat /\ Times \subseteq Nat /\ None \notin Ids /\ None \notin Message
  /\ \A id \in Ids : MaxMessages - id \in Nat
  /\ \A t \in Times : MaxTime - t \in Nat
<1>1. /\ MaxMessages \in Nat /\ MaxTime \in Nat /\ PageLimit \in Nat \ {0}
      /\ None \notin Nat /\ None \notin Message
  BY ChatConstants
<1>2. Ids \subseteq Nat /\ \A id \in Ids : MaxMessages - id \in Nat
  BY <1>1 DEF Ids
<1>3. Times \subseteq Nat /\ \A t \in Times : MaxTime - t \in Nat
  BY <1>1 DEF Times
<1> QED
  BY <1>1, <1>2, <1>3

-----------------------------------------------------------------------------
(* The order of the messages *)

LEMMA MessageFacts ==
  ASSUME TypeOK
  PROVE  /\ Committed \subseteq Ids /\ Active \subseteq Committed
         /\ \A id \in Committed :
              /\ messages[id] \in Message
              /\ id \in Nat /\ messages[id].at \in Times /\ messages[id].at \in Nat
<1>1. Committed \subseteq Ids /\ Active \subseteq Committed
  BY DEF Committed, Active
<1>2. \A id \in Committed : messages[id] \in Message
  BY DEF Committed, TypeOK
<1>3. \A id \in Committed : messages[id].at \in Times
  BY <1>2 DEF Message
<1> QED
  BY <1>1, <1>2, <1>3, Bounds

LEMMA BelowMeans ==
  \A a, b : Below(a, b) <=>
      \/ messages[a].at < messages[b].at
      \/ messages[a].at = messages[b].at /\ a < b
  BY DEF Below, Earlier, Place

\* (createdAt, id) is a strict total order of the messages.
LEMMA BelowOrders ==
  ASSUME TypeOK
  PROVE  /\ \A a \in Committed : ~ Below(a, a)
         /\ \A a, b \in Committed : a = b \/ Below(a, b) \/ Below(b, a)
         /\ \A a, b, c \in Committed : Below(a, b) /\ Below(b, c) => Below(a, c)
         /\ \A a, b, c \in Committed : Below(a, b) /\ ~ Below(c, b) => Below(a, c)
         /\ \A a, b, c \in Committed : ~ Below(b, a) /\ Below(b, c) => Below(a, c)
<1>1. \A id \in Committed : id \in Nat /\ messages[id].at \in Nat
  BY MessageFacts
<1> DEFINE L(a, b) == messages[a].at < messages[b].at \/ (messages[a].at = messages[b].at /\ a < b)
<1>2. \A a, b : Below(a, b) <=> L(a, b)
  BY BelowMeans
<1>3. /\ \A a \in Committed : ~ L(a, a)
      /\ \A a, b \in Committed : a = b \/ L(a, b) \/ L(b, a)
  BY <1>1
<1>4. ASSUME NEW a \in Committed, NEW b \in Committed, NEW c \in Committed, L(a, b), L(b, c)
      PROVE  L(a, c)
  <2>1. /\ a \in Nat /\ b \in Nat /\ c \in Nat
        /\ messages[a].at \in Nat /\ messages[b].at \in Nat /\ messages[c].at \in Nat
    BY <1>1
  <2> QED
    BY <1>4, <2>1
<1> HIDE DEF L
<1> QED
  BY <1>2, <1>3, <1>4

\* So every set of messages has a lowest and a highest one.
LEMMA LowestExists ==
  ASSUME TypeOK, NEW S, S \subseteq Committed, S # {}
  PROVE  Lowest(S) \in S /\ \A other \in S : ~ Below(other, Lowest(S))
<1>1. \A id \in S : id \in Nat /\ messages[id].at \in Nat
  BY MessageFacts
<1>2. PICK t \in {messages[id].at : id \in S} : \A n \in {messages[id].at : id \in S} : t <= n
  <2>1. {messages[id].at : id \in S} \subseteq Nat /\ {messages[id].at : id \in S} # {}
    BY <1>1
  <2> QED
    BY <2>1, LeastNat
<1> DEFINE T == {id \in S : messages[id].at = t}
<1>3. PICK m \in T : \A n \in T : m <= n
  <2>1. T \subseteq Nat /\ T # {}
    BY <1>1, <1>2
  <2> HIDE DEF T
  <2> QED
    BY <2>1, LeastNat
<1>4. ASSUME NEW other \in S PROVE ~ Below(other, m)
  <2>1. t <= messages[other].at /\ messages[m].at = t /\ m \in S
    BY <1>2, <1>3
  <2>2. messages[other].at = t => m <= other
    BY <1>3
  <2> HIDE DEF T
  <2> QED
    BY <1>1, <2>1, <2>2, BelowMeans
<1>5. \E id \in S : \A other \in S : ~ Below(other, id)
  BY <1>3, <1>4
<1> QED
  BY <1>5 DEF Lowest

LEMMA HighestExists ==
  ASSUME TypeOK, NEW S, S \subseteq Committed, S # {}
  PROVE  Highest(S) \in S /\ \A other \in S : ~ Below(Highest(S), other)
<1>1. \A id \in S : /\ id \in Ids /\ messages[id].at \in Times
                    /\ id \in Nat /\ messages[id].at \in Nat
                    /\ MaxMessages - id \in Nat /\ MaxTime - messages[id].at \in Nat
  BY MessageFacts, Bounds
<1> DEFINE U == {MaxTime - messages[id].at : id \in S}
<1>2. PICK t \in U : \A n \in U : t <= n
  <2>1. U \subseteq Nat /\ U # {}
    BY <1>1
  <2> HIDE DEF U
  <2> QED
    BY <2>1, LeastNat
<1> DEFINE T == {MaxMessages - id : id \in {m \in S : MaxTime - messages[m].at = t}}
<1>3. PICK k \in T : \A n \in T : k <= n
  <2>1. T \subseteq Nat /\ T # {}
    BY <1>1, <1>2
  <2> HIDE DEF T
  <2> QED
    BY <2>1, LeastNat
<1>4. PICK m \in S : MaxTime - messages[m].at = t /\ k = MaxMessages - m
  BY <1>3
<1>5. ASSUME NEW other \in S PROVE ~ Below(m, other)
  <2>1. t <= MaxTime - messages[other].at
    BY <1>2
  <2>2. MaxTime - messages[other].at = t => k <= MaxMessages - other
    BY <1>3
  <2> QED
    BY <1>1, <1>4, <2>1, <2>2, BelowMeans, Bounds
<1>6. \E id \in S : \A other \in S : ~ Below(id, other)
  BY <1>4, <1>5
<1> QED
  BY <1>6 DEF Highest

\* A message that is there keeps its place, its sender, its key and the text it was sent with.
Frozen ==
    \A id \in Committed :
        /\ messages'[id] # None
        /\ messages'[id].at = messages[id].at
        /\ messages'[id].sender = messages[id].sender
        /\ messages'[id].key = messages[id].key
        /\ messages'[id].sent = messages[id].sent

LEMMA FrozenFacts ==
  ASSUME Frozen
  PROVE  /\ Committed \subseteq Committed'
         /\ \A a, b \in Committed : Below(a, b)' <=> Below(a, b)
         /\ \A v, place : v.low \in Committed /\ v.high \in Committed =>
              (Covers(v, place)' <=> Covers(v, place))
<1>1. Committed \subseteq Committed'
  BY DEF Frozen, Committed
<1>2. \A a, b \in Committed : Below(a, b)' <=> Below(a, b)
  BY DEF Frozen, Below, Earlier, Place
<1>3. \A id \in Committed : Place(id)' = Place(id)
  BY DEF Frozen, Place
<1>4. \A v, place : v.low \in Committed /\ v.high \in Committed =>
        (Covers(v, place)' <=> Covers(v, place))
  BY <1>3 DEF Covers, Earlier
<1> QED
  BY <1>1, <1>2, <1>4

\* Steps that leave the messages alone.
LEMMA MessagesSame ==
  ASSUME UNCHANGED <<messages, removed>>
  PROVE  /\ Frozen /\ Committed' = Committed /\ Active' = Active
         /\ \A u, key : WithKey(u, key)' = WithKey(u, key)
         /\ \A a, b : Below(a, b)' <=> Below(a, b)
         /\ \A id : Place(id)' = Place(id)
         /\ \A v, place : Covers(v, place)' <=> Covers(v, place)
  BY DEF Frozen, Committed, Active, WithKey, Below, Place, Covers

-----------------------------------------------------------------------------
(* The halves of the invariant and the variables each reads *)

LEMMA SendInvSame ==
  ASSUME SendInv, UNCHANGED <<now, messages, removed, sending, announcers>>
  PROVE  SendInv'
  BY MessagesSame DEF SendInv, SentInPast, LongFollows, KeysUnique, OneAnnounces, SentFollows

LEMMA ReadInvSame ==
  ASSUME ReadInv, UNCHANGED <<messages, removed, receipt, marking, view>>
  PROVE  ReadInv'
  BY MessagesSame DEF ReadInv, CursorsSound, NoGapInHistory

LEMMA SendingFacts ==
  ASSUME NEW q \in SendStep
  PROVE  /\ q.step \in {"idle", "counting", "beginning", "inserting", "announcing"}
         /\ q.step \in {"counting", "beginning", "inserting"} =>
              /\ q.what \in Sends /\ q.what.user \in Members
              /\ q.what.key \in Keys \cup {None} /\ q.what.text \in Texts
         /\ q.step = "inserting" => q.at \in Times
         /\ q.step = "announcing" => q.id \in Ids
<1>1. \A w \in Sends : w.user \in Members /\ w.key \in Keys \cup {None} /\ w.text \in Texts
  BY ChatConstants
<1> QED
  BY <1>1 DEF SendStep, Idle

-----------------------------------------------------------------------------
(* Sending *)

\* A request that moves on and touches no row.
LEMMA SendMoves ==
  ASSUME ChatInv, NEW r \in Requests, NEW q \in SendStep, Step(r, q), q.step # "announcing",
         UNCHANGED <<now, messages, removed, receipt, marking, announcers, view>>,
         q.step = "inserting" => q.at <= now,
         q.step = "beginning" /\ q.what.text = "long" =>
             \E first \in Committed : messages[first].sent = "short",
         q.step = "inserting" /\ q.what.text = "long" =>
             \E first \in Committed : messages[first].sent = "short" /\ messages[first].at <= q.at
  PROVE  ChatInv'
<1>1. TypeOK'
  BY DEF ChatInv, TypeOK, Step
<1>2. \A s \in Requests : sending'[s] = IF s = r THEN q ELSE sending[s]
  BY DEF ChatInv, TypeOK, Step
<1>3. SentInPast' /\ LongFollows' /\ OneAnnounces'
  BY <1>2, MessagesSame DEF ChatInv, SendInv, SentInPast, LongFollows, OneAnnounces
<1>4. KeysUnique' /\ SentFollows'
  BY MessagesSame DEF ChatInv, SendInv, KeysUnique, SentFollows
<1>5. ReadInv'
  BY ReadInvSame DEF ChatInv
<1> QED
  BY <1>1, <1>3, <1>4, <1>5 DEF ChatInv, SendInv

LEMMA IdleSend == Idle \in SendStep /\ Idle.step = "idle"
  BY DEF SendStep, Idle

LEMMA AskKeeps ==
  ASSUME ChatInv, NEW r \in Requests, NEW what \in Sends, sendMessage(r, what)
  PROVE  ChatInv'
<1> DEFINE q == [step |-> "counting", what |-> what]
<1>1. q \in SendStep /\ q.step = "counting"
  BY DEF SendStep
<1>2. Step(r, q) /\ UNCHANGED <<now, messages, removed, receipt, marking, announcers, view>>
  BY DEF sendMessage
<1> HIDE DEF q
<1> QED
  BY <1>1, <1>2, SendMoves

\* Any message the count saw is short or follows a short one.
LEMMA CountKeeps ==
  ASSUME ChatInv, NEW r \in Requests, activeMessageCount(r) PROVE ChatInv'
<1>1. PICK o \in SendStep : o = sending[r] /\ o.step = "counting"
  BY DEF ChatInv, TypeOK, activeMessageCount
<1> DEFINE q == [o EXCEPT !.step = "beginning"]
<1>2. q \in SendStep /\ q.step = "beginning" /\ q.what = o.what
  <2>1. o \in [step : {"counting", "beginning"}, what : Sends]
    BY <1>1 DEF SendStep, Idle
  <2> QED
    BY <2>1 DEF SendStep
<1>3. MayFollow(o.what) => (o.what.text = "long" =>
        \E first \in Committed : messages[first].sent = "short")
  <2> SUFFICES ASSUME NEW id \in Active, o.what.text = "long"
               PROVE  \E first \in Committed : messages[first].sent = "short"
    BY DEF MayFollow
  <2>1. id \in Committed /\ messages[id].sent \in Texts
    BY MessageFacts DEF ChatInv, Message
  <2> QED
    BY <2>1 DEF ChatInv, SendInv, SentFollows, Texts
<1>4. /\ Step(r, IF MayFollow(o.what) THEN q ELSE Idle)
      /\ UNCHANGED <<now, messages, removed, receipt, marking, announcers, view>>
  BY <1>1 DEF activeMessageCount, Step
<1> HIDE DEF q
<1>5. CASE MayFollow(o.what)
  BY <1>2, <1>3, <1>4, <1>5, SendMoves DEF Step
<1>6. CASE ~ MayFollow(o.what)
  BY <1>4, <1>6, IdleSend, SendMoves DEF Step
<1> QED
  BY <1>5, <1>6

LEMMA BeginKeeps ==
  ASSUME ChatInv, NEW r \in Requests, beginMessage(r) PROVE ChatInv'
<1>1. PICK o \in SendStep : o = sending[r] /\ o.step = "beginning"
  BY DEF ChatInv, TypeOK, beginMessage
<1> DEFINE q == [step |-> "inserting", what |-> o.what, at |-> now]
<1>2. q \in SendStep /\ q.step = "inserting" /\ q.what = o.what /\ q.at = now
  BY <1>1, SendingFacts DEF SendStep, ChatInv, TypeOK
<1>3. now <= now
  BY Bounds DEF ChatInv, TypeOK
<1>4. o.what.text = "long" =>
        \E first \in Committed : messages[first].sent = "short" /\ messages[first].at <= now
  BY <1>1 DEF ChatInv, SendInv, LongFollows, SentInPast
<1>5. Step(r, q) /\ UNCHANGED <<now, messages, removed, receipt, marking, announcers, view>>
  BY <1>1 DEF beginMessage, Step
<1> HIDE DEF q
<1> QED
  BY <1>2, <1>3, <1>4, <1>5, SendMoves

LEMMA AbandonKeeps ==
  ASSUME ChatInv, NEW r \in Requests, abandon(r) PROVE ChatInv'
  BY IdleSend, SendMoves DEF abandon, End

LEMMA PublishKeeps ==
  ASSUME ChatInv, NEW r \in Requests, publishMessageEvent(r) PROVE ChatInv'
  BY IdleSend, SendMoves DEF publishMessageEvent, End

\* What a step that freezes the messages keeps of the requests' invariant,
\* given the requests that are not announcing.
LEMMA FrozenKeepsSends ==
  ASSUME ChatInv, Frozen, UNCHANGED now,
         \A s \in Requests : sending'[s] = sending[s] \/ sending'[s].step \in {"idle", "announcing"},
         \A id \in Committed' \ Committed :
             /\ messages'[id].at <= now
             /\ messages'[id].sent = "long" =>
                  \E first \in Committed :
                      messages[first].sent = "short" /\ messages[first].at <= messages'[id].at
  PROVE  SentInPast' /\ LongFollows' /\ SentFollows'
<1>1. Committed \subseteq Committed'
  BY FrozenFacts
<1>2. SentInPast'
  BY <1>1 DEF ChatInv, SendInv, SentInPast, Frozen
<1>3. LongFollows'
  <2> SUFFICES ASSUME NEW s \in Requests
               PROVE  /\ sending'[s].step = "beginning" /\ sending'[s].what.text = "long" =>
                           \E first \in Committed' : messages'[first].sent = "short"
                      /\ sending'[s].step = "inserting" /\ sending'[s].what.text = "long" =>
                           \E first \in Committed' :
                               messages'[first].sent = "short" /\ messages'[first].at <= sending'[s].at
    BY DEF LongFollows
  <2>1. CASE sending'[s] = sending[s]
    BY <1>1, <2>1 DEF ChatInv, SendInv, LongFollows, Frozen
  <2>2. CASE sending'[s].step \in {"idle", "announcing"}
    BY <2>2
  <2> QED
    BY <2>1, <2>2
<1>4. SentFollows'
  <2> SUFFICES ASSUME NEW id \in Committed', messages'[id].sent = "long"
               PROVE  \E first \in Committed' :
                          messages'[first].sent = "short" /\ messages'[first].at <= messages'[id].at
    BY DEF SentFollows
  <2>1. \E first \in Committed :
          messages[first].sent = "short" /\ messages[first].at <= messages'[id].at
    BY DEF ChatInv, SendInv, SentFollows, Frozen
  <2> QED
    BY <1>1, <2>1 DEF Frozen
<1> QED
  BY <1>2, <1>3, <1>4

LEMMA CommitKeeps ==
  ASSUME ChatInv, NEW r \in Requests, sending[r].step = "inserting",
         NEW id \in Ids \ Committed, NEW what \in Sends, NEW at \in Times,
         what = sending[r].what, at = sending[r].at,
         Same(what) = {},
         messages' = [messages EXCEPT ![id] =
             [sender |-> what.user, key |-> what.key, text |-> what.text,
              sent |-> what.text, at |-> at, deleted |-> FALSE]],
         view' = [u \in Readers |->
             IF Covers(view[u], <<at, id>>)
             THEN [view[u] EXCEPT !.late = @ \cup {id}] ELSE view[u]],
         Step(r, [step |-> "announcing", id |-> id]),
         announcers' = [announcers EXCEPT ![id] = @ + 1],
         UNCHANGED <<now, removed, receipt, marking>>
  PROVE  ChatInv'
<1>t. TypeOK
  BY DEF ChatInv
<1> DEFINE m == [sender |-> what.user, key |-> what.key, text |-> what.text,
                 sent |-> what.text, at |-> at, deleted |-> FALSE]
<1>w. what.user \in Members /\ what.key \in Keys \cup {None} /\ what.text \in Texts
  BY ChatConstants
<1>m. /\ m \in Message
      /\ m.sender = what.user /\ m.key = what.key /\ m.sent = what.text
      /\ m.at = at /\ m.deleted = FALSE
  BY <1>w DEF Message
<1> HIDE DEF m
<1>n. m # None
  BY <1>m, Bounds
<1>1. /\ messages' \in [Ids -> Message \cup {None}]
      /\ \A i \in Ids : messages'[i] = IF i = id THEN m ELSE messages[i]
  BY <1>t, <1>m DEF TypeOK, m
<1>2. /\ Committed' = Committed \cup {id} /\ Active' = Active \cup {id}
      /\ Frozen
  BY <1>1, <1>m, <1>n DEF Committed, Active, Frozen
<1> DEFINE q == [step |-> "announcing", id |-> id]
<1>q. q \in SendStep /\ q.step = "announcing" /\ q.id = id
  BY DEF SendStep
<1> HIDE DEF q
<1>3. /\ sending' \in [Requests -> SendStep]
      /\ \A s \in Requests : sending'[s] = IF s = r THEN q ELSE sending[s]
  BY <1>t, <1>q DEF TypeOK, Step, q
<1>a. /\ announcers' \in [Ids -> Nat]
      /\ \A i \in Ids : announcers'[i] = IF i = id THEN announcers[i] + 1 ELSE announcers[i]
  BY <1>t DEF TypeOK
<1>4. ASSUME NEW u \in Readers
      PROVE  /\ view'[u] \in View
             /\ view'[u].low = view[u].low /\ view'[u].high = view[u].high
             /\ view'[u].seen = view[u].seen /\ view[u].late \subseteq view'[u].late
             /\ Covers(view[u], <<at, id>>) => id \in view'[u].late
  <2>1. view[u] \in View
    BY <1>t DEF TypeOK
  <2> QED
    BY <2>1 DEF View
<1>5. TypeOK'
  <2>1. view' \in [Readers -> View]
    BY <1>4
  <2> QED
    BY <1>t, <1>1, <1>3, <1>a, <2>1 DEF TypeOK
<1>6. SentInPast' /\ LongFollows' /\ SentFollows'
  <2>1. /\ at <= now
        /\ what.text = "long" =>
             \E first \in Committed : messages[first].sent = "short" /\ messages[first].at <= at
    BY DEF ChatInv, SendInv, SentInPast, LongFollows
  <2>2. messages'[id] = m /\ Committed' \ Committed = {id}
    BY <1>1, <1>2
  <2>3. \A s \in Requests : sending'[s] = sending[s] \/ sending'[s].step \in {"idle", "announcing"}
    BY <1>3, <1>q
  <2> QED
    BY <1>m, <1>2, <2>1, <2>2, <2>3, FrozenKeepsSends
<1>7. KeysUnique'
  <2> SUFFICES ASSUME NEW u \in Members, NEW key \in Keys,
                      NEW a \in WithKey(u, key)', NEW b \in WithKey(u, key)'
               PROVE  a = b
    BY DEF KeysUnique
  <2>1. WithKey(u, key)' \subseteq WithKey(u, key) \cup (IF what.user = u /\ what.key = key THEN {id} ELSE {})
    BY <1>1, <1>2, <1>m DEF WithKey, Committed
  <2>2. what.user = u /\ what.key = key => WithKey(u, key) = {}
    BY ChatConstants DEF Same
  <2> QED
    BY <2>1, <2>2 DEF ChatInv, SendInv, KeysUnique
<1>8. OneAnnounces'
  <2>1. announcers[id] = 0
    BY <1>t DEF ChatInv, SendInv, OneAnnounces, TypeOK
  <2> QED
    BY <1>2, <1>a, <2>1 DEF ChatInv, SendInv, OneAnnounces
<1>9. CursorsSound'
  BY <1>2, <1>4 DEF ChatInv, ReadInv, CursorsSound
<1>10. NoGapInHistory'
  <2> SUFFICES ASSUME NEW u \in Readers, NEW a \in Active', Covers(view[u], Place(a))'
               PROVE  a \in view'[u].seen \cup view'[u].late
    BY DEF NoGapInHistory, Covers
  <2>1. view[u].low \in Committed /\ view[u].high \in Committed
    BY <1>4, Bounds DEF ChatInv, ReadInv, CursorsSound, Covers
  <2>p. PICK low \in Committed, high \in Committed : low = view[u].low /\ high = view[u].high
    BY <2>1
  <2>f. low # None /\ Place(low)' = Place(low) /\ Place(high)' = Place(high)
    BY <1>2, <2>1, MessageFacts, Bounds DEF Place, Frozen, Committed
  <2>e. ~ Earlier(Place(a)', Place(low)') /\ ~ Earlier(Place(high)', Place(a)')
    BY <1>4, <2>p DEF Covers, Earlier
  <2>2. Covers(view[u], Place(a)')
    BY <2>p, <2>f, <2>e DEF Covers
  <2>3. CASE a = id
    <3>1. Place(a)' = <<at, id>>
      BY <1>1, <1>m, <2>3 DEF Place
    <3> QED
      BY <1>4, <2>2, <2>3, <3>1
  <2>4. CASE a # id
    <3>1. a \in Active /\ Place(a)' = Place(a)
      BY <1>1, <1>2, <2>4 DEF Place, Active, Committed
    <3> QED
      BY <1>4, <2>2, <3>1 DEF ChatInv, ReadInv, NoGapInHistory
  <2> QED
    BY <2>3, <2>4
<1> QED
  BY <1>5, <1>6, <1>7, <1>8, <1>9, <1>10 DEF ChatInv, SendInv, ReadInv

\* The transaction commits a new row, or answers with the row that has its key.
LEMMA CreateKeeps ==
  ASSUME ChatInv, NEW r \in Requests, createMessage(r) PROVE ChatInv'
<1>1. PICK o \in SendStep : o = sending[r] /\ o.step = "inserting"
  BY DEF ChatInv, TypeOK, createMessage
<1>2. PICK what \in Sends, at \in Times : what = o.what /\ at = o.at
  BY <1>1, SendingFacts
<1> DEFINE Commits(id) ==
             /\ Same(what) = {}
             /\ messages' = [messages EXCEPT ![id] =
                  [sender |-> what.user, key |-> what.key, text |-> what.text,
                   sent |-> what.text, at |-> at, deleted |-> FALSE]]
             /\ view' = [u \in Readers |->
                  IF Covers(view[u], <<at, id>>)
                  THEN [view[u] EXCEPT !.late = @ \cup {id}] ELSE view[u]]
             /\ Step(r, [step |-> "announcing", id |-> id])
             /\ announcers' = [announcers EXCEPT ![id] = @ + 1]
<1>3. \/ \E id \in Ids \ Committed : Commits(id)
      \/ Step(r, Idle) /\ UNCHANGED <<messages, announcers, view>>
  BY <1>1, <1>2, IdleSend DEF createMessage, Enter, Replayed, Same
<1>4. UNCHANGED <<now, removed, receipt, marking>>
  BY DEF createMessage
<1>5. CASE Step(r, Idle) /\ UNCHANGED <<messages, announcers, view>>
  BY <1>4, <1>5, IdleSend, SendMoves
<1>6. ASSUME NEW id \in Ids \ Committed, Commits(id) PROVE ChatInv'
  <2>1. sending[r].step = "inserting" /\ what = sending[r].what /\ at = sending[r].at
    BY <1>1, <1>2
  <2> QED
    BY <1>4, <1>6, <2>1, CommitKeeps
<1> QED
  BY <1>3, <1>5, <1>6

\* A message that is changed keeps its place, its key and the text it was
\* sent with, and none comes back.
LEMMA ChangeKeeps ==
  ASSUME ChatInv, NEW id \in Committed, NEW m \in Message,
         messages' = [messages EXCEPT ![id] = m],
         m.at = messages[id].at, m.sender = messages[id].sender, m.key = messages[id].key,
         m.sent = messages[id].sent, messages[id].deleted => m.deleted,
         removed \subseteq removed', removed' \subseteq Ids,
         receipt' \in [Readers -> Receipt \cup {None}],
         UNCHANGED <<now, sending, marking, announcers, view>>
  PROVE  ChatInv' /\ Frozen
<1>t. TypeOK
  BY DEF ChatInv
<1>n. m # None /\ id \in Ids
  BY Bounds DEF Committed
<1>1. /\ messages' \in [Ids -> Message \cup {None}]
      /\ \A i \in Ids : messages'[i] = IF i = id THEN m ELSE messages[i]
  BY <1>t, <1>n DEF TypeOK
<1>2. Committed' = Committed
  BY <1>n, <1>1 DEF Committed
<1>3. Active' \subseteq Active
  BY <1>1, <1>2 DEF Active, Committed
<1>4. Frozen
  BY <1>1, <1>n DEF Frozen, Committed
<1>5. TypeOK'
  BY <1>t, <1>1 DEF TypeOK
<1>6. SentInPast' /\ LongFollows' /\ SentFollows'
  BY <1>2, <1>4, FrozenKeepsSends
<1>7. KeysUnique'
  <2>1. \A u, key : WithKey(u, key)' \subseteq WithKey(u, key)
    BY <1>2, <1>4 DEF WithKey, Frozen
  <2> QED
    BY <2>1 DEF ChatInv, SendInv, KeysUnique
<1>8. OneAnnounces'
  BY <1>2 DEF ChatInv, SendInv, OneAnnounces
<1>9. CursorsSound'
  BY <1>2 DEF ChatInv, ReadInv, CursorsSound
<1>10. NoGapInHistory'
  <2> SUFFICES ASSUME NEW u \in Readers, NEW a \in Active', Covers(view[u], Place(a))'
               PROVE  a \in view[u].seen \cup view[u].late
    BY DEF NoGapInHistory
  <2>1. PICK v \in View : v = view[u]
    BY <1>t DEF TypeOK
  <2>2. Covers(v, Place(a))'
    BY <2>1 DEF Covers
  <2>3. v.low \in Committed /\ v.high \in Committed
    BY <2>1, <2>2, Bounds DEF ChatInv, ReadInv, CursorsSound, Covers
  <2>4. a \in Active /\ a \in Committed /\ Place(a)' = Place(a)
    BY <1>3, <1>4, <1>t, MessageFacts DEF Place, Frozen
  <2>5. Covers(v, Place(a))
    BY <1>4, <2>2, <2>3, <2>4, FrozenFacts
  <2> QED
    BY <2>1, <2>4, <2>5 DEF ChatInv, ReadInv, NoGapInHistory
<1> QED
  BY <1>4, <1>5, <1>6, <1>7, <1>8, <1>9, <1>10 DEF ChatInv, SendInv, ReadInv

LEMMA EditKeeps ==
  ASSUME ChatInv, NEW id \in Ids, NEW text \in Texts, editMessage(id, text)
  PROVE  ChatInv' /\ Frozen
<1>t. TypeOK
  BY DEF ChatInv
<1>1. id \in Committed /\ messages[id] \in Message
  BY <1>t, MessageFacts DEF editMessage
<1>2. PICK m : m = [messages[id] EXCEPT !.text = text]
  OBVIOUS
<1>3. /\ m \in Message /\ m.deleted = messages[id].deleted
      /\ m.at = messages[id].at /\ m.sender = messages[id].sender
      /\ m.key = messages[id].key /\ m.sent = messages[id].sent
  BY <1>1, <1>2 DEF Message
<1>4. messages' = [messages EXCEPT ![id] = m]
  BY <1>2 DEF editMessage
<1>5. /\ UNCHANGED <<now, removed, receipt, sending, marking, announcers, view>>
      /\ receipt' \in [Readers -> Receipt \cup {None}] /\ removed' \subseteq Ids
  BY <1>t DEF editMessage, TypeOK
<1> QED
  BY <1>1, <1>3, <1>4, <1>5, ChangeKeeps

LEMMA DeletedFacts ==
  ASSUME TypeOK, NEW id \in Committed
  PROVE  \E m \in Message :
           /\ m = [messages[id] EXCEPT !.deleted = TRUE]
           /\ m.at = messages[id].at /\ m.sender = messages[id].sender
           /\ m.key = messages[id].key /\ m.sent = messages[id].sent /\ m.deleted
<1>1. messages[id] \in Message
  BY MessageFacts
<1>2. PICK m : m = [messages[id] EXCEPT !.deleted = TRUE]
  OBVIOUS
<1>3. /\ m \in Message
      /\ m.at = messages[id].at /\ m.sender = messages[id].sender
      /\ m.key = messages[id].key /\ m.sent = messages[id].sent /\ m.deleted
  BY <1>1, <1>2 DEF Message
<1> QED
  BY <1>2, <1>3

LEMMA DeleteKeeps ==
  ASSUME ChatInv, NEW id \in Ids, deleteMessage(id) PROVE ChatInv' /\ Frozen
<1>t. TypeOK
  BY DEF ChatInv
<1>1. id \in Committed
  BY <1>t, MessageFacts DEF deleteMessage
<1>2. PICK m \in Message :
        /\ m = [messages[id] EXCEPT !.deleted = TRUE]
        /\ m.at = messages[id].at /\ m.sender = messages[id].sender
        /\ m.key = messages[id].key /\ m.sent = messages[id].sent /\ m.deleted
  BY <1>t, <1>1, DeletedFacts
<1>3. messages' = [messages EXCEPT ![id] = m]
  BY <1>2 DEF deleteMessage
<1>4. /\ UNCHANGED <<now, removed, receipt, sending, marking, announcers, view>>
      /\ receipt' \in [Readers -> Receipt \cup {None}] /\ removed' \subseteq Ids
  BY <1>t DEF deleteMessage, TypeOK
<1> QED
  BY <1>1, <1>2, <1>3, <1>4, ChangeKeeps

\* The receipts that pointed at the row forget it.
LEMMA RemoveKeeps ==
  ASSUME ChatInv, NEW id \in Ids, removeMessage(id)
  PROVE  /\ ChatInv' /\ Frozen
         /\ \A u \in Readers : receipt'[u] = Forgets(receipt[u], id)
<1>t. TypeOK
  BY DEF ChatInv
<1>1. id \in Committed
  BY DEF removeMessage
<1>2. PICK m \in Message :
        /\ m = [messages[id] EXCEPT !.deleted = TRUE]
        /\ m.at = messages[id].at /\ m.sender = messages[id].sender
        /\ m.key = messages[id].key /\ m.sent = messages[id].sent /\ m.deleted
  BY <1>t, <1>1, DeletedFacts
<1>3. messages' = [messages EXCEPT ![id] = m]
  BY <1>2 DEF removeMessage
<1>4. /\ UNCHANGED <<now, sending, marking, announcers, view>>
      /\ removed \subseteq removed' /\ removed' \subseteq Ids
  BY <1>t DEF removeMessage, TypeOK
<1>5. \A u \in Readers : receipt'[u] = Forgets(receipt[u], id)
  BY DEF removeMessage
<1>6. receipt' \in [Readers -> Receipt \cup {None}]
  <2> SUFFICES ASSUME NEW u \in Readers PROVE Forgets(receipt[u], id) \in Receipt \cup {None}
    BY DEF removeMessage
  <2>1. PICK old \in Receipt \cup {None} : old = receipt[u]
    BY <1>t DEF TypeOK
  <2>2. old # None => [old EXCEPT !.id = None] \in Receipt
    BY DEF Receipt
  <2> QED
    BY <2>1, <2>2 DEF Forgets
<1> QED
  BY <1>1, <1>2, <1>3, <1>4, <1>5, <1>6, ChangeKeeps

LEMMA TickKeeps ==
  ASSUME ChatInv, Tick PROVE ChatInv'
<1>1. now \in Nat /\ now' \in Times /\ now <= now'
  BY ChatConstants DEF ChatInv, TypeOK, Tick, Times
<1>s. UNCHANGED <<messages, removed, receipt, sending, marking, announcers, view>>
  BY DEF Tick
<1>2. TypeOK'
  BY <1>1, <1>s DEF ChatInv, TypeOK
<1>3. SentInPast'
  <2>1. Committed' = Committed
    BY <1>s DEF Committed
  <2>2. \A id \in Committed : messages[id].at <= now'
    BY <1>1, Bounds, MessageFacts DEF ChatInv, SendInv, SentInPast
  <2>3. \A r \in Requests : sending[r].step = "inserting" => sending[r].at <= now'
    <3> SUFFICES ASSUME NEW r \in Requests, sending[r].step = "inserting"
                 PROVE  sending[r].at <= now'
      OBVIOUS
    <3>1. sending[r].at \in Times
      BY SendingFacts DEF ChatInv, TypeOK
    <3>2. sending[r].at <= now
      BY DEF ChatInv, SendInv, SentInPast
    <3>3. now' \in Nat /\ sending[r].at \in Nat
      BY <1>1, <3>1, Bounds
    <3> QED
      BY <1>1, <3>2, <3>3
  <2> QED
    BY <1>s, <2>1, <2>2, <2>3 DEF SentInPast
<1>4. LongFollows' /\ KeysUnique' /\ OneAnnounces' /\ SentFollows'
  BY <1>s, MessagesSame DEF ChatInv, SendInv, LongFollows, KeysUnique, OneAnnounces, SentFollows
<1>5. ReadInv'
  BY <1>s, ReadInvSame DEF ChatInv
<1> QED
  BY <1>2, <1>3, <1>4, <1>5 DEF ChatInv, SendInv

-----------------------------------------------------------------------------
(* Reading *)

\* A page has every message of its set on its near side.
LEMMA FirstOfDown ==
  ASSUME TypeOK, NEW S, S \subseteq Committed, NEW h \in FirstOf(S), NEW id \in S, ~ Below(h, id)
  PROVE  id \in FirstOf(S)
<1> DEFINE P == {other \in S : Below(other, id)}
           Q == {other \in S : Below(other, h)}
<1>1. h \in S /\ Cardinality(Q) < PageLimit
  BY DEF FirstOf
<1>2. P \subseteq Q
  <2> SUFFICES ASSUME NEW other \in S, Below(other, id) PROVE Below(other, h)
    OBVIOUS
  <2> QED
    BY <1>1, BelowOrders
<1>3. IsFiniteSet(Q)
  <2>1. IsFiniteSet(Ids)
    BY Bounds, FS_Interval DEF Ids
  <2> QED
    BY <2>1, MessageFacts, FS_Subset
<1> HIDE DEF P, Q
<1>4. Cardinality(P) \in Nat /\ Cardinality(Q) \in Nat /\ Cardinality(P) <= Cardinality(Q)
  BY <1>2, <1>3, FS_Subset, FS_CardinalityType
<1> QED
  BY <1>1, <1>4, Bounds DEF FirstOf, P

LEMMA LastOfUp ==
  ASSUME TypeOK, NEW S, S \subseteq Committed, NEW l \in LastOf(S), NEW id \in S, ~ Below(id, l)
  PROVE  id \in LastOf(S)
<1> DEFINE P == {other \in S : Below(id, other)}
           Q == {other \in S : Below(l, other)}
<1>1. l \in S /\ Cardinality(Q) < PageLimit
  BY DEF LastOf
<1>2. P \subseteq Q
  <2> SUFFICES ASSUME NEW other \in S, Below(id, other) PROVE Below(l, other)
    OBVIOUS
  <2> QED
    BY <1>1, BelowOrders
<1>3. IsFiniteSet(Q)
  <2>1. IsFiniteSet(Ids)
    BY Bounds, FS_Interval DEF Ids
  <2> QED
    BY <2>1, MessageFacts, FS_Subset
<1> HIDE DEF P, Q
<1>4. Cardinality(P) \in Nat /\ Cardinality(Q) \in Nat /\ Cardinality(P) <= Cardinality(Q)
  BY <1>2, <1>3, FS_Subset, FS_CardinalityType
<1> QED
  BY <1>1, <1>4, Bounds DEF LastOf, P

\* The newest messages include the newest one.
LEMMA NewestOnPage ==
  ASSUME TypeOK, Active # {} PROVE LastOf(Active) # {}
<1>1. Highest(Active) \in Active /\ \A other \in Active : ~ Below(Highest(Active), other)
  BY MessageFacts, HighestExists
<1>2. {other \in Active : Below(Highest(Active), other)} = {}
  BY <1>1
<1>3. Cardinality({other \in Active : Below(Highest(Active), other)}) < PageLimit
  BY <1>2, Bounds, FS_EmptySet
<1> QED
  BY <1>1, <1>3 DEF LastOf

\* A client whose cursors move: what its new pages must show.
LEMMA ViewMoves ==
  ASSUME ChatInv, NEW u \in Readers, NEW v \in View, view' = [view EXCEPT ![u] = v],
         UNCHANGED <<now, messages, removed, receipt, sending, marking, announcers>>,
         \/ v.low = None /\ v.high = None
         \/ v.low \in Committed /\ v.high \in Committed,
         \A id \in Active :
             v.low # None /\ ~ Below(id, v.low) /\ ~ Below(v.high, id) => id \in v.seen \cup v.late
  PROVE  ChatInv'
<1>1. TypeOK'
  BY DEF ChatInv, TypeOK
<1>2. SendInv'
  BY SendInvSame DEF ChatInv
<1>3. \A w \in Readers : view'[w] = IF w = u THEN v ELSE view[w]
  BY DEF ChatInv, TypeOK
<1>4. CursorsSound'
  BY <1>3, MessagesSame DEF ChatInv, ReadInv, CursorsSound
<1>5. NoGapInHistory'
  <2> SUFFICES ASSUME NEW w \in Readers, NEW id \in Active', Covers(view[w], Place(id))'
               PROVE  id \in view'[w].seen \cup view'[w].late
    BY DEF NoGapInHistory
  <2>1. id \in Active /\ Covers(view'[w], Place(id))
    BY MessagesSame DEF Covers, Place
  <2>2. CASE w = u
    BY <1>3, <2>1, <2>2 DEF Covers, Below
  <2>3. CASE w # u
    BY <1>3, <2>1, <2>3 DEF ChatInv, ReadInv, NoGapInHistory
  <2> QED
    BY <2>2, <2>3
<1> QED
  BY <1>1, <1>2, <1>4, <1>5 DEF ChatInv, ReadInv

LEMMA ReopenKeeps ==
  ASSUME ChatInv, NEW u \in Readers, reopenRoom(u) PROVE ChatInv'
<1>1. Blank \in View /\ Blank.low = None /\ Blank.high = None
  BY DEF Blank, View
<1> QED
  BY <1>1, ViewMoves DEF reopenRoom

LEMMA FirstPageKeeps ==
  ASSUME ChatInv, NEW u \in Readers, firstPage(u) PROVE ChatInv'
<1>t. TypeOK /\ Active # {}
  BY DEF ChatInv, firstPage
<1> DEFINE page == LastOf(Active)
<1>1. page # {} /\ page \subseteq Active /\ page \subseteq Committed /\ page \subseteq Ids
  BY <1>t, NewestOnPage, MessageFacts DEF LastOf
<1>2. Lowest(page) \in page /\ Highest(page) \in page
  BY <1>t, <1>1, LowestExists, HighestExists
<1>3. \A id \in Active : ~ Below(id, Lowest(page)) => id \in page
  BY <1>t, <1>2, LastOfUp, MessageFacts
<1> DEFINE v == [low |-> Lowest(page), high |-> Highest(page), seen |-> page, late |-> {}]
<1>4. view' = [view EXCEPT ![u] = v] /\ UNCHANGED <<now, messages, removed, receipt, sending, marking, announcers>>
  BY DEF firstPage
<1> HIDE DEF page
<1>5. v \in View /\ v.low = Lowest(page) /\ v.high = Highest(page) /\ v.seen = page
  BY <1>1, <1>2 DEF View
<1> HIDE DEF v
<1> QED
  BY <1>1, <1>2, <1>3, <1>4, <1>5, ViewMoves

LEMMA NextPageKeeps ==
  ASSUME ChatInv, NEW u \in Readers, nextPage(u) PROVE ChatInv'
<1>t. TypeOK
  BY DEF ChatInv
<1>o. PICK o \in View : o = view[u]
  BY <1>t DEF TypeOK
<1>c. PICK c \in Active : c = o.high /\ After(c) # {}
  BY <1>o DEF nextPage
<1>l. c \in Committed /\ o.low \in Committed
  BY <1>t, <1>o, <1>c, MessageFacts, Bounds DEF ChatInv, ReadInv, CursorsSound
<1> DEFINE S == {m \in Active : Below(c, m)}
           page == FirstOf(S)
<1>1. page # {} /\ page \subseteq S
  BY <1>c DEF After, FirstOf
<1>s. S \subseteq Active /\ S \subseteq Committed /\ S \subseteq Ids
  BY <1>t, MessageFacts
<1>p. After(c) = page
  BY DEF After
<1>m. \A id \in Active : Below(c, id) => id \in S
  OBVIOUS
<1> HIDE DEF S
<1>2. PICK h \in page : h = Highest(page)
  BY <1>t, <1>1, <1>s, HighestExists
<1>3. \A id \in S : ~ Below(h, id) => id \in page
  BY <1>t, <1>s, FirstOfDown
<1>e. /\ view' = [view EXCEPT ![u].high = h, ![u].seen = @ \cup page]
      /\ UNCHANGED <<now, messages, removed, receipt, sending, marking, announcers>>
  BY <1>o, <1>c, <1>2, <1>p DEF nextPage
<1> HIDE DEF page
<1> DEFINE v == [o EXCEPT !.high = h, !.seen = @ \cup page]
<1>4. view' = [view EXCEPT ![u] = v]
  BY <1>t, <1>o, <1>e DEF TypeOK, View
<1>5. /\ v \in View /\ v.low = o.low /\ v.high = h
      /\ v.seen = o.seen \cup page /\ v.late = o.late
  BY <1>1, <1>2, <1>s DEF View
<1> HIDE DEF v
<1>6. ASSUME NEW id \in Active, ~ Below(id, o.low), ~ Below(h, id)
      PROVE  id \in v.seen \cup v.late
  <2>1. CASE Below(c, id)
    BY <1>m, <1>3, <1>5, <1>6, <2>1
  <2>2. CASE ~ Below(c, id)
    <3>1. Covers(view[u], Place(id))
      BY <1>t, <1>o, <1>c, <1>l, <1>6, <2>2, Bounds, MessageFacts DEF Covers, Below
    <3> QED
      BY <1>o, <1>5, <3>1 DEF ChatInv, ReadInv, NoGapInHistory
  <2> QED
    BY <2>1, <2>2
<1>7. v.low \in Committed /\ v.high \in Committed
  BY <1>1, <1>2, <1>5, <1>l, <1>s
<1> QED
  BY <1>e, <1>4, <1>5, <1>6, <1>7, ViewMoves

LEMMA PreviousPageKeeps ==
  ASSUME ChatInv, NEW u \in Readers, previousPage(u) PROVE ChatInv'
<1>t. TypeOK
  BY DEF ChatInv
<1>o. PICK o \in View : o = view[u]
  BY <1>t DEF TypeOK
<1>c. PICK c \in Active : c = o.low /\ Before(c) # {}
  BY <1>o DEF previousPage
<1>l. c \in Committed /\ o.high \in Committed
  BY <1>t, <1>o, <1>c, MessageFacts, Bounds DEF ChatInv, ReadInv, CursorsSound
<1> DEFINE S == {m \in Active : Below(m, c)}
           page == LastOf(S)
<1>1. page # {} /\ page \subseteq S
  BY <1>c DEF Before, LastOf
<1>s. S \subseteq Active /\ S \subseteq Committed /\ S \subseteq Ids
  BY <1>t, MessageFacts
<1>p. Before(c) = page
  BY DEF Before
<1>m. \A id \in Active : Below(id, c) => id \in S
  OBVIOUS
<1> HIDE DEF S
<1>2. PICK l \in page : l = Lowest(page)
  BY <1>t, <1>1, <1>s, LowestExists
<1>3. \A id \in S : ~ Below(id, l) => id \in page
  BY <1>t, <1>s, LastOfUp
<1>e. /\ view' = [view EXCEPT ![u].low = l, ![u].seen = @ \cup page]
      /\ UNCHANGED <<now, messages, removed, receipt, sending, marking, announcers>>
  BY <1>o, <1>c, <1>2, <1>p DEF previousPage
<1> HIDE DEF page
<1> DEFINE v == [o EXCEPT !.low = l, !.seen = @ \cup page]
<1>4. view' = [view EXCEPT ![u] = v]
  BY <1>t, <1>o, <1>e DEF TypeOK, View
<1>5. /\ v \in View /\ v.low = l /\ v.high = o.high
      /\ v.seen = o.seen \cup page /\ v.late = o.late
  BY <1>1, <1>2, <1>s DEF View
<1> HIDE DEF v
<1>6. ASSUME NEW id \in Active, ~ Below(id, l), ~ Below(o.high, id)
      PROVE  id \in v.seen \cup v.late
  <2>1. CASE Below(id, c)
    BY <1>m, <1>3, <1>5, <1>6, <2>1
  <2>2. CASE ~ Below(id, c)
    <3>1. Covers(view[u], Place(id))
      BY <1>t, <1>o, <1>c, <1>l, <1>6, <2>2, Bounds, MessageFacts DEF Covers, Below
    <3> QED
      BY <1>o, <1>5, <3>1 DEF ChatInv, ReadInv, NoGapInHistory
  <2> QED
    BY <2>1, <2>2
<1>7. v.low \in Committed /\ v.high \in Committed
  BY <1>1, <1>2, <1>5, <1>l, <1>s
<1> QED
  BY <1>e, <1>4, <1>5, <1>6, <1>7, ViewMoves

\* A read receipt only moves forward, to a message that was sent.
MovesTo(u, id) ==
    /\ id \in Committed
    /\ Moves(receipt[u], id)
    /\ receipt'[u] = [readAt |-> messages[id].at, id |-> id]

LEMMA SelectKeeps ==
  ASSUME ChatInv, NEW u \in Readers, selectNewest(u) PROVE ChatInv'
<1>t. TypeOK
  BY DEF ChatInv
<1>s. UNCHANGED <<now, messages, removed, receipt, sending, announcers, view>>
  BY DEF selectNewest
<1>1. Highest(Active) \in Committed /\ Highest(Active) \in Ids
  BY <1>t, MessageFacts, HighestExists DEF selectNewest
<1>2. TypeOK'
  BY <1>t, <1>s, <1>1 DEF selectNewest, TypeOK
<1>3. SendInv'
  BY <1>s, SendInvSame DEF ChatInv
<1>4. NoGapInHistory'
  BY <1>s, MessagesSame DEF ChatInv, ReadInv, NoGapInHistory
<1>5. CursorsSound'
  BY <1>t, <1>s, <1>1, MessagesSame DEF selectNewest, TypeOK, ChatInv, ReadInv, CursorsSound
<1> QED
  BY <1>2, <1>3, <1>4, <1>5 DEF ChatInv, ReadInv

LEMMA MarkKeeps ==
  ASSUME ChatInv, NEW u \in Readers, NEW id \in Ids, markRoomRead(u, id)
  PROVE  ChatInv' /\ \A w \in Readers : receipt'[w] = receipt[w] \/ MovesTo(w, id)
<1>t. TypeOK
  BY DEF ChatInv
<1>s. UNCHANGED <<now, messages, removed, sending, announcers, view>>
  BY DEF markRoomRead
<1>1. id \in Committed /\ messages[id].at \in Times
  BY <1>t, MessageFacts DEF markRoomRead, ChatInv, ReadInv, CursorsSound
<1>2. \A w \in Readers : receipt'[w] = receipt[w] \/ MovesTo(w, id)
  BY <1>t, <1>1 DEF markRoomRead, TypeOK, MovesTo
<1>3. PICK new : new = [readAt |-> messages[id].at, id |-> id]
  OBVIOUS
<1>4. new \in Receipt
  BY <1>1, <1>3 DEF Receipt
<1>5. TypeOK'
  BY <1>t, <1>s, <1>3, <1>4 DEF markRoomRead, TypeOK
<1>6. SendInv'
  BY <1>s, SendInvSame DEF ChatInv
<1>7. NoGapInHistory'
  BY <1>s, MessagesSame DEF ChatInv, ReadInv, NoGapInHistory
<1>8. CursorsSound'
  BY <1>t, <1>s, MessagesSame DEF markRoomRead, TypeOK, ChatInv, ReadInv, CursorsSound
<1> QED
  BY <1>2, <1>5, <1>6, <1>7, <1>8 DEF ChatInv, ReadInv
-----------------------------------------------------------------------------
(* The theorems *)

LEMMA ChatInit ==
  ASSUME Init PROVE ChatInv
<1>1. Committed = {} /\ Active = {}
  BY DEF Init, Committed, Active
<1>2. Blank \in View /\ Blank.low = None /\ Blank.high = None
  BY DEF Blank, View
<1>3. TypeOK
  BY <1>2, Bounds, IdleSend DEF Init, TypeOK, Times
<1>4. \A u, key : WithKey(u, key) = {}
  BY <1>1 DEF WithKey
<1>5. SendInv
  BY <1>1, <1>4, IdleSend
     DEF Init, SendInv, SentInPast, LongFollows, KeysUnique, OneAnnounces, SentFollows
<1>6. ReadInv
  BY <1>1, <1>2 DEF Init, ReadInv, CursorsSound, NoGapInHistory
<1> QED
  BY <1>3, <1>5, <1>6 DEF ChatInv

LEMMA ChatNext ==
  ASSUME ChatInv, [Next]_vars PROVE ChatInv'
<1>1. CASE Tick
  BY <1>1, TickKeeps
<1>2. CASE \E r \in Requests :
             \/ \E what \in Sends : sendMessage(r, what)
             \/ activeMessageCount(r)
             \/ beginMessage(r)
             \/ createMessage(r)
             \/ publishMessageEvent(r)
             \/ abandon(r)
  BY <1>2, AskKeeps, CountKeeps, BeginKeeps, CreateKeeps, PublishKeeps, AbandonKeeps
<1>3. CASE \/ \E id \in Ids, text \in Texts : editMessage(id, text)
           \/ \E id \in Ids : deleteMessage(id) \/ removeMessage(id)
  BY <1>3, EditKeeps, DeleteKeeps, RemoveKeeps
<1>4. CASE \E u \in Readers :
             \/ reopenRoom(u)
             \/ firstPage(u)
             \/ nextPage(u)
             \/ previousPage(u)
             \/ selectNewest(u)
             \/ \E id \in Ids : markRoomRead(u, id)
  BY <1>4, ReopenKeeps, FirstPageKeeps, NextPageKeeps, PreviousPageKeeps, SelectKeeps, MarkKeeps
<1>5. CASE UNCHANGED vars
  <2>1. UNCHANGED <<now, messages, removed, receipt, sending, marking, announcers, view>>
    BY <1>5 DEF vars
  <2>2. TypeOK'
    BY <2>1 DEF ChatInv, TypeOK
  <2> QED
    BY <2>1, <2>2, SendInvSame, ReadInvSame DEF ChatInv
<1> QED
  BY <1>1, <1>2, <1>3, <1>4, <1>5 DEF Next

LEMMA ChatAlways == Spec => []ChatInv
  BY ChatInit, ChatNext, PTL DEF Spec

\* Every variable keeps its type.
THEOREM ChatTypes == Spec => []TypeOK
<1>1. ChatInv => TypeOK
  BY DEF ChatInv
<1> QED
  BY <1>1, ChatAlways, PTL

\* A sender's idempotency key has one message, which one request announces and
\* notifies, however many requests carry it and in whatever order they race
\* (createMessage and sendMessage).
THEOREM KeysSentOnce == Spec => []KeySentOnce
<1>1. ASSUME ChatInv PROVE KeySentOnce
  <2>1. ASSUME NEW u \in Members, NEW key \in Keys PROVE Cardinality(WithKey(u, key)) <= 1
    <3>1. CASE WithKey(u, key) = {}
      BY <3>1, FS_EmptySet
    <3>2. CASE WithKey(u, key) # {}
      <4>1. PICK id \in WithKey(u, key) : TRUE
        BY <3>2
      <4>2. WithKey(u, key) = {id}
        BY <1>1, <4>1 DEF ChatInv, SendInv, KeysUnique
      <4>3. Cardinality({id}) = 1
        BY FS_Singleton, Zenon
      <4> QED
        BY <4>2, <4>3
    <3> QED
      BY <3>1, <3>2
  <2> QED
    BY <1>1, <2>1 DEF ChatInv, SendInv, OneAnnounces, KeySentOnce
<1> QED
  BY <1>1, ChatAlways, PTL

\* No conversation is opened by a message sent long, whatever sends, edits and
\* deletions race the count that admits it (sendMessage, activeMessageCount and
\* editMessage).
THEOREM OpenedShort == Spec => []FirstMessageShort
<1>1. ASSUME ChatInv PROVE FirstMessageShort
  <2>1. \A id \in Committed : messages[id].sent \in Texts
    BY <1>1, MessageFacts DEF ChatInv, Message
  <2> QED
    BY <1>1, <2>1 DEF ChatInv, SendInv, SentFollows, FirstMessageShort, Texts
<1> QED
  BY <1>1, ChatAlways, PTL

\* For every page size, a client that reads pages in both directions skips
\* nothing between its first and its last message (listMessages).
THEOREM HistoryHasNoGap == Spec => []NoGapInHistory
<1>1. ChatInv => NoGapInHistory
  BY DEF ChatInv, ReadInv
<1> QED
  BY <1>1, ChatAlways, PTL

\* No step moves a message that was sent, and a receipt moves forward or
\* forgets which message of its instant was read.
LEMMA ReceiptsMoveOn ==
  ASSUME ChatInv, [Next]_vars
  PROVE  /\ Frozen
         /\ \A u \in Readers :
              \/ receipt'[u] = receipt[u]
              \/ \E id \in Ids : receipt'[u] = Forgets(receipt[u], id)
              \/ \E id \in Ids : MovesTo(u, id)
<1>1. CASE \E r \in Requests : createMessage(r)
  <2>1. PICK r \in Requests : createMessage(r)
    BY <1>1
  <2>2. UNCHANGED receipt
    BY <2>1 DEF createMessage
  <2>3. \A i \in Committed : messages'[i] = messages[i]
    BY <2>1 DEF createMessage, ChatInv, TypeOK, Committed
  <2> QED
    BY <2>2, <2>3 DEF Frozen, Committed
<1>2. CASE \/ \E id \in Ids, text \in Texts : editMessage(id, text)
           \/ \E id \in Ids : deleteMessage(id)
  <2>1. UNCHANGED receipt
    BY <1>2 DEF editMessage, deleteMessage
  <2> QED
    BY <1>2, <2>1, EditKeeps, DeleteKeeps
<1>3. CASE \E id \in Ids : removeMessage(id)
  BY <1>3, RemoveKeeps
<1>4. CASE \E u \in Readers, id \in Ids : markRoomRead(u, id)
  <2>1. UNCHANGED <<messages, removed>>
    BY <1>4 DEF markRoomRead
  <2> QED
    BY <1>4, <2>1, MarkKeeps, MessagesSame
<1>5. CASE UNCHANGED <<messages, removed, receipt>>
  BY <1>5, MessagesSame
<1>6. \/ \E r \in Requests : createMessage(r)
      \/ \E id \in Ids, text \in Texts : editMessage(id, text)
      \/ \E id \in Ids : deleteMessage(id)
      \/ \E id \in Ids : removeMessage(id)
      \/ \E u \in Readers, id \in Ids : markRoomRead(u, id)
      \/ UNCHANGED <<messages, removed, receipt>>
  BY DEF Next, vars, Tick, sendMessage, activeMessageCount, beginMessage, publishMessageEvent,
         abandon, reopenRoom, firstPage, nextPage, previousPage, selectNewest
<1> QED
  BY <1>1, <1>2, <1>3, <1>4, <1>5, <1>6

\* What a receipt that moved on, or that forgot its message, leaves unread was
\* unread before.
LEMMA UnseenBefore ==
  ASSUME NEW old \in Receipt \cup {None}, NEW new \in Receipt \cup {None},
         NEW id \in Ids, messages[id].at \in Times, Unseen(new, id),
         \/ new = old
         \/ \E gone \in Ids : new = Forgets(old, gone)
         \/ \E to \in Ids : /\ messages[to].at \in Times /\ Moves(old, to)
                            /\ new = [readAt |-> messages[to].at, id |-> to]
  PROVE  Unseen(old, id)
<1>n. None \notin Receipt
  BY ChatConstants
<1>1. CASE old = None
  BY <1>1 DEF Unseen
<1>2. CASE new = old
  BY <1>2
<1>3. CASE old # None /\ \E gone \in Ids : new = Forgets(old, gone)
  <2>1. new = old \/ new = [old EXCEPT !.id = None]
    BY <1>3 DEF Forgets
  <2>2. CASE new = [old EXCEPT !.id = None]
    <3>1. new # None /\ new.readAt = old.readAt /\ new.id = None
      BY <1>3, <1>n, <2>2 DEF Receipt
    <3> QED
      BY <3>1 DEF Unseen
  <2> QED
    BY <2>1, <2>2
<1>4. CASE old # None /\ \E to \in Ids : /\ messages[to].at \in Times /\ Moves(old, to)
                                        /\ new = [readAt |-> messages[to].at, id |-> to]
  <2>1. PICK to \in Ids : /\ messages[to].at \in Times /\ Moves(old, to)
                          /\ new = [readAt |-> messages[to].at, id |-> to]
    BY <1>4
  <2>2. PICK t \in Nat, t0 \in Nat, at \in Nat :
          t = messages[to].at /\ t0 = old.readAt /\ at = messages[id].at
    BY <1>4, <2>1, Bounds DEF Receipt
  <2>3. id \in Nat /\ to \in Nat
    BY Bounds
  <2>4. at > t \/ (at = t /\ id > to)
    <3>0. new \in Receipt
      BY <2>1 DEF Receipt
    <3>1. new # None /\ new.readAt = t /\ new.id = to
      BY <2>1, <2>2, <3>0, <1>n
    <3> QED
      BY <2>2, <3>1 DEF Unseen
  <2>5. t > t0 \/ (t = t0 /\ old.id # None /\ to > old.id)
    BY <1>4, <2>1, <2>2 DEF Moves
  <2>6. old.id # None => old.id \in Nat
    BY <1>4, Bounds DEF Receipt
  <2>7. at > t0 \/ (at = t0 /\ old.id # None /\ id > old.id)
    BY <2>2, <2>3, <2>4, <2>5, <2>6
  <2> QED
    BY <2>2, <2>7 DEF Unseen
<1> QED
  BY <1>1, <1>2, <1>3, <1>4

\* A message that counted as read never counts as unread again, for any number
\* of racing statements that mark the room read, and any edits, deletions and
\* removed rows between them (markRoomRead).
THEOREM ReadForGood == Spec => ReadStaysRead
<1>1. ASSUME ChatInv, [Next]_vars
      PROVE  \A u \in Readers : Unread(u)' \cap Active \subseteq Unread(u)
  <2> SUFFICES ASSUME NEW u \in Readers, NEW id \in Unread(u)', id \in Active
               PROVE  id \in Unread(u)
    OBVIOUS
  <2>1. id \in Committed /\ id \in Ids /\ messages[id].at \in Times
    BY <1>1, MessageFacts DEF ChatInv
  <2>2. /\ Frozen
        /\ \/ receipt'[u] = receipt[u]
           \/ \E gone \in Ids : receipt'[u] = Forgets(receipt[u], gone)
           \/ \E to \in Ids : MovesTo(u, to)
    BY <1>1, ReceiptsMoveOn
  <2>3. PICK old \in Receipt \cup {None}, new \in Receipt \cup {None} :
          old = receipt[u] /\ new = receipt'[u]
    BY <1>1, ChatNext DEF ChatInv, TypeOK
  <2>4. messages[id].sender # u /\ Unseen(new, id)
    BY <2>1, <2>2, <2>3 DEF Unread, Unseen, Frozen
  <2>5. \/ new = old
        \/ \E gone \in Ids : new = Forgets(old, gone)
        \/ \E to \in Ids : /\ messages[to].at \in Times /\ Moves(old, to)
                           /\ new = [readAt |-> messages[to].at, id |-> to]
    BY <1>1, <2>2, <2>3, MessageFacts DEF MovesTo, ChatInv
  <2>6. Unseen(old, id)
    BY <2>1, <2>3, <2>4, <2>5, UnseenBefore
  <2> QED
    BY <2>3, <2>4, <2>6 DEF Unread
<1> QED
  BY <1>1, ChatAlways, PTL DEF ReadStaysRead, Spec
=============================================================================

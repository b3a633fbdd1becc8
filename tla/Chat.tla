-------------------------------- MODULE Chat --------------------------------
(***************************************************************************)
(* One chat room of two members: sending with an idempotency key, editing  *)
(* and deleting messages, reading them page by page in both directions,    *)
(* and the read receipts that unread counts are made of.  Rooms share      *)
(* nothing.                                                                *)
(*                                                                         *)
(* A message is placed by (createdAt, id).  createdAt is the time its      *)
(* transaction began and the id is random, so messages commit in another   *)
(* order than the one they are shown in.  A send is a process suspended at *)
(* each await; `abandon' ends it anywhere.  Left out: reports, which touch *)
(* no message, the events of edits and deletions, and rooms.updatedAt,     *)
(* which orders rooms.                                                     *)
(***************************************************************************)
EXTENDS Integers, FiniteSets

CONSTANTS
    Members,      \* of the room
    Readers,      \* the members who read it here
    Keys,         \* idempotency keys
    Sends,        \* what clients send, and send again
    Requests,     \* concurrent sends
    PageLimit,    \* messages per page
    None,         \* no key, no message, no receipt
    MaxMessages,  \* bound: messages sent
    MaxChanges,   \* bound: messages edited or deleted
    MaxTime       \* bound: the last instant

\* Up to FIRST_MESSAGE_MAX_LENGTH, or over it.
Texts == {"short", "long"}

Ids == 1 .. MaxMessages
Times == 0 .. MaxTime

\* sent, a history: the text it was sent with.
Message ==
    [sender : Members, key : Keys \cup {None}, text : Texts, sent : Texts, at : Times,
     deleted : BOOLEAN]

\* id: lastReadMessageId, NULL once that message's row is gone.
Receipt == [readAt : Times, id : Ids \cup {None}]

ASSUME ChatConstants ==
    /\ Readers \subseteq Members
    /\ Sends \subseteq [user : Members, key : Keys \cup {None}, text : Texts]
    /\ PageLimit \in Nat \ {0}
    /\ {MaxMessages, MaxChanges, MaxTime} \subseteq Nat
    /\ None \notin Nat \cup Keys \cup Message \cup Receipt

VARIABLES
    now,
    messages,     \* messages of the room by id; None before they commit
    removed,      \* messages whose rows an operator deleted
    receipt,      \* read_receipts of the readers
    sending,      \* sendMessage requests in flight
    marking,      \* markRoomRead statements in flight: the messages they found
    announcers,   \* history: requests per message that came to announce it
    view          \* the pages each reader's client has read

vars == <<now, messages, removed, receipt, sending, marking, announcers, view>>

Idle == [step |-> "idle"]
SendStep ==
    {Idle}
    \cup [step : {"counting", "beginning"}, what : Sends]
    \cup [step : {"inserting"}, what : Sends, at : Times]
    \cup [step : {"announcing"}, id : Ids]

\* A client's pages run from `low' to `high'.  late, a history: what committed
\* between the two after they were read, so that only its event shows it.
View == [low : Ids \cup {None}, high : Ids \cup {None}, seen : SUBSET Ids, late : SUBSET Ids]
Blank == [low |-> None, high |-> None, seen |-> {}, late |-> {}]

Init ==
    /\ now = 0
    /\ messages = [id \in Ids |-> None]
    /\ removed = {}
    /\ receipt = [u \in Readers |-> None]
    /\ sending = [r \in Requests |-> Idle]
    /\ marking = [u \in Readers |-> {}]
    /\ announcers = [id \in Ids |-> 0]
    /\ view = [u \in Readers |-> Blank]

Tick ==
    /\ now < MaxTime
    /\ now' = now + 1
    /\ UNCHANGED <<messages, removed, receipt, sending, marking, announcers, view>>

Committed == {id \in Ids : messages[id] # None}
Active == {id \in Committed : ~ messages[id].deleted}

\* Messages are ordered by (createdAt, id).
Place(id) == <<messages[id].at, id>>
Earlier(p, q) == p[1] < q[1] \/ (p[1] = q[1] /\ p[2] < q[2])
Below(id, other) == Earlier(Place(id), Place(other))

Covers(v, place) ==
    v.low # None /\ ~ Earlier(place, Place(v.low)) /\ ~ Earlier(Place(v.high), place)
-----------------------------------------------------------------------------
(* Sending.                                                                *)

Step(r, next) == sending' = [sending EXCEPT ![r] = next]
End(r) == Step(r, Idle)

WithKey(u, key) ==
    {id \in Committed \ removed : messages[id].sender = u /\ messages[id].key = key}
Same(what) == IF what.key = None THEN {} ELSE WithKey(what.user, what.key)

\* A key that findMessageByIdempotencyKey finds in use answers with its
\* message, or refuses when that is deleted, and changes nothing.
sendMessage(r, what) ==
    /\ sending[r] = Idle
    /\ Committed # Ids
    /\ Same(what) = {}
    /\ Step(r, [step |-> "counting", what |-> what])
    /\ UNCHANGED <<now, messages, removed, receipt, marking, announcers, view>>

\* Mutant: the rule is applied to messages with a key only.
KeyedMayFollow(what) == what.text = "short" \/ Active # {} \/ what.key = None
MayFollow(what) == what.text = "short" \/ Active # {}

activeMessageCount(r) ==
    /\ sending[r].step = "counting"
    /\ Step(r, IF MayFollow(sending[r].what) THEN [sending[r] EXCEPT !.step = "beginning"] ELSE Idle)
    /\ UNCHANGED <<now, messages, removed, receipt, marking, announcers, view>>

\* BEGIN fixes now(), which becomes createdAt.
beginMessage(r) ==
    /\ sending[r].step = "beginning"
    /\ Step(r, [step |-> "inserting", what |-> sending[r].what, at |-> now])
    /\ UNCHANGED <<now, messages, removed, receipt, marking, announcers, view>>

\* Mutant: a replayed message is announced like a new one.
ReplayAnnounced(id) == [step |-> "announcing", id |-> id]
Replayed(id) == Idle

\* The request goes on to `next'.
Enter(r, next) ==
    /\ Step(r, next)
    /\ announcers' = IF next.step = "announcing" THEN [announcers EXCEPT ![next.id] = @ + 1]
                                                ELSE announcers

\* A conflicting insert waits for the transaction that holds the key, so the
\* whole transaction takes effect at its commit.
createMessage(r) ==
    /\ sending[r].step = "inserting"
    /\ LET what == sending[r].what
       IN  \/ \E id \in Ids \ Committed :
                /\ Same(what) = {}
                /\ messages' = [messages EXCEPT ![id] =
                     [sender |-> what.user, key |-> what.key, text |-> what.text,
                      sent |-> what.text, at |-> sending[r].at, deleted |-> FALSE]]
                /\ view' = [u \in Readers |->
                     IF Covers(view[u], <<sending[r].at, id>>)
                     THEN [view[u] EXCEPT !.late = @ \cup {id}] ELSE view[u]]
                /\ Enter(r, [step |-> "announcing", id |-> id])
           \/ \E id \in Same(what) : Enter(r, Replayed(id)) /\ UNCHANGED <<messages, view>>
    /\ UNCHANGED <<now, removed, receipt, marking>>

\* The "added" event, and then the other member's notification (PushOutbox
\* has what follows).
publishMessageEvent(r) ==
    /\ sending[r].step = "announcing"
    /\ End(r)
    /\ UNCHANGED <<now, messages, removed, receipt, marking, announcers, view>>

abandon(r) ==
    /\ sending[r] # Idle
    /\ End(r)
    /\ UNCHANGED <<now, messages, removed, receipt, marking, announcers, view>>

Changed == {id \in Committed : messages[id].deleted \/ messages[id].text # messages[id].sent}
MayChange(id) == Cardinality(Changed \ {id}) < MaxChanges

\* The text may be long, also that of the first message.
editMessage(id, text) ==
    /\ id \in Active /\ MayChange(id)
    /\ messages' = [messages EXCEPT ![id].text = text]
    /\ UNCHANGED <<now, removed, receipt, sending, marking, announcers, view>>

\* The row stays, and its key with it.
deleteMessage(id) ==
    /\ id \in Active /\ MayChange(id)
    /\ messages' = [messages EXCEPT ![id].deleted = TRUE]
    /\ UNCHANGED <<now, removed, receipt, sending, marking, announcers, view>>

\* ON DELETE SET NULL
Forgets(old, id) == IF old # None /\ old.id = id THEN [old EXCEPT !.id = None] ELSE old

\* An operator deletes the row.  The program itself deletes rows only with
\* their room.
removeMessage(id) ==
    /\ id \in Committed \ removed /\ MayChange(id)
    /\ messages' = [messages EXCEPT ![id].deleted = TRUE]
    /\ removed' = removed \cup {id}
    /\ receipt' = [u \in Readers |-> Forgets(receipt[u], id)]
    /\ UNCHANGED <<now, sending, marking, announcers, view>>
-----------------------------------------------------------------------------
(* Reading.                                                                *)

\* A client starts over, as it must when its cursor was deleted.
reopenRoom(u) ==
    /\ view[u].low # None
    /\ view' = [view EXCEPT ![u] = Blank]
    /\ UNCHANGED <<now, messages, removed, receipt, sending, marking, announcers>>

Lowest(S) == CHOOSE id \in S : \A other \in S : ~ Below(other, id)
Highest(S) == CHOOSE id \in S : \A other \in S : ~ Below(id, other)

\* The PageLimit first, or last, messages of S in their order.
FirstOf(S) == {id \in S : Cardinality({other \in S : Below(other, id)}) < PageLimit}
LastOf(S) == {id \in S : Cardinality({other \in S : Below(id, other)}) < PageLimit}

\* Mutant: pages after a cursor are cut from the newest end.
AfterNewest(id) == LastOf({m \in Active : Below(id, m)})
After(id) == FirstOf({m \in Active : Below(id, m)})

Before(id) == LastOf({m \in Active : Below(m, id)})

\* Without a cursor: the newest messages.
firstPage(u) ==
    /\ view[u].low = None /\ Active # {}
    /\ LET page == LastOf(Active)
       IN  view' = [view EXCEPT ![u] = [low |-> Lowest(page), high |-> Highest(page),
                                        seen |-> page, late |-> {}]]
    /\ UNCHANGED <<now, messages, removed, receipt, sending, marking, announcers>>

\* A cursor that was deleted is refused, or finds nothing.
nextPage(u) ==
    /\ view[u].high \in Active /\ After(view[u].high) # {}
    /\ LET page == After(view[u].high)
       IN  view' = [view EXCEPT ![u].high = Highest(page), ![u].seen = @ \cup page]
    /\ UNCHANGED <<now, messages, removed, receipt, sending, marking, announcers>>

previousPage(u) ==
    /\ view[u].low \in Active /\ Before(view[u].low) # {}
    /\ LET page == Before(view[u].low)
       IN  view' = [view EXCEPT ![u].low = Lowest(page), ![u].seen = @ \cup page]
    /\ UNCHANGED <<now, messages, removed, receipt, sending, marking, announcers>>

\* markRoomRead selects the newest message it sees and then meets the
\* receipt, which other statements of the reader may have moved on meanwhile.
\* (Of two statements that found the same message the second changes nothing.)
selectNewest(u) ==
    /\ Active # {}
    /\ marking' = [marking EXCEPT ![u] = @ \cup {Highest(Active)}]
    /\ UNCHANGED <<now, messages, removed, receipt, sending, announcers, view>>

\* Mutant: the upsert has no WHERE.
AlwaysMoves(old, id) == TRUE
Moves(old, id) ==
    \/ old = None \/ messages[id].at > old.readAt
    \/ messages[id].at = old.readAt /\ old.id # None /\ id > old.id

\* A message that is gone violates the foreign key: the statement fails.
markRoomRead(u, id) ==
    /\ id \in marking[u]
    /\ receipt' = [receipt EXCEPT ![u] =
                     IF id \notin removed /\ Moves(@, id)
                     THEN [readAt |-> messages[id].at, id |-> id] ELSE @]
    /\ marking' = [marking EXCEPT ![u] = @ \ {id}]
    /\ UNCHANGED <<now, messages, removed, sending, announcers, view>>
-----------------------------------------------------------------------------
Next ==
    \/ Tick
    \/ \E r \in Requests :
         \/ \E what \in Sends : sendMessage(r, what)
         \/ activeMessageCount(r)
         \/ beginMessage(r)
         \/ createMessage(r)
         \/ publishMessageEvent(r)
         \/ abandon(r)
    \/ \E id \in Ids, text \in Texts : editMessage(id, text)
    \/ \E id \in Ids : deleteMessage(id)
    \/ \E id \in Ids : removeMessage(id)
    \/ \E u \in Readers :
         \/ reopenRoom(u)
         \/ firstPage(u)
         \/ nextPage(u)
         \/ previousPage(u)
         \/ selectNewest(u)
         \/ \E id \in Ids : markRoomRead(u, id)

Spec == Init /\ [][Next]_vars
-----------------------------------------------------------------------------
TypeOK ==
    /\ now \in Times
    /\ messages \in [Ids -> Message \cup {None}]
    /\ removed \subseteq Ids
    /\ receipt \in [Readers -> Receipt \cup {None}]
    /\ sending \in [Requests -> SendStep]
    /\ marking \in [Readers -> SUBSET Ids]
    /\ announcers \in [Ids -> Nat]
    /\ view \in [Readers -> View]

\* A sender's idempotency key has one message, also when retries race or the
\* message was deleted, for as long as its row is there, and one request at
\* most announces and notifies it (chat.repository.ts:180, chat.service.ts:97).
KeySentOnce ==
    /\ \A u \in Members, key \in Keys : Cardinality(WithKey(u, key)) <= 1
    /\ \A id \in Ids : announcers[id] <= 1

\* No conversation opens with a long message: whatever sends and deletions
\* raced its count, a message shown long stands no earlier than one that was
\* sent short (chat.service.ts:83), or was itself sent short and made long by
\* an edit, which has no such limit (chat.service.ts:116).
FirstMessageShort ==
    \A id \in Committed : messages[id].text = "long" =>
        \/ messages[id].sent = "short"
        \/ \E first \in Committed :
             messages[first].sent = "short" /\ messages[first].at <= messages[id].at

\* A client that reads pages in both directions shows every message between
\* its first and its last one, whatever was sent or deleted meanwhile, save
\* those that committed behind its cursors after they had passed
\* (chat.repository.ts:95, :115).
NoGapInHistory ==
    \A u \in Readers : \A id \in Active :
        Covers(view[u], Place(id)) => id \in view[u].seen \cup view[u].late

\* What chat.repository.ts:53 counts as unread: a receipt that lost its
\* message covers its instant as a whole.
Unseen(old, id) ==
    \/ old = None \/ messages[id].at > old.readAt
    \/ messages[id].at = old.readAt /\ old.id # None /\ id > old.id

Unread(u) == {id \in Active : messages[id].sender # u /\ Unseen(receipt[u], id)}

\* A message that counted as read never counts as unread again, however many
\* statements that mark the room read are in flight, and when the newest
\* message, or the row a receipt points at, is deleted between them
\* (chat.repository.ts:137).
ReadStaysRead ==
    [][\A u \in Readers : Unread(u)' \cap Active \subseteq Unread(u)]_vars
=============================================================================

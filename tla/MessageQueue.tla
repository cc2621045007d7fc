---------------------------- MODULE MessageQueue ----------------------------
(***************************************************************************)
(* The message queue (internal/messagequeue/queue.go): a broker with one   *)
(* topic name, the queues subscribed to it, queues used directly with an   *)
(* idempotency store, and the consumer goroutine of each queue.            *)
(*                                                                         *)
(* A topic hands the same *Message to all its queues, so Retries and       *)
(* Processed belong to the message and are touched by the consumers of     *)
(* different queues without a lock: the increment of Retries is a load and *)
(* a store.  Deleting a topic and creating it again gives a new object;    *)
(* incarnations are numbered.  A send on, or a second close of, a closed   *)
(* channel panics and ends the process.                                    *)
(***************************************************************************)
EXTENDS Integers, Sequences, FiniteSets, Functions

CONSTANTS Messages, Queues,
          Name,          \* queue -> the name it is subscribed under
          Direct,        \* the queues made by NewQueue, outside of the topic
          Key,           \* message -> IdempotencyKey
          Capacity,      \* of the channel (100 in Topic.Subscribe)
          MaxRetries,    \* of every message (3 by default)
          MaxDead,       \* dead letters kept (100)
          Callers,       \* what callers do: dest, where each message is published
                         \* ("topic", a direct queue, "none"), and stops, a
                         \* bound on the calls that stop queues
          MaxTopics,     \* bound: incarnations of the topic
          MaxPublish,    \* bound: message -> calls of Publish for it
          NoMsg, NoQueue

ASSUME MessageQueueAssumption ==
    /\ IsFiniteSet(Messages)
    /\ Direct \subseteq Queues /\ NoMsg \notin Messages /\ NoQueue \notin Queues
    /\ Capacity \in Nat \ {0} /\ MaxRetries \in Nat \ {0} /\ MaxDead \in Nat \ {0}
    /\ MaxTopics \in Nat \ {0} /\ MaxPublish \in [Messages -> Nat]

Topics == 1..MaxTopics
Keys == {Key[m] : m \in Messages}

VARIABLES current, made,  \* the topic in Broker.topics (0: none), topics made
          members,    \* topic -> its queues
          life,       \* queue -> new, found (topic looked up), open, closed
          found,      \* queue -> the topic its subscriber has looked up
          chan,       \* queue -> its channel
          con,        \* queue -> its consumer: pc, message, loaded Retries
          dead,       \* queue -> dead letters
          retries, processed,      \* per message
          pub,        \* message -> its publisher: pc, topic, queues left, queue
          calls,      \* message -> calls of Publish
          dest, stops,             \* the callers' plan, the stops left in it
          keys,       \* direct queue -> keys in its idempotency store
          stats,      \* queue -> Published, Consumed, DeadLettered
          \* History:
          handled,    \* queue -> the messages its handler accepted, in order
          skipped,    \* queue -> the messages it skipped as Processed, in order
          abandoned,  \* queue -> copies dropped by a consumer that ends
          failures,   \* message -> handler errors, over all queues, up to MaxRetries
          enqueued,   \* direct queue, key -> messages sent since it is stored
          rejected,   \* direct queue -> stored keys whose message met a full queue
          halted,     \* Broker.Stop was called
          risky,      \* a stop overlapped a delivery or a retry, or was repeated,
                      \* or a caller publishes to what it has stopped
          panicked

topicVars == <<current, made, members, life, found, halted>>
pubVars == <<pub, calls, dest>>
keyVars == <<keys, enqueued, rejected>>
conVars == <<con, dead, retries, processed>>
history == <<handled, skipped, abandoned, failures>>
callerVars == <<topicVars, stops, risky, pubVars, keyVars>>
vars == <<callerVars, conVars, history, chan, stats, panicked>>

IdlePub == [pc |-> "idle", topic |-> 0, todo |-> {}, to |-> NoQueue]
IdleCon == [pc |-> "receive", msg |-> NoMsg, loaded |-> 0]
Open(q) == life[q] = "open"

Init ==
    /\ \E c \in Callers : dest = c.dest /\ stops = c.stops
    /\ current = 0 /\ made = 0 /\ members = [t \in Topics |-> {}]
    /\ life = [q \in Queues |-> IF \E m \in Messages : dest[m] = q THEN "open" ELSE "new"]
    /\ found = [q \in Queues |-> 0]
    /\ chan = [q \in Queues |-> <<>>] /\ con = [q \in Queues |-> IdleCon]
    /\ dead = [q \in Queues |-> <<>>]
    /\ retries = [m \in Messages |-> 0] /\ processed = [m \in Messages |-> FALSE]
    /\ pub = [m \in Messages |-> IdlePub] /\ calls = [m \in Messages |-> 0]
    /\ keys = [q \in Direct |-> {}] /\ rejected = [q \in Direct |-> {}]
    /\ enqueued = [q \in Direct |-> [k \in Keys |-> 0]]
    /\ stats = [q \in Queues |-> [published |-> 0, consumed |-> 0, deadLettered |-> 0]]
    /\ handled = [q \in Queues |-> <<>>] /\ skipped = [q \in Queues |-> <<>>]
    /\ abandoned = [q \in Queues |-> 0] /\ failures = [m \in Messages |-> 0]
    /\ halted = FALSE /\ risky = FALSE /\ panicked = FALSE
-----------------------------------------------------------------------------
(* Publishing.  A publisher may call again after an error.  Topic.Publish  *)
(* holds the topic's read lock over its loop, which keeps Subscribe,       *)
(* Unsubscribe, DeleteTopic and Stop out.                                  *)

Publishing(t) == \E m \in Messages : pub[m].pc \in {"loop", "send", "count"} /\ pub[m].topic = t
Sending(m, q) == pub[m].pc = "send" /\ pub[m].to = q
Counting(q) == {m \in Messages : pub[m].pc = "count" /\ pub[m].to = q}
MayCall(m) == pub[m].pc = "idle" /\ calls[m] < MaxPublish[m]
Fail(m) == pub' = [pub EXCEPT ![m] = IdlePub]     \* Publish returns an error

\* Broker.GetTopic on behalf of Publish; ErrTopicNotFound if there is none.
LookUpTopic(m) ==
    /\ MayCall(m) /\ dest[m] = "topic" /\ calls' = [calls EXCEPT ![m] = @ + 1]
    /\ IF current = 0 THEN Fail(m)
       ELSE pub' = [pub EXCEPT ![m].pc = "found", ![m].topic = current]
    /\ risky' = (risky \/ halted)
    /\ UNCHANGED <<topicVars, stops, dest, keyVars, conVars, history, chan, stats,
                   panicked>>

\* Topic.Publish takes the read lock and ranges over the queues of the map.
BeginTopicPublish(m) ==
    /\ pub[m].pc = "found"
    /\ pub' = [pub EXCEPT ![m].pc = "loop", ![m].todo = members[pub[m].topic]]
    /\ UNCHANGED <<topicVars, stops, risky, calls, dest, keyVars, conVars, history,
                   chan, stats, panicked>>

\* Queue.Publish of a queue outside of the topic.
BeginDirectPublish(m, q) ==
    /\ MayCall(m) /\ dest[m] = q /\ calls' = [calls EXCEPT ![m] = @ + 1]
    /\ pub' = [pub EXCEPT ![m].pc = "loop", ![m].todo = {q}]
    /\ risky' = (risky \/ ~Open(q))
    /\ UNCHANGED <<topicVars, stops, dest, keyVars, conVars, history, chan, stats,
                   panicked>>

\* Mutant: the key is checked and not stored.
Dedup_unstored(m, q) ==
    /\ pub[m].pc = "loop" /\ q \in pub[m].todo
    /\ IF q \in Direct /\ Key[m] \in keys[q]
       THEN Fail(m)
       ELSE pub' = [pub EXCEPT ![m].pc = "send", ![m].to = q, ![m].todo = @ \ {q}]
    /\ UNCHANGED <<topicVars, stops, risky, calls, dest, keyVars, conVars, history,
                   chan, stats, panicked>>

\* The idempotency check of Queue.Publish: a duplicate ends the publishing, a
\* new key is stored before it is known whether the message gets in.
Dedup(m, q) ==
    /\ pub[m].pc = "loop" /\ q \in pub[m].todo
    /\ IF q \in Direct /\ Key[m] \in keys[q]
       THEN Fail(m) /\ UNCHANGED keys
       ELSE /\ pub' = [pub EXCEPT ![m].pc = "send", ![m].to = q, ![m].todo = @ \ {q}]
            /\ keys' = IF q \in Direct THEN [keys EXCEPT ![q] = @ \cup {Key[m]}] ELSE keys
    /\ UNCHANGED <<topicVars, stops, risky, calls, dest, enqueued, rejected, conVars,
                   history, chan, stats, panicked>>

\* The non-blocking send of Queue.Publish, or ErrQueueFull; a closed channel
\* panics.  A topic stops at the first queue that refuses.
Send(m) ==
    LET q == pub[m].to IN
    /\ pub[m].pc = "send"
    /\ CASE ~Open(q) ->
            /\ panicked' = TRUE /\ UNCHANGED <<pub, chan, enqueued, rejected>>
         [] Open(q) /\ Len(chan[q]) < Capacity ->
            /\ chan' = [chan EXCEPT ![q] = Append(@, m)]
            /\ pub' = [pub EXCEPT ![m].pc = "count"]
            /\ enqueued' = IF q \in Direct THEN [enqueued EXCEPT ![q][Key[m]] = @ + 1]
                           ELSE enqueued
            /\ UNCHANGED <<rejected, panicked>>
         [] OTHER ->
            /\ Fail(m)
            /\ rejected' = IF q \in Direct THEN [rejected EXCEPT ![q] = @ \cup {Key[m]}]
                           ELSE rejected
            /\ UNCHANGED <<chan, enqueued, panicked>>
    /\ UNCHANGED <<topicVars, stops, risky, calls, dest, keys, conVars, history, stats>>

\* Published is counted after the send: the message may have been consumed.
CountPublished(m) ==
    /\ pub[m].pc = "count"
    /\ stats' = [stats EXCEPT ![pub[m].to].published = @ + 1]
    /\ pub' = [pub EXCEPT ![m].pc = "loop", ![m].to = NoQueue]
    /\ UNCHANGED <<topicVars, stops, risky, calls, dest, keyVars, conVars, history,
                   chan, panicked>>

\* Publish returns nil.
EndPublish(m) ==
    /\ pub[m].pc = "loop" /\ pub[m].todo = {}
    /\ pub' = [pub EXCEPT ![m] = [IdlePub EXCEPT !.pc = "done"]]
    /\ UNCHANGED <<topicVars, stops, risky, calls, dest, keyVars, conVars, history,
                   chan, stats, panicked>>

\* Cleanup, by the ticker of a consumer, drops keys whose time has come (which
\* is minutes after Publish stored them).
Cleanup(q, k) ==
    /\ k \in keys[q] /\ con[q].pc # "ended"
    /\ \A m \in Messages : Key[m] = k => ~Sending(m, q)
    /\ keys' = [keys EXCEPT ![q] = @ \ {k}]
    /\ rejected' = [rejected EXCEPT ![q] = @ \ {k}]
    /\ enqueued' = [enqueued EXCEPT ![q][k] = 0]
    /\ UNCHANGED <<topicVars, stops, risky, pubVars, conVars, history, chan, stats,
                   panicked>>

Publisher(m) ==
    \/ LookUpTopic(m) \/ BeginTopicPublish(m) \/ Send(m) \/ CountPublished(m)
    \/ EndPublish(m)
    \/ \E q \in Direct : BeginDirectPublish(m, q)
    \/ \E q \in Queues : Dedup(m, q)
-----------------------------------------------------------------------------
(* The consumer of a queue.                                                *)

ConMoves(q, from, to) == con[q].pc = from /\ con' = [con EXCEPT ![q].pc = to]
Settle(q) == con' = [con EXCEPT ![q] = IdleCon]

\* The range over the channel ends when it is closed and empty.
EndConsumer(q) ==
    /\ life[q] = "closed" /\ chan[q] = <<>> /\ ConMoves(q, "receive", "ended")
    /\ UNCHANGED <<callerVars, dead, retries, processed, history, chan, stats,
                   panicked>>

\* Mutant: the consumer does not look at Processed.
Receive_unchecked(q) ==
    /\ con[q].pc = "receive" /\ chan[q] # <<>> /\ Open(q)
    /\ chan' = [chan EXCEPT ![q] = Tail(@)]
    /\ con' = [con EXCEPT ![q].pc = "handler", ![q].msg = Head(chan[q])]
    /\ UNCHANGED <<callerVars, dead, retries, processed, history, stats, panicked>>

\* Mutant: a processed message ends the consumer instead of being skipped.
Receive_returns(q) ==
    LET m == Head(chan[q]) IN
    /\ con[q].pc = "receive" /\ chan[q] # <<>>
    /\ chan' = [chan EXCEPT ![q] = Tail(@)]
    /\ IF processed[m] \/ ~Open(q)
       THEN /\ con' = [con EXCEPT ![q].pc = "ended"]
            /\ abandoned' = [abandoned EXCEPT ![q] = @ + 1]
       ELSE /\ con' = [con EXCEPT ![q].pc = "handler", ![q].msg = m]
            /\ UNCHANGED abandoned
    /\ UNCHANGED <<callerVars, dead, retries, processed, handled, skipped, failures,
                   stats, panicked>>

\* One message: a stopped consumer returns with it, a processed one is skipped.
Receive(q) ==
    LET m == Head(chan[q]) IN
    /\ con[q].pc = "receive" /\ chan[q] # <<>>
    /\ chan' = [chan EXCEPT ![q] = Tail(@)]
    /\ CASE ~Open(q) ->
            /\ con' = [con EXCEPT ![q].pc = "ended"]
            /\ abandoned' = [abandoned EXCEPT ![q] = @ + 1] /\ UNCHANGED skipped
         [] Open(q) /\ processed[m] ->
            /\ skipped' = [skipped EXCEPT ![q] = Append(@, m)]
            /\ UNCHANGED <<con, abandoned>>
         [] OTHER ->
            /\ con' = [con EXCEPT ![q].pc = "handler", ![q].msg = m]
            /\ UNCHANGED <<skipped, abandoned>>
    /\ UNCHANGED <<callerVars, dead, retries, processed, handled, failures, stats,
                   panicked>>

HandlerSucceeds(q) ==
    LET m == con[q].msg IN
    /\ con[q].pc = "handler" /\ Settle(q)
    /\ processed' = [processed EXCEPT ![m] = TRUE]
    /\ stats' = [stats EXCEPT ![q].consumed = @ + 1]
    /\ handled' = [handled EXCEPT ![q] = Append(@, m)]
    /\ UNCHANGED <<callerVars, dead, retries, skipped, abandoned, failures, chan,
                   panicked>>

\* The handler returns an error: msg.Retries is loaded ...
HandlerFails(q) ==
    LET m == con[q].msg IN
    /\ con[q].pc = "handler"
    /\ con' = [con EXCEPT ![q].pc = "store", ![q].loaded = retries[m]]
    /\ failures' = [failures EXCEPT ![m] = IF @ < MaxRetries THEN @ + 1 ELSE @]
    /\ UNCHANGED <<callerVars, dead, retries, processed, handled, skipped, abandoned,
                   chan, stats, panicked>>

\* ... and stored,
StoreRetries(q) ==
    /\ ConMoves(q, "store", "decide")
    /\ retries' = [retries EXCEPT ![con[q].msg] = con[q].loaded + 1]
    /\ UNCHANGED <<callerVars, dead, processed, history, chan, stats, panicked>>

\* Mutant: one retry less than MaxRetries allows.
MayRetry_oneLess(m) == retries[m] + 1 < MaxRetries

MayRetry(m) == retries[m] < MaxRetries

\* and compared: the last failure makes the message a dead letter, of which
\* the newest MaxDead are kept.
BuryDead(q) ==
    LET m == con[q].msg IN
    /\ con[q].pc = "decide" /\ ~MayRetry(m) /\ Settle(q)
    /\ dead' = [dead EXCEPT ![q] = Append(IF Len(@) >= MaxDead THEN Tail(@) ELSE @, m)]
    /\ stats' = [stats EXCEPT ![q].deadLettered = @ + 1]
    /\ UNCHANGED <<callerVars, retries, processed, history, chan, panicked>>

DecideRetry(q) ==
    /\ ConMoves(q, "decide", "requeue") /\ MayRetry(con[q].msg)
    /\ UNCHANGED <<callerVars, dead, retries, processed, history, chan, stats,
                   panicked>>

\* Mutant: a full queue makes the consumer drop the message.
Requeue_drops(q) ==
    /\ con[q].pc = "requeue" /\ Open(q) /\ Settle(q)
    /\ chan' = [chan EXCEPT ![q] = IF Len(@) < Capacity THEN Append(@, con[q].msg) ELSE @]
    /\ UNCHANGED <<callerVars, dead, retries, processed, history, stats, panicked>>

\* The blocking send of a retry, by the only goroutine that could make room.
Requeue(q) ==
    /\ con[q].pc = "requeue"
    /\ IF Open(q)
       THEN /\ Len(chan[q]) < Capacity
            /\ chan' = [chan EXCEPT ![q] = Append(@, con[q].msg)] /\ Settle(q)
            /\ UNCHANGED panicked
       ELSE panicked' = TRUE /\ UNCHANGED <<chan, con>>
    /\ UNCHANGED <<callerVars, dead, retries, processed, history, stats>>

Consumer(q) ==
    \/ Receive(q) \/ EndConsumer(q) \/ HandlerSucceeds(q) \/ HandlerFails(q)
    \/ StoreRetries(q) \/ BuryDead(q) \/ DecideRetry(q) \/ Requeue(q)
-----------------------------------------------------------------------------
(* Topics, subscriptions and their end.                                    *)

\* Broker.Subscribe gets the topic, or creates it.
FindTopic(q) ==
    /\ life[q] = "new" /\ q \notin Direct /\ (current = 0 => made < MaxTopics)
    /\ life' = [life EXCEPT ![q] = "found"]
    /\ made' = IF current = 0 THEN made + 1 ELSE made
    /\ current' = IF current = 0 THEN made + 1 ELSE current
    /\ found' = [found EXCEPT ![q] = current']
    /\ UNCHANGED <<members, halted, pubVars, keyVars, conVars, history, chan, stats,
                   stops, risky, panicked>>

\* Topic.Subscribe: the queue starts, and takes the place of one of its name.
JoinTopic(q) ==
    /\ life[q] = "found" /\ ~Publishing(found[q])
    /\ life' = [life EXCEPT ![q] = "open"]
    /\ members' = [members EXCEPT ![found[q]] = {x \in @ : Name[x] # Name[q]} \cup {q}]
    /\ UNCHANGED <<current, made, found, halted, pubVars, keyVars, conVars, history,
                   chan, stats, stops, risky, panicked>>

\* Queue.Stop of each queue of S.  Its two steps, running = false and the
\* close, are one: a consumer that runs in between does what it could have
\* done before or after both.
Busy(q) == con[q].pc \in {"handler", "store", "decide", "requeue"}
StopQueues(S, overlapping) ==
    /\ stops > 0 /\ stops' = stops - 1
    /\ risky' = (risky \/ overlapping \/ \E q \in S : ~Open(q) \/ Busy(q))
    /\ IF \A q \in S : Open(q)
       THEN /\ life' = [q \in Queues |-> IF q \in S THEN "closed" ELSE life[q]]
            /\ UNCHANGED panicked
       ELSE panicked' = TRUE /\ UNCHANGED life

StopDirect(q) ==
    /\ life[q] # "new"
    /\ StopQueues({q}, \E m \in Messages : q \in pub[m].todo \/ Sending(m, q))
    /\ UNCHANGED <<current, made, members, found, halted, pubVars, keyVars, conVars,
                   history, chan, stats>>

\* Mutant: the stopped queue stays in the map of the topic.
Unsubscribe_kept(t, q) ==
    /\ q \in members[t] /\ ~Publishing(t)
    /\ StopQueues({q}, FALSE)
    /\ UNCHANGED <<current, made, members, found, halted, pubVars, keyVars, conVars,
                   history, chan, stats>>

Unsubscribe(t, q) ==
    /\ q \in members[t] /\ ~Publishing(t)
    /\ StopQueues({q}, FALSE)
    /\ members' = [members EXCEPT ![t] = @ \ {q}]
    /\ UNCHANGED <<current, made, found, halted, pubVars, keyVars, conVars, history,
                   chan, stats>>

Holders(t) == {m \in Messages : pub[m].pc = "found" /\ pub[m].topic = t}

\* The queues are stopped and stay in the deleted topic, which a publisher
\* may have looked up before.
DeleteTopic ==
    /\ current # 0 /\ ~Publishing(current)
    /\ StopQueues(members[current], Holders(current) # {})
    /\ current' = 0
    /\ UNCHANGED <<made, members, found, halted, pubVars, keyVars, conVars, history,
                   chan, stats>>

\* Broker.Stop keeps the topics with their stopped queues.
BrokerStop ==
    /\ current # 0 => ~Publishing(current)
    /\ LET S == IF current = 0 THEN {} ELSE members[current] IN
       StopQueues(S, halted \/ (current # 0 /\ Holders(current) # {}))
    /\ halted' = TRUE
    /\ UNCHANGED <<current, made, members, found, pubVars, keyVars, conVars, history,
                   chan, stats>>

Next ==
    /\ ~panicked
    /\ \/ \E m \in Messages : Publisher(m)
       \/ \E q \in Queues : Consumer(q) \/ FindTopic(q) \/ JoinTopic(q)
       \/ \E q \in Direct : StopDirect(q) \/ \E k \in Keys : Cleanup(q, k)
       \/ \E t \in Topics : \E q \in members[t] : Unsubscribe(t, q)
       \/ DeleteTopic \/ BrokerStop

\* The Go scheduler runs every consumer, and handlers return.
Spec == Init /\ [][Next]_vars /\ \A q \in Queues : WF_vars(~panicked /\ Consumer(q))
-----------------------------------------------------------------------------
TypeOK ==
    /\ current \in 0..made /\ made \in 0..MaxTopics
    /\ members \in [Topics -> SUBSET (Queues \ Direct)]
    /\ life \in [Queues -> {"new", "found", "open", "closed"}]
    /\ found \in [Queues -> 0..MaxTopics]
    /\ \A q \in Queues : /\ Len(chan[q]) <= Capacity /\ Len(dead[q]) <= MaxDead
                         /\ con[q].msg = NoMsg <=> con[q].pc \in {"receive", "ended"}
    /\ \A m \in Messages : pub[m].pc \in {"send", "count"} <=> pub[m].to # NoQueue
    /\ halted \in BOOLEAN /\ risky \in BOOLEAN /\ panicked \in BOOLEAN

InHand(q) == IF con[q].msg = NoMsg THEN 0 ELSE 1

\* Each copy of a message that was sent is waiting, with the consumer, counted
\* as consumed or dead-lettered, skipped, or lost to a consumer that was
\* stopped: retries neither lose nor multiply it.  The counters a caller reads
\* add up but for the publishers between their send and its count, whose
\* messages may be counted as consumed first.
Accounted ==
    \A q \in Queues :
        /\ stats[q].published + Cardinality(Counting(q))
             = Len(chan[q]) + InHand(q) + stats[q].consumed
               + stats[q].deadLettered + Len(skipped[q]) + abandoned[q]
        /\ stats[q].consumed = Len(handled[q])

\* The Processed flag makes the handler of a queue accept a message once,
\* also when a publisher repeated a Publish that one of the topic's queues
\* had refused; and a copy is skipped only if some handler accepted it.
HandledOnce ==
    \A q \in Queues :
        /\ IsInjective(handled[q])
        /\ \A m \in Range(skipped[q]) : \E x \in Queues : m \in Range(handled[x])

\* A stored key belongs to exactly one enqueued message, to one on its way,
\* or to one that met a full queue (whose retry is then refused as a
\* duplicate); a key that is not stored admits a message again.
KeysExact ==
    \A q \in Direct, k \in Keys :
        IF k \in keys[q]
        THEN \/ enqueued[q][k] = 1
             \/ /\ enqueued[q][k] = 0
                /\ \/ k \in rejected[q]
                   \/ \E m \in Messages : Key[m] = k /\ Sending(m, q)
        ELSE enqueued[q][k] = 0

\* A message becomes a dead letter only after MaxRetries errors of handlers,
\* in spite of increments of Retries that are lost between two queues.
DeadOnlyAfterRetries ==
    \A q \in Queues : \A i \in DOMAIN dead[q] : failures[dead[q][i]] >= MaxRetries

\* The process panics only if a stop met a delivery or a retry in progress, a
\* publisher that had looked the topic up, or a queue that was stopped before,
\* or if the caller went on publishing after a stop.
PanicNeedsOverlap == panicked => risky

\* The consumer waits for room in the queue that only it could empty.
Stuck(q) == con[q].pc = "requeue" /\ Open(q) /\ Len(chan[q]) = Capacity

\* Publishers being bounded, the queues come to rest: every accepted message
\* is settled in the end, unless its queue is stopped or its consumer has
\* blocked itself with a retry into its own full queue.
Delivered ==
    []<>(\/ panicked
         \/ \A q \in Queues : \/ chan[q] = <<>> /\ con[q].msg = NoMsg
                              \/ Stuck(q) \/ ~Open(q))
=============================================================================

------------------------- MODULE MessageQueueProofs -------------------------
(***************************************************************************)
(* For any number of messages, queues, topics and publishers, any capacity *)
(* and any calls that stop queues: no copy of a message is lost or made,   *)
(* a handler accepts a message once, the idempotency store is exact, dead  *)
(* letters had their retries, and only an overlapping stop panics.         *)
(***************************************************************************)
EXTENDS MessageQueue, SequenceTheorems, FiniteSetTheorems, TLAPS

PubStages == {"idle", "found", "loop", "send", "count", "done"}
ConStages == {"receive", "handler", "store", "decide", "requeue", "ended"}
Pub == [pc : PubStages, topic : 0..MaxTopics, todo : SUBSET Queues, to : Queues \cup {NoQueue}]
Con == [pc : ConStages, msg : Messages \cup {NoMsg}, loaded : Nat]
Stats == [published : Nat, consumed : Nat, deadLettered : Nat]

\* The publishers and the topics.
TopicTypeOK ==
    /\ current \in 0..made /\ made \in 0..MaxTopics
    /\ members \in [Topics -> SUBSET Queues]
    /\ life \in [Queues -> {"new", "found", "open", "closed"}]
    /\ found \in [Queues -> 0..made]
    /\ \A q \in Queues : life[q] = "found" => found[q] \in Topics /\ q \notin Direct
    /\ pub \in [Messages -> Pub]
    /\ \A m \in Messages : /\ pub[m].pc \in {"send", "count"} <=> pub[m].to # NoQueue
                           /\ pub[m].pc = "found" => pub[m].topic \in Topics
                           /\ pub[m].pc \notin {"loop", "send", "count"} => pub[m].todo = {}

\* The consumers and what they work on.
ConTypeOK ==
    /\ con \in [Queues -> Con]
    /\ \A q \in Queues : con[q].msg = NoMsg <=> con[q].pc \in {"receive", "ended"}
    /\ chan \in [Queues -> Seq(Messages)] /\ dead \in [Queues -> Seq(Messages)]
    /\ handled \in [Queues -> Seq(Messages)] /\ skipped \in [Queues -> Seq(Messages)]
    /\ abandoned \in [Queues -> Nat] /\ stats \in [Queues -> Stats]
    /\ retries \in [Messages -> Nat] /\ failures \in [Messages -> Nat]
    /\ processed \in [Messages -> BOOLEAN]

\* The idempotency stores.
KeyTypeOK ==
    /\ keys \in [Direct -> SUBSET Keys] /\ rejected \in [Direct -> SUBSET Keys]
    /\ enqueued \in [Direct -> [Keys -> Nat]]

\* A message is Processed exactly when some handler accepted it, and what a
\* consumer works on its own handler has not accepted.
HandledInv ==
    /\ HandledOnce
    /\ \A m \in Messages : processed[m] <=> \E q \in Queues : m \in Range(handled[q])
    /\ \A q \in Queues : con[q].msg \notin Range(handled[q])

\* Retries lags behind the handler errors, also with an increment in flight.
Lags(m, n) == failures[m] >= MaxRetries \/ n <= failures[m]
RetriesInv ==
    /\ DeadOnlyAfterRetries
    /\ \A m \in Messages : Lags(m, retries[m])
    /\ \A q \in Queues : con[q].pc = "store" => Lags(con[q].msg, con[q].loaded + 1)

\* A message on its way into a direct queue has its key stored, nothing with
\* the key enqueued, and no other message with the key on its way.
KeysInv ==
    /\ KeysExact
    /\ \A q \in Direct, m \in Messages : Sending(m, q) =>
         /\ Key[m] \in keys[q] /\ enqueued[q][Key[m]] = 0
         /\ \A n \in Messages : Sending(n, q) /\ Key[n] = Key[m] => n = m

\* Which topic a queue belongs to, and who may meet a queue that is not open:
\* only publishers and consumers that a stop overlapped, or callers that go on
\* after Broker.Stop.
Targets(m) == {q \in Queues : q \in pub[m].todo \/ Sending(m, q)}
Started(q) == life[q] \in {"open", "closed"}
Belongs ==
    /\ \A t \in Topics : \A q \in members[t] : found[q] = t /\ q \notin Direct /\ Started(q)
    /\ \A m \in Messages : \A q \in Queues : dest[m] = q => found[q] = 0 /\ Started(q)
PubSafe(m) ==
    /\ \A q \in Targets(m) : /\ found[q] = pub[m].topic /\ Started(q)
                             /\ ~Open(q) => risky
    /\ pub[m].pc = "found" => \A q \in members[pub[m].topic] : ~Open(q) => risky
    /\ pub[m].pc \in {"idle", "done"} => pub[m].topic = 0
ConSafe(q) == Busy(q) /\ ~Open(q) => risky
CurrentSafe == current # 0 => \A q \in members[current] : ~Open(q) => risky \/ halted
StopInv ==
    /\ PanicNeedsOverlap /\ Belongs /\ CurrentSafe
    /\ \A m \in Messages : PubSafe(m)
    /\ \A q \in Queues : ConSafe(q)

MessageQueueInv ==
    /\ TopicTypeOK /\ ConTypeOK /\ KeyTypeOK
    /\ Accounted /\ HandledInv /\ RetriesInv /\ KeysInv /\ StopInv
-----------------------------------------------------------------------------
\* The publisher of m moves to the given stage; the others stay.
PubMoves(m, pc, topic, todo, to) ==
    /\ pub' \in [Messages -> Pub]
    /\ \A n \in Messages \ {m} : pub'[n] = pub[n]
    /\ pub'[m].pc = pc /\ pub'[m].topic = topic /\ pub'[m].todo = todo /\ pub'[m].to = to

\* A publisher is well typed at rest.
LEMMA PubUpdates == IdlePub \in Pub
BY MessageQueueAssumption DEF IdlePub, Pub, PubStages

\* What the steps of a publisher do to it.
LEMMA PubSteps ==
    ASSUME TopicTypeOK, NEW m \in Messages
    PROVE  /\ LookUpTopic(m) => IF current = 0 THEN PubMoves(m, "idle", 0, {}, NoQueue)
                                ELSE PubMoves(m, "found", current, {}, NoQueue)
           /\ BeginTopicPublish(m) =>
                PubMoves(m, "loop", pub[m].topic, members[pub[m].topic], NoQueue)
           /\ \A q \in Direct : BeginDirectPublish(m, q) =>
                PubMoves(m, "loop", pub[m].topic, {q}, NoQueue)
           /\ \A q \in Queues : Dedup(m, q) =>
                IF q \in Direct /\ Key[m] \in keys[q] THEN PubMoves(m, "idle", 0, {}, NoQueue)
                ELSE PubMoves(m, "send", pub[m].topic, pub[m].todo \ {q}, q)
           /\ EndPublish(m) => PubMoves(m, "done", 0, {}, NoQueue)
<1> USE MessageQueueAssumption
<1>0. /\ pub[m] \in Pub /\ pub \in [Messages -> Pub]
      /\ pub[m].pc \notin {"send", "count"} => pub[m].to = NoQueue
      /\ pub[m].pc \in {"idle", "found", "done"} => pub[m].todo = {}
    BY DEF TopicTypeOK
<1>a. IdlePub \in Pub /\ IdlePub.pc = "idle" /\ IdlePub.topic = 0 /\ IdlePub.todo = {}
      /\ IdlePub.to = NoQueue
    BY PubUpdates DEF IdlePub
<1>b. Fail(m) => PubMoves(m, "idle", 0, {}, NoQueue)
    BY <1>0, <1>a DEF Fail, PubMoves
<1>1. ASSUME LookUpTopic(m), current # 0 PROVE PubMoves(m, "found", current, {}, NoQueue)
  <2> DEFINE new == [pub[m] EXCEPT !.pc = "found", !.topic = current]
  <2>1. pub' = [pub EXCEPT ![m] = new]
      BY <1>0, <1>1 DEF LookUpTopic
  <2>2. current \in 0..MaxTopics
      BY DEF TopicTypeOK
  <2>3. /\ new \in Pub /\ new.pc = "found" /\ new.topic = current
        /\ new.todo = pub[m].todo /\ new.to = pub[m].to
      BY <1>0, <2>2 DEF Pub, PubStages
  <2>4. pub[m].pc = "idle"
      BY <1>1 DEF LookUpTopic, MayCall
  <2> HIDE DEF new
  <2>5. QED
      BY <1>0, <2>1, <2>3, <2>4 DEF PubMoves
<1>2. ASSUME BeginTopicPublish(m)
      PROVE  PubMoves(m, "loop", pub[m].topic, members[pub[m].topic], NoQueue)
  <2> DEFINE S == members[pub[m].topic]
             new == [pub[m] EXCEPT !.pc = "loop", !.todo = S]
  <2>1. pub' = [pub EXCEPT ![m] = new]
      BY <1>0, <1>2 DEF BeginTopicPublish
  <2>2. S \in SUBSET Queues
      BY <1>2 DEF BeginTopicPublish, TopicTypeOK
  <2> HIDE DEF S
  <2>3. /\ new \in Pub /\ new.pc = "loop" /\ new.topic = pub[m].topic
        /\ new.todo = S /\ new.to = pub[m].to
      BY <1>0, <2>2 DEF Pub, PubStages
  <2>4. pub[m].pc = "found"
      BY <1>2 DEF BeginTopicPublish
  <2> HIDE DEF new
  <2>5. QED
      BY <1>0, <2>1, <2>3, <2>4 DEF PubMoves, S
<1>3. ASSUME NEW q \in Direct, BeginDirectPublish(m, q)
      PROVE  PubMoves(m, "loop", pub[m].topic, {q}, NoQueue)
  <2> DEFINE new == [pub[m] EXCEPT !.pc = "loop", !.todo = {q}]
  <2>1. pub' = [pub EXCEPT ![m] = new]
      BY <1>0, <1>3 DEF BeginDirectPublish
  <2>2. {q} \in SUBSET Queues
      OBVIOUS
  <2>3. /\ new \in Pub /\ new.pc = "loop" /\ new.topic = pub[m].topic
        /\ new.todo = {q} /\ new.to = pub[m].to
      BY <1>0, <2>2 DEF Pub, PubStages
  <2>4. pub[m].pc = "idle"
      BY <1>3 DEF BeginDirectPublish, MayCall
  <2> HIDE DEF new
  <2>5. QED
      BY <1>0, <2>1, <2>3, <2>4 DEF PubMoves
<1>4. ASSUME NEW q \in Queues, Dedup(m, q), ~(q \in Direct /\ Key[m] \in keys[q])
      PROVE  PubMoves(m, "send", pub[m].topic, pub[m].todo \ {q}, q)
  <2> DEFINE S == pub[m].todo \ {q}
             new == [pub[m] EXCEPT !.pc = "send", !.to = q, !.todo = S]
  <2>1. pub' = [pub EXCEPT ![m] = new]
      BY <1>0, <1>4 DEF Dedup
  <2>2. S \in SUBSET Queues
      BY <1>0 DEF Pub
  <2> HIDE DEF S
  <2>3. /\ new \in Pub /\ new.pc = "send" /\ new.topic = pub[m].topic
        /\ new.todo = S /\ new.to = q
      BY <1>0, <2>2 DEF Pub, PubStages
  <2> HIDE DEF new
  <2>4. QED
      BY <1>0, <2>1, <2>3 DEF PubMoves, S
<1>5. ASSUME EndPublish(m) PROVE PubMoves(m, "done", 0, {}, NoQueue)
  <2> DEFINE new == [IdlePub EXCEPT !.pc = "done"]
  <2>1. /\ new \in Pub /\ new.pc = "done" /\ new.topic = 0
        /\ new.todo = {} /\ new.to = NoQueue
      BY DEF IdlePub, Pub, PubStages
  <2>2. pub' = [pub EXCEPT ![m] = new]
      BY <1>5 DEF EndPublish
  <2> HIDE DEF new
  <2>3. QED
      BY <1>0, <2>1, <2>2 DEF PubMoves
<1>6. ASSUME LookUpTopic(m), current = 0 PROVE PubMoves(m, "idle", 0, {}, NoQueue)
    BY <1>b, <1>6 DEF LookUpTopic
<1>7. ASSUME NEW q \in Queues, Dedup(m, q), q \in Direct /\ Key[m] \in keys[q]
      PROVE  PubMoves(m, "idle", 0, {}, NoQueue)
    BY <1>b, <1>7 DEF Dedup
<1>8. QED
    BY <1>1, <1>2, <1>3, <1>4, <1>5, <1>6, <1>7

\* The three outcomes of a send: a panic, a message in the channel, an error.
Sent(m, q) ==
    /\ Open(q) /\ chan' = [chan EXCEPT ![q] = Append(@, m)]
    /\ PubMoves(m, "count", pub[m].topic, pub[m].todo, q)
    /\ enqueued' = IF q \in Direct THEN [enqueued EXCEPT ![q][Key[m]] = @ + 1] ELSE enqueued
    /\ UNCHANGED <<rejected, panicked>>
Refused(m, q) ==
    /\ Open(q) /\ PubMoves(m, "idle", 0, {}, NoQueue)
    /\ rejected' = IF q \in Direct THEN [rejected EXCEPT ![q] = @ \cup {Key[m]}] ELSE rejected
    /\ UNCHANGED <<chan, enqueued, panicked>>

\* A send has one of these outcomes and changes nothing else.
LEMMA SendOutcomes ==
    ASSUME TopicTypeOK, NEW m \in Messages, Send(m)
    PROVE  /\ pub[m].pc = "send" /\ pub[m].to \in Queues
           /\ \/ /\ ~Open(pub[m].to) /\ panicked' = TRUE
                 /\ UNCHANGED <<pub, chan, enqueued, rejected>>
              \/ Sent(m, pub[m].to) \/ Refused(m, pub[m].to)
           /\ UNCHANGED <<topicVars, stops, risky, calls, dest, keys, conVars, history, stats>>
<1> USE MessageQueueAssumption
<1> DEFINE q == pub[m].to
<1>0. /\ pub[m] \in Pub /\ pub \in [Messages -> Pub] /\ pub[m].pc = "send" /\ q \in Queues
    BY DEF TopicTypeOK, Send, Pub
<1>1. UNCHANGED <<topicVars, stops, risky, calls, dest, keys, conVars, history, stats>>
    BY DEF Send
<1>2. CASE ~Open(q)
    BY <1>0, <1>1, <1>2 DEF Send
<1>3. CASE Open(q) /\ Len(chan[q]) < Capacity
  <2> DEFINE new == [pub[m] EXCEPT !.pc = "count"]
  <2>1. pub' = [pub EXCEPT ![m] = new]
      BY <1>0, <1>3 DEF Send
  <2>2. /\ new \in Pub /\ new.pc = "count" /\ new.topic = pub[m].topic
        /\ new.todo = pub[m].todo /\ new.to = q
      BY <1>0 DEF Pub, PubStages
  <2> HIDE DEF new
  <2>3. PubMoves(m, "count", pub[m].topic, pub[m].todo, q)
      BY <1>0, <2>1, <2>2 DEF PubMoves
  <2>4. QED
      BY <1>0, <1>1, <1>3, <2>3 DEF Send, Sent
<1>4. CASE Open(q) /\ ~(Len(chan[q]) < Capacity)
  <2>1. IdlePub \in Pub /\ IdlePub.pc = "idle" /\ IdlePub.topic = 0 /\ IdlePub.todo = {}
        /\ IdlePub.to = NoQueue
      BY PubUpdates DEF IdlePub
  <2>2. Fail(m)
      BY <1>4 DEF Send
  <2>3. PubMoves(m, "idle", 0, {}, NoQueue)
      BY <1>0, <2>1, <2>2 DEF Fail, PubMoves
  <2>4. QED
      BY <1>0, <1>1, <1>4, <2>3 DEF Send, Refused
<1>5. QED
    BY <1>2, <1>3, <1>4

\* The publisher counts its message and goes on to the next queue.
LEMMA CountOutcome ==
    ASSUME TopicTypeOK, NEW m \in Messages, CountPublished(m)
    PROVE  /\ pub[m].pc = "count" /\ pub[m].to \in Queues
           /\ PubMoves(m, "loop", pub[m].topic, pub[m].todo, NoQueue)
           /\ stats' = [stats EXCEPT ![pub[m].to].published = @ + 1]
           /\ UNCHANGED <<topicVars, risky, dest, keyVars, conVars, history, chan, panicked>>
<1> USE MessageQueueAssumption
<1>0. pub[m] \in Pub /\ pub \in [Messages -> Pub] /\ pub[m].pc = "count"
    BY DEF TopicTypeOK, CountPublished
<1>1. pub[m].to \in Queues
    BY <1>0 DEF TopicTypeOK, Pub
<1> DEFINE new == [pub[m] EXCEPT !.pc = "loop", !.to = NoQueue]
<1>2. pub' = [pub EXCEPT ![m] = new]
    BY <1>0 DEF CountPublished
<1>3. /\ new \in Pub /\ new.pc = "loop" /\ new.topic = pub[m].topic
      /\ new.todo = pub[m].todo /\ new.to = NoQueue
    BY <1>0 DEF Pub, PubStages
<1> HIDE DEF new
<1>4. PubMoves(m, "loop", pub[m].topic, pub[m].todo, NoQueue)
    BY <1>0, <1>2, <1>3 DEF PubMoves
<1>5. QED
    BY <1>0, <1>1, <1>4 DEF CountPublished

\* What publishers and callers do besides sending and counting.
Caller ==
    \/ \E m \in Messages : LookUpTopic(m) \/ BeginTopicPublish(m) \/ EndPublish(m)
    \/ \E m \in Messages : \E q \in Direct : BeginDirectPublish(m, q)
    \/ \E m \in Messages : \E q \in Queues : Dedup(m, q)
    \/ \E q \in Queues : FindTopic(q) \/ JoinTopic(q)
    \/ \E q \in Direct : StopDirect(q) \/ \E k \in Keys : Cleanup(q, k)
    \/ \E t \in Topics : \E q \in members[t] : Unsubscribe(t, q)
    \/ DeleteTopic \/ BrokerStop

\* Consumers leave the callers' state alone, callers that do not send leave
\* the consumers' state alone.
LEMMA Frames ==
    ASSUME Next
    PROVE  \/ \E m \in Messages : Send(m)
           \/ \E m \in Messages : CountPublished(m)
           \/ \E q \in Queues : Consumer(q) /\ UNCHANGED callerVars
           \/ Caller /\ UNCHANGED <<conVars, history, chan, stats>>
<1>1. \A q \in Queues : Consumer(q) => UNCHANGED callerVars
  <2> SUFFICES ASSUME NEW q \in Queues, Consumer(q) PROVE UNCHANGED callerVars
      OBVIOUS
  <2>1. CASE Receive(q) \/ EndConsumer(q) \/ HandlerSucceeds(q) \/ HandlerFails(q)
      BY <2>1 DEF Receive, EndConsumer, HandlerSucceeds, HandlerFails
  <2>2. CASE StoreRetries(q) \/ BuryDead(q) \/ DecideRetry(q) \/ Requeue(q)
      BY <2>2 DEF StoreRetries, BuryDead, DecideRetry, Requeue
  <2>3. QED
      BY <2>1, <2>2 DEF Consumer
<1>2. Caller => UNCHANGED <<conVars, history, chan, stats>>
  <2>1. \A m \in Messages : LookUpTopic(m) \/ BeginTopicPublish(m) \/ EndPublish(m)
            => UNCHANGED <<conVars, history, chan, stats>>
      BY DEF LookUpTopic, BeginTopicPublish, EndPublish
  <2>2. \A m \in Messages : \A q \in Direct : BeginDirectPublish(m, q)
            => UNCHANGED <<conVars, history, chan, stats>>
      BY DEF BeginDirectPublish
  <2>3. \A m \in Messages : \A q \in Queues : Dedup(m, q)
            => UNCHANGED <<conVars, history, chan, stats>>
      BY DEF Dedup
  <2>4. \A q \in Queues : FindTopic(q) \/ JoinTopic(q)
            => UNCHANGED <<conVars, history, chan, stats>>
      BY DEF FindTopic, JoinTopic
  <2>5. \A q \in Direct : StopDirect(q) \/ (\E k \in Keys : Cleanup(q, k))
            => UNCHANGED <<conVars, history, chan, stats>>
      BY DEF StopDirect, Cleanup
  <2>6. \A t \in Topics : \A q \in members[t] : Unsubscribe(t, q)
            => UNCHANGED <<conVars, history, chan, stats>>
      BY DEF Unsubscribe
  <2>7. DeleteTopic \/ BrokerStop => UNCHANGED <<conVars, history, chan, stats>>
      BY DEF DeleteTopic, BrokerStop
  <2>8. QED
      BY <2>1, <2>2, <2>3, <2>4, <2>5, <2>6, <2>7 DEF Caller
<1>3. \/ \E m \in Messages : Send(m) \/ CountPublished(m)
      \/ (\E q \in Queues : Consumer(q)) \/ Caller
    BY DEF Next, Publisher, Caller
<1>4. QED
    BY <1>1, <1>2, <1>3

\* Besides sending and counting, a publisher neither sends nor counts, and
\* others leave the publishers alone.
LEMMA CallerMoves ==
    ASSUME TopicTypeOK, Caller
    PROVE  \/ UNCHANGED pub
           \/ \E m \in Messages, pc \in PubStages \ {"count"} : \E topic, todo, to :
                /\ pub[m].pc \notin {"send", "count"} /\ PubMoves(m, pc, topic, todo, to)
<1> USE DEF PubStages
<1>1. ASSUME NEW m \in Messages, NEW pc \in PubStages \ {"count"},
             \E topic, todo, to : PubMoves(m, pc, topic, todo, to),
             pub[m].pc \notin {"send", "count"}
      PROVE  \E n \in Messages, stage \in PubStages \ {"count"} : \E topic, todo, to :
                /\ pub[n].pc \notin {"send", "count"} /\ PubMoves(n, stage, topic, todo, to)
    BY <1>1
<1>2. ASSUME NEW m \in Messages, LookUpTopic(m)
      PROVE  /\ pub[m].pc \notin {"send", "count"}
             /\ \E pc \in PubStages \ {"count"} : \E topic, todo, to :
                  PubMoves(m, pc, topic, todo, to)
    BY <1>2, PubSteps DEF LookUpTopic, MayCall
<1>3. ASSUME NEW m \in Messages, BeginTopicPublish(m)
      PROVE  /\ pub[m].pc \notin {"send", "count"}
             /\ \E topic, todo, to : PubMoves(m, "loop", topic, todo, to)
    BY <1>3, PubSteps DEF BeginTopicPublish
<1>4. ASSUME NEW m \in Messages, EndPublish(m)
      PROVE  /\ pub[m].pc \notin {"send", "count"}
             /\ \E topic, todo, to : PubMoves(m, "done", topic, todo, to)
    BY <1>4, PubSteps DEF EndPublish
<1>5. ASSUME NEW m \in Messages, NEW q \in Direct, BeginDirectPublish(m, q)
      PROVE  /\ pub[m].pc \notin {"send", "count"}
             /\ \E topic, todo, to : PubMoves(m, "loop", topic, todo, to)
    BY <1>5, PubSteps DEF BeginDirectPublish, MayCall
<1>6. ASSUME NEW m \in Messages, NEW q \in Queues, Dedup(m, q)
      PROVE  /\ pub[m].pc \notin {"send", "count"}
             /\ \E pc \in PubStages \ {"count"} : \E topic, todo, to :
                  PubMoves(m, pc, topic, todo, to)
    BY <1>6, PubSteps DEF Dedup
<1>7. ASSUME NEW q \in Queues, FindTopic(q) \/ JoinTopic(q) PROVE UNCHANGED pub
    BY <1>7 DEF FindTopic, JoinTopic, pubVars
<1>8. ASSUME NEW q \in Direct, StopDirect(q) \/ \E k \in Keys : Cleanup(q, k)
      PROVE  UNCHANGED pub
    BY <1>8 DEF StopDirect, Cleanup, pubVars
<1>9. ASSUME NEW t \in Topics, NEW q \in members[t], Unsubscribe(t, q) PROVE UNCHANGED pub
    BY <1>9 DEF Unsubscribe, pubVars
<1>10. ASSUME DeleteTopic \/ BrokerStop PROVE UNCHANGED pub
    BY <1>10 DEF DeleteTopic, BrokerStop, pubVars
<1>11. QED
    BY <1>1, <1>2, <1>3, <1>4, <1>5, <1>6, <1>7, <1>8, <1>9, <1>10 DEF Caller

\* The steps of a consumer other than a send of a retry, on its own record.
ConMovesTo(q, pc, msg, loaded) ==
    /\ con' \in [Queues -> Con]
    /\ \A x \in Queues \ {q} : con'[x] = con[x]
    /\ con'[q].pc = pc /\ con'[q].msg = msg /\ con'[q].loaded = loaded

\* What the steps of a consumer do to it.
LEMMA ConSteps ==
    ASSUME ConTypeOK, NEW q \in Queues
    PROVE  /\ Settle(q) => ConMovesTo(q, "receive", NoMsg, 0)
           /\ \A from, to \in ConStages : ConMoves(q, from, to) =>
                ConMovesTo(q, to, con[q].msg, con[q].loaded)
           /\ con' = [con EXCEPT ![q].pc = "ended"] =>
                ConMovesTo(q, "ended", con[q].msg, con[q].loaded)
           /\ \A m \in Messages : con' = [con EXCEPT ![q].pc = "handler", ![q].msg = m] =>
                ConMovesTo(q, "handler", m, con[q].loaded)
           /\ \A n \in Nat : con' = [con EXCEPT ![q].pc = "store", ![q].loaded = n] =>
                ConMovesTo(q, "store", con[q].msg, n)
<1> USE MessageQueueAssumption
<1>0. con \in [Queues -> Con] /\ con[q] \in Con
    BY DEF ConTypeOK
<1>1. Settle(q) => ConMovesTo(q, "receive", NoMsg, 0)
  <2>1. /\ IdleCon \in Con /\ IdleCon.pc = "receive" /\ IdleCon.msg = NoMsg
        /\ IdleCon.loaded = 0
      BY DEF IdleCon, Con, ConStages
  <2>2. QED
      BY <1>0, <2>1 DEF Settle, ConMovesTo
<1>2. ASSUME NEW to \in ConStages, con' = [con EXCEPT ![q].pc = to]
      PROVE  ConMovesTo(q, to, con[q].msg, con[q].loaded)
  <2> DEFINE new == [con[q] EXCEPT !.pc = to]
  <2>1. con' = [con EXCEPT ![q] = new]
      BY <1>0, <1>2
  <2>2. new \in Con /\ new.pc = to /\ new.msg = con[q].msg /\ new.loaded = con[q].loaded
      BY <1>0 DEF Con
  <2> HIDE DEF new
  <2>3. QED
      BY <1>0, <2>1, <2>2 DEF ConMovesTo
<1>3. ASSUME NEW m \in Messages, con' = [con EXCEPT ![q].pc = "handler", ![q].msg = m]
      PROVE  ConMovesTo(q, "handler", m, con[q].loaded)
  <2> DEFINE new == [con[q] EXCEPT !.pc = "handler", !.msg = m]
  <2>1. con' = [con EXCEPT ![q] = new]
      BY <1>0, <1>3
  <2>2. new \in Con /\ new.pc = "handler" /\ new.msg = m /\ new.loaded = con[q].loaded
      BY <1>0 DEF Con, ConStages
  <2> HIDE DEF new
  <2>3. QED
      BY <1>0, <2>1, <2>2 DEF ConMovesTo
<1>4. ASSUME NEW n \in Nat, con' = [con EXCEPT ![q].pc = "store", ![q].loaded = n]
      PROVE  ConMovesTo(q, "store", con[q].msg, n)
  <2> DEFINE new == [con[q] EXCEPT !.pc = "store", !.loaded = n]
  <2>1. con' = [con EXCEPT ![q] = new]
      BY <1>0, <1>4
  <2>2. new \in Con /\ new.pc = "store" /\ new.msg = con[q].msg /\ new.loaded = n
      BY <1>0 DEF Con, ConStages
  <2> HIDE DEF new
  <2>3. QED
      BY <1>0, <2>1, <2>2 DEF ConMovesTo
<1>5. "ended" \in ConStages
    BY DEF ConStages
<1>6. QED
    BY <1>1, <1>2, <1>3, <1>4, <1>5 DEF ConMoves

\* The publishers and topics stay well typed.
LEMMA TopicTypeStep ==
    ASSUME TopicTypeOK, [Next]_vars
    PROVE  TopicTypeOK'
<1> USE MessageQueueAssumption
<1>1. CASE UNCHANGED vars
    BY <1>1 DEF vars, callerVars, topicVars, pubVars, TopicTypeOK
<1>2. CASE \E q \in Queues : Consumer(q) /\ UNCHANGED callerVars
    BY <1>2 DEF callerVars, topicVars, pubVars, TopicTypeOK
<1>3. ASSUME NEW m \in Messages, NEW pc \in PubStages, NEW topic, NEW todo, NEW to,
             PubMoves(m, pc, topic, todo, to), UNCHANGED topicVars,
             pc \in {"send", "count"} <=> to # NoQueue, pc = "found" => topic \in Topics,
             pc \notin {"loop", "send", "count"} => todo = {}
      PROVE  TopicTypeOK'
    BY <1>3 DEF PubMoves, topicVars, TopicTypeOK
<1>4. ASSUME NEW m \in Messages, Send(m) PROVE TopicTypeOK'
  <2>1. UNCHANGED topicVars /\ pub[m].to \in Queues
      BY <1>4, SendOutcomes
  <2>2. CASE UNCHANGED pub
      BY <2>1, <2>2 DEF topicVars, TopicTypeOK
  <2>3. CASE PubMoves(m, "count", pub[m].topic, pub[m].todo, pub[m].to)
      BY <1>3, <2>1, <2>3 DEF PubStages
  <2>4. CASE PubMoves(m, "idle", 0, {}, NoQueue)
      BY <1>3, <2>1, <2>4 DEF PubStages
  <2>5. QED
      BY <1>4, <2>2, <2>3, <2>4, SendOutcomes DEF Sent, Refused
<1>5. ASSUME NEW m \in Messages, LookUpTopic(m) PROVE TopicTypeOK'
  <2>1. UNCHANGED topicVars
      BY <1>5 DEF LookUpTopic
  <2>2. current # 0 => current \in Topics
      BY DEF TopicTypeOK, Topics
  <2>3. QED
      BY <1>3, <1>5, <2>1, <2>2, PubSteps DEF PubStages
<1>6. ASSUME NEW m \in Messages, BeginTopicPublish(m) PROVE TopicTypeOK'
  <2>1. UNCHANGED topicVars
      BY <1>6 DEF BeginTopicPublish
  <2>2. PubMoves(m, "loop", pub[m].topic, members[pub[m].topic], NoQueue)
      BY <1>6, PubSteps
  <2>3. QED
      BY <1>3, <2>1, <2>2 DEF PubStages
<1>7. ASSUME NEW m \in Messages, EndPublish(m) PROVE TopicTypeOK'
  <2>1. UNCHANGED topicVars
      BY <1>7 DEF EndPublish
  <2>2. PubMoves(m, "done", 0, {}, NoQueue)
      BY <1>7, PubSteps
  <2>3. QED
      BY <1>3, <2>1, <2>2 DEF PubStages
<1>8. ASSUME NEW m \in Messages, NEW q \in Direct, BeginDirectPublish(m, q) PROVE TopicTypeOK'
  <2>1. UNCHANGED topicVars
      BY <1>8 DEF BeginDirectPublish
  <2>2. PubMoves(m, "loop", pub[m].topic, {q}, NoQueue)
      BY <1>8, PubSteps
  <2>3. QED
      BY <1>3, <2>1, <2>2 DEF PubStages
<1>9. ASSUME NEW m \in Messages, NEW q \in Queues, Dedup(m, q) PROVE TopicTypeOK'
  <2>1. UNCHANGED topicVars
      BY <1>9 DEF Dedup
  <2>2. CASE q \in Direct /\ Key[m] \in keys[q]
      BY <1>3, <1>9, <2>1, <2>2, PubSteps DEF PubStages
  <2>3. CASE ~(q \in Direct /\ Key[m] \in keys[q])
    <3>1. PubMoves(m, "send", pub[m].topic, pub[m].todo \ {q}, q)
        BY <1>9, <2>3, PubSteps
    <3>2. QED
        BY <1>3, <2>1, <3>1 DEF PubStages
  <2>4. QED
      BY <2>2, <2>3
<1>10. ASSUME NEW q \in Queues, FindTopic(q) PROVE TopicTypeOK'
    BY <1>10 DEF FindTopic, TopicTypeOK, pubVars, Topics
<1>11. ASSUME NEW q \in Queues, JoinTopic(q) PROVE TopicTypeOK'
    BY <1>11 DEF JoinTopic, TopicTypeOK, pubVars, Topics
<1>12. ASSUME NEW S, NEW late, StopQueues(S, late) PROVE
         /\ life' \in [Queues -> {"new", "found", "open", "closed"}]
         /\ \A q \in Queues : life'[q] = "found" => life[q] = "found"
    BY <1>12 DEF StopQueues, TopicTypeOK
<1>13. ASSUME NEW q \in Direct, StopDirect(q) PROVE TopicTypeOK'
    BY <1>12, <1>13 DEF StopDirect, TopicTypeOK, pubVars
<1>14. ASSUME NEW q \in Direct, NEW k \in Keys, Cleanup(q, k) PROVE TopicTypeOK'
    BY <1>14 DEF Cleanup, TopicTypeOK, topicVars, pubVars
<1>15. ASSUME NEW t \in Topics, NEW q \in members[t], Unsubscribe(t, q) PROVE TopicTypeOK'
    BY <1>12, <1>15 DEF Unsubscribe, TopicTypeOK, pubVars
<1>16. ASSUME DeleteTopic PROVE TopicTypeOK'
    BY <1>12, <1>16 DEF DeleteTopic, TopicTypeOK, pubVars
<1>17. ASSUME BrokerStop PROVE TopicTypeOK'
  <2>1. \E S, late : StopQueues(S, late)
      BY <1>17 DEF BrokerStop
  <2>2. QED
      BY <1>12, <1>17, <2>1 DEF BrokerStop, TopicTypeOK, pubVars
<1>18. CASE Caller
    BY <1>5, <1>6, <1>7, <1>8, <1>9, <1>10, <1>11, <1>13, <1>14, <1>15, <1>16, <1>17, <1>18
       DEF Caller
<1>19. ASSUME NEW m \in Messages, CountPublished(m) PROVE TopicTypeOK'
    BY <1>3, <1>19, CountOutcome DEF PubStages
<1>20. QED
    BY <1>1, <1>2, <1>4, <1>18, <1>19, Frames

\* What a consumer that has received a message works on is a message.
LEMMA Working ==
    ASSUME ConTypeOK, NEW q \in Queues, Busy(q)
    PROVE  con[q].msg \in Messages /\ con[q].loaded \in Nat /\ con[q] \in Con
<1>1. con[q] \in Con
    BY DEF ConTypeOK
<1>2. QED
    BY <1>1, MessageQueueAssumption DEF ConTypeOK, Con, Busy

\* The counters of a queue, the others being unchanged.
StatsMove(q, published, consumed, deadLettered) ==
    /\ stats' \in [Queues -> Stats] /\ \A x \in Queues \ {q} : stats'[x] = stats[x]
    /\ stats'[q].published = published /\ stats'[q].consumed = consumed
    /\ stats'[q].deadLettered = deadLettered

\* An increment of one counter leaves the others of the queue.
LEMMA StatsUpdate ==
    ASSUME stats \in [Queues -> Stats], NEW q \in Queues
    PROVE  /\ stats' = [stats EXCEPT ![q].published = @ + 1] =>
              StatsMove(q, stats[q].published + 1, stats[q].consumed, stats[q].deadLettered)
           /\ stats' = [stats EXCEPT ![q].consumed = @ + 1] =>
              StatsMove(q, stats[q].published, stats[q].consumed + 1, stats[q].deadLettered)
           /\ stats' = [stats EXCEPT ![q].deadLettered = @ + 1] =>
              StatsMove(q, stats[q].published, stats[q].consumed, stats[q].deadLettered + 1)
<1>1. stats[q] \in Stats
    OBVIOUS
<1>2. ASSUME stats' = [stats EXCEPT ![q].published = @ + 1]
      PROVE  StatsMove(q, stats[q].published + 1, stats[q].consumed, stats[q].deadLettered)
  <2> DEFINE new == [stats[q] EXCEPT !.published = @ + 1]
  <2>1. stats' = [stats EXCEPT ![q] = new]
      BY <1>2
  <2>2. /\ new \in Stats /\ new.published = stats[q].published + 1
        /\ new.consumed = stats[q].consumed /\ new.deadLettered = stats[q].deadLettered
      BY <1>1 DEF Stats
  <2> HIDE DEF new
  <2>3. QED
      BY <2>1, <2>2 DEF StatsMove
<1>3. ASSUME stats' = [stats EXCEPT ![q].consumed = @ + 1]
      PROVE  StatsMove(q, stats[q].published, stats[q].consumed + 1, stats[q].deadLettered)
  <2> DEFINE new == [stats[q] EXCEPT !.consumed = @ + 1]
  <2>1. stats' = [stats EXCEPT ![q] = new]
      BY <1>3
  <2>2. /\ new \in Stats /\ new.published = stats[q].published
        /\ new.consumed = stats[q].consumed + 1 /\ new.deadLettered = stats[q].deadLettered
      BY <1>1 DEF Stats
  <2> HIDE DEF new
  <2>3. QED
      BY <2>1, <2>2 DEF StatsMove
<1>4. ASSUME stats' = [stats EXCEPT ![q].deadLettered = @ + 1]
      PROVE  StatsMove(q, stats[q].published, stats[q].consumed, stats[q].deadLettered + 1)
  <2> DEFINE new == [stats[q] EXCEPT !.deadLettered = @ + 1]
  <2>1. stats' = [stats EXCEPT ![q] = new]
      BY <1>4
  <2>2. /\ new \in Stats /\ new.published = stats[q].published
        /\ new.consumed = stats[q].consumed /\ new.deadLettered = stats[q].deadLettered + 1
      BY <1>1 DEF Stats
  <2> HIDE DEF new
  <2>3. QED
      BY <2>1, <2>2 DEF StatsMove
<1>5. QED
    BY <1>2, <1>3, <1>4

\* The three ways to receive the message m: a stopped consumer ends with it, a
\* processed message is skipped, any other goes to the handler.
Abandons(q) ==
    /\ ~Open(q) /\ ConMovesTo(q, "ended", NoMsg, con[q].loaded)
    /\ abandoned' = [abandoned EXCEPT ![q] = @ + 1] /\ UNCHANGED skipped
Skips(q, m) ==
    /\ processed[m] /\ skipped' = [skipped EXCEPT ![q] = Append(@, m)]
    /\ UNCHANGED <<con, abandoned>>
Takes(q, m) ==
    /\ Open(q) /\ ~processed[m] /\ ConMovesTo(q, "handler", m, con[q].loaded)
    /\ UNCHANGED <<skipped, abandoned>>

\* A message is received in one of these ways.
LEMMA ReceiveOutcomes ==
    ASSUME ConTypeOK, NEW q \in Queues, Receive(q)
    PROVE  /\ con[q].pc = "receive" /\ con[q].msg = NoMsg
           /\ chan' = [chan EXCEPT ![q] = Tail(chan[q])]
           /\ Head(chan[q]) \in Messages /\ Tail(chan[q]) \in Seq(Messages)
           /\ Len(Tail(chan[q])) = Len(chan[q]) - 1
           /\ Abandons(q) \/ Skips(q, Head(chan[q])) \/ Takes(q, Head(chan[q]))
           /\ UNCHANGED <<dead, retries, processed, handled, failures, stats, panicked>>
<1> DEFINE m == Head(chan[q])
<1>1. /\ m \in Messages /\ Tail(chan[q]) \in Seq(Messages)
      /\ Len(Tail(chan[q])) = Len(chan[q]) - 1
    BY DEF Receive, ConTypeOK
<1>2. con[q].pc = "receive" /\ con[q].msg = NoMsg
    BY DEF Receive, ConTypeOK
<1>3. /\ UNCHANGED <<dead, retries, processed, handled, failures, stats, panicked>>
      /\ chan' = [chan EXCEPT ![q] = Tail(chan[q])]
    BY DEF Receive
<1> HIDE DEF m
<1>4. CASE ~Open(q)
  <2>1. /\ con' = [con EXCEPT ![q].pc = "ended"]
        /\ abandoned' = [abandoned EXCEPT ![q] = @ + 1] /\ UNCHANGED skipped
      BY <1>4 DEF Receive
  <2>2. ConMovesTo(q, "ended", NoMsg, con[q].loaded)
      BY <1>2, <2>1, ConSteps
  <2>3. Abandons(q)
      BY <1>4, <2>1, <2>2 DEF Abandons
  <2>4. QED
      BY <1>1, <1>2, <1>3, <2>3 DEF m
<1>5. CASE Open(q) /\ processed[m]
  <2>1. Skips(q, m)
      BY <1>5 DEF Receive, Skips, m
  <2>2. QED
      BY <1>1, <1>2, <1>3, <2>1 DEF m
<1>6. CASE Open(q) /\ ~processed[m]
  <2>1. con' = [con EXCEPT ![q].pc = "handler", ![q].msg = m] /\ UNCHANGED <<skipped, abandoned>>
      BY <1>6 DEF Receive, m
  <2>2. Takes(q, m)
      BY <1>1, <1>6, <2>1, ConSteps DEF Takes
  <2>3. QED
      BY <1>1, <1>2, <1>3, <2>2 DEF m
<1>7. QED
    BY <1>4, <1>5, <1>6

\* The consumers' state stays well typed.
LEMMA ConTypeStep ==
    ASSUME TopicTypeOK, ConTypeOK, [Next]_vars
    PROVE  ConTypeOK'
<1> USE MessageQueueAssumption
<1>1. CASE UNCHANGED <<conVars, history, chan, stats>>
    BY <1>1 DEF conVars, history, ConTypeOK
<1>2. ASSUME NEW m \in Messages, Send(m) PROVE ConTypeOK'
  <2>1. UNCHANGED <<conVars, history, stats>> /\ pub[m].to \in Queues
      BY <1>2, SendOutcomes
  <2>2. CASE UNCHANGED chan
      BY <2>1, <2>2 DEF conVars, history, ConTypeOK
  <2>3. CASE Sent(m, pub[m].to)
    <3>1. chan' \in [Queues -> Seq(Messages)]
        BY <2>1, <2>3 DEF Sent, ConTypeOK
    <3>2. QED
        BY <2>1, <3>1 DEF conVars, history, ConTypeOK
  <2>4. QED
      BY <1>2, <2>2, <2>3, SendOutcomes DEF Refused
<1>3. ASSUME NEW q \in Queues, NEW pc \in ConStages, NEW msg \in Messages \cup {NoMsg},
             NEW loaded, ConMovesTo(q, pc, msg, loaded),
             msg = NoMsg <=> pc \in {"receive", "ended"}
      PROVE  /\ con' \in [Queues -> Con]
             /\ \A x \in Queues : con'[x].msg = NoMsg <=> con'[x].pc \in {"receive", "ended"}
    BY <1>3 DEF ConMovesTo, ConTypeOK
<1>4. ASSUME NEW q \in Queues, Receive(q) PROVE ConTypeOK'
  <2> DEFINE m == Head(chan[q])
  <2>1. m \in Messages /\ Tail(chan[q]) \in Seq(Messages)
      BY <1>4, ReceiveOutcomes
  <2>2. chan' \in [Queues -> Seq(Messages)]
    <3>1. chan' = [chan EXCEPT ![q] = Tail(chan[q])]
        BY <1>4, ReceiveOutcomes
    <3>2. PICK rest \in Seq(Messages) : rest = Tail(chan[q])
        BY <2>1
    <3>3. chan \in [Queues -> Seq(Messages)]
        BY DEF ConTypeOK
    <3>4. QED
        BY <3>1, <3>2, <3>3
  <2>3. UNCHANGED <<dead, retries, processed, handled, failures, stats>>
      BY <1>4, ReceiveOutcomes
  <2> HIDE DEF m
  <2>4. CASE Abandons(q)
    <3>1. abandoned' \in [Queues -> Nat]
        BY <2>4 DEF Abandons, ConTypeOK
    <3>2. QED
        BY <1>3, <2>2, <2>3, <2>4, <3>1 DEF ConTypeOK, ConStages, Abandons
  <2>5. CASE Skips(q, m)
    <3>1. skipped' \in [Queues -> Seq(Messages)]
        BY <2>1, <2>5 DEF Skips, ConTypeOK
    <3>2. QED
        BY <2>2, <2>3, <2>5, <3>1 DEF ConTypeOK, Skips
  <2>6. CASE Takes(q, m)
      BY <1>3, <2>1, <2>2, <2>3, <2>6 DEF ConTypeOK, ConStages, Takes
  <2>7. QED
      BY <1>4, <2>4, <2>5, <2>6, ReceiveOutcomes DEF m
<1>5. ASSUME NEW q \in Queues, EndConsumer(q) PROVE ConTypeOK'
  <2>1. con[q].msg = NoMsg
      BY <1>5 DEF EndConsumer, ConMoves, ConTypeOK
  <2>2. ConMovesTo(q, "ended", NoMsg, con[q].loaded)
      BY <1>5, <2>1, ConSteps DEF EndConsumer, ConStages
  <2>3. QED
      BY <1>3, <1>5, <2>2 DEF EndConsumer, ConStages, history, ConTypeOK
<1>6. ASSUME NEW q \in Queues, HandlerSucceeds(q) PROVE ConTypeOK'
  <2>1. con[q].msg \in Messages
      BY <1>6, Working DEF HandlerSucceeds, Busy
  <2>2. ConMovesTo(q, "receive", NoMsg, 0)
      BY <1>6, ConSteps DEF HandlerSucceeds
  <2>3. stats' \in [Queues -> Stats]
      BY <1>6, StatsUpdate DEF HandlerSucceeds, ConTypeOK, StatsMove
  <2>4. /\ processed' \in [Messages -> BOOLEAN] /\ handled' \in [Queues -> Seq(Messages)]
        /\ UNCHANGED <<dead, retries, skipped, abandoned, failures, chan>>
      BY <1>6, <2>1 DEF HandlerSucceeds, ConTypeOK
  <2>5. QED
      BY <1>3, <2>2, <2>3, <2>4 DEF ConTypeOK, ConStages
<1>7. ASSUME NEW q \in Queues, HandlerFails(q) PROVE ConTypeOK'
  <2>1. con[q].msg \in Messages /\ retries[con[q].msg] \in Nat
      BY <1>7, Working DEF HandlerFails, Busy, ConTypeOK
  <2>2. ConMovesTo(q, "store", con[q].msg, retries[con[q].msg])
      BY <1>7, <2>1, ConSteps DEF HandlerFails
  <2>3. /\ failures' \in [Messages -> Nat]
        /\ UNCHANGED <<dead, retries, processed, handled, skipped, abandoned, chan, stats>>
      BY <1>7, <2>1 DEF HandlerFails, ConTypeOK
  <2>4. QED
      BY <1>3, <2>1, <2>2, <2>3 DEF ConTypeOK, ConStages
<1>8. ASSUME NEW q \in Queues, StoreRetries(q) PROVE ConTypeOK'
  <2>1. con[q].msg \in Messages /\ con[q].loaded \in Nat
      BY <1>8, Working DEF StoreRetries, ConMoves, Busy
  <2>2. ConMovesTo(q, "decide", con[q].msg, con[q].loaded)
      BY <1>8, ConSteps DEF StoreRetries, ConStages
  <2>3. /\ retries' \in [Messages -> Nat]
        /\ UNCHANGED <<dead, processed, history, chan, stats>>
      BY <1>8, <2>1 DEF StoreRetries, ConTypeOK
  <2>4. QED
      BY <1>3, <2>1, <2>2, <2>3 DEF ConTypeOK, ConStages, history
<1>9. ASSUME NEW q \in Queues, BuryDead(q) PROVE ConTypeOK'
  <2>1. con[q].msg \in Messages
      BY <1>9, Working DEF BuryDead, Busy
  <2>2. ConMovesTo(q, "receive", NoMsg, 0)
      BY <1>9, ConSteps DEF BuryDead
  <2>3. stats' \in [Queues -> Stats]
      BY <1>9, StatsUpdate DEF BuryDead, ConTypeOK, StatsMove
  <2>4. (IF Len(dead[q]) >= MaxDead THEN Tail(dead[q]) ELSE dead[q]) \in Seq(Messages)
      BY DEF ConTypeOK
  <2>5. /\ dead' \in [Queues -> Seq(Messages)]
        /\ UNCHANGED <<retries, processed, history, chan>>
      BY <1>9, <2>1, <2>4 DEF BuryDead, ConTypeOK
  <2>6. QED
      BY <1>3, <2>2, <2>3, <2>5 DEF ConTypeOK, ConStages, history
<1>10. ASSUME NEW q \in Queues, DecideRetry(q) PROVE ConTypeOK'
  <2>1. con[q].msg \in Messages
      BY <1>10, Working DEF DecideRetry, ConMoves, Busy
  <2>2. ConMovesTo(q, "requeue", con[q].msg, con[q].loaded)
      BY <1>10, ConSteps DEF DecideRetry, ConStages
  <2>3. QED
      BY <1>3, <1>10, <2>1, <2>2 DEF DecideRetry, ConTypeOK, ConStages, history
<1>11. ASSUME NEW q \in Queues, Requeue(q) PROVE ConTypeOK'
  <2>1. con[q].msg \in Messages
      BY <1>11, Working DEF Requeue, Busy
  <2>2. UNCHANGED <<dead, retries, processed, history, stats>>
      BY <1>11 DEF Requeue
  <2>3. CASE UNCHANGED <<chan, con>>
      BY <2>2, <2>3 DEF ConTypeOK, history
  <2>4. CASE chan' = [chan EXCEPT ![q] = Append(@, con[q].msg)] /\ Settle(q)
    <3>1. ConMovesTo(q, "receive", NoMsg, 0)
        BY <2>4, ConSteps
    <3>2. chan' \in [Queues -> Seq(Messages)]
        BY <2>1, <2>4 DEF ConTypeOK
    <3>3. QED
        BY <1>3, <2>2, <3>1, <3>2 DEF ConTypeOK, ConStages, history
  <2>5. QED
      BY <1>11, <2>3, <2>4 DEF Requeue
<1>12. ASSUME NEW q \in Queues, Consumer(q) PROVE ConTypeOK'
    BY <1>4, <1>5, <1>6, <1>7, <1>8, <1>9, <1>10, <1>11, <1>12 DEF Consumer
<1>13. CASE UNCHANGED vars
    BY <1>1, <1>13 DEF vars
<1>14. ASSUME NEW m \in Messages, CountPublished(m) PROVE ConTypeOK'
  <2>1. pub[m].to \in Queues /\ stats' = [stats EXCEPT ![pub[m].to].published = @ + 1]
      BY <1>14, CountOutcome
  <2>2. stats' \in [Queues -> Stats]
      BY <2>1, StatsUpdate DEF StatsMove, ConTypeOK
  <2>3. UNCHANGED <<conVars, history, chan>>
      BY <1>14, CountOutcome
  <2>4. QED
      BY <2>2, <2>3 DEF conVars, history, ConTypeOK
<1>15. QED
    BY <1>1, <1>2, <1>12, <1>13, <1>14, Frames

\* What was sent to a queue, counted or not yet.
SentTo(q) == stats[q].published + Cardinality(Counting(q))

\* A publisher that is neither counting before nor after a step leaves the
\* others counting; one that has sent is added, one that has counted is gone.
LEMMA CountingMoves ==
    ASSUME TopicTypeOK, NEW m \in Messages, NEW pc, NEW topic, NEW todo, NEW to,
           PubMoves(m, pc, topic, todo, to)
    PROVE  /\ pub[m].pc # "count" /\ pc # "count" =>
                \A x \in Queues : Counting(x)' = Counting(x)
           /\ pub[m].pc # "count" /\ pc = "count" =>
                /\ Counting(to)' = Counting(to) \cup {m} /\ m \notin Counting(to)
                /\ \A x \in Queues \ {to} : Counting(x)' = Counting(x)
           /\ pub[m].pc = "count" /\ pc # "count" =>
                \A x \in Queues :
                  IF x = pub[m].to THEN Counting(x)' = Counting(x) \ {m} /\ m \in Counting(x)
                  ELSE Counting(x)' = Counting(x)
<1>1. \A n \in Messages \ {m} : pub'[n] = pub[n]
    BY DEF PubMoves
<1>2. pub'[m].pc = pc /\ pub'[m].to = to
    BY DEF PubMoves
<1> DEFINE Counts(n, x) == pub[n].pc = "count" /\ pub[n].to = x
<1>3. \A x : /\ \A n \in Messages : n \in Counting(x) <=> Counts(n, x)
             /\ \A n \in Messages : n \in Counting(x)' <=> Counts(n, x)'
             /\ Counting(x) \subseteq Messages /\ Counting(x)' \subseteq Messages
    BY DEF Counting
<1>4. /\ \A x : \A n \in Messages \ {m} : Counts(n, x)' <=> Counts(n, x)
      /\ \A x : Counts(m, x)' <=> pc = "count" /\ to = x
      /\ \A x : Counts(m, x) <=> pub[m].pc = "count" /\ pub[m].to = x
    BY <1>1, <1>2
<1> HIDE DEF Counts
<1>5. \A x : ~Counts(m, x) /\ ~Counts(m, x)' => Counting(x)' = Counting(x)
    BY <1>3, <1>4
<1>6. \A x : ~Counts(m, x) /\ Counts(m, x)' =>
               Counting(x)' = Counting(x) \cup {m} /\ m \notin Counting(x)
    BY <1>3, <1>4
<1>7. \A x : Counts(m, x) /\ ~Counts(m, x)' =>
               Counting(x)' = Counting(x) \ {m} /\ m \in Counting(x)
    BY <1>3, <1>4
<1>8. ASSUME pub[m].pc # "count", pc # "count" PROVE \A x : Counting(x)' = Counting(x)
    BY <1>4, <1>5, <1>8
<1>9. ASSUME pub[m].pc # "count", pc = "count"
      PROVE  /\ Counting(to)' = Counting(to) \cup {m} /\ m \notin Counting(to)
             /\ \A x : x # to => Counting(x)' = Counting(x)
    BY <1>4, <1>5, <1>6, <1>9
<1>10. ASSUME pub[m].pc = "count", pc # "count"
       PROVE  \A x : IF x = pub[m].to
                    THEN Counting(x)' = Counting(x) \ {m} /\ m \in Counting(x)
                    ELSE Counting(x)' = Counting(x)
    BY <1>4, <1>5, <1>7, <1>10
<1>11. QED
    BY <1>8, <1>9, <1>10

\* The publishers that count are finitely many.
LEMMA CountingFinite ==
    ASSUME NEW q
    PROVE  IsFiniteSet(Counting(q)) /\ Cardinality(Counting(q)) \in Nat
<1>1. Counting(q) \subseteq Messages
    BY DEF Counting
<1>2. QED
    BY <1>1, FS_Subset, FS_CardinalityType, MessageQueueAssumption

\* The books of one queue: sent, waiting, in hand, consumed, dead,
\* skipped, abandoned.
Balanced(p, l, i, c, d, s, a) == p = l + i + c + d + s + a
Books(q) ==
    /\ Balanced(SentTo(q), Len(chan[q]), InHand(q), stats[q].consumed,
                stats[q].deadLettered, Len(skipped[q]), abandoned[q])
    /\ stats[q].consumed = Len(handled[q])

\* What the books are kept in, for a queue that no step touches.
SameBooks(x) ==
    /\ chan'[x] = chan[x] /\ con'[x] = con[x] /\ stats'[x] = stats[x]
    /\ skipped'[x] = skipped[x] /\ abandoned'[x] = abandoned[x] /\ handled'[x] = handled[x]
    /\ Counting(x)' = Counting(x)

\* The entries that a copy makes on its way.
LEMMA Entries ==
    ASSUME NEW p \in Nat, NEW l \in Nat, NEW i \in Nat, NEW c \in Nat, NEW d \in Nat,
           NEW s \in Nat, NEW a \in Nat, Balanced(p, l, i, c, d, s, a)
    PROVE  /\ Balanced(p + 1, l + 1, i, c, d, s, a)
           /\ i = 0 => /\ Balanced(p, l - 1, 1, c, d, s, a)
                       /\ Balanced(p, l - 1, 0, c, d, s + 1, a)
                       /\ Balanced(p, l - 1, 0, c, d, s, a + 1)
           /\ i = 1 => /\ Balanced(p, l + 1, 0, c, d, s, a)
                       /\ Balanced(p, l, 0, c + 1, d, s, a)
                       /\ Balanced(p, l, 0, c, d + 1, s, a)
BY DEF Balanced

\* Every step moves a copy from one place to another, in the books of its queue.
LEMMA AccountedStep ==
    ASSUME TopicTypeOK, ConTypeOK, ConTypeOK', Accounted, [Next]_vars
    PROVE  Accounted'
<1> USE MessageQueueAssumption
<1>0. Accounted => \A q \in Queues : Books(q)
    BY DEF Accounted, Books, Balanced, SentTo
<1>1. ASSUME NEW q \in Queues, \A x \in Queues \ {q} : SameBooks(x), Books(q)'
      PROVE  Accounted'
  <2>1. \A x \in Queues \ {q} : Books(x)'
      BY <1>0, <1>1 DEF Books, SameBooks, InHand, SentTo
  <2>2. QED
      BY <1>1, <2>1 DEF Accounted, Books, Balanced, SentTo
<1>c. ASSUME UNCHANGED pub PROVE \A x \in Queues : Counting(x)' = Counting(x)
    BY <1>c DEF Counting
<1>2. ASSUME UNCHANGED <<conVars, history, chan, stats>>,
             \A x \in Queues : Counting(x)' = Counting(x)
      PROVE  Accounted'
    BY <1>2 DEF conVars, history, Accounted, InHand
<1>3. ASSUME NEW q \in Queues
      PROVE  /\ chan[q] \in Seq(Messages) /\ handled[q] \in Seq(Messages)
             /\ skipped[q] \in Seq(Messages) /\ abandoned[q] \in Nat
             /\ Len(chan[q]) \in Nat /\ Len(handled[q]) \in Nat /\ Len(skipped[q]) \in Nat
             /\ SentTo(q) \in Nat /\ stats[q].consumed \in Nat
             /\ stats[q].deadLettered \in Nat /\ InHand(q) \in Nat
  <2>1. /\ chan[q] \in Seq(Messages) /\ handled[q] \in Seq(Messages)
        /\ skipped[q] \in Seq(Messages) /\ abandoned[q] \in Nat /\ stats[q] \in Stats
      BY DEF ConTypeOK
  <2>2. Len(chan[q]) \in Nat /\ Len(handled[q]) \in Nat /\ Len(skipped[q]) \in Nat
      BY <2>1
  <2>3. /\ stats[q].published \in Nat /\ stats[q].consumed \in Nat
        /\ stats[q].deadLettered \in Nat
      BY <2>1 DEF Stats
  <2>4. QED
      BY <2>1, <2>2, <2>3, CountingFinite DEF InHand, SentTo
<1>b. ASSUME NEW q \in Queues
      PROVE  /\ Balanced(SentTo(q) + 1, Len(chan[q]) + 1, InHand(q), stats[q].consumed,
                         stats[q].deadLettered, Len(skipped[q]), abandoned[q])
             /\ InHand(q) = 0 => /\ Balanced(SentTo(q), Len(chan[q]) - 1, 1, stats[q].consumed,
                                             stats[q].deadLettered, Len(skipped[q]), abandoned[q])
                                 /\ Balanced(SentTo(q), Len(chan[q]) - 1, 0, stats[q].consumed,
                                             stats[q].deadLettered, Len(skipped[q]) + 1, abandoned[q])
                                 /\ Balanced(SentTo(q), Len(chan[q]) - 1, 0, stats[q].consumed,
                                             stats[q].deadLettered, Len(skipped[q]), abandoned[q] + 1)
             /\ InHand(q) = 1 => /\ Balanced(SentTo(q), Len(chan[q]) + 1, 0, stats[q].consumed,
                                             stats[q].deadLettered, Len(skipped[q]), abandoned[q])
                                 /\ Balanced(SentTo(q), Len(chan[q]), 0, stats[q].consumed + 1,
                                             stats[q].deadLettered, Len(skipped[q]), abandoned[q])
                                 /\ Balanced(SentTo(q), Len(chan[q]), 0, stats[q].consumed,
                                             stats[q].deadLettered + 1, Len(skipped[q]), abandoned[q])
  <2>1. Balanced(SentTo(q), Len(chan[q]), InHand(q), stats[q].consumed,
                 stats[q].deadLettered, Len(skipped[q]), abandoned[q])
      BY <1>0 DEF Books
  <2>2. QED
      BY <1>3, <2>1, Entries
<1>4. ASSUME NEW m \in Messages, Send(m) PROVE Accounted'
  <2>0. PICK q \in Queues : q = pub[m].to
      BY <1>4, SendOutcomes
  <2>1. UNCHANGED <<conVars, history, stats>> /\ pub[m].pc # "count"
      BY <1>4, SendOutcomes
  <2>2. CASE UNCHANGED <<chan, pub>>
      BY <1>2, <1>c, <2>1, <2>2
  <2>3. CASE Sent(m, q)
    <3>1. /\ Counting(q)' = Counting(q) \cup {m} /\ m \notin Counting(q)
          /\ \A x \in Queues \ {q} : Counting(x)' = Counting(x)
        BY <2>1, <2>3, CountingMoves DEF Sent
    <3>2. SentTo(q)' = SentTo(q) + 1
      <4>1. Cardinality(Counting(q) \cup {m}) = Cardinality(Counting(q)) + 1
          BY <3>1, CountingFinite, FS_AddElement
      <4>2. stats[q].published \in Nat /\ Cardinality(Counting(q)) \in Nat
          BY CountingFinite DEF ConTypeOK, Stats
      <4>3. QED
          BY <2>1, <3>1, <4>1, <4>2 DEF SentTo
    <3>3. chan'[q] = Append(chan[q], m) /\ Len(chan'[q]) = Len(chan[q]) + 1
        BY <1>3, <2>1, <2>3 DEF Sent, ConTypeOK
    <3>4. \A x \in Queues \ {q} : SameBooks(x)
        BY <2>1, <2>3, <3>1 DEF Sent, SameBooks, conVars, history, ConTypeOK
    <3>5. InHand(q)' = InHand(q) /\ UNCHANGED <<skipped, abandoned, handled>>
        BY <2>1 DEF InHand, conVars, history
    <3>6. Books(q)'
        BY <1>0, <1>b, <2>1, <3>2, <3>3, <3>5 DEF Books
    <3>7. QED
        BY <1>1, <3>4, <3>6
  <2>4. CASE Refused(m, q)
    <3>1. \A x \in Queues : Counting(x)' = Counting(x)
        BY <2>1, <2>4, CountingMoves DEF Refused
    <3>2. QED
        BY <1>2, <2>1, <2>4, <3>1 DEF Refused
  <2>5. QED
      BY <1>4, <2>0, <2>2, <2>3, <2>4, SendOutcomes
<1>a. ASSUME NEW m \in Messages, CountPublished(m) PROVE Accounted'
  <2>0. PICK q \in Queues : q = pub[m].to
      BY <1>a, CountOutcome
  <2>1. /\ UNCHANGED <<conVars, history, chan>> /\ pub[m].pc = "count"
        /\ stats' = [stats EXCEPT ![q].published = @ + 1]
        /\ PubMoves(m, "loop", pub[m].topic, pub[m].todo, NoQueue)
      BY <1>a, <2>0, CountOutcome
  <2>2. /\ Counting(q)' = Counting(q) \ {m} /\ m \in Counting(q)
        /\ \A x \in Queues \ {q} : Counting(x)' = Counting(x)
      BY <2>0, <2>1, CountingMoves
  <2>3. StatsMove(q, stats[q].published + 1, stats[q].consumed, stats[q].deadLettered)
      BY <2>1, StatsUpdate DEF ConTypeOK
  <2>4. SentTo(q)' = SentTo(q)
    <3>1. Cardinality(Counting(q) \ {m}) = Cardinality(Counting(q)) - 1
        BY <2>2, CountingFinite, FS_RemoveElement
    <3>2. stats[q].published \in Nat /\ Cardinality(Counting(q)) \in Nat
        BY CountingFinite DEF ConTypeOK, Stats
    <3>3. QED
        BY <2>2, <2>3, <3>1, <3>2 DEF SentTo, StatsMove
  <2>5. \A x \in Queues \ {q} : SameBooks(x)
      BY <2>1, <2>2, <2>3 DEF SameBooks, StatsMove, conVars, history
  <2>6. Books(q)'
      BY <1>0, <2>1, <2>3, <2>4 DEF Books, StatsMove, InHand, conVars, history
  <2>7. QED
      BY <1>1, <2>5, <2>6
<1>5. ASSUME NEW q \in Queues, Receive(q), UNCHANGED pub PROVE Accounted'
  <2>c. \A x \in Queues : Counting(x)' = Counting(x)
      BY <1>c, <1>5
  <2> DEFINE m == Head(chan[q])
  <2>1. /\ con[q].msg = NoMsg /\ chan'[q] = Tail(chan[q])
        /\ Len(chan'[q]) = Len(chan[q]) - 1
        /\ \A x \in Queues \ {q} : chan'[x] = chan[x]
        /\ UNCHANGED <<handled, stats>> /\ m \in Messages
    <3>1. /\ chan' = [chan EXCEPT ![q] = Tail(chan[q])] /\ con[q].msg = NoMsg
          /\ Len(Tail(chan[q])) = Len(chan[q]) - 1
          /\ UNCHANGED <<handled, stats>> /\ m \in Messages
        BY <1>5, ReceiveOutcomes
    <3>2. chan \in [Queues -> Seq(Messages)]
        BY DEF ConTypeOK
    <3> HIDE DEF m
    <3>3. QED
        BY <3>1, <3>2
  <2>2. InHand(q) = 0
      BY <2>1 DEF InHand
  <2> HIDE DEF m
  <2>3. CASE Abandons(q)
    <3>1. abandoned'[q] = abandoned[q] + 1 /\ InHand(q)' = 0 /\ skipped' = skipped
        BY <2>3 DEF Abandons, ConMovesTo, InHand, ConTypeOK
    <3>2. Books(q)'
        BY <1>0, <1>b, <2>c, <2>1, <2>2, <3>1 DEF Books, SentTo
    <3>3. \A x \in Queues \ {q} : SameBooks(x)
        BY <2>c, <2>1, <2>3 DEF Abandons, ConMovesTo, ConTypeOK, SameBooks
    <3>4. QED
        BY <1>1, <3>2, <3>3
  <2>4. CASE Skips(q, m)
    <3>1. /\ Len(skipped'[q]) = Len(skipped[q]) + 1 /\ InHand(q)' = 0
          /\ abandoned' = abandoned
        BY <1>3, <2>1, <2>2, <2>4 DEF Skips, InHand, ConTypeOK
    <3>2. Books(q)'
        BY <1>0, <1>b, <2>c, <2>1, <2>2, <3>1 DEF Books, SentTo
    <3>3. \A x \in Queues \ {q} : SameBooks(x)
        BY <2>c, <2>1, <2>4 DEF Skips, ConTypeOK, SameBooks
    <3>4. QED
        BY <1>1, <3>2, <3>3
  <2>5. CASE Takes(q, m)
    <3>1. InHand(q)' = 1 /\ UNCHANGED <<skipped, abandoned>>
        BY <2>1, <2>5 DEF Takes, ConMovesTo, InHand
    <3>2. Books(q)'
        BY <1>0, <1>b, <2>c, <2>1, <2>2, <3>1 DEF Books, SentTo
    <3>3. \A x \in Queues \ {q} : SameBooks(x)
        BY <2>c, <2>1, <2>5 DEF Takes, ConMovesTo, SameBooks
    <3>4. QED
        BY <1>1, <3>2, <3>3
  <2>6. QED
      BY <1>5, <2>3, <2>4, <2>5, ReceiveOutcomes DEF m
<1>6. ASSUME NEW q \in Queues, HandlerSucceeds(q), UNCHANGED pub PROVE Accounted'
  <2>c. \A x \in Queues : Counting(x)' = Counting(x)
      BY <1>c, <1>6
  <2>1. con[q].msg \in Messages
      BY <1>6, Working DEF HandlerSucceeds, Busy
  <2>2. InHand(q) = 1
      BY <2>1 DEF InHand
  <2>3. ConMovesTo(q, "receive", NoMsg, 0)
      BY <1>6, ConSteps DEF HandlerSucceeds
  <2>4. StatsMove(q, stats[q].published, stats[q].consumed + 1, stats[q].deadLettered)
      BY <1>6, StatsUpdate DEF HandlerSucceeds, ConTypeOK
  <2>5. /\ handled'[q] = Append(handled[q], con[q].msg) /\ UNCHANGED <<skipped, abandoned, chan>>
        /\ \A x \in Queues \ {q} : handled'[x] = handled[x]
      BY <1>6 DEF HandlerSucceeds, ConTypeOK
  <2>6. Len(handled'[q]) = Len(handled[q]) + 1
      BY <1>3, <2>1, <2>5
  <2>7. Books(q)'
      BY <1>0, <1>b, <2>c, <2>2, <2>3, <2>4, <2>5, <2>6 DEF Books, SentTo, StatsMove, ConMovesTo, InHand
  <2>8. \A x \in Queues \ {q} : SameBooks(x)
      BY <2>c, <2>3, <2>4, <2>5 DEF StatsMove, ConMovesTo, SameBooks
  <2>9. QED
      BY <1>1, <2>7, <2>8
<1>7. ASSUME NEW q \in Queues, BuryDead(q), UNCHANGED pub PROVE Accounted'
  <2>c. \A x \in Queues : Counting(x)' = Counting(x)
      BY <1>c, <1>7
  <2>1. con[q].msg \in Messages
      BY <1>7, Working DEF BuryDead, Busy
  <2>2. InHand(q) = 1
      BY <2>1 DEF InHand
  <2>3. ConMovesTo(q, "receive", NoMsg, 0)
      BY <1>7, ConSteps DEF BuryDead
  <2>4. StatsMove(q, stats[q].published, stats[q].consumed, stats[q].deadLettered + 1)
      BY <1>7, StatsUpdate DEF BuryDead, ConTypeOK
  <2>5. UNCHANGED <<handled, skipped, abandoned, chan>>
      BY <1>7 DEF BuryDead, history
  <2>6. Books(q)'
      BY <1>0, <1>b, <2>c, <2>2, <2>3, <2>4, <2>5 DEF Books, SentTo, StatsMove, ConMovesTo, InHand
  <2>7. \A x \in Queues \ {q} : SameBooks(x)
      BY <2>c, <2>3, <2>4, <2>5 DEF StatsMove, ConMovesTo, SameBooks
  <2>8. QED
      BY <1>1, <2>6, <2>7
<1>8. ASSUME NEW q \in Queues, Requeue(q), UNCHANGED pub PROVE Accounted'
  <2>c. \A x \in Queues : Counting(x)' = Counting(x)
      BY <1>c, <1>8
  <2>1. con[q].msg \in Messages
      BY <1>8, Working DEF Requeue, Busy
  <2>2. InHand(q) = 1
      BY <2>1 DEF InHand
  <2>3. UNCHANGED <<handled, skipped, abandoned, stats>>
      BY <1>8 DEF Requeue, history
  <2>4. CASE UNCHANGED <<chan, con>>
      BY <2>c, <2>3, <2>4 DEF Accounted, InHand
  <2>5. CASE chan' = [chan EXCEPT ![q] = Append(@, con[q].msg)] /\ Settle(q)
    <3>1. ConMovesTo(q, "receive", NoMsg, 0)
        BY <2>5, ConSteps
    <3>2. Len(chan'[q]) = Len(chan[q]) + 1 /\ \A x \in Queues \ {q} : chan'[x] = chan[x]
        BY <1>3, <2>1, <2>5 DEF ConTypeOK
    <3>3. Books(q)'
        BY <1>0, <1>b, <2>c, <2>2, <2>3, <3>1, <3>2 DEF Books, SentTo, ConMovesTo, InHand
    <3>4. \A x \in Queues \ {q} : SameBooks(x)
        BY <2>c, <2>3, <3>1, <3>2 DEF ConMovesTo, SameBooks
    <3>5. QED
        BY <1>1, <3>3, <3>4
  <2>6. QED
      BY <1>8, <2>4, <2>5 DEF Requeue
<1>9. ASSUME NEW q \in Queues, NEW pc, NEW loaded, ConMovesTo(q, pc, con[q].msg, loaded),
             UNCHANGED <<handled, skipped, abandoned, stats, chan, pub>>
      PROVE  Accounted'
  <2>1. \A x \in Queues : InHand(x)' = InHand(x) /\ Counting(x)' = Counting(x)
      BY <1>c, <1>9 DEF ConMovesTo, InHand
  <2>2. QED
      BY <1>9, <2>1 DEF Accounted
<1>10. ASSUME NEW q \in Queues, HandlerFails(q), UNCHANGED pub PROVE Accounted'
  <2>1. retries[con[q].msg] \in Nat
      BY <1>10, Working DEF HandlerFails, Busy, ConTypeOK
  <2>2. QED
      BY <1>9, <1>10, <2>1, ConSteps DEF HandlerFails
<1>11. ASSUME NEW q \in Queues, EndConsumer(q) \/ StoreRetries(q) \/ DecideRetry(q),
              UNCHANGED pub
       PROVE  Accounted'
  <2>1. \E pc : ConMovesTo(q, pc, con[q].msg, con[q].loaded)
      BY <1>11, ConSteps DEF EndConsumer, StoreRetries, DecideRetry, ConStages
  <2>2. UNCHANGED <<handled, skipped, abandoned, stats, chan>>
      BY <1>11 DEF EndConsumer, StoreRetries, DecideRetry, history
  <2>3. QED
      BY <1>9, <1>11, <2>1, <2>2
<1>12. ASSUME NEW q \in Queues, Consumer(q), UNCHANGED pub PROVE Accounted'
    BY <1>5, <1>6, <1>7, <1>8, <1>10, <1>11, <1>12 DEF Consumer
<1>13. CASE UNCHANGED vars
    BY <1>2, <1>c, <1>13 DEF vars, callerVars, pubVars
<1>14. ASSUME Caller, UNCHANGED <<conVars, history, chan, stats>> PROVE Accounted'
  <2>1. \A x \in Queues : Counting(x)' = Counting(x)
      BY <1>c, <1>14, CallerMoves, CountingMoves
  <2>2. QED
      BY <1>2, <1>14, <2>1
<1>15. QED
    BY <1>4, <1>a, <1>12, <1>13, <1>14, Frames DEF callerVars, pubVars

\* Appending a new element to an injective sequence.
LEMMA AppendNew ==
    ASSUME NEW S, NEW s \in Seq(S), NEW e \in S
    PROVE  /\ Range(Append(s, e)) = Range(s) \cup {e}
           /\ IsInjective(s) /\ e \notin Range(s) => IsInjective(Append(s, e))
<1> DEFINE t == Append(s, e)
<1>1. /\ t \in Seq(S) /\ Len(t) = Len(s) + 1 /\ DOMAIN t = 1..(Len(s) + 1)
      /\ DOMAIN s = 1..Len(s) /\ t[Len(s) + 1] = e /\ Len(s) \in Nat
      /\ \A i \in 1..Len(s) : t[i] = s[i]
    OBVIOUS
<1> HIDE DEF t
<1>2. Range(t) = Range(s) \cup {e}
  <2>1. \A x \in Range(t) : x \in Range(s) \cup {e}
      BY <1>1 DEF Range
  <2>2. \A x \in Range(s) : x \in Range(t)
      BY <1>1 DEF Range
  <2>3. e \in Range(t)
      BY <1>1 DEF Range
  <2>4. QED
      BY <2>1, <2>2, <2>3
<1>3. ASSUME IsInjective(s), e \notin Range(s) PROVE IsInjective(t)
  <2>1. \A i \in 1..Len(s) : t[i] # e
      BY <1>1, <1>3 DEF Range
  <2>2. \A i, j \in 1..(Len(s) + 1) : t[i] = t[j] => i = j
      BY <1>1, <1>3, <2>1 DEF IsInjective
  <2>3. QED
      BY <1>1, <2>2 DEF IsInjective
<1>4. QED
    BY <1>2, <1>3 DEF t

\* A handler accepts a message that it has not accepted before.
LEMMA HandledStep ==
    ASSUME TopicTypeOK, ConTypeOK, HandledInv, [Next]_vars
    PROVE  HandledInv'
<1> USE MessageQueueAssumption
<1>1. CASE UNCHANGED <<con, processed, handled, skipped>>
    BY <1>1 DEF HandledInv, HandledOnce
<1>2. ASSUME NEW q \in Queues, NEW pc, NEW msg, NEW loaded, ConMovesTo(q, pc, msg, loaded),
             msg \notin Range(handled[q]), UNCHANGED <<handled, skipped, processed>>
      PROVE  HandledInv'
    BY <1>2 DEF ConMovesTo, HandledInv, HandledOnce
<1>3. ASSUME NEW q \in Queues PROVE NoMsg \notin Range(handled[q])
    BY RangeOfSeq DEF ConTypeOK
<1>4. ASSUME NEW q \in Queues, Receive(q) PROVE HandledInv'
  <2>0. PICK m \in Messages : m = Head(chan[q])
      BY <1>4, ReceiveOutcomes
  <2>1. UNCHANGED <<handled, processed>>
      BY <1>4, ReceiveOutcomes
  <2>2. CASE Abandons(q)
      BY <1>2, <1>3, <2>1, <2>2 DEF Abandons
  <2>3. CASE Skips(q, m)
    <3>1. \E x \in Queues : m \in Range(handled[x])
        BY <2>3 DEF Skips, HandledInv
    <3>2. /\ \A x \in Queues \ {q} : skipped'[x] = skipped[x]
          /\ skipped'[q] = Append(skipped[q], m) /\ con' = con
        BY <2>3 DEF Skips, ConTypeOK
    <3>3. Range(skipped'[q]) = Range(skipped[q]) \cup {m}
        BY <3>2, AppendNew DEF ConTypeOK
    <3>4. \A x \in Queues : \A n \in Range(skipped'[x]) : \E y \in Queues : n \in Range(handled[y])
      <4>1. \A x \in Queues : \A n \in Range(skipped[x]) : \E y \in Queues : n \in Range(handled[y])
          BY DEF HandledInv, HandledOnce
      <4>2. \A x \in Queues : \A n \in Range(skipped'[x]) : n \in Range(skipped[x]) \/ n = m
        <5>1. \A x \in Queues \ {q} : Range(skipped'[x]) = Range(skipped[x])
            BY <3>2
        <5>2. QED
            BY <3>3, <5>1
      <4>3. QED
        <5> SUFFICES ASSUME NEW x \in Queues, NEW n \in Range(skipped'[x])
                     PROVE  \E y \in Queues : n \in Range(handled[y])
            OBVIOUS
        <5>1. CASE n = m
            BY <3>1, <5>1
        <5>2. CASE n \in Range(skipped[x])
            BY <4>1, <5>2
        <5>3. QED
            BY <4>2, <5>1, <5>2
    <3>5. QED
      <4>1. HandledOnce'
          BY <2>1, <3>4 DEF HandledInv, HandledOnce
      <4>2. QED
          BY <2>1, <3>2, <4>1 DEF HandledInv
  <2>4. CASE Takes(q, m)
    <3>1. m \notin Range(handled[q])
        BY <2>4 DEF Takes, HandledInv
    <3>2. QED
        BY <1>2, <2>1, <2>4, <3>1 DEF Takes
  <2>5. QED
      BY <1>4, <2>0, <2>2, <2>3, <2>4, ReceiveOutcomes
<1>5. ASSUME NEW q \in Queues, HandlerSucceeds(q) PROVE HandledInv'
  <2>0. PICK m \in Messages : m = con[q].msg
      BY <1>5, Working DEF HandlerSucceeds, Busy
  <2>1. /\ handled'[q] = Append(handled[q], m) /\ UNCHANGED skipped
        /\ \A x \in Queues \ {q} : handled'[x] = handled[x]
        /\ processed'[m] = TRUE /\ \A n \in Messages \ {m} : processed'[n] = processed[n]
      BY <1>5, <2>0 DEF HandlerSucceeds, ConTypeOK
  <2>2. ConMovesTo(q, "receive", NoMsg, 0)
      BY <1>5, ConSteps DEF HandlerSucceeds
  <2>3. m \notin Range(handled[q])
      BY <2>0 DEF HandledInv
  <2>4. Range(handled'[q]) = Range(handled[q]) \cup {m} /\ IsInjective(handled'[q])
      BY <2>1, <2>3, AppendNew DEF HandledInv, HandledOnce, ConTypeOK
  <2>5. \A x \in Queues \ {q} : Range(handled'[x]) = Range(handled[x]) /\ IsInjective(handled'[x])
      BY <2>1 DEF HandledInv, HandledOnce
  <2>6. HandledOnce'
    <3>1. \A x \in Queues : IsInjective(handled'[x])
        BY <2>4, <2>5
    <3>2. \A x \in Queues : Range(handled[x]) \subseteq Range(handled'[x])
        BY <2>4, <2>5
    <3>3. \A x \in Queues : \A n \in Range(skipped[x]) : \E y \in Queues : n \in Range(handled[y])
        BY DEF HandledInv, HandledOnce
    <3>4. \A x \in Queues : \A n \in Range(skipped[x]) : \E y \in Queues : n \in Range(handled'[y])
        BY <3>2, <3>3
    <3>5. QED
        BY <2>1, <3>1, <3>4 DEF HandledOnce
  <2>7. \A n \in Messages : processed'[n] <=> \E x \in Queues : n \in Range(handled'[x])
    <3>1. \A n \in Messages \ {m} : \A x \in Queues : n \in Range(handled'[x]) <=> n \in Range(handled[x])
        BY <2>4, <2>5
    <3>2. \A n \in Messages : processed[n] <=> \E x \in Queues : n \in Range(handled[x])
        BY DEF HandledInv
    <3>3. ASSUME NEW n \in Messages \ {m}
          PROVE  processed'[n] <=> \E x \in Queues : n \in Range(handled'[x])
        BY <2>1, <3>1, <3>2, Zenon
    <3>4. processed'[m] /\ \E x \in Queues : m \in Range(handled'[x])
        BY <2>1, <2>4
    <3>5. QED
        BY <3>3, <3>4, Zenon
  <2>8. \A x \in Queues : con'[x].msg \notin Range(handled'[x])
      BY <1>3, <2>0, <2>2, <2>4, <2>5 DEF ConMovesTo, HandledInv
  <2>9. QED
      BY <2>6, <2>7, <2>8 DEF HandledInv
<1>6. ASSUME NEW q \in Queues PROVE con[q].msg \notin Range(handled[q])
    BY DEF HandledInv
<1>7. ASSUME NEW q \in Queues, HandlerFails(q) PROVE HandledInv'
  <2>1. retries[con[q].msg] \in Nat
      BY <1>7, Working DEF HandlerFails, Busy, ConTypeOK
  <2>2. ConMovesTo(q, "store", con[q].msg, retries[con[q].msg])
      BY <1>7, <2>1, ConSteps DEF HandlerFails
  <2>3. QED
      BY <1>2, <1>6, <1>7, <2>2 DEF HandlerFails
<1>8. ASSUME NEW q \in Queues, EndConsumer(q) \/ StoreRetries(q) \/ DecideRetry(q)
      PROVE  HandledInv'
  <2>1. \E pc : ConMovesTo(q, pc, con[q].msg, con[q].loaded)
      BY <1>8, ConSteps DEF EndConsumer, StoreRetries, DecideRetry, ConStages
  <2>2. UNCHANGED <<handled, skipped, processed>>
      BY <1>8 DEF EndConsumer, StoreRetries, DecideRetry, history
  <2>3. QED
      BY <1>2, <1>6, <2>1, <2>2
<1>9. ASSUME NEW q \in Queues, BuryDead(q) PROVE HandledInv'
  <2>1. ConMovesTo(q, "receive", NoMsg, 0)
      BY <1>9, ConSteps DEF BuryDead
  <2>2. QED
      BY <1>2, <1>3, <1>9, <2>1 DEF BuryDead, history
<1>10. ASSUME NEW q \in Queues, Requeue(q) PROVE HandledInv'
  <2>1. UNCHANGED <<handled, skipped, processed>>
      BY <1>10 DEF Requeue, history
  <2>2. CASE UNCHANGED con
      BY <1>1, <2>1, <2>2
  <2>3. CASE Settle(q)
    <3>1. ConMovesTo(q, "receive", NoMsg, 0)
        BY <2>3, ConSteps
    <3>2. QED
        BY <1>2, <1>3, <2>1, <3>1
  <2>4. QED
      BY <1>10, <2>2, <2>3 DEF Requeue
<1>11. ASSUME NEW q \in Queues, Consumer(q) PROVE HandledInv'
    BY <1>4, <1>5, <1>7, <1>8, <1>9, <1>10, <1>11 DEF Consumer
<1>12. CASE UNCHANGED vars
    BY <1>1, <1>12 DEF vars, conVars, history
<1>13. CASE UNCHANGED <<conVars, history>>
    BY <1>1, <1>13 DEF conVars, history
<1>14. QED
    BY <1>11, <1>12, <1>13, Frames, SendOutcomes, CountOutcome

\* The errors of handlers run ahead of Retries, whose increments may be lost.
LEMMA RetriesStep ==
    ASSUME TopicTypeOK, ConTypeOK, ConTypeOK', RetriesInv, [Next]_vars
    PROVE  RetriesInv'
<1> USE MessageQueueAssumption
<1>0. \A q \in Queues : con[q].pc = "store" => con[q].msg \in Messages /\ con[q].loaded \in Nat
    BY Working DEF Busy
<1>1. CASE UNCHANGED <<con, dead, retries, failures>>
    BY <1>1 DEF RetriesInv, DeadOnlyAfterRetries, Lags
<1>2. ASSUME NEW q \in Queues, NEW pc, NEW msg, NEW loaded, ConMovesTo(q, pc, msg, loaded),
             pc # "store", UNCHANGED <<dead, retries, failures>>
      PROVE  RetriesInv'
    BY <1>2 DEF ConMovesTo, RetriesInv, DeadOnlyAfterRetries, Lags
<1>3. ASSUME NEW q \in Queues, Receive(q) PROVE RetriesInv'
  <2>1. UNCHANGED <<dead, retries, failures>>
      BY <1>3, ReceiveOutcomes
  <2>2. QED
      BY <1>1, <1>2, <1>3, <2>1, ReceiveOutcomes DEF Abandons, Skips, Takes
<1>4. ASSUME NEW q \in Queues, HandlerSucceeds(q) PROVE RetriesInv'
    BY <1>2, <1>4, ConSteps DEF HandlerSucceeds
<1>5. ASSUME NEW q \in Queues, HandlerFails(q) PROVE RetriesInv'
  <2>0. PICK m \in Messages : m = con[q].msg
      BY <1>5, Working DEF HandlerFails, Busy
  <2>1. /\ retries[m] \in Nat /\ failures \in [Messages -> Nat] /\ dead \in [Queues -> Seq(Messages)]
        /\ UNCHANGED <<dead, retries>>
        /\ failures' = [failures EXCEPT ![m] = IF @ < MaxRetries THEN @ + 1 ELSE @]
      BY <1>5, <2>0 DEF HandlerFails, ConTypeOK
  <2>2. ConMovesTo(q, "store", m, retries[m])
      BY <1>5, <2>0, <2>1, ConSteps DEF HandlerFails
  <2>3. /\ \A n \in Messages : failures'[n] \in Nat /\ failures'[n] >= failures[n]
        /\ failures'[m] >= MaxRetries \/ failures'[m] = failures[m] + 1
      BY <2>1
  <2>4. Lags(m, retries[m] + 1)'
      BY <2>1, <2>3 DEF Lags, RetriesInv
  <2>5. DeadOnlyAfterRetries'
    <3>1. \A x \in Queues : \A i \in DOMAIN dead[x] : dead[x][i] \in Messages
        BY <2>1
    <3>2. \A x \in Queues : \A i \in DOMAIN dead[x] : failures[dead[x][i]] >= MaxRetries
        BY DEF RetriesInv, DeadOnlyAfterRetries
    <3>3. \A n \in Messages : failures[n] >= MaxRetries => failures'[n] >= MaxRetries
        BY <2>1, <2>3
    <3>4. QED
        BY <2>1, <3>1, <3>2, <3>3 DEF DeadOnlyAfterRetries
  <2>6. \A n \in Messages : Lags(n, retries[n])'
    <3>1. \A n \in Messages : retries[n] \in Nat /\ Lags(n, retries[n])
        BY DEF RetriesInv, ConTypeOK
    <3>2. QED
        BY <2>1, <2>3, <3>1 DEF Lags
  <2>7. ASSUME NEW x \in Queues, con'[x].pc = "store" PROVE Lags(con[x].msg, con[x].loaded + 1)'
    <3>1. CASE x = q
        BY <2>1, <2>2, <2>4, <3>1 DEF ConMovesTo, Lags
    <3>2. CASE x # q
      <4>1. con'[x] = con[x] /\ con[x].msg \in Messages /\ con[x].loaded \in Nat
          BY <1>0, <2>2, <2>7, <3>2 DEF ConMovesTo
      <4>2. Lags(con[x].msg, con[x].loaded + 1)
          BY <2>7, <4>1 DEF RetriesInv
      <4>3. QED
          BY <2>1, <2>3, <4>1, <4>2 DEF Lags
    <3>3. QED
        BY <3>1, <3>2
  <2>8. QED
      BY <2>5, <2>6, <2>7 DEF RetriesInv
<1>6. ASSUME NEW q \in Queues, StoreRetries(q) PROVE RetriesInv'
  <2>0. PICK m \in Messages : m = con[q].msg
      BY <1>6, Working DEF StoreRetries, ConMoves, Busy
  <2>1. /\ retries' = [retries EXCEPT ![m] = con[q].loaded + 1] /\ UNCHANGED <<dead, failures>>
        /\ con[q].pc = "store"
      BY <1>6, <2>0 DEF StoreRetries, ConMoves, history
  <2>2. ConMovesTo(q, "decide", m, con[q].loaded)
      BY <1>6, <2>0, ConSteps DEF StoreRetries, ConStages
  <2>3. Lags(m, con[q].loaded + 1)
      BY <2>0, <2>1 DEF RetriesInv
  <2>4. \A n \in Messages : Lags(n, retries[n])'
      BY <2>1, <2>3 DEF Lags, RetriesInv, ConTypeOK
  <2>5. \A x \in Queues : con'[x].pc = "store" => Lags(con[x].msg, con[x].loaded + 1)'
      BY <2>1, <2>2 DEF ConMovesTo, RetriesInv, Lags
  <2>6. QED
      BY <2>1, <2>4, <2>5 DEF RetriesInv, DeadOnlyAfterRetries
<1>7. ASSUME NEW q \in Queues, BuryDead(q) PROVE RetriesInv'
  <2>0. PICK m \in Messages : m = con[q].msg
      BY <1>7, Working DEF BuryDead, Busy
  <2> DEFINE kept == IF Len(dead[q]) >= MaxDead THEN Tail(dead[q]) ELSE dead[q]
  <2>1. /\ dead' = [dead EXCEPT ![q] = Append(kept, m)] /\ UNCHANGED <<retries, failures>>
        /\ ~(retries[m] < MaxRetries)
      BY <1>7, <2>0 DEF BuryDead, MayRetry, history
  <2>2. failures[m] >= MaxRetries
      BY <2>0, <2>1 DEF RetriesInv, Lags, ConTypeOK
  <2>3. kept \in Seq(Messages) /\ \A i \in DOMAIN kept : \E j \in DOMAIN dead[q] : kept[i] = dead[q][j]
    <3>1. dead[q] \in Seq(Messages) /\ MaxDead \in Nat \ {0}
        BY DEF ConTypeOK
    <3>2. CASE Len(dead[q]) >= MaxDead
      <4>1. /\ Tail(dead[q]) \in Seq(Messages) /\ dead[q] # <<>>
            /\ DOMAIN Tail(dead[q]) = 1..(Len(dead[q]) - 1) /\ DOMAIN dead[q] = 1..Len(dead[q])
            /\ \A i \in 1..(Len(dead[q]) - 1) : Tail(dead[q])[i] = dead[q][i + 1]
          BY <3>1, <3>2
      <4>2. \A i \in 1..(Len(dead[q]) - 1) : i + 1 \in 1..Len(dead[q])
          BY <3>1
      <4>3. QED
          BY <3>2, <4>1, <4>2
    <3>3. CASE ~(Len(dead[q]) >= MaxDead)
        BY <3>1, <3>3
    <3>4. QED
        BY <3>2, <3>3
  <2> HIDE DEF kept
  <2>4. DeadOnlyAfterRetries'
    <3> DEFINE new == Append(kept, m)
    <3>1. \A i \in DOMAIN new : new[i] = m \/ \E j \in DOMAIN kept : new[i] = kept[j]
        BY <2>3
    <3>2. dead'[q] = new /\ \A x \in Queues \ {q} : dead'[x] = dead[x]
        BY <2>1 DEF ConTypeOK
    <3> HIDE DEF new
    <3>3. \A x \in Queues : \A i \in DOMAIN dead[x] : failures[dead[x][i]] >= MaxRetries
        BY DEF RetriesInv, DeadOnlyAfterRetries
    <3>4. \A i \in DOMAIN new : failures[new[i]] >= MaxRetries
        BY <2>2, <2>3, <3>1, <3>3
    <3>5. QED
        BY <2>1, <3>2, <3>3, <3>4 DEF DeadOnlyAfterRetries
  <2>5. ConMovesTo(q, "receive", NoMsg, 0)
      BY <1>7, ConSteps DEF BuryDead
  <2>6. QED
      BY <2>1, <2>4, <2>5 DEF RetriesInv, ConMovesTo, Lags
<1>8. ASSUME NEW q \in Queues, EndConsumer(q) \/ DecideRetry(q) PROVE RetriesInv'
  <2>1. \E pc \in {"ended", "requeue"} : ConMovesTo(q, pc, con[q].msg, con[q].loaded)
      BY <1>8, ConSteps DEF EndConsumer, DecideRetry, ConStages
  <2>2. UNCHANGED <<dead, retries, failures>>
      BY <1>8 DEF EndConsumer, DecideRetry, history
  <2>3. QED
      BY <1>2, <2>1, <2>2
<1>9. ASSUME NEW q \in Queues, Requeue(q) PROVE RetriesInv'
  <2>1. UNCHANGED <<dead, retries, failures>>
      BY <1>9 DEF Requeue, history
  <2>2. CASE UNCHANGED con
      BY <1>1, <2>1, <2>2
  <2>3. CASE Settle(q)
      BY <1>2, <2>1, <2>3, ConSteps
  <2>4. QED
      BY <1>9, <2>2, <2>3 DEF Requeue
<1>10. ASSUME NEW q \in Queues, Consumer(q) PROVE RetriesInv'
    BY <1>3, <1>4, <1>5, <1>6, <1>7, <1>8, <1>9, <1>10 DEF Consumer
<1>11. CASE UNCHANGED vars
    BY <1>1, <1>11 DEF vars, conVars, history
<1>12. CASE UNCHANGED <<conVars, history>>
    BY <1>1, <1>12 DEF conVars, history
<1>13. QED
    BY <1>10, <1>11, <1>12, Frames, SendOutcomes, CountOutcome

\* The idempotency stores stay well typed.
LEMMA KeyTypeStep ==
    ASSUME TopicTypeOK, KeyTypeOK, [Next]_vars
    PROVE  KeyTypeOK'
<1> USE MessageQueueAssumption
<1>0. \A m \in Messages : Key[m] \in Keys
    BY DEF Keys
<1>1. CASE UNCHANGED keyVars
    BY <1>1 DEF keyVars, KeyTypeOK
<1>2. ASSUME NEW m \in Messages, Send(m) PROVE KeyTypeOK'
  <2>0. PICK q \in Queues : q = pub[m].to
      BY <1>2, SendOutcomes
  <2>1. UNCHANGED keys
      BY <1>2, SendOutcomes
  <2>2. CASE UNCHANGED <<enqueued, rejected>>
      BY <2>1, <2>2 DEF KeyTypeOK
  <2>3. CASE Sent(m, q)
      BY <1>0, <2>1, <2>3 DEF Sent, KeyTypeOK
  <2>4. CASE Refused(m, q)
      BY <1>0, <2>1, <2>4 DEF Refused, KeyTypeOK
  <2>5. QED
      BY <1>2, <2>0, <2>2, <2>3, <2>4, SendOutcomes
<1>3. ASSUME NEW m \in Messages, NEW q \in Queues, Dedup(m, q) PROVE KeyTypeOK'
    BY <1>0, <1>3 DEF Dedup, KeyTypeOK
<1>4. ASSUME NEW q \in Direct, NEW k \in Keys, Cleanup(q, k) PROVE KeyTypeOK'
    BY <1>4 DEF Cleanup, KeyTypeOK
<1>5. ASSUME Caller, \A m \in Messages : \A q \in Queues : ~Dedup(m, q),
             \A q \in Direct : \A k \in Keys : ~Cleanup(q, k)
      PROVE  UNCHANGED keyVars
  <2>1. \A m \in Messages : LookUpTopic(m) \/ BeginTopicPublish(m) \/ EndPublish(m)
            => UNCHANGED keyVars
      BY DEF LookUpTopic, BeginTopicPublish, EndPublish
  <2>2. \A m \in Messages : \A q \in Direct : BeginDirectPublish(m, q) => UNCHANGED keyVars
      BY DEF BeginDirectPublish
  <2>3. \A q \in Queues : FindTopic(q) \/ JoinTopic(q) => UNCHANGED keyVars
      BY DEF FindTopic, JoinTopic
  <2>4. \A q \in Direct : StopDirect(q) => UNCHANGED keyVars
      BY DEF StopDirect
  <2>5. \A t \in Topics : \A q \in members[t] : Unsubscribe(t, q) => UNCHANGED keyVars
      BY DEF Unsubscribe
  <2>6. DeleteTopic \/ BrokerStop => UNCHANGED keyVars
      BY DEF DeleteTopic, BrokerStop
  <2>7. QED
      BY <1>5, <2>1, <2>2, <2>3, <2>4, <2>5, <2>6 DEF Caller
<1>6. CASE Caller
    BY <1>1, <1>3, <1>4, <1>5, <1>6
<1>7. CASE UNCHANGED vars
    BY <1>1, <1>7 DEF vars, callerVars
<1>8. QED
    BY <1>1, <1>2, <1>6, <1>7, Frames, CountOutcome DEF callerVars

\* The invariant of one key of a store, and of one message on its way there.
KeyExact(q, k) ==
    IF k \in keys[q]
    THEN \/ enqueued[q][k] = 1
         \/ enqueued[q][k] = 0 /\ (k \in rejected[q] \/ \E m \in Messages : Key[m] = k /\ Sending(m, q))
    ELSE enqueued[q][k] = 0
OnItsWay(m, q) ==
    Sending(m, q) => /\ Key[m] \in keys[q] /\ enqueued[q][Key[m]] = 0
                     /\ \A n \in Messages : Sending(n, q) /\ Key[n] = Key[m] => n = m

\* A key is stored with the message on its way, and dropped when it is not.
LEMMA KeysStep ==
    ASSUME TopicTypeOK, KeyTypeOK, KeysInv, [Next]_vars
    PROVE  KeysInv'
<1> USE MessageQueueAssumption
<1>0. \A m \in Messages : Key[m] \in Keys
    BY DEF Keys
<1>a. \A q \in Direct : \A k \in Keys : KeyExact(q, k)
    BY DEF KeysInv, KeysExact, KeyExact
<1>b. \A q \in Direct : \A m \in Messages : OnItsWay(m, q)
    BY DEF KeysInv, OnItsWay
<1>c. ASSUME \A q \in Direct : \A k \in Keys : KeyExact(q, k)',
             \A q \in Direct : \A m \in Messages : OnItsWay(m, q)'
      PROVE  KeysInv'
    BY <1>c DEF KeysInv, KeysExact, KeyExact, OnItsWay
<1>1. ASSUME UNCHANGED keyVars,
             \A m \in Messages : \A q \in Direct : Sending(m, q)' <=> Sending(m, q)
      PROVE  KeysInv'
  <2>1. \A q \in Direct : \A k \in Keys : KeyExact(q, k)'
      BY <1>a, <1>1 DEF KeyExact, keyVars
  <2>2. \A q \in Direct : \A m \in Messages : OnItsWay(m, q)'
      BY <1>b, <1>1 DEF OnItsWay, keyVars
  <2>3. QED
      BY <1>c, <2>1, <2>2
<1>2. ASSUME NEW m \in Messages, NEW pc, NEW topic, NEW todo, NEW to,
             PubMoves(m, pc, topic, todo, to), pc # "send", pub[m].pc # "send"
      PROVE  \A n \in Messages : \A q \in Direct : Sending(n, q)' <=> Sending(n, q)
    BY <1>2 DEF PubMoves, Sending
<1>3. ASSUME UNCHANGED pub
      PROVE  \A n \in Messages : \A q \in Direct : Sending(n, q)' <=> Sending(n, q)
    BY <1>3 DEF Sending
<1>4. ASSUME NEW m \in Messages, NEW q \in Queues, Dedup(m, q) PROVE KeysInv'
  <2>1. CASE q \in Direct /\ Key[m] \in keys[q]
    <3>1. PubMoves(m, "idle", 0, {}, NoQueue) /\ pub[m].pc = "loop" /\ UNCHANGED keyVars
        BY <1>4, <2>1, PubSteps DEF Dedup, keyVars
    <3>2. QED
        BY <1>1, <1>2, <3>1
  <2>2. CASE ~(q \in Direct /\ Key[m] \in keys[q])
    <3>1. /\ PubMoves(m, "send", pub[m].topic, pub[m].todo \ {q}, q) /\ pub[m].pc = "loop"
          /\ keys' = IF q \in Direct THEN [keys EXCEPT ![q] = @ \cup {Key[m]}] ELSE keys
          /\ UNCHANGED <<enqueued, rejected>>
        BY <1>4, <2>2, PubSteps DEF Dedup
    <3>2. /\ Sending(m, q)' /\ \A x \in Direct \ {q} : ~Sending(m, x)' /\ ~Sending(m, x)
          /\ \A n \in Messages \ {m} : \A x \in Direct : Sending(n, x)' <=> Sending(n, x)
          /\ ~Sending(m, q)
        BY <3>1 DEF PubMoves, Sending
    <3>3. CASE q \notin Direct
      <4>1. UNCHANGED keyVars
          BY <3>1, <3>3 DEF keyVars
      <4>2. QED
          BY <1>1, <3>2, <3>3, <4>1
    <3>4. CASE q \in Direct
      <4>1. /\ Key[m] \notin keys[q] /\ Key[m] \in Keys /\ enqueued[q][Key[m]] = 0
          BY <1>0, <1>a, <2>2, <3>4 DEF KeyExact
      <4>2. \A n \in Messages : Key[n] = Key[m] => ~Sending(n, q)
          BY <1>b, <3>4, <4>1 DEF OnItsWay
      <4>3. keys'[q] = keys[q] \cup {Key[m]} /\ \A x \in Direct \ {q} : keys'[x] = keys[x]
          BY <3>1, <3>4 DEF KeyTypeOK
      <4>4. ASSUME NEW x \in Direct, NEW k \in Keys PROVE KeyExact(x, k)'
        <5>1. KeyExact(x, k)
            BY <1>a
        <5>2. CASE x # q
            BY <3>1, <3>2, <4>3, <5>1, <5>2 DEF KeyExact
        <5>3. CASE x = q /\ k = Key[m]
            BY <3>1, <3>2, <4>1, <4>3, <5>3 DEF KeyExact
        <5>4. CASE x = q /\ k # Key[m]
            BY <3>1, <3>2, <4>3, <5>1, <5>4 DEF KeyExact
        <5>5. QED
            BY <5>2, <5>3, <5>4
      <4>5. ASSUME NEW x \in Direct, NEW n \in Messages PROVE OnItsWay(n, x)'
        <5>1. OnItsWay(n, x)
            BY <1>b
        <5>2. CASE x # q
            BY <3>1, <3>2, <4>3, <5>1, <5>2 DEF OnItsWay
        <5>3. CASE x = q /\ n = m
            BY <3>1, <3>2, <4>1, <4>2, <4>3, <5>3 DEF OnItsWay
        <5>4. CASE x = q /\ n # m
            BY <3>1, <3>2, <4>2, <4>3, <5>1, <5>4 DEF OnItsWay
        <5>5. QED
            BY <5>2, <5>3, <5>4
      <4>6. QED
          BY <1>c, <4>4, <4>5
    <3>5. QED
        BY <3>3, <3>4
  <2>3. QED
      BY <2>1, <2>2
<1>5. ASSUME NEW q \in Direct, NEW k \in Keys, Cleanup(q, k) PROVE KeysInv'
  <2>1. /\ \A m \in Messages : Key[m] = k => ~Sending(m, q)
        /\ keys' = [keys EXCEPT ![q] = @ \ {k}] /\ rejected' = [rejected EXCEPT ![q] = @ \ {k}]
        /\ enqueued' = [enqueued EXCEPT ![q][k] = 0] /\ UNCHANGED pub
      BY <1>5 DEF Cleanup, Sending, pubVars
  <2>2. /\ keys'[q] = keys[q] \ {k} /\ rejected'[q] = rejected[q] \ {k} /\ enqueued'[q][k] = 0
        /\ \A j \in Keys \ {k} : enqueued'[q][j] = enqueued[q][j]
        /\ \A x \in Direct \ {q} : /\ keys'[x] = keys[x] /\ rejected'[x] = rejected[x]
                                   /\ enqueued'[x] = enqueued[x]
      BY <2>1 DEF KeyTypeOK
  <2>3. \A n \in Messages : \A x \in Direct : Sending(n, x)' <=> Sending(n, x)
      BY <1>3, <2>1
  <2>4. ASSUME NEW x \in Direct, NEW j \in Keys PROVE KeyExact(x, j)'
    <3>1. KeyExact(x, j)
        BY <1>a
    <3>2. CASE x # q
        BY <2>2, <2>3, <3>1, <3>2 DEF KeyExact
    <3>3. CASE x = q /\ j = k
        BY <2>2, <3>3 DEF KeyExact
    <3>4. CASE x = q /\ j # k
        BY <2>2, <2>3, <3>1, <3>4 DEF KeyExact
    <3>5. QED
        BY <3>2, <3>3, <3>4
  <2>5. ASSUME NEW x \in Direct, NEW n \in Messages PROVE OnItsWay(n, x)'
    <3>1. OnItsWay(n, x)
        BY <1>b
    <3>2. CASE x # q
        BY <2>2, <2>3, <3>1, <3>2 DEF OnItsWay
    <3>3. CASE x = q
        BY <1>0, <2>1, <2>2, <2>3, <3>1, <3>3 DEF OnItsWay
    <3>4. QED
        BY <3>2, <3>3
  <2>6. QED
      BY <1>c, <2>4, <2>5
<1>6. ASSUME NEW m \in Messages, Send(m) PROVE KeysInv'
  <2>0. PICK q \in Queues : q = pub[m].to
      BY <1>6, SendOutcomes
  <2>1. UNCHANGED keys /\ Sending(m, q)
      BY <1>6, <2>0, SendOutcomes DEF Sending
  <2>2. CASE UNCHANGED <<pub, enqueued, rejected>>
      BY <1>1, <1>3, <2>1, <2>2 DEF keyVars
  <2>3. ASSUME NEW pc, NEW topic, NEW todo, NEW to, PubMoves(m, pc, topic, todo, to),
               pc # "send"
        PROVE  \A n \in Messages : \A x \in Direct :
                 Sending(n, x)' <=> n # m /\ Sending(n, x)
      BY <2>3 DEF PubMoves, Sending
  <2>4. \A x \in Direct \ {q} : ~Sending(m, x)
      BY <2>1 DEF Sending
  <2>5. CASE Sent(m, q)
    <3>1. \A n \in Messages : \A x \in Direct : Sending(n, x)' <=> n # m /\ Sending(n, x)
        BY <2>3, <2>5 DEF Sent
    <3>2. CASE q \notin Direct
      <4>1. UNCHANGED keyVars
          BY <2>1, <2>5, <3>2 DEF Sent, keyVars
      <4>2. QED
          BY <1>1, <2>4, <3>1, <3>2, <4>1
    <3>3. CASE q \in Direct
      <4>1. /\ Key[m] \in keys[q] /\ enqueued[q][Key[m]] = 0 /\ Key[m] \in Keys
            /\ \A n \in Messages : Sending(n, q) /\ Key[n] = Key[m] => n = m
          BY <1>0, <1>b, <2>1, <3>3 DEF OnItsWay
      <4>2. /\ enqueued'[q][Key[m]] = 1 /\ UNCHANGED rejected
            /\ \A k \in Keys \ {Key[m]} : enqueued'[q][k] = enqueued[q][k]
            /\ \A x \in Direct \ {q} : enqueued'[x] = enqueued[x]
          BY <2>5, <3>3, <4>1 DEF Sent, KeyTypeOK
      <4>3. ASSUME NEW x \in Direct, NEW k \in Keys PROVE KeyExact(x, k)'
        <5>1. KeyExact(x, k)
            BY <1>a
        <5>2. CASE x # q
            BY <2>1, <2>4, <3>1, <4>2, <5>1, <5>2 DEF KeyExact
        <5>3. CASE x = q /\ k = Key[m]
            BY <2>1, <4>1, <4>2, <5>3 DEF KeyExact
        <5>4. CASE x = q /\ k # Key[m]
            BY <2>1, <3>1, <4>2, <5>1, <5>4 DEF KeyExact
        <5>5. QED
            BY <5>2, <5>3, <5>4
      <4>4. ASSUME NEW x \in Direct, NEW n \in Messages PROVE OnItsWay(n, x)'
        <5>1. OnItsWay(n, x) /\ Key[n] \in Keys
            BY <1>0, <1>b
        <5>2. CASE x # q
            BY <2>1, <3>1, <4>2, <5>1, <5>2 DEF OnItsWay
        <5>3. CASE x = q
            BY <2>1, <3>1, <4>1, <4>2, <5>1, <5>3 DEF OnItsWay
        <5>4. QED
            BY <5>2, <5>3
      <4>5. QED
          BY <1>c, <4>3, <4>4
    <3>4. QED
        BY <3>2, <3>3
  <2>6. CASE Refused(m, q)
    <3>1. \A n \in Messages : \A x \in Direct : Sending(n, x)' <=> n # m /\ Sending(n, x)
        BY <2>3, <2>6 DEF Refused
    <3>2. CASE q \notin Direct
      <4>1. UNCHANGED keyVars
          BY <2>1, <2>6, <3>2 DEF Refused, keyVars
      <4>2. QED
          BY <1>1, <2>4, <3>1, <3>2, <4>1
    <3>3. CASE q \in Direct
      <4>1. /\ Key[m] \in keys[q] /\ enqueued[q][Key[m]] = 0 /\ Key[m] \in Keys
          BY <1>0, <1>b, <2>1, <3>3 DEF OnItsWay
      <4>2. /\ rejected'[q] = rejected[q] \cup {Key[m]} /\ UNCHANGED enqueued
            /\ \A x \in Direct \ {q} : rejected'[x] = rejected[x]
          BY <2>6, <3>3 DEF Refused, KeyTypeOK
      <4>3. ASSUME NEW x \in Direct, NEW k \in Keys PROVE KeyExact(x, k)'
        <5>1. KeyExact(x, k)
            BY <1>a
        <5>2. CASE x # q
            BY <2>1, <2>4, <3>1, <4>2, <5>1, <5>2 DEF KeyExact
        <5>3. CASE x = q /\ k = Key[m]
            BY <2>1, <4>1, <4>2, <5>3 DEF KeyExact
        <5>4. CASE x = q /\ k # Key[m]
            BY <2>1, <3>1, <4>2, <5>1, <5>4 DEF KeyExact
        <5>5. QED
            BY <5>2, <5>3, <5>4
      <4>4. ASSUME NEW x \in Direct, NEW n \in Messages PROVE OnItsWay(n, x)'
        <5>1. OnItsWay(n, x)
            BY <1>b
        <5>2. QED
            BY <2>1, <3>1, <4>2, <5>1 DEF OnItsWay
      <4>5. QED
          BY <1>c, <4>3, <4>4
    <3>4. QED
        BY <3>2, <3>3
  <2>7. QED
      BY <1>6, <2>0, <2>2, <2>5, <2>6, SendOutcomes
<1>7. ASSUME NEW m \in Messages, LookUpTopic(m) \/ BeginTopicPublish(m) \/ EndPublish(m)
      PROVE  KeysInv'
  <2>1. UNCHANGED keyVars /\ pub[m].pc # "send"
      BY <1>7 DEF LookUpTopic, BeginTopicPublish, EndPublish, MayCall
  <2>2. \E pc \in {"idle", "found", "loop", "done"} : \E topic, todo, to :
          PubMoves(m, pc, topic, todo, to)
    <3>1. CASE LookUpTopic(m)
        BY <3>1, PubSteps
    <3>2. CASE BeginTopicPublish(m)
        BY <3>2, PubSteps
    <3>3. CASE EndPublish(m)
        BY <3>3, PubSteps
    <3>4. QED
        BY <1>7, <3>1, <3>2, <3>3
  <2>3. QED
      BY <1>1, <1>2, <2>1, <2>2
<1>8. ASSUME NEW m \in Messages, NEW q \in Direct, BeginDirectPublish(m, q) PROVE KeysInv'
  <2>1. UNCHANGED keyVars /\ pub[m].pc # "send"
      BY <1>8 DEF BeginDirectPublish, MayCall
  <2>2. PubMoves(m, "loop", pub[m].topic, {q}, NoQueue)
      BY <1>8, PubSteps
  <2>3. QED
      BY <1>1, <1>2, <2>1, <2>2
<1>9. CASE UNCHANGED <<pub, keyVars>>
    BY <1>1, <1>3, <1>9
<1>10. ASSUME NEW q \in Queues, FindTopic(q) \/ JoinTopic(q) PROVE KeysInv'
    BY <1>9, <1>10 DEF FindTopic, JoinTopic, pubVars
<1>11. ASSUME NEW q \in Direct, StopDirect(q) PROVE KeysInv'
    BY <1>9, <1>11 DEF StopDirect, pubVars
<1>12. ASSUME NEW t \in Topics, NEW q \in members[t], Unsubscribe(t, q) PROVE KeysInv'
    BY <1>9, <1>12 DEF Unsubscribe, pubVars
<1>13. ASSUME DeleteTopic \/ BrokerStop PROVE KeysInv'
    BY <1>9, <1>13 DEF DeleteTopic, BrokerStop, pubVars
<1>14. CASE Caller
    BY <1>4, <1>5, <1>7, <1>8, <1>10, <1>11, <1>12, <1>13, <1>14 DEF Caller
<1>15. CASE UNCHANGED vars
    BY <1>9, <1>15 DEF vars, callerVars, pubVars
<1>16. CASE UNCHANGED callerVars
    BY <1>9, <1>16 DEF callerVars, pubVars
<1>17. ASSUME NEW m \in Messages, CountPublished(m) PROVE KeysInv'
    BY <1>1, <1>2, <1>17, CountOutcome
<1>18. QED
    BY <1>6, <1>14, <1>15, <1>16, <1>17, Frames

\* What a publisher has not sent to is what it found in the topic, open unless
\* a stop overlapped: a step of one publisher.
LEMMA StopPub ==
    ASSUME TopicTypeOK, StopInv, NEW m \in Messages,
           NEW pc, NEW topic, NEW todo, NEW to, PubMoves(m, pc, topic, todo, to),
           UNCHANGED <<topicVars, dest, con, panicked>>, risky => risky',
           \A q \in todo \cup (IF pc = "send" THEN {to} ELSE {}) :
             found[q] = topic /\ Started(q) /\ (~Open(q) => risky'),
           pc = "found" => \A q \in members[topic] : ~Open(q) => risky',
           pc \in {"idle", "done"} => topic = 0
    PROVE  StopInv'
<1>1. UNCHANGED <<current, members, life, found, halted>>
    BY DEF topicVars
<1>2. PanicNeedsOverlap'
    BY DEF StopInv, PanicNeedsOverlap
<1>3. Belongs'
    BY <1>1 DEF StopInv, Belongs, Started
<1>4. CurrentSafe'
    BY <1>1 DEF StopInv, CurrentSafe, Open
<1>5. \A q \in Queues : ConSafe(q)'
    BY <1>1 DEF StopInv, ConSafe, Open, Busy
<1>6. PubSafe(m)'
    BY <1>1 DEF PubMoves, PubSafe, Targets, Sending, Open, Started
<1>7. \A n \in Messages \ {m} : PubSafe(n)'
    BY <1>1 DEF PubMoves, StopInv, PubSafe, Targets, Sending, Open, Started
<1>8. QED
    BY <1>2, <1>3, <1>4, <1>5, <1>6, <1>7 DEF StopInv

\* The steps of publishers other than a send.
LEMMA StopPublishing ==
    ASSUME TopicTypeOK, StopInv, NEW m \in Messages
    PROVE  /\ LookUpTopic(m) \/ BeginTopicPublish(m) \/ EndPublish(m) => StopInv'
           /\ \A q \in Direct : BeginDirectPublish(m, q) => StopInv'
           /\ \A q \in Queues : Dedup(m, q) => StopInv'
           /\ Send(m) \/ CountPublished(m) => StopInv'
<1> USE MessageQueueAssumption
<1>0. PubSafe(m) /\ pub[m] \in Pub /\ pub[m].todo \subseteq Queues
    BY DEF StopInv, TopicTypeOK, Pub
<1>1. ASSUME LookUpTopic(m) PROVE StopInv'
  <2>1. UNCHANGED <<topicVars, dest, con, panicked>> /\ risky' = (risky \/ halted)
      BY <1>1 DEF LookUpTopic, conVars
  <2>2. CASE current = 0
    <3>1. PubMoves(m, "idle", 0, {}, NoQueue)
        BY <1>1, <2>2, PubSteps
    <3>2. QED
        BY <2>1, <3>1, StopPub
  <2>3. CASE current # 0
    <3>1. PubMoves(m, "found", current, {}, NoQueue)
        BY <1>1, <2>3, PubSteps
    <3>2. \A q \in members[current] : ~Open(q) => risky'
        BY <2>1, <2>3 DEF StopInv, CurrentSafe
    <3>3. QED
        BY <2>1, <3>1, <3>2, StopPub
  <2>4. QED
      BY <2>2, <2>3
<1>2. ASSUME BeginTopicPublish(m) PROVE StopInv'
  <2>1. UNCHANGED <<topicVars, dest, con, panicked, risky>> /\ pub[m].pc = "found"
      BY <1>2 DEF BeginTopicPublish, conVars
  <2>2. PubMoves(m, "loop", pub[m].topic, members[pub[m].topic], NoQueue)
      BY <1>2, PubSteps
  <2>3. pub[m].topic \in Topics
      BY <2>1 DEF TopicTypeOK
  <2>4. \A q \in members[pub[m].topic] :
          found[q] = pub[m].topic /\ Started(q) /\ (~Open(q) => risky')
      BY <1>0, <2>1, <2>3 DEF StopInv, Belongs, PubSafe
  <2>5. QED
      BY <2>1, <2>2, <2>4, StopPub
<1>3. ASSUME EndPublish(m) PROVE StopInv'
  <2>1. UNCHANGED <<topicVars, dest, con, panicked, risky>>
      BY <1>3 DEF EndPublish, conVars
  <2>2. PubMoves(m, "done", 0, {}, NoQueue)
      BY <1>3, PubSteps
  <2>3. QED
      BY <2>1, <2>2, StopPub
<1>4. ASSUME NEW q \in Direct, BeginDirectPublish(m, q) PROVE StopInv'
  <2>1. /\ UNCHANGED <<topicVars, dest, con, panicked>> /\ risky' = (risky \/ ~Open(q))
        /\ pub[m].pc = "idle" /\ dest[m] = q
      BY <1>4 DEF BeginDirectPublish, MayCall, conVars
  <2>2. PubMoves(m, "loop", pub[m].topic, {q}, NoQueue)
      BY <1>4, PubSteps
  <2>3. pub[m].topic = 0 /\ found[q] = 0 /\ Started(q)
      BY <1>0, <2>1 DEF PubSafe, StopInv, Belongs
  <2>4. \A x \in {q} : found[x] = pub[m].topic /\ Started(x) /\ (~Open(x) => risky')
      BY <2>1, <2>3
  <2>5. QED
      BY <2>1, <2>2, <2>4, StopPub
<1>5. ASSUME NEW q \in Queues, Dedup(m, q) PROVE StopInv'
  <2>1. /\ UNCHANGED <<topicVars, dest, con, panicked, risky>>
        /\ pub[m].pc = "loop" /\ q \in pub[m].todo
      BY <1>5 DEF Dedup, conVars
  <2>2. CASE q \in Direct /\ Key[m] \in keys[q]
    <3>1. PubMoves(m, "idle", 0, {}, NoQueue)
        BY <1>5, <2>2, PubSteps
    <3>2. QED
        BY <2>1, <3>1, StopPub
  <2>3. CASE ~(q \in Direct /\ Key[m] \in keys[q])
    <3>1. PubMoves(m, "send", pub[m].topic, pub[m].todo \ {q}, q)
        BY <1>5, <2>3, PubSteps
    <3>2. \A x \in (pub[m].todo \ {q}) \cup {q} :
            found[x] = pub[m].topic /\ Started(x) /\ (~Open(x) => risky')
        BY <1>0, <2>1 DEF PubSafe, Targets
    <3>3. QED
        BY <2>1, <3>1, <3>2, StopPub
  <2>4. QED
      BY <2>2, <2>3
<1>6. ASSUME Send(m) PROVE StopInv'
  <2>0. PICK q \in Queues : q = pub[m].to
      BY <1>6, SendOutcomes
  <2>1. UNCHANGED <<topicVars, dest, con, risky>> /\ q \in Targets(m)
      BY <1>6, <2>0, SendOutcomes DEF conVars, Targets, Sending
  <2>2. CASE ~Open(q) /\ panicked' = TRUE /\ UNCHANGED pub
    <3>1. risky'
        BY <1>0, <2>1, <2>2 DEF PubSafe
    <3>2. UNCHANGED <<current, members, life, found, halted>>
        BY <2>1 DEF topicVars
    <3>3. Belongs' /\ CurrentSafe' /\ PanicNeedsOverlap'
        BY <2>1, <3>1, <3>2 DEF Belongs, CurrentSafe, PanicNeedsOverlap, StopInv, Open, Started
    <3>4. \A n \in Messages : PubSafe(n)'
        BY <2>1, <2>2, <3>2 DEF StopInv, PubSafe, Targets, Sending, Open, Started
    <3>5. \A x \in Queues : ConSafe(x)'
        BY <3>1 DEF ConSafe
    <3>6. QED
        BY <3>3, <3>4, <3>5 DEF StopInv
  <2>3. CASE Sent(m, q)
    <3>1. PubMoves(m, "count", pub[m].topic, pub[m].todo, q) /\ UNCHANGED panicked
        BY <2>3 DEF Sent
    <3>2. \A x \in pub[m].todo :
            found[x] = pub[m].topic /\ Started(x) /\ (~Open(x) => risky')
        BY <1>0, <2>1 DEF PubSafe, Targets
    <3>3. QED
        BY <2>1, <3>1, <3>2, StopPub
  <2>4. CASE Refused(m, q)
    <3>1. PubMoves(m, "idle", 0, {}, NoQueue) /\ UNCHANGED panicked
        BY <2>4 DEF Refused
    <3>2. QED
        BY <2>1, <3>1, StopPub
  <2>5. QED
      BY <1>6, <2>0, <2>2, <2>3, <2>4, SendOutcomes
<1>7. ASSUME CountPublished(m) PROVE StopInv'
  <2>1. /\ UNCHANGED <<topicVars, dest, con, risky, panicked>>
        /\ PubMoves(m, "loop", pub[m].topic, pub[m].todo, NoQueue)
      BY <1>7, CountOutcome DEF conVars
  <2>2. \A x \in pub[m].todo : found[x] = pub[m].topic /\ Started(x) /\ (~Open(x) => risky')
      BY <1>0, <2>1 DEF PubSafe, Targets
  <2>3. QED
      BY <2>1, <2>2, StopPub
<1>8. QED
    BY <1>1, <1>2, <1>3, <1>4, <1>5, <1>6, <1>7

\* Stopping the queues S of one topic t, or a direct queue (t = 0): whoever is
\* about to use one of them makes the stop an overlapping one.
Guarded(S, late, t) ==
    /\ S \in SUBSET Queues /\ \A q \in S : found[q] = t /\ Started(q)
    /\ UNCHANGED <<found, dest, con, pub>>
    /\ \A m \in Messages : S \cap Targets(m) # {} => late
    /\ \A m \in Messages : \A q \in S :
         pub[m].pc = "found" /\ q \in members'[pub[m].topic] => late
    /\ members' \in [Topics -> SUBSET Queues]
    /\ \A x \in Topics : members'[x] \subseteq members[x]
    /\ current' = current \/ current' = 0
    /\ halted => halted'
    /\ current' # 0 => \A q \in S : q \in members'[current'] => halted'

\* A stop that is guarded so keeps the invariant.
LEMMA StopStop ==
    ASSUME TopicTypeOK, StopInv, NEW S, NEW late, NEW t,
           StopQueues(S, late), Guarded(S, late, t)
    PROVE  StopInv'
<1> USE MessageQueueAssumption DEF Guarded
<1>1. /\ risky' = (risky \/ late \/ \E q \in S : ~Open(q) \/ Busy(q))
      /\ \/ /\ (\A q \in S : Open(q)) /\ life' = [q \in Queues |-> IF q \in S THEN "closed" ELSE life[q]]
            /\ panicked' = panicked
         \/ (\E q \in S : ~Open(q)) /\ panicked' = TRUE /\ life' = life
    BY DEF StopQueues
<1>2. /\ (risky => risky') /\ (late => risky') /\ (\A q \in S : ~Open(q) \/ Busy(q) => risky')
      /\ \A q \in Queues \ S : life'[q] = life[q]
      /\ \A q \in Queues : Started(q) => Started(q)'
      /\ \A q \in Queues : Open(q)' => Open(q)
  <2>1. (risky => risky') /\ (late => risky') /\ (\A q \in S : ~Open(q) \/ Busy(q) => risky')
      BY <1>1
  <2>2. CASE (\A q \in S : Open(q)) /\ life' = [q \in Queues |-> IF q \in S THEN "closed" ELSE life[q]]
      BY <2>1, <2>2 DEF Open, Started, TopicTypeOK
  <2>3. CASE life' = life
      BY <2>1, <2>3 DEF Open, Started
  <2>4. QED
      BY <1>1, <2>2, <2>3
<1>3. PanicNeedsOverlap'
    BY <1>1, <1>2 DEF StopInv, PanicNeedsOverlap
<1>4. Belongs'
  <2>1. \A x \in Topics : \A q \in members'[x] : found[q] = x /\ q \notin Direct /\ Started(q) /\ q \in Queues
      BY DEF StopInv, Belongs, TopicTypeOK
  <2>2. \A m \in Messages : \A q \in Queues : dest[m] = q => found[q] = 0 /\ Started(q)
      BY DEF StopInv, Belongs
  <2>3. QED
      BY <1>2, <2>1, <2>2 DEF Belongs
<1>5. ASSUME NEW q \in Queues PROVE ConSafe(q)'
  <2>1. ConSafe(q) /\ (Busy(q)' <=> Busy(q))
      BY DEF StopInv, Busy
  <2>2. CASE q \in S
      BY <1>2, <2>1, <2>2 DEF ConSafe
  <2>3. CASE q \notin S
      BY <1>2, <2>1, <2>3 DEF ConSafe, Open
  <2>4. QED
      BY <2>2, <2>3
<1>6. ASSUME NEW m \in Messages PROVE PubSafe(m)'
  <2>1. PubSafe(m) /\ Targets(m)' = Targets(m) /\ Targets(m) \subseteq Queues /\ pub[m] \in Pub
      BY DEF StopInv, Targets, Sending, TopicTypeOK, Pub
  <2>2. ASSUME NEW q \in Targets(m)
        PROVE  found[q] = pub[m].topic /\ Started(q)' /\ (~Open(q)' => risky')
    <3>1. found[q] = pub[m].topic /\ Started(q)' /\ (~Open(q) => risky)
        BY <1>2, <2>1 DEF PubSafe
    <3>2. CASE q \in S
        BY <1>2, <3>1, <3>2
    <3>3. CASE q \notin S
        BY <1>2, <2>1, <3>1, <3>3 DEF Open
    <3>4. QED
        BY <3>1, <3>2, <3>3
  <2>3. ASSUME pub[m].pc = "found", NEW q \in members'[pub[m].topic], ~Open(q)' PROVE risky'
    <3>1. pub[m].topic \in Topics /\ q \in members[pub[m].topic] /\ q \in Queues
        BY <2>3 DEF TopicTypeOK
    <3>2. CASE q \in S
        BY <1>2, <2>3, <3>2
    <3>3. CASE q \notin S
        BY <1>2, <2>1, <2>3, <3>1, <3>3 DEF PubSafe, Open
    <3>4. QED
        BY <3>2, <3>3
  <2>4. QED
      BY <2>1, <2>2, <2>3 DEF PubSafe
<1>7. CurrentSafe'
  <2> SUFFICES ASSUME current' # 0, NEW q \in members'[current'], ~Open(q)' PROVE risky' \/ halted'
      BY DEF CurrentSafe
  <2>1. current' = current /\ current \in Topics
      BY DEF TopicTypeOK, Topics
  <2>2. q \in members[current] /\ q \in Queues
      BY <2>1 DEF TopicTypeOK
  <2>3. CASE q \in S
      BY <2>3
  <2>4. CASE q \notin S
      BY <1>2, <2>1, <2>2, <2>4 DEF StopInv, CurrentSafe, Open
  <2>5. QED
      BY <2>3, <2>4
<1>8. QED
    BY <1>3, <1>4, <1>5, <1>6, <1>7 DEF StopInv

\* Only an overlapping stop lets a publisher or a consumer meet a closed queue.
LEMMA StopStep ==
    ASSUME TopicTypeOK, TopicTypeOK', ConTypeOK, StopInv, [Next]_vars
    PROVE  StopInv'
<1> USE MessageQueueAssumption
<1>0. Belongs /\ CurrentSafe /\ PanicNeedsOverlap
    BY DEF StopInv
<1>1. CASE UNCHANGED <<topicVars, pub, dest, con, risky, panicked>>
  <2>1. UNCHANGED <<current, members, life, found, halted>>
      BY <1>1 DEF topicVars
  <2>2. Belongs' /\ CurrentSafe' /\ PanicNeedsOverlap'
      BY <1>0, <1>1, <2>1 DEF Belongs, CurrentSafe, PanicNeedsOverlap, Open, Started
  <2>3. \A m \in Messages : PubSafe(m)'
      BY <1>1, <2>1 DEF StopInv, PubSafe, Targets, Sending, Open, Started
  <2>4. \A q \in Queues : ConSafe(q)'
      BY <1>1, <2>1 DEF StopInv, ConSafe, Busy, Open
  <2>5. QED
      BY <2>2, <2>3, <2>4 DEF StopInv
<1>2. ASSUME NEW q \in Queues, Consumer(q), UNCHANGED callerVars PROVE StopInv'
  <2>1. /\ UNCHANGED <<current, members, life, found, halted>>
        /\ UNCHANGED <<pub, dest, risky>>
      BY <1>2 DEF callerVars, topicVars, pubVars
  <2>2. Belongs' /\ CurrentSafe'
      BY <1>0, <2>1 DEF Belongs, CurrentSafe, Open, Started
  <2>3. \A m \in Messages : PubSafe(m)'
      BY <2>1 DEF StopInv, PubSafe, Targets, Sending, Open, Started
  <2>4. ASSUME NEW pc, NEW msg, NEW loaded, ConMovesTo(q, pc, msg, loaded),
               UNCHANGED panicked, Busy(q) \/ Open(q) \/ pc \in {"receive", "ended"}
        PROVE  StopInv'
    <3>1. PanicNeedsOverlap'
        BY <1>0, <2>1, <2>4 DEF PanicNeedsOverlap
    <3>2. \A x \in Queues \ {q} : ConSafe(x)'
        BY <2>1, <2>4 DEF ConMovesTo, ConSafe, StopInv, Busy, Open
    <3>3. ConSafe(q)'
        BY <2>1, <2>4 DEF ConMovesTo, ConSafe, StopInv, Busy, Open
    <3>4. QED
        BY <2>2, <2>3, <3>1, <3>2, <3>3 DEF StopInv
  <2>5. CASE Receive(q)
    <3>1. CASE Abandons(q)
        BY <2>4, <2>5, <3>1, ReceiveOutcomes DEF Abandons
    <3>2. PICK m \in Messages : m = Head(chan[q])
        BY <2>5, ReceiveOutcomes
    <3>3. CASE Takes(q, m)
        BY <2>4, <2>5, <3>3, ReceiveOutcomes DEF Takes
    <3>4. CASE Skips(q, m)
      <4>1. UNCHANGED <<con, panicked>>
          BY <2>5, <3>4, ReceiveOutcomes DEF Skips
      <4>2. PanicNeedsOverlap' /\ \A x \in Queues : ConSafe(x)'
          BY <1>0, <2>1, <4>1 DEF PanicNeedsOverlap, ConSafe, StopInv, Busy, Open
      <4>3. QED
          BY <2>2, <2>3, <4>2 DEF StopInv
    <3>5. QED
        BY <2>5, <3>1, <3>2, <3>3, <3>4, ReceiveOutcomes
  <2>6. CASE EndConsumer(q)
    <3>1. ConMovesTo(q, "ended", con[q].msg, con[q].loaded) /\ UNCHANGED panicked
        BY <2>6, ConSteps DEF EndConsumer, ConStages
    <3>2. QED
        BY <2>4, <3>1
  <2>7. CASE HandlerSucceeds(q) \/ BuryDead(q)
    <3>1. ConMovesTo(q, "receive", NoMsg, 0) /\ UNCHANGED panicked
        BY <2>7, ConSteps DEF HandlerSucceeds, BuryDead
    <3>2. QED
        BY <2>4, <3>1
  <2>8. CASE HandlerFails(q)
    <3>1. Busy(q) /\ UNCHANGED panicked
        BY <2>8 DEF HandlerFails, Busy
    <3>2. retries[con[q].msg] \in Nat
        BY <3>1, Working DEF ConTypeOK
    <3>3. ConMovesTo(q, "store", con[q].msg, retries[con[q].msg])
        BY <2>8, <3>2, ConSteps DEF HandlerFails
    <3>4. QED
        BY <2>4, <3>1, <3>3
  <2>9. CASE StoreRetries(q) \/ DecideRetry(q)
    <3>1. Busy(q) /\ UNCHANGED panicked
        BY <2>9 DEF StoreRetries, DecideRetry, ConMoves, Busy
    <3>2. \E pc : ConMovesTo(q, pc, con[q].msg, con[q].loaded)
        BY <2>9, ConSteps DEF StoreRetries, DecideRetry, ConStages
    <3>3. QED
        BY <2>4, <3>1, <3>2
  <2>10. CASE Requeue(q)
    <3>1. CASE Open(q)
      <4>1. ConMovesTo(q, "receive", NoMsg, 0) /\ UNCHANGED panicked
          BY <2>10, <3>1, ConSteps DEF Requeue
      <4>2. QED
          BY <2>4, <4>1
    <3>2. CASE ~Open(q)
      <4>1. risky /\ UNCHANGED con
          BY <2>10, <3>2 DEF Requeue, StopInv, ConSafe, Busy
      <4>2. PanicNeedsOverlap' /\ \A x \in Queues : ConSafe(x)'
          BY <2>1, <4>1 DEF PanicNeedsOverlap, ConSafe
      <4>3. QED
          BY <2>2, <2>3, <4>2 DEF StopInv
    <3>3. QED
        BY <3>1, <3>2
  <2>11. QED
      BY <1>2, <2>5, <2>6, <2>7, <2>8, <2>9, <2>10 DEF Consumer
<1>3. ASSUME NEW q \in Queues, FindTopic(q) PROVE StopInv'
  <2>1. /\ UNCHANGED <<members, halted, pub, dest, con, risky, panicked>> /\ life[q] = "new"
        /\ \A x \in Queues \ {q} : life'[x] = life[x] /\ found'[x] = found[x]
        /\ (current # 0 /\ current' = current) \/ (current = 0 /\ current' = made + 1)
        /\ life'[q] = "found"
      BY <1>3 DEF FindTopic, pubVars, conVars, TopicTypeOK
  <2>2. ~Started(q) /\ ~Open(q)
      BY <2>1 DEF Started, Open
  <2>3. /\ \A x \in Queues \ {q} : (Started(x)' <=> Started(x)) /\ (Open(x)' <=> Open(x))
        /\ \A x \in Topics : q \notin members[x] /\ members[x] \subseteq Queues
        /\ \A m \in Messages : q \notin Targets(m) /\ dest[m] # q /\ Targets(m) \subseteq Queues
    <3>1. \A x \in Queues \ {q} : (Started(x)' <=> Started(x)) /\ (Open(x)' <=> Open(x))
        BY <2>1 DEF Started, Open
    <3>2. \A x \in Topics : q \notin members[x] /\ members[x] \subseteq Queues
        BY <1>0, <2>2 DEF Belongs, TopicTypeOK
    <3>3. \A m \in Messages : q \notin Targets(m) /\ dest[m] # q
        BY <1>0, <2>2 DEF Belongs, PubSafe, StopInv
    <3>4. \A m \in Messages : pub[m] \in Pub
        BY DEF TopicTypeOK
    <3>5. \A m \in Messages : Targets(m) \subseteq Queues
        BY <3>4 DEF Targets, Pub
    <3>6. QED
        BY <3>1, <3>2, <3>3, <3>5
  <2>4. Belongs' /\ PanicNeedsOverlap'
      BY <1>0, <2>1, <2>3 DEF Belongs, PanicNeedsOverlap
  <2>5. CurrentSafe'
    <3>1. CASE current' = current
        BY <1>0, <2>1, <2>3, <3>1 DEF CurrentSafe, TopicTypeOK, Topics
    <3>2. CASE current' = made + 1
      <4>1. made \in Nat /\ made + 1 \in Topics /\ found \in [Queues -> 0..made]
          BY <1>3, <3>2 DEF FindTopic, TopicTypeOK, Topics
      <4>2. members[made + 1] = {}
          BY <1>0, <2>3, <4>1 DEF Belongs
      <4>3. QED
          BY <2>1, <3>2, <4>2 DEF CurrentSafe
    <3>3. QED
        BY <2>1, <3>1, <3>2
  <2>6. ASSUME NEW m \in Messages PROVE PubSafe(m)'
    <3>1. PubSafe(m) /\ Targets(m)' = Targets(m)
        BY <2>1 DEF StopInv, Targets, Sending
    <3>2. \A x \in Targets(m) : found'[x] = pub[m].topic /\ Started(x)' /\ (~Open(x)' => risky)
        BY <2>1, <2>3, <3>1 DEF PubSafe
    <3>3. pub[m].pc = "found" => \A x \in members[pub[m].topic] : ~Open(x)' => risky
        BY <2>1, <2>3, <3>1 DEF PubSafe, TopicTypeOK
    <3>4. QED
        BY <2>1, <3>1, <3>2, <3>3 DEF PubSafe
  <2>7. \A x \in Queues : ConSafe(x)'
      BY <2>1, <2>2, <2>3 DEF StopInv, ConSafe, Busy
  <2>8. QED
      BY <2>4, <2>5, <2>6, <2>7 DEF StopInv
<1>4. ASSUME NEW q \in Queues, JoinTopic(q) PROVE StopInv'
  <2>1. /\ UNCHANGED <<current, found, halted, pub, dest, con, risky, panicked>>
        /\ life[q] = "found" /\ found[q] \in Topics /\ q \notin Direct
        /\ \A x \in Queues \ {q} : life'[x] = life[x]
        /\ life'[q] = "open"
      BY <1>4 DEF JoinTopic, pubVars, conVars, TopicTypeOK
  <2>2. /\ \A t \in Topics \ {found[q]} : members'[t] = members[t]
        /\ members'[found[q]] \subseteq members[found[q]] \cup {q}
      BY <1>4, <2>1 DEF JoinTopic, TopicTypeOK
  <2>3. /\ \A x \in Queues : Started(x) => Started(x)'
        /\ \A x \in Queues \ {q} : Open(x)' <=> Open(x)
        /\ Open(q)' /\ Started(q)' /\ ~Started(q)
      BY <2>1 DEF Started, Open
  <2>4. \A t \in Topics : members[t] \subseteq Queues
      BY DEF TopicTypeOK
  <2>5. Belongs' /\ PanicNeedsOverlap'
      BY <1>0, <2>1, <2>2, <2>3, <2>4 DEF Belongs, PanicNeedsOverlap
  <2>6. CurrentSafe'
    <3>1. current # 0 => current \in Topics
        BY DEF TopicTypeOK, Topics
    <3>2. current # 0 => members'[current] \subseteq members[current] \cup {q}
        BY <2>2, <3>1
    <3>3. current # 0 => \A x \in members'[current] : ~Open(x)' => risky \/ halted
        BY <1>0, <2>3, <2>4, <3>1, <3>2 DEF CurrentSafe
    <3>4. QED
        BY <2>1, <3>3 DEF CurrentSafe
  <2>7. ASSUME NEW m \in Messages PROVE PubSafe(m)'
    <3>1. PubSafe(m) /\ Targets(m)' = Targets(m) /\ pub[m] \in Pub
        BY <2>1 DEF StopInv, Targets, Sending, TopicTypeOK
    <3>2. Targets(m) \subseteq Queues
        BY <3>1 DEF Targets, Pub
    <3>3. \A x \in Targets(m) : found[x] = pub[m].topic /\ Started(x)' /\ (~Open(x)' => risky)
        BY <2>3, <3>1, <3>2 DEF PubSafe
    <3>4. pub[m].pc = "found" => \A x \in members'[pub[m].topic] : ~Open(x)' => risky
        BY <2>2, <2>3, <2>4, <3>1 DEF PubSafe, TopicTypeOK
    <3>5. QED
        BY <2>1, <3>1, <3>3, <3>4 DEF PubSafe
  <2>8. \A x \in Queues : ConSafe(x)'
      BY <2>1, <2>3 DEF StopInv, ConSafe, Busy
  <2>9. QED
      BY <2>5, <2>6, <2>7, <2>8 DEF StopInv
<1>5. ASSUME NEW t \in Topics, ~Publishing(t), NEW m \in Messages, NEW q \in Targets(m)
      PROVE  found[q] # t
  <2>1. PubSafe(m) /\ pub[m] \in Pub
      BY DEF StopInv, TopicTypeOK
  <2>2. pub[m].pc \in {"loop", "send", "count"}
      BY DEF TopicTypeOK, Targets, Sending
  <2>3. QED
      BY <1>5, <2>1, <2>2 DEF PubSafe, Publishing
<1>6. ASSUME NEW q \in Direct, StopDirect(q) PROVE StopInv'
  <2> DEFINE late == \E m \in Messages : q \in pub[m].todo \/ Sending(m, q)
  <2>1. /\ StopQueues({q}, late) /\ life[q] # "new"
        /\ UNCHANGED <<current, members, found, halted, pub, dest, con>>
      BY <1>6 DEF StopDirect, pubVars, conVars
  <2>2. \A m \in Messages : {q} \cap Targets(m) # {} => late
      BY DEF Targets
  <2>3. \A x \in Topics : q \notin members[x]
      BY <1>0 DEF Belongs
  <2>4. Started(q)
      BY <2>1 DEF Started, TopicTypeOK
  <2>5. \A m \in Messages : \A x \in {q} : pub[m].pc = "found" /\ x \in members'[pub[m].topic] => late
      BY <2>1, <2>3 DEF TopicTypeOK
  <2>6. current' # 0 => \A x \in {q} : x \in members'[current'] => halted'
      BY <2>1, <2>3 DEF TopicTypeOK, Topics
  <2>7. members' \in [Topics -> SUBSET Queues]
      BY DEF TopicTypeOK
  <2> HIDE DEF late
  <2>8. {q} \in SUBSET Queues
      OBVIOUS
  <2>9. QED
    <3>1. Guarded({q}, late, found[q])
        BY <2>1, <2>2, <2>4, <2>5, <2>6, <2>7, <2>8 DEF Guarded
    <3>2. QED
        BY <2>1, <3>1, StopStop
<1>7. ASSUME NEW t \in Topics, NEW q \in members[t], Unsubscribe(t, q) PROVE StopInv'
  <2>1. /\ StopQueues({q}, FALSE) /\ ~Publishing(t)
        /\ UNCHANGED <<current, found, halted, pub, dest, con>>
        /\ members' = [members EXCEPT ![t] = @ \ {q}]
      BY <1>7 DEF Unsubscribe, pubVars, conVars
  <2>2. q \in Queues /\ found[q] = t /\ Started(q)
      BY <1>0 DEF Belongs, TopicTypeOK
  <2>3. \A m \in Messages : {q} \cap Targets(m) # {} => FALSE
      BY <1>5, <2>1, <2>2
  <2>4. \A x \in Topics : q \notin members'[x] /\ members'[x] \subseteq members[x]
      BY <1>0, <2>1, <2>2 DEF Belongs, TopicTypeOK
  <2>5. \A m \in Messages : \A x \in {q} : pub[m].pc = "found" /\ x \in members'[pub[m].topic] => FALSE
      BY <2>1, <2>4 DEF TopicTypeOK
  <2>6. current' # 0 => \A x \in {q} : x \in members'[current'] => halted'
      BY <2>1, <2>4 DEF TopicTypeOK, Topics
  <2>7. members' \in [Topics -> SUBSET Queues]
      BY DEF TopicTypeOK
  <2> DEFINE S == {q}
             late == FALSE
  <2>8. /\ S \in SUBSET Queues /\ StopQueues(S, late) /\ \A x \in S : found[x] = t /\ Started(x)
        /\ \A m \in Messages : S \cap Targets(m) # {} => late
        /\ \A m \in Messages : \A x \in S :
             pub[m].pc = "found" /\ x \in members'[pub[m].topic] => late
        /\ current' # 0 => \A x \in S : x \in members'[current'] => halted'
      BY <2>1, <2>2, <2>3, <2>5, <2>6
  <2>9. /\ UNCHANGED <<found, dest, con, pub>> /\ (halted => halted')
        /\ \A x \in Topics : members'[x] \subseteq members[x]
        /\ current' = current \/ current' = 0
      BY <2>1, <2>4
  <2> HIDE DEF S, late
  <2>10. QED
    <3>1. Guarded(S, late, t)
        BY <2>7, <2>8, <2>9 DEF Guarded
    <3>2. QED
        BY <2>8, <3>1, StopStop
<1>8. ASSUME DeleteTopic PROVE StopInv'
  <2> DEFINE S == members[current]
             late == Holders(current) # {}
  <2>1. /\ StopQueues(S, late) /\ ~Publishing(current) /\ current \in Topics
        /\ UNCHANGED <<members, found, halted, pub, dest, con>> /\ current' = 0
      BY <1>8 DEF DeleteTopic, pubVars, conVars, TopicTypeOK, Topics
  <2>2. PICK t \in Topics : t = current
      BY <2>1
  <2>3. S \in SUBSET Queues /\ \A q \in S : found[q] = t /\ Started(q)
      BY <1>0, <2>1, <2>2 DEF Belongs, TopicTypeOK
  <2>4. \A m \in Messages : S \cap Targets(m) # {} => late
      BY <1>5, <2>1, <2>2, <2>3
  <2>5. \A m \in Messages : \A q \in S : pub[m].pc = "found" /\ q \in members'[pub[m].topic] => late
    <3> SUFFICES ASSUME NEW m \in Messages, NEW q \in S, pub[m].pc = "found",
                        q \in members'[pub[m].topic]
                 PROVE  late
        OBVIOUS
    <3>1. pub[m].topic \in Topics /\ q \in members[pub[m].topic]
        BY <2>1 DEF TopicTypeOK
    <3>2. found[q] = pub[m].topic
        BY <1>0, <3>1 DEF Belongs
    <3>3. pub[m].topic = current
        BY <2>2, <2>3, <3>2
    <3>4. QED
        BY <3>3 DEF Holders
  <2>6. /\ UNCHANGED <<found, dest, con, pub>> /\ (halted => halted')
        /\ \A x \in Topics : members'[x] \subseteq members[x]
        /\ current' = current \/ current' = 0
        /\ current' # 0 => \A q \in S : q \in members'[current'] => halted'
        /\ members' \in [Topics -> SUBSET Queues]
      BY <2>1 DEF TopicTypeOK
  <2> HIDE DEF S, late
  <2>7. QED
    <3>1. Guarded(S, late, t)
        BY <2>1, <2>3, <2>4, <2>5, <2>6 DEF Guarded
    <3>2. QED
        BY <2>1, <3>1, StopStop
<1>9. ASSUME BrokerStop PROVE StopInv'
  <2> DEFINE S == IF current = 0 THEN {} ELSE members[current]
             late == halted \/ (current # 0 /\ Holders(current) # {})
  <2>1. /\ StopQueues(S, late) /\ (current # 0 => ~Publishing(current))
        /\ UNCHANGED <<current, members, found, pub, dest, con>> /\ halted' = TRUE
      BY <1>9 DEF BrokerStop, pubVars, conVars
  <2>2. current # 0 => current \in Topics
      BY DEF TopicTypeOK, Topics
  <2>3. S \in SUBSET Queues /\ \A q \in S : found[q] = current /\ Started(q)
      BY <1>0, <2>1, <2>2 DEF Belongs, TopicTypeOK
  <2>4. \A m \in Messages : S \cap Targets(m) # {} => late
    <3>1. CASE current = 0
        BY <3>1
    <3>2. CASE current # 0
      <4>1. PICK t \in Topics : t = current
          BY <2>2, <3>2
      <4>2. QED
          BY <1>5, <2>1, <2>3, <3>2, <4>1
    <3>3. QED
        BY <3>1, <3>2
  <2>5. \A m \in Messages : \A q \in S : pub[m].pc = "found" /\ q \in members'[pub[m].topic] => late
    <3> SUFFICES ASSUME NEW m \in Messages, NEW q \in S, pub[m].pc = "found",
                        q \in members'[pub[m].topic]
                 PROVE  late
        OBVIOUS
    <3>1. pub[m].topic \in Topics /\ q \in members[pub[m].topic]
        BY <2>1 DEF TopicTypeOK
    <3>2. found[q] = pub[m].topic
        BY <1>0, <3>1 DEF Belongs
    <3>3. pub[m].topic = current
        BY <2>3, <3>2
    <3>4. QED
        BY <3>3 DEF Holders
  <2>6. /\ UNCHANGED <<found, dest, con, pub>> /\ (halted => halted')
        /\ \A x \in Topics : members'[x] \subseteq members[x]
        /\ current' = current \/ current' = 0
        /\ current' # 0 => \A q \in S : q \in members'[current'] => halted'
        /\ members' \in [Topics -> SUBSET Queues]
      BY <2>1 DEF TopicTypeOK
  <2> HIDE DEF S, late
  <2>7. QED
    <3>1. Guarded(S, late, current)
        BY <2>1, <2>3, <2>4, <2>5, <2>6 DEF Guarded
    <3>2. QED
        BY <2>1, <3>1, StopStop
<1>10. ASSUME NEW q \in Direct, NEW k \in Keys, Cleanup(q, k) PROVE StopInv'
    BY <1>1, <1>10 DEF Cleanup, pubVars, conVars
<1>11. CASE UNCHANGED vars
    BY <1>1, <1>11 DEF vars, callerVars, pubVars, conVars
<1>12. CASE Caller
    BY <1>3, <1>4, <1>6, <1>7, <1>8, <1>9, <1>10, <1>12, StopPublishing DEF Caller
<1>13. QED
    BY <1>2, <1>11, <1>12, StopPublishing, Frames

\* The invariant holds initially.
LEMMA MessageQueueInit == Init => MessageQueueInv
<1> USE MessageQueueAssumption
<1> SUFFICES ASSUME Init PROVE MessageQueueInv
    OBVIOUS
<1>0. /\ IdlePub \in Pub /\ IdlePub.pc = "idle" /\ IdlePub.topic = 0 /\ IdlePub.todo = {}
      /\ IdlePub.to = NoQueue
    BY PubUpdates DEF IdlePub
<1>a. /\ IdleCon \in Con /\ IdleCon.pc = "receive" /\ IdleCon.msg = NoMsg /\ IdleCon.loaded = 0
    BY DEF IdleCon, Con, ConStages
<1>1. TopicTypeOK
    BY <1>0 DEF Init, TopicTypeOK
<1>2. ConTypeOK
  <2>1. con \in [Queues -> Con] /\ \A q \in Queues : con[q].msg = NoMsg /\ con[q].pc = "receive"
      BY <1>a DEF Init
  <2>2. stats \in [Queues -> Stats]
      BY DEF Init, Stats
  <2>3. QED
      BY <2>1, <2>2 DEF Init, ConTypeOK
<1>3. KeyTypeOK
    BY DEF Init, KeyTypeOK
<1>4. Accounted
  <2>1. \A q \in Queues : Counting(q) = {}
      BY <1>0 DEF Init, Counting
  <2>2. \A q \in Queues : Cardinality(Counting(q)) = 0
      BY <2>1, FS_EmptySet
  <2>3. QED
      BY <1>a, <2>2 DEF Init, Accounted, InHand
<1>5. HandledInv
  <2>1. \A q \in Queues : handled[q] = <<>> /\ skipped[q] = <<>>
      BY DEF Init
  <2>2. Range(<<>>) = {} /\ IsInjective(<<>>)
      BY DEF Range, IsInjective
  <2>3. \A m \in Messages : ~processed[m]
      BY DEF Init
  <2>4. QED
      BY <2>1, <2>2, <2>3 DEF HandledInv, HandledOnce
<1>6. RetriesInv
    BY <1>a DEF Init, RetriesInv, DeadOnlyAfterRetries, Lags
<1>7. KeysInv
    BY <1>0 DEF Init, KeysInv, KeysExact, Sending
<1>8. StopInv
  <2>1. \A m \in Messages : PubSafe(m)
      BY <1>0 DEF Init, PubSafe, Targets, Sending
  <2>2. \A q \in Queues : ConSafe(q)
      BY <1>a DEF Init, ConSafe, Busy
  <2>3. Belongs
      BY DEF Init, Belongs, Started
  <2>4. QED
      BY <2>1, <2>2, <2>3 DEF Init, StopInv, PanicNeedsOverlap, CurrentSafe
<1>9. QED
    BY <1>1, <1>2, <1>3, <1>4, <1>5, <1>6, <1>7, <1>8 DEF MessageQueueInv

\* The message queue keeps its invariant.
LEMMA MessageQueueInvariant == Spec => []MessageQueueInv
<1>1. MessageQueueInv /\ [Next]_vars => MessageQueueInv'
  <2> SUFFICES ASSUME MessageQueueInv, [Next]_vars PROVE MessageQueueInv'
      OBVIOUS
  <2>1. /\ TopicTypeOK /\ ConTypeOK /\ KeyTypeOK
        /\ Accounted /\ HandledInv /\ RetriesInv /\ KeysInv /\ StopInv
      BY DEF MessageQueueInv
  <2>2. TopicTypeOK' /\ ConTypeOK' /\ KeyTypeOK'
      BY <2>1, TopicTypeStep, ConTypeStep, KeyTypeStep
  <2>3. QED
      BY <2>1, <2>2, AccountedStep, HandledStep, RetriesStep, KeysStep, StopStep
         DEF MessageQueueInv
<1>2. QED
    BY <1>1, MessageQueueInit, PTL DEF Spec
-----------------------------------------------------------------------------
\* No copy of a message is lost or made up: what a queue accepted is waiting,
\* in hand, consumed, dead, skipped or abandoned by a stopped consumer.  The
\* statistics of Queue.Stats agree with it but for the publishers that have
\* sent to the queue and not counted it yet.
THEOREM CopiesAreAccounted == Spec => []Accounted
<1>1. MessageQueueInv => Accounted
    BY DEF MessageQueueInv
<1>2. QED
    BY <1>1, MessageQueueInvariant, PTL

\* The handler of a queue accepts a message at most once, and a copy is skipped
\* only if some handler accepted the message, in spite of the unlocked flag.
THEOREM HandledAtMostOnce == Spec => []HandledOnce
<1>1. MessageQueueInv => HandledOnce
    BY DEF MessageQueueInv, HandledInv
<1>2. QED
    BY <1>1, MessageQueueInvariant, PTL

\* A stored idempotency key stands for exactly one message of Queue.Publish.
THEOREM StoredKeysAreExact == Spec => []KeysExact
<1>1. MessageQueueInv => KeysExact
    BY DEF MessageQueueInv, KeysInv
<1>2. QED
    BY <1>1, MessageQueueInvariant, PTL

\* A dead letter had MaxRetries handler errors, also when increments of Retries
\* by the consumers of two queues are lost.
THEOREM DeadLettersWereRetried == Spec => []DeadOnlyAfterRetries
<1>1. MessageQueueInv => DeadOnlyAfterRetries
    BY DEF MessageQueueInv, RetriesInv
<1>2. QED
    BY <1>1, MessageQueueInvariant, PTL

\* A send on a closed channel, or its second close, needs a stop that overlaps
\* a delivery or a retry, or a caller that goes on after a stop.
THEOREM OnlyOverlapPanics == Spec => []PanicNeedsOverlap
<1>1. MessageQueueInv => PanicNeedsOverlap
    BY DEF MessageQueueInv, StopInv
<1>2. QED
    BY <1>1, MessageQueueInvariant, PTL
=============================================================================

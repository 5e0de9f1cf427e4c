------------------------------ MODULE Channel ------------------------------
(***************************************************************************)
(* lib/channel: the channel every provider and logger of pewpew is made    *)
(* of.  A process is a handle (Sender, Receiver or OnDemandReceiver); a    *)
(* step is one access to shared memory (an atomic, the lock-free queue,    *)
(* the hash set, an Event), so two handles interleave as two worker        *)
(* threads of the tokio runtime do.  With Preemptive = FALSE a call runs   *)
(* from its first to its last step before another handle does anything,    *)
(* as on a runtime with one thread.  Memory is sequentially consistent.    *)
(*                                                                         *)
(* pc[p] names the next step of the call p is in:                          *)
(*   absent, idle, parked (Poll::Pending, a listener is outstanding),      *)
(*   ended (Poll::Ready(None)), dropped: not in a call;                    *)
(*   ready*: Sink::poll_ready; try*: try_send; insert, push, notify:       *)
(*   Channel::send; pop .. wake: Channel::recv; demand, count, listen: the *)
(*   rest of Receiver::poll_next; od*: OnDemandReceiver::poll_next;        *)
(*   dropNotify, dropListener: the end of a Drop.                          *)
(***************************************************************************)
EXTENDS Integers, Sequences, FiniteSets, Events

CONSTANTS
  Senders, Receivers, OnDemands, \* the handles that may come to exist
  FirstSender, FirstReceiver,    \* the two that channel() returns
  Values, NoItem,                \* what is sent; no item in hand
  Digest,                        \* the hash a unique channel stores
  Unique, Dynamic, StartLimit,   \* arguments of channel()
  Calls,                         \* ways of sending: "ready", "try", "force"
  Droppable,                     \* the handles that may be dropped
  Budget,                        \* bound: messages a sender may send
  Preemptive

Handles == Senders \cup Receivers \cup OnDemands

ASSUME ChannelAssumption ==
  /\ IsFiniteSet(Senders) /\ IsFiniteSet(Receivers)
  /\ FirstSender \in Senders /\ FirstReceiver \in Receivers
  /\ Senders \cap Receivers = {}
  /\ (Senders \cup Receivers) \cap OnDemands = {}
  /\ NoItem \notin Values
  /\ Digest \in [Values -> Nat]
  /\ Unique \in BOOLEAN /\ Dynamic \in BOOLEAN /\ Preemptive \in BOOLEAN
  /\ StartLimit \in Nat /\ Budget \in Nat
  /\ Calls \subseteq {"ready", "try", "force"}
  /\ Droppable \subseteq Handles

VARIABLES
  queue,           \* the items sent and not yet received
  unique,          \* the digests in the hash set of a unique channel
  hasMaxed, limit,
  senderCount, receiverCount, onDemandCount,
  senderEvents, receiverEvents, onDemandEvents,
  pc,
  item,            \* the item a call holds
  seen, seenLimit, \* the length and the limit a call has read
  budget,          \* the messages each sender may still send
  forced           \* how many messages force_send has been given

memory == <<queue, unique, hasMaxed, limit>>
counts == <<senderCount, receiverCount, onDemandCount>>
events == <<senderEvents, receiverEvents, onDemandEvents>>
locals == <<item, seen, seenLimit, budget, forced>>
vars   == <<memory, counts, events, pc, locals>>

AtRest  == {"absent", "idle", "parked", "ended", "dropped"}
Gone    == {"absent", "dropNotify", "dropListener", "dropped"}
Live(p) == pc[p] \notin Gone

At(p, label) ==
  /\ pc[p] = label
  /\ Preemptive \/ \A q \in Handles \ {p} : pc[q] \in AtRest

Goto(p, label) == pc' = [pc EXCEPT ![p] = label]

Init ==
  /\ queue = <<>> /\ unique = {} /\ hasMaxed = FALSE /\ limit = StartLimit
  /\ senderCount = 1 /\ receiverCount = 1 /\ onDemandCount = 1
  /\ senderEvents = NoListeners
  /\ receiverEvents = NoListeners
  /\ onDemandEvents = NoListeners
  /\ pc = [p \in Handles |->
             IF p \in {FirstSender, FirstReceiver} THEN "idle" ELSE "absent"]
  /\ item = [p \in Handles |-> NoItem]
  /\ seen = [p \in Handles |-> 0]
  /\ seenLimit = [p \in Receivers |-> 0]
  /\ budget = [s \in Senders |-> Budget]
  /\ forced = 0
-----------------------------------------------------------------------------
(***************************************************************************)
(* Channel::send: a unique channel first enters the digest in its set and  *)
(* discards an item whose digest is there.                                 *)
(***************************************************************************)
FirstSendStep == IF Unique THEN "insert" ELSE "push"

Release(s) == item' = [item EXCEPT ![s] = NoItem] /\ seen' = [seen EXCEPT ![s] = 0]

\* Slip: the item is moved into the set.
InsertMoves(s) ==
  /\ At(s, "insert")
  /\ unique' = unique \cup {Digest[item[s]]}
  /\ Goto(s, IF Digest[item[s]] \in unique THEN "idle" ELSE "push")
  /\ Release(s)
  /\ UNCHANGED <<queue, hasMaxed, limit, counts, events, seenLimit, budget, forced>>

Insert(s) ==
  /\ At(s, "insert")
  /\ unique' = unique \cup {Digest[item[s]]}
  /\ IF Digest[item[s]] \in unique
     THEN Goto(s, "idle") /\ Release(s)
     ELSE Goto(s, "push") /\ UNCHANGED <<item, seen>>
  /\ UNCHANGED <<queue, hasMaxed, limit, counts, events, seenLimit, budget, forced>>

Push(s) ==
  /\ At(s, "push")
  /\ queue' = Append(queue, item[s])
  /\ Goto(s, "notify")
  /\ Release(s)
  /\ UNCHANGED <<unique, hasMaxed, limit, counts, events, seenLimit, budget, forced>>

\* Slip: nobody is told of the item.
NotifyNobody(s) == At(s, "notify") /\ Goto(s, "idle") /\ UNCHANGED <<memory, counts, events, locals>>

NotifyReceiver(s) ==
  /\ At(s, "notify")
  /\ receiverEvents' = NotifyOne(receiverEvents)
  /\ Goto(s, "idle")
  /\ UNCHANGED <<memory, counts, senderEvents, onDemandEvents, locals>>
-----------------------------------------------------------------------------
(***************************************************************************)
(* A sender takes an item and starts one of the three calls that send.     *)
(***************************************************************************)
Begin(s, v, call, label) ==
  /\ call \in Calls
  /\ At(s, "idle")
  /\ budget[s] > 0
  /\ budget' = [budget EXCEPT ![s] = @ - 1]
  /\ item' = [item EXCEPT ![s] = v]
  /\ Goto(s, label)
  /\ UNCHANGED <<memory, counts, events, seenLimit>>

PollReady(s, v) == Begin(s, v, "ready", "readyTop") /\ UNCHANGED <<seen, forced>>
TrySend(s, v)   == Begin(s, v, "try", "tryTop") /\ UNCHANGED <<seen, forced>>

\* force_send goes straight to send: it looks at no length (-1) and no limit.
ForceSend(s, v) ==
  /\ Begin(s, v, "force", FirstSendStep)
  /\ seen' = [seen EXCEPT ![s] = -1]
  /\ forced' = forced + 1

\* The executor polls a parked sender again because it was notified, or
\* because another future of the same task was.
Repoll(s) ==
  /\ At(s, "parked")
  /\ Goto(s, "readyTop")
  /\ UNCHANGED <<memory, counts, events, locals>>

\* The head of the loop of poll_ready.  Without receivers the call returns an
\* error and drops its listener; otherwise it polls the listener it has.
ReadyTop(s) ==
  /\ At(s, "readyTop")
  /\ IF receiverCount = 0
     THEN /\ senderEvents' = Abandon(senderEvents, s)
          /\ Goto(s, "idle")
          /\ Release(s)
     ELSE /\ Goto(s, IF s \in Listening(senderEvents) THEN "readyPoll" ELSE "readyLen")
          /\ UNCHANGED <<senderEvents, item, seen>>
  /\ UNCHANGED <<memory, counts, receiverEvents, onDemandEvents, seenLimit, budget, forced>>

ReadyPoll(s) ==
  /\ At(s, "readyPoll")
  /\ senderEvents' = Consume(senderEvents, s)
  /\ Goto(s, IF s \in senderEvents.notified THEN "readyLen" ELSE "parked")
  /\ UNCHANGED <<memory, counts, receiverEvents, onDemandEvents, locals>>

\* channel.len() and then channel.limit(), the two operands of <
ReadLen(s) ==
  /\ \/ At(s, "readyLen") /\ Goto(s, "readyLimit")
     \/ At(s, "tryLen") /\ Goto(s, "tryLimit")
  /\ seen' = [seen EXCEPT ![s] = Len(queue)]
  /\ UNCHANGED <<memory, counts, events, item, seenLimit, budget, forced>>

\* Slip: <= for <.
ReadyLimitReached(s) ==
  /\ At(s, "readyLimit")
  /\ IF seen[s] <= limit
     THEN Goto(s, FirstSendStep) /\ UNCHANGED seen
     ELSE Goto(s, "readyListen") /\ seen' = [seen EXCEPT ![s] = 0]
  /\ UNCHANGED <<memory, counts, events, item, seenLimit, budget, forced>>

\* With room the caller goes on with start_send in the same poll.
ReadyLimit(s) ==
  /\ At(s, "readyLimit")
  /\ IF seen[s] < limit
     THEN Goto(s, FirstSendStep) /\ UNCHANGED seen
     ELSE Goto(s, "readyListen") /\ seen' = [seen EXCEPT ![s] = 0]
  /\ UNCHANGED <<memory, counts, events, item, seenLimit, budget, forced>>

\* The listener is created and the loop goes round.
ReadyListen(s) ==
  /\ At(s, "readyListen")
  /\ senderEvents' = Listen(senderEvents, s)
  /\ Goto(s, "readyTop")
  /\ UNCHANGED <<memory, counts, receiverEvents, onDemandEvents, locals>>

TryTop(s) ==
  /\ At(s, "tryTop")
  /\ IF receiverCount = 0
     THEN Goto(s, "idle") /\ Release(s)
     ELSE Goto(s, "tryLen") /\ UNCHANGED <<item, seen>>
  /\ UNCHANGED <<memory, counts, events, seenLimit, budget, forced>>

\* Slip: <= for <.
TryLimitReached(s) ==
  /\ At(s, "tryLimit")
  /\ IF seen[s] <= limit
     THEN Goto(s, FirstSendStep) /\ UNCHANGED <<item, seen>>
     ELSE Goto(s, "idle") /\ Release(s)
  /\ UNCHANGED <<memory, counts, events, seenLimit, budget, forced>>

\* Closed and Full both hand the item back; which of the two is no state.
TryLimit(s) ==
  /\ At(s, "tryLimit")
  /\ IF seen[s] < limit
     THEN Goto(s, FirstSendStep) /\ UNCHANGED <<item, seen>>
     ELSE Goto(s, "idle") /\ Release(s)
  /\ UNCHANGED <<memory, counts, events, seenLimit, budget, forced>>
-----------------------------------------------------------------------------
(***************************************************************************)
(* Channel::recv.                                                          *)
(***************************************************************************)
Pop(r) ==
  /\ At(r, "pop")
  /\ IF queue = <<>>
     THEN Goto(r, "demand") /\ UNCHANGED <<queue, item>>
     ELSE /\ queue' = Tail(queue)
          /\ item' = [item EXCEPT ![r] = Head(queue)]
          /\ Goto(r, IF Unique THEN "remove" ELSE "len")
  /\ UNCHANGED <<unique, hasMaxed, limit, counts, events, seen, seenLimit, budget, forced>>

\* Slip: the digest stays in the set.
RemoveNothing(r) == At(r, "remove") /\ Goto(r, "len") /\ UNCHANGED <<memory, counts, events, locals>>

Remove(r) ==
  /\ At(r, "remove")
  /\ unique' = unique \ {Digest[item[r]]}
  /\ Goto(r, "len")
  /\ UNCHANGED <<queue, hasMaxed, limit, counts, events, locals>>

RecvLen(r) ==
  /\ At(r, "len")
  /\ seen' = [seen EXCEPT ![r] = Len(queue)]
  /\ Goto(r, "limit")
  /\ UNCHANGED <<memory, counts, events, item, seenLimit, budget, forced>>

\* Slip: the length is compared as if the item had not been taken yet.
RecvLimitLate(r) ==
  /\ At(r, "limit")
  /\ seenLimit' = [seenLimit EXCEPT ![r] = limit]
  /\ Goto(r, IF seen[r] = 0 THEN (IF Dynamic THEN "swap" ELSE "wake")
             ELSE IF limit = seen[r] THEN "maxed" ELSE "wake")
  /\ UNCHANGED <<memory, counts, events, item, seen, budget, forced>>

RecvLimit(r) ==
  /\ At(r, "limit")
  /\ seenLimit' = [seenLimit EXCEPT ![r] = limit]
  /\ Goto(r, IF seen[r] = 0 THEN (IF Dynamic THEN "swap" ELSE "wake")
             ELSE IF limit = seen[r] + 1 THEN "maxed" ELSE "wake")
  /\ UNCHANGED <<memory, counts, events, item, seen, budget, forced>>

\* The buffer has been emptied: take the flag, and if it was up, grow.
Swap(r) ==
  /\ At(r, "swap")
  /\ hasMaxed' = FALSE
  /\ Goto(r, IF hasMaxed THEN "grow" ELSE "wake")
  /\ UNCHANGED <<queue, unique, limit, counts, events, locals>>

Grow(r) ==
  /\ At(r, "grow")
  /\ limit' = limit + 1
  /\ Goto(r, "wake")
  /\ UNCHANGED <<queue, unique, hasMaxed, counts, events, locals>>

\* The buffer was full before this item was taken.
Maxed(r) ==
  /\ At(r, "maxed")
  /\ hasMaxed' = TRUE
  /\ Goto(r, "wake")
  /\ UNCHANGED <<queue, unique, limit, counts, events, locals>>

\* recv notifies a sender if there was room, and poll_next returns the item.
Wake(r) ==
  /\ At(r, "wake")
  /\ senderEvents' = IF seen[r] < seenLimit[r] THEN NotifyOne(senderEvents) ELSE senderEvents
  /\ Goto(r, "idle")
  /\ Release(r)
  /\ seenLimit' = [seenLimit EXCEPT ![r] = 0]
  /\ UNCHANGED <<memory, counts, receiverEvents, onDemandEvents, budget, forced>>

\* Slip: one empty receive is announced to every on-demand endpoint.
NotifyAllOnDemands(r) ==
  /\ At(r, "demand")
  /\ onDemandEvents' = NotifyAll(onDemandEvents)
  /\ Goto(r, "count")
  /\ UNCHANGED <<memory, counts, senderEvents, receiverEvents, locals>>

NotifyOnDemand(r) ==
  /\ At(r, "demand")
  /\ onDemandEvents' = NotifyOne(onDemandEvents)
  /\ Goto(r, "count")
  /\ UNCHANGED <<memory, counts, senderEvents, receiverEvents, locals>>
-----------------------------------------------------------------------------
(***************************************************************************)
(* Receiver::poll_next around recv: a receiver that is parked first polls  *)
(* its listener and stays parked (Pending) while it is not notified.       *)
(***************************************************************************)
\* Slip: the senders are counted before the queue is looked at.
PollNextCounts(r) ==
  /\ At(r, "idle")
  /\ Goto(r, IF senderCount = 0 THEN "ended" ELSE "pop")
  /\ UNCHANGED <<memory, counts, events, locals>>

PollNext(r) ==
  /\ At(r, "idle")
  /\ Goto(r, "pop")
  /\ UNCHANGED <<memory, counts, events, locals>>

WakeUp(r) ==
  /\ At(r, "parked")
  /\ r \in receiverEvents.notified
  /\ receiverEvents' = Consume(receiverEvents, r)
  /\ Goto(r, "pop")
  /\ UNCHANGED <<memory, counts, senderEvents, onDemandEvents, locals>>

CheckSenders(r) ==
  /\ At(r, "count")
  /\ Goto(r, IF senderCount = 0 THEN "ended" ELSE "listen")
  /\ UNCHANGED <<memory, counts, events, locals>>

ReceiverListen(r) ==
  /\ At(r, "listen")
  /\ receiverEvents' = Listen(receiverEvents, r)
  /\ Goto(r, "parked")
  /\ UNCHANGED <<memory, counts, senderEvents, onDemandEvents, locals>>
-----------------------------------------------------------------------------
(***************************************************************************)
(* OnDemandReceiver::poll_next.  It yields () when its listener has been   *)
(* notified, and has created the next listener by then.                    *)
(***************************************************************************)
PollOnDemand(d) ==
  /\ At(d, "idle") \/ At(d, "parked")
  /\ Goto(d, "odTop")
  /\ UNCHANGED <<memory, counts, events, locals>>

OnDemandTop(d) ==
  /\ At(d, "odTop")
  /\ IF receiverCount = 0
     THEN /\ onDemandEvents' = Abandon(onDemandEvents, d)
          /\ Goto(d, "ended")
     ELSE /\ Goto(d, IF d \in Listening(onDemandEvents) THEN "odPoll" ELSE "odListen")
          /\ UNCHANGED onDemandEvents
  /\ UNCHANGED <<memory, counts, senderEvents, receiverEvents, locals>>

OnDemandPoll(d) ==
  /\ At(d, "odPoll")
  /\ onDemandEvents' = Consume(onDemandEvents, d)
  /\ Goto(d, IF d \in onDemandEvents.notified THEN "odRenew" ELSE "parked")
  /\ UNCHANGED <<memory, counts, senderEvents, receiverEvents, locals>>

OnDemandListen(d) ==
  /\ \/ At(d, "odListen") /\ Goto(d, "odTop")
     \/ At(d, "odRenew") /\ Goto(d, "idle")
  /\ onDemandEvents' = Listen(onDemandEvents, d)
  /\ UNCHANGED <<memory, counts, senderEvents, receiverEvents, locals>>
-----------------------------------------------------------------------------
(***************************************************************************)
(* Clone, OnDemandReceiver::new and Drop.  channel() has already counted   *)
(* the one OnDemandReceiver that new makes.                                *)
(***************************************************************************)
Clone(p, q) ==
  /\ p # q /\ pc[p] = "idle" /\ At(q, "absent")
  /\ Goto(q, "idle")
  /\ UNCHANGED <<memory, events, locals>>

\* Slip: the clone is not counted.
CloneUncounted(s, t) == Clone(s, t) /\ UNCHANGED counts

CloneSender(s, t) ==
  /\ Clone(s, t)
  /\ senderCount' = senderCount + 1
  /\ UNCHANGED <<receiverCount, onDemandCount>>

CloneReceiver(r, t) ==
  /\ Clone(r, t)
  /\ receiverCount' = receiverCount + 1
  /\ UNCHANGED <<senderCount, onDemandCount>>

CloneOnDemand(d, t) ==
  /\ Clone(d, t)
  /\ onDemandCount' = onDemandCount + 1
  /\ UNCHANGED <<senderCount, receiverCount>>

NewOnDemand(r, d) ==
  /\ \A e \in OnDemands : pc[e] = "absent"
  /\ Clone(r, d)
  /\ UNCHANGED counts

Drops(p) ==
  /\ p \in Droppable
  /\ \E label \in {"idle", "parked", "ended"} : At(p, label)

\* The last of its kind notifies the other side before its own listener goes.
DropSender(s) ==
  /\ Drops(s)
  /\ senderCount' = senderCount - 1
  /\ Goto(s, IF senderCount = 1 THEN "dropNotify" ELSE "dropListener")
  /\ UNCHANGED <<memory, receiverCount, onDemandCount, events, locals>>

DropReceiver(r) ==
  /\ Drops(r)
  /\ receiverCount' = receiverCount - 1
  /\ Goto(r, IF receiverCount = 1 THEN "dropNotify" ELSE "dropListener")
  /\ UNCHANGED <<memory, senderCount, onDemandCount, events, locals>>

DropOnDemand(d) ==
  /\ Drops(d)
  /\ onDemandCount' = onDemandCount - 1
  /\ Goto(d, "dropListener")
  /\ UNCHANGED <<memory, senderCount, receiverCount, events, locals>>

LastSenderGone(s) ==
  /\ At(s, "dropNotify")
  /\ receiverEvents' = NotifyAll(receiverEvents)
  /\ Goto(s, "dropListener")
  /\ UNCHANGED <<memory, counts, senderEvents, onDemandEvents, locals>>

LastReceiverGone(r) ==
  /\ At(r, "dropNotify")
  /\ senderEvents' = NotifyAll(senderEvents)
  /\ Goto(r, "dropListener")
  /\ UNCHANGED <<memory, counts, receiverEvents, onDemandEvents, locals>>

\* Slip: a handle is gone and its listener stays.
DropForgetsListener(p) ==
  /\ At(p, "dropListener")
  /\ item' = [item EXCEPT ![p] = NoItem]
  /\ Goto(p, "dropped")
  /\ UNCHANGED <<memory, counts, events, seen, seenLimit, budget, forced>>

\* A listener is in the event of its owner's kind only.
DropListener(p) ==
  /\ At(p, "dropListener")
  /\ senderEvents' = Abandon(senderEvents, p)
  /\ receiverEvents' = Abandon(receiverEvents, p)
  /\ onDemandEvents' = Abandon(onDemandEvents, p)
  /\ item' = [item EXCEPT ![p] = NoItem]
  /\ Goto(p, "dropped")
  /\ UNCHANGED <<memory, counts, seen, seenLimit, budget, forced>>
-----------------------------------------------------------------------------
SenderStarts(s) ==
  \E v \in Values : PollReady(s, v) \/ TrySend(s, v) \/ ForceSend(s, v)

\* The steps of a call that is under way.
SenderRuns(s) ==
  \/ ReadyTop(s) \/ ReadyPoll(s) \/ ReadLen(s) \/ ReadyLimit(s) \/ ReadyListen(s)
  \/ TryTop(s) \/ TryLimit(s)
  \/ Insert(s) \/ Push(s) \/ NotifyReceiver(s)
  \/ LastSenderGone(s) \/ DropListener(s)

ReceiverRuns(r) ==
  \/ Pop(r) \/ Remove(r) \/ RecvLen(r) \/ RecvLimit(r) \/ Swap(r) \/ Grow(r)
  \/ Maxed(r) \/ Wake(r) \/ NotifyOnDemand(r)
  \/ WakeUp(r) \/ CheckSenders(r) \/ ReceiverListen(r)
  \/ LastReceiverGone(r) \/ DropListener(r)

OnDemandRuns(d) ==
  OnDemandTop(d) \/ OnDemandPoll(d) \/ OnDemandListen(d) \/ DropListener(d)

SenderStep(s) ==
  \/ SenderStarts(s) \/ Repoll(s) \/ SenderRuns(s) \/ DropSender(s)
  \/ \E t \in Senders : CloneSender(s, t)

ReceiverStep(r) ==
  \/ PollNext(r) \/ ReceiverRuns(r) \/ DropReceiver(r)
  \/ \E t \in Receivers : CloneReceiver(r, t)
  \/ \E d \in OnDemands : NewOnDemand(r, d)

OnDemandStep(d) ==
  \/ PollOnDemand(d) \/ OnDemandRuns(d) \/ DropOnDemand(d)
  \/ \E t \in OnDemands : CloneOnDemand(d, t)

Next ==
  \/ \E s \in Senders : SenderStep(s)
  \/ \E r \in Receivers : ReceiverStep(r)
  \/ \E d \in OnDemands : OnDemandStep(d)

Spec == Init /\ [][Next]_vars

(***************************************************************************)
(* What the runtime and the callers guarantee: a call that has started     *)
(* goes on; a parked handle that was notified is polled again, a sender    *)
(* with items left goes on sending and a receiver goes on polling (an      *)
(* endpoint polls its provider streams until they end), each even if it is *)
(* kept waiting for a worker thread again and again: the run queue of the  *)
(* runtime is first in, first out, hence strong fairness.  Nobody has to   *)
(* poll a parked handle that was not notified, to poll an OnDemandReceiver *)
(* or to drop or clone a handle.                                           *)
(***************************************************************************)
Renotified(s) == s \in senderEvents.notified /\ Repoll(s)

Fairness ==
  /\ \A s \in Senders : SF_vars(SenderStarts(s) \/ Renotified(s) \/ SenderRuns(s))
  /\ \A r \in Receivers : SF_vars(PollNext(r) \/ ReceiverRuns(r))
  /\ \A d \in OnDemands : WF_vars(OnDemandRuns(d))

FairSpec == Spec /\ Fairness
-----------------------------------------------------------------------------
(***************************************************************************)
(* Properties.                                                             *)
(***************************************************************************)
Sending ==
  {"readyTop", "readyPoll", "readyLen", "readyLimit", "readyListen",
   "tryTop", "tryLen", "tryLimit", "insert", "push"}
SenderLabels == Sending \cup {"notify"}
ReceiverLabels ==
  {"pop", "remove", "len", "limit", "swap", "grow", "maxed", "wake",
   "demand", "count", "listen", "ended"}
OnDemandLabels == {"odTop", "odPoll", "odListen", "odRenew", "ended"}
CommonLabels == {"absent", "idle", "parked", "dropNotify", "dropListener", "dropped"}
Labels == CommonLabels \cup SenderLabels \cup ReceiverLabels \cup OnDemandLabels

LabelsOK ==
  /\ pc \in [Handles -> Labels]
  /\ \A s \in Senders : pc[s] \in CommonLabels \cup SenderLabels
  /\ \A r \in Receivers : pc[r] \in CommonLabels \cup ReceiverLabels
  /\ \A d \in OnDemands : pc[d] \in CommonLabels \cup OnDemandLabels

LocalsOK ==
  /\ item \in [Handles -> Values \cup {NoItem}]
  /\ \A s \in Senders : pc[s] \in Sending \cup {"parked"} => item[s] \in Values
  /\ \A r \in Receivers : pc[r] = "remove" => item[r] \in Values
  /\ seen \in [Handles -> Int]
  /\ seenLimit \in [Receivers -> Nat]
  /\ budget \in [Senders -> 0..Budget]
  /\ forced \in Nat

EventsOK ==
  /\ IsEvent(senderEvents, Senders)
  /\ IsEvent(receiverEvents, Receivers)
  /\ IsEvent(onDemandEvents, OnDemands)

\* Every variable has its type, and a call that is going to send an item, or
\* to take its digest out of the set, has the item in hand.
TypeOK ==
  /\ queue \in Seq(Values)
  /\ unique \in SUBSET Nat
  /\ hasMaxed \in BOOLEAN
  /\ limit \in Nat
  /\ senderCount \in Int /\ receiverCount \in Int /\ onDemandCount \in Int
  /\ EventsOK /\ LabelsOK /\ LocalsOK

\* No handle counter of Arc<Channel> drifts from the handles that exist, so
\* "no receivers" and "no senders" mean what they say (lines 221-263).
CountsMatch ==
  /\ senderCount = Cardinality({s \in Senders : Live(s)})
  /\ receiverCount = Cardinality({r \in Receivers : Live(r)})

\* A unique channel never holds two items with the same digest, whatever
\* senders and receivers do at the same time (send, lines 89-109).
NoDuplicates ==
  Unique => \A i, j \in DOMAIN queue :
              Digest[queue[i]] = Digest[queue[j]] => i = j

QueuedDigests == {Digest[queue[i]] : i \in DOMAIN queue}
Pushing  == {s \in Senders : pc[s] = "push"}
Removing == {r \in Receivers : pc[r] = "remove"}
Held     == Pushing \cup Removing

\* The hash set of a unique channel holds the digests of what is queued, of
\* what a sender is about to push and of what a receiver has just popped, and
\* no other: a digest left behind would discard that value for ever.
SetExact ==
  Unique => unique = QueuedDigests \cup {Digest[item[p]] : p \in Held}

\* Whatever senders and receivers do at the same time, a unique channel queues
\* no digest twice and its set is what is queued or in a call's hands: a value
\* is discarded if, and only if, an equal one is on its way (send and recv,
\* lines 89-125).
SetIsQueue == NoDuplicates /\ SetExact

\* What makes the two inductive: no digest is held twice, or held and queued.
HeldApart ==
  Unique => \A p \in Held :
              /\ Digest[item[p]] \notin QueuedDigests
              /\ \A q \in Held : Digest[item[p]] = Digest[item[q]] => p = q

\* try_send and poll_ready look at the length and push later, so the limit is
\* soft: it is passed by at most one item for every other sender, and by what
\* force_send puts in regardless (lines 308-340 and 424-466).
SoftLimit == Len(queue) <= limit + Cardinality(Senders) - 1 + forced

\* Why: a sender that has read a length below m may push while the queue has
\* grown past m, but then every push since the last such read was the last
\* one its sender had under way, or forced.
InFlight == {s \in Senders : pc[s] \in {"readyLimit", "tryLimit", "insert", "push"}}
StaleBelow(m) == {s \in InFlight : seen[s] < m}

OvershootAt(m) ==
  Len(queue) + Cardinality(StaleBelow(m)) <= m - 1 + Cardinality(Senders) + forced

Overshoot ==
  /\ \A m \in limit .. limit + Cardinality(Senders) : OvershootAt(m)
  /\ \A s \in InFlight : pc[s] \in {"insert", "push"} => seen[s] < limit

\* A listener belongs to a handle that is parked, that is polling or that is
\* being dropped, once: a notification never goes to a handle that is gone.
Listeners(e) == {p \in Handles : p \in Listening(e)}
ListenersOwned ==
  /\ \A s \in Listeners(senderEvents) :
       pc[s] \in {"parked", "readyTop", "readyPoll", "dropNotify", "dropListener"}
  /\ \A r \in Listeners(receiverEvents) :
       pc[r] \in {"parked", "dropNotify", "dropListener"}
  /\ \A d \in OnDemands : d \in Listening(onDemandEvents) =>
       pc[d] \in {"idle", "parked", "odTop", "odPoll", "dropListener"}
  /\ \A e \in {senderEvents, receiverEvents, onDemandEvents} :
       \A i, j \in DOMAIN e.waiting :
         /\ e.waiting[i] = e.waiting[j] => i = j
         /\ e.waiting[i] \notin e.notified

\* poll_ready looks at the receivers again after it has created its listener,
\* so no sender sleeps through the end of the last receiver (Drop, 547-564).
CloseReachesSenders ==
  (receiverCount = 0 /\ \A r \in Receivers : pc[r] # "dropNotify")
    => \A s \in Senders : pc[s] = "parked" => s \in senderEvents.notified

\* A notification reaches a handle that is there and waits for it, and none
\* sleeps through the last one there is (Drop, lines 353-361 and 547-564).
ListenersServed == ListenersOwned /\ CloseReachesSenders

\* A receiver is told the end of the stream only when nothing is queued
\* (the test receiver_ends_when_no_senders, lines 855-884).
EndOfStreamMeansDrained ==
  [][\A r \in Receivers :
       pc[r] # "ended" /\ pc'[r] = "ended" => queue = <<>>]_vars

\* However many on-demand endpoints listen, come and go, together they are
\* told of a need at most once for each receive that found the channel empty:
\* only such a receive announces a need, and the endpoint whose stream yields
\* it has used it up for all (OnDemandReceiver::poll_next, lines 666-706).
Announced == onDemandEvents.notified # {}

OneYieldPerNeed ==
  [][/\ ~Announced /\ Announced'
          => \E r \in Receivers : pc[r] = "demand" /\ pc'[r] = "count"
     /\ \A d \in OnDemands :
          pc[d] = "odPoll" /\ pc'[d] = "odRenew" => Announced /\ ~Announced']_vars

\* While the receivers keep polling, whatever was sent is received.
EverythingReceived == <>[](queue = <<>>)

\* While the receivers keep polling, a sender that waits gets its turn.
SendersProceed == \A s \in Senders : pc[s] = "parked" ~> pc[s] # "parked"

\* Every receiver learns that the last sender is gone.
ReceiversEnd ==
  \A r \in Receivers : senderCount = 0 ~> pc[r] \in {"absent", "ended", "dropped"}

\* Nobody waits for ever and nothing is left behind, whatever handles come and
\* go: each of the three relies on the notifications of another call (send,
\* recv and the two drops).
NobodyWaits == EverythingReceived /\ SendersProceed /\ ReceiversEnd
=============================================================================

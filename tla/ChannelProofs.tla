---------------------------- MODULE ChannelProofs ----------------------------
(* What holds of Channel for every choice of its constants: its types, that *)
(* its handle counters agree with the handles there are, that the set of a  *)
(* unique channel is its queue, that the soft limit is passed only so far,  *)
(* what it does for the handles that wait on it, and what it promises when  *)
(* its handles share one thread.                                            *)
EXTENDS ChannelPromise, SequenceTheorems, FiniteSetTheorems, TLAPS

-----------------------------------------------------------------------------
(***************************************************************************)
(* The operations of an Event keep it an event of the same owners.         *)
(***************************************************************************)
LEMMA ListeningType ==
  ASSUME NEW O, NEW e, IsEvent(e, O)
  PROVE  Listening(e) \in SUBSET O
BY ElementOfSeq DEF IsEvent, Listening

LEMMA NoListenersType ==
  ASSUME NEW O
  PROVE  IsEvent(NoListeners, O)
BY EmptySeq DEF IsEvent, NoListeners

LEMMA ListenType ==
  ASSUME NEW O, NEW e, IsEvent(e, O), NEW p \in O
  PROVE  IsEvent(Listen(e, p), O)
BY AppendProperties DEF IsEvent, Listen

LEMMA NotifyOneType ==
  ASSUME NEW O, NEW e, IsEvent(e, O)
  PROVE  IsEvent(NotifyOne(e), O)
<1>1. CASE e.notified # {} \/ e.waiting = <<>>
  BY <1>1 DEF IsEvent, NotifyOne
<1>2. CASE ~(e.notified # {} \/ e.waiting = <<>>)
  <2>1. Head(e.waiting) \in O /\ Tail(e.waiting) \in Seq(O)
    BY <1>2, HeadTailProperties DEF IsEvent
  <2>. QED  BY <1>2, <2>1 DEF IsEvent, NotifyOne
<1>. QED  BY <1>1, <1>2

LEMMA NotifyAllType ==
  ASSUME NEW O, NEW e, IsEvent(e, O)
  PROVE  IsEvent(NotifyAll(e), O)
BY ListeningType, EmptySeq DEF IsEvent, NotifyAll

LEMMA ConsumeType ==
  ASSUME NEW O, NEW e, IsEvent(e, O), NEW p
  PROVE  IsEvent(Consume(e, p), O)
BY DEF IsEvent, Consume

LEMMA WithoutType ==
  ASSUME NEW O, NEW w \in Seq(O), NEW p
  PROVE  Without(w, p) \in Seq(O)
<1>1. CASE \E i \in DOMAIN w : w[i] = p
  <2>1. ASSUME NEW k \in DOMAIN w
        PROVE  SubSeq(w, 1, k - 1) \o SubSeq(w, k + 1, Len(w)) \in Seq(O)
    <3>1. Len(w) \in Nat /\ k \in 1 .. Len(w)
      BY <2>1, LenProperties
    <3>2. \A i \in 1 .. Len(w) : w[i] \in O
      BY ElementOfSeq
    <3>3. \A i \in 1 .. k - 1 : w[i] \in O
      BY <3>1, <3>2
    <3>4. \A i \in k + 1 .. Len(w) : w[i] \in O
      BY <3>1, <3>2
    <3>5. SubSeq(w, 1, k - 1) \in Seq(O)
      <4>. DEFINE n == k - 1
      <4>1. n \in Int /\ \A i \in 1 .. n : w[i] \in O
        BY <3>1, <3>3
      <4>. HIDE DEF n
      <4>2. SubSeq(w, 1, n) \in Seq(O)
        BY <4>1, SubSeqProperties
      <4>. QED  BY <4>2 DEF n
    <3>6. SubSeq(w, k + 1, Len(w)) \in Seq(O)
      <4>. DEFINE m == k + 1
      <4>1. m \in Int /\ \A i \in m .. Len(w) : w[i] \in O
        BY <3>1, <3>4
      <4>. HIDE DEF m
      <4>2. SubSeq(w, m, Len(w)) \in Seq(O)
        BY <4>1, <3>1, SubSeqProperties
      <4>. QED  BY <4>2 DEF m
    <3>. QED  BY <3>5, <3>6, ConcatProperties
  <2>2. (CHOOSE i \in DOMAIN w : w[i] = p) \in DOMAIN w
    BY <1>1
  <2>. QED  BY <1>1, <2>1, <2>2 DEF Without
<1>2. CASE ~ \E i \in DOMAIN w : w[i] = p
  BY <1>2 DEF Without
<1>. QED  BY <1>1, <1>2

LEMMA AbandonType ==
  ASSUME NEW O, NEW e, IsEvent(e, O), NEW p
  PROVE  IsEvent(Abandon(e, p), O)
<1>1. CASE p \in e.notified
  BY <1>1, ConsumeType, NotifyOneType DEF Abandon
<1>2. CASE p \notin e.notified
  BY <1>2, WithoutType DEF Abandon, IsEvent
<1>. QED  BY <1>1, <1>2
-----------------------------------------------------------------------------
(***************************************************************************)
(* Type correctness.  Every step moves one handle from a label of its kind *)
(* to another; the lemmas say so action by action.                         *)
(***************************************************************************)
LEMMA HandleKinds ==
  /\ Senders \subseteq Handles /\ Receivers \subseteq Handles /\ OnDemands \subseteq Handles
  /\ Senders \cap Receivers = {} /\ Senders \cap OnDemands = {} /\ Receivers \cap OnDemands = {}
BY ChannelAssumption DEF Handles

LEMMA InitType == Init => TypeOK
<1>. SUFFICES ASSUME Init PROVE TypeOK
  OBVIOUS
<1>1. EventsOK
  BY NoListenersType DEF Init, EventsOK
<1>2. LabelsOK
  BY ChannelAssumption
  DEF Init, LabelsOK, Handles, Labels, CommonLabels
<1>3. LocalsOK
  <2>1. \A p \in Handles : pc[p] \in {"idle", "absent"}
    BY DEF Init
  <2>. QED  BY <2>1, HandleKinds, ChannelAssumption DEF Init, LocalsOK, Sending
<1>4. queue \in Seq(Values)
  BY EmptySeq DEF Init
<1>5. unique \in SUBSET Nat /\ hasMaxed \in BOOLEAN /\ limit \in Nat
  BY ChannelAssumption DEF Init
<1>6. senderCount \in Int /\ receiverCount \in Int /\ onDemandCount \in Int
  BY DEF Init
<1>. QED  BY <1>1, <1>2, <1>3, <1>4, <1>5, <1>6 DEF TypeOK

\* A handle that moves to a label of its kind keeps the labels right.
LEMMA MoveSender ==
  ASSUME LabelsOK, NEW s \in Senders, NEW l \in CommonLabels \cup SenderLabels, Goto(s, l)
  PROVE  LabelsOK'
BY HandleKinds DEF LabelsOK, Goto, Labels

LEMMA MoveReceiver ==
  ASSUME LabelsOK, NEW r \in Receivers, NEW l \in CommonLabels \cup ReceiverLabels, Goto(r, l)
  PROVE  LabelsOK'
BY HandleKinds DEF LabelsOK, Goto, Labels

LEMMA MoveOnDemand ==
  ASSUME LabelsOK, NEW d \in OnDemands, NEW l \in CommonLabels \cup OnDemandLabels, Goto(d, l)
  PROVE  LabelsOK'
BY HandleKinds DEF LabelsOK, Goto, Labels

\* A step that leaves the locals alone keeps them right, if the handle that
\* goes on to send an item, or to remove its digest, has the item.
LEMMA KeepLocals ==
  ASSUME LabelsOK, LocalsOK, NEW p \in Handles, NEW l, Goto(p, l), UNCHANGED locals,
         l \in Sending \cup {"parked", "remove"} =>
           (p \in Senders \/ l = "remove" => item[p] \in Values)
  PROVE  LocalsOK'
BY HandleKinds DEF LabelsOK, LocalsOK, Goto, locals

\* So does a step that puts the item of its handle away.
LEMMA ReleaseLocals ==
  ASSUME LabelsOK, LocalsOK, NEW p \in Handles, NEW l, Goto(p, l), Release(p),
         UNCHANGED <<seenLimit, budget, forced>>, l \notin Sending \cup {"parked", "remove"}
  PROVE  LocalsOK'
BY HandleKinds DEF LabelsOK, LocalsOK, Goto, Release

\* The end of a Drop is the same for all kinds of handles.
LEMMA DropListenerType ==
  ASSUME TypeOK, NEW p \in Handles, DropListener(p), LabelsOK'
  PROVE  TypeOK'
<1>1. EventsOK'
  BY AbandonType DEF DropListener, TypeOK, EventsOK
<1>2. LocalsOK'
  BY HandleKinds DEF DropListener, TypeOK, LabelsOK, LocalsOK, Goto, Sending
<1>. QED  BY <1>1, <1>2 DEF DropListener, TypeOK, memory, counts

LEMMA SenderRunsType ==
  ASSUME TypeOK, NEW s \in Senders, SenderRuns(s)
  PROVE  TypeOK'
<1>. USE HandleKinds DEF TypeOK, Sending, SenderLabels, CommonLabels
<1>a. s \in Handles /\ pc[s] \in CommonLabels \cup SenderLabels
  BY DEF LabelsOK
<1>b. pc[s] \in Sending => item[s] \in Values
  BY DEF LocalsOK
<1>1. CASE ReadyTop(s)
  <2>1. CASE receiverCount = 0
    <3>1. Goto(s, "idle") /\ Release(s) /\ UNCHANGED <<seenLimit, budget, forced>>
      BY <1>1, <2>1 DEF ReadyTop
    <3>2. LabelsOK' /\ LocalsOK'
      BY <1>a, <3>1, MoveSender, ReleaseLocals
    <3>3. EventsOK'
      BY <1>1, <2>1, AbandonType DEF ReadyTop, EventsOK
    <3>. QED  BY <1>1, <3>2, <3>3 DEF ReadyTop, memory, counts
  <2>2. CASE receiverCount # 0
    <3>. DEFINE l == IF s \in Listening(senderEvents) THEN "readyPoll" ELSE "readyLen"
    <3>1. Goto(s, l) /\ UNCHANGED <<locals, senderEvents>> /\ item[s] \in Values
      BY <1>1, <1>b, <2>2 DEF ReadyTop, At, locals
    <3>2. l \in {"readyPoll", "readyLen"}
      OBVIOUS
    <3>. HIDE DEF l
    <3>3. LabelsOK' /\ LocalsOK'
      BY <1>a, <3>1, <3>2, MoveSender, KeepLocals
    <3>. QED  BY <1>1, <3>1, <3>3 DEF ReadyTop, memory, counts, EventsOK
  <2>. QED  BY <2>1, <2>2
<1>2. CASE ReadyPoll(s)
  <2>. DEFINE l == IF s \in senderEvents.notified THEN "readyLen" ELSE "parked"
  <2>1. Goto(s, l) /\ UNCHANGED locals /\ item[s] \in Values
    BY <1>2, <1>b DEF ReadyPoll, At
  <2>2. l \in {"readyLen", "parked"}
    OBVIOUS
  <2>. HIDE DEF l
  <2>3. LabelsOK' /\ LocalsOK'
    BY <1>a, <2>1, <2>2, MoveSender, KeepLocals
  <2>4. EventsOK'
    BY <1>2, ConsumeType DEF ReadyPoll, EventsOK
  <2>. QED  BY <1>2, <2>3, <2>4 DEF ReadyPoll, memory, counts
<1>3. CASE ReadLen(s)
  <2>1. Len(queue) \in Nat
    BY LenProperties
  <2>2. PICK l \in {"readyLimit", "tryLimit"} : Goto(s, l)
    BY <1>3 DEF ReadLen
  <2>3. LabelsOK'
    BY <2>2, MoveSender
  <2>4. item[s] \in Values
    BY <1>3, <1>b DEF ReadLen, At
  <2>5. LocalsOK'
    BY <1>3, <1>a, <2>1, <2>2, <2>4 DEF ReadLen, LocalsOK, LabelsOK, Goto
  <2>. QED  BY <1>3, <2>3, <2>5 DEF ReadLen, memory, counts, events, EventsOK
<1>4. CASE ReadyLimit(s)
  <2>1. item[s] \in Values
    BY <1>4, <1>b DEF ReadyLimit, At
  <2>2. PICK l \in {"insert", "push", "readyListen"} : Goto(s, l)
    BY <1>4 DEF ReadyLimit, FirstSendStep
  <2>3. LabelsOK'
    BY <2>2, MoveSender
  <2>4. seen' \in [Handles -> Int]
    BY <1>4, <1>a DEF ReadyLimit, LocalsOK
  <2>5. LocalsOK'
    BY <1>4, <1>a, <2>1, <2>2, <2>4 DEF ReadyLimit, LocalsOK, LabelsOK, Goto
  <2>. QED  BY <1>4, <2>3, <2>5 DEF ReadyLimit, memory, counts, events, EventsOK
<1>5. CASE ReadyListen(s)
  <2>1. Goto(s, "readyTop") /\ UNCHANGED locals /\ item[s] \in Values
    BY <1>5, <1>b DEF ReadyListen, At
  <2>2. LabelsOK' /\ LocalsOK'
    BY <1>a, <2>1, MoveSender, KeepLocals
  <2>3. EventsOK'
    BY <1>5, ListenType DEF ReadyListen, EventsOK
  <2>. QED  BY <1>5, <2>2, <2>3 DEF ReadyListen, memory, counts
<1>6. CASE TryTop(s)
  <2>1. CASE receiverCount = 0
    <3>1. LabelsOK' /\ LocalsOK'
      BY <1>6, <1>a, <2>1, MoveSender, ReleaseLocals DEF TryTop
    <3>. QED  BY <1>6, <3>1 DEF TryTop, memory, counts, events, EventsOK
  <2>2. CASE receiverCount # 0
    <3>1. Goto(s, "tryLen") /\ UNCHANGED locals /\ item[s] \in Values
      BY <1>6, <1>b, <2>2 DEF TryTop, At, locals
    <3>2. LabelsOK' /\ LocalsOK'
      BY <1>a, <3>1, MoveSender, KeepLocals
    <3>. QED  BY <1>6, <3>2 DEF TryTop, memory, counts, events, EventsOK
  <2>. QED  BY <2>1, <2>2
<1>7. CASE TryLimit(s)
  <2>1. CASE seen[s] < limit
    <3>1. PICK l \in {"insert", "push"} : Goto(s, l)
      BY <1>7, <2>1 DEF TryLimit, FirstSendStep
    <3>2. UNCHANGED locals /\ item[s] \in Values
      BY <1>7, <1>b, <2>1 DEF TryLimit, At, locals
    <3>3. LabelsOK' /\ LocalsOK'
      BY <1>a, <3>1, <3>2, MoveSender, KeepLocals
    <3>. QED  BY <1>7, <3>3 DEF TryLimit, memory, counts, events, EventsOK
  <2>2. CASE ~(seen[s] < limit)
    <3>1. LabelsOK' /\ LocalsOK'
      BY <1>7, <1>a, <2>2, MoveSender, ReleaseLocals DEF TryLimit
    <3>. QED  BY <1>7, <3>1 DEF TryLimit, memory, counts, events, EventsOK
  <2>. QED  BY <2>1, <2>2
<1>8. CASE Insert(s)
  <2>1. item[s] \in Values /\ Digest[item[s]] \in Nat
    BY <1>8, <1>b, ChannelAssumption DEF Insert, At
  <2>2. CASE Digest[item[s]] \in unique
    <3>1. LabelsOK' /\ LocalsOK'
      BY <1>8, <1>a, <2>2, MoveSender, ReleaseLocals DEF Insert
    <3>. QED  BY <1>8, <2>1, <3>1 DEF Insert, counts, events, EventsOK
  <2>3. CASE Digest[item[s]] \notin unique
    <3>1. Goto(s, "push") /\ UNCHANGED locals
      BY <1>8, <2>3 DEF Insert, locals
    <3>2. LabelsOK' /\ LocalsOK'
      BY <1>a, <2>1, <3>1, MoveSender, KeepLocals
    <3>. QED  BY <1>8, <2>1, <3>2 DEF Insert, counts, events, EventsOK
  <2>. QED  BY <2>2, <2>3
<1>9. CASE Push(s)
  <2>1. Append(queue, item[s]) \in Seq(Values)
    BY <1>9, <1>b, AppendProperties DEF Push, At
  <2>2. LabelsOK' /\ LocalsOK'
    BY <1>9, <1>a, MoveSender, ReleaseLocals DEF Push
  <2>. QED  BY <1>9, <2>1, <2>2 DEF Push, counts, events, EventsOK
<1>10. CASE NotifyReceiver(s)
  <2>1. LabelsOK' /\ LocalsOK'
    BY <1>10, <1>a, MoveSender, KeepLocals DEF NotifyReceiver
  <2>2. EventsOK'
    BY <1>10, NotifyOneType DEF NotifyReceiver, EventsOK
  <2>. QED  BY <1>10, <2>1, <2>2 DEF NotifyReceiver, memory, counts
<1>11. CASE LastSenderGone(s)
  <2>1. LabelsOK' /\ LocalsOK'
    BY <1>11, <1>a, MoveSender, KeepLocals DEF LastSenderGone
  <2>2. EventsOK'
    BY <1>11, NotifyAllType DEF LastSenderGone, EventsOK
  <2>. QED  BY <1>11, <2>1, <2>2 DEF LastSenderGone, memory, counts
<1>12. CASE DropListener(s)
  <2>1. LabelsOK'
    BY <1>12, MoveSender DEF DropListener
  <2>. QED  BY <1>12, <1>a, <2>1, DropListenerType
<1>. QED
  BY <1>1, <1>2, <1>3, <1>4, <1>5, <1>6, <1>7, <1>8, <1>9, <1>10, <1>11, <1>12
  DEF SenderRuns

LEMMA ReceiverRunsType ==
  ASSUME TypeOK, NEW r \in Receivers, ReceiverRuns(r)
  PROVE  TypeOK'
<1>. USE HandleKinds DEF TypeOK, ReceiverLabels, CommonLabels
<1>a. r \in Handles /\ r \notin Senders /\ pc[r] \in CommonLabels \cup ReceiverLabels
  BY DEF LabelsOK
<1>1. CASE Pop(r)
  <2>1. CASE queue = <<>>
    <3>1. Goto(r, "demand") /\ UNCHANGED <<queue, locals>>
      BY <1>1, <2>1 DEF Pop, locals
    <3>2. LabelsOK' /\ LocalsOK'
      BY <1>a, <3>1, MoveReceiver, KeepLocals DEF Sending
    <3>. QED  BY <1>1, <3>1, <3>2 DEF Pop, counts, events, EventsOK
  <2>2. CASE queue # <<>>
    <3>1. Head(queue) \in Values /\ Tail(queue) \in Seq(Values)
      BY <2>2, HeadTailProperties
    <3>2. PICK l \in {"remove", "len"} : Goto(r, l)
      BY <1>1, <2>2 DEF Pop
    <3>3. LabelsOK'
      BY <3>2, MoveReceiver
    <3>4. LocalsOK'
      BY <1>1, <1>a, <2>2, <3>1, <3>2 DEF Pop, LabelsOK, LocalsOK, Goto
    <3>. QED  BY <1>1, <2>2, <3>1, <3>3, <3>4 DEF Pop, counts, events, EventsOK
  <2>. QED  BY <2>1, <2>2
<1>2. CASE Remove(r)
  <2>1. LabelsOK' /\ LocalsOK'
    BY <1>2, <1>a, MoveReceiver, KeepLocals DEF Remove, Sending
  <2>. QED  BY <1>2, <2>1 DEF Remove, counts, events, EventsOK
<1>3. CASE RecvLen(r)
  <2>1. Len(queue) \in Nat
    BY LenProperties
  <2>2. LabelsOK'
    BY <1>3, MoveReceiver DEF RecvLen
  <2>3. LocalsOK'
    BY <1>3, <1>a, <2>1 DEF RecvLen, LabelsOK, LocalsOK, Goto
  <2>. QED  BY <1>3, <2>2, <2>3 DEF RecvLen, memory, counts, events, EventsOK
<1>4. CASE RecvLimit(r)
  <2>1. PICK l \in {"swap", "wake", "maxed"} : Goto(r, l)
    BY <1>4 DEF RecvLimit
  <2>2. LabelsOK'
    BY <2>1, MoveReceiver
  <2>3. LocalsOK'
    BY <1>4, <1>a, <2>1 DEF RecvLimit, LabelsOK, LocalsOK, Goto
  <2>. QED  BY <1>4, <2>2, <2>3 DEF RecvLimit, memory, counts, events, EventsOK
<1>5. CASE Swap(r)
  <2>1. PICK l \in {"grow", "wake"} : Goto(r, l)
    BY <1>5 DEF Swap
  <2>2. UNCHANGED locals
    BY <1>5 DEF Swap
  <2>3. LabelsOK' /\ LocalsOK'
    BY <1>a, <2>1, <2>2, MoveReceiver, KeepLocals DEF Sending
  <2>. QED  BY <1>5, <2>3 DEF Swap, counts, events, EventsOK
<1>6. CASE Grow(r)
  <2>1. LabelsOK' /\ LocalsOK'
    BY <1>6, <1>a, MoveReceiver, KeepLocals DEF Grow, Sending
  <2>. QED  BY <1>6, <2>1 DEF Grow, counts, events, EventsOK
<1>7. CASE Maxed(r)
  <2>1. LabelsOK' /\ LocalsOK'
    BY <1>7, <1>a, MoveReceiver, KeepLocals DEF Maxed, Sending
  <2>. QED  BY <1>7, <2>1 DEF Maxed, counts, events, EventsOK
<1>8. CASE Wake(r)
  <2>1. LabelsOK'
    BY <1>8, MoveReceiver DEF Wake
  <2>2. LocalsOK'
    BY <1>8, <1>a DEF Wake, LabelsOK, LocalsOK, Goto, Release
  <2>3. EventsOK'
    BY <1>8, NotifyOneType DEF Wake, EventsOK
  <2>. QED  BY <1>8, <2>1, <2>2, <2>3 DEF Wake, memory, counts
<1>9. CASE NotifyOnDemand(r)
  <2>1. LabelsOK' /\ LocalsOK'
    BY <1>9, <1>a, MoveReceiver, KeepLocals DEF NotifyOnDemand, Sending
  <2>2. EventsOK'
    BY <1>9, NotifyOneType DEF NotifyOnDemand, EventsOK
  <2>. QED  BY <1>9, <2>1, <2>2 DEF NotifyOnDemand, memory, counts
<1>10. CASE WakeUp(r)
  <2>1. LabelsOK' /\ LocalsOK'
    BY <1>10, <1>a, MoveReceiver, KeepLocals DEF WakeUp, Sending
  <2>2. EventsOK'
    BY <1>10, ConsumeType DEF WakeUp, EventsOK
  <2>. QED  BY <1>10, <2>1, <2>2 DEF WakeUp, memory, counts
<1>11. CASE CheckSenders(r)
  <2>1. PICK l \in {"ended", "listen"} : Goto(r, l)
    BY <1>11 DEF CheckSenders
  <2>2. UNCHANGED locals
    BY <1>11 DEF CheckSenders
  <2>3. LabelsOK' /\ LocalsOK'
    BY <1>a, <2>1, <2>2, MoveReceiver, KeepLocals DEF Sending
  <2>. QED  BY <1>11, <2>3 DEF CheckSenders, memory, counts, events, EventsOK
<1>12. CASE ReceiverListen(r)
  <2>1. LabelsOK' /\ LocalsOK'
    BY <1>12, <1>a, MoveReceiver, KeepLocals DEF ReceiverListen, Sending
  <2>2. EventsOK'
    BY <1>12, ListenType DEF ReceiverListen, EventsOK
  <2>. QED  BY <1>12, <2>1, <2>2 DEF ReceiverListen, memory, counts
<1>13. CASE LastReceiverGone(r)
  <2>1. LabelsOK' /\ LocalsOK'
    BY <1>13, <1>a, MoveReceiver, KeepLocals DEF LastReceiverGone, Sending
  <2>2. EventsOK'
    BY <1>13, NotifyAllType DEF LastReceiverGone, EventsOK
  <2>. QED  BY <1>13, <2>1, <2>2 DEF LastReceiverGone, memory, counts
<1>14. CASE DropListener(r)
  <2>1. LabelsOK'
    BY <1>14, MoveReceiver DEF DropListener
  <2>. QED  BY <1>14, <1>a, <2>1, DropListenerType
<1>. QED
  BY <1>1, <1>2, <1>3, <1>4, <1>5, <1>6, <1>7, <1>8, <1>9, <1>10, <1>11, <1>12, <1>13, <1>14
  DEF ReceiverRuns

LEMMA OnDemandRunsType ==
  ASSUME TypeOK, NEW d \in OnDemands, OnDemandRuns(d)
  PROVE  TypeOK'
<1>. USE HandleKinds DEF TypeOK, OnDemandLabels, CommonLabels
<1>a. d \in Handles /\ d \notin Senders /\ pc[d] \in CommonLabels \cup OnDemandLabels
  BY DEF LabelsOK
<1>1. CASE OnDemandTop(d)
  <2>1. PICK l \in {"ended", "odPoll", "odListen"} : Goto(d, l)
    BY <1>1 DEF OnDemandTop
  <2>2. UNCHANGED locals
    BY <1>1 DEF OnDemandTop
  <2>3. LabelsOK' /\ LocalsOK'
    BY <1>a, <2>1, <2>2, MoveOnDemand, KeepLocals DEF Sending
  <2>4. EventsOK'
    BY <1>1, AbandonType DEF OnDemandTop, EventsOK
  <2>. QED  BY <1>1, <2>3, <2>4 DEF OnDemandTop, memory, counts
<1>2. CASE OnDemandPoll(d)
  <2>1. PICK l \in {"odRenew", "parked"} : Goto(d, l)
    BY <1>2 DEF OnDemandPoll
  <2>2. UNCHANGED locals
    BY <1>2 DEF OnDemandPoll
  <2>3. LabelsOK' /\ LocalsOK'
    BY <1>a, <2>1, <2>2, MoveOnDemand, KeepLocals DEF Sending
  <2>4. EventsOK'
    BY <1>2, ConsumeType DEF OnDemandPoll, EventsOK
  <2>. QED  BY <1>2, <2>3, <2>4 DEF OnDemandPoll, memory, counts
<1>3. CASE OnDemandListen(d)
  <2>1. PICK l \in {"odTop", "idle"} : Goto(d, l)
    BY <1>3 DEF OnDemandListen
  <2>2. UNCHANGED locals
    BY <1>3 DEF OnDemandListen
  <2>3. LabelsOK' /\ LocalsOK'
    BY <1>a, <2>1, <2>2, MoveOnDemand, KeepLocals DEF Sending
  <2>4. EventsOK'
    BY <1>3, ListenType DEF OnDemandListen, EventsOK
  <2>. QED  BY <1>3, <2>3, <2>4 DEF OnDemandListen, memory, counts
<1>4. CASE DropListener(d)
  <2>1. LabelsOK'
    BY <1>4, MoveOnDemand DEF DropListener
  <2>. QED  BY <1>4, <1>a, <2>1, DropListenerType
<1>. QED  BY <1>1, <1>2, <1>3, <1>4 DEF OnDemandRuns

\* Calls that begin, clones and the first half of a Drop.
LEMMA BeginType ==
  ASSUME TypeOK, NEW s \in Senders, NEW v \in Values, NEW call,
         NEW l \in Sending, Begin(s, v, call, l),
         seen' \in [Handles -> Int], forced' \in Nat
  PROVE  TypeOK'
<1>1. Goto(s, l) /\ l \in CommonLabels \cup SenderLabels
  BY DEF Begin, SenderLabels
<1>2. LabelsOK'
  BY <1>1, MoveSender DEF TypeOK
<1>3. LocalsOK'
  <2>1. /\ item' = [item EXCEPT ![s] = v]
        /\ budget' = [budget EXCEPT ![s] = @ - 1]
        /\ budget[s] > 0
        /\ UNCHANGED seenLimit
    BY DEF Begin
  <2>2. /\ item \in [Handles -> Values \cup {NoItem}]
        /\ pc \in [Handles -> Labels]
        /\ budget \in [Senders -> 0 .. Budget]
    BY DEF TypeOK, LocalsOK, LabelsOK
  <2>3. item' \in [Handles -> Values \cup {NoItem}]
    BY <2>1, <2>2
  <2>4. \A t \in Senders : pc'[t] \in Sending \cup {"parked"} => item'[t] \in Values
    BY <1>1, <2>1, <2>2, HandleKinds DEF TypeOK, LocalsOK, Goto
  <2>5. \A r \in Receivers : pc'[r] = "remove" => item'[r] \in Values
    BY <1>1, <2>1, <2>2, HandleKinds DEF TypeOK, LocalsOK, Goto
  <2>6. budget' \in [Senders -> 0 .. Budget]
    BY <2>1, <2>2, ChannelAssumption
  <2>. QED  BY <2>1, <2>3, <2>4, <2>5, <2>6 DEF TypeOK, LocalsOK
<1>. QED  BY <1>2, <1>3 DEF Begin, TypeOK, memory, counts, events, EventsOK

LEMMA CloneType ==
  ASSUME TypeOK, NEW p, NEW q \in Handles, Clone(p, q),
         senderCount' \in Int, receiverCount' \in Int, onDemandCount' \in Int
  PROVE  TypeOK'
<1>1. q \in Senders \/ q \in Receivers \/ q \in OnDemands
  BY DEF Handles
<1>2. LabelsOK'
  BY <1>1, MoveSender, MoveReceiver, MoveOnDemand DEF Clone, TypeOK, CommonLabels
<1>3. LocalsOK'
  BY KeepLocals DEF Clone, TypeOK, Sending
<1>. QED  BY <1>2, <1>3 DEF Clone, TypeOK, memory, events, EventsOK

LEMMA DropType ==
  ASSUME TypeOK, NEW p \in Handles, NEW l \in {"dropNotify", "dropListener"}, Goto(p, l),
         senderCount' \in Int, receiverCount' \in Int, onDemandCount' \in Int,
         UNCHANGED <<memory, events, locals>>
  PROVE  TypeOK'
<1>1. p \in Senders \/ p \in Receivers \/ p \in OnDemands
  BY DEF Handles
<1>2. LabelsOK'
  BY <1>1, MoveSender, MoveReceiver, MoveOnDemand DEF TypeOK, CommonLabels
<1>3. LocalsOK'
  BY KeepLocals DEF TypeOK, Sending
<1>. QED  BY <1>2, <1>3 DEF TypeOK, memory, events, EventsOK

LEMMA NextType == TypeOK /\ [Next]_vars => TypeOK'
<1>. SUFFICES ASSUME TypeOK, [Next]_vars PROVE TypeOK'
  OBVIOUS
<1>. USE HandleKinds
<1>c. senderCount \in Int /\ receiverCount \in Int /\ onDemandCount \in Int
  BY DEF TypeOK
<1>1. ASSUME NEW s \in Senders, SenderStep(s) PROVE TypeOK'
  <2>1. CASE SenderStarts(s)
    <3>1. PICK v \in Values : PollReady(s, v) \/ TrySend(s, v) \/ ForceSend(s, v)
      BY <2>1 DEF SenderStarts
    <3>2. FirstSendStep \in Sending
      BY DEF FirstSendStep, Sending
    <3>3. "readyTop" \in Sending /\ "tryTop" \in Sending
      BY DEF Sending
    <3>4. seen' \in [Handles -> Int] /\ forced' \in Nat
      BY <3>1, HandleKinds DEF PollReady, TrySend, ForceSend, TypeOK, LocalsOK
    <3>. QED  BY <3>1, <3>2, <3>3, <3>4, BeginType DEF PollReady, TrySend, ForceSend
  <2>2. CASE Repoll(s)
    <3>1. item[s] \in Values
      BY <2>2 DEF Repoll, At, TypeOK, LocalsOK
    <3>2. LabelsOK' /\ LocalsOK'
      BY <2>2, <3>1, MoveSender, KeepLocals DEF Repoll, TypeOK, SenderLabels, Sending
    <3>. QED  BY <2>2, <3>2 DEF Repoll, TypeOK, memory, counts, events, EventsOK
  <2>3. CASE SenderRuns(s)
    BY <2>3, SenderRunsType
  <2>4. CASE DropSender(s)
    BY <1>c, <2>4, DropType DEF DropSender
  <2>5. CASE \E t \in Senders : CloneSender(s, t)
    BY <1>c, <2>5, CloneType DEF CloneSender
  <2>. QED  BY <1>1, <2>1, <2>2, <2>3, <2>4, <2>5 DEF SenderStep
<1>2. ASSUME NEW r \in Receivers, ReceiverStep(r) PROVE TypeOK'
  <2>1. CASE PollNext(r)
    <3>1. LabelsOK' /\ LocalsOK'
      BY <2>1, MoveReceiver, KeepLocals DEF PollNext, TypeOK, ReceiverLabels, Sending
    <3>. QED  BY <2>1, <3>1 DEF PollNext, TypeOK, memory, counts, events, EventsOK
  <2>2. CASE ReceiverRuns(r)
    BY <2>2, ReceiverRunsType
  <2>3. CASE DropReceiver(r)
    BY <1>c, <2>3, DropType DEF DropReceiver
  <2>4. CASE \E t \in Receivers : CloneReceiver(r, t)
    BY <1>c, <2>4, CloneType DEF CloneReceiver
  <2>5. CASE \E d \in OnDemands : NewOnDemand(r, d)
    BY <1>c, <2>5, CloneType DEF NewOnDemand, counts
  <2>. QED  BY <1>2, <2>1, <2>2, <2>3, <2>4, <2>5 DEF ReceiverStep
<1>3. ASSUME NEW d \in OnDemands, OnDemandStep(d) PROVE TypeOK'
  <2>1. CASE PollOnDemand(d)
    <3>1. LabelsOK' /\ LocalsOK'
      BY <2>1, MoveOnDemand, KeepLocals DEF PollOnDemand, TypeOK, OnDemandLabels, Sending
    <3>. QED  BY <2>1, <3>1 DEF PollOnDemand, TypeOK, memory, counts, events, EventsOK
  <2>2. CASE OnDemandRuns(d)
    BY <2>2, OnDemandRunsType
  <2>3. CASE DropOnDemand(d)
    BY <1>c, <2>3, DropType DEF DropOnDemand
  <2>4. CASE \E t \in OnDemands : CloneOnDemand(d, t)
    BY <1>c, <2>4, CloneType DEF CloneOnDemand
  <2>. QED  BY <1>3, <2>1, <2>2, <2>3, <2>4 DEF OnDemandStep
<1>4. CASE UNCHANGED vars
  BY <1>4 DEF vars, TypeOK, memory, counts, events, locals, EventsOK, LabelsOK, LocalsOK
<1>. QED  BY <1>1, <1>2, <1>3, <1>4 DEF Next

\* Every reachable state of a channel is well typed: in particular whoever is
\* about to push or to remove a digest has the item (Channel, lines 50-63).
THEOREM TypeCorrect == Spec => []TypeOK
BY InitType, NextType, PTL DEF Spec
-----------------------------------------------------------------------------
(***************************************************************************)
(* The counters.  Only clones and drops change who is live, one at a time, *)
(* and they change the counter of their kind with it.                      *)
(***************************************************************************)
LiveOf(Kind) == {p \in Kind : Live(p)}

LEMMA CountsMatchLive ==
  CountsMatch <=> /\ senderCount = Cardinality(LiveOf(Senders))
                  /\ receiverCount = Cardinality(LiveOf(Receivers))
BY DEF CountsMatch, LiveOf

LEMMA LiveFinite ==
  ASSUME NEW Kind, Kind = Senders \/ Kind = Receivers
  PROVE  IsFiniteSet(LiveOf(Kind)) /\ Cardinality(LiveOf(Kind)) \in Nat
BY ChannelAssumption, FS_Subset, FS_CardinalityType DEF LiveOf

\* A handle that moves within a call, or is of the other kind, counts the same.
LEMMA LiveKept ==
  ASSUME TypeOK, NEW Kind \in {Senders, Receivers}, NEW p \in Handles, NEW l \in Labels,
         Goto(p, l), p \in Kind => (l \in Gone <=> pc[p] \in Gone)
  PROVE  LiveOf(Kind)' = LiveOf(Kind)
BY HandleKinds DEF LiveOf, Live, Goto, TypeOK, LabelsOK

LEMMA LiveJoins ==
  ASSUME TypeOK, NEW Kind \in {Senders, Receivers}, NEW p \in Kind, Goto(p, "idle"),
         pc[p] = "absent"
  PROVE  Cardinality(LiveOf(Kind)') = Cardinality(LiveOf(Kind)) + 1
<1>1. LiveOf(Kind)' = LiveOf(Kind) \cup {p} /\ p \notin LiveOf(Kind)
  BY HandleKinds DEF LiveOf, Live, Gone, Goto, TypeOK, LabelsOK
<1>. QED  BY <1>1, LiveFinite, FS_AddElement

LEMMA LiveLeaves ==
  ASSUME TypeOK, NEW Kind \in {Senders, Receivers}, NEW p \in Kind,
         NEW l \in {"dropNotify", "dropListener"}, Goto(p, l),
         pc[p] \in {"idle", "parked", "ended"}
  PROVE  Cardinality(LiveOf(Kind)') = Cardinality(LiveOf(Kind)) - 1
<1>1. LiveOf(Kind)' = LiveOf(Kind) \ {p} /\ p \in LiveOf(Kind)
  BY HandleKinds DEF LiveOf, Live, Gone, Goto, TypeOK, LabelsOK
<1>. QED  BY <1>1, LiveFinite, FS_RemoveElement

\* A step of one handle that neither brings it into being nor drops it.
Stays(p) ==
  /\ \E l \in Labels : Goto(p, l) /\ (l \in Gone <=> pc[p] \in Gone)
  /\ UNCHANGED counts

LEMMA StaysCounts ==
  ASSUME TypeOK, CountsMatch, NEW p \in Handles, Stays(p)
  PROVE  CountsMatch'
<1>1. PICK l \in Labels : Goto(p, l) /\ (l \in Gone <=> pc[p] \in Gone)
  BY DEF Stays
<1>2. LiveOf(Senders)' = LiveOf(Senders) /\ LiveOf(Receivers)' = LiveOf(Receivers)
  BY <1>1, LiveKept
<1>. QED  BY <1>2 DEF Stays, counts, CountsMatch, LiveOf

LEMMA SenderRunsCounts ==
  ASSUME TypeOK, CountsMatch, NEW s \in Senders, SenderRuns(s)
  PROVE  CountsMatch'
<1>. USE HandleKinds DEF Labels, CommonLabels, SenderLabels, ReceiverLabels, OnDemandLabels, Sending
<1>a. ASSUME Stays(s) PROVE CountsMatch'
  BY <1>a, StaysCounts
<1>1. CASE ReadyTop(s)
  BY <1>1, <1>a DEF ReadyTop, At, Stays, Gone, FirstSendStep
<1>2. CASE ReadyPoll(s)
  BY <1>2, <1>a DEF ReadyPoll, At, Stays, Gone, FirstSendStep
<1>3. CASE ReadLen(s)
  BY <1>3, <1>a DEF ReadLen, At, Stays, Gone, FirstSendStep
<1>4. CASE ReadyLimit(s)
  BY <1>4, <1>a DEF ReadyLimit, At, Stays, Gone, FirstSendStep
<1>5. CASE ReadyListen(s)
  BY <1>5, <1>a DEF ReadyListen, At, Stays, Gone, FirstSendStep
<1>6. CASE TryTop(s)
  BY <1>6, <1>a DEF TryTop, At, Stays, Gone, FirstSendStep
<1>7. CASE TryLimit(s)
  BY <1>7, <1>a DEF TryLimit, At, Stays, Gone, FirstSendStep
<1>8. CASE Insert(s)
  BY <1>8, <1>a DEF Insert, At, Stays, Gone, FirstSendStep
<1>9. CASE Push(s)
  BY <1>9, <1>a DEF Push, At, Stays, Gone, FirstSendStep
<1>10. CASE NotifyReceiver(s)
  BY <1>10, <1>a DEF NotifyReceiver, At, Stays, Gone, FirstSendStep
<1>11. CASE LastSenderGone(s)
  BY <1>11, <1>a DEF LastSenderGone, At, Stays, Gone, FirstSendStep
<1>12. CASE DropListener(s)
  BY <1>12, <1>a DEF DropListener, At, Stays, Gone, FirstSendStep
<1>. QED
  BY <1>1, <1>2, <1>3, <1>4, <1>5, <1>6, <1>7, <1>8, <1>9, <1>10, <1>11, <1>12 DEF SenderRuns

LEMMA ReceiverRunsCounts ==
  ASSUME TypeOK, CountsMatch, NEW r \in Receivers, ReceiverRuns(r)
  PROVE  CountsMatch'
<1>. USE HandleKinds DEF Labels, CommonLabels, SenderLabels, ReceiverLabels, OnDemandLabels, Sending
<1>a. ASSUME Stays(r) PROVE CountsMatch'
  BY <1>a, StaysCounts
<1>1. CASE Pop(r)
  BY <1>1, <1>a DEF Pop, At, Stays, Gone, FirstSendStep
<1>2. CASE Remove(r)
  BY <1>2, <1>a DEF Remove, At, Stays, Gone, FirstSendStep
<1>3. CASE RecvLen(r)
  BY <1>3, <1>a DEF RecvLen, At, Stays, Gone, FirstSendStep
<1>4. CASE RecvLimit(r)
  BY <1>4, <1>a DEF RecvLimit, At, Stays, Gone, FirstSendStep
<1>5. CASE Swap(r)
  BY <1>5, <1>a DEF Swap, At, Stays, Gone, FirstSendStep
<1>6. CASE Grow(r)
  BY <1>6, <1>a DEF Grow, At, Stays, Gone, FirstSendStep
<1>7. CASE Maxed(r)
  BY <1>7, <1>a DEF Maxed, At, Stays, Gone, FirstSendStep
<1>8. CASE Wake(r)
  BY <1>8, <1>a DEF Wake, At, Stays, Gone, FirstSendStep
<1>9. CASE NotifyOnDemand(r)
  BY <1>9, <1>a DEF NotifyOnDemand, At, Stays, Gone, FirstSendStep
<1>10. CASE WakeUp(r)
  BY <1>10, <1>a DEF WakeUp, At, Stays, Gone, FirstSendStep
<1>11. CASE CheckSenders(r)
  BY <1>11, <1>a DEF CheckSenders, At, Stays, Gone, FirstSendStep
<1>12. CASE ReceiverListen(r)
  BY <1>12, <1>a DEF ReceiverListen, At, Stays, Gone, FirstSendStep
<1>13. CASE LastReceiverGone(r)
  BY <1>13, <1>a DEF LastReceiverGone, At, Stays, Gone, FirstSendStep
<1>14. CASE DropListener(r)
  BY <1>14, <1>a DEF DropListener, At, Stays, Gone, FirstSendStep
<1>. QED
  BY <1>1, <1>2, <1>3, <1>4, <1>5, <1>6, <1>7, <1>8, <1>9, <1>10, <1>11, <1>12, <1>13, <1>14 DEF ReceiverRuns

LEMMA OnDemandRunsCounts ==
  ASSUME TypeOK, CountsMatch, NEW d \in OnDemands, OnDemandRuns(d)
  PROVE  CountsMatch'
<1>. USE HandleKinds DEF Labels, CommonLabels, SenderLabels, ReceiverLabels, OnDemandLabels, Sending
<1>a. ASSUME Stays(d) PROVE CountsMatch'
  BY <1>a, StaysCounts
<1>1. CASE OnDemandTop(d)
  BY <1>1, <1>a DEF OnDemandTop, At, Stays, Gone, FirstSendStep
<1>2. CASE OnDemandPoll(d)
  BY <1>2, <1>a DEF OnDemandPoll, At, Stays, Gone, FirstSendStep
<1>3. CASE OnDemandListen(d)
  BY <1>3, <1>a DEF OnDemandListen, At, Stays, Gone, FirstSendStep
<1>4. CASE DropListener(d)
  BY <1>4, <1>a DEF DropListener, At, Stays, Gone, FirstSendStep
<1>. QED
  BY <1>1, <1>2, <1>3, <1>4 DEF OnDemandRuns

LEMMA NextCounts == TypeOK /\ CountsMatch /\ [Next]_vars => CountsMatch'
<1>. SUFFICES ASSUME TypeOK, CountsMatch, [Next]_vars PROVE CountsMatch'
  OBVIOUS
<1>. USE HandleKinds DEF Labels, CommonLabels, SenderLabels, ReceiverLabels, OnDemandLabels, Sending
<1>a. ASSUME NEW p \in Handles, Stays(p) PROVE CountsMatch'
  BY <1>a, StaysCounts
<1>b. /\ senderCount = Cardinality(LiveOf(Senders))
      /\ receiverCount = Cardinality(LiveOf(Receivers))
  BY CountsMatchLive
<1>c. SUFFICES ASSUME ~ CountsMatch' PROVE FALSE
  OBVIOUS
<1>d. ~ (/\ senderCount' = Cardinality(LiveOf(Senders)')
         /\ receiverCount' = Cardinality(LiveOf(Receivers)'))
  BY <1>c DEF CountsMatch, LiveOf
<1>1. ASSUME NEW s \in Senders, SenderStep(s) PROVE FALSE
  <2>1. CASE SenderStarts(s)
    BY <1>a, <1>c, <2>1
    DEF SenderStarts, PollReady, TrySend, ForceSend, Begin, At, Stays, Gone, FirstSendStep
  <2>2. CASE Repoll(s)
    BY <1>a, <1>c, <2>2 DEF Repoll, At, Stays, Gone
  <2>3. CASE SenderRuns(s)
    BY <1>c, <2>3, SenderRunsCounts
  <2>4. CASE DropSender(s)
    <3>1. PICK l \in {"dropNotify", "dropListener"} : Goto(s, l)
      BY <2>4 DEF DropSender
    <3>2. LiveOf(Receivers)' = LiveOf(Receivers)
      BY <3>1, LiveKept
    <3>3. Cardinality(LiveOf(Senders)') = Cardinality(LiveOf(Senders)) - 1
      BY <2>4, <3>1, LiveLeaves DEF DropSender, Drops, At
    <3>. QED  BY <1>b, <1>d, <2>4, <3>2, <3>3 DEF DropSender
  <2>5. ASSUME NEW t \in Senders, CloneSender(s, t) PROVE FALSE
    <3>1. Goto(t, "idle") /\ pc[t] = "absent"
      BY <2>5 DEF CloneSender, Clone, At
    <3>2. LiveOf(Receivers)' = LiveOf(Receivers)
      BY <3>1, LiveKept
    <3>3. Cardinality(LiveOf(Senders)') = Cardinality(LiveOf(Senders)) + 1
      BY <3>1, LiveJoins
    <3>. QED  BY <1>b, <1>d, <2>5, <3>2, <3>3 DEF CloneSender
  <2>. QED  BY <1>1, <2>1, <2>2, <2>3, <2>4, <2>5 DEF SenderStep
<1>2. ASSUME NEW r \in Receivers, ReceiverStep(r) PROVE FALSE
  <2>1. CASE PollNext(r)
    BY <1>a, <1>c, <2>1 DEF PollNext, At, Stays, Gone
  <2>2. CASE ReceiverRuns(r)
    BY <1>c, <2>2, ReceiverRunsCounts
  <2>3. CASE DropReceiver(r)
    <3>1. PICK l \in {"dropNotify", "dropListener"} : Goto(r, l)
      BY <2>3 DEF DropReceiver
    <3>2. LiveOf(Senders)' = LiveOf(Senders)
      BY <3>1, LiveKept
    <3>3. Cardinality(LiveOf(Receivers)') = Cardinality(LiveOf(Receivers)) - 1
      BY <2>3, <3>1, LiveLeaves DEF DropReceiver, Drops, At
    <3>. QED  BY <1>b, <1>d, <2>3, <3>2, <3>3 DEF DropReceiver
  <2>4. ASSUME NEW t \in Receivers, CloneReceiver(r, t) PROVE FALSE
    <3>1. Goto(t, "idle") /\ pc[t] = "absent"
      BY <2>4 DEF CloneReceiver, Clone, At
    <3>2. LiveOf(Senders)' = LiveOf(Senders)
      BY <3>1, LiveKept
    <3>3. Cardinality(LiveOf(Receivers)') = Cardinality(LiveOf(Receivers)) + 1
      BY <3>1, LiveJoins
    <3>. QED  BY <1>b, <1>d, <2>4, <3>2, <3>3 DEF CloneReceiver
  <2>5. ASSUME NEW d \in OnDemands, NewOnDemand(r, d) PROVE FALSE
    <3>1. Goto(d, "idle") /\ UNCHANGED counts
      BY <2>5 DEF NewOnDemand, Clone
    <3>2. LiveOf(Senders)' = LiveOf(Senders) /\ LiveOf(Receivers)' = LiveOf(Receivers)
      BY <3>1, LiveKept
    <3>. QED  BY <1>b, <1>d, <3>1, <3>2 DEF counts
  <2>. QED  BY <1>2, <2>1, <2>2, <2>3, <2>4, <2>5 DEF ReceiverStep
<1>3. ASSUME NEW d \in OnDemands, OnDemandStep(d) PROVE FALSE
  <2>a. ASSUME NEW p \in OnDemands, NEW l \in Labels, Goto(p, l),
               UNCHANGED <<senderCount, receiverCount>>
        PROVE  FALSE
    <3>1. LiveOf(Senders)' = LiveOf(Senders) /\ LiveOf(Receivers)' = LiveOf(Receivers)
      BY <2>a, LiveKept
    <3>. QED  BY <1>b, <1>d, <2>a, <3>1
  <2>1. CASE PollOnDemand(d)
    BY <2>1, <2>a DEF PollOnDemand, counts
  <2>2. CASE OnDemandRuns(d)
    BY <1>c, <2>2, OnDemandRunsCounts
  <2>3. CASE DropOnDemand(d)
    BY <2>3, <2>a DEF DropOnDemand
  <2>4. ASSUME NEW t \in OnDemands, CloneOnDemand(d, t) PROVE FALSE
    BY <2>4, <2>a DEF CloneOnDemand, Clone
  <2>. QED  BY <1>3, <2>1, <2>2, <2>3, <2>4 DEF OnDemandStep
<1>4. CASE UNCHANGED vars
  BY <1>c, <1>4 DEF vars, counts, CountsMatch, Live
<1>. QED  BY <1>1, <1>2, <1>3, <1>4 DEF Next

LEMMA InitCounts == Init => CountsMatch
<1>. SUFFICES ASSUME Init PROVE CountsMatch
  OBVIOUS
<1>1. {s \in Senders : Live(s)} = {FirstSender}
  BY HandleKinds, ChannelAssumption DEF Init, Live, Gone
<1>2. {r \in Receivers : Live(r)} = {FirstReceiver}
  BY HandleKinds, ChannelAssumption DEF Init, Live, Gone
<1>. QED  BY <1>1, <1>2, FS_Singleton DEF Init, CountsMatch

\* The counters of senders and receivers are exact after every clone and
\* drop (Sender, lines 340-361; Receiver, lines 531-564).
THEOREM CountsAreExact == Spec => []CountsMatch
BY TypeCorrect, InitCounts, NextCounts, PTL DEF Spec

-----------------------------------------------------------------------------
(***************************************************************************)
(* The hash set.  NoDuplicates is not inductive: that a push does not      *)
(* repeat a queued digest follows from SetExact and HeldApart, which say   *)
(* who has entered a digest in the set and not yet pushed the item, or     *)
(* popped an item and not yet taken its digest out.                        *)
(***************************************************************************)
UniqueInv == NoDuplicates /\ SetExact /\ HeldApart

-----------------------------------------------------------------------------
\* What Append and Tail do to the digests of a queue.
LEMMA QueuedAppend ==
  ASSUME queue \in Seq(Values), NEW v \in Values, queue' = Append(queue, v)
  PROVE  /\ QueuedDigests' = QueuedDigests \cup {Digest[v]}
         /\ NoDuplicates /\ Digest[v] \notin QueuedDigests => NoDuplicates'
<1>1. Len(queue) \in Nat /\ DOMAIN queue = 1 .. Len(queue)
  BY LenProperties
<1>2. /\ DOMAIN queue' = 1 .. Len(queue) + 1
      /\ \A i \in 1 .. Len(queue) : queue'[i] = queue[i]
      /\ queue'[Len(queue) + 1] = v
  BY <1>1, AppendProperties
<1>3. QueuedDigests' = QueuedDigests \cup {Digest[v]}
  BY <1>1, <1>2 DEF QueuedDigests
<1>4. ASSUME NoDuplicates, Digest[v] \notin QueuedDigests PROVE NoDuplicates'
  BY <1>1, <1>2, <1>4 DEF NoDuplicates, QueuedDigests
<1>. QED  BY <1>3, <1>4

LEMMA QueuedTail ==
  ASSUME queue \in Seq(Values), queue # <<>>, queue' = Tail(queue), Unique, NoDuplicates
  PROVE  /\ QueuedDigests = QueuedDigests' \cup {Digest[Head(queue)]}
         /\ Digest[Head(queue)] \notin QueuedDigests'
         /\ NoDuplicates'
<1>1. /\ Len(queue) \in Nat /\ DOMAIN queue = 1 .. Len(queue)
      /\ Len(queue) # 0
  BY LenProperties, EmptySeq
<1>2. /\ Head(queue) = queue[1]
      /\ DOMAIN queue' = 1 .. Len(queue) - 1
      /\ \A i \in 1 .. Len(queue) - 1 : queue'[i] = queue[i + 1]
  BY <1>1, HeadTailProperties, LenProperties
<1>3. QueuedDigests = QueuedDigests' \cup {Digest[Head(queue)]}
  <2>1. ASSUME NEW i \in DOMAIN queue
        PROVE  Digest[queue[i]] \in QueuedDigests' \cup {Digest[Head(queue)]}
    <3>1. CASE i = 1
      BY <3>1, <1>2
    <3>2. CASE i # 1
      <4>1. i - 1 \in 1 .. Len(queue) - 1 /\ (i - 1) + 1 = i
        BY <3>2, <1>1
      <4>2. queue'[i - 1] = queue[i] /\ i - 1 \in DOMAIN queue'
        BY <4>1, <1>2
      <4>. QED  BY <4>2 DEF QueuedDigests
    <3>. QED  BY <3>1, <3>2
  <2>2. ASSUME NEW i \in DOMAIN queue' PROVE Digest[queue'[i]] \in QueuedDigests
    <3>1. i + 1 \in DOMAIN queue /\ queue'[i] = queue[i + 1]
      BY <1>1, <1>2
    <3>. QED  BY <3>1 DEF QueuedDigests
  <2>3. Digest[Head(queue)] \in QueuedDigests
    BY <1>1, <1>2 DEF QueuedDigests
  <2>. QED  BY <2>1, <2>2, <2>3 DEF QueuedDigests
<1>4. Digest[Head(queue)] \notin QueuedDigests'
  BY <1>1, <1>2 DEF QueuedDigests, NoDuplicates
<1>5. NoDuplicates'
  BY <1>1, <1>2 DEF NoDuplicates
<1>. QED  BY <1>3, <1>4, <1>5

\* Who is about to push or to remove has an item with a digest.
LEMMA HeldType ==
  ASSUME TypeOK
  PROVE  /\ Held \subseteq Handles
         /\ \A p \in Held : item[p] \in Values
BY HandleKinds DEF TypeOK, LocalsOK, Held, Pushing, Removing, Sending

\* A step of a handle that holds no digest, before or after, and that leaves
\* the queue and the hash set alone, changes nothing.
LEMMA HoldsNothing ==
  ASSUME TypeOK, UniqueInv, NEW p \in Handles, NEW l, Goto(p, l),
         l \notin {"push", "remove"}, pc[p] \notin {"push", "remove"},
         \A q \in Handles \ {p} : item'[q] = item[q],
         UNCHANGED <<queue, unique>>
  PROVE  UniqueInv'
<1>1. Held' = Held /\ p \notin Held
  BY HandleKinds DEF TypeOK, LabelsOK, Goto, Held, Pushing, Removing
<1>2. \A q \in Held : item'[q] = item[q]
  BY <1>1, HeldType
<1>3. QueuedDigests' = QueuedDigests /\ NoDuplicates'
  BY DEF QueuedDigests, UniqueInv, NoDuplicates
<1>4. SetExact'
  BY <1>1, <1>2, <1>3 DEF UniqueInv, SetExact
<1>5. HeldApart'
  BY <1>1, <1>2, <1>3 DEF UniqueInv, HeldApart
<1>. QED  BY <1>3, <1>4, <1>5 DEF UniqueInv

\* The four steps that move a digest between the queue, the set and a handle.
LEMMA InsertUnique ==
  ASSUME TypeOK, UniqueInv, Unique, NEW s \in Senders, Insert(s)
  PROVE  UniqueInv'
<1>. DEFINE d == Digest[item[s]]
<1>0. s \in Handles /\ pc[s] = "insert"
  BY HandleKinds DEF Insert, At
<1>1. CASE d \in unique
  <2>1. Goto(s, "idle") /\ Release(s) /\ UNCHANGED <<queue, unique>>
    BY <1>1 DEF Insert
  <2>2. \A q \in Handles \ {s} : item'[q] = item[q]
    BY <2>1 DEF Release, TypeOK, LocalsOK
  <2>. QED  BY <1>0, <2>1, <2>2, HoldsNothing
<1>2. CASE d \notin unique
  <2>1. Goto(s, "push") /\ UNCHANGED <<queue, item>> /\ unique' = unique \cup {d}
    BY <1>2 DEF Insert
  <2>2. Held' = Held \cup {s} /\ s \notin Held
    BY <1>0, <2>1, HandleKinds DEF TypeOK, LabelsOK, Goto, Held, Pushing, Removing
  <2>3. QueuedDigests' = QueuedDigests /\ NoDuplicates'
    BY <2>1 DEF QueuedDigests, UniqueInv, NoDuplicates
  <2>4. SetExact'
    BY <2>1, <2>2, <2>3 DEF UniqueInv, SetExact
  <2>5. HeldApart'
    BY <1>2, <2>1, <2>2, <2>3 DEF UniqueInv, SetExact, HeldApart
  <2>. QED  BY <2>3, <2>4, <2>5 DEF UniqueInv
<1>. QED  BY <1>1, <1>2

LEMMA PushUnique ==
  ASSUME TypeOK, UniqueInv, Unique, NEW s \in Senders, Push(s)
  PROVE  UniqueInv'
<1>. DEFINE d == Digest[item[s]]
<1>1. s \in Handles /\ s \in Held
  BY HandleKinds DEF Push, At, Held, Pushing
<1>2. item[s] \in Values
  BY <1>1, HeldType
<1>3. d \notin QueuedDigests /\ \A q \in Held \ {s} : Digest[item[q]] # d
  BY <1>1 DEF UniqueInv, HeldApart
<1>4. QueuedDigests' = QueuedDigests \cup {d} /\ NoDuplicates'
  BY <1>2, <1>3, QueuedAppend DEF Push, TypeOK, UniqueInv
<1>5. Held' = Held \ {s}
  BY HandleKinds DEF TypeOK, LabelsOK, Push, At, Goto, Held, Pushing, Removing
<1>6. \A q \in Held \ {s} : item'[q] = item[q]
  BY HeldType DEF Push, Release, TypeOK, LocalsOK
<1>7. unique' = unique
  BY DEF Push
<1>8. SetExact'
  BY <1>1, <1>4, <1>5, <1>6, <1>7 DEF UniqueInv, SetExact
<1>9. HeldApart'
  BY <1>3, <1>4, <1>5, <1>6 DEF UniqueInv, HeldApart
<1>. QED  BY <1>4, <1>8, <1>9 DEF UniqueInv

LEMMA PopUnique ==
  ASSUME TypeOK, UniqueInv, Unique, NEW r \in Receivers, Pop(r)
  PROVE  UniqueInv'
<1>0. r \in Handles /\ pc[r] = "pop"
  BY HandleKinds DEF Pop, At
<1>1. CASE queue = <<>>
  <2>1. Goto(r, "demand") /\ UNCHANGED <<queue, unique, item>>
    BY <1>1 DEF Pop
  <2>. QED  BY <1>0, <2>1, HoldsNothing
<1>2. CASE queue # <<>>
  <2>. DEFINE v == Head(queue)
  <2>1. /\ Goto(r, "remove") /\ queue' = Tail(queue) /\ unique' = unique
        /\ item' = [item EXCEPT ![r] = v]
    BY <1>2 DEF Pop
  <2>2. /\ QueuedDigests = QueuedDigests' \cup {Digest[v]}
        /\ Digest[v] \notin QueuedDigests' /\ NoDuplicates'
    BY <1>2, <2>1, QueuedTail DEF TypeOK, UniqueInv
  <2>3. Held' = Held \cup {r} /\ r \notin Held
    BY <1>0, <2>1, HandleKinds DEF TypeOK, LabelsOK, Goto, Held, Pushing, Removing
  <2>4. item'[r] = v /\ \A q \in Held : item'[q] = item[q]
    BY <1>0, <2>1, <2>3, HeldType DEF TypeOK, LocalsOK
  <2>. HIDE DEF v
  <2>5. SetExact'
    BY <2>1, <2>2, <2>3, <2>4 DEF UniqueInv, SetExact
  <2>6. HeldApart'
    BY <2>2, <2>3, <2>4 DEF UniqueInv, HeldApart
  <2>. QED  BY <2>2, <2>5, <2>6 DEF UniqueInv
<1>. QED  BY <1>1, <1>2

LEMMA RemoveUnique ==
  ASSUME TypeOK, UniqueInv, Unique, NEW r \in Receivers, Remove(r)
  PROVE  UniqueInv'
<1>. DEFINE d == Digest[item[r]]
<1>1. r \in Held /\ item' = item /\ queue' = queue /\ unique' = unique \ {d}
  BY DEF Remove, At, Held, Removing, locals
<1>2. d \notin QueuedDigests /\ \A q \in Held \ {r} : Digest[item[q]] # d
  BY <1>1 DEF UniqueInv, HeldApart
<1>3. QueuedDigests' = QueuedDigests /\ NoDuplicates'
  BY <1>1 DEF QueuedDigests, UniqueInv, NoDuplicates
<1>4. Held' = Held \ {r}
  BY HandleKinds DEF TypeOK, LabelsOK, Remove, At, Goto, Held, Pushing, Removing
<1>5. SetExact'
  BY <1>1, <1>2, <1>3, <1>4 DEF UniqueInv, SetExact
<1>6. HeldApart'
  BY <1>1, <1>3, <1>4 DEF UniqueInv, HeldApart
<1>. QED  BY <1>3, <1>5, <1>6 DEF UniqueInv
-----------------------------------------------------------------------------
(***************************************************************************)
(* Every other step is one of a handle that holds no digest.               *)
(***************************************************************************)
Aside(p) ==
  /\ pc[p] \notin {"push", "remove"}
  /\ \E l \in Labels \ {"push", "remove"} : Goto(p, l)
  /\ \A q \in Handles \ {p} : item'[q] = item[q]
  /\ UNCHANGED <<queue, unique>>

LEMMA AsideUnique ==
  ASSUME TypeOK, UniqueInv, NEW p \in Handles, Aside(p)
  PROVE  UniqueInv'
BY HoldsNothing DEF Aside

LEMMA ReleaseAside ==
  ASSUME TypeOK, NEW p \in Handles, Release(p) \/ UNCHANGED item
  PROVE  \A q \in Handles \ {p} : item'[q] = item[q]
BY DEF Release, TypeOK, LocalsOK

LEMMA SenderRunsUnique ==
  ASSUME TypeOK, UniqueInv, Unique, NEW s \in Senders, SenderRuns(s)
  PROVE  UniqueInv'
<1>. USE HandleKinds DEF Labels, CommonLabels, SenderLabels, ReceiverLabels, OnDemandLabels, Sending
<1>a. ASSUME Aside(s) PROVE UniqueInv'
  BY <1>a, AsideUnique
<1>1. CASE ReadyTop(s)
  BY <1>1, <1>a, ReleaseAside DEF ReadyTop, Aside, At, memory, locals, FirstSendStep
<1>2. CASE ReadyPoll(s)
  BY <1>2, <1>a, ReleaseAside DEF ReadyPoll, Aside, At, memory, locals, FirstSendStep
<1>3. CASE ReadLen(s)
  BY <1>3, <1>a, ReleaseAside DEF ReadLen, Aside, At, memory, locals, FirstSendStep
<1>4. CASE ReadyLimit(s)
  BY <1>4, <1>a, ReleaseAside DEF ReadyLimit, Aside, At, memory, locals, FirstSendStep
<1>5. CASE ReadyListen(s)
  BY <1>5, <1>a, ReleaseAside DEF ReadyListen, Aside, At, memory, locals, FirstSendStep
<1>6. CASE TryTop(s)
  BY <1>6, <1>a, ReleaseAside DEF TryTop, Aside, At, memory, locals, FirstSendStep
<1>7. CASE TryLimit(s)
  BY <1>7, <1>a, ReleaseAside DEF TryLimit, Aside, At, memory, locals, FirstSendStep
<1>8. CASE NotifyReceiver(s)
  BY <1>8, <1>a, ReleaseAside DEF NotifyReceiver, Aside, At, memory, locals, FirstSendStep
<1>9. CASE LastSenderGone(s)
  BY <1>9, <1>a, ReleaseAside DEF LastSenderGone, Aside, At, memory, locals, FirstSendStep
<1>10. CASE DropListener(s)
  <2>1. \A q \in Handles \ {s} : item'[q] = item[q]
    BY <1>10 DEF DropListener, TypeOK, LocalsOK
  <2>. QED  BY <1>10, <1>a, <2>1 DEF DropListener, Aside, At, memory
<1>11. CASE Insert(s)
  BY <1>11, InsertUnique
<1>12. CASE Push(s)
  BY <1>12, PushUnique
<1>. QED
  BY <1>1, <1>2, <1>3, <1>4, <1>5, <1>6, <1>7, <1>8, <1>9, <1>10, <1>11, <1>12 DEF SenderRuns

LEMMA ReceiverRunsUnique ==
  ASSUME TypeOK, UniqueInv, Unique, NEW r \in Receivers, ReceiverRuns(r)
  PROVE  UniqueInv'
<1>. USE HandleKinds DEF Labels, CommonLabels, SenderLabels, ReceiverLabels, OnDemandLabels, Sending
<1>a. ASSUME Aside(r) PROVE UniqueInv'
  BY <1>a, AsideUnique
<1>1. CASE RecvLen(r)
  BY <1>1, <1>a, ReleaseAside DEF RecvLen, Aside, At, memory, locals, FirstSendStep
<1>2. CASE RecvLimit(r)
  BY <1>2, <1>a, ReleaseAside DEF RecvLimit, Aside, At, memory, locals, FirstSendStep
<1>3. CASE Swap(r)
  BY <1>3, <1>a, ReleaseAside DEF Swap, Aside, At, memory, locals, FirstSendStep
<1>4. CASE Grow(r)
  BY <1>4, <1>a, ReleaseAside DEF Grow, Aside, At, memory, locals, FirstSendStep
<1>5. CASE Maxed(r)
  BY <1>5, <1>a, ReleaseAside DEF Maxed, Aside, At, memory, locals, FirstSendStep
<1>6. CASE Wake(r)
  BY <1>6, <1>a, ReleaseAside DEF Wake, Aside, At, memory, locals, FirstSendStep
<1>7. CASE NotifyOnDemand(r)
  BY <1>7, <1>a, ReleaseAside DEF NotifyOnDemand, Aside, At, memory, locals, FirstSendStep
<1>8. CASE WakeUp(r)
  BY <1>8, <1>a, ReleaseAside DEF WakeUp, Aside, At, memory, locals, FirstSendStep
<1>9. CASE CheckSenders(r)
  BY <1>9, <1>a, ReleaseAside DEF CheckSenders, Aside, At, memory, locals, FirstSendStep
<1>10. CASE ReceiverListen(r)
  BY <1>10, <1>a, ReleaseAside DEF ReceiverListen, Aside, At, memory, locals, FirstSendStep
<1>11. CASE LastReceiverGone(r)
  BY <1>11, <1>a, ReleaseAside DEF LastReceiverGone, Aside, At, memory, locals, FirstSendStep
<1>12. CASE DropListener(r)
  <2>1. \A q \in Handles \ {r} : item'[q] = item[q]
    BY <1>12 DEF DropListener, TypeOK, LocalsOK
  <2>. QED  BY <1>12, <1>a, <2>1 DEF DropListener, Aside, At, memory
<1>13. CASE Pop(r)
  BY <1>13, PopUnique
<1>14. CASE Remove(r)
  BY <1>14, RemoveUnique
<1>. QED
  BY <1>1, <1>2, <1>3, <1>4, <1>5, <1>6, <1>7, <1>8, <1>9, <1>10, <1>11, <1>12, <1>13, <1>14 DEF ReceiverRuns

LEMMA OnDemandRunsUnique ==
  ASSUME TypeOK, UniqueInv, Unique, NEW d \in OnDemands, OnDemandRuns(d)
  PROVE  UniqueInv'
<1>. USE HandleKinds DEF Labels, CommonLabels, SenderLabels, ReceiverLabels, OnDemandLabels, Sending
<1>a. ASSUME Aside(d) PROVE UniqueInv'
  BY <1>a, AsideUnique
<1>1. CASE OnDemandTop(d)
  BY <1>1, <1>a, ReleaseAside DEF OnDemandTop, Aside, At, memory, locals, FirstSendStep
<1>2. CASE OnDemandPoll(d)
  BY <1>2, <1>a, ReleaseAside DEF OnDemandPoll, Aside, At, memory, locals, FirstSendStep
<1>3. CASE OnDemandListen(d)
  BY <1>3, <1>a, ReleaseAside DEF OnDemandListen, Aside, At, memory, locals, FirstSendStep
<1>4. CASE DropListener(d)
  <2>1. \A q \in Handles \ {d} : item'[q] = item[q]
    BY <1>4 DEF DropListener, TypeOK, LocalsOK
  <2>. QED  BY <1>4, <1>a, <2>1 DEF DropListener, Aside, At, memory
<1>. QED
  BY <1>1, <1>2, <1>3, <1>4 DEF OnDemandRuns

LEMMA CloneUnique ==
  ASSUME TypeOK, UniqueInv, NEW p, NEW q \in Handles, Clone(p, q)
  PROVE  UniqueInv'
BY AsideUnique DEF Clone, Aside, At, memory, locals, Labels, CommonLabels

LEMMA DropUnique ==
  ASSUME TypeOK, UniqueInv, NEW p \in Handles, Drops(p),
         NEW l \in {"dropNotify", "dropListener"}, Goto(p, l),
         UNCHANGED <<memory, locals>>
  PROVE  UniqueInv'
BY AsideUnique DEF Drops, Aside, At, memory, locals, Labels, CommonLabels

LEMMA BeginUnique ==
  ASSUME TypeOK, UniqueInv, NEW s \in Senders, NEW v, NEW call, NEW l \in {"readyTop", "tryTop", "insert"},
         Begin(s, v, call, l)
  PROVE  UniqueInv'
<1>1. s \in Handles /\ pc[s] = "idle" /\ l \in Labels \ {"push", "remove"}
  BY HandleKinds DEF Begin, At, Labels, SenderLabels, Sending
<1>2. \A q \in Handles \ {s} : item'[q] = item[q]
  BY DEF Begin, TypeOK, LocalsOK
<1>. QED  BY <1>1, <1>2, AsideUnique DEF Begin, Aside, memory

LEMMA NextUnique == TypeOK /\ UniqueInv /\ [Next]_vars => UniqueInv'
<1>. SUFFICES ASSUME TypeOK, UniqueInv, [Next]_vars PROVE UniqueInv'
  OBVIOUS
<1>. USE HandleKinds
<1>0. CASE ~Unique
  BY <1>0 DEF UniqueInv, NoDuplicates, SetExact, HeldApart
<1>1. ASSUME Unique, NEW s \in Senders, SenderStep(s) PROVE UniqueInv'
  <2>1. CASE SenderStarts(s)
    BY <1>1, <2>1, BeginUnique DEF SenderStarts, PollReady, TrySend, ForceSend, FirstSendStep
  <2>2. CASE Repoll(s)
    BY <2>2, AsideUnique
    DEF Repoll, Aside, At, memory, locals, Labels, SenderLabels, Sending
  <2>3. CASE SenderRuns(s)
    BY <1>1, <2>3, SenderRunsUnique
  <2>4. CASE DropSender(s)
    BY <2>4, DropUnique DEF DropSender
  <2>5. CASE \E t \in Senders : CloneSender(s, t)
    BY <2>5, CloneUnique DEF CloneSender
  <2>. QED  BY <1>1, <2>1, <2>2, <2>3, <2>4, <2>5 DEF SenderStep
<1>2. ASSUME Unique, NEW r \in Receivers, ReceiverStep(r) PROVE UniqueInv'
  <2>1. CASE PollNext(r)
    BY <2>1, AsideUnique
    DEF PollNext, Aside, At, memory, locals, Labels, ReceiverLabels
  <2>2. CASE ReceiverRuns(r)
    BY <1>2, <2>2, ReceiverRunsUnique
  <2>3. CASE DropReceiver(r)
    BY <2>3, DropUnique DEF DropReceiver
  <2>4. CASE \E t \in Receivers : CloneReceiver(r, t)
    BY <2>4, CloneUnique DEF CloneReceiver
  <2>5. CASE \E d \in OnDemands : NewOnDemand(r, d)
    BY <2>5, CloneUnique DEF NewOnDemand
  <2>. QED  BY <1>2, <2>1, <2>2, <2>3, <2>4, <2>5 DEF ReceiverStep
<1>3. ASSUME Unique, NEW d \in OnDemands, OnDemandStep(d) PROVE UniqueInv'
  <2>1. CASE PollOnDemand(d)
    BY <2>1, AsideUnique
    DEF PollOnDemand, Aside, At, memory, locals, Labels, OnDemandLabels
  <2>2. CASE OnDemandRuns(d)
    BY <1>3, <2>2, OnDemandRunsUnique
  <2>3. CASE DropOnDemand(d)
    BY <2>3, DropUnique DEF DropOnDemand
  <2>4. CASE \E t \in OnDemands : CloneOnDemand(d, t)
    BY <2>4, CloneUnique DEF CloneOnDemand
  <2>. QED  BY <1>3, <2>1, <2>2, <2>3, <2>4 DEF OnDemandStep
<1>4. CASE UNCHANGED vars
  BY <1>4 DEF vars, memory, locals, UniqueInv, NoDuplicates, SetExact, HeldApart,
     QueuedDigests, Held, Pushing, Removing
<1>. QED  BY <1>0, <1>1, <1>2, <1>3, <1>4 DEF Next

LEMMA InitUnique == Init => UniqueInv
<1>. SUFFICES ASSUME Init PROVE UniqueInv
  OBVIOUS
<1>1. DOMAIN queue = {} /\ unique = {}
  BY EmptySeq DEF Init
<1>2. Held = {}
  BY HandleKinds DEF Init, Held, Pushing, Removing
<1>. QED  BY <1>1, <1>2 DEF UniqueInv, NoDuplicates, SetExact, HeldApart, QueuedDigests

LEMMA UniqueInductive == Spec => []UniqueInv
BY TypeCorrect, InitUnique, NextUnique, PTL DEF Spec

\* A unique channel never holds two items with the same digest, and its hash
\* set never forgets a queued digest nor keeps one that is neither queued nor in
\* the hands of a sender or a receiver, however many of them run at the same
\* time (Channel::send and recv, lines 89-125).
THEOREM UniqueSetIsQueue == Spec => []SetIsQueue
<1>1. UniqueInv => SetIsQueue
  BY DEF UniqueInv, SetIsQueue
<1>. QED  BY <1>1, UniqueInductive, PTL
-----------------------------------------------------------------------------
(***************************************************************************)
(* The limit.  OvershootAt(m) has to hold for every m from the limit up,   *)
(* since a sender that has read a length keeps it while the limit grows.   *)
(***************************************************************************)
OvershootInv ==
  /\ \A m \in Nat : m >= limit => OvershootAt(m)
  /\ \A s \in InFlight : pc[s] \in {"insert", "push"} => seen[s] < limit

LEMMA StaleFinite ==
  ASSUME TypeOK
  PROVE  /\ Cardinality(Senders) \in Nat /\ Cardinality(Senders) >= 1
         /\ \A m : /\ IsFiniteSet(StaleBelow(m))
                   /\ StaleBelow(m) \subseteq Senders
                   /\ Cardinality(StaleBelow(m)) \in Nat
                   /\ Cardinality(StaleBelow(m)) <= Cardinality(Senders)
<1>1. IsFiniteSet(Senders) /\ Senders # {}
  BY ChannelAssumption
<1>2. Cardinality(Senders) \in Nat /\ Cardinality(Senders) >= 1
  BY <1>1, FS_CardinalityType, FS_EmptySet
<1>3. ASSUME NEW m
      PROVE  /\ IsFiniteSet(StaleBelow(m)) /\ StaleBelow(m) \subseteq Senders
             /\ Cardinality(StaleBelow(m)) \in Nat
             /\ Cardinality(StaleBelow(m)) <= Cardinality(Senders)
  <2>1. StaleBelow(m) \subseteq Senders
    BY DEF StaleBelow, InFlight
  <2>. QED  BY <1>1, <2>1, FS_Subset, FS_CardinalityType
<1>. QED  BY <1>2, <1>3

\* A step that puts nothing in the queue, reads no length and lowers no limit.
LEMMA NothingPushed ==
  ASSUME TypeOK, TypeOK', OvershootInv,
         Len(queue') <= Len(queue), limit' >= limit, forced' = forced, InFlight' \subseteq InFlight,
         \A s \in InFlight' : /\ seen'[s] = seen[s]
                              /\ pc'[s] \in {"insert", "push"} => seen[s] < limit
  PROVE  OvershootInv'
<1>. SUFFICES /\ \A m \in Nat : m >= limit' => OvershootAt(m)'
              /\ \A s \in InFlight' : pc'[s] \in {"insert", "push"} => seen'[s] < limit'
  BY DEF OvershootInv
<1>0. /\ limit \in Nat /\ limit' \in Nat /\ Len(queue) \in Nat /\ Len(queue') \in Nat
      /\ \A s \in Senders : seen[s] \in Int
      /\ forced \in Nat
  BY LenProperties, HandleKinds DEF TypeOK, LocalsOK
<1>1. ASSUME NEW m \in Nat, m >= limit' PROVE OvershootAt(m)'
  <2>1. m >= limit
    BY <1>0, <1>1
  <2>2. Len(queue) + Cardinality(StaleBelow(m)) <= m - 1 + Cardinality(Senders) + forced
    BY <2>1 DEF OvershootInv, OvershootAt
  <2>3. StaleBelow(m)' \subseteq StaleBelow(m)
    BY DEF StaleBelow
  <2>4. /\ Cardinality(StaleBelow(m)') <= Cardinality(StaleBelow(m))
        /\ Cardinality(StaleBelow(m)') \in Nat /\ Cardinality(StaleBelow(m)) \in Nat
        /\ Cardinality(Senders) \in Nat
    BY <2>3, StaleFinite, FS_Subset, FS_CardinalityType
  <2>. QED  BY <1>0, <2>2, <2>4 DEF OvershootAt
<1>2. ASSUME NEW s \in InFlight', pc'[s] \in {"insert", "push"} PROVE seen'[s] < limit'
  <2>1. s \in Senders
    BY DEF InFlight
  <2>. QED  BY <1>0, <1>2, <2>1
<1>. QED  BY <1>1, <1>2

\* A sender that reads the length anew is below m only if the queue is.
LEMMA ReadLenOvershoot ==
  ASSUME TypeOK, TypeOK', OvershootInv, NEW s \in Senders, ReadLen(s)
  PROVE  OvershootInv'
<1>. SUFFICES /\ \A m \in Nat : m >= limit' => OvershootAt(m)'
              /\ \A t \in InFlight' : pc'[t] \in {"insert", "push"} => seen'[t] < limit'
  BY DEF OvershootInv
<1>1. /\ s \in Handles /\ s \notin InFlight /\ pc'[s] \in {"readyLimit", "tryLimit"}
      /\ \A t \in Handles \ {s} : pc'[t] = pc[t] /\ seen'[t] = seen[t]
      /\ seen'[s] = Len(queue) /\ queue' = queue /\ limit' = limit /\ forced' = forced
  BY HandleKinds DEF ReadLen, At, Goto, InFlight, TypeOK, LabelsOK, LocalsOK, memory
<1>2. Len(queue) \in Nat /\ limit \in Nat /\ forced \in Nat
  BY LenProperties DEF TypeOK, LocalsOK
<1>3. ASSUME NEW m \in Nat, m >= limit' PROVE OvershootAt(m)'
  <2>1. CASE Len(queue) < m
    <3>1. /\ Cardinality(StaleBelow(m)') <= Cardinality(Senders)
          /\ Cardinality(StaleBelow(m)') \in Nat /\ Cardinality(Senders) \in Nat
      BY StaleFinite, ChannelAssumption, FS_Subset, FS_CardinalityType DEF StaleBelow, InFlight
    <3>. QED  BY <1>1, <1>2, <2>1, <3>1 DEF OvershootAt
  <2>2. CASE Len(queue) >= m
    <3>1. StaleBelow(m)' = StaleBelow(m)
      BY <1>1, <1>2, <2>2, HandleKinds DEF StaleBelow, InFlight
    <3>. QED  BY <1>1, <1>3, <3>1 DEF OvershootAt, OvershootInv
  <2>. QED  BY <1>2, <2>1, <2>2
<1>4. ASSUME NEW t \in InFlight', pc'[t] \in {"insert", "push"} PROVE seen'[t] < limit'
  <2>1. t \in Handles \ {s} /\ t \in InFlight
    BY <1>1, <1>4, HandleKinds DEF InFlight
  <2>. QED  BY <1>1, <1>4, <2>1 DEF OvershootInv
<1>. QED  BY <1>3, <1>4

\* A push comes from a sender that has seen a length below the limit, and
\* takes it off the list of those that have.
LEMMA PushOvershoot ==
  ASSUME TypeOK, TypeOK', OvershootInv, NEW s \in Senders, Push(s)
  PROVE  OvershootInv'
<1>. SUFFICES /\ \A m \in Nat : m >= limit' => OvershootAt(m)'
              /\ \A t \in InFlight' : pc'[t] \in {"insert", "push"} => seen'[t] < limit'
  BY DEF OvershootInv
<1>1. /\ s \in Handles /\ s \in InFlight /\ pc[s] = "push" /\ item[s] \in Values
      /\ pc'[s] = "notify" /\ limit' = limit /\ forced' = forced /\ queue' = Append(queue, item[s])
      /\ \A t \in Handles \ {s} : pc'[t] = pc[t] /\ seen'[t] = seen[t]
  BY HandleKinds DEF Push, At, Goto, Release, InFlight, Sending, TypeOK, LabelsOK, LocalsOK
<1>2. /\ Len(queue) \in Nat /\ limit \in Nat /\ seen[s] \in Int /\ forced \in Nat
      /\ Len(queue') = Len(queue) + 1
  BY <1>1, LenProperties, AppendProperties DEF TypeOK, LocalsOK
<1>3. seen[s] < limit
  BY <1>1 DEF OvershootInv
<1>4. ASSUME NEW m \in Nat, m >= limit' PROVE OvershootAt(m)'
  <2>1. s \in StaleBelow(m)
    BY <1>1, <1>2, <1>3, <1>4 DEF StaleBelow
  <2>2. StaleBelow(m)' = StaleBelow(m) \ {s}
    BY <1>1, HandleKinds DEF StaleBelow, InFlight
  <2>3. Cardinality(StaleBelow(m)') = Cardinality(StaleBelow(m)) - 1
    BY <2>1, <2>2, StaleFinite, FS_RemoveElement
  <2>4. Len(queue) + Cardinality(StaleBelow(m)) <= m - 1 + Cardinality(Senders) + forced
    BY <1>1, <1>4 DEF OvershootInv, OvershootAt
  <2>5. Cardinality(StaleBelow(m)) \in Nat /\ Cardinality(Senders) \in Nat
    BY StaleFinite
  <2>. QED  BY <1>1, <1>2, <2>3, <2>4, <2>5 DEF OvershootAt
<1>5. ASSUME NEW t \in InFlight', pc'[t] \in {"insert", "push"} PROVE seen'[t] < limit'
  <2>1. t \in Handles \ {s} /\ t \in InFlight
    BY <1>1, <1>5, HandleKinds DEF InFlight
  <2>. QED  BY <1>1, <1>5, <2>1 DEF OvershootInv
<1>. QED  BY <1>4, <1>5
\* Every other step takes its handle out of the send, or leaves it out.
FlightLabels == {"readyLimit", "tryLimit", "insert", "push"}

Quiet(p) ==
  /\ \E l \in Labels \ FlightLabels : Goto(p, l)
  /\ \A q \in Handles \ {p} : seen'[q] = seen[q]

LEMMA QuietOvershoot ==
  ASSUME TypeOK, TypeOK', OvershootInv, NEW p \in Handles, Quiet(p),
         Len(queue') <= Len(queue), limit' >= limit, forced' = forced
  PROVE  OvershootInv'
<1>1. /\ pc'[p] \notin FlightLabels
      /\ \A q \in Handles \ {p} : pc'[q] = pc[q] /\ seen'[q] = seen[q]
  BY DEF Quiet, Goto, TypeOK, LabelsOK
<1>2. InFlight' \subseteq InFlight /\ \A s \in InFlight' : s \in Handles \ {p}
  BY <1>1, HandleKinds DEF InFlight, FlightLabels
<1>3. \A s \in InFlight' : /\ seen'[s] = seen[s]
                           /\ pc'[s] \in {"insert", "push"} => seen[s] < limit
  BY <1>1, <1>2 DEF OvershootInv
<1>. QED  BY <1>2, <1>3, NothingPushed

LEMMA SameSize ==
  ASSUME TypeOK, UNCHANGED <<queue, limit>>
  PROVE  Len(queue') <= Len(queue) /\ limit' >= limit
BY LenProperties DEF TypeOK

\* A sender whose reading is below the limit goes on to send.
LEMMA LimitOvershoot ==
  ASSUME TypeOK, TypeOK', OvershootInv, NEW s \in Senders, ReadyLimit(s) \/ TryLimit(s)
  PROVE  OvershootInv'
<1>0. s \in Handles /\ s \in InFlight /\ UNCHANGED <<queue, limit, forced>>
  BY HandleKinds DEF ReadyLimit, TryLimit, At, InFlight, memory
<1>1. CASE seen[s] < limit
  <2>1. /\ Goto(s, FirstSendStep) /\ UNCHANGED seen
    BY <1>1 DEF ReadyLimit, TryLimit
  <2>2. FirstSendStep \in {"insert", "push"}
    BY DEF FirstSendStep
  <2>3. InFlight' = InFlight
    BY <1>0, <2>1, <2>2, HandleKinds DEF Goto, InFlight, TypeOK, LabelsOK
  <2>4. \A t \in InFlight' : seen'[t] = seen[t]
                              /\ (pc'[t] \in {"insert", "push"} => seen[t] < limit)
    BY <1>1, <2>1, <2>3 DEF Goto, OvershootInv, InFlight, TypeOK, LabelsOK
  <2>. QED  BY <1>0, <2>3, <2>4, SameSize, NothingPushed
<1>2. CASE ~(seen[s] < limit)
  <2>1. \E l \in {"readyListen", "idle"} : Goto(s, l)
    BY <1>2 DEF ReadyLimit, TryLimit
  <2>2. seen' = [seen EXCEPT ![s] = 0]
    BY <1>2 DEF ReadyLimit, TryLimit, Release
  <2>3. Quiet(s)
    BY <2>1, <2>2 DEF Quiet, Labels, CommonLabels, SenderLabels, Sending, FlightLabels, TypeOK, LocalsOK
  <2>. QED  BY <1>0, <2>3, SameSize, QuietOvershoot
<1>. QED  BY <1>1, <1>2

LEMMA InsertOvershoot ==
  ASSUME TypeOK, TypeOK', OvershootInv, NEW s \in Senders, Insert(s)
  PROVE  OvershootInv'
<1>0. s \in Handles /\ s \in InFlight /\ pc[s] = "insert" /\ UNCHANGED <<queue, limit, forced>>
  BY HandleKinds DEF Insert, At, InFlight
<1>1. CASE Digest[item[s]] \in unique
  <2>1. Goto(s, "idle") /\ Release(s)
    BY <1>1 DEF Insert
  <2>2. Quiet(s)
    BY <2>1 DEF Quiet, Labels, CommonLabels, FlightLabels, Release, TypeOK, LocalsOK
  <2>. QED  BY <1>0, <2>2, SameSize, QuietOvershoot
<1>2. CASE Digest[item[s]] \notin unique
  <2>1. Goto(s, "push") /\ UNCHANGED seen
    BY <1>2 DEF Insert
  <2>2. InFlight' = InFlight
    BY <1>0, <2>1, HandleKinds DEF Goto, InFlight, TypeOK, LabelsOK
  <2>3. \A t \in InFlight' : seen'[t] = seen[t]
                              /\ (pc'[t] \in {"insert", "push"} => seen[t] < limit)
    BY <1>0, <2>1, <2>2 DEF Goto, OvershootInv, InFlight, TypeOK, LabelsOK
  <2>. QED  BY <1>0, <2>2, <2>3, SameSize, NothingPushed
<1>. QED  BY <1>1, <1>2

\* A sender that forces an item in is below every m, and is counted for it.
LEMMA ForceOvershoot ==
  ASSUME TypeOK, TypeOK', OvershootInv, NEW s \in Senders, NEW v \in Values, ForceSend(s, v)
  PROVE  OvershootInv'
<1>. SUFFICES /\ \A m \in Nat : m >= limit' => OvershootAt(m)'
              /\ \A t \in InFlight' : pc'[t] \in {"insert", "push"} => seen'[t] < limit'
  BY DEF OvershootInv
<1>1. /\ s \in Handles /\ s \notin InFlight /\ pc'[s] \in {"insert", "push"}
      /\ \A t \in Handles \ {s} : pc'[t] = pc[t] /\ seen'[t] = seen[t]
      /\ seen'[s] = -1 /\ queue' = queue /\ limit' = limit /\ forced' = forced + 1
  BY HandleKinds
  DEF ForceSend, Begin, FirstSendStep, At, Goto, InFlight, TypeOK, LabelsOK, LocalsOK, memory
<1>2. Len(queue) \in Nat /\ limit \in Nat /\ forced \in Nat
  BY LenProperties DEF TypeOK, LocalsOK
<1>3. ASSUME NEW m \in Nat, m >= limit' PROVE OvershootAt(m)'
  <2>1. StaleBelow(m)' = StaleBelow(m) \cup {s} /\ s \notin StaleBelow(m)
    BY <1>1, HandleKinds DEF StaleBelow, InFlight
  <2>2. Cardinality(StaleBelow(m)') = Cardinality(StaleBelow(m)) + 1
    BY <2>1, StaleFinite, FS_AddElement
  <2>3. Len(queue) + Cardinality(StaleBelow(m)) <= m - 1 + Cardinality(Senders) + forced
    BY <1>1, <1>3 DEF OvershootInv, OvershootAt
  <2>4. Cardinality(StaleBelow(m)) \in Nat /\ Cardinality(Senders) \in Nat
    BY StaleFinite
  <2>. QED  BY <1>1, <1>2, <2>2, <2>3, <2>4 DEF OvershootAt
<1>4. ASSUME NEW t \in InFlight', pc'[t] \in {"insert", "push"} PROVE seen'[t] < limit'
  <2>1. CASE t = s
    BY <1>1, <1>2, <2>1
  <2>2. CASE t # s
    <3>1. t \in Handles \ {s} /\ t \in InFlight
      BY <1>1, <2>2, HandleKinds DEF InFlight
    <3>. QED  BY <1>1, <1>4, <3>1 DEF OvershootInv
  <2>. QED  BY <2>1, <2>2
<1>. QED  BY <1>3, <1>4

LEMMA SenderRunsOvershoot ==
  ASSUME TypeOK, TypeOK', OvershootInv, NEW s \in Senders, SenderRuns(s)
  PROVE  OvershootInv'
<1>. USE HandleKinds DEF Labels, CommonLabels, SenderLabels, ReceiverLabels, OnDemandLabels,
         Sending, FlightLabels
<1>a. ASSUME Quiet(s), UNCHANGED <<queue, limit, forced>> PROVE OvershootInv'
  BY <1>a, SameSize, QuietOvershoot
<1>b. ASSUME UNCHANGED seen \/ Release(s) \/ \E n : seen' = [seen EXCEPT ![s] = n]
      PROVE  \A q \in Handles \ {s} : seen'[q] = seen[q]
  BY <1>b DEF Release, TypeOK, LocalsOK
<1>1. CASE ReadyTop(s)
  BY <1>1, <1>a, <1>b DEF ReadyTop, Quiet, memory, locals
<1>2. CASE ReadyPoll(s)
  BY <1>2, <1>a, <1>b DEF ReadyPoll, Quiet, memory, locals
<1>3. CASE ReadyListen(s)
  BY <1>3, <1>a, <1>b DEF ReadyListen, Quiet, memory, locals
<1>4. CASE TryTop(s)
  BY <1>4, <1>a, <1>b DEF TryTop, Quiet, memory, locals
<1>5. CASE NotifyReceiver(s)
  BY <1>5, <1>a, <1>b DEF NotifyReceiver, Quiet, memory, locals
<1>6. CASE LastSenderGone(s)
  BY <1>6, <1>a, <1>b DEF LastSenderGone, Quiet, memory, locals
<1>7. CASE DropListener(s)
  BY <1>7, <1>a, <1>b DEF DropListener, Quiet, memory, locals
<1>8. CASE ReadLen(s)
  BY <1>8, ReadLenOvershoot
<1>9. CASE ReadyLimit(s)
  BY <1>9, LimitOvershoot
<1>10. CASE TryLimit(s)
  BY <1>10, LimitOvershoot
<1>11. CASE Insert(s)
  BY <1>11, InsertOvershoot
<1>12. CASE Push(s)
  BY <1>12, PushOvershoot
<1>. QED
  BY <1>1, <1>2, <1>3, <1>4, <1>5, <1>6, <1>7, <1>8, <1>9, <1>10, <1>11, <1>12 DEF SenderRuns

LEMMA ReceiverRunsOvershoot ==
  ASSUME TypeOK, TypeOK', OvershootInv, NEW r \in Receivers, ReceiverRuns(r)
  PROVE  OvershootInv'
<1>. USE HandleKinds DEF Labels, CommonLabels, SenderLabels, ReceiverLabels, OnDemandLabels,
         Sending, FlightLabels
<1>a. ASSUME Quiet(r), UNCHANGED <<queue, limit, forced>> PROVE OvershootInv'
  BY <1>a, SameSize, QuietOvershoot
<1>b. ASSUME UNCHANGED seen \/ Release(r) \/ \E n : seen' = [seen EXCEPT ![r] = n]
      PROVE  \A q \in Handles \ {r} : seen'[q] = seen[q]
  BY <1>b DEF Release, TypeOK, LocalsOK
<1>1. CASE Pop(r)
  <2>1. Len(queue') <= Len(queue) /\ limit' >= limit /\ forced' = forced
    BY <1>1, LenProperties, EmptySeq, HeadTailProperties DEF Pop, TypeOK
  <2>2. Quiet(r)
    BY <1>1, <1>b DEF Pop, Quiet
  <2>. QED  BY <2>1, <2>2, QuietOvershoot
<1>2. CASE Remove(r)
  BY <1>2, <1>a, <1>b DEF Remove, Quiet, memory, locals
<1>3. CASE RecvLen(r)
  BY <1>3, <1>a, <1>b DEF RecvLen, Quiet, memory, locals
<1>4. CASE RecvLimit(r)
  BY <1>4, <1>a, <1>b DEF RecvLimit, Quiet, memory, locals
<1>5. CASE Swap(r)
  BY <1>5, <1>a, <1>b DEF Swap, Quiet, memory, locals
<1>6. CASE Grow(r)
  <2>1. Len(queue') <= Len(queue) /\ limit' >= limit /\ forced' = forced
    BY <1>6, LenProperties DEF Grow, TypeOK, locals
  <2>2. Quiet(r)
    BY <1>6, <1>b DEF Grow, Quiet, locals
  <2>. QED  BY <2>1, <2>2, QuietOvershoot
<1>7. CASE Maxed(r)
  BY <1>7, <1>a, <1>b DEF Maxed, Quiet, memory, locals
<1>8. CASE Wake(r)
  BY <1>8, <1>a, <1>b DEF Wake, Quiet, memory, locals
<1>9. CASE NotifyOnDemand(r)
  BY <1>9, <1>a, <1>b DEF NotifyOnDemand, Quiet, memory, locals
<1>10. CASE WakeUp(r)
  BY <1>10, <1>a, <1>b DEF WakeUp, Quiet, memory, locals
<1>11. CASE CheckSenders(r)
  BY <1>11, <1>a, <1>b DEF CheckSenders, Quiet, memory, locals
<1>12. CASE ReceiverListen(r)
  BY <1>12, <1>a, <1>b DEF ReceiverListen, Quiet, memory, locals
<1>13. CASE LastReceiverGone(r)
  BY <1>13, <1>a, <1>b DEF LastReceiverGone, Quiet, memory, locals
<1>14. CASE DropListener(r)
  BY <1>14, <1>a, <1>b DEF DropListener, Quiet, memory, locals
<1>. QED
  BY <1>1, <1>2, <1>3, <1>4, <1>5, <1>6, <1>7, <1>8, <1>9, <1>10, <1>11, <1>12, <1>13, <1>14 DEF ReceiverRuns

LEMMA OnDemandRunsOvershoot ==
  ASSUME TypeOK, TypeOK', OvershootInv, NEW d \in OnDemands, OnDemandRuns(d)
  PROVE  OvershootInv'
<1>. USE HandleKinds DEF Labels, CommonLabels, SenderLabels, ReceiverLabels, OnDemandLabels,
         Sending, FlightLabels
<1>a. ASSUME Quiet(d), UNCHANGED <<queue, limit, forced>> PROVE OvershootInv'
  BY <1>a, SameSize, QuietOvershoot
<1>b. ASSUME UNCHANGED seen \/ Release(d) \/ \E n : seen' = [seen EXCEPT ![d] = n]
      PROVE  \A q \in Handles \ {d} : seen'[q] = seen[q]
  BY <1>b DEF Release, TypeOK, LocalsOK
<1>1. CASE OnDemandTop(d)
  BY <1>1, <1>a, <1>b DEF OnDemandTop, Quiet, memory, locals
<1>2. CASE OnDemandPoll(d)
  BY <1>2, <1>a, <1>b DEF OnDemandPoll, Quiet, memory, locals
<1>3. CASE OnDemandListen(d)
  BY <1>3, <1>a, <1>b DEF OnDemandListen, Quiet, memory, locals
<1>4. CASE DropListener(d)
  BY <1>4, <1>a, <1>b DEF DropListener, Quiet, memory, locals
<1>. QED
  BY <1>1, <1>2, <1>3, <1>4 DEF OnDemandRuns

LEMMA NextOvershoot == TypeOK /\ TypeOK' /\ OvershootInv /\ [Next]_vars => OvershootInv'
<1>. SUFFICES ASSUME TypeOK, TypeOK', OvershootInv, [Next]_vars PROVE OvershootInv'
  OBVIOUS
<1>. USE HandleKinds
<1>a. ASSUME NEW p \in Handles, NEW l \in Labels \ FlightLabels, Goto(p, l),
             UNCHANGED <<memory, seen, forced>>
      PROVE  OvershootInv'
  BY <1>a, SameSize, QuietOvershoot DEF Quiet, memory
<1>b. {"readyTop", "tryTop", "pop", "odTop", "idle", "dropNotify", "dropListener"}
        \subseteq Labels \ FlightLabels
  BY DEF Labels, CommonLabels, SenderLabels, ReceiverLabels, OnDemandLabels, Sending, FlightLabels
<1>1. ASSUME NEW s \in Senders, SenderStep(s) PROVE OvershootInv'
  <2>1. CASE SenderStarts(s)
    <3>1. CASE \E v \in Values : PollReady(s, v) \/ TrySend(s, v)
      BY <1>a, <1>b, <3>1 DEF PollReady, TrySend, Begin
    <3>2. CASE \E v \in Values : ForceSend(s, v)
      BY <3>2, ForceOvershoot
    <3>. QED  BY <2>1, <3>1, <3>2 DEF SenderStarts
  <2>2. CASE Repoll(s)
    BY <1>a, <1>b, <2>2 DEF Repoll, locals
  <2>3. CASE SenderRuns(s)
    BY <2>3, SenderRunsOvershoot
  <2>4. CASE DropSender(s)
    BY <1>a, <1>b, <2>4 DEF DropSender, locals
  <2>5. CASE \E t \in Senders : CloneSender(s, t)
    BY <1>a, <1>b, <2>5 DEF CloneSender, Clone, locals
  <2>. QED  BY <1>1, <2>1, <2>2, <2>3, <2>4, <2>5 DEF SenderStep
<1>2. ASSUME NEW r \in Receivers, ReceiverStep(r) PROVE OvershootInv'
  <2>1. CASE PollNext(r)
    BY <1>a, <1>b, <2>1 DEF PollNext, locals
  <2>2. CASE ReceiverRuns(r)
    BY <2>2, ReceiverRunsOvershoot
  <2>3. CASE DropReceiver(r)
    BY <1>a, <1>b, <2>3 DEF DropReceiver, locals
  <2>4. CASE \E t \in Receivers : CloneReceiver(r, t)
    BY <1>a, <1>b, <2>4 DEF CloneReceiver, Clone, locals
  <2>5. CASE \E d \in OnDemands : NewOnDemand(r, d)
    BY <1>a, <1>b, <2>5 DEF NewOnDemand, Clone, locals
  <2>. QED  BY <1>2, <2>1, <2>2, <2>3, <2>4, <2>5 DEF ReceiverStep
<1>3. ASSUME NEW d \in OnDemands, OnDemandStep(d) PROVE OvershootInv'
  <2>1. CASE PollOnDemand(d)
    BY <1>a, <1>b, <2>1 DEF PollOnDemand, locals
  <2>2. CASE OnDemandRuns(d)
    BY <2>2, OnDemandRunsOvershoot
  <2>3. CASE DropOnDemand(d)
    BY <1>a, <1>b, <2>3 DEF DropOnDemand, locals
  <2>4. CASE \E t \in OnDemands : CloneOnDemand(d, t)
    BY <1>a, <1>b, <2>4 DEF CloneOnDemand, Clone, locals
  <2>. QED  BY <1>3, <2>1, <2>2, <2>3, <2>4 DEF OnDemandStep
<1>4. CASE UNCHANGED vars
  BY <1>4 DEF vars, memory, locals, OvershootInv, OvershootAt, StaleBelow, InFlight
<1>. QED  BY <1>1, <1>2, <1>3, <1>4 DEF Next

LEMMA InitOvershoot == Init => OvershootInv
<1>. SUFFICES ASSUME Init PROVE OvershootInv
  OBVIOUS
<1>1. TypeOK
  BY InitType
<1>2. InFlight = {} /\ Len(queue) = 0 /\ limit \in Nat /\ forced = 0
  BY HandleKinds, LenProperties, EmptySeq, ChannelAssumption DEF Init, InFlight
<1>3. \A m : Cardinality(StaleBelow(m)) = 0
  BY <1>2, FS_EmptySet DEF StaleBelow
<1>. QED  BY <1>1, <1>2, <1>3, StaleFinite DEF OvershootInv, OvershootAt

\* The queue is never longer than the limit, one item for every other sender,
\* and what was forced in (try_send, lines 308-331, and poll_ready, lines
\* 424-459, read the length before they push; force_send, 333-340, does not).
THEOREM LimitIsSoft == Spec => []SoftLimit
<1>1. TypeOK /\ OvershootInv => SoftLimit
  <2>. SUFFICES ASSUME TypeOK, OvershootInv
                PROVE  Len(queue) <= limit + Cardinality(Senders) - 1 + forced
    BY DEF SoftLimit
  <2>1. limit \in Nat /\ Len(queue) \in Nat /\ limit >= limit /\ forced \in Nat
    BY LenProperties DEF TypeOK, LocalsOK
  <2>2. Len(queue) + Cardinality(StaleBelow(limit)) <= limit - 1 + Cardinality(Senders) + forced
    BY <2>1 DEF OvershootInv, OvershootAt
  <2>3. Cardinality(StaleBelow(limit)) \in Nat /\ Cardinality(Senders) \in Nat
    BY StaleFinite
  <2>. QED  BY <2>1, <2>2, <2>3
<1>. QED  BY <1>1, TypeCorrect, InitOvershoot, NextOvershoot, PTL DEF Spec

-----------------------------------------------------------------------------
(***************************************************************************)
(* Who listens to the events.  ListenersServed and OneYieldPerNeed are not *)
(* inductive.  That no parked sender sleeps through the end of the last    *)
(* receiver needs to know that a parked sender has a listener, and that    *)
(* one which is about to poll its listener has been notified as well; that *)
(* one need is yielded once, that at most one on-demand listener is        *)
(* notified at a time.                                                     *)
(***************************************************************************)

-----------------------------------------------------------------------------
(***************************************************************************)
(* Who listens after an operation.  An owner listens once: it occurs once  *)
(* among those that wait, and is not notified as well.                     *)
(***************************************************************************)
ListensOnce(e) ==
  \A i, j \in DOMAIN e.waiting :
    /\ e.waiting[i] = e.waiting[j] => i = j
    /\ e.waiting[i] \notin e.notified

LEMMA NobodyListens == ListensOnce(NoListeners) /\ Listening(NoListeners) = {}
BY DEF ListensOnce, NoListeners, Listening

LEMMA ListenJoins ==
  ASSUME NEW O, NEW e, IsEvent(e, O), NEW p \in O
  PROVE  /\ Listening(Listen(e, p)) = Listening(e) \cup {p}
         /\ Listen(e, p).notified = e.notified
         /\ ListensOnce(e) /\ p \notin Listening(e) => ListensOnce(Listen(e, p))
<1>. DEFINE w == e.waiting
            n == Len(w)
            v == Append(w, p)
<1>1. /\ w \in Seq(O) /\ n \in Nat /\ DOMAIN w = 1 .. n
      /\ v \in Seq(O) /\ DOMAIN v = 1 .. n + 1
      /\ \A i \in 1 .. n : v[i] = w[i]
      /\ v[n + 1] = p
  BY AppendProperties, LenProperties DEF IsEvent
<1>2. Listen(e, p) = [waiting |-> v, notified |-> e.notified]
  BY DEF Listen
<1>3. {v[i] : i \in DOMAIN v} = {w[i] : i \in DOMAIN w} \cup {p}
  BY <1>1
<1>4. Listening(Listen(e, p)) = Listening(e) \cup {p}
  BY <1>2, <1>3 DEF Listening
<1>5. ASSUME ListensOnce(e), p \notin Listening(e)
      PROVE  ListensOnce(Listen(e, p))
  <2>1. \A i \in 1 .. n : w[i] # p /\ w[i] \notin e.notified
    BY <1>1, <1>5 DEF Listening, ListensOnce
  <2>2. \A i, j \in 1 .. n : w[i] = w[j] => i = j
    BY <1>1, <1>5 DEF ListensOnce
  <2>3. p \notin e.notified
    BY <1>5 DEF Listening
  <2>4. \A i \in 1 .. n + 1 : i \in 1 .. n \/ i = n + 1
    BY <1>1
  <2>. HIDE DEF w, n, v
  <2>. QED  BY <1>1, <1>2, <2>1, <2>2, <2>3, <2>4 DEF ListensOnce
<1>6. Listen(e, p).notified = e.notified
  BY ONLY <1>2
<1>. HIDE DEF w, n, v
<1>. QED  BY ONLY <1>4, <1>5, <1>6

LEMMA NotifyOneKeeps ==
  ASSUME NEW O, NEW e, IsEvent(e, O)
  PROVE  /\ Listening(NotifyOne(e)) = Listening(e)
         /\ e.notified \subseteq NotifyOne(e).notified
         /\ ListensOnce(e) => ListensOnce(NotifyOne(e))
         /\ e.notified # {} => NotifyOne(e) = e
         /\ (\A p, q \in e.notified : p = q) => \A p, q \in NotifyOne(e).notified : p = q
<1>1. CASE e.notified # {} \/ e.waiting = <<>>
  BY <1>1 DEF NotifyOne
<1>2. CASE ~(e.notified # {} \/ e.waiting = <<>>)
  <2>. DEFINE w == e.waiting
              n == Len(w)
              v == Tail(w)
              f == NotifyOne(e)
  <2>1. w \in Seq(O) /\ w # <<>> /\ e.notified = {}
    BY <1>2 DEF IsEvent
  <2>2. /\ n \in Nat \ {0} /\ DOMAIN w = 1 .. n
        /\ v \in Seq(O) /\ DOMAIN v = 1 .. n - 1
        /\ \A i \in 1 .. n - 1 : v[i] = w[i + 1]
        /\ Head(w) = w[1]
    BY <2>1, HeadTailProperties, LenProperties, EmptySeq
  <2>3. f = [waiting |-> v, notified |-> {w[1]}]
    BY <1>2, <2>2 DEF NotifyOne
  <2>4. {v[i] : i \in DOMAIN v} \cup {w[1]} = {w[i] : i \in DOMAIN w}
    <3>1. \A i \in 1 .. n : i = 1 \/ (i - 1 \in 1 .. n - 1 /\ v[i - 1] = w[i])
      BY <2>2
    <3>2. \A i \in 1 .. n - 1 : i + 1 \in 1 .. n
      BY <2>2
    <3>3. 1 \in 1 .. n
      BY <2>2
    <3>. HIDE DEF w, n, v
    <3>4. \A i \in DOMAIN v : v[i] \in {w[j] : j \in DOMAIN w}
      BY <2>2, <3>2
    <3>5. w[1] \in {w[i] : i \in DOMAIN w}
      BY <2>2, <3>3
    <3>6. \A i \in DOMAIN w : w[i] \in {v[j] : j \in DOMAIN v} \cup {w[1]}
      BY <2>2, <3>1
    <3>. QED  BY ONLY <3>4, <3>5, <3>6
  <2>5. Listening(f) = Listening(e)
    <3>. HIDE DEF v, n, f
    <3>1. f.waiting = v /\ f.notified = {w[1]}
      BY <2>3
    <3>2. Listening(f) = {v[i] : i \in DOMAIN v} \cup {w[1]}
      BY <3>1 DEF Listening
    <3>3. Listening(e) = {w[i] : i \in DOMAIN w}
      BY <2>1 DEF Listening
    <3>. QED  BY <2>4, <3>2, <3>3
  <2>6. ASSUME ListensOnce(e) PROVE ListensOnce(f)
    <3>1. \A i, j \in 1 .. n : w[i] = w[j] => i = j
      BY <2>2, <2>6 DEF ListensOnce
    <3>2. \A i, j \in 1 .. n - 1 : v[i] = v[j] => i = j
      BY <2>2, <3>1
    <3>3. \A i \in 1 .. n - 1 : v[i] # w[1]
      BY <2>2, <3>1
    <3>. HIDE DEF w, n, v, f
    <3>. QED  BY <2>2, <2>3, <3>2, <3>3 DEF ListensOnce
  <2>. QED  BY <2>1, <2>3, <2>5, <2>6
<1>. QED  BY <1>1, <1>2

LEMMA NotifyAllKeeps ==
  ASSUME NEW e
  PROVE  /\ Listening(NotifyAll(e)) = Listening(e)
         /\ NotifyAll(e).notified = Listening(e)
         /\ ListensOnce(NotifyAll(e))
BY DEF NotifyAll, Listening, ListensOnce

LEMMA ConsumeLeaves ==
  ASSUME NEW O, NEW e, IsEvent(e, O), NEW p
  PROVE  /\ Consume(e, p).notified = e.notified \ {p}
         /\ Listening(e) \ {p} \subseteq Listening(Consume(e, p))
         /\ Listening(Consume(e, p)) \subseteq Listening(e)
         /\ p \notin e.notified => Consume(e, p) = e
         /\ ListensOnce(e) => ListensOnce(Consume(e, p))
         /\ ListensOnce(e) /\ p \in e.notified => p \notin Listening(Consume(e, p))
<1>1. Consume(e, p) = [waiting |-> e.waiting, notified |-> e.notified \ {p}]
  BY DEF Consume
<1>2. p \notin e.notified => Consume(e, p) = e
  <2>1. p \notin e.notified => e.notified \ {p} = e.notified
    OBVIOUS
  <2>. QED  BY <1>1, <2>1 DEF IsEvent
<1>3. ListensOnce(e) /\ p \in e.notified => p \notin Listening(Consume(e, p))
  BY <1>1 DEF ListensOnce, Listening
<1>. QED  BY <1>1, <1>2, <1>3 DEF ListensOnce, Listening

LEMMA WithoutLeaves ==
  ASSUME NEW O, NEW w \in Seq(O), NEW p,
         \A i, j \in DOMAIN w : w[i] = w[j] => i = j
  PROVE  LET v == Without(w, p)
         IN  /\ {v[i] : i \in DOMAIN v} = {w[i] : i \in DOMAIN w} \ {p}
             /\ \A i, j \in DOMAIN v : v[i] = v[j] => i = j
<1>1. CASE \E i \in DOMAIN w : w[i] = p
  <2>1. PICK k \in DOMAIN w : w[k] = p /\ Without(w, p) = SubSeq(w, 1, k - 1) \o SubSeq(w, k + 1, Len(w))
    <3>1. (CHOOSE i \in DOMAIN w : w[i] = p) \in DOMAIN w /\ w[CHOOSE i \in DOMAIN w : w[i] = p] = p
      BY <1>1
    <3>. QED  BY <1>1, <3>1 DEF Without
  <2>. DEFINE n == Len(w)
              a == SubSeq(w, 1, k - 1)
              b == SubSeq(w, k + 1, n)
              v == Without(w, p)
  <2>2. n \in Nat /\ DOMAIN w = 1 .. n /\ k \in 1 .. n /\ \A i \in 1 .. n : w[i] \in O
    BY LenProperties, ElementOfSeq
  <2>3. a \in Seq(O) /\ Len(a) = k - 1 /\ \A i \in 1 .. k - 1 : a[i] = w[i]
    <3>1. k - 1 \in Int /\ \A i \in 1 .. k - 1 : w[i] \in O
      BY <2>2
    <3>2. SubSeq(w, 1, k - 1) \in Seq(O)
      BY <3>1, SubSeqProperties
    <3>3. /\ Len(a) = IF 1 <= k - 1 THEN (k - 1) - 1 + 1 ELSE 0
          /\ \A i \in 1 .. (k - 1) - 1 + 1 : a[i] = w[1 + i - 1]
      BY <3>1, SubSeqProperties
    <3>. HIDE DEF a
    <3>. QED  BY <2>2, <3>2, <3>3 DEF a
  <2>4. b \in Seq(O) /\ Len(b) = n - k /\ \A i \in 1 .. n - k : b[i] = w[k + i]
    <3>1. k + 1 \in Int /\ n \in Int /\ \A i \in k + 1 .. n : w[i] \in O
      BY <2>2
    <3>2. SubSeq(w, k + 1, n) \in Seq(O)
      BY <3>1, SubSeqProperties
    <3>3. /\ Len(b) = IF k + 1 <= n THEN n - (k + 1) + 1 ELSE 0
          /\ \A i \in 1 .. n - (k + 1) + 1 : b[i] = w[(k + 1) + i - 1]
      BY <3>1, SubSeqProperties
    <3>. HIDE DEF b
    <3>. QED  BY <2>2, <3>2, <3>3 DEF b
  <2>12. v = a \o b
    BY <2>1
  <2>. HIDE DEF v, a, b
  <2>5. v \in Seq(O) /\ Len(v) = Len(a) + Len(b)
        /\ \A i \in 1 .. Len(a) + Len(b) : v[i] = IF i <= Len(a) THEN a[i] ELSE b[i - Len(a)]
    <3>1. a \in Seq(O) /\ b \in Seq(O)
      BY <2>3, <2>4
    <3>2. /\ a \o b \in Seq(O)
          /\ Len(a \o b) = Len(a) + Len(b)
          /\ \A i \in 1 .. Len(a) + Len(b) : (a \o b)[i] = IF i <= Len(a) THEN a[i] ELSE b[i - Len(a)]
      BY ONLY <3>1, ConcatProperties
    <3>. QED  BY ONLY <2>12, <3>2
  <2>6. DOMAIN v = 1 .. n - 1 /\ \A i \in 1 .. n - 1 : v[i] = IF i < k THEN w[i] ELSE w[i + 1]
    <3>1. Len(v) = n - 1 /\ DOMAIN v = 1 .. Len(v)
      BY <2>2, <2>3, <2>4, <2>5, LenProperties
    <3>2. ASSUME NEW i \in 1 .. n - 1 PROVE v[i] = IF i < k THEN w[i] ELSE w[i + 1]
      <4>1. CASE i < k
        <5>1. i \in 1 .. Len(a) + Len(b) /\ i <= Len(a) /\ i \in 1 .. k - 1
          BY <2>2, <2>3, <2>4, <4>1
        <5>2. v[i] = a[i] /\ a[i] = w[i]
          BY <2>3, <2>5, <5>1
        <5>. QED  BY <4>1, <5>2
      <4>2. CASE ~(i < k)
        <5>1. i - (k - 1) \in 1 .. n - k /\ k + (i - (k - 1)) = i + 1
          BY <2>2, <4>2
        <5>2. v[i] = b[i - (k - 1)]
          BY <2>2, <2>3, <2>4, <2>5, <4>2
        <5>. QED  BY <2>4, <4>2, <5>1, <5>2
      <4>. QED  BY <4>1, <4>2
    <3>. QED  BY <3>1, <3>2
  <2>7. \A i, j \in 1 .. n : w[i] = w[j] => i = j
    BY <2>2
  <2>8. \A i, j \in 1 .. n - 1 : v[i] = v[j] => i = j
    BY <2>2, <2>6, <2>7
  <2>9. ASSUME NEW i \in 1 .. n - 1 PROVE v[i] \in {w[m] : m \in DOMAIN w} \ {p}
    <3>1. v[i] = IF i < k THEN w[i] ELSE w[i + 1]
      BY <2>6
    <3>2. CASE i < k
      <4>1. i \in 1 .. n /\ v[i] = w[i] /\ i # k
        BY <2>2, <3>1, <3>2
      <4>. QED  BY <2>1, <2>2, <2>7, <4>1
    <3>3. CASE ~(i < k)
      <4>1. i + 1 \in 1 .. n /\ v[i] = w[i + 1] /\ i + 1 # k
        BY <2>2, <3>1, <3>3
      <4>. QED  BY <2>1, <2>2, <2>7, <4>1
    <3>. QED  BY <3>2, <3>3
  <2>10. ASSUME NEW i \in 1 .. n, w[i] # p PROVE \E j \in 1 .. n - 1 : v[j] = w[i]
    <3>1. CASE i < k
      BY <2>2, <2>6, <3>1
    <3>2. CASE i > k
      <4>1. i - 1 \in 1 .. n - 1 /\ v[i - 1] = w[i]
        BY <2>2, <2>6, <3>2
      <4>. QED  BY <4>1
    <3>. QED  BY <2>1, <2>2, <2>10, <3>1, <3>2
  <2>11. {v[i] : i \in DOMAIN v} = {w[i] : i \in DOMAIN w} \ {p}
    <3>1. {v[i] : i \in DOMAIN v} \subseteq {w[i] : i \in DOMAIN w} \ {p}
      BY <2>6, <2>9
    <3>2. ASSUME NEW x \in {w[i] : i \in DOMAIN w} \ {p} PROVE x \in {v[i] : i \in DOMAIN v}
      <4>1. PICK i \in 1 .. n : w[i] = x
        BY <2>2
      <4>2. PICK j \in 1 .. n - 1 : v[j] = w[i]
        BY <2>10, <4>1
      <4>. QED  BY <2>6, <4>1, <4>2
    <3>. QED  BY <3>1, <3>2
  <2>13. \A i, j \in DOMAIN v : v[i] = v[j] => i = j
    BY <2>6, <2>8
  <2>. QED  BY <2>11, <2>13 DEF v
<1>2. CASE ~ \E i \in DOMAIN w : w[i] = p
  BY <1>2 DEF Without
<1>. QED  BY <1>1, <1>2

LEMMA AbandonLeaves ==
  ASSUME NEW O, NEW e, IsEvent(e, O), ListensOnce(e), NEW p
  PROVE  /\ Listening(Abandon(e, p)) = Listening(e) \ {p}
         /\ ListensOnce(Abandon(e, p))
         /\ e.notified \ {p} \subseteq Abandon(e, p).notified
         /\ e.notified = {} => Abandon(e, p).notified = {}
         /\ (\A q, r \in e.notified : q = r) => \A q, r \in Abandon(e, p).notified : q = r
<1>1. CASE p \in e.notified
  <2>. DEFINE f == Consume(e, p)
  <2>1. IsEvent(f, O) /\ Abandon(e, p) = NotifyOne(f)
    BY <1>1, ConsumeType DEF Abandon
  <2>2. /\ f.notified = e.notified \ {p} /\ ListensOnce(f) /\ p \notin Listening(f)
        /\ Listening(e) \ {p} \subseteq Listening(f) /\ Listening(f) \subseteq Listening(e)
    BY <1>1, ConsumeLeaves
  <2>. HIDE DEF f
  <2>. QED  BY <1>1, <2>1, <2>2, NotifyOneKeeps
<1>2. CASE p \notin e.notified
  <2>. DEFINE w == e.waiting
              v == Without(w, p)
  <2>1. w \in Seq(O) /\ \A i, j \in DOMAIN w : w[i] = w[j] => i = j
    BY DEF IsEvent, ListensOnce
  <2>2. /\ {v[i] : i \in DOMAIN v} = {w[i] : i \in DOMAIN w} \ {p}
        /\ \A i, j \in DOMAIN v : v[i] = v[j] => i = j
    BY <2>1, WithoutLeaves
  <2>3. Abandon(e, p) = [waiting |-> v, notified |-> e.notified]
    BY <1>2 DEF Abandon
  <2>4. \A i \in DOMAIN w : w[i] \notin e.notified
    BY DEF ListensOnce
  <2>. HIDE DEF w, v
  <2>5. \A i \in DOMAIN v : v[i] \notin e.notified
    BY <2>2, <2>4
  <2>6. Listening(e) = {w[i] : i \in DOMAIN w} \cup e.notified
    BY DEF Listening, w
  <2>. QED  BY <1>2, <2>2, <2>3, <2>5, <2>6 DEF Listening, ListensOnce
<1>. QED  BY <1>1, <1>2
-----------------------------------------------------------------------------
(***************************************************************************)
(* What is inductive: where the owner of a listener is, that whoever       *)
(* sleeps has one, and which of them have been notified.                   *)
(***************************************************************************)
SenderHomes   == {"parked", "readyTop", "readyPoll", "dropNotify", "dropListener"}
ReceiverHomes == {"parked", "dropNotify", "dropListener"}
OnDemandHomes == {"idle", "parked", "odTop", "odPoll", "dropListener"}

Homed(e, homes) == ListensOnce(e) /\ \A p \in Listening(e) : pc[p] \in homes

Asleep == {"parked", "readyPoll"}
Closed == receiverCount = 0 /\ \A r \in Receivers : pc[r] # "dropNotify"

SendersListen ==
  /\ Homed(senderEvents, SenderHomes)
  /\ \A s \in Senders : pc[s] \in Asleep => s \in Listening(senderEvents)
  /\ Closed => \A s \in Senders : pc[s] \in Asleep => s \in senderEvents.notified

ReceiversListen == Homed(receiverEvents, ReceiverHomes)

OnDemandsListen ==
  /\ Homed(onDemandEvents, OnDemandHomes)
  /\ \A d, e \in onDemandEvents.notified : d = e

ListenInv == SendersListen /\ ReceiversListen /\ OnDemandsListen

LEMMA InitListen == Init => ListenInv
<1>. SUFFICES ASSUME Init PROVE ListenInv
  OBVIOUS
<1>1. \A e \in {senderEvents, receiverEvents, onDemandEvents} :
        ListensOnce(e) /\ Listening(e) = {} /\ e.notified = {}
  <2>1. NoListeners.notified = {}
    BY DEF NoListeners
  <2>. QED  BY <2>1, NobodyListens DEF Init
<1>2. \A s \in Senders : pc[s] \notin Asleep
  BY HandleKinds DEF Init, Asleep
<1>. QED  BY <1>1, <1>2 DEF ListenInv, SendersListen, ReceiversListen, OnDemandsListen, Homed
-----------------------------------------------------------------------------
(***************************************************************************)
(* What one step of a handle may do to each of the events.                 *)
(***************************************************************************)
LEMMA SendersKept ==
  ASSUME TypeOK, TypeOK', SendersListen, NEW p \in Handles, NEW l \in Labels, Goto(p, l),
         receiverCount' = receiverCount, p \in Receivers => pc[p] # "dropNotify",
         ListensOnce(senderEvents'),
         Listening(senderEvents') \subseteq Listening(senderEvents) \cup {p},
         Listening(senderEvents) \ {p} \subseteq Listening(senderEvents'),
         senderEvents.notified \ {p} \subseteq senderEvents'.notified,
         p \in Listening(senderEvents') => l \in SenderHomes,
         p \in Senders /\ l \in Asleep => /\ p \in Listening(senderEvents')
                                          /\ Closed => p \in senderEvents'.notified
  PROVE  SendersListen'
<1>1. Listening(senderEvents) \subseteq Senders /\ Listening(senderEvents') \subseteq Senders
  BY ListeningType DEF TypeOK, EventsOK
<1>2. pc' = [pc EXCEPT ![p] = l] /\ pc \in [Handles -> Labels]
  BY DEF Goto, TypeOK, LabelsOK
<1>3. \A q \in Handles : pc'[q] = IF q = p THEN l ELSE pc[q]
  BY <1>2
<1>4. Closed' => Closed
  BY <1>3, HandleKinds DEF Closed
<1>5. Homed(senderEvents, SenderHomes)'
  BY <1>1, <1>3, HandleKinds DEF SendersListen, Homed
<1>6. ASSUME NEW s \in Senders, pc'[s] \in Asleep
      PROVE  /\ s \in Listening(senderEvents')
             /\ Closed' => s \in senderEvents'.notified
  BY <1>3, <1>4, <1>6, HandleKinds DEF SendersListen
<1>. QED  BY <1>5, <1>6 DEF SendersListen

LEMMA SendersUntouched ==
  ASSUME TypeOK, TypeOK', SendersListen, NEW p \in Handles, NEW l \in Labels, Goto(p, l),
         UNCHANGED <<receiverCount, senderEvents>>, p \in Receivers => pc[p] # "dropNotify",
         p \in Senders => l \notin Asleep /\ (pc[p] \in SenderHomes => l \in SenderHomes)
  PROVE  SendersListen'
<1>1. Listening(senderEvents) \subseteq Senders
  BY ListeningType DEF TypeOK, EventsOK
<1>2. /\ ListensOnce(senderEvents)
      /\ p \in Listening(senderEvents) => l \in SenderHomes
  BY <1>1 DEF SendersListen, Homed
<1>. QED  BY <1>2, SendersKept

LEMMA HomedKept ==
  ASSUME LabelsOK, NEW e, NEW f, NEW homes, Homed(e, homes), Listening(e) \subseteq Handles,
         NEW p \in Handles, NEW l, Goto(p, l),
         ListensOnce(f), Listening(f) \subseteq Listening(e) \cup {p},
         p \in Listening(f) => l \in homes
  PROVE  \A q \in Listening(f) : pc'[q] \in homes
BY DEF Homed, Goto, LabelsOK

LEMMA ReceiversUntouched ==
  ASSUME TypeOK, ReceiversListen, NEW p \in Handles, NEW l \in Labels, Goto(p, l),
         UNCHANGED receiverEvents,
         p \in Receivers /\ pc[p] \in ReceiverHomes => l \in ReceiverHomes
  PROVE  ReceiversListen'
<1>1. Listening(receiverEvents) \subseteq Receivers
  BY ListeningType DEF TypeOK, EventsOK
<1>. QED  BY <1>1, HandleKinds DEF ReceiversListen, Homed, Goto, TypeOK, LabelsOK

LEMMA OnDemandsUntouched ==
  ASSUME TypeOK, OnDemandsListen, NEW p \in Handles, NEW l \in Labels, Goto(p, l),
         UNCHANGED onDemandEvents,
         p \in OnDemands /\ pc[p] \in OnDemandHomes => l \in OnDemandHomes
  PROVE  OnDemandsListen'
<1>1. Listening(onDemandEvents) \subseteq OnDemands
  BY ListeningType DEF TypeOK, EventsOK
<1>. QED  BY <1>1, HandleKinds DEF OnDemandsListen, Homed, Goto, TypeOK, LabelsOK

\* Most steps touch no event, and neither wake nor put to sleep anybody.
Silent(p) ==
  /\ UNCHANGED <<events, receiverCount>>
  /\ \E l \in Labels :
       /\ Goto(p, l)
       /\ p \in Senders => l \notin Asleep /\ (pc[p] \in SenderHomes => l \in SenderHomes)
       /\ p \in Receivers => /\ pc[p] # "dropNotify"
                             /\ pc[p] \in ReceiverHomes => l \in ReceiverHomes
       /\ p \in OnDemands /\ pc[p] \in OnDemandHomes => l \in OnDemandHomes

LEMMA SilentListens ==
  ASSUME TypeOK, TypeOK', ListenInv, NEW p \in Handles, Silent(p)
  PROVE  ListenInv'
<1>1. PICK l \in Labels :
        /\ Goto(p, l)
        /\ p \in Senders => l \notin Asleep /\ (pc[p] \in SenderHomes => l \in SenderHomes)
        /\ p \in Receivers => /\ pc[p] # "dropNotify"
                              /\ pc[p] \in ReceiverHomes => l \in ReceiverHomes
        /\ p \in OnDemands /\ pc[p] \in OnDemandHomes => l \in OnDemandHomes
  BY DEF Silent
<1>2. UNCHANGED <<receiverCount, senderEvents, receiverEvents, onDemandEvents>>
  BY DEF Silent, events
<1>3. SendersListen'
  BY <1>1, <1>2, SendersUntouched DEF ListenInv
<1>4. ReceiversListen'
  BY <1>1, <1>2, ReceiversUntouched DEF ListenInv
<1>5. OnDemandsListen'
  BY <1>1, <1>2, OnDemandsUntouched DEF ListenInv
<1>. QED  BY <1>3, <1>4, <1>5 DEF ListenInv
-----------------------------------------------------------------------------
(***************************************************************************)
(* The steps that touch an event, or that count the last receiver out.     *)
(***************************************************************************)
SenderSpeaks(s) ==
  ReadyTop(s) \/ ReadyPoll(s) \/ ReadyListen(s) \/ NotifyReceiver(s) \/ LastSenderGone(s)
ReceiverSpeaks(r) ==
  \/ Wake(r) \/ NotifyOnDemand(r) \/ WakeUp(r) \/ ReceiverListen(r) \/ LastReceiverGone(r)
  \/ DropReceiver(r) \/ \E t \in Receivers : CloneReceiver(r, t)
OnDemandSpeaks(d) == OnDemandTop(d) \/ OnDemandPoll(d) \/ OnDemandListen(d)

LEMMA ReadyTopListens ==
  ASSUME TypeOK, TypeOK', ListenInv, NEW s \in Senders, ReadyTop(s)
  PROVE  ListenInv'
<1>1. s \in Handles /\ s \notin Receivers /\ s \notin OnDemands /\ pc[s] = "readyTop"
      /\ UNCHANGED <<receiverCount, receiverEvents, onDemandEvents>>
  BY HandleKinds DEF ReadyTop, At, counts
<1>2. {"idle", "readyPoll", "readyLen"} \subseteq Labels
  BY DEF Labels, CommonLabels, SenderLabels, Sending
<1>3. PICK l \in {"idle", "readyPoll", "readyLen"} : Goto(s, l)
  BY DEF ReadyTop
<1>4. ReceiversListen' /\ OnDemandsListen'
  BY <1>1, <1>2, <1>3, ReceiversUntouched, OnDemandsUntouched DEF ListenInv
<1>5. IsEvent(senderEvents, Senders) /\ ListensOnce(senderEvents)
  BY DEF TypeOK, EventsOK, ListenInv, SendersListen, Homed
<1>6. SendersListen'
  <2>1. CASE receiverCount = 0
    <3>1. senderEvents' = Abandon(senderEvents, s) /\ Goto(s, "idle")
      BY <2>1 DEF ReadyTop
    <3>2. /\ Listening(senderEvents') = Listening(senderEvents) \ {s}
          /\ ListensOnce(senderEvents')
          /\ senderEvents.notified \ {s} \subseteq senderEvents'.notified
      BY <1>5, <3>1, AbandonLeaves
    <3>. QED  BY <1>1, <1>2, <3>1, <3>2, SendersKept DEF ListenInv, Asleep
  <2>2. CASE receiverCount # 0 /\ s \in Listening(senderEvents)
    <3>1. senderEvents' = senderEvents /\ Goto(s, "readyPoll")
      BY <2>2 DEF ReadyTop
    <3>2. ~ Closed
      BY <2>2 DEF Closed
    <3>. QED  BY <1>1, <1>2, <1>5, <2>2, <3>1, <3>2, SendersKept DEF ListenInv, SenderHomes
  <2>3. CASE receiverCount # 0 /\ s \notin Listening(senderEvents)
    <3>1. senderEvents' = senderEvents /\ Goto(s, "readyLen")
      BY <2>3 DEF ReadyTop
    <3>. QED  BY <1>1, <1>2, <1>5, <2>3, <3>1, SendersKept DEF ListenInv, Asleep
  <2>. QED  BY <2>1, <2>2, <2>3
<1>. QED  BY <1>4, <1>6 DEF ListenInv

LEMMA ReadyPollListens ==
  ASSUME TypeOK, TypeOK', ListenInv, NEW s \in Senders, ReadyPoll(s)
  PROVE  ListenInv'
<1>1. s \in Handles /\ s \notin Receivers /\ s \notin OnDemands /\ pc[s] = "readyPoll"
      /\ UNCHANGED <<receiverCount, receiverEvents, onDemandEvents>>
      /\ senderEvents' = Consume(senderEvents, s)
  BY HandleKinds DEF ReadyPoll, At, counts
<1>2. {"parked", "readyLen"} \subseteq Labels
  BY DEF Labels, CommonLabels, SenderLabels, Sending
<1>3. PICK l \in {"parked", "readyLen"} : Goto(s, l)
  BY DEF ReadyPoll
<1>4. ReceiversListen' /\ OnDemandsListen'
  BY <1>1, <1>2, <1>3, ReceiversUntouched, OnDemandsUntouched DEF ListenInv
<1>5. IsEvent(senderEvents, Senders) /\ ListensOnce(senderEvents)
  BY DEF TypeOK, EventsOK, ListenInv, SendersListen, Homed
<1>6. /\ s \in Listening(senderEvents)
      /\ Closed => s \in senderEvents.notified
  BY <1>1 DEF ListenInv, SendersListen, Asleep
<1>7. SendersListen'
  <2>1. CASE s \in senderEvents.notified
    <3>1. Goto(s, "readyLen")
      BY <2>1 DEF ReadyPoll
    <3>2. /\ Listening(senderEvents') \subseteq Listening(senderEvents)
          /\ Listening(senderEvents) \ {s} \subseteq Listening(senderEvents')
          /\ s \notin Listening(senderEvents')
          /\ ListensOnce(senderEvents')
          /\ senderEvents'.notified = senderEvents.notified \ {s}
      BY <1>1, <1>5, <2>1, ConsumeLeaves
    <3>. QED  BY <1>1, <1>2, <3>1, <3>2, SendersKept DEF ListenInv, Asleep
  <2>2. CASE s \notin senderEvents.notified
    <3>1. Goto(s, "parked")
      BY <2>2 DEF ReadyPoll
    <3>2. senderEvents' = senderEvents
      BY <1>1, <1>5, <2>2, ConsumeLeaves
    <3>. QED  BY <1>1, <1>2, <1>5, <1>6, <2>2, <3>1, <3>2, SendersKept DEF ListenInv, SenderHomes
  <2>. QED  BY <2>1, <2>2
<1>. QED  BY <1>4, <1>7 DEF ListenInv

LEMMA ReadyListenListens ==
  ASSUME TypeOK, TypeOK', ListenInv, NEW s \in Senders, ReadyListen(s)
  PROVE  ListenInv'
<1>1. s \in Handles /\ s \notin Receivers /\ s \notin OnDemands /\ pc[s] = "readyListen"
      /\ UNCHANGED <<receiverCount, receiverEvents, onDemandEvents>>
      /\ senderEvents' = Listen(senderEvents, s) /\ Goto(s, "readyTop")
  BY HandleKinds DEF ReadyListen, At, counts
<1>2. "readyTop" \in Labels
  BY DEF Labels, CommonLabels, SenderLabels, Sending
<1>3. ReceiversListen' /\ OnDemandsListen'
  BY <1>1, <1>2, ReceiversUntouched, OnDemandsUntouched DEF ListenInv
<1>4. /\ IsEvent(senderEvents, Senders) /\ ListensOnce(senderEvents)
      /\ s \notin Listening(senderEvents)
  BY <1>1 DEF TypeOK, EventsOK, ListenInv, SendersListen, Homed, SenderHomes
<1>5. /\ Listening(senderEvents') = Listening(senderEvents) \cup {s}
      /\ senderEvents'.notified = senderEvents.notified
      /\ ListensOnce(senderEvents')
  BY <1>1, <1>4, ListenJoins
<1>6. SendersListen'
  BY <1>1, <1>2, <1>5, SendersKept DEF ListenInv, Asleep, SenderHomes
<1>. QED  BY <1>3, <1>6 DEF ListenInv

\* The events of the receivers are notified and consumed, and their own
\* listeners join.
LEMMA ReceiverEventListens ==
  ASSUME TypeOK, TypeOK', ListenInv, NEW p \in Handles, NEW l \in Labels, Goto(p, l),
         UNCHANGED <<receiverCount, senderEvents, onDemandEvents>>, p \notin OnDemands,
         p \in Senders => pc[p] \notin Asleep /\ l \notin Asleep
                          /\ (pc[p] \in SenderHomes => l \in SenderHomes),
         p \in Receivers => pc[p] # "dropNotify",
         ListensOnce(receiverEvents'),
         Listening(receiverEvents') \subseteq Listening(receiverEvents) \cup {p},
         p \in Listening(receiverEvents') => l \in ReceiverHomes
  PROVE  ListenInv'
<1>1. SendersListen'
  BY SendersUntouched, HandleKinds DEF ListenInv
<1>2. OnDemandsListen'
  BY OnDemandsUntouched DEF ListenInv
<1>3. Listening(receiverEvents) \subseteq Handles
  BY ListeningType, HandleKinds DEF TypeOK, EventsOK
<1>4. ReceiversListen'
  <2>1. \A q \in Listening(receiverEvents') : pc'[q] \in ReceiverHomes
    BY <1>3, HomedKept DEF ListenInv, ReceiversListen, TypeOK
  <2>. QED  BY <2>1 DEF ReceiversListen, Homed
<1>. QED  BY <1>1, <1>2, <1>4 DEF ListenInv

LEMMA NotifyReceiverListens ==
  ASSUME TypeOK, TypeOK', ListenInv, NEW s \in Senders, NotifyReceiver(s) \/ LastSenderGone(s)
  PROVE  ListenInv'
<1>1. /\ s \in Handles /\ s \notin Receivers /\ s \notin OnDemands
      /\ UNCHANGED <<receiverCount, senderEvents, onDemandEvents>>
      /\ IsEvent(receiverEvents, Receivers) /\ ListensOnce(receiverEvents)
      /\ Listening(receiverEvents) \subseteq Receivers
  BY HandleKinds, ListeningType
  DEF NotifyReceiver, LastSenderGone, counts, TypeOK, EventsOK, ListenInv, ReceiversListen, Homed
<1>2. /\ ListensOnce(receiverEvents')
      /\ Listening(receiverEvents') = Listening(receiverEvents)
  BY <1>1, NotifyOneKeeps, NotifyAllKeeps DEF NotifyReceiver, LastSenderGone
<1>3. CASE NotifyReceiver(s)
  <2>1. Goto(s, "idle") /\ pc[s] = "notify" /\ "idle" \in Labels
    BY <1>3 DEF NotifyReceiver, At, Labels, CommonLabels
  <2>. QED  BY <1>1, <1>2, <2>1, ReceiverEventListens DEF Asleep, SenderHomes
<1>4. CASE LastSenderGone(s)
  <2>1. Goto(s, "dropListener") /\ pc[s] = "dropNotify" /\ "dropListener" \in Labels
    BY <1>4 DEF LastSenderGone, At, Labels, CommonLabels
  <2>. QED  BY <1>1, <1>2, <2>1, ReceiverEventListens DEF Asleep, SenderHomes
<1>. QED  BY <1>3, <1>4

LEMMA WakeUpListens ==
  ASSUME TypeOK, TypeOK', ListenInv, NEW r \in Receivers, WakeUp(r) \/ ReceiverListen(r)
  PROVE  ListenInv'
<1>1. /\ r \in Handles /\ r \notin Senders /\ r \notin OnDemands
      /\ UNCHANGED <<receiverCount, senderEvents, onDemandEvents>>
      /\ IsEvent(receiverEvents, Receivers) /\ ListensOnce(receiverEvents)
  BY HandleKinds
  DEF WakeUp, ReceiverListen, counts, TypeOK, EventsOK, ListenInv, ReceiversListen, Homed
<1>2. CASE WakeUp(r)
  <2>1. /\ Goto(r, "pop") /\ pc[r] = "parked" /\ "pop" \in Labels
        /\ r \in receiverEvents.notified /\ receiverEvents' = Consume(receiverEvents, r)
    BY <1>2 DEF WakeUp, At, Labels, ReceiverLabels
  <2>2. /\ ListensOnce(receiverEvents') /\ r \notin Listening(receiverEvents')
        /\ Listening(receiverEvents') \subseteq Listening(receiverEvents)
    BY <1>1, <2>1, ConsumeLeaves
  <2>. QED  BY <1>1, <2>1, <2>2, ReceiverEventListens
<1>3. CASE ReceiverListen(r)
  <2>1. /\ Goto(r, "parked") /\ pc[r] = "listen" /\ "parked" \in Labels
        /\ receiverEvents' = Listen(receiverEvents, r)
    BY <1>3 DEF ReceiverListen, At, Labels, CommonLabels
  <2>2. r \notin Listening(receiverEvents)
    BY <2>1 DEF ListenInv, ReceiversListen, Homed, ReceiverHomes
  <2>3. /\ ListensOnce(receiverEvents')
        /\ Listening(receiverEvents') = Listening(receiverEvents) \cup {r}
    BY <1>1, <2>1, <2>2, ListenJoins
  <2>. QED  BY <1>1, <2>1, <2>3, ReceiverEventListens DEF ReceiverHomes
<1>. QED  BY <1>2, <1>3

LEMMA WakeListens ==
  ASSUME TypeOK, TypeOK', ListenInv, NEW r \in Receivers, Wake(r)
  PROVE  ListenInv'
<1>1. /\ r \in Handles /\ r \notin Senders /\ r \notin OnDemands /\ pc[r] = "wake"
      /\ UNCHANGED <<receiverCount, receiverEvents, onDemandEvents>>
      /\ Goto(r, "idle") /\ "idle" \in Labels
      /\ IsEvent(senderEvents, Senders) /\ ListensOnce(senderEvents)
      /\ Listening(senderEvents) \subseteq Senders
  BY HandleKinds, ListeningType
  DEF Wake, At, counts, Labels, CommonLabels, TypeOK, EventsOK, ListenInv, SendersListen, Homed
<1>2. /\ Listening(senderEvents') = Listening(senderEvents)
      /\ senderEvents.notified \subseteq senderEvents'.notified
      /\ ListensOnce(senderEvents')
  BY <1>1, NotifyOneKeeps DEF Wake
<1>3. SendersListen'
  BY <1>1, <1>2, SendersKept DEF ListenInv
<1>4. ReceiversListen' /\ OnDemandsListen'
  BY <1>1, ReceiversUntouched, OnDemandsUntouched DEF ListenInv, ReceiverHomes
<1>. QED  BY <1>3, <1>4 DEF ListenInv

\* From here on no receiver is left, and every listener has been notified.
LEMMA LastReceiverGoneListens ==
  ASSUME TypeOK, TypeOK', ListenInv, NEW r \in Receivers, LastReceiverGone(r)
  PROVE  ListenInv'
<1>1. /\ r \in Handles /\ r \notin Senders /\ r \notin OnDemands /\ pc[r] = "dropNotify"
      /\ UNCHANGED <<receiverCount, receiverEvents, onDemandEvents>>
      /\ senderEvents' = NotifyAll(senderEvents)
      /\ Goto(r, "dropListener") /\ "dropListener" \in Labels
      /\ Listening(senderEvents) \subseteq Senders
  BY HandleKinds, ListeningType
  DEF LastReceiverGone, At, counts, Labels, CommonLabels, TypeOK, EventsOK
<1>2. /\ Listening(senderEvents') = Listening(senderEvents)
      /\ senderEvents'.notified = Listening(senderEvents)
      /\ ListensOnce(senderEvents')
  BY <1>1, NotifyAllKeeps
<1>3. \A q \in Senders : pc'[q] = pc[q]
  BY <1>1 DEF Goto, TypeOK, LabelsOK
<1>4. SendersListen'
  BY <1>1, <1>2, <1>3 DEF ListenInv, SendersListen, Homed
<1>5. ReceiversListen' /\ OnDemandsListen'
  BY <1>1, ReceiversUntouched, OnDemandsUntouched DEF ListenInv, ReceiverHomes
<1>. QED  BY <1>4, <1>5 DEF ListenInv

\* A receiver that goes is not the last one, or is going to notify; one that
\* joins was cloned from another, so there was one before.
LEMMA ReceiverCountListens ==
  ASSUME TypeOK, TypeOK', CountsMatch, ListenInv, NEW r \in Receivers,
         DropReceiver(r) \/ \E t \in Receivers : CloneReceiver(r, t)
  PROVE  ListenInv'
<1>1. UNCHANGED <<senderEvents, receiverEvents, onDemandEvents>> /\ receiverCount \in Int
  BY DEF DropReceiver, CloneReceiver, Clone, events, TypeOK
<1>2. PICK p \in Receivers, l \in {"idle", "dropNotify", "dropListener"} :
        /\ Goto(p, l)
        /\ pc[p] \in {"absent", "idle", "parked", "ended"}
        /\ l = "idle" => pc[p] = "absent"
        /\ receiverCount' # 0 \/ l = "dropNotify"
  <2>1. CASE DropReceiver(r)
    <3>1. pc[r] \in {"idle", "parked", "ended"} /\ receiverCount' = receiverCount - 1
      BY <2>1 DEF DropReceiver, Drops, At
    <3>2. CASE receiverCount = 1
      BY <2>1, <3>1, <3>2 DEF DropReceiver
    <3>3. CASE receiverCount # 1
      <4>1. receiverCount' # 0 /\ Goto(r, "dropListener")
        BY <1>1, <2>1, <3>1, <3>3 DEF DropReceiver
      <4>. QED  BY <3>1, <4>1
    <3>. QED  BY <3>2, <3>3
  <2>2. ASSUME NEW t \in Receivers, CloneReceiver(r, t)
        PROVE  Goto(t, "idle") /\ pc[t] = "absent" /\ receiverCount' # 0
    <3>1. Goto(t, "idle") /\ pc[t] = "absent" /\ pc[r] = "idle" /\ receiverCount' = receiverCount + 1
      BY <2>2 DEF CloneReceiver, Clone, At
    <3>2. r \in LiveOf(Receivers)
      BY <3>1 DEF LiveOf, Live, Gone
    <3>3. IsFiniteSet(LiveOf(Receivers)) /\ Cardinality(LiveOf(Receivers)) \in Nat
      BY LiveFinite
    <3>4. Cardinality(LiveOf(Receivers)) # 0
      BY <3>2, <3>3, FS_EmptySet
    <3>5. receiverCount = Cardinality(LiveOf(Receivers))
      BY CountsMatchLive
    <3>. QED  BY <3>1, <3>3, <3>4, <3>5
  <2>. QED  BY <2>1, <2>2
<1>3. p \in Handles /\ p \notin Senders /\ p \notin OnDemands /\ l \in Labels
  BY <1>2, HandleKinds DEF Labels, CommonLabels
<1>4. \A q \in Handles : pc'[q] = IF q = p THEN l ELSE pc[q]
  BY <1>2, <1>3 DEF Goto, TypeOK, LabelsOK
<1>5. ~ Closed'
  BY <1>2, <1>3, <1>4 DEF Closed
<1>6. Listening(senderEvents) \subseteq Senders
  BY ListeningType DEF TypeOK, EventsOK
<1>7. SendersListen'
  BY <1>1, <1>3, <1>4, <1>5, <1>6, HandleKinds DEF ListenInv, SendersListen, Homed
<1>8. ReceiversListen' /\ OnDemandsListen'
  BY <1>1, <1>2, <1>3, ReceiversUntouched, OnDemandsUntouched DEF ListenInv, ReceiverHomes
<1>. QED  BY <1>7, <1>8 DEF ListenInv

\* A need is announced to one on-demand endpoint and used up by one.
LEMMA OnDemandEventListens ==
  ASSUME TypeOK, TypeOK', ListenInv, NEW p \in Handles, NEW l \in Labels, Goto(p, l),
         UNCHANGED <<receiverCount, senderEvents, receiverEvents>>, p \notin Senders,
         p \in Receivers => pc[p] \notin ReceiverHomes,
         ListensOnce(onDemandEvents'),
         Listening(onDemandEvents') \subseteq Listening(onDemandEvents) \cup {p},
         p \in Listening(onDemandEvents') => l \in OnDemandHomes,
         \A d, e \in onDemandEvents'.notified : d = e
  PROVE  ListenInv'
<1>1. SendersListen' /\ ReceiversListen'
  BY SendersUntouched, ReceiversUntouched DEF ListenInv, ReceiverHomes
<1>2. Listening(onDemandEvents) \subseteq Handles
  BY ListeningType, HandleKinds DEF TypeOK, EventsOK
<1>3. \A q \in Listening(onDemandEvents') : pc'[q] \in OnDemandHomes
  BY <1>2, HomedKept DEF ListenInv, OnDemandsListen, TypeOK
<1>. QED  BY <1>1, <1>3 DEF ListenInv, OnDemandsListen, Homed

LEMMA NotifyOnDemandListens ==
  ASSUME TypeOK, TypeOK', ListenInv, NEW r \in Receivers, NotifyOnDemand(r)
  PROVE  ListenInv'
<1>1. /\ r \in Handles /\ r \notin Senders /\ r \notin OnDemands /\ pc[r] = "demand"
      /\ UNCHANGED <<receiverCount, senderEvents, receiverEvents>>
      /\ Goto(r, "count") /\ "count" \in Labels
      /\ onDemandEvents' = NotifyOne(onDemandEvents)
  BY HandleKinds DEF NotifyOnDemand, At, counts, Labels, ReceiverLabels
<1>2. /\ IsEvent(onDemandEvents, OnDemands) /\ ListensOnce(onDemandEvents)
      /\ Listening(onDemandEvents) \subseteq OnDemands
      /\ \A d, e \in onDemandEvents.notified : d = e
  BY ListeningType DEF TypeOK, EventsOK, ListenInv, OnDemandsListen, Homed
<1>3. /\ Listening(onDemandEvents') = Listening(onDemandEvents)
      /\ ListensOnce(onDemandEvents')
      /\ \A d, e \in onDemandEvents'.notified : d = e
  BY <1>1, <1>2, NotifyOneKeeps
<1>. QED  BY <1>1, <1>2, <1>3, OnDemandEventListens DEF ReceiverHomes

LEMMA OnDemandSpeaksListens ==
  ASSUME TypeOK, TypeOK', ListenInv, NEW d \in OnDemands, OnDemandSpeaks(d)
  PROVE  ListenInv'
<1>1. /\ d \in Handles /\ d \notin Senders /\ d \notin Receivers
      /\ UNCHANGED <<receiverCount, senderEvents, receiverEvents>>
  BY HandleKinds DEF OnDemandSpeaks, OnDemandTop, OnDemandPoll, OnDemandListen, counts
<1>2. {"ended", "idle", "parked", "odTop", "odPoll", "odListen", "odRenew"} \subseteq Labels
  BY DEF Labels, CommonLabels, OnDemandLabels
<1>3. /\ IsEvent(onDemandEvents, OnDemands) /\ ListensOnce(onDemandEvents)
      /\ \A p \in Listening(onDemandEvents) : pc[p] \in OnDemandHomes
      /\ \A q, r \in onDemandEvents.notified : q = r
  BY DEF TypeOK, EventsOK, ListenInv, OnDemandsListen, Homed
<1>4. CASE OnDemandTop(d)
  <2>1. CASE receiverCount = 0
    <3>1. onDemandEvents' = Abandon(onDemandEvents, d) /\ Goto(d, "ended")
      BY <1>4, <2>1 DEF OnDemandTop
    <3>2. /\ Listening(onDemandEvents') = Listening(onDemandEvents) \ {d}
          /\ ListensOnce(onDemandEvents')
          /\ \A q, r \in onDemandEvents'.notified : q = r
      BY <1>3, <3>1, AbandonLeaves
    <3>. QED  BY <1>1, <1>2, <3>1, <3>2, OnDemandEventListens
  <2>2. CASE receiverCount # 0 /\ d \in Listening(onDemandEvents)
    <3>1. onDemandEvents' = onDemandEvents /\ Goto(d, "odPoll")
      BY <1>4, <2>2 DEF OnDemandTop
    <3>. QED  BY <1>1, <1>2, <1>3, <3>1, OnDemandEventListens DEF OnDemandHomes
  <2>3. CASE receiverCount # 0 /\ d \notin Listening(onDemandEvents)
    <3>1. onDemandEvents' = onDemandEvents /\ Goto(d, "odListen")
      BY <1>4, <2>3 DEF OnDemandTop
    <3>. QED  BY <1>1, <1>2, <1>3, <2>3, <3>1, OnDemandEventListens
  <2>. QED  BY <2>1, <2>2, <2>3
<1>5. CASE OnDemandPoll(d)
  <2>0. onDemandEvents' = Consume(onDemandEvents, d)
    BY <1>5 DEF OnDemandPoll
  <2>1. CASE d \in onDemandEvents.notified
    <3>1. Goto(d, "odRenew")
      BY <1>5, <2>1 DEF OnDemandPoll
    <3>2. /\ Listening(onDemandEvents') \subseteq Listening(onDemandEvents)
          /\ d \notin Listening(onDemandEvents')
          /\ ListensOnce(onDemandEvents')
          /\ onDemandEvents'.notified = onDemandEvents.notified \ {d}
      BY <1>3, <2>0, <2>1, ConsumeLeaves
    <3>. QED  BY <1>1, <1>2, <1>3, <3>1, <3>2, OnDemandEventListens
  <2>2. CASE d \notin onDemandEvents.notified
    <3>1. Goto(d, "parked")
      BY <1>5, <2>2 DEF OnDemandPoll
    <3>2. onDemandEvents' = onDemandEvents
      BY <1>3, <2>0, <2>2, ConsumeLeaves
    <3>. QED  BY <1>1, <1>2, <1>3, <3>1, <3>2, OnDemandEventListens DEF OnDemandHomes
  <2>. QED  BY <2>1, <2>2
<1>6. CASE OnDemandListen(d)
  <2>1. PICK l \in {"odTop", "idle"} : Goto(d, l)
    BY <1>6 DEF OnDemandListen
  <2>2. pc[d] \in {"odListen", "odRenew"} /\ onDemandEvents' = Listen(onDemandEvents, d)
    BY <1>6 DEF OnDemandListen, At
  <2>3. d \notin Listening(onDemandEvents)
    BY <1>3, <2>2 DEF OnDemandHomes
  <2>4. /\ Listening(onDemandEvents') = Listening(onDemandEvents) \cup {d}
        /\ ListensOnce(onDemandEvents')
        /\ onDemandEvents'.notified = onDemandEvents.notified
    BY <1>3, <2>2, <2>3, ListenJoins
  <2>. QED  BY <1>1, <1>2, <1>3, <2>1, <2>4, OnDemandEventListens DEF OnDemandHomes
<1>. QED  BY <1>4, <1>5, <1>6 DEF OnDemandSpeaks

LEMMA DropListenerListens ==
  ASSUME TypeOK, TypeOK', ListenInv, NEW p \in Handles, DropListener(p)
  PROVE  ListenInv'
<1>1. /\ senderEvents' = Abandon(senderEvents, p)
      /\ receiverEvents' = Abandon(receiverEvents, p)
      /\ onDemandEvents' = Abandon(onDemandEvents, p)
      /\ Goto(p, "dropped") /\ "dropped" \in Labels /\ pc[p] = "dropListener"
      /\ receiverCount' = receiverCount
  BY DEF DropListener, At, counts, Labels, CommonLabels
<1>2. /\ IsEvent(senderEvents, Senders) /\ ListensOnce(senderEvents)
      /\ IsEvent(receiverEvents, Receivers) /\ ListensOnce(receiverEvents)
      /\ IsEvent(onDemandEvents, OnDemands) /\ ListensOnce(onDemandEvents)
      /\ \A d, e \in onDemandEvents.notified : d = e
  BY DEF TypeOK, EventsOK, ListenInv, SendersListen, ReceiversListen, OnDemandsListen, Homed
<1>3. SendersListen'
  <2>1. /\ Listening(senderEvents') = Listening(senderEvents) \ {p}
        /\ ListensOnce(senderEvents')
        /\ senderEvents.notified \ {p} \subseteq senderEvents'.notified
    BY <1>1, <1>2, AbandonLeaves
  <2>. QED  BY <1>1, <2>1, SendersKept DEF ListenInv, Asleep
<1>4. ReceiversListen'
  <2>1. /\ Listening(receiverEvents') = Listening(receiverEvents) \ {p}
        /\ ListensOnce(receiverEvents')
    BY <1>1, <1>2, AbandonLeaves
  <2>2. Listening(receiverEvents) \subseteq Handles
    BY <1>2, ListeningType, HandleKinds
  <2>3. \A q \in Listening(receiverEvents') : pc'[q] \in ReceiverHomes
    BY <1>1, <2>1, <2>2, HomedKept DEF ListenInv, ReceiversListen, TypeOK
  <2>. QED  BY <2>1, <2>3 DEF ReceiversListen, Homed
<1>5. OnDemandsListen'
  <2>1. /\ Listening(onDemandEvents') = Listening(onDemandEvents) \ {p}
        /\ ListensOnce(onDemandEvents')
        /\ \A d, e \in onDemandEvents'.notified : d = e
    BY <1>1, <1>2, AbandonLeaves
  <2>2. Listening(onDemandEvents) \subseteq Handles
    BY <1>2, ListeningType, HandleKinds
  <2>3. \A q \in Listening(onDemandEvents') : pc'[q] \in OnDemandHomes
    BY <1>1, <2>1, <2>2, HomedKept DEF ListenInv, OnDemandsListen, TypeOK
  <2>. QED  BY <2>1, <2>3 DEF OnDemandsListen, Homed
<1>. QED  BY <1>3, <1>4, <1>5 DEF ListenInv
-----------------------------------------------------------------------------
(***************************************************************************)
(* Every other step is silent.                                             *)
(***************************************************************************)
LEMMA SenderStepSpeaks ==
  ASSUME TypeOK, NEW s \in Senders, SenderStep(s)
  PROVE  SenderSpeaks(s) \/ DropListener(s) \/ \E p \in Handles : Silent(p)
<1>. USE HandleKinds DEF Labels, CommonLabels, SenderLabels, Sending, SenderHomes, Asleep
<1>a. s \in Handles /\ s \notin Receivers /\ s \notin OnDemands
  OBVIOUS
<1>1. CASE SenderStarts(s)
  <2>1. PICK v \in Values : PollReady(s, v) \/ TrySend(s, v) \/ ForceSend(s, v)
    BY <1>1 DEF SenderStarts
  <2>2. Silent(s)
    BY <1>a, <2>1 DEF PollReady, TrySend, ForceSend, Begin, At, FirstSendStep, Silent, counts
  <2>. QED  BY <2>2
<1>2. CASE Repoll(s)
  BY <1>a, <1>2 DEF Repoll, At, Silent, counts
<1>3. CASE ReadLen(s)
  BY <1>a, <1>3 DEF ReadLen, At, Silent, counts
<1>4. CASE ReadyLimit(s) \/ TryLimit(s)
  <2>1. PICK l \in {"insert", "push", "readyListen", "idle"} : Goto(s, l)
    BY <1>4 DEF ReadyLimit, TryLimit, FirstSendStep
  <2>. QED  BY <1>a, <1>4, <2>1 DEF ReadyLimit, TryLimit, At, Silent, counts
<1>5. CASE TryTop(s)
  BY <1>a, <1>5 DEF TryTop, At, Silent, counts
<1>6. CASE Insert(s) \/ Push(s)
  <2>1. PICK l \in {"idle", "push", "notify"} : Goto(s, l)
    BY <1>6 DEF Insert, Push
  <2>. QED  BY <1>a, <1>6, <2>1 DEF Insert, Push, At, Silent, counts
<1>7. CASE DropSender(s)
  <2>1. PICK l \in {"dropNotify", "dropListener"} : Goto(s, l)
    BY <1>7 DEF DropSender
  <2>. QED  BY <1>a, <1>7, <2>1 DEF DropSender, Silent, counts
<1>8. ASSUME NEW t \in Senders, CloneSender(s, t) PROVE Silent(t)
  BY <1>8 DEF CloneSender, Clone, At, Silent
<1>. QED
  BY <1>1, <1>2, <1>3, <1>4, <1>5, <1>6, <1>7, <1>8 DEF SenderStep, SenderRuns, SenderSpeaks

LEMMA ReceiverStepSpeaks ==
  ASSUME TypeOK, NEW r \in Receivers, ReceiverStep(r)
  PROVE  ReceiverSpeaks(r) \/ DropListener(r) \/ \E p \in Handles : Silent(p)
<1>. USE HandleKinds DEF Labels, CommonLabels, ReceiverLabels, ReceiverHomes, OnDemandHomes
<1>a. r \in Handles /\ r \notin Senders /\ r \notin OnDemands
  OBVIOUS
<1>1. CASE PollNext(r)
  BY <1>a, <1>1 DEF PollNext, At, Silent, counts
<1>2. CASE Pop(r) \/ Remove(r) \/ RecvLen(r)
  <2>1. PICK l \in {"demand", "remove", "len", "limit"} : Goto(r, l)
    BY <1>2 DEF Pop, Remove, RecvLen
  <2>. QED  BY <1>a, <1>2, <2>1 DEF Pop, Remove, RecvLen, At, Silent, counts
<1>3. CASE RecvLimit(r) \/ Swap(r)
  <2>1. PICK l \in {"swap", "wake", "maxed", "grow"} : Goto(r, l)
    BY <1>3 DEF RecvLimit, Swap
  <2>. QED  BY <1>a, <1>3, <2>1 DEF RecvLimit, Swap, At, Silent, counts
<1>4. CASE Grow(r) \/ Maxed(r)
  BY <1>a, <1>4 DEF Grow, Maxed, At, Silent, counts
<1>5. CASE CheckSenders(r)
  <2>1. PICK l \in {"ended", "listen"} : Goto(r, l)
    BY <1>5 DEF CheckSenders
  <2>. QED  BY <1>a, <1>5, <2>1 DEF CheckSenders, At, Silent, counts
<1>6. ASSUME NEW d \in OnDemands, NewOnDemand(r, d) PROVE Silent(d)
  BY <1>6 DEF NewOnDemand, Clone, At, Silent, counts
<1>. QED
  BY <1>1, <1>2, <1>3, <1>4, <1>5, <1>6 DEF ReceiverStep, ReceiverRuns, ReceiverSpeaks

LEMMA OnDemandStepSpeaks ==
  ASSUME TypeOK, NEW d \in OnDemands, OnDemandStep(d)
  PROVE  OnDemandSpeaks(d) \/ DropListener(d) \/ \E p \in Handles : Silent(p)
<1>. USE HandleKinds DEF Labels, CommonLabels, OnDemandLabels, OnDemandHomes
<1>a. d \in Handles /\ d \notin Senders /\ d \notin Receivers
  OBVIOUS
<1>1. CASE PollOnDemand(d)
  BY <1>a, <1>1 DEF PollOnDemand, At, Silent, counts
<1>2. CASE DropOnDemand(d)
  BY <1>a, <1>2 DEF DropOnDemand, Silent
<1>3. ASSUME NEW t \in OnDemands, CloneOnDemand(d, t) PROVE Silent(t)
  BY <1>3 DEF CloneOnDemand, Clone, At, Silent
<1>. QED  BY <1>1, <1>2, <1>3 DEF OnDemandStep, OnDemandRuns, OnDemandSpeaks

LEMMA NextListens == TypeOK /\ TypeOK' /\ CountsMatch /\ ListenInv /\ [Next]_vars => ListenInv'
<1>. SUFFICES ASSUME TypeOK, TypeOK', CountsMatch, ListenInv, [Next]_vars PROVE ListenInv'
  OBVIOUS
<1>. USE HandleKinds
<1>1. ASSUME NEW s \in Senders, SenderStep(s) PROVE ListenInv'
  BY <1>1, SenderStepSpeaks, SilentListens, DropListenerListens, ReadyTopListens,
     ReadyPollListens, ReadyListenListens, NotifyReceiverListens DEF SenderSpeaks
<1>2. ASSUME NEW r \in Receivers, ReceiverStep(r) PROVE ListenInv'
  BY <1>2, ReceiverStepSpeaks, SilentListens, DropListenerListens, WakeListens,
     NotifyOnDemandListens, WakeUpListens, LastReceiverGoneListens, ReceiverCountListens
  DEF ReceiverSpeaks
<1>3. ASSUME NEW d \in OnDemands, OnDemandStep(d) PROVE ListenInv'
  BY <1>3, OnDemandStepSpeaks, SilentListens, DropListenerListens, OnDemandSpeaksListens
<1>4. CASE UNCHANGED vars
  BY <1>4 DEF vars, counts, events, ListenInv, SendersListen, ReceiversListen, OnDemandsListen,
     Homed, Closed
<1>. QED  BY <1>1, <1>2, <1>3, <1>4 DEF Next

LEMMA ListenInductive == Spec => []ListenInv
BY TypeCorrect, CountsAreExact, InitListen, NextListens, PTL DEF Spec

\* A listener belongs to a handle that is there to be woken, once, and no
\* parked sender misses the end of the last receiver: poll_ready looks at the
\* receivers again after it has created its listener (lines 424-466, 547-564).
THEOREM ListenersAreServed == Spec => []ListenersServed
<1>1. TypeOK /\ ListenInv => ListenersServed
  <2>. SUFFICES ASSUME TypeOK, ListenInv PROVE ListenersServed
    OBVIOUS
  <2>1. ListenersOwned
    BY DEF ListenInv, SendersListen, ReceiversListen, OnDemandsListen, Homed, ListensOnce,
       SenderHomes, ReceiverHomes, OnDemandHomes, ListenersOwned, Listeners
  <2>2. CloseReachesSenders
    BY DEF ListenInv, SendersListen, Asleep, Closed, CloseReachesSenders
  <2>. QED  BY <2>1, <2>2 DEF ListenersServed
<1>. QED  BY <1>1, TypeCorrect, ListenInductive, PTL

LEMMA NeedAnnouncedOnce ==
  ASSUME TypeOK, ListenInv, [Next]_vars
  PROVE  /\ ~Announced /\ Announced'
              => \E r \in Receivers : pc[r] = "demand" /\ pc'[r] = "count"
         /\ \A d \in OnDemands :
              pc[d] = "odPoll" /\ pc'[d] = "odRenew" => Announced /\ ~Announced'
<1>. DEFINE Quietly == /\ onDemandEvents.notified = {} => onDemandEvents'.notified = {}
                       /\ \A d \in OnDemands : ~ (pc[d] = "odPoll" /\ pc'[d] = "odRenew")
<1>0. /\ IsEvent(onDemandEvents, OnDemands) /\ ListensOnce(onDemandEvents)
      /\ \A d, e \in onDemandEvents.notified : d = e
      /\ pc \in [Handles -> Labels]
  BY DEF TypeOK, EventsOK, LabelsOK, ListenInv, OnDemandsListen, Homed
<1>a. ASSUME NEW p \in Handles, NEW l, Goto(p, l), p \notin OnDemands \/ l # "odRenew" \/ pc[p] # "odPoll"
      PROVE  \A d \in OnDemands : ~ (pc[d] = "odPoll" /\ pc'[d] = "odRenew")
  BY <1>0, <1>a, HandleKinds DEF Goto
<1>b. Quietly => ~ (~Announced /\ Announced')
  BY DEF Announced
<1>1. ASSUME NEW p \in Handles, Silent(p) PROVE Quietly
  <2>1. PICK l \in Labels : Goto(p, l) /\ (p \in OnDemands /\ pc[p] \in OnDemandHomes => l \in OnDemandHomes)
    BY <1>1 DEF Silent
  <2>. QED  BY <1>1, <1>a, <2>1 DEF Silent, events, OnDemandHomes
<1>2. ASSUME NEW p \in Handles, DropListener(p) PROVE Quietly
  <2>1. Goto(p, "dropped") /\ onDemandEvents' = Abandon(onDemandEvents, p)
    BY <1>2 DEF DropListener
  <2>2. onDemandEvents.notified = {} => onDemandEvents'.notified = {}
    BY <1>0, <2>1, AbandonLeaves
  <2>. QED  BY <1>a, <2>1, <2>2
<1>3. ASSUME NEW s \in Senders, SenderSpeaks(s) PROVE Quietly
  <2>1. onDemandEvents' = onDemandEvents /\ \E l : Goto(s, l)
    BY <1>3 DEF SenderSpeaks, ReadyTop, ReadyPoll, ReadyListen, NotifyReceiver, LastSenderGone
  <2>. QED  BY <1>a, <2>1, HandleKinds
<1>4. ASSUME NEW r \in Receivers, ReceiverSpeaks(r)
      PROVE  Quietly \/ NotifyOnDemand(r)
  <2>1. CASE Wake(r) \/ WakeUp(r) \/ ReceiverListen(r) \/ LastReceiverGone(r) \/ DropReceiver(r)
    <3>1. onDemandEvents' = onDemandEvents /\ \E l : Goto(r, l)
      BY <2>1 DEF Wake, WakeUp, ReceiverListen, LastReceiverGone, DropReceiver, events
    <3>. QED  BY <1>a, <3>1, HandleKinds
  <2>2. ASSUME NEW t \in Receivers, CloneReceiver(r, t) PROVE Quietly
    <3>1. onDemandEvents' = onDemandEvents /\ Goto(t, "idle")
      BY <2>2 DEF CloneReceiver, Clone, events
    <3>. QED  BY <1>a, <3>1, HandleKinds
  <2>. QED  BY <1>4, <2>1, <2>2 DEF ReceiverSpeaks
<1>5. ASSUME NEW d \in OnDemands, OnDemandTop(d) \/ OnDemandListen(d) PROVE Quietly
  <2>1. PICK l \in {"ended", "odPoll", "odListen", "odTop", "idle"} : Goto(d, l)
    BY <1>5 DEF OnDemandTop, OnDemandListen
  <2>2. onDemandEvents.notified = {} => onDemandEvents'.notified = {}
    <3>1. \/ onDemandEvents' = onDemandEvents
          \/ onDemandEvents' = Abandon(onDemandEvents, d)
          \/ onDemandEvents' = Listen(onDemandEvents, d)
      BY <1>5 DEF OnDemandTop, OnDemandListen
    <3>2. Listen(onDemandEvents, d).notified = onDemandEvents.notified
      BY DEF Listen
    <3>. QED  BY <1>0, <3>1, <3>2, AbandonLeaves
  <2>. QED  BY <1>a, <2>1, <2>2, HandleKinds
<1>6. CASE UNCHANGED vars
  BY <1>6 DEF vars, events, Announced
<1>7. ASSUME NEW r \in Receivers, NotifyOnDemand(r)
      PROVE  /\ pc[r] = "demand" /\ pc'[r] = "count"
             /\ \A d \in OnDemands : ~ (pc[d] = "odPoll" /\ pc'[d] = "odRenew")
  BY <1>0, <1>7, <1>a, HandleKinds DEF NotifyOnDemand, At, Goto
<1>8. ASSUME NEW d \in OnDemands, OnDemandPoll(d)
      PROVE  /\ onDemandEvents.notified = {} => onDemandEvents'.notified = {}
             /\ \A e \in OnDemands : pc[e] = "odPoll" /\ pc'[e] = "odRenew" => Announced /\ ~Announced'
  <2>1. onDemandEvents'.notified = onDemandEvents.notified \ {d}
    BY <1>0, <1>8, ConsumeLeaves DEF OnDemandPoll
  <2>2. ASSUME NEW e \in OnDemands, pc[e] = "odPoll", pc'[e] = "odRenew"
        PROVE  Announced /\ ~Announced'
    <3>1. e = d /\ d \in onDemandEvents.notified
      BY <1>0, <1>8, <2>2, HandleKinds DEF OnDemandPoll, Goto
    <3>. QED  BY <1>0, <2>1, <3>1 DEF Announced
  <2>. QED  BY <2>1, <2>2
<1>9. CASE Next
  <2>1. ASSUME NEW s \in Senders, SenderStep(s) PROVE Quietly
    BY <1>1, <1>2, <1>3, <2>1, SenderStepSpeaks, HandleKinds
  <2>2. ASSUME NEW r \in Receivers, ReceiverStep(r) PROVE Quietly \/ NotifyOnDemand(r)
    BY <1>1, <1>2, <1>4, <2>2, ReceiverStepSpeaks, HandleKinds
  <2>3. ASSUME NEW d \in OnDemands, OnDemandStep(d) PROVE Quietly \/ OnDemandPoll(d)
    BY <1>1, <1>2, <1>5, <2>3, OnDemandStepSpeaks, HandleKinds DEF OnDemandSpeaks
  <2>4. CASE Quietly
    BY <1>b, <2>4
  <2>5. ASSUME NEW r \in Receivers, NotifyOnDemand(r)
        PROVE  /\ \E q \in Receivers : pc[q] = "demand" /\ pc'[q] = "count"
               /\ \A d \in OnDemands : ~ (pc[d] = "odPoll" /\ pc'[d] = "odRenew")
    BY <1>7, <2>5
  <2>6. ASSUME NEW d \in OnDemands, OnDemandPoll(d)
        PROVE  /\ ~ (~Announced /\ Announced')
               /\ \A e \in OnDemands : pc[e] = "odPoll" /\ pc'[e] = "odRenew" => Announced /\ ~Announced'
    BY <1>8, <2>6 DEF Announced
  <2>. HIDE DEF Quietly
  <2>. QED  BY <1>9, <2>1, <2>2, <2>3, <2>4, <2>5, <2>6 DEF Next
<1>. QED  BY <1>6, <1>9

\* A need is announced by a receive that found the channel empty, and the
\* endpoint that yields it has used it up for all (lines 111-124, 666-706).
THEOREM NeedYieldedOnce == Spec => OneYieldPerNeed
<1>1. TypeOK /\ ListenInv /\ [Next]_vars
        => [/\ ~Announced /\ Announced'
                 => \E r \in Receivers : pc[r] = "demand" /\ pc'[r] = "count"
            /\ \A d \in OnDemands :
                 pc[d] = "odPoll" /\ pc'[d] = "odRenew" => Announced /\ ~Announced']_vars
  BY NeedAnnouncedOnce
<1>. QED  BY <1>1, TypeCorrect, ListenInductive, PTL DEF Spec, OneYieldPerNeed

-----------------------------------------------------------------------------
(***************************************************************************)
(* The handles on one thread.  A call then sees no other call, so what it  *)
(* has read of the queue stays true until it acts on it: CallInv says so   *)
(* at each label of send and recv.                                         *)
(***************************************************************************)
Alone == \A p, q \in Handles : pc[p] \notin AtRest /\ pc[q] \notin AtRest => p = q

SenderSees(s) ==
  /\ pc[s] \in {"readyLimit", "tryLimit"} => seen[s] = Len(queue)
  /\ "force" \notin Calls /\ pc[s] \in {"insert", "push"} => Len(queue) < limit

ReceiverSees(r) ==
  /\ pc[r] = "limit" => seen[r] = Len(queue)
  /\ pc[r] \in {"swap", "grow"} => Dynamic /\ queue = <<>>
  /\ pc[r] \in {"demand", "count"} => queue = <<>>
  /\ pc[r] = "maxed" => queue # <<>>

\* While the flag is up, whoever empties a dynamic channel goes on to take it.
Taking == {"remove", "len", "limit", "swap"}
FlagTaken == Dynamic /\ queue = <<>> /\ hasMaxed => \E r \in Receivers : pc[r] \in Taking

CallInv ==
  /\ Alone
  /\ \A s \in Senders : SenderSees(s)
  /\ \A r \in Receivers : ReceiverSees(r)
  /\ FlagTaken

\* The labels at which a call relies on what it has read.
Relying ==
  {"readyLimit", "tryLimit", "insert", "push", "limit", "swap", "grow", "demand", "count", "maxed"}

LEMMA InitCall == Init => CallInv
<1>. SUFFICES ASSUME Init PROVE CallInv
  OBVIOUS
<1>1. \A p \in Handles : pc[p] \in {"idle", "absent"}
  BY DEF Init
<1>. QED
  BY <1>1, HandleKinds DEF Init, CallInv, Alone, AtRest, SenderSees, ReceiverSees, FlagTaken

\* One handle moves while the others are at rest.
LEMMA CallMoves ==
  ASSUME TypeOK, ~Preemptive, NEW p \in Handles, NEW k, At(p, k), NEW l, Goto(p, l),
         p \in Senders => SenderSees(p)', p \in Receivers => ReceiverSees(p)', FlagTaken'
  PROVE  CallInv'
<1>1. \A q \in Handles \ {p} : pc'[q] = pc[q] /\ pc'[q] \in AtRest
  BY DEF At, Goto, TypeOK, LabelsOK
<1>2. Alone'
  BY <1>1 DEF Alone
<1>3. ASSUME NEW s \in Senders PROVE SenderSees(s)'
  BY <1>1, HandleKinds DEF SenderSees, AtRest
<1>4. ASSUME NEW r \in Receivers PROVE ReceiverSees(r)'
  BY <1>1, HandleKinds DEF ReceiverSees, AtRest
<1>. QED  BY <1>2, <1>3, <1>4 DEF CallInv

LEMMA FlagKept ==
  ASSUME TypeOK, CallInv, ~Preemptive, NEW p \in Handles, NEW k, At(p, k), NEW l, Goto(p, l),
         \/ queue' # <<>>
         \/ hasMaxed' = FALSE
         \/ UNCHANGED <<queue, hasMaxed>> /\ (p \in Receivers /\ k \in Taking => l \in Taking)
         \/ p \in Receivers /\ l \in Taking
  PROVE  FlagTaken'
<1>1. pc'[p] = l /\ pc[p] = k
  BY DEF At, Goto, TypeOK, LabelsOK
<1>2. \A q \in Handles \ {p} : pc[q] \notin Taking
  BY DEF At, AtRest, Taking
<1>. QED  BY <1>1, <1>2, HandleKinds DEF FlagTaken, CallInv

\* A step to a label that relies on nothing, which leaves queue and flag alone.
LEMMA CallGoesOn ==
  ASSUME TypeOK, CallInv, ~Preemptive, NEW p \in Handles, NEW k, At(p, k), NEW l \in Labels, Goto(p, l),
         UNCHANGED <<queue, hasMaxed>>, l \notin Relying, p \in Receivers => k \notin Taking \/ l \in Taking
  PROVE  CallInv'
<1>1. pc'[p] = l
  BY DEF Goto, TypeOK, LabelsOK
<1>2. FlagTaken'
  BY FlagKept
<1>. QED  BY <1>1, <1>2, CallMoves DEF Relying, SenderSees, ReceiverSees

LEMMA SenderRunsCall ==
  ASSUME TypeOK, CallInv, ~Preemptive, NEW s \in Senders, SenderRuns(s)
  PROVE  CallInv'
<1>. USE HandleKinds DEF Labels, CommonLabels, SenderLabels, Sending
<1>a. s \in Handles /\ s \notin Receivers /\ SenderSees(s)
  BY DEF CallInv
<1>b. \A l \in Labels : Goto(s, l) => pc'[s] = l
  BY DEF Goto, TypeOK, LabelsOK
<1>1. CASE ReadyTop(s)
  <2>1. PICK l \in {"idle", "readyPoll", "readyLen"} : Goto(s, l)
    BY <1>1 DEF ReadyTop
  <2>. QED  BY <1>a, <1>1, <2>1, CallGoesOn DEF ReadyTop, memory, Relying
<1>2. CASE ReadyPoll(s)
  <2>1. PICK l \in {"parked", "readyLen"} : Goto(s, l)
    BY <1>2 DEF ReadyPoll
  <2>. QED  BY <1>a, <1>2, <2>1, CallGoesOn DEF ReadyPoll, memory, Relying
<1>3. CASE ReadLen(s)
  <2>1. PICK k \in Labels, l \in {"readyLimit", "tryLimit"} : At(s, k) /\ Goto(s, l)
    BY <1>3 DEF ReadLen
  <2>2. seen'[s] = Len(queue) /\ UNCHANGED <<queue, hasMaxed, limit>>
    BY <1>a, <1>3 DEF ReadLen, memory, TypeOK, LocalsOK
  <2>3. SenderSees(s)' /\ FlagTaken'
    BY <1>a, <1>b, <2>1, <2>2, FlagKept DEF SenderSees
  <2>. QED  BY <1>a, <2>1, <2>3, CallMoves
<1>4. CASE ReadyLimit(s) \/ TryLimit(s)
  <2>1. PICK k \in {"readyLimit", "tryLimit"} : At(s, k)
    BY <1>4 DEF ReadyLimit, TryLimit
  <2>2. PICK l \in {"insert", "push", "readyListen", "idle"} :
          Goto(s, l) /\ (l \in {"insert", "push"} => seen[s] < limit)
    BY <1>4 DEF ReadyLimit, TryLimit, FirstSendStep
  <2>3. UNCHANGED <<queue, hasMaxed, limit>> /\ seen[s] = Len(queue)
    BY <1>a, <1>4, <2>1 DEF ReadyLimit, TryLimit, At, memory, SenderSees
  <2>4. SenderSees(s)' /\ FlagTaken'
    BY <1>a, <1>b, <2>1, <2>2, <2>3, FlagKept DEF SenderSees
  <2>. QED  BY <1>a, <2>1, <2>2, <2>4, CallMoves
<1>5. CASE ReadyListen(s)
  BY <1>a, <1>5, CallGoesOn DEF ReadyListen, memory, Relying
<1>6. CASE TryTop(s)
  <2>1. PICK l \in {"idle", "tryLen"} : Goto(s, l)
    BY <1>6 DEF TryTop
  <2>. QED  BY <1>a, <1>6, <2>1, CallGoesOn DEF TryTop, memory, Relying
<1>7. CASE Insert(s)
  <2>1. PICK l \in {"idle", "push"} : Goto(s, l)
    BY <1>7 DEF Insert
  <2>2. At(s, "insert") /\ pc[s] = "insert" /\ UNCHANGED <<queue, hasMaxed, limit>>
    BY <1>7 DEF Insert, At
  <2>3. SenderSees(s)' /\ FlagTaken'
    BY <1>a, <1>b, <2>1, <2>2, FlagKept DEF SenderSees
  <2>. QED  BY <1>a, <2>1, <2>2, <2>3, CallMoves
<1>8. CASE Push(s)
  <2>1. At(s, "push") /\ Goto(s, "notify") /\ pc'[s] = "notify" /\ queue' = Append(queue, item[s])
        /\ item[s] \in Values
    BY <1>b, <1>8 DEF Push, At, TypeOK, LocalsOK
  <2>2. queue' # <<>>
    BY <2>1, AppendProperties DEF TypeOK
  <2>3. SenderSees(s)' /\ FlagTaken'
    BY <1>a, <2>1, <2>2, FlagKept DEF SenderSees
  <2>. QED  BY <1>a, <2>1, <2>3, CallMoves
<1>9. CASE NotifyReceiver(s)
  BY <1>a, <1>9, CallGoesOn DEF NotifyReceiver, memory, Relying
<1>10. CASE LastSenderGone(s)
  BY <1>a, <1>10, CallGoesOn DEF LastSenderGone, memory, Relying
<1>11. CASE DropListener(s)
  BY <1>a, <1>11, CallGoesOn DEF DropListener, memory, Relying
<1>. QED
  BY <1>1, <1>2, <1>3, <1>4, <1>5, <1>6, <1>7, <1>8, <1>9, <1>10, <1>11 DEF SenderRuns

LEMMA ReceiverRunsCall ==
  ASSUME TypeOK, CallInv, ~Preemptive, NEW r \in Receivers, ReceiverRuns(r)
  PROVE  CallInv'
<1>. USE HandleKinds DEF Labels, CommonLabels, ReceiverLabels
<1>a. r \in Handles /\ r \notin Senders /\ ReceiverSees(r) /\ FlagTaken
  BY DEF CallInv
<1>b. \A l \in Labels : Goto(r, l) => pc'[r] = l
  BY DEF Goto, TypeOK, LabelsOK
<1>1. CASE Pop(r)
  <2>0. At(r, "pop")
    BY <1>1 DEF Pop
  <2>1. CASE queue = <<>>
    <3>1. Goto(r, "demand") /\ UNCHANGED <<queue, hasMaxed>>
      BY <1>1, <2>1 DEF Pop
    <3>2. FlagTaken'
      <4>1. "pop" \notin Taking
        BY DEF Taking
      <4>. QED  BY <1>a, <2>0, <3>1, <4>1, FlagKept
    <3>3. pc'[r] = "demand"
      BY <1>b, <3>1
    <3>4. ReceiverSees(r)'
      BY <2>1, <3>1, <3>3 DEF ReceiverSees
    <3>. QED  BY <1>a, <2>0, <3>1, <3>2, <3>4, CallMoves
  <2>2. CASE queue # <<>>
    <3>1. PICK l \in {"remove", "len"} : Goto(r, l)
      BY <1>1, <2>2 DEF Pop
    <3>2. ReceiverSees(r)' /\ FlagTaken'
      BY <1>a, <1>b, <2>0, <3>1, FlagKept DEF ReceiverSees, Taking
    <3>. QED  BY <1>a, <2>0, <3>1, <3>2, CallMoves
  <2>. QED  BY <2>1, <2>2
<1>2. CASE Remove(r)
  BY <1>a, <1>2, CallGoesOn DEF Remove, Relying, Taking
<1>3. CASE RecvLen(r)
  <2>1. /\ At(r, "len") /\ Goto(r, "limit") /\ UNCHANGED <<queue, hasMaxed>>
        /\ seen'[r] = Len(queue)
    BY <1>a, <1>3 DEF RecvLen, memory, TypeOK, LocalsOK
  <2>2. ReceiverSees(r)' /\ FlagTaken'
    BY <1>a, <1>b, <2>1, FlagKept DEF ReceiverSees, Taking
  <2>. QED  BY <1>a, <2>1, <2>2, CallMoves
<1>4. CASE RecvLimit(r)
  <2>1. /\ At(r, "limit") /\ UNCHANGED <<queue, hasMaxed>>
        /\ seen[r] = Len(queue) /\ queue \in Seq(Values)
    BY <1>a, <1>4 DEF RecvLimit, At, memory, ReceiverSees, TypeOK
  <2>2. seen[r] = 0 <=> queue = <<>>
    BY <2>1, EmptySeq
  <2>3. CASE queue = <<>> /\ Dynamic
    <3>1. Goto(r, "swap")
      BY <1>4, <2>2, <2>3 DEF RecvLimit
    <3>2. ReceiverSees(r)' /\ FlagTaken'
      BY <1>a, <1>b, <2>1, <2>3, <3>1, FlagKept DEF ReceiverSees, Taking
    <3>. QED  BY <1>a, <2>1, <3>1, <3>2, CallMoves
  <2>4. CASE queue = <<>> /\ ~Dynamic
    <3>1. Goto(r, "wake")
      BY <1>4, <2>2, <2>4 DEF RecvLimit
    <3>2. ReceiverSees(r)' /\ FlagTaken'
      BY <1>b, <2>4, <3>1 DEF ReceiverSees, FlagTaken
    <3>. QED  BY <1>a, <2>1, <3>1, <3>2, CallMoves
  <2>5. CASE queue # <<>>
    <3>1. PICK l \in {"maxed", "wake"} : Goto(r, l)
      BY <1>4, <2>2, <2>5 DEF RecvLimit
    <3>2. ReceiverSees(r)' /\ FlagTaken'
      BY <1>b, <2>1, <2>5, <3>1 DEF ReceiverSees, FlagTaken
    <3>. QED  BY <1>a, <2>1, <3>1, <3>2, CallMoves
  <2>. QED  BY <2>3, <2>4, <2>5
<1>5. CASE Swap(r)
  <2>1. PICK l \in {"grow", "wake"} : Goto(r, l)
    BY <1>5 DEF Swap
  <2>2. At(r, "swap") /\ pc[r] = "swap" /\ queue' = queue /\ hasMaxed' = FALSE
    BY <1>5 DEF Swap, At
  <2>3. ReceiverSees(r)' /\ FlagTaken'
    BY <1>a, <1>b, <2>1, <2>2 DEF ReceiverSees, FlagTaken
  <2>. QED  BY <1>a, <2>1, <2>2, <2>3, CallMoves
<1>6. CASE Grow(r)
  BY <1>a, <1>6, CallGoesOn DEF Grow, Relying, Taking
<1>7. CASE Maxed(r)
  <2>1. At(r, "maxed") /\ pc[r] = "maxed" /\ Goto(r, "wake") /\ queue' = queue /\ queue # <<>>
    BY <1>a, <1>7 DEF Maxed, At, ReceiverSees
  <2>2. ReceiverSees(r)' /\ FlagTaken'
    BY <1>b, <2>1 DEF ReceiverSees, FlagTaken
  <2>. QED  BY <1>a, <2>1, <2>2, CallMoves
<1>8. CASE Wake(r)
  BY <1>a, <1>8, CallGoesOn DEF Wake, memory, Relying, Taking
<1>9. CASE NotifyOnDemand(r)
  <2>1. /\ At(r, "demand") /\ pc[r] = "demand" /\ Goto(r, "count")
        /\ UNCHANGED <<queue, hasMaxed>> /\ queue = <<>>
    BY <1>a, <1>9 DEF NotifyOnDemand, At, memory, ReceiverSees
  <2>2. ReceiverSees(r)' /\ FlagTaken'
    BY <1>a, <1>b, <2>1, FlagKept DEF ReceiverSees, Taking
  <2>. QED  BY <1>a, <2>1, <2>2, CallMoves
<1>10. CASE WakeUp(r)
  BY <1>a, <1>10, CallGoesOn DEF WakeUp, memory, Relying, Taking
<1>11. CASE CheckSenders(r)
  <2>1. PICK l \in {"ended", "listen"} : Goto(r, l)
    BY <1>11 DEF CheckSenders
  <2>. QED  BY <1>a, <1>11, <2>1, CallGoesOn DEF CheckSenders, memory, Relying, Taking
<1>12. CASE ReceiverListen(r)
  BY <1>a, <1>12, CallGoesOn DEF ReceiverListen, memory, Relying, Taking
<1>13. CASE LastReceiverGone(r)
  BY <1>a, <1>13, CallGoesOn DEF LastReceiverGone, memory, Relying, Taking
<1>14. CASE DropListener(r)
  BY <1>a, <1>14, CallGoesOn DEF DropListener, memory, Relying, Taking
<1>. QED
  BY <1>1, <1>2, <1>3, <1>4, <1>5, <1>6, <1>7, <1>8, <1>9, <1>10, <1>11, <1>12, <1>13, <1>14
  DEF ReceiverRuns

LEMMA OnDemandRunsCall ==
  ASSUME TypeOK, CallInv, ~Preemptive, NEW d \in OnDemands, OnDemandRuns(d)
  PROVE  CallInv'
<1>. USE HandleKinds DEF Labels, CommonLabels, OnDemandLabels
<1>a. d \in Handles /\ d \notin Senders /\ d \notin Receivers
  OBVIOUS
<1>1. PICK l \in {"ended", "odPoll", "odListen", "odTop", "odRenew", "parked", "idle", "dropped"} : Goto(d, l)
  BY DEF OnDemandRuns, OnDemandTop, OnDemandPoll, OnDemandListen, DropListener
<1>2. \E k : At(d, k)
  BY DEF OnDemandRuns, OnDemandTop, OnDemandPoll, OnDemandListen, DropListener
<1>3. UNCHANGED <<queue, hasMaxed>>
  BY DEF OnDemandRuns, OnDemandTop, OnDemandPoll, OnDemandListen, DropListener, memory
<1>. QED  BY <1>a, <1>1, <1>2, <1>3, CallGoesOn DEF Relying

LEMMA NextCall ==
  ASSUME TypeOK, CallInv, ~Preemptive, [Next]_vars
  PROVE  CallInv'
<1>. USE HandleKinds DEF Labels, CommonLabels, Relying, Taking
<1>a. ASSUME NEW p \in Handles, NEW k \in {"absent", "idle", "parked", "ended"}, At(p, k),
             NEW l \in {"idle", "pop", "odTop", "readyTop", "tryTop", "dropNotify", "dropListener"},
             Goto(p, l), UNCHANGED <<queue, hasMaxed>>
      PROVE  CallInv'
  BY <1>a, CallGoesOn DEF SenderLabels, Sending, ReceiverLabels, OnDemandLabels
<1>b. ASSUME NEW p, NEW q \in Handles, Clone(p, q) PROVE CallInv'
  BY <1>a, <1>b DEF Clone, memory
<1>1. ASSUME NEW s \in Senders, SenderStep(s) PROVE CallInv'
  <2>1. CASE SenderStarts(s)
    <3>1. PICK v \in Values : PollReady(s, v) \/ TrySend(s, v) \/ ForceSend(s, v)
      BY <2>1 DEF SenderStarts
    <3>2. CASE PollReady(s, v) \/ TrySend(s, v)
      BY <1>a, <3>2 DEF PollReady, TrySend, Begin, memory
    <3>3. CASE ForceSend(s, v)
      <4>1. /\ "force" \in Calls /\ At(s, "idle") /\ UNCHANGED <<queue, hasMaxed>>
            /\ Goto(s, FirstSendStep) /\ FirstSendStep \in {"insert", "push"}
        BY <3>3 DEF ForceSend, Begin, memory, FirstSendStep
      <4>2. pc'[s] = FirstSendStep
        BY <4>1 DEF Goto, TypeOK, LabelsOK
      <4>3. SenderSees(s)' /\ FlagTaken'
        BY <4>1, <4>2, FlagKept DEF SenderSees
      <4>. QED  BY <4>1, <4>3, CallMoves
    <3>. QED  BY <3>1, <3>2, <3>3
  <2>2. CASE Repoll(s)
    BY <1>a, <2>2 DEF Repoll, memory
  <2>3. CASE SenderRuns(s)
    BY <2>3, SenderRunsCall
  <2>4. CASE DropSender(s)
    BY <1>a, <2>4 DEF DropSender, Drops, memory
  <2>5. CASE \E t \in Senders : CloneSender(s, t)
    BY <1>b, <2>5 DEF CloneSender
  <2>. QED  BY <1>1, <2>1, <2>2, <2>3, <2>4, <2>5 DEF SenderStep
<1>2. ASSUME NEW r \in Receivers, ReceiverStep(r) PROVE CallInv'
  <2>1. CASE PollNext(r)
    BY <1>a, <2>1 DEF PollNext, memory
  <2>2. CASE ReceiverRuns(r)
    BY <2>2, ReceiverRunsCall
  <2>3. CASE DropReceiver(r)
    BY <1>a, <2>3 DEF DropReceiver, Drops, memory
  <2>4. CASE \E t \in Receivers : CloneReceiver(r, t)
    BY <1>b, <2>4 DEF CloneReceiver
  <2>5. CASE \E d \in OnDemands : NewOnDemand(r, d)
    BY <1>b, <2>5 DEF NewOnDemand
  <2>. QED  BY <1>2, <2>1, <2>2, <2>3, <2>4, <2>5 DEF ReceiverStep
<1>3. ASSUME NEW d \in OnDemands, OnDemandStep(d) PROVE CallInv'
  <2>1. CASE PollOnDemand(d)
    BY <1>a, <2>1 DEF PollOnDemand, memory
  <2>2. CASE OnDemandRuns(d)
    BY <2>2, OnDemandRunsCall
  <2>3. CASE DropOnDemand(d)
    BY <1>a, <2>3 DEF DropOnDemand, Drops, memory
  <2>4. CASE \E t \in OnDemands : CloneOnDemand(d, t)
    BY <1>b, <2>4 DEF CloneOnDemand
  <2>. QED  BY <1>3, <2>1, <2>2, <2>3, <2>4 DEF OnDemandStep
<1>4. CASE UNCHANGED vars
  BY <1>4 DEF vars, memory, locals, CallInv, Alone, SenderSees, ReceiverSees, FlagTaken
<1>. QED  BY <1>1, <1>2, <1>3, <1>4 DEF Next

LEMMA CallInductive == ASSUME ~Preemptive PROVE Spec => []CallInv
<1>1. TypeOK /\ CallInv /\ [Next]_vars => CallInv'
  BY NextCall
<1>. QED  BY <1>1, TypeCorrect, InitCall, PTL DEF Spec

-----------------------------------------------------------------------------
(***************************************************************************)
(* Most steps change nothing that BoundedQueue, or the growth of the       *)
(* limit, can see.                                                         *)
(***************************************************************************)
Working == {"ended", "remove", "len", "limit", "maxed", "grow"}

Unseen(p) ==
  /\ UNCHANGED <<queue, limit, hasMaxed, senderCount, receiverCount>>
  /\ \E l \in Labels : Goto(p, l) /\ (p \in Receivers => pc[p] \notin Working /\ l # "ended")

SenderSeen(s)   == Push(s) \/ DropSender(s) \/ \E t \in Senders : CloneSender(s, t)
ReceiverSeen(r) ==
  \/ Pop(r) \/ Remove(r) \/ RecvLen(r) \/ RecvLimit(r) \/ Swap(r) \/ Grow(r) \/ Maxed(r)
  \/ CheckSenders(r) \/ DropReceiver(r) \/ \E t \in Receivers : CloneReceiver(r, t)

LEMMA SenderStepSeen ==
  ASSUME NEW s \in Senders, SenderStep(s)
  PROVE  SenderSeen(s) \/ \E p \in Handles : Unseen(p)
<1>. USE HandleKinds DEF Labels, CommonLabels, SenderLabels, Sending
<1>a. s \in Handles /\ s \notin Receivers
  OBVIOUS
<1>1. CASE SenderStarts(s)
  <2>1. PICK v \in Values : PollReady(s, v) \/ TrySend(s, v) \/ ForceSend(s, v)
    BY <1>1 DEF SenderStarts
  <2>2. PICK l \in {"readyTop", "tryTop", "insert", "push"} : Goto(s, l)
    BY <2>1 DEF PollReady, TrySend, ForceSend, Begin, FirstSendStep
  <2>. QED  BY <1>a, <2>1, <2>2 DEF PollReady, TrySend, ForceSend, Begin, Unseen, memory, counts
<1>2. CASE Repoll(s)
  BY <1>a, <1>2 DEF Repoll, Unseen, memory, counts
<1>3. CASE ReadyTop(s) \/ ReadyPoll(s) \/ ReadLen(s) \/ ReadyListen(s) \/ TryTop(s)
  <2>1. PICK l \in {"idle", "readyPoll", "readyLen", "parked", "readyLimit", "tryLimit", "readyTop", "tryLen"} :
          Goto(s, l)
    BY <1>3 DEF ReadyTop, ReadyPoll, ReadLen, ReadyListen, TryTop
  <2>. QED
    BY <1>a, <1>3, <2>1 DEF ReadyTop, ReadyPoll, ReadLen, ReadyListen, TryTop, Unseen, memory, counts
<1>4. CASE ReadyLimit(s) \/ TryLimit(s) \/ Insert(s) \/ NotifyReceiver(s) \/ LastSenderGone(s)
           \/ DropListener(s)
  <2>1. PICK l \in {"insert", "push", "readyListen", "idle", "dropListener", "dropped"} : Goto(s, l)
    BY <1>4 DEF ReadyLimit, TryLimit, Insert, NotifyReceiver, LastSenderGone, DropListener, FirstSendStep
  <2>. QED
    BY <1>a, <1>4, <2>1
    DEF ReadyLimit, TryLimit, Insert, NotifyReceiver, LastSenderGone, DropListener, Unseen, memory, counts
<1>. QED  BY <1>1, <1>2, <1>3, <1>4 DEF SenderStep, SenderRuns, SenderSeen

LEMMA ReceiverStepSeen ==
  ASSUME NEW r \in Receivers, ReceiverStep(r)
  PROVE  ReceiverSeen(r) \/ \E p \in Handles : Unseen(p)
<1>. USE HandleKinds DEF Labels, CommonLabels, ReceiverLabels, Working
<1>1. CASE PollNext(r)
  BY <1>1 DEF PollNext, At, Unseen, memory, counts
<1>2. CASE Wake(r) \/ NotifyOnDemand(r) \/ WakeUp(r)
  BY <1>2 DEF Wake, NotifyOnDemand, WakeUp, At, Unseen, memory, counts
<1>3. CASE ReceiverListen(r) \/ LastReceiverGone(r) \/ DropListener(r)
  BY <1>3 DEF ReceiverListen, LastReceiverGone, DropListener, At, Unseen, memory, counts
<1>4. ASSUME NEW d \in OnDemands, NewOnDemand(r, d) PROVE Unseen(d)
  BY <1>4 DEF NewOnDemand, Clone, At, Unseen, memory, counts
<1>. QED  BY <1>1, <1>2, <1>3, <1>4 DEF ReceiverStep, ReceiverRuns, ReceiverSeen

LEMMA OnDemandStepSeen ==
  ASSUME NEW d \in OnDemands, OnDemandStep(d)
  PROVE  \E p \in Handles : Unseen(p)
<1>. USE HandleKinds DEF Labels, CommonLabels, OnDemandLabels
<1>1. CASE PollOnDemand(d) \/ DropOnDemand(d)
  BY <1>1 DEF PollOnDemand, DropOnDemand, Unseen, memory, counts
<1>2. CASE OnDemandRuns(d)
  <2>1. PICK l \in {"ended", "odPoll", "odListen", "odTop", "odRenew", "parked", "idle", "dropped"} : Goto(d, l)
    BY <1>2 DEF OnDemandRuns, OnDemandTop, OnDemandPoll, OnDemandListen, DropListener
  <2>. QED
    BY <1>2, <2>1
    DEF OnDemandRuns, OnDemandTop, OnDemandPoll, OnDemandListen, DropListener, Unseen, memory, counts
<1>3. ASSUME NEW t \in OnDemands, CloneOnDemand(d, t) PROVE Unseen(t)
  BY <1>3 DEF CloneOnDemand, Clone, Unseen, memory
<1>. QED  BY <1>1, <1>2, <1>3 DEF OnDemandStep
-----------------------------------------------------------------------------
(***************************************************************************)
(* The end of the stream.                                                  *)
(***************************************************************************)
Ended == {r \in Receivers : pc[r] = "ended"}

LEMMA UnseenEnded ==
  ASSUME TypeOK, NEW p \in Handles, NEW l, Goto(p, l),
         p \in Receivers => pc[p] # "ended" /\ l # "ended"
  PROVE  Ended' = Ended
BY HandleKinds DEF Ended, Goto, TypeOK, LabelsOK

LEMMA OnlyCheckEnds ==
  ASSUME TypeOK, [Next]_vars, NEW r \in Receivers, pc[r] # "ended", pc'[r] = "ended"
  PROVE  CheckSenders(r)
<1>. USE HandleKinds
<1>a. ASSUME NEW p \in Handles, NEW l, Goto(p, l), p \notin Receivers \/ l # "ended" PROVE FALSE
  BY <1>a DEF Goto, TypeOK, LabelsOK
<1>1. ASSUME NEW p \in Handles, Unseen(p) PROVE FALSE
  BY <1>1, <1>a DEF Unseen
<1>2. ASSUME NEW s \in Senders, SenderSeen(s) PROVE FALSE
  BY <1>2, <1>a DEF SenderSeen, Push, DropSender, CloneSender, Clone
<1>3. ASSUME NEW q \in Receivers, ReceiverSeen(q) PROVE CheckSenders(r)
  <2>1. CASE CheckSenders(q)
    <3>1. q = r
      BY <2>1 DEF CheckSenders, Goto, TypeOK, LabelsOK
    <3>. QED  BY <2>1, <3>1
  <2>2. CASE Pop(q) \/ Remove(q) \/ RecvLen(q) \/ RecvLimit(q)
    <3>1. PICK l \in {"demand", "remove", "len", "limit", "swap", "wake", "maxed"} : Goto(q, l)
      BY <2>2 DEF Pop, Remove, RecvLen, RecvLimit
    <3>. QED  BY <1>a, <3>1
  <2>3. CASE Swap(q) \/ Grow(q) \/ Maxed(q) \/ DropReceiver(q)
    <3>1. PICK l \in {"grow", "wake", "dropNotify", "dropListener"} : Goto(q, l)
      BY <2>3 DEF Swap, Grow, Maxed, DropReceiver
    <3>. QED  BY <1>a, <3>1
  <2>4. CASE \E t \in Receivers : CloneReceiver(q, t)
    BY <1>a, <2>4 DEF CloneReceiver, Clone
  <2>. QED  BY <1>3, <2>1, <2>2, <2>3, <2>4 DEF ReceiverSeen
<1>4. CASE UNCHANGED vars
  BY <1>4 DEF vars
<1>. QED
  BY <1>1, <1>2, <1>3, <1>4, SenderStepSeen, ReceiverStepSeen, OnDemandStepSeen DEF Next

\* On one thread a receiver that is told the end of the stream has missed
\* nothing: nobody sends between its look at the queue and its look at the
\* senders (recv and poll_next, lines 111-125 and 567-600).
THEOREM EndIsDrained == ASSUME ~Preemptive PROVE Spec => EndOfStreamMeansDrained
<1>1. TypeOK /\ CallInv /\ [Next]_vars
        => [\A r \in Receivers : pc[r] # "ended" /\ pc'[r] = "ended" => queue = <<>>]_vars
  <2>. SUFFICES ASSUME TypeOK, CallInv, [Next]_vars, NEW r \in Receivers,
                       pc[r] # "ended", pc'[r] = "ended"
                PROVE  queue = <<>>
    OBVIOUS
  <2>1. pc[r] = "count"
    BY OnlyCheckEnds DEF CheckSenders, At
  <2>. QED  BY <2>1 DEF CallInv, ReceiverSees
<1>. QED  BY <1>1, TypeCorrect, CallInductive, PTL DEF Spec, EndOfStreamMeansDrained

-----------------------------------------------------------------------------
(***************************************************************************)
(* The channel implements BoundedQueue.                                    *)
(***************************************************************************)
LEMMA LiveCounted ==
  ASSUME CountsMatch
  PROVE  /\ \A s \in Senders : Live(s) => senderCount > 0
         /\ \A r \in Receivers : Live(r) => receiverCount > 0
<1>1. ASSUME NEW Kind \in {Senders, Receivers}, NEW p \in Kind, Live(p)
      PROVE  Cardinality(LiveOf(Kind)) > 0
  <2>1. p \in LiveOf(Kind)
    BY <1>1 DEF LiveOf
  <2>2. IsFiniteSet(LiveOf(Kind)) /\ Cardinality(LiveOf(Kind)) \in Nat
    BY LiveFinite
  <2>. QED  BY <2>1, <2>2, FS_EmptySet
<1>. QED  BY <1>1, CountsMatchLive

LEMMA PromiseInit == Init => Promise!Init
<1>. SUFFICES ASSUME Init PROVE Promise!Init
  OBVIOUS
<1>1. {r \in Receivers : pc[r] = "ended"} = {}
  BY HandleKinds DEF Init
<1>. QED  BY <1>1 DEF Init, Promise!Init

PromiseVars == <<queue, limit, senderCount, receiverCount, Ended>>

\* Clones and drops join and leave; a receiver that goes takes its end along.
LEMMA JoinsAndLeaves ==
  ASSUME TypeOK, CountsMatch, NEW p \in Handles,
         \/ DropSender(p) /\ p \in Senders
         \/ DropReceiver(p) /\ p \in Receivers
         \/ p \in Senders /\ \E t \in Senders : CloneSender(p, t)
         \/ p \in Receivers /\ \E t \in Receivers : CloneReceiver(p, t)
  PROVE  Promise!Next
<1>. USE HandleKinds
<1>0. /\ \A q \in Senders : Live(q) => senderCount > 0
      /\ \A q \in Receivers : Live(q) => receiverCount > 0
  BY LiveCounted
<1>1. CASE DropSender(p) /\ p \in Senders
  <2>1. PICK l \in {"dropNotify", "dropListener"} : Goto(p, l)
    BY <1>1 DEF DropSender
  <2>2. Live(p)
    BY <1>1 DEF DropSender, Drops, At, Live, Gone
  <2>3. Ended' = Ended
    BY <1>1, <2>1, UnseenEnded
  <2>. QED  BY <1>0, <1>1, <2>2, <2>3 DEF DropSender, memory, Ended, Promise!Next, Promise!WriterLeaves
<1>2. CASE DropReceiver(p) /\ p \in Receivers
  <2>1. PICK l \in {"dropNotify", "dropListener"} : Goto(p, l)
    BY <1>2 DEF DropReceiver
  <2>2. Live(p)
    BY <1>2 DEF DropReceiver, Drops, At, Live, Gone
  <2>3. Ended' = Ended \ {p}
    BY <1>2, <2>1 DEF Ended, Goto, TypeOK, LabelsOK
  <2>. QED  BY <1>0, <1>2, <2>2, <2>3 DEF DropReceiver, memory, Ended, Promise!Next, Promise!ReaderLeaves
<1>3. ASSUME p \in Senders, NEW t \in Senders, CloneSender(p, t) PROVE Promise!Next
  <2>1. Ended' = Ended
    BY <1>3, UnseenEnded DEF CloneSender, Clone
  <2>2. Live(p)
    BY <1>3 DEF CloneSender, Clone, Live, Gone
  <2>. QED
    BY <1>0, <1>3, <2>1, <2>2 DEF CloneSender, Clone, memory, Ended, Promise!Next, Promise!WriterJoins
<1>4. ASSUME p \in Receivers, NEW t \in Receivers, CloneReceiver(p, t) PROVE Promise!Next
  <2>1. Ended' = Ended
    BY <1>4, UnseenEnded DEF CloneReceiver, Clone, At
  <2>2. Live(p)
    BY <1>4 DEF CloneReceiver, Clone, Live, Gone
  <2>. QED
    BY <1>0, <1>4, <2>1, <2>2 DEF CloneReceiver, Clone, memory, Ended, Promise!Next, Promise!ReaderJoins
<1>. QED  BY <1>1, <1>2, <1>3, <1>4

LEMMA PushPuts ==
  ASSUME TypeOK, CountsMatch, CallInv, "force" \notin Calls, NEW s \in Senders, Push(s)
  PROVE  Promise!Next
<1>1. pc[s] = "push" /\ Goto(s, "notify") /\ item[s] \in Values /\ s \in Handles /\ s \notin Receivers
  BY HandleKinds DEF Push, At, TypeOK, LocalsOK, Sending
<1>2. Ended' = Ended
  BY <1>1, UnseenEnded
<1>3. senderCount > 0
  BY <1>1, LiveCounted DEF Live, Gone
<1>4. Len(queue) < limit
  BY <1>1 DEF CallInv, SenderSees
<1>5. Promise!Put(item[s])
  BY <1>2, <1>3, <1>4 DEF Push, counts, Ended, Promise!Put
<1>. QED  BY <1>1, <1>5 DEF Promise!Next

LEMMA ReceiverImplements ==
  ASSUME TypeOK, CountsMatch, CallInv, NEW r \in Receivers,
         Pop(r) \/ Grow(r) \/ CheckSenders(r)
  PROVE  Promise!Next \/ UNCHANGED PromiseVars
<1>. USE HandleKinds
<1>1. CASE Pop(r)
  <2>1. PICK l \in {"demand", "remove", "len"} : Goto(r, l)
    BY <1>1 DEF Pop
  <2>2. pc[r] = "pop"
    BY <1>1 DEF Pop, At
  <2>3. Ended' = Ended
    BY <2>1, <2>2, UnseenEnded
  <2>4. receiverCount > 0
    BY <2>2, LiveCounted DEF Live, Gone
  <2>5. CASE queue = <<>>
    BY <1>1, <2>3, <2>5 DEF Pop, counts, PromiseVars
  <2>6. CASE queue # <<>>
    BY <1>1, <2>3, <2>4, <2>6 DEF Pop, counts, Ended, Promise!Next, Promise!Take
  <2>. QED  BY <2>5, <2>6
<1>2. CASE Grow(r)
  <2>1. pc[r] = "grow" /\ Goto(r, "wake")
    BY <1>2 DEF Grow, At
  <2>2. Dynamic /\ queue = <<>>
    BY <2>1 DEF CallInv, ReceiverSees
  <2>3. Ended' = Ended
    BY <2>1, UnseenEnded
  <2>. QED  BY <1>2, <2>2, <2>3 DEF Grow, counts, Ended, Promise!Next, Promise!Grow
<1>3. CASE CheckSenders(r)
  <2>1. pc[r] = "count" /\ queue = <<>>
    BY <1>3 DEF CheckSenders, At, CallInv, ReceiverSees
  <2>2. CASE senderCount = 0
    <3>1. Goto(r, "ended")
      BY <1>3, <2>2 DEF CheckSenders
    <3>2. Ended' = Ended \cup {r}
      BY <3>1 DEF Ended, Goto, TypeOK, LabelsOK
    <3>3. Promise!End(r)
      BY <1>3, <2>1, <2>2, <3>2 DEF CheckSenders, memory, counts, Ended, Promise!End
    <3>. QED  BY <3>3 DEF Promise!Next
  <2>3. CASE senderCount # 0
    <3>1. Goto(r, "listen")
      BY <1>3, <2>3 DEF CheckSenders
    <3>2. Ended' = Ended
      BY <2>1, <3>1, UnseenEnded
    <3>. QED  BY <1>3, <3>2 DEF CheckSenders, memory, counts, PromiseVars
  <2>. QED  BY <2>2, <2>3
<1>. QED  BY <1>1, <1>2, <1>3

LEMMA PromiseStep ==
  ASSUME TypeOK, CountsMatch, CallInv, "force" \notin Calls, [Next]_vars
  PROVE  Promise!Next \/ UNCHANGED PromiseVars
<1>. USE HandleKinds
<1>1. ASSUME NEW p \in Handles, Unseen(p) PROVE UNCHANGED PromiseVars
  <2>1. Ended' = Ended
    BY <1>1, UnseenEnded DEF Unseen, Working
  <2>. QED  BY <1>1, <2>1 DEF Unseen, PromiseVars
<1>2. ASSUME NEW s \in Senders, SenderSeen(s) PROVE Promise!Next
  BY <1>2, PushPuts, JoinsAndLeaves DEF SenderSeen
<1>3. ASSUME NEW r \in Receivers, ReceiverSeen(r)
      PROVE  Promise!Next \/ UNCHANGED PromiseVars
  <2>1. CASE Pop(r) \/ Grow(r) \/ CheckSenders(r)
    BY <2>1, ReceiverImplements
  <2>2. CASE Remove(r) \/ RecvLen(r) \/ RecvLimit(r) \/ Swap(r) \/ Maxed(r)
    <3>1. PICK l \in {"len", "limit", "swap", "wake", "maxed", "grow"} : Goto(r, l)
      BY <2>2 DEF Remove, RecvLen, RecvLimit, Swap, Maxed
    <3>2. pc[r] # "ended"
      BY <2>2 DEF Remove, RecvLen, RecvLimit, Swap, Maxed, At
    <3>3. Ended' = Ended
      BY <3>1, <3>2, UnseenEnded
    <3>. QED
      BY <2>2, <3>3 DEF Remove, RecvLen, RecvLimit, Swap, Maxed, memory, counts, PromiseVars
  <2>3. CASE DropReceiver(r) \/ \E t \in Receivers : CloneReceiver(r, t)
    BY <2>3, JoinsAndLeaves
  <2>. QED  BY <1>3, <2>1, <2>2, <2>3 DEF ReceiverSeen
<1>4. CASE UNCHANGED vars
  BY <1>4 DEF vars, memory, counts, PromiseVars, Ended
<1>. QED
  BY <1>1, <1>2, <1>3, <1>4, SenderStepSeen, ReceiverStepSeen, OnDemandStepSeen DEF Next

\* On one thread, and without force_send, a channel is a first-in, first-out
\* queue that never exceeds its limit, grows only when it is empty and ends
\* only when it is drained and nobody can send (lib/channel, lines 89-180).
THEOREM IsBoundedQueue ==
  ASSUME ~Preemptive, "force" \notin Calls
  PROVE  Spec => KeepsPromise
<1>1. TypeOK /\ CountsMatch /\ CallInv /\ [Next]_vars
        => [Promise!Next]_<<queue, limit, senderCount, receiverCount, {r \in Receivers : pc[r] = "ended"}>>
  BY PromiseStep DEF PromiseVars, Ended
<1>. QED
  BY <1>1, PromiseInit, TypeCorrect, CountsAreExact, CallInductive, PTL
  DEF Spec, KeepsPromise, Promise!Spec

-----------------------------------------------------------------------------
(***************************************************************************)
(* The limit grows.  Once a dynamic channel was filled at the limit n, it  *)
(* has grown beyond n, or is still full, or has its flag up, or a receive  *)
(* has just made room and is going to put the flag up, or one has taken    *)
(* the flag and is going to grow.                                          *)
(***************************************************************************)
Grows(n) ==
  \/ limit > n
  \/ /\ limit = n
     /\ \/ Len(queue) >= n
        \/ hasMaxed
        \/ Len(queue) = n - 1 /\ \E r \in Receivers : pc[r] \in {"remove", "len", "limit"}
        \/ \E r \in Receivers : pc[r] \in {"maxed", "grow"}

FilledOnce(n) == Dynamic /\ Grows(n)

LEMMA UnseenGrows ==
  ASSUME TypeOK, NEW n \in Nat, Grows(n), NEW p \in Handles, NEW l, Goto(p, l),
         UNCHANGED <<queue, limit, hasMaxed>>, p \in Receivers => pc[p] \notin Working
  PROVE  Grows(n)'
<1>1. \A r \in Receivers : pc[r] \in Working => pc'[r] = pc[r]
  BY HandleKinds DEF Goto, TypeOK, LabelsOK
<1>. QED  BY <1>1 DEF Grows, Working

\* A step of send or recv: whoever it is, the others are at rest.
LEMMA OnlyOneWorks ==
  ASSUME ~Preemptive, NEW p \in Handles, NEW k, At(p, k)
  PROVE  \A r \in Receivers : pc[r] \in Working \ {"ended"} => r = p
BY HandleKinds DEF At, AtRest, Working

LEMMA PushGrows ==
  ASSUME TypeOK, ~Preemptive, NEW n \in Nat, Grows(n), NEW s \in Senders, Push(s)
  PROVE  Grows(n)'
<1>1. Len(queue') = Len(queue) + 1 /\ Len(queue) \in Nat /\ UNCHANGED <<limit, hasMaxed>>
  BY AppendProperties, LenProperties DEF Push, At, TypeOK, LocalsOK, Sending
<1>2. \A r \in Receivers : pc[r] \notin {"remove", "len", "limit", "maxed", "grow"}
  BY OnlyOneWorks, HandleKinds DEF Push, Working
<1>. QED  BY <1>1, <1>2 DEF Grows

LEMMA PopGrows ==
  ASSUME TypeOK, ~Preemptive, NEW n \in Nat, n >= 2, Grows(n), NEW r \in Receivers, Pop(r)
  PROVE  Grows(n)'
<1>1. pc[r] = "pop" /\ At(r, "pop") /\ UNCHANGED <<limit, hasMaxed>> /\ Len(queue) \in Nat
  BY LenProperties DEF Pop, At, TypeOK
<1>2. \A q \in Receivers : pc[q] \notin {"remove", "len", "limit", "maxed", "grow"}
  BY <1>1, OnlyOneWorks, HandleKinds DEF Working
<1>3. CASE queue = <<>>
  <2>1. Len(queue) = 0 /\ queue' = queue
    BY <1>3, EmptySeq DEF Pop
  <2>. QED  BY <1>1, <1>2, <2>1 DEF Grows
<1>4. CASE queue # <<>>
  <2>1. PICK l \in {"remove", "len"} : Goto(r, l)
    BY <1>4 DEF Pop
  <2>2. pc'[r] \in {"remove", "len"}
    BY <2>1, HandleKinds DEF Goto, TypeOK, LabelsOK
  <2>3. Len(queue') = Len(queue) - 1
    BY <1>4, HeadTailProperties DEF Pop, TypeOK
  <2>. QED  BY <1>1, <1>2, <2>2, <2>3 DEF Grows
<1>. QED  BY <1>3, <1>4

LEMMA RecvGrows ==
  ASSUME TypeOK, CallInv, ~Preemptive, NEW n \in Nat, n >= 2, Grows(n), NEW r \in Receivers,
         Remove(r) \/ RecvLen(r) \/ RecvLimit(r) \/ Swap(r) \/ Grow(r) \/ Maxed(r)
  PROVE  Grows(n)'
<1>. USE HandleKinds
<1>1. \A l : Goto(r, l) => pc'[r] = l
  BY DEF Goto, TypeOK, LabelsOK
<1>2. \E k : At(r, k)
  BY DEF Remove, RecvLen, RecvLimit, Swap, Grow, Maxed
<1>3. \A q \in Receivers : pc[q] \in {"remove", "len", "limit", "maxed", "grow"} => q = r
  BY <1>2, OnlyOneWorks DEF Working
<1>4. Len(queue) \in Nat /\ limit \in Nat /\ queue' = queue
  BY LenProperties DEF Remove, RecvLen, RecvLimit, Swap, Grow, Maxed, memory, TypeOK
<1>5. CASE Remove(r) \/ RecvLen(r)
  <2>1. pc[r] \in {"remove", "len"} /\ pc'[r] \in {"len", "limit"} /\ UNCHANGED <<limit, hasMaxed>>
    BY <1>1, <1>5 DEF Remove, RecvLen, At, memory
  <2>. QED  BY <1>3, <1>4, <2>1 DEF Grows
<1>6. CASE RecvLimit(r)
  <2>1. pc[r] = "limit" /\ seen[r] = Len(queue) /\ UNCHANGED <<limit, hasMaxed>>
    BY <1>6 DEF RecvLimit, At, memory, CallInv, ReceiverSees
  <2>2. CASE limit = n /\ Len(queue) = n - 1
    <3>1. seen[r] # 0 /\ limit = seen[r] + 1
      BY <1>4, <2>1, <2>2
    <3>2. Goto(r, "maxed")
      BY <1>6, <3>1 DEF RecvLimit
    <3>. QED  BY <1>1, <2>1, <2>2, <3>2 DEF Grows
  <2>3. CASE ~ (limit = n /\ Len(queue) = n - 1)
    BY <1>3, <1>4, <2>1, <2>3 DEF Grows
  <2>. QED  BY <2>2, <2>3
<1>7. CASE Swap(r)
  <2>1. pc[r] = "swap" /\ UNCHANGED limit /\ (hasMaxed => pc'[r] = "grow")
    BY <1>1, <1>7 DEF Swap, At
  <2>. QED  BY <1>3, <1>4, <2>1 DEF Grows
<1>8. CASE Grow(r)
  <2>1. limit' = limit + 1 /\ hasMaxed' = hasMaxed
    BY <1>8 DEF Grow
  <2>. QED  BY <1>4, <2>1 DEF Grows
<1>9. CASE Maxed(r)
  <2>1. limit' = limit /\ hasMaxed' = TRUE
    BY <1>9 DEF Maxed
  <2>. QED  BY <1>4, <2>1 DEF Grows
<1>. QED  BY <1>5, <1>6, <1>7, <1>8, <1>9

LEMMA NextGrows ==
  ASSUME TypeOK, CallInv, ~Preemptive, NEW n \in Nat, n >= 2, Grows(n), [Next]_vars
  PROVE  Grows(n)'
<1>. USE HandleKinds
<1>1. ASSUME NEW p \in Handles, Unseen(p) PROVE Grows(n)'
  BY <1>1, UnseenGrows DEF Unseen
<1>2. ASSUME NEW s \in Senders, SenderSeen(s) PROVE Grows(n)'
  <2>1. CASE DropSender(s) \/ \E t \in Senders : CloneSender(s, t)
    BY <2>1, UnseenGrows DEF DropSender, CloneSender, Clone, memory
  <2>. QED  BY <1>2, <2>1, PushGrows DEF SenderSeen
<1>3. ASSUME NEW r \in Receivers, ReceiverSeen(r) PROVE Grows(n)'
  <2>1. CASE CheckSenders(r)
    BY <2>1, UnseenGrows DEF CheckSenders, At, Working, memory
  <2>2. CASE DropReceiver(r)
    <3>1. UNCHANGED <<queue, limit, hasMaxed>> /\ pc[r] \in {"idle", "parked", "ended"}
      BY <2>2 DEF DropReceiver, Drops, At, memory
    <3>2. \A q \in Receivers : pc[q] \in {"remove", "len", "limit", "maxed", "grow"} => pc'[q] = pc[q]
      BY <2>2, <3>1 DEF DropReceiver, Goto, TypeOK, LabelsOK
    <3>. QED  BY <3>1, <3>2 DEF Grows
  <2>3. CASE \E t \in Receivers : CloneReceiver(r, t)
    BY <2>3, UnseenGrows DEF CloneReceiver, Clone, At, Working, memory
  <2>. QED  BY <1>3, <2>1, <2>2, <2>3, PopGrows, RecvGrows DEF ReceiverSeen
<1>4. CASE UNCHANGED vars
  BY <1>4 DEF vars, memory, Grows
<1>. QED
  BY <1>1, <1>2, <1>3, <1>4, SenderStepSeen, ReceiverStepSeen, OnDemandStepSeen DEF Next

\* On one thread a dynamic channel of two items or more that was filled grows
\* whenever it is emptied.  One that starts with a limit of one item does not:
\* the receive that empties it is the one that would put the flag up (Limit,
\* lines 21-23, and recv, lines 127-157).
THEOREM FilledChannelGrows ==
  ASSUME ~Preemptive, StartLimit >= 2
  PROVE  Spec => FilledThenEmptiedGrows
<1>1. ASSUME NEW n \in Limits
      PROVE  Spec => []((Dynamic /\ limit = n /\ Len(queue) >= n)
                         => [](queue = <<>> /\ (\A p \in Handles : pc[p] \in AtRest) => limit > n))
  <2>0. n \in Nat /\ n >= 2
    BY ChannelAssumption DEF Limits
  <2>1. Dynamic /\ limit = n /\ Len(queue) >= n => FilledOnce(n)
    BY DEF FilledOnce, Grows
  <2>2. TypeOK /\ CallInv /\ FilledOnce(n) /\ [Next]_vars => FilledOnce(n)'
    BY <2>0, NextGrows DEF FilledOnce
  <2>3. CallInv /\ FilledOnce(n)
          => (queue = <<>> /\ (\A p \in Handles : pc[p] \in AtRest) => limit > n)
    <3>. SUFFICES ASSUME CallInv, FilledOnce(n), queue = <<>>, \A p \in Handles : pc[p] \in AtRest
                  PROVE  limit > n
      OBVIOUS
    <3>1. Len(queue) = 0
      BY EmptySeq
    <3>2. \A r \in Receivers : pc[r] \notin {"remove", "len", "limit", "maxed", "grow", "swap"}
      BY HandleKinds DEF AtRest
    <3>3. ~ hasMaxed
      BY <3>2 DEF CallInv, FlagTaken, Taking, FilledOnce
    <3>. QED  BY <2>0, <3>1, <3>2, <3>3 DEF Grows, FilledOnce
  <2>. QED  BY <2>1, <2>2, <2>3, TypeCorrect, CallInductive, PTL DEF Spec
<1>. QED  BY <1>1 DEF FilledThenEmptiedGrows
=============================================================================

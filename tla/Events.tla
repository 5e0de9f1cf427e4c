------------------------------- MODULE Events -------------------------------
(***************************************************************************)
(* The event-listener crate (2.5.2) as lib/channel uses it: an Event keeps *)
(* its listeners in the order they were created.  A notified listener      *)
(* stays in the list until it is polled or dropped, and notify(n) only     *)
(* makes sure that at least n listeners are notified: while one is, a      *)
(* further notify(1) does nothing.  The notified listeners are always the  *)
(* oldest ones, so the event is the sequence of listeners that still wait  *)
(* and the set of those that are notified.  A listener is named by the     *)
(* handle (Sender, Receiver, OnDemandReceiver) that owns it.               *)
(***************************************************************************)
EXTENDS Integers, Sequences

NoListeners == [waiting |-> <<>>, notified |-> {}]

IsEvent(e, Owners) ==
  /\ e = [waiting |-> e.waiting, notified |-> e.notified]
  /\ e.waiting \in Seq(Owners)
  /\ e.notified \in SUBSET Owners

Listening(e) == {e.waiting[i] : i \in DOMAIN e.waiting} \cup e.notified

\* Event::listen: the new listener is the youngest and is not notified.
Listen(e, owner) ==
  [waiting |-> Append(e.waiting, owner), notified |-> e.notified]

\* Event::notify(1)
NotifyOne(e) ==
  IF e.notified # {} \/ e.waiting = <<>>
  THEN e
  ELSE [waiting  |-> Tail(e.waiting), notified |-> {Head(e.waiting)}]

\* Event::notify(usize::MAX)
NotifyAll(e) == [waiting |-> <<>>, notified |-> Listening(e)]

\* A poll of a notified listener takes it out of the list.
Consume(e, owner) ==
  [waiting |-> e.waiting, notified |-> e.notified \ {owner}]

\* The waiting listeners without the one of an owner (who has one at most).
Without(waiting, owner) ==
  IF \E i \in DOMAIN waiting : waiting[i] = owner
  THEN LET k == CHOOSE i \in DOMAIN waiting : waiting[i] = owner
       IN  SubSeq(waiting, 1, k - 1) \o SubSeq(waiting, k + 1, Len(waiting))
  ELSE waiting

\* Drop of a listener: a notification it had received and not yet seen is
\* passed on.
Abandon(e, owner) ==
  IF owner \in e.notified
  THEN NotifyOne(Consume(e, owner))
  ELSE [waiting |-> Without(e.waiting, owner), notified |-> e.notified]
=============================================================================

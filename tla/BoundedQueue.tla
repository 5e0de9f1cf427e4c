---------------------------- MODULE BoundedQueue ----------------------------
(***************************************************************************)
(* What a provider channel promises to endpoints that run on one thread    *)
(* and do not force: a first-in, first-out queue that is never filled      *)
(* beyond its limit, a limit that grows by one when the queue is empty, an *)
(* end of the stream that is reported when the queue is empty and nobody   *)
(* can send any more.                                                      *)
(***************************************************************************)
EXTENDS Naturals, Sequences

CONSTANTS Values, Readers, Start, Growing

VARIABLES items, limit, writers, readers, ended

Init ==
  /\ items = <<>> /\ limit = Start
  /\ writers = 1 /\ readers = 1
  /\ ended = {}

Put(v) ==
  /\ writers > 0 /\ Len(items) < limit
  /\ items' = Append(items, v)
  /\ UNCHANGED <<limit, writers, readers, ended>>

Take ==
  /\ readers > 0 /\ items # <<>>
  /\ items' = Tail(items)
  /\ UNCHANGED <<limit, writers, readers, ended>>

Grow ==
  /\ Growing /\ items = <<>>
  /\ limit' = limit + 1
  /\ UNCHANGED <<items, writers, readers, ended>>

End(r) ==
  /\ writers = 0 /\ items = <<>>
  /\ ended' = ended \cup {r}
  /\ UNCHANGED <<items, limit, writers, readers>>

WriterJoins  == writers > 0 /\ writers' = writers + 1 /\ UNCHANGED <<items, limit, readers, ended>>
WriterLeaves == writers > 0 /\ writers' = writers - 1 /\ UNCHANGED <<items, limit, readers, ended>>
ReaderJoins  == readers > 0 /\ readers' = readers + 1 /\ UNCHANGED <<items, limit, writers, ended>>

ReaderLeaves ==
  /\ readers > 0 /\ readers' = readers - 1
  /\ \E r \in Readers : ended' = ended \ {r}
  /\ UNCHANGED <<items, limit, writers>>

Next ==
  \/ \E v \in Values : Put(v)
  \/ Take \/ Grow
  \/ \E r \in Readers : End(r)
  \/ WriterJoins \/ WriterLeaves \/ ReaderJoins \/ ReaderLeaves

Spec == Init /\ [][Next]_<<items, limit, writers, readers, ended>>
=============================================================================

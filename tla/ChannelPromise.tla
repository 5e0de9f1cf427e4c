--------------------------- MODULE ChannelPromise ---------------------------
(***************************************************************************)
(* What a Channel promises to handles that share one thread: it is the     *)
(* bounded queue of BoundedQueue, and the limit of a dynamic channel grows *)
(* whenever it was filled and emptied.                                     *)
(***************************************************************************)
EXTENDS Channel

Promise == INSTANCE BoundedQueue WITH
  items   <- queue,
  writers <- senderCount,
  readers <- receiverCount,
  ended   <- {r \in Receivers : pc[r] = "ended"},
  Readers <- Receivers,
  Start   <- StartLimit,
  Growing <- Dynamic

\* On one thread, and without force_send, the channel is the bounded queue
\* the guide describes a provider buffer as (lib/channel, lines 89-180).
KeepsPromise == Promise!Spec

\* The limits there can be: a limit grows at most once for an item sent.
Limits == StartLimit .. StartLimit + Budget * Cardinality(Senders)

\* A dynamic channel that was filled at a limit has grown beyond it when it
\* is next found empty and at rest (Limit, lines 21-23).
FilledThenEmptiedGrows ==
  \A n \in Limits :
    []((Dynamic /\ limit = n /\ Len(queue) >= n)
         => [](queue = <<>> /\ (\A p \in Handles : pc[p] \in AtRest) => limit > n))
=============================================================================

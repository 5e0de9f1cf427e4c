----------------------------- MODULE MCChannel -----------------------------
(* Instances of Channel for TLC.                                           *)
EXTENDS ChannelPromise, TLC

CONSTANTS v1, v2, v3
MCDigest == [v \in Values |-> IF v = v1 THEN 1 ELSE IF v = v2 THEN 2 ELSE IF v = v3 THEN 3 ELSE 4]

Symmetry == Permutations(Senders \ {FirstSender})
            \cup Permutations(Receivers \ {FirstReceiver})
=============================================================================

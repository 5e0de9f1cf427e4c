----------------------------- MODULE MCLoadPattern -----------------------------
(* Load patterns of up to three pieces for LoadPattern. *)
EXTENDS LoadPattern

Piece(from, to, over) == [from |-> from, to |-> to, over |-> over]
MCPeakLoads == {[n |-> 60, per |-> "minute"], [n |-> 2, per |-> "second"]}
Pieces(froms, tos, overs) == {Piece(f, t, o) : f \in froms, t \in tos, o \in overs}
MCPatterns ==
       {<<>>} \cup {<<a>> : a \in Pieces({None, 10}, {0, 100}, {0, 200, 2000})}
  \cup {<<a, b>> : a \in Pieces({None, 100}, {10, 50}, {1000}), b \in Pieces({None, 0}, {0, 100}, {200, 1000})}
  \cup {<<a, b, c>> : a \in Pieces({None}, {10, 100}, {1000}), b \in Pieces({0, 50}, {0, 50}, {0, 100, 500}), c \in Pieces({None}, {0, 100}, {500})}
===============================================================================

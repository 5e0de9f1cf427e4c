--------------------------- MODULE MCLoadTestConfig ---------------------------
(***************************************************************************)
(* Parsed files for LoadTestConfig: names p and q are response providers,  *)
(* l is a list, v a variable, d a name only declared, u a name nobody      *)
(* defines.                                                                *)
(***************************************************************************)
EXTENDS LoadTestConfig

Provided == [p |-> "response", q |-> "response", l |-> "list"]

Plain == [headers |-> <<>>, url |-> {}, body |-> {}, tags |-> {"v", "response"}, provides |-> <<>>, declare |-> <<>>,
          logs |-> <<>>, peak_load |-> TRUE, load_pattern |-> 0, included |-> TRUE]
Empty == [vars |-> {"v"}, providers |-> Provided, headers |-> <<>>, load_pattern |-> 1,
          endpoints |-> <<Plain>>, loggers |-> <<>>]

To(p, reads, send) == <<[to |-> p, reads |-> reads, send |-> send]>>
Out(to, reads) == <<[to |-> to, reads |-> reads]>>
Declares(name, reads) == <<[name |-> name, reads |-> reads]>>
Global(name, reads) == [name |-> name, select |-> TRUE, reads |-> reads]
ReadsOf(S) == {{}} \cup {{n} : n \in S}

\* What an endpoint's parts read, and what the file defines for all endpoints.
Reads == {[Empty EXCEPT !.endpoints = <<[Plain EXCEPT !.url = url, !.provides = provides, !.declare = declare,
                                                     !.logs = logs, !.headers = own]>>,
                        !.headers = global, !.loggers = outs] :
  url \in ReadsOf({"l", "u", "d"}), provides \in {<<>>, To("u", {}, "none")} \cup {To("p", {n}, "none") : n \in {"q", "d"}},
  declare \in {<<>>, Declares("d", {"p"}), Declares("l", {"v"}), Declares("d", {"response"})},
  logs \in {<<>>, Out("g", {"l"}), Out("g", {"u"})},
  own \in {<<>>, [h |-> [null |-> TRUE, reads |-> {}]], [h |-> [null |-> FALSE, reads |-> {"l"}]]},
  global \in {<<>>, [h |-> {"q"}]},
  outs \in {<<>>, <<Global("g", {"q"})>>, <<[Global("f", {}) EXCEPT !.select = FALSE], Global("g", {"u"})>>}}

\* What paces an endpoint.
Pace == {[Empty EXCEPT !.load_pattern = global,
                       !.endpoints = <<[Plain EXCEPT !.peak_load = peak, !.load_pattern = own, !.body = reads,
                                                    !.provides = provides, !.declare = declare], Plain>>] :
  global \in {0, 1}, own \in {0, 2}, peak \in BOOLEAN, reads \in ReadsOf({"l", "q"}),
  declare \in {<<>>, Declares("q", {"l"}), Declares("d", {"q"})},
  provides \in {<<>>} \cup {To("p", {}, send) : send \in {"none", "block", "force", "if_not_full"}}}

\* Who provides what to whom, and which endpoints the filter of a try run includes.
Shape(included, sends, reads) ==
  [Plain EXCEPT !.included = included, !.url = reads,
                !.provides = IF sends = {} THEN <<>> ELSE To(CHOOSE p \in sends : TRUE, {}, "none")]
Shapes == {Shape(i, s, r) : i \in BOOLEAN, s \in ReadsOf({"p", "q"}), r \in ReadsOf({"p", "q"})}
Trios == {[Empty EXCEPT !.endpoints = <<a, b, c>>] : a \in Shapes, b \in Shapes, c \in Shapes}

MCFiles == Reads \cup Pace \cup Trios
MCSpecials == {"request", "response", "stats", "error", "for_each"}
MCNames == {"p", "q", "l", "v", "d", "u", "f", "g", "try_run"} \cup MCSpecials
MCHeaderNames == {"h"}
===============================================================================

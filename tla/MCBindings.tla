------------------------------ MODULE MCBindings ------------------------------
(* Calls of Python on the instances of MCScan: good ones for every request, and   *)
(* faulty ones, with one fault or two, for a scan of the current directory.       *)
EXTENDS MCScan, Bindings

GoodCall == [function |-> "scan", paths |-> "list", selectors |-> NoSelectors,
             artifact |-> Missing, invalid_utf8 |-> "skip", threads |-> 2]
CountCall == [GoodCall EXCEPT !.function = "count_file", !.paths = "one", !.threads = None]

Encoding(name) == [NoSelectors EXCEPT !.encoding = name]
Artifact == [NoSelectors EXCEPT !.tokenizer_file = "path"]

FaultyCalls ==
  {[GoodCall EXCEPT !.paths = "neither"],
   [GoodCall EXCEPT !.paths = "neither", !.threads = 0],
   [GoodCall EXCEPT !.threads = 0],
   [GoodCall EXCEPT !.threads = 0, !.selectors = Encoding("p50k_base")],
   [GoodCall EXCEPT !.selectors = [Artifact EXCEPT !.encoding = "p50k_base"]],
   [GoodCall EXCEPT !.selectors = [NoSelectors EXCEPT !.model = <<"gpt-", "6">>]],
   [GoodCall EXCEPT !.selectors = Artifact],
   [GoodCall EXCEPT !.selectors = Artifact, !.artifact = Broken, !.invalid_utf8 = "strict"],
   [CountCall EXCEPT !.selectors = Artifact, !.artifact = Broken],
   [CountCall EXCEPT !.invalid_utf8 = "strict"]}

MCCallsFor(req) ==
  {GoodCall}
  \cup (IF Len(req.inputs) = 1 /\ req.options = Plain THEN {CountCall} ELSE {})
  \cup (IF req.inputs = <<<<Here>>>> /\ req.options \in {Plain, [Plain EXCEPT !.includes = {Malformed}]}
        THEN {faulty \in FaultyCalls : faulty.function = "scan" \/ req.options = Plain} ELSE {})
=============================================================================

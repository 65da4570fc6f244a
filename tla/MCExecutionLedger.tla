--------------------------- MODULE MCExecutionLedger ---------------------------
(* Instances of ExecutionLedger for TLC: lines, calls and results that differ *)
(* from plain ones in what a rule looks at.                                   *)
EXTENDS ExecutionLedger

CONSTANTS worker, reviewer, other, key, h1, h2

Decision == [id |-> "d1", sound |-> TRUE, allowed |-> TRUE, run |-> "this",
             permits |-> "test"]
BadDecisions == {[Decision EXCEPT !.allowed = FALSE], [Decision EXCEPT !.run = "other"],
                 [Decision EXCEPT !.permits = "build"], [Decision EXCEPT !.sound = FALSE]}

NoFiles == [x \in {"d1", "d2", "authorization_decision"} |-> None]

Policy == [usable |-> TRUE, key |-> key, reviewer |-> reviewer]
SomePolicies == {Policy, [Policy EXCEPT !.usable = FALSE], [Policy EXCEPT !.key = other]}

Call == [result |-> "this", injected |-> FALSE, key |-> key, reviewer |-> None,
         executor |-> None, candidate |-> h1, decision |-> None, files |-> NoFiles]
GoodCalls == {Call,
              [Call EXCEPT !.reviewer = reviewer, !.executor = worker, !.decision = Decision],
              [Call EXCEPT !.files = [NoFiles EXCEPT !["d1"] = Decision]]}
SomeCalls == GoodCalls \cup
  {[Call EXCEPT !.result = "other"], [Call EXCEPT !.injected = TRUE],
   [Call EXCEPT !.key = other], [Call EXCEPT !.reviewer = other],
   [Call EXCEPT !.reviewer = reviewer, !.executor = reviewer],
   [Call EXCEPT !.executor = other],
   [Call EXCEPT !.files = [NoFiles EXCEPT !["authorization_decision"] =
                                            [Decision EXCEPT !.id = "d2"]]]}

Receipt == [run |-> "this", intact |-> TRUE, producer |-> worker, names |-> "d1",
            does |-> "test", decision |-> Decision]
Run == [kind |-> "EXECUTION_RECEIPT", number |-> 0, own |-> 0, run |-> "this",
        test |-> "pass", head |-> None, receipt |-> Receipt]
Control == [Run EXCEPT !.kind = "CONTROL_EVENT", !.test = "none", !.receipt = None]

Junk == {[Control EXCEPT !.kind = k] : k \in {"blank", "corrupt", "bare"}}

\* What the line counts as.
Numbered == {[l EXCEPT !.number = n, !.own = o] :
               l \in {Run}, n \in 0..3, o \in {0, 1, 3}}
            \cup {[Control EXCEPT !.number = n] : n \in 0..3}

\* What it says of the tests and of the head.
Telling == {[Run EXCEPT !.test = t] : t \in {"fail", "unclear"}}
           \cup {[Control EXCEPT !.test = t] : t \in {"pass", "fail"}}
           \cup {[Control EXCEPT !.head = h] : h \in {h1, h2}}

\* Whether it is authorised, and for this run.
Authorised ==
  {[Run EXCEPT !.receipt.decision = d] : d \in BadDecisions \cup {None}}
  \cup {[Run EXCEPT !.receipt.producer = p] : p \in {reviewer, None}}
  \cup {[Run EXCEPT !.run = "other"], [Run EXCEPT !.receipt.run = "other"],
        [Run EXCEPT !.receipt.intact = FALSE],
        [Run EXCEPT !.receipt.names = "d2"], [Run EXCEPT !.receipt = None]}

SomeLines == Junk \cup Numbered \cup Telling \cup Authorised

\* Control events of another run among the lines.
ForeignLines == {Run, Control, [Control EXCEPT !.run = "other"]}

SomeFields ==
  [candidate : {None, h1, h2},
   status : {"NOT_RUN", "FAIL", "PASS", "PASS_AFTER_RETRY"},
   pytest : {{}, {1}, {2}, {3}, {1, 3}}, others : {{}, {4}}]
=============================================================================

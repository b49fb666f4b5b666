--------------------------- MODULE EvaluatorService ---------------------------
(***************************************************************************)
(* What a PolicyEvaluator promises to its caller, with no guest memory, no *)
(* store and no epoch: it is built once or never; it takes one request at  *)
(* a time and answers each once; a Rego answer is made of the data and the *)
(* input of that request and of nothing that came before; and only a       *)
(* request that has had its time is told that the time is up, after one    *)
(* attempt to put the evaluator right.  An answer may come late.           *)
(***************************************************************************)
EXTENDS Naturals

CONSTANTS Limit,        \* the time of an operation, in ticks
          MaxRequests   \* bound: requests

VARIABLES kind,     \* the runtime of the policy
          stage,    \* "building", "idle", "working", "recovering" or "gone"
          request,  \* the number of the last request
          answer,   \* the answer to it
          clock     \* ticks since the present work or recovery began

vars == <<kind, stage, request, answer, clock>>

Plain(status) == [status |-> status, data |-> 0, input |-> 0]
Own(r) == IF kind = "rego" THEN [status |-> "answered", data |-> r, input |-> r]
                           ELSE Plain("answered")

Init ==
  /\ kind \in {"wapc", "rego", "wasi"}
  /\ stage \in {"building", "idle"}
  /\ request = 0 /\ answer = Plain("none") /\ clock = 0

Move(s) == stage' = s /\ clock' = 0

Built == stage = "building" /\ Move("idle") /\ UNCHANGED <<kind, request, answer>>
Lost == stage = "building" /\ Move("gone") /\ UNCHANGED <<kind, request, answer>>

Ask ==
  /\ stage = "idle" /\ request < MaxRequests
  /\ request' = request + 1
  /\ \/ Move("working") /\ answer' = Plain("none")
     \/ Move("idle") /\ answer' = Plain("refused")
  /\ UNCHANGED kind

Reply ==
  /\ stage = "working"
  /\ Move("idle")
  /\ answer' \in {Own(request), Plain("error")}
  /\ UNCHANGED <<kind, request>>

TimeOut ==
  /\ stage = "working" /\ kind # "wasi" /\ clock = Limit
  /\ Move("recovering")
  /\ answer' = Plain("deadline")
  /\ UNCHANGED <<kind, request>>

\* The recovery succeeds or fails; the caller is told the same.
Recover ==
  /\ stage = "recovering"
  /\ Move("idle")
  /\ UNCHANGED <<kind, request, answer>>

Pass ==
  /\ stage \in {"working", "recovering"} /\ clock < Limit
  /\ clock' = clock + 1
  /\ UNCHANGED <<kind, stage, request, answer>>

Next == Built \/ Lost \/ Ask \/ Reply \/ TimeOut \/ Recover \/ Pass

Spec == Init /\ [][Next]_vars
=============================================================================

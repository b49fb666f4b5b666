------------------------------ MODULE Admission ------------------------------
(***************************************************************************)
(* A request on its way out: a policy or a group of policies answers it,   *)
(* and the handler makes of the answer what the configuration allows.      *)
(*                                                                         *)
(* Sources: policy_evaluator/evaluator.rs (validate),                      *)
(* admission_response_handler.rs and the modules extended here.            *)
(***************************************************************************)
EXTENDS PolicyGroup

VARIABLES
  target,  \* what is evaluated: a policy, by its runtime, or a group
  answer,  \* what PolicyEvaluator::validate returned
  config,  \* the AdmissionResponseHandler
  final    \* what is sent back

vars == <<groupVars, target, answer, config, final>>

TypeOK ==
  /\ GroupTypeOK
  /\ target \in Runtimes \cup {"group"}
  /\ answer \in Response \cup {NoResponse}
  /\ config \in Config
  /\ final \in Response \cup {NoResponse}

Init ==
  /\ GroupInit
  /\ target \in Runtimes \cup {"group"}
  /\ answer = NoResponse
  /\ config \in Config
  /\ final = NoResponse

EvaluateGroup ==
  /\ target = "group"
  /\ GroupNext
  /\ UNCHANGED <<target, answer, config, final>>

EvaluatePolicy ==
  /\ target \in Runtimes
  /\ answer = NoResponse
  /\ answer' \in PolicyResponses(target, hasObject)
  /\ UNCHANGED <<groupVars, target, config, final>>

Answer == IF target = "group" THEN response ELSE answer

Process ==
  /\ Answer # NoResponse
  /\ final = NoResponse
  /\ final' = ProcessResponse(config, Answer)
  /\ UNCHANGED <<groupVars, target, answer, config>>

Next == EvaluateGroup \/ EvaluatePolicy \/ Process

Spec == Init /\ [][Next]_vars

-----------------------------------------------------------------------------
(* Properties.                                                             *)

\* A policy in monitor mode never interferes: whatever it or a group of policies
\* answered, a failure included, the request passes unchanged and unexplained
\* (apply_monitor_mode runs first and nothing after it may undo it).
MonitorNeverInterferes ==
  final # NoResponse /\ config.mode = "monitor" =>
    final.allowed /\ ~ final.patch /\ final.message = "" /\ final.causes = {}

\* A patch leaves only when the policy may mutate, never from a group, and, but
\* for the one an OPA policy writes itself, never for a request without an
\* object; and a policy that tried in vain has its request rejected, where
\* dropping the patch would let it through unpatched.
NoForbiddenPatch ==
  final # NoResponse =>
    /\ final.patch => /\ config.allowedToMutate
                      /\ target = "opa" \/ (target = "kubewarden" /\ hasObject)
    /\ Answer.patch /\ ~ final.patch /\ config.mode = "protect" => ~ final.allowed

\* A custom message replaces the last word of whoever rejected the request, the
\* mutation constraint included, and that word stays among the causes.
CustomMessageWins ==
  final # NoResponse /\ config.custom /\ ~ final.allowed =>
    /\ final.message = "custom"
    /\ \E text \in {Answer.message, "mutation not allowed"} : <<NoField, text>> \in final.causes
    /\ ~ Answer.patch => Answer.causes \subseteq final.causes
=============================================================================

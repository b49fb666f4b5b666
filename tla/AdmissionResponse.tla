-------------------------- MODULE AdmissionResponse --------------------------
(***************************************************************************)
(* Admission responses: how one is made of what a policy answered, and     *)
(* how AdmissionResponseHandler adapts it to the mode of the policy.       *)
(*                                                                         *)
(* A text is one of a few messages; a cause of a status is a pair of the   *)
(* field it names and a message.  The uid, the status code and the audit   *)
(* annotations are passed on untouched and are left out.                   *)
(*                                                                         *)
(* Sources: admission_response.rs, admission_response_handler.rs.          *)
(***************************************************************************)
CONSTANTS
  Members,  \* the names under which policies join a group
  NoField

Messages ==
  { "", "denied by the policy", "denied by the group", "internal error",
    "mutation of a deleted object", "mutation in a group", "mutation not allowed",
    "custom", "advice" }

Response ==
  [allowed : BOOLEAN,
   patch : BOOLEAN,                       \* patch and patch_type
   message : Messages,                    \* status.message, "" for none
   causes : SUBSET ((Members \cup {NoField}) \X Messages),
   warnings : SUBSET Messages]

\* What a waPC or WASI policy can answer; mutation says how its mutated_object
\* relates to the object of the request.
PolicyAnswer ==
  [accepted : BOOLEAN,
   mutation : {"none", "same", "different"},
   message : {"", "denied by the policy"},
   warnings : {{}, {"advice"}}]

Plain(allowed, message) ==
  [allowed |-> allowed, patch |-> FALSE, message |-> message,
   causes |-> {}, warnings |-> {}]

Reject(message) == Plain(FALSE, message)

\* from_policy_validation_response: the object of a DELETE is null.
FromPolicyAnswer(hasObject, answer) ==
  IF answer.mutation # "none" /\ ~ hasObject
  THEN Reject("mutation of a deleted object")
  ELSE [allowed |-> answer.accepted, patch |-> answer.mutation = "different",
        message |-> answer.message, causes |-> {}, warnings |-> answer.warnings]

\* waPC and WASI policies answer alike; so do all the policies that fail.
Runtimes == {"kubewarden", "opa", "gatekeeper", "failing"}

\* An OPA policy writes the AdmissionResponse itself; only its uid is replaced.
OpaResponses ==
  [allowed : BOOLEAN, patch : BOOLEAN, message : {"", "denied by the policy"},
   causes : {{}, {<<NoField, "denied by the policy">>}}, warnings : {{}, {"advice"}}]

\* A Gatekeeper policy reports violations, with or without a text; no violation,
\* or an answer that cannot be read, lets the request pass.
GatekeeperResponses == { Plain(TRUE, ""), Reject(""), Reject("denied by the policy") }

\* What PolicyEvaluator::validate returns for a request; a guest that fails, or
\* that is interrupted, gives a rejection.
PolicyResponses(runtime, hasObject) ==
  CASE runtime = "kubewarden" ->
         { FromPolicyAnswer(hasObject, answer) : answer \in PolicyAnswer }
    [] runtime = "opa" -> OpaResponses
    [] runtime = "gatekeeper" -> GatekeeperResponses
    [] runtime = "failing" -> { Reject("internal error") }

-----------------------------------------------------------------------------
(* AdmissionResponseHandler.  config.custom: a custom rejection message.   *)

Config == [mode : {"monitor", "protect"}, allowedToMutate : BOOLEAN, custom : BOOLEAN]

\* A slip: the status of the policy's decision is left in.
MonitorModeKeepingStatus(config, response) ==
  IF config.mode = "monitor"
  THEN [response EXCEPT !.allowed = TRUE, !.patch = FALSE]
  ELSE response

\* apply_monitor_mode
MonitorMode(config, response) ==
  IF config.mode = "monitor"
  THEN [response EXCEPT !.allowed = TRUE, !.patch = FALSE, !.message = "", !.causes = {}]
  ELSE response

\* A slip: only a rejection without its patch is sent on.
MutationConstraintKeepingPatch(config, response) ==
  IF config.mode = "protect" /\ ~ config.allowedToMutate /\ response.patch
  THEN [response EXCEPT !.allowed = FALSE, !.message = "mutation not allowed", !.causes = {}]
  ELSE response

\* apply_mutation_constraint
MutationConstraint(config, response) ==
  IF config.mode = "protect" /\ ~ config.allowedToMutate /\ response.patch
  THEN [response EXCEPT !.allowed = FALSE, !.patch = FALSE,
                        !.message = "mutation not allowed", !.causes = {}]
  ELSE response

\* apply_custom_rejection_message
CustomRejectionMessage(config, response) ==
  IF ~ response.allowed /\ config.custom
  THEN [response EXCEPT !.message = "custom",
                        !.causes = @ \cup {<<NoField, response.message>>}]
  ELSE response

\* A slip: the custom message comes before the mutation constraint.
ProcessResponseCustomFirst(config, response) ==
  MutationConstraint(config, CustomRejectionMessage(config, MonitorMode(config, response)))

\* process_response
ProcessResponse(config, response) ==
  CustomRejectionMessage(config, MutationConstraint(config, MonitorMode(config, response)))
=============================================================================

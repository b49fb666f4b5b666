----------------------------- MODULE PolicyGroup -----------------------------
(***************************************************************************)
(* A group of policies decides with an expression over its members.  The   *)
(* rhai engine calls a member when the evaluation reaches its name, and    *)
(* skips what && and || do not need; the verdicts of the members called    *)
(* are kept to explain a rejection.                                        *)
(*                                                                         *)
(* An expression is the decision list that left-to-right evaluation makes  *)
(* of it: node n calls a member, or a name nobody registered, and goes on  *)
(* at a later node or ends.  `a() && b()` is                               *)
(*   <<Node(a, 2, Deny), Node(b, Allow, Deny)>>.                           *)
(*                                                                         *)
(* Sources: policy_group_evaluator.rs, policy_group_evaluator/evaluator.rs *)
(***************************************************************************)
EXTENDS AdmissionResponse, Integers, Sequences

CONSTANTS
  Names,        \* names an expression can call; those outside Members are unknown
  Expressions,
  NoVerdict, NoResponse

Allow == -1
Deny == 0

Node(name, yes, no) == [call |-> name, yes |-> yes, no |-> no]

ASSUME ExpressionsAssumption ==
  \A e \in Expressions :
    /\ e \in Seq([call : Names, yes : Int, no : Int]) /\ e # <<>>
    /\ \A n \in 1..Len(e) :
         {e[n].yes, e[n].no} \subseteq {Allow, Deny} \cup (n + 1)..Len(e)
ASSUME MembersAssumption == Members \subseteq Names

Verdict == [allowed : BOOLEAN, message : Messages]

ASSUME NothingAssumption == NoVerdict \notin Verdict /\ NoResponse \notin Response

VARIABLES
  expression,
  hasObject,  \* whether the request has an object
  members,    \* policy_members
  settings,   \* policy_members_settings: whether the member accepts its own
  validated,  \* what validate_settings last said
  node,       \* where the evaluation is
  results,    \* policies_evaluation_results
  failed,     \* whether a member could not be rehydrated
  response    \* what validate returned

groupVars ==
  <<expression, hasObject, members, settings, validated, node, results, failed, response>>

GroupTypeOK ==
  /\ expression \in Expressions
  /\ hasObject \in BOOLEAN
  /\ members \subseteq Members
  /\ settings \in [Members -> {"valid", "invalid"}]
  /\ validated \in {"never", "valid", "invalid"}
  /\ node \in {Allow, Deny} \cup 1..Len(expression)
  /\ results \in [Members -> Verdict \cup {NoVerdict}]
  /\ failed \in BOOLEAN
  /\ response \in Response \cup {NoResponse}

GroupInit ==
  /\ expression \in Expressions
  /\ hasObject \in BOOLEAN
  /\ members = {}
  /\ settings = [m \in Members |-> "valid"]
  /\ validated = "never"
  /\ node = 1
  /\ results = [m \in Members |-> NoVerdict]
  /\ failed = FALSE
  /\ response = NoResponse

-----------------------------------------------------------------------------
\* The group is put together before it is shared in an Arc.
Building == node = 1 /\ response = NoResponse /\ \A m \in Members : results[m] = NoVerdict

\* add_policy_member; a second policy of that name replaces the first.
AddPolicyMember(m) ==
  /\ Building
  /\ members' = members \cup {m}
  /\ \E s \in {"valid", "invalid"} : settings' = [settings EXCEPT ![m] = s]
  /\ UNCHANGED <<expression, hasObject, validated, node, results, failed, response>>

\* A slip: the expression is compiled and not run.
RunsWithAllTrueCompiled(e, known) == e[1].call \in known

\* The expression runs to its end when every member answers true.
RunsWithAllTrue(e, known) ==
  LET runs[n \in 1..Len(e)] ==
        e[n].call \in known /\ (e[n].yes \in 1..Len(e) => runs[e[n].yes])
  IN  runs[1]

\* validate_settings
ValidateSettings ==
  /\ Building
  /\ validated' = IF /\ \A m \in members : settings[m] = "valid"
                     /\ RunsWithAllTrue(expression, members)
                  THEN "valid" ELSE "invalid"
  /\ UNCHANGED <<expression, hasObject, members, settings, node, results, failed, response>>

-----------------------------------------------------------------------------
(* validate.                                                               *)

Running == response = NoResponse /\ node \in 1..Len(expression)

\* A slip: a patch is noted in the verdict but the answer is the policy's own.
CallMemberCountingMutation(r) ==
  LET m == expression[node].call
      verdict == IF r.patch THEN [allowed |-> FALSE, message |-> "mutation in a group"]
                            ELSE [allowed |-> r.allowed, message |-> r.message]
  IN  /\ Running
      /\ m \in members
      /\ results' = [results EXCEPT ![m] = verdict]
      /\ node' = IF r.allowed THEN expression[node].yes ELSE expression[node].no
      /\ UNCHANGED <<expression, hasObject, members, settings, validated, failed, response>>

\* A slip: a member keeps its first verdict.
CallMemberKeepingFirst(r) ==
  LET m == expression[node].call
      verdict == IF r.patch THEN [allowed |-> FALSE, message |-> "mutation in a group"]
                            ELSE [allowed |-> r.allowed, message |-> r.message]
  IN  /\ Running
      /\ m \in members
      /\ results' = [results EXCEPT ![m] = IF @ = NoVerdict THEN verdict ELSE @]
      /\ node' = IF verdict.allowed THEN expression[node].yes ELSE expression[node].no
      /\ UNCHANGED <<expression, hasObject, members, settings, validated, failed, response>>

\* The engine calls the member of the node, which answers r.  A context-aware
\* member may answer differently when it is called again.
CallMember(r) ==
  LET m == expression[node].call
      verdict == IF r.patch THEN [allowed |-> FALSE, message |-> "mutation in a group"]
                            ELSE [allowed |-> r.allowed, message |-> r.message]
  IN  /\ Running
      /\ m \in members
      /\ results' = [results EXCEPT ![m] = verdict]
      /\ node' = IF verdict.allowed THEN expression[node].yes ELSE expression[node].no
      /\ UNCHANGED <<expression, hasObject, members, settings, validated, failed, response>>

\* A slip: a member that cannot run is taken for one that denies.
RehydrateFailsDenying ==
  /\ Running
  /\ expression[node].call \in members
  /\ failed' = TRUE
  /\ node' = expression[node].no
  /\ UNCHANGED <<expression, hasObject, members, settings, validated, results, response>>

\* The member cannot be rehydrated: the error ends the evaluation.
RehydrateFails ==
  /\ Running
  /\ expression[node].call \in members
  /\ failed' = TRUE
  /\ response' = Reject("internal error")
  /\ UNCHANGED <<expression, hasObject, members, settings, validated, node, results>>

\* So does the call of a name that was not registered.
UnknownFunction ==
  /\ Running
  /\ expression[node].call \notin members
  /\ response' = Reject("internal error")
  /\ UNCHANGED <<expression, hasObject, members, settings, validated, node, results, failed>>

\* The causes of a rejection: the members called whose verdict is a denial.
Causes ==
  { <<m, results[m].message>> :
      m \in { m \in members : results[m] # NoVerdict /\ ~ results[m].allowed } }

\* The expression has a value.
Conclude ==
  /\ response = NoResponse
  /\ node \in {Allow, Deny}
  /\ response' = IF node = Allow
                 THEN Plain(TRUE, "")
                 ELSE [Reject("denied by the group") EXCEPT !.causes = Causes]
  /\ UNCHANGED <<expression, hasObject, members, settings, validated, node, results, failed>>

GroupNext ==
  \/ \E m \in Members : AddPolicyMember(m)
  \/ ValidateSettings
  \/ \E runtime \in Runtimes : \E r \in PolicyResponses(runtime, hasObject) : CallMember(r)
  \/ RehydrateFails \/ UnknownFunction \/ Conclude

-----------------------------------------------------------------------------
(* Properties.                                                             *)

\* The expression came to an end.
Concluded == response # NoResponse /\ node \in {Allow, Deny}

\* A group never lets a request pass when a member could not be run or does not
\* exist, whatever the expression makes of the others (the `?` in the closure of
\* validate makes the engine stop, where a trap in a guest merely denies).
FailsClosed ==
  response # NoResponse /\ (failed \/ ~ Concluded) => ~ response.allowed

\* What the expression says when the members of S answer true.
Holds(e, S) ==
  LET holds[n \in 1..Len(e)] ==
        LET next == IF e[n].call \in S THEN e[n].yes ELSE e[n].no
        IN  IF next \in 1..Len(e) THEN holds[next] ELSE next = Allow
  IN  holds[1]

CallsOnce(e) == \A i, j \in 1..Len(e) : e[i].call = e[j].call => i = j

\* The decision and the results it is explained with agree, although they are
\* computed apart (the value a closure returns, the map it fills) and calls are
\* skipped: a member that tried to mutate counts as a denial in both.
DecisionMatchesResults ==
  Concluded /\ CallsOnce(expression) =>
    (response.allowed <=>
       Holds(expression, { m \in members : results[m] # NoVerdict /\ results[m].allowed }))

\* Nothing in the expression is negated: a true answer never ends in a denial.
Positive(e) == \A n \in 1..Len(e) : e[n].yes # Deny

\* A group without negation names at least one member that denied, even when a
\* member is called twice and changes its mind (the map keeps the last verdict).
RejectionHasACause ==
  Concluded /\ Positive(expression) /\ ~ response.allowed => response.causes # {}

\* The nodes on the way of the answer true are all there are.
Straight(e) == \A n \in 1..Len(e) : e[n].yes = IF n = Len(e) THEN Allow ELSE n + 1

\* For a conjunction a successful validate_settings is conclusive: validate never
\* meets a name nobody registered.
ValidatedConjunctionRuns ==
  validated = "valid" /\ Straight(expression) /\ response # NoResponse =>
    failed \/ Concluded

\* "Ensure the policy group is properly configured. This will make sure: the
\* expression is valid" (doc comment of PolicyGroupEvaluator).
ValidatedExpressionRuns ==
  validated = "valid" /\ response # NoResponse => failed \/ Concluded
=============================================================================

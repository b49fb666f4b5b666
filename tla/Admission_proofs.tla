--------------------------- MODULE Admission_proofs ---------------------------
(***************************************************************************)
(* What holds of every policy, every group and every configuration.  The   *)
(* inductive invariant says what the properties need to know of the past:  *)
(* a member that failed left a rejection behind, a group that came to the  *)
(* end "denied" was sent there by a denial it still remembers, a group     *)
(* never carries a patch, and the response sent back is the processed      *)
(* answer.                                                                 *)
(***************************************************************************)
EXTENDS Admission, FiniteSetTheorems, TLAPS

FailedInv ==
  /\ failed => response # NoResponse
  /\ FailsClosed

\* Some member the evaluation called has a denial as its verdict.
SomeDenial ==
  \E m \in members : results[m] # NoVerdict /\ ~ results[m].allowed

CauseInv ==
  /\ node = Deny /\ Positive(expression) => SomeDenial
  /\ RejectionHasACause

PatchInv ==
  /\ response # NoResponse => ~ response.patch
  /\ answer # NoResponse /\ answer.patch =>
       target = "opa" \/ (target = "kubewarden" /\ hasObject)

FinalInv ==
  final # NoResponse =>
    Answer # NoResponse /\ final = ProcessResponse(config, Answer)

IInv == TypeOK /\ FailedInv /\ CauseInv /\ PatchInv /\ FinalInv

-----------------------------------------------------------------------------
(* Facts about responses.                                                  *)

\* A response that carries only a decision and a text.
LEMMA PlainType ==
  ASSUME NEW allowed \in BOOLEAN, NEW message \in Messages
  PROVE  LET r == Plain(allowed, message)
         IN  /\ r \in Response /\ r # NoResponse
             /\ r.allowed = allowed /\ ~ r.patch
<1> DEFINE r == Plain(allowed, message)
<1>1. r \in Response
  BY DEF Plain, Response
<1>2. r # NoResponse
  BY <1>1, NothingAssumption
<1>3. r.allowed = allowed /\ ~ r.patch
  BY DEF Plain
<1> QED
  BY <1>1, <1>2, <1>3

\* Whatever a policy answered is a response, and only an OPA policy answers a
\* request without an object with a patch (from_policy_validation_response).
LEMMA PolicyResponsesType ==
  ASSUME NEW object \in BOOLEAN, NEW runtime \in Runtimes,
         NEW r \in PolicyResponses(runtime, object)
  PROVE  r \in Response /\ (r.patch => runtime = "opa" \/ (runtime = "kubewarden" /\ object))
<1>1. CASE runtime = "failing" \/ runtime = "gatekeeper"
  <2>1. r \in { Plain(TRUE, ""), Reject(""), Reject("denied by the policy"),
                Reject("internal error") }
    BY <1>1 DEF PolicyResponses, GatekeeperResponses
  <2> QED
    BY <2>1, PlainType DEF Reject, Messages
<1>2. CASE runtime = "kubewarden"
  <2>1. PICK answered \in PolicyAnswer : r = FromPolicyAnswer(object, answered)
    BY <1>2 DEF PolicyResponses
  <2> QED
    BY <1>2, <2>1 DEF FromPolicyAnswer, PolicyAnswer, Reject, Plain, Response, Messages
<1>3. CASE runtime = "opa"
  <2>1. r \in OpaResponses
    BY <1>3 DEF PolicyResponses
  <2>2. /\ r.causes \in SUBSET ((Members \cup {NoField}) \X Messages)
        /\ r.warnings \in SUBSET Messages
        /\ r.message \in Messages
    <3>1. /\ r.causes \in {{}, {<<NoField, "denied by the policy">>}}
          /\ r.warnings \in {{}, {"advice"}}
          /\ r.message \in {"", "denied by the policy"}
      BY <2>1 DEF OpaResponses
    <3>2. {"", "denied by the policy", "advice"} \subseteq Messages
      BY DEF Messages
    <3>3. <<NoField, "denied by the policy">> \in (Members \cup {NoField}) \X Messages
      BY <3>2
    <3> QED
      BY <3>1, <3>2, <3>3
  <2>3. r = [allowed |-> r.allowed, patch |-> r.patch, message |-> r.message,
             causes |-> r.causes, warnings |-> r.warnings]
        /\ r.allowed \in BOOLEAN /\ r.patch \in BOOLEAN
    BY <2>1 DEF OpaResponses
  <2> QED
    BY <1>3, <2>2, <2>3 DEF Response
<1> QED
  BY <1>1, <1>2, <1>3 DEF Runtimes

\* No node of an expression is one of its ends.
LEMMA EndsAreNoNodes ==
  ASSUME NEW length \in Nat, NEW n \in 1..length
  PROVE  Allow # Deny /\ n # Allow /\ n # Deny
BY DEF Allow, Deny

\* The three steps of the handler turn a response into a response.
LEMMA ProcessResponseType ==
  ASSUME NEW c \in Config, NEW r \in Response
  PROVE  ProcessResponse(c, r) \in Response
<1>1. ASSUME NEW x \in Response PROVE MonitorMode(c, x) \in Response
  BY DEF MonitorMode, Response, Messages
<1>2. ASSUME NEW x \in Response PROVE MutationConstraint(c, x) \in Response
  BY DEF MutationConstraint, Response, Messages
<1>3. ASSUME NEW x \in Response PROVE CustomRejectionMessage(c, x) \in Response
  <2>1. x.causes \cup {<<NoField, x.message>>}
          \in SUBSET ((Members \cup {NoField}) \X Messages)
    BY DEF Response
  <2> QED
    BY <2>1 DEF CustomRejectionMessage, Response, Messages
<1> QED
  BY <1>1, <1>2, <1>3 DEF ProcessResponse

\* In monitor mode the handler's result says nothing of the decision
\* (apply_monitor_mode, and no later step undoes it).
LEMMA Monitored ==
  ASSUME NEW c \in Config, c.mode = "monitor", NEW r \in Response
  PROVE  LET f == ProcessResponse(c, r)
         IN  f.allowed /\ ~ f.patch /\ f.message = "" /\ f.causes = {}
BY DEF ProcessResponse, MonitorMode, MutationConstraint, CustomRejectionMessage,
       Config, Response

\* A patch survives only where mutation is allowed, and is never dropped from a
\* request that goes through (apply_mutation_constraint).
LEMMA Constrained ==
  ASSUME NEW c \in Config, NEW r \in Response
  PROVE  LET f == ProcessResponse(c, r)
         IN  /\ f.patch => c.allowedToMutate /\ r.patch
             /\ r.patch /\ ~ f.patch /\ c.mode = "protect" => ~ f.allowed
BY DEF ProcessResponse, MonitorMode, MutationConstraint, CustomRejectionMessage,
       Config, Response

\* A custom message is the message of every rejection, and what it replaced is
\* among the causes (apply_custom_rejection_message, the last step).
LEMMA Customised ==
  ASSUME NEW c \in Config, c.custom, NEW r \in Response,
         ~ ProcessResponse(c, r).allowed
  PROVE  LET f == ProcessResponse(c, r)
         IN  /\ f.message = "custom"
             /\ \E text \in {r.message, "mutation not allowed"} :
                  <<NoField, text>> \in f.causes
             /\ ~ r.patch => r.causes \subseteq f.causes
BY DEF ProcessResponse, MonitorMode, MutationConstraint, CustomRejectionMessage,
       Config, Response

-----------------------------------------------------------------------------
\* A group that has just been built, and no response yet.
LEMMA InitInvariant == Init => IInv
<1> SUFFICES ASSUME Init PROVE IInv
  OBVIOUS
<1> USE DEF Init, GroupInit
<1>1. 1 \in 1..Len(expression)
  BY ExpressionsAssumption
<1>2. TypeOK
  BY <1>1 DEF TypeOK, GroupTypeOK
<1>3. FailedInv /\ CauseInv /\ PatchInv /\ FinalInv
  BY DEF FailedInv, FailsClosed, CauseInv, RejectionHasACause, Concluded, PatchInv,
         FinalInv, Deny
<1> QED
  BY <1>2, <1>3 DEF IInv

\* The causes of a rejection name members, and there is one for each denial.
LEMMA CausesType ==
  ASSUME TypeOK
  PROVE  /\ Causes \in SUBSET ((Members \cup {NoField}) \X Messages)
         /\ SomeDenial => Causes # {}
<1>1. ASSUME NEW m \in members, results[m] # NoVerdict
      PROVE  <<m, results[m].message>> \in (Members \cup {NoField}) \X Messages
  BY <1>1 DEF TypeOK, GroupTypeOK, Verdict
<1> QED
  BY <1>1 DEF Causes, SomeDenial

-----------------------------------------------------------------------------
\* What the call of a member does to the group.
LEMMA CallMemberStep ==
  ASSUME IInv, NEW runtime \in Runtimes,
         NEW r \in PolicyResponses(runtime, hasObject), CallMember(r)
  PROVE  /\ GroupTypeOK'
         /\ (node = Deny /\ Positive(expression) => SomeDenial)'
<1> DEFINE m == expression[node].call
<1> DEFINE verdict == IF r.patch THEN [allowed |-> FALSE, message |-> "mutation in a group"]
                                 ELSE [allowed |-> r.allowed, message |-> r.message]
<1>1. /\ node \in 1..Len(expression) /\ m \in members
      /\ results' = [results EXCEPT ![m] = verdict]
      /\ node' = IF verdict.allowed THEN expression[node].yes ELSE expression[node].no
      /\ UNCHANGED <<expression, hasObject, members, settings, validated, failed, response>>
  BY DEF CallMember, Running
<1>2. verdict \in Verdict
  <2>1. r \in Response
    BY PolicyResponsesType DEF IInv, TypeOK, GroupTypeOK
  <2> QED
    BY <2>1 DEF Verdict, Response, Messages
<1>3. /\ expression \in Expressions
      /\ results \in [Members -> Verdict \cup {NoVerdict}]
      /\ members \subseteq Members
  BY DEF IInv, TypeOK, GroupTypeOK
<1> HIDE DEF verdict, m
<1>4. /\ results' \in [Members -> Verdict \cup {NoVerdict}]
      /\ results'[m] = verdict
  BY <1>1, <1>2, <1>3
<1>5. node' \in {Allow, Deny} \cup 1..Len(expression')
  <2>1. {expression[node].yes, expression[node].no}
          \subseteq {Allow, Deny} \cup (node + 1)..Len(expression)
    BY <1>1, <1>3, ExpressionsAssumption
  <2>2. Len(expression) \in Nat
    BY <1>3, ExpressionsAssumption
  <2> QED
    BY <2>1, <2>2, <1>1
<1>6. GroupTypeOK'
  BY <1>1, <1>4, <1>5 DEF IInv, TypeOK, GroupTypeOK
<1>7. ASSUME node' = Deny, Positive(expression)'
      PROVE  SomeDenial'
  <2>1. expression[node].yes # Deny
    BY <1>1, <1>7 DEF Positive
  <2>2. ~ verdict.allowed
    BY <2>1, <1>1, <1>7
  <2>3. results'[m] # NoVerdict
    BY <1>2, <1>4, NothingAssumption
  <2> QED
    BY <2>2, <2>3, <1>1, <1>4 DEF SomeDenial
<1> QED
  BY <1>6, <1>7

-----------------------------------------------------------------------------
\* The steps of a group under evaluation keep the invariant.
LEMMA GroupStepInvariant ==
  ASSUME IInv, EvaluateGroup
  PROVE  TypeOK' /\ FailedInv' /\ CauseInv' /\ PatchInv' /\ FinalInv'
<1>0. /\ GroupNext /\ target = "group"
      /\ UNCHANGED <<target, answer, config, final>>
      /\ TypeOK /\ FailedInv /\ CauseInv /\ PatchInv /\ FinalInv
  BY DEF EvaluateGroup, IInv
<1> USE DEF TypeOK, FailedInv, FailsClosed, CauseInv, RejectionHasACause, PatchInv,
            FinalInv, Concluded, Answer
<1>1. ASSUME NEW m \in Members, AddPolicyMember(m)
      PROVE  TypeOK' /\ FailedInv' /\ CauseInv' /\ PatchInv' /\ FinalInv'
  <2>1. /\ node = 1 /\ response = NoResponse
        /\ UNCHANGED <<expression, hasObject, validated, node, results, failed, response>>
    BY <1>1 DEF AddPolicyMember, Building
  <2>2. TypeOK'
    BY <1>0, <1>1, <2>1 DEF AddPolicyMember, GroupTypeOK
  <2> QED
    BY <1>0, <2>1, <2>2 DEF Deny
<1>2. CASE ValidateSettings
  <2>1. /\ validated' \in {"valid", "invalid"}
        /\ UNCHANGED <<expression, hasObject, members, settings, node, results, failed, response>>
    BY <1>2 DEF ValidateSettings
  <2> QED
    BY <1>0, <2>1 DEF GroupTypeOK, SomeDenial, Positive
<1>3. ASSUME NEW runtime \in Runtimes,
             NEW r \in PolicyResponses(runtime, hasObject), CallMember(r)
      PROVE  TypeOK' /\ FailedInv' /\ CauseInv' /\ PatchInv' /\ FinalInv'
  <2>1. response = NoResponse /\ UNCHANGED <<hasObject, failed, response>>
    BY <1>3 DEF CallMember, Running
  <2>2. GroupTypeOK' /\ (node = Deny /\ Positive(expression) => SomeDenial)'
    BY <1>3, CallMemberStep
  <2> QED
    BY <1>0, <2>1, <2>2
<1>4. CASE RehydrateFails \/ UnknownFunction
  <2>1. /\ response = NoResponse /\ node \in 1..Len(expression)
        /\ response' = Reject("internal error") /\ failed' \in BOOLEAN
        /\ UNCHANGED <<expression, hasObject, members, settings, validated, node, results>>
    BY <1>0, <1>4 DEF RehydrateFails, UnknownFunction, Running, GroupTypeOK
  <2>2. /\ response' \in Response /\ ~ response'.allowed /\ ~ response'.patch
        /\ response' # NoResponse
    BY <2>1, PlainType DEF Reject, Messages
  <2>3. node \notin {Allow, Deny}
    <3>1. Len(expression) \in Nat
      BY <1>0, ExpressionsAssumption DEF GroupTypeOK
    <3> QED
      BY <2>1, <3>1, EndsAreNoNodes
  <2> QED
    BY <1>0, <2>1, <2>2, <2>3 DEF GroupTypeOK, SomeDenial, Positive
<1>5. CASE Conclude
  <2>1. /\ response = NoResponse /\ node \in {Allow, Deny}
        /\ response' = IF node = Allow
                       THEN Plain(TRUE, "")
                       ELSE [Reject("denied by the group") EXCEPT !.causes = Causes]
        /\ UNCHANGED <<expression, hasObject, members, settings, validated, node, results, failed>>
    BY <1>5 DEF Conclude
  <2>2. CASE node = Allow
    <3>1. /\ response' \in Response /\ response'.allowed /\ ~ response'.patch
          /\ response' # NoResponse
      BY <2>1, <2>2, PlainType DEF Messages
    <3> QED
      BY <1>0, <2>1, <2>2, <3>1 DEF GroupTypeOK, SomeDenial, Positive
  <2>3. CASE node = Deny
    <3>0. Allow # Deny
      BY DEF Allow, Deny
    <3>1. response' = [Reject("denied by the group") EXCEPT !.causes = Causes]
      BY <2>1, <2>3, <3>0
    <3>2. /\ response' \in Response /\ ~ response'.allowed /\ ~ response'.patch
          /\ response'.causes = Causes
      BY <1>0, <3>1, CausesType DEF Reject, Plain, Response, Messages
    <3>4. response' # NoResponse
      BY <3>2, NothingAssumption
    <3>3. Positive(expression) => Causes # {}
      BY <1>0, <2>3, CausesType
    <3> QED
      BY <1>0, <2>1, <3>2, <3>3, <3>4 DEF GroupTypeOK, SomeDenial, Positive
  <2> QED
    BY <2>1, <2>2, <2>3
<1> QED
  BY <1>0, <1>1, <1>2, <1>3, <1>4, <1>5 DEF GroupNext

\* Every step keeps the invariant.
LEMMA StepInvariant == IInv /\ [Next]_vars => IInv'
<1> SUFFICES ASSUME IInv, [Next]_vars PROVE IInv'
  OBVIOUS
<1>1. CASE EvaluateGroup
  BY <1>1, GroupStepInvariant DEF IInv
<1>2. CASE EvaluatePolicy
  <2>1. /\ answer = NoResponse /\ answer' \in PolicyResponses(target, hasObject)
        /\ target \in Runtimes /\ UNCHANGED <<groupVars, target, config, final>>
    BY <1>2 DEF EvaluatePolicy
  <2>2. /\ answer' \in Response
        /\ answer'.patch => target = "opa" \/ (target = "kubewarden" /\ hasObject)
    BY <2>1, PolicyResponsesType DEF IInv, TypeOK, GroupTypeOK
  <2> QED
    BY <2>1, <2>2 DEF IInv, TypeOK, GroupTypeOK, FailedInv, FailsClosed, CauseInv,
      RejectionHasACause, PatchInv, FinalInv, Concluded, Answer, SomeDenial, Positive,
      groupVars
<1>3. CASE Process
  <2>1. /\ Answer # NoResponse /\ final' = ProcessResponse(config, Answer)
        /\ UNCHANGED <<groupVars, target, answer, config>>
    BY <1>3 DEF Process
  <2>2. Answer \in Response
    BY <2>1 DEF IInv, TypeOK, GroupTypeOK, Answer
  <2>3. final' \in Response
    BY <2>1, <2>2, ProcessResponseType DEF IInv, TypeOK
  <2>4. Answer' = Answer /\ config' = config
    BY <2>1 DEF Answer, groupVars
  <2>5. FinalInv'
    BY <2>1, <2>4 DEF FinalInv
  <2>6. TypeOK'
    BY <2>1, <2>3 DEF IInv, TypeOK, GroupTypeOK, groupVars
  <2> QED
    BY <2>1, <2>5, <2>6 DEF IInv, FailedInv, FailsClosed, CauseInv,
      RejectionHasACause, PatchInv, Concluded, SomeDenial, Positive, groupVars
<1>4. CASE UNCHANGED vars
  BY <1>4 DEF IInv, TypeOK, GroupTypeOK, FailedInv, FailsClosed, CauseInv,
    RejectionHasACause, PatchInv, FinalInv, Concluded, Answer, SomeDenial, Positive,
    vars, groupVars
<1> QED
  BY <1>1, <1>2, <1>3, <1>4 DEF Next

\* The invariant holds for every group, expression and configuration.
THEOREM Invariance == Spec => []IInv
BY InitInvariant, StepInvariant, PTL DEF Spec

-----------------------------------------------------------------------------
\* The variables have their types: the handler's three steps and the group make
\* responses, whatever the policies answer.
THEOREM TypeCorrect == Spec => []TypeOK
<1>1. IInv => TypeOK
  BY DEF IInv
<1> QED
  BY <1>1, Invariance, PTL

\* A group with a member that cannot be run, or with a name nobody registered,
\* never lets a request pass (the closures of validate end the evaluation).
THEOREM Closed == Spec => []FailsClosed
<1>1. IInv => FailsClosed
  BY DEF IInv, FailedInv
<1> QED
  BY <1>1, Invariance, PTL

\* Every rejection by a group without negation names a member that denied, for
\* every expression, members called again included.
THEOREM Explained == Spec => []RejectionHasACause
<1>1. IInv => RejectionHasACause
  BY DEF IInv, CauseInv
<1> QED
  BY <1>1, Invariance, PTL

\* A response that was sent was made of a response.
LEMMA FinalOfAnswer ==
  IInv /\ final # NoResponse =>
    /\ config \in Config /\ Answer \in Response
    /\ final = ProcessResponse(config, Answer)
BY DEF IInv, FinalInv, TypeOK, GroupTypeOK, Answer

\* A policy in monitor mode never interferes (apply_monitor_mode).
THEOREM Monitor == Spec => []MonitorNeverInterferes
<1>1. IInv => MonitorNeverInterferes
  BY FinalOfAnswer, Monitored DEF MonitorNeverInterferes
<1> QED
  BY <1>1, Invariance, PTL

\* No patch leaves that may not, and none is dropped silently
\* (apply_mutation_constraint, the group's verdict on mutation).
THEOREM Patch == Spec => []NoForbiddenPatch
<1>1. IInv => NoForbiddenPatch
  <2> SUFFICES ASSUME IInv, final # NoResponse
               PROVE  /\ final.patch =>
                           /\ config.allowedToMutate
                           /\ target = "opa" \/ (target = "kubewarden" /\ hasObject)
                      /\ Answer.patch /\ ~ final.patch /\ config.mode = "protect" => ~ final.allowed
    BY DEF NoForbiddenPatch
  <2>1. /\ config \in Config /\ Answer \in Response /\ Answer # NoResponse
        /\ final = ProcessResponse(config, Answer)
    BY FinalOfAnswer DEF IInv, FinalInv
  <2>2. Answer.patch => target = "opa" \/ (target = "kubewarden" /\ hasObject)
    BY <2>1 DEF IInv, PatchInv, TypeOK, Answer
  <2> QED
    BY <2>1, <2>2, Constrained
<1> QED
  BY <1>1, Invariance, PTL

\* The custom message has the last word and keeps the word it replaces
\* (apply_custom_rejection_message comes last).
THEOREM Custom == Spec => []CustomMessageWins
<1>1. IInv => CustomMessageWins
  <2> SUFFICES ASSUME IInv, final # NoResponse, config.custom, ~ final.allowed
               PROVE  /\ final.message = "custom"
                      /\ \E text \in {Answer.message, "mutation not allowed"} :
                           <<NoField, text>> \in final.causes
                      /\ ~ Answer.patch => Answer.causes \subseteq final.causes
    BY DEF CustomMessageWins
  <2>1. /\ config \in Config /\ Answer \in Response
        /\ final = ProcessResponse(config, Answer)
    BY FinalOfAnswer
  <2> QED
    BY <2>1, Customised
<1> QED
  BY <1>1, Invariance, PTL

-----------------------------------------------------------------------------
(* Expressions are walked from one node to a later one, so what is defined *)
(* along the walk is found by induction from the last node.                *)

\* A non-empty set of numbers has a least member.
LEMMA LeastNumber ==
  ASSUME NEW T \in SUBSET Nat, T # {}
  PROVE  \E x \in T : \A y \in T : x <= y
<1> DEFINE U == {0..x : x \in T}
<1>1. U \subseteq FiniteSubsetsOf(Nat) /\ U # {}
  <2>1. \A x \in T : 0..x \in SUBSET Nat /\ IsFiniteSet(0..x)
    BY FS_Interval
  <2> QED
    BY <2>1 DEF FiniteSubsetsOf
<1>2. IsWellFoundedOn(StrictSubsetOrdering(Nat), FiniteSubsetsOf(Nat))
  BY FS_StrictSubsetOrderingWellFounded
<1>3. PICK u \in U : \A v \in U : ~ (<<v, u>> \in StrictSubsetOrdering(Nat))
  <2> HIDE DEF U
  <2> QED
    BY <1>1, <1>2, WFMin
<1>4. PICK x \in T : u = 0..x
  OBVIOUS
<1>5. ASSUME NEW y \in T, y < x
      PROVE  FALSE
  <2>1. 0..y \subseteq 0..x /\ 0..y # 0..x /\ 0..y \in U
        /\ 0..y \subseteq Nat /\ 0..x \subseteq Nat
    BY <1>5
  <2>2. <<0..y, 0..x>> \in StrictSubsetOrdering(Nat)
    BY <2>1 DEF StrictSubsetOrdering
  <2> QED
    BY <1>3, <1>4, <2>1, <2>2
<1> QED
  BY <1>5

\* Induction from the last node: a set that holds each node all of whose
\* successors it holds, holds them all.
LEMMA FromTheLastNode ==
  ASSUME NEW length \in Nat, NEW S,
         \A n \in 1..length : (n + 1)..length \subseteq S => n \in S
  PROVE  1..length \subseteq S
<1> DEFINE T == {k \in 0..(length - 1) : length - k \notin S}
<1>1. T = {}
  <2> SUFFICES ASSUME T # {}
               PROVE  FALSE
    OBVIOUS
  <2>1. PICK x \in T : \A y \in T : x <= y
    <3>1. T \in SUBSET Nat
      OBVIOUS
    <3> HIDE DEF T
    <3> QED
      BY <3>1, LeastNumber
  <2>2. ASSUME NEW m \in (length - x + 1)..length
        PROVE  m \in S
    <3>1. length - m \in 0..(length - 1) /\ length - m < x /\ length - (length - m) = m
      BY <2>2
    <3> QED
      BY <2>1, <3>1
  <2>3. length - x \in 1..length
    OBVIOUS
  <2> QED
    BY <2>2, <2>3
<1>2. ASSUME NEW n \in 1..length
      PROVE  n \in S
  <2>1. length - n \in 0..(length - 1) /\ length - (length - n) = n
    OBVIOUS
  <2> QED
    BY <1>1, <2>1
<1> QED
  BY <1>2

\* What is defined at a node by a later node, or else by itself, is defined.
LEMMA DefinedForward ==
  ASSUME NEW length \in Nat, NEW next, NEW value \in [1..length -> BOOLEAN]
  PROVE  \E f \in [1..length -> BOOLEAN] : \A n \in 1..length :
           f[n] = IF next[n] \in (n + 1)..length THEN f[next[n]] ELSE value[n]
<1> DEFINE Solves(f, k) ==
      /\ f \in [k..length -> BOOLEAN]
      /\ \A n \in k..length : f[n] = IF next[n] \in (n + 1)..length THEN f[next[n]] ELSE value[n]
<1> DEFINE S == {k \in 1..length : \E f : Solves(f, k)}
<1>1. ASSUME NEW k \in 1..length, (k + 1)..length \subseteq S
      PROVE  k \in S
  <2>1. PICK g : Solves(g, k + 1)
    <3>1. CASE k = length
      <4>1. Solves([n \in (k + 1)..length |-> value[n]], k + 1)
        BY <3>1
      <4> QED
        BY <4>1
    <3>2. CASE k # length
      <4>1. k + 1 \in (k + 1)..length
        BY <3>2
      <4> QED
        BY <1>1, <4>1
    <3> QED
      BY <3>1, <3>2
  <2> DEFINE f == [n \in k..length |->
                     IF n = k THEN IF next[k] \in (k + 1)..length THEN g[next[k]] ELSE value[k]
                              ELSE g[n]]
  <2>2. Solves(f, k)
    <3>2. f \in [k..length -> BOOLEAN]
      <4>1. ASSUME NEW n \in k..length
            PROVE  f[n] \in BOOLEAN
        <5>1. n \in 1..length /\ (n # k => n \in (k + 1)..length)
          OBVIOUS
        <5> QED
          BY <2>1, <5>1
      <4> QED
        BY <4>1
    <3>1. ASSUME NEW n \in k..length
          PROVE  f[n] = IF next[n] \in (n + 1)..length THEN f[next[n]] ELSE value[n]
      <4>1. \A m \in (k + 1)..length : f[m] = g[m]
        OBVIOUS
      <4>2. CASE n = k
        BY <4>1, <4>2
      <4>3. CASE n # k
        <5>1. n \in (k + 1)..length /\ (n + 1)..length \subseteq (k + 1)..length
          BY <4>3
        <5> QED
          BY <2>1, <4>1, <5>1
      <4> QED
        BY <4>2, <4>3
    <3> QED
      BY <3>1, <3>2
  <2> QED
    BY <2>2
<1>2. PICK f : Solves(f, 1)
  <2>1. CASE length = 0
    <3>1. Solves([n \in 1..length |-> value[n]], 1)
      BY <2>1
    <3> QED
      BY <3>1
  <2>2. CASE length # 0
    <3>1. 1 \in S
      <4> HIDE DEF S
      <4>1. 1..length \subseteq S
        BY <1>1, FromTheLastNode
      <4> QED
        BY <2>2, <4>1
    <3> QED
      BY <3>1 DEF S
  <2> QED
    BY <2>1, <2>2
<1> QED
  BY <1>2

\* An expression is a sequence of nodes that lead on, or to an end.
LEMMA ExpressionTyped ==
  ASSUME NEW e \in Expressions
  PROVE  /\ Len(e) \in Nat /\ 1 \in 1..Len(e)
         /\ \A n \in 1..Len(e) :
              /\ e[n].yes \in {Allow, Deny} \cup (n + 1)..Len(e)
              /\ e[n].no \in {Allow, Deny} \cup (n + 1)..Len(e)
              /\ (n + 1)..Len(e) \subseteq 1..Len(e)
              /\ \A x \in (n + 1)..Len(e) : x \notin {Allow, Deny}
<1>1. Len(e) \in Nat /\ 1 \in 1..Len(e)
  BY ExpressionsAssumption
<1>2. ASSUME NEW n \in 1..Len(e)
      PROVE  {e[n].yes, e[n].no} \subseteq {Allow, Deny} \cup (n + 1)..Len(e)
  BY ExpressionsAssumption
<1>3. ASSUME NEW n \in 1..Len(e)
      PROVE  /\ (n + 1)..Len(e) \subseteq 1..Len(e)
             /\ \A x \in (n + 1)..Len(e) : x \notin {Allow, Deny}
  BY <1>1 DEF Allow, Deny
<1> QED
  BY <1>1, <1>2, <1>3

\* The dry run of validate_settings is the walk along the answers true.
LEMMA RunsStepByStep ==
  ASSUME NEW e \in Expressions, NEW known
  PROVE  \E f \in [1..Len(e) -> BOOLEAN] :
           /\ RunsWithAllTrue(e, known) = f[1]
           /\ \A n \in 1..Len(e) :
                f[n] <=> e[n].call \in known /\ (e[n].yes \in 1..Len(e) => f[e[n].yes])
<1> DEFINE Fix(f) ==
      f = [n \in 1..Len(e) |-> e[n].call \in known /\ (e[n].yes \in 1..Len(e) => f[e[n].yes])]
<1> DEFINE next == [n \in 1..Len(e) |-> IF e[n].call \in known THEN e[n].yes ELSE Deny]
<1> DEFINE value == [n \in 1..Len(e) |-> e[n].call \in known]
<1>0. Len(e) \in Nat
  BY ExpressionTyped
<1>1. PICK f \in [1..Len(e) -> BOOLEAN] : \A n \in 1..Len(e) :
        f[n] = IF next[n] \in (n + 1)..Len(e) THEN f[next[n]] ELSE value[n]
  <2>1. value \in [1..Len(e) -> BOOLEAN]
    OBVIOUS
  <2> HIDE DEF value, next, Fix
  <2> QED
    BY <1>0, <2>1, DefinedForward
<1>2. ASSUME NEW n \in 1..Len(e)
      PROVE  f[n] = (e[n].call \in known /\ (e[n].yes \in 1..Len(e) => f[e[n].yes]))
  <2>1. f[n] = IF next[n] \in (n + 1)..Len(e) THEN f[next[n]] ELSE value[n]
    BY <1>1
  <2>2. /\ e[n].yes \in {Allow, Deny} \cup (n + 1)..Len(e)
        /\ (n + 1)..Len(e) \subseteq 1..Len(e)
        /\ Allow \notin 1..Len(e) /\ Deny \notin 1..Len(e)
    BY ExpressionTyped, EndsAreNoNodes
  <2>3. CASE e[n].call \notin known
    <3>1. next[n] \notin (n + 1)..Len(e)
      BY <2>2, <2>3
    <3> QED
      BY <2>1, <2>3, <3>1
  <2>4. CASE e[n].call \in known /\ e[n].yes \in 1..Len(e)
    <3>1. f[n] = f[e[n].yes] /\ f[e[n].yes] \in BOOLEAN
      BY <2>1, <2>2, <2>4
    <3> QED
      BY <2>4, <3>1
  <2>5. CASE e[n].call \in known /\ e[n].yes \notin 1..Len(e)
    BY <2>1, <2>2, <2>5
  <2> QED
    BY <2>3, <2>4, <2>5
<1>3. Fix(f)
  <2>1. f = [n \in 1..Len(e) |-> f[n]]
    OBVIOUS
  <2> QED
    BY <1>2, <2>1
<1> DEFINE g == CHOOSE h : Fix(h)
<1>4. Fix(g)
  <2> HIDE DEF Fix
  <2> QED
    BY <1>3
<1>5. RunsWithAllTrue(e, known) = g[1]
  BY DEF RunsWithAllTrue
<1> HIDE DEF g
<1>6. \A n \in 1..Len(e) : g[n] \in BOOLEAN
  BY <1>4
<1>7. g \in [1..Len(e) -> BOOLEAN]
  BY <1>4, <1>6
<1> QED
  BY <1>4, <1>5, <1>7

\* A conjunction that runs to its end calls no unknown name.
LEMMA StraightRunKnowsAll ==
  ASSUME NEW e \in Expressions, NEW known, Straight(e), RunsWithAllTrue(e, known)
  PROVE  \A n \in 1..Len(e) : e[n].call \in known
<1>1. PICK f \in [1..Len(e) -> BOOLEAN] :
        /\ RunsWithAllTrue(e, known) = f[1]
        /\ \A n \in 1..Len(e) :
             f[n] <=> e[n].call \in known /\ (e[n].yes \in 1..Len(e) => f[e[n].yes])
  BY RunsStepByStep
<1> DEFINE T == {n \in 1..Len(e) : ~ f[n]}
<1>2. T = {}
  <2> SUFFICES ASSUME T # {}
               PROVE  FALSE
    OBVIOUS
  <2>1. Len(e) \in Nat /\ 1 \in 1..Len(e)
    BY ExpressionTyped
  <2>2. PICK x \in T : \A y \in T : x <= y
    <3>1. T \in SUBSET Nat
      BY <2>1
    <3> HIDE DEF T
    <3> QED
      BY <3>1, LeastNumber
  <2>3. x # 1
    BY <1>1
  <2>4. x - 1 \in 1..Len(e) /\ x - 1 # Len(e) /\ x - 1 \notin T
    BY <2>1, <2>2, <2>3
  <2>5. e[x - 1].yes = x
    BY <2>1, <2>2, <2>4 DEF Straight
  <2>6. f[x]
    BY <1>1, <2>4, <2>5
  <2> QED
    BY <2>6
<1> QED
  BY <1>1, <1>2

\* What an expression says is what it says from the node it is led to.
LEMMA HoldsStepByStep ==
  ASSUME NEW e \in Expressions, NEW S
  PROVE  \E f \in [1..Len(e) -> BOOLEAN] :
           /\ Holds(e, S) = f[1]
           /\ \A n \in 1..Len(e) :
                LET next == IF e[n].call \in S THEN e[n].yes ELSE e[n].no
                IN  f[n] = IF next \in 1..Len(e) THEN f[next] ELSE next = Allow
<1> DEFINE Fix(f) ==
      f = [n \in 1..Len(e) |->
             LET next == IF e[n].call \in S THEN e[n].yes ELSE e[n].no
             IN  IF next \in 1..Len(e) THEN f[next] ELSE next = Allow]
<1> DEFINE after == [n \in 1..Len(e) |-> IF e[n].call \in S THEN e[n].yes ELSE e[n].no]
<1> DEFINE value == [n \in 1..Len(e) |-> after[n] = Allow]
<1>0. Len(e) \in Nat
  BY ExpressionTyped
<1>1. PICK f \in [1..Len(e) -> BOOLEAN] : \A n \in 1..Len(e) :
        f[n] = IF after[n] \in (n + 1)..Len(e) THEN f[after[n]] ELSE value[n]
  <2>1. value \in [1..Len(e) -> BOOLEAN]
    OBVIOUS
  <2> HIDE DEF value, after, Fix
  <2> QED
    BY <1>0, <2>1, DefinedForward
<1>2. ASSUME NEW n \in 1..Len(e)
      PROVE  f[n] = IF after[n] \in 1..Len(e) THEN f[after[n]] ELSE after[n] = Allow
  <2>1. f[n] = IF after[n] \in (n + 1)..Len(e) THEN f[after[n]] ELSE after[n] = Allow
    BY <1>1
  <2>2. after[n] \in {Allow, Deny} \cup (n + 1)..Len(e)
    BY ExpressionTyped
  <2>3. /\ (n + 1)..Len(e) \subseteq 1..Len(e)
        /\ Allow \notin 1..Len(e) /\ Deny \notin 1..Len(e)
    BY ExpressionTyped, EndsAreNoNodes
  <2> HIDE DEF after
  <2> QED
    BY <2>1, <2>2, <2>3
<1>3. Fix(f)
  <2>1. f = [n \in 1..Len(e) |-> f[n]]
    OBVIOUS
  <2> QED
    BY <1>2, <2>1
<1> DEFINE g == CHOOSE h : Fix(h)
<1>4. Fix(g)
  <2> HIDE DEF Fix
  <2> QED
    BY <1>3
<1>5. Holds(e, S) = g[1]
  BY DEF Holds
<1> HIDE DEF g
<1>6. g \in [1..Len(e) -> BOOLEAN]
  <2>1. g = [n \in 1..Len(e) |-> IF after[n] \in 1..Len(e) THEN g[after[n]] ELSE after[n] = Allow]
    BY <1>4
  <2> DEFINE B == {n \in 1..Len(e) : g[n] \in BOOLEAN}
  <2>2. ASSUME NEW n \in 1..Len(e), (n + 1)..Len(e) \subseteq B
        PROVE  n \in B
    <3>1. after[n] \in {Allow, Deny} \cup (n + 1)..Len(e)
      BY ExpressionTyped
    <3>2. Allow \notin 1..Len(e) /\ Deny \notin 1..Len(e)
      BY <1>0, EndsAreNoNodes
    <3>3. g[n] = IF after[n] \in 1..Len(e) THEN g[after[n]] ELSE after[n] = Allow
      BY <2>1
    <3> HIDE DEF after
    <3> QED
      BY <2>2, <3>1, <3>2, <3>3
  <2>3. 1..Len(e) \subseteq B
    <3> HIDE DEF B
    <3> QED
      BY <1>0, <2>2, FromTheLastNode
  <2>4. g = [n \in 1..Len(e) |-> g[n]]
    BY <2>1
  <2> QED
    BY <2>3, <2>4
<1> QED
  BY <1>4, <1>5, <1>6

-----------------------------------------------------------------------------
(* The decision of a group and the results it is explained with.           *)

\* What expression e says from node n on, when the members of S answer true.
SaysFrom(e, S, n) ==
  LET f == CHOOSE f \in [1..Len(e) -> BOOLEAN] :
             /\ Holds(e, S) = f[1]
             /\ \A k \in 1..Len(e) :
                  LET next == IF e[k].call \in S THEN e[k].yes ELSE e[k].no
                  IN  f[k] = IF next \in 1..Len(e) THEN f[next] ELSE next = Allow
  IN  IF n \in 1..Len(e) THEN f[n] ELSE n = Allow

LEMMA SaysFromStep ==
  ASSUME NEW e \in Expressions, NEW S
  PROVE  /\ Holds(e, S) <=> SaysFrom(e, S, 1)
         /\ \A n \in 1..Len(e) :
              SaysFrom(e, S, n) <=>
                SaysFrom(e, S, IF e[n].call \in S THEN e[n].yes ELSE e[n].no)
         /\ SaysFrom(e, S, Allow) /\ ~ SaysFrom(e, S, Deny)
<1> DEFINE Fix(f) ==
      /\ Holds(e, S) = f[1]
      /\ \A k \in 1..Len(e) :
           LET next == IF e[k].call \in S THEN e[k].yes ELSE e[k].no
           IN  f[k] = IF next \in 1..Len(e) THEN f[next] ELSE next = Allow
<1> DEFINE g == CHOOSE f \in [1..Len(e) -> BOOLEAN] : Fix(f)
<1>1. g \in [1..Len(e) -> BOOLEAN] /\ Fix(g)
  <2>1. \E f \in [1..Len(e) -> BOOLEAN] : Fix(f)
    BY HoldsStepByStep
  <2> HIDE DEF Fix
  <2> QED
    BY <2>1
<1>2. \A n : SaysFrom(e, S, n) = IF n \in 1..Len(e) THEN g[n] ELSE n = Allow
  BY DEF SaysFrom
<1> HIDE DEF g
<1>3. 1 \in 1..Len(e) /\ Allow # Deny /\ Allow \notin 1..Len(e) /\ Deny \notin 1..Len(e)
  BY ExpressionTyped, EndsAreNoNodes
<1> QED
  BY <1>1, <1>2, <1>3

Called == {m \in members : results[m] # NoVerdict}

\* S is a way in which all members could answer, given how those called did.
Agrees(S) == \A m \in Called : m \in S <=> results[m].allowed

\* The inductive invariant.  What the members called so far have answered takes
\* the walk to its node, whatever the others would answer; and all of them were
\* called at nodes before it, so that no answer can still change.
DecisionInv ==
  CallsOnce(expression) /\ (response = NoResponse \/ Concluded) =>
    /\ \A m \in Called : \E i \in 1..Len(expression) :
         expression[i].call = m /\ (node \in 1..Len(expression) => i < node)
    /\ \A S \in SUBSET Members :
         Agrees(S) => (Holds(expression, S) <=> SaysFrom(expression, S, node))
    /\ response # NoResponse => (response.allowed <=> node = Allow)

\* The call of a member: its verdict is what the walk follows.
LEMMA DecisionAtCall ==
  ASSUME IInv, DecisionInv, NEW runtime \in Runtimes,
         NEW r \in PolicyResponses(runtime, hasObject), CallMember(r)
  PROVE  DecisionInv'
<1> DEFINE m == expression[node].call
<1> DEFINE verdict == IF r.patch THEN [allowed |-> FALSE, message |-> "mutation in a group"]
                                 ELSE [allowed |-> r.allowed, message |-> r.message]
<1>1. /\ node \in 1..Len(expression) /\ m \in members /\ response = NoResponse
      /\ results' = [results EXCEPT ![m] = verdict]
      /\ node' = IF verdict.allowed THEN expression[node].yes ELSE expression[node].no
      /\ UNCHANGED <<expression, members, response>>
  BY DEF CallMember, Running
<1>2. /\ expression \in Expressions
      /\ results \in [Members -> Verdict \cup {NoVerdict}]
      /\ members \subseteq Members /\ hasObject \in BOOLEAN
  BY DEF IInv, TypeOK, GroupTypeOK
<1>3. verdict.allowed \in BOOLEAN
  <2>1. r \in Response
    BY <1>2, PolicyResponsesType
  <2> QED
    BY <2>1 DEF Response
<1> HIDE DEF verdict
<1>4. SUFFICES ASSUME CallsOnce(expression)
               PROVE  /\ \A x \in Called' : \E i \in 1..Len(expression) :
                           expression[i].call = x /\ (node' \in 1..Len(expression) => i < node')
                      /\ \A S \in SUBSET Members : Agrees(S)' =>
                           (Holds(expression, S) <=> SaysFrom(expression, S, node'))
  BY <1>1 DEF DecisionInv
<1>5. /\ \A x \in Called : \E i \in 1..Len(expression) : expression[i].call = x /\ i < node
      /\ \A S \in SUBSET Members :
           Agrees(S) => (Holds(expression, S) <=> SaysFrom(expression, S, node))
  BY <1>1, <1>4 DEF DecisionInv
<1>6. m \notin Called
  <2> SUFFICES ASSUME m \in Called
               PROVE  FALSE
    OBVIOUS
  <2>1. PICK i \in 1..Len(expression) : expression[i].call = m /\ i < node
    BY <1>5
  <2>2. i = node
    BY <1>1, <1>4, <2>1 DEF CallsOnce
  <2> QED
    BY <1>1, <1>2, <2>1, <2>2, ExpressionTyped
<1>7. /\ Called' \subseteq Called \cup {m} /\ Called \subseteq Called'
      /\ \A x \in Called : results'[x] = results[x]
      /\ results'[m] = verdict
      /\ verdict # NoVerdict => m \in Called'
  BY <1>1, <1>2, <1>6 DEF Called
<1>8. node' \in 1..Len(expression) => node < node'
  <2>1. node' \in {Allow, Deny} \cup (node + 1)..Len(expression)
    BY <1>1, <1>2, ExpressionTyped
  <2>2. Len(expression) \in Nat /\ Allow \notin 1..Len(expression) /\ Deny \notin 1..Len(expression)
    BY <1>2, ExpressionTyped, EndsAreNoNodes
  <2> QED
    BY <1>1, <2>1, <2>2
<1>9. ASSUME NEW x \in Called'
      PROVE  \E i \in 1..Len(expression) :
               expression[i].call = x /\ (node' \in 1..Len(expression) => i < node')
  <2>1. CASE x = m
    BY <1>1, <1>8, <2>1
  <2>2. CASE x \in Called
    <3>1. PICK i \in 1..Len(expression) : expression[i].call = x /\ i < node
      BY <1>5, <2>2
    <3>2. node' \in 1..Len(expression) => i < node'
      <4>1. Len(expression) \in Nat
        BY <1>2, ExpressionTyped
      <4> QED
        BY <1>1, <1>8, <3>1, <4>1
    <3> QED
      BY <3>1, <3>2
  <2> QED
    BY <1>7, <2>1, <2>2
<1>10. ASSUME NEW S \in SUBSET Members, Agrees(S)'
       PROVE  Holds(expression, S) <=> SaysFrom(expression, S, node')
  <2>1. m \in S <=> verdict.allowed
    <3>1. verdict \in Verdict
      <4>1. r \in Response
        BY <1>2, PolicyResponsesType
      <4> QED
        BY <4>1 DEF verdict, Verdict, Response, Messages
    <3>2. m \in Called'
      BY <1>7, <3>1, NothingAssumption
    <3> QED
      BY <1>7, <1>10, <3>2 DEF Agrees
  <2>2. Agrees(S)
    BY <1>7, <1>10 DEF Agrees
  <2>3. Holds(expression, S) <=> SaysFrom(expression, S, node)
    BY <1>5, <2>2
  <2>4. node' = IF m \in S THEN expression[node].yes ELSE expression[node].no
    BY <1>1, <2>1
  <2> QED
    BY <1>1, <1>2, <2>3, <2>4, SaysFromStep
<1> QED
  BY <1>9, <1>10

LEMMA DecisionInitially == Init => DecisionInv
<1> SUFFICES ASSUME Init
             PROVE  DecisionInv
  OBVIOUS
<1>1. expression \in Expressions /\ node = 1 /\ Called = {} /\ response = NoResponse
  BY DEF Init, GroupInit, Called
<1> QED
  BY <1>1, SaysFromStep DEF DecisionInv

\* Every step of a group keeps the walk and the answers together.
LEMMA DecisionStep == IInv /\ DecisionInv /\ [Next]_vars => DecisionInv'
<1> SUFFICES ASSUME IInv, DecisionInv, [Next]_vars
             PROVE  DecisionInv'
  OBVIOUS
<1>0. /\ expression \in Expressions /\ node \in {Allow, Deny} \cup 1..Len(expression)
      /\ Allow # Deny /\ 1 \in 1..Len(expression)
      /\ Allow \notin 1..Len(expression) /\ Deny \notin 1..Len(expression)
  BY ExpressionTyped, EndsAreNoNodes DEF IInv, TypeOK, GroupTypeOK
<1>1. ASSUME NEW m \in Members, AddPolicyMember(m)
      PROVE  DecisionInv'
  <2>1. /\ node = 1 /\ response = NoResponse /\ Called' = {}
        /\ UNCHANGED <<expression, node, response>>
    BY <1>1 DEF AddPolicyMember, Building, IInv, TypeOK, GroupTypeOK, Called
  <2> QED
    BY <1>0, <2>1, SaysFromStep DEF DecisionInv
<1>2. ASSUME NEW runtime \in Runtimes,
             NEW r \in PolicyResponses(runtime, hasObject), CallMember(r)
      PROVE  DecisionInv'
  BY <1>2, DecisionAtCall
<1>3. CASE RehydrateFails \/ UnknownFunction
  <2>1. node \in 1..Len(expression) /\ node' = node /\ expression' = expression
        /\ response' = Reject("internal error")
    BY <1>3 DEF RehydrateFails, UnknownFunction, Running
  <2>2. response' # NoResponse
    BY <2>1, PlainType DEF Reject, Messages
  <2>3. ~ (response' = NoResponse \/ Concluded')
    BY <1>0, <2>1, <2>2 DEF Concluded
  <2> QED
    BY <2>3 DEF DecisionInv
<1>4. CASE Conclude
  <2>1. /\ response = NoResponse /\ node \in {Allow, Deny}
        /\ response' = IF node = Allow
                       THEN Plain(TRUE, "")
                       ELSE [Reject("denied by the group") EXCEPT !.causes = Causes]
        /\ UNCHANGED <<expression, members, node, results>>
    BY <1>4 DEF Conclude
  <2>2. response'.allowed <=> node = Allow
    BY <2>1 DEF Reject, Plain
  <2>3. Called' = Called /\ \A S : Agrees(S)' <=> Agrees(S)
    BY <2>1 DEF Called, Agrees
  <2> QED
    BY <2>1, <2>2, <2>3 DEF DecisionInv
<1>5. CASE UNCHANGED <<expression, members, node, results, response>>
  <2>1. Called' = Called /\ (\A S : Agrees(S)' <=> Agrees(S)) /\ Concluded' = Concluded
    BY <1>5 DEF Called, Agrees, Concluded
  <2> QED
    BY <1>5, <2>1 DEF DecisionInv
<1>6. CASE EvaluateGroup
  <2>1. ValidateSettings => UNCHANGED <<expression, members, node, results, response>>
    BY DEF ValidateSettings
  <2> QED
    BY <1>1, <1>2, <1>3, <1>4, <1>5, <1>6, <2>1 DEF EvaluateGroup, GroupNext
<1>7. CASE EvaluatePolicy \/ Process \/ UNCHANGED vars
  <2>1. UNCHANGED <<expression, members, node, results, response>>
    BY <1>7 DEF EvaluatePolicy, Process, vars, groupVars
  <2> QED
    BY <1>5, <2>1
<1> QED
  BY <1>6, <1>7 DEF Next

\* A group decides as its expression says of the members that were called and
\* accepted, for every expression that calls each member at one place: what the
\* engine skipped could not have changed the decision (the closures and
\* policies_evaluation_results of validate).
THEOREM Decision == Spec => []DecisionMatchesResults
<1>1. IInv /\ DecisionInv => DecisionMatchesResults
  <2> SUFFICES ASSUME IInv, DecisionInv, Concluded, CallsOnce(expression)
               PROVE  response.allowed <=>
                        Holds(expression, { m \in members : results[m] # NoVerdict /\ results[m].allowed })
    BY DEF DecisionMatchesResults
  <2> DEFINE S == { m \in members : results[m] # NoVerdict /\ results[m].allowed }
  <2>1. expression \in Expressions /\ node \in {Allow, Deny} /\ response # NoResponse
        /\ members \subseteq Members
    BY DEF IInv, TypeOK, GroupTypeOK, Concluded
  <2>2. S \in SUBSET Members /\ Agrees(S)
    BY <2>1 DEF Agrees, Called
  <2> HIDE DEF S
  <2>3. Holds(expression, S) <=> SaysFrom(expression, S, node)
    BY <2>2 DEF DecisionInv
  <2>4. response.allowed <=> node = Allow
    BY <2>1 DEF DecisionInv
  <2>5. SaysFrom(expression, S, node) <=> node = Allow
    BY <2>1, SaysFromStep DEF Allow, Deny
  <2>6. response.allowed <=> Holds(expression, S)
    BY <2>3, <2>4, <2>5
  <2> QED
    BY <2>6 DEF S
<1> QED
  BY <1>1, DecisionInitially, DecisionStep, Invariance, PTL DEF Spec

-----------------------------------------------------------------------------
(* Validation of a conjunction.                                            *)

\* The inductive invariant: members only ever join, so a dry run stays good.
ConjunctionInv ==
  /\ validated = "valid" /\ Straight(expression) =>
       \A n \in 1..Len(expression) : expression[n].call \in members
  /\ ValidatedConjunctionRuns

LEMMA ConjunctionStep == IInv /\ ConjunctionInv /\ [Next]_vars => ConjunctionInv'
<1> SUFFICES ASSUME IInv, ConjunctionInv, [Next]_vars
             PROVE  ConjunctionInv'
  OBVIOUS
<1>0. expression \in Expressions
  BY DEF IInv, TypeOK, GroupTypeOK
<1> USE DEF ConjunctionInv, ValidatedConjunctionRuns
<1>1. ASSUME NEW m \in Members, AddPolicyMember(m)
      PROVE  ConjunctionInv'
  BY <1>1 DEF AddPolicyMember, Building
<1>2. CASE ValidateSettings
  <2>1. /\ response' = NoResponse /\ UNCHANGED <<expression, members>>
        /\ validated' = "valid" => RunsWithAllTrue(expression, members)
    BY <1>2 DEF ValidateSettings, Building
  <2> QED
    BY <1>0, <2>1, StraightRunKnowsAll
<1>3. ASSUME NEW runtime \in Runtimes,
             NEW r \in PolicyResponses(runtime, hasObject), CallMember(r)
      PROVE  ConjunctionInv'
  <2>1. response' = NoResponse /\ UNCHANGED <<expression, members, validated>>
    BY <1>3 DEF CallMember, Running
  <2> QED
    BY <2>1
<1>4. CASE RehydrateFails
  <2>1. failed' = TRUE /\ UNCHANGED <<expression, members, validated>>
    BY <1>4 DEF RehydrateFails
  <2> QED
    BY <2>1
<1>5. CASE UnknownFunction
  <2>1. /\ node \in 1..Len(expression) /\ expression[node].call \notin members
        /\ UNCHANGED <<expression, members, validated>>
    BY <1>5 DEF UnknownFunction, Running
  <2> QED
    BY <2>1
<1>6. CASE Conclude
  <2>1. node' \in {Allow, Deny} /\ UNCHANGED <<expression, members, validated>>
    BY <1>6 DEF Conclude
  <2>2. response' # NoResponse => Concluded'
    BY <2>1 DEF Concluded
  <2> QED
    BY <2>1, <2>2
<1>7. CASE EvaluateGroup
  BY <1>1, <1>2, <1>3, <1>4, <1>5, <1>6, <1>7 DEF EvaluateGroup, GroupNext
<1>8. CASE EvaluatePolicy \/ Process \/ UNCHANGED vars
  <2>1. UNCHANGED groupVars
    BY <1>8 DEF EvaluatePolicy, Process, vars
  <2> QED
    BY <2>1 DEF groupVars, Concluded
<1> QED
  BY <1>7, <1>8 DEF Next

\* For every conjunction, a successful validate_settings vouches for validate:
\* no name is met that nobody registered, even if members join in between.
THEOREM ConjunctionRuns == Spec => []ValidatedConjunctionRuns
<1>1. Init => ConjunctionInv
  BY DEF Init, GroupInit, ConjunctionInv, ValidatedConjunctionRuns
<1>2. ConjunctionInv => ValidatedConjunctionRuns
  BY DEF ConjunctionInv
<1> QED
  BY <1>1, <1>2, ConjunctionStep, Invariance, PTL DEF Spec
=============================================================================

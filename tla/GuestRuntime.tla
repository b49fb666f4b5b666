----------------------------- MODULE GuestRuntime -----------------------------
(***************************************************************************)
(* A PolicyEvaluator runs the guest code of one policy in a waPC host, in  *)
(* a burrego evaluator or as a WASI program.  A thread of the embedder     *)
(* advances the epoch of the engine.  Guest code looks at the epoch where  *)
(* it enters a function or goes round a loop, and is stopped there if the  *)
(* deadline of its store has passed; nothing in the guest is cleaned up.   *)
(* No look is taken while the guest waits in a host call (blocking_recv)   *)
(* nor after its last one, so a call may return after the deadline, and a  *)
(* host call that does not return keeps the operation for ever.            *)
(*                                                                         *)
(* The store outlives the call except under WASI, where each run has a     *)
(* store of its own; validate replaces it after an interruption it         *)
(* recognises, validate_settings and protocol_version never do.            *)
(*                                                                         *)
(* The policy has an epoch deadline.                                       *)
(*                                                                         *)
(* Sources: policy_evaluator/, runtimes/{wapc,rego,wasi_cli}/.             *)
(***************************************************************************)
EXTENDS BurregoEvaluator

CONSTANT Deadline  \* EvaluationContext::epoch_deadline, in ticks

ASSUME DeadlineAssumption == Deadline \in Nat \ {0}

Kinds == {"wapc", "rego", "wasi"}
Operations == {"build", "validate", "validate_settings", "protocol_version", "reset"}

VARIABLES
  kind,     \* the runtime of the policy
  op,       \* what the evaluator is doing: an operation, "idle" or "gone"
  at,       \* the guest call it has reached
  place,    \* where that call is: at its "entry", in "guest" code or in a "host" call
  left,     \* ticks until the store in use interrupts its guest
  spent,    \* ticks since the operation began, counted up to Deadline
  cut,      \* guest code has been interrupted in the store that is kept
  unreset,  \* no reset has succeeded since one failed
  request,  \* the number of the last operation asked
  outcome   \* how the last operation ended

hostVars == <<kind, op, at, place, left, spent, cut, unreset, request, outcome>>
vars == <<hostVars, burregoVars>>

Outcome ==
  [status : {"none", "answered", "refused", "deadline", "error"},
   data : 0..MaxRequests, input : 0..MaxRequests]

Ended(status) == [status |-> status, data |-> 0, input |-> 0]

\* The guest calls each operation makes.  Rego needs no guest code to
\* validate settings, and only waPC guests have a protocol version.
Calls ==
  [wapc |-> [build |-> <<"wapc_init">>, reset |-> <<"wapc_init">>, validate |-> <<"guest_call">>,
             validate_settings |-> <<"guest_call">>, protocol_version |-> <<"guest_call">>],
   rego |-> [build |-> BuildCalls, reset |-> SetupCalls, validate |-> EvaluateCalls,
             validate_settings |-> <<>>, protocol_version |-> <<>>],
   wasi |-> [build |-> <<>>, reset |-> <<>>, validate |-> <<"_start">>,
             validate_settings |-> <<"_start">>, protocol_version |-> <<>>]]

Program(o) == Calls[kind][o]
Call == Program(op)[at]
Armed(call) == call \in ArmedCalls \cup {"wapc_init", "guest_call", "_start"}

\* waPC errors are told apart by their text.
Reports(call) ==
  CASE kind = "rego" -> ReportedAs(call)
    [] kind = "wapc" /\ op = "validate" -> {"deadline"}
    [] OTHER -> {"error"}

TypeOK ==
  /\ BurregoTypeOK
  /\ kind \in Kinds
  /\ op \in Operations \cup {"idle", "gone"}
  /\ at \in 1..9
  /\ place \in {"entry", "guest", "host"}
  /\ left \in 0..Deadline
  /\ spent \in 0..Deadline
  /\ cut \in BOOLEAN
  /\ unreset \in BOOLEAN
  /\ request \in 0..MaxRequests
  /\ outcome \in Outcome

Init ==
  /\ BurregoInit
  /\ kind \in Kinds
  /\ op = IF Calls[kind]["build"] = <<>> THEN "idle" ELSE "build"
  /\ at = 1 /\ place = "entry"
  /\ left = Deadline
  /\ spent = 0
  /\ cut = FALSE /\ unreset = FALSE
  /\ request = 0
  /\ outcome = Ended("none")

Busy == op \in Operations

-----------------------------------------------------------------------------
\* Where the host goes next.  set_epoch_deadline counts from the present
\* epoch.

\* A slip: the deadline is counted from the previous one.
ReachAddingTicks(o, i) ==
  /\ op' = o /\ at' = i /\ place' = "entry"
  /\ left' = IF Armed(Calls[kind][o][i]) THEN left + Deadline ELSE left

Reach(o, i) ==
  /\ op' = o /\ at' = i /\ place' = "entry"
  /\ left' = IF Armed(Calls[kind][o][i]) THEN Deadline ELSE left

Begin(o) ==
  /\ Reach(o, 1)
  /\ spent' = 0

Idle(result) ==
  /\ op' = "idle" /\ at' = 1 /\ place' = "entry"
  /\ outcome' = result
  /\ UNCHANGED <<left, spent>>

-----------------------------------------------------------------------------
\* Actions.

Ask ==
  /\ op = "idle" /\ request < MaxRequests
  /\ request' = request + 1
  /\ UNCHANGED <<kind, cut, unreset, burregoVars>>

\* validate, validate_settings and protocol_version enter the guest ...
Enter(o) ==
  /\ Ask
  /\ Program(o) # <<>>
  /\ Begin(o)
  /\ outcome' = Ended("none")

\* ... unless they answer before: no guest code to run, settings or a
\* request that cannot be serialised, a Kubernetes context that cannot be
\* built, a raw request for Gatekeeper.
Refuse ==
  /\ Ask
  /\ Idle(Ended("refused"))

\* A function of the guest is entered: the first look at the epoch.
EnterGuest ==
  /\ Busy /\ place = "entry" /\ left > 0
  /\ place' = "guest"
  /\ UNCHANGED <<kind, op, at, left, spent, cut, unreset, request, outcome, burregoVars>>

\* A waPC or WASI guest calls the host and waits for what it answers.  (The
\* builtins of Rego are short and call the guest themselves.)
CallHost ==
  /\ Busy /\ place = "guest" /\ kind # "rego"
  /\ place' = "host"
  /\ UNCHANGED <<kind, op, at, left, spent, cut, unreset, request, outcome, burregoVars>>

HostReturns ==
  /\ Busy /\ place = "host"
  /\ place' = "guest"
  /\ UNCHANGED <<kind, op, at, left, spent, cut, unreset, request, outcome, burregoVars>>

\* Calls that may find no guest code to run: no start function, no wapc_init.
Optional == {"instantiate", "wapc_init"}

\* A call returns, be it in time or, past its last look at the epoch, late.
Returns ==
  /\ Busy
  /\ place = "guest" \/ (place = "entry" /\ Call \in Optional)
  /\ IF kind = "rego" THEN GuestReturns(Call, request) ELSE UNCHANGED burregoVars
  /\ UNCHANGED <<kind, request>>

Proceed ==
  /\ Returns
  /\ at < Len(Program(op))
  /\ Reach(op, at + 1)
  /\ UNCHANGED <<spent, cut, unreset, outcome>>

Answer ==
  IF kind = "rego"
    THEN [status |-> "answered", data |-> memory[top].data, input |-> memory[top].input]
    ELSE Ended("answered")

\* A slip: the evaluation is tried again after the reset.
FinishRetrying ==
  /\ Returns
  /\ at = Len(Program(op))
  /\ IF op = "reset" THEN Begin("validate") /\ outcome' = Ended("none")
                     ELSE Idle(IF op = "build" THEN outcome ELSE Answer)
  /\ cut' = (cut /\ op # "reset")
  /\ unreset' = (unreset /\ op # "reset")

\* The last call returns: the result is read, or the new store takes the
\* place of the old one.
Finish ==
  /\ Returns
  /\ at = Len(Program(op))
  /\ Idle(IF op \in {"build", "reset"} THEN outcome ELSE Answer)
  /\ cut' = (cut /\ op # "reset")
  /\ unreset' = (unreset /\ op # "reset")

Stops ==
  /\ Busy
  /\ IF kind = "rego" /\ place = "guest" THEN GuestStops(Call) ELSE UNCHANGED burregoVars
  /\ UNCHANGED <<kind, request>>

\* A slip: a reset that fails takes the place of the answer.
GiveUpReportingReset ==
  \/ op = "build"
       /\ op' = "gone" /\ at' = 1 /\ place' = "entry" /\ UNCHANGED <<left, spent, unreset, outcome>>
  \/ op = "reset"
       /\ unreset' = TRUE /\ Idle(Ended("error"))
  \/ op \notin {"build", "reset"}
       /\ unreset' = unreset /\ Idle(Ended("error"))

\* An operation that gets no answer from the guest.  Without an evaluator
\* to keep, the policy is gone; a reset that fails leaves the old store.
GiveUp ==
  \/ op = "build"
       /\ op' = "gone" /\ at' = 1 /\ place' = "entry" /\ UNCHANGED <<left, spent, unreset, outcome>>
  \/ op = "reset"
       /\ unreset' = TRUE /\ Idle(outcome)
  \/ op \notin {"build", "reset"}
       /\ unreset' = unreset /\ Idle(Ended("error"))

\* A call traps, aborts or returns an error; a host call may end it so as well.
Fail ==
  /\ Stops
  /\ GiveUp
  /\ UNCHANGED cut

\* Guest code looks at the epoch when the deadline has passed: the store that
\* is kept, if that is where the guest ran, holds what the guest was doing.
Stopped ==
  /\ Stops /\ left = 0 /\ place # "host"
  /\ cut' = (cut \/ (op \notin {"build", "reset"} /\ kind # "wasi"))

Interrupt ==
  /\ Stopped
  /\ "error" \in Reports(Call)
  /\ GiveUp

\* A slip: the interrupted store is kept.
InterruptWithoutReset ==
  /\ Stopped
  /\ "deadline" \in Reports(Call) /\ op = "validate"
  /\ Idle(Ended("deadline"))
  /\ UNCHANGED unreset

\* validate of waPC and of Rego resets the evaluator before it answers.
InterruptAndReset ==
  /\ Stopped
  /\ "deadline" \in Reports(Call) /\ op = "validate"
  /\ Begin("reset")
  /\ outcome' = Ended("deadline")
  /\ UNCHANGED unreset

\* The embedder increments the epoch.
Tick ==
  /\ Busy /\ left > 0
  /\ left' = left - 1
  /\ spent' = IF spent < Deadline THEN spent + 1 ELSE spent
  /\ UNCHANGED <<kind, op, at, place, cut, unreset, request, outcome, burregoVars>>

Next ==
  \/ \E o \in Operations \ {"build", "reset"} : Enter(o)
  \/ Refuse
  \/ EnterGuest
  \/ CallHost
  \/ HostReturns
  \/ Proceed
  \/ Finish
  \/ Fail
  \/ Interrupt
  \/ InterruptAndReset
  \/ Tick

Spec == Init /\ [][Next]_vars

\* Guest code may run for ever and a host call may never return, so nothing is
\* assumed of either.  The embedder goes on ticking.  Guest code that goes on
\* running, be it between host calls, looks at the epoch again and again.
FairSpec == Spec /\ WF_vars(Tick) /\ SF_vars(Interrupt \/ InterruptAndReset)

-----------------------------------------------------------------------------
\* Properties.

\* The guest that answers validate has evaluated the input of that request
\* against the data of that request (set_data, evaluate), whatever earlier
\* evaluations, failed or interrupted ones included, left in its memory.
ResultOfOwnRequest ==
  (kind = "rego" /\ op = "idle" /\ outcome.status = "answered")
    => outcome.data = request /\ outcome.input = request

\* An evaluator that goes on serving gives back what earlier evaluations
\* used: between operations the heap holds the data and the input of one
\* evaluation and its result, two blocks each (opa_heap_ptr_set).
HeapGivenBack == (kind = "rego" /\ op = "idle") => top <= baseHeap + 6

\* An operation has one full deadline for all of its guest calls: ticks
\* left over or used up by an earlier operation do not count, and setting
\* the data takes from the time of the evaluation
\* (set_epoch_deadline_and_call_guest!).
BudgetIsExact ==
  (op \in Operations \ {"build"}) => left + spent = Deadline

\* A caller who is told that the deadline was exceeded has an evaluator
\* whose guest was never interrupted, or whose reset has failed.
DeadlineMeansFreshGuest ==
  (op = "idle" /\ outcome.status = "deadline") => ~cut \/ unreset

\* What an evaluator promises, seen through its operations.
StageOf ==
  CASE op = "build" -> "building"
    [] op = "reset" -> "recovering"
    [] op \in {"idle", "gone"} -> op
    [] OTHER -> "working"

Evaluator == INSTANCE EvaluatorService
               WITH Limit <- Deadline, answer <- outcome, stage <- StageOf,
                    clock <- IF op \in Operations \ {"build"} THEN spent ELSE 0

\* A store that is reused, guest memory that is given back by hand, deadlines set
\* at some calls and resets that may fail together make an evaluator that
\* answers each request once and from that request alone, although an answer may
\* come after the deadline; only a request that had its full time is told that
\* the deadline was exceeded.
ImplementsEvaluator == Evaluator!Spec

\* An operation ends, the reset included, whatever the code of the guest does,
\* unless the guest stays for ever in one host call: the epoch cannot stop a
\* guest that is blocked in the host (host_callback, blocking_recv).
OperationsEnd == []<>(place # "host") => (Busy ~> ~Busy)

\* "after code execution is interrupted because of an epoch deadline being
\* reached, we have to reset the waPC host to ensure further invocations of
\* the policy work as expected" (wapc/runtime.rs:91-93): waPC guest code is
\* entered in a store that was never interrupted, resets having worked.
FreshAfterInterruption ==
  (kind = "wapc" /\ op \in Operations \ {"build", "reset"}) => ~cut \/ unreset
=============================================================================

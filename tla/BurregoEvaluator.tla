--------------------------- MODULE BurregoEvaluator ---------------------------
(***************************************************************************)
(* The burrego evaluator runs a Rego policy compiled to Wasm.  The guest   *)
(* exports a bump allocator whose pointer the host may read and set; the   *)
(* host pushes the data and the input of an evaluation in the memory of    *)
(* the guest, has the guest evaluate them and pulls the result out.  One   *)
(* evaluator serves many evaluations: each gives back the memory of the    *)
(* one before by setting the pointer.                                      *)
(*                                                                         *)
(* Memory is a row of blocks.  What lies above the pointer stays readable  *)
(* until it is overwritten.  A block holds the document it was made from:  *)
(* the data and the input of a request are its number.                     *)
(*                                                                         *)
(* Sources: crates/burrego/src/evaluator.rs, policy.rs, stack_helper.rs.   *)
(***************************************************************************)
EXTENDS Integers, Sequences

CONSTANTS
  MaxRequests,  \* bound: evaluations asked of the evaluator
  MaxBlocks     \* bound: blocks of guest memory

ASSUME BurregoBoundsAssumption == MaxRequests \in Nat /\ MaxBlocks \in Nat /\ MaxBlocks >= 9

Requests == 1..MaxRequests
Blocks == 1..MaxBlocks

Block ==
  [what : {"unused", "text", "value", "result", "torn"},
   data : 0..MaxRequests,    \* the request whose data it holds, 0 for none
   input : 0..MaxRequests]   \* the request whose input it holds, 0 for none

VARIABLES
  memory,     \* the blocks
  top,        \* the allocator's pointer: the blocks in use are 1..top
  dataAddr,   \* Policy::data_addr
  baseHeap,   \* Policy::base_heap_ptr
  dataHeap,   \* Policy::data_heap_ptr
  inputAddr   \* the local input_addr of Policy::evaluate

policyVars == <<dataAddr, baseHeap, dataHeap>>
burregoVars == <<memory, top, policyVars, inputAddr>>

Plain(what) == [what |-> what, data |-> 0, input |-> 0]
OfData(what, r) == [what |-> what, data |-> r, input |-> 0]
OfInput(what, r) == [what |-> what, data |-> 0, input |-> r]

BurregoTypeOK ==
  /\ memory \in [Blocks -> Block]
  /\ top \in 0..MaxBlocks
  /\ dataAddr \in Blocks
  /\ baseHeap \in 0..MaxBlocks
  /\ dataHeap \in 0..MaxBlocks
  /\ inputAddr \in Blocks

BurregoInit ==
  /\ memory = [b \in Blocks |-> Plain("unused")]
  /\ top = 0 /\ baseHeap = 0 /\ dataHeap = 0
  /\ dataAddr = 1 /\ inputAddr = 1

-----------------------------------------------------------------------------
\* The calls the host makes into the guest, in order.

HelperCalls == <<"builtins", "dump_builtins">>            \* StackHelper::new
PolicyCalls == <<"malloc_init", "parse_init", "base">>     \* Policy::new
ListCalls == <<"list_builtins", "list_entrypoints">>

SetupCalls == <<"instantiate">> \o HelperCalls \o PolicyCalls
BuildCalls == SetupCalls \o ListCalls
EvaluateCalls ==
  <<"clear", "malloc_data", "parse_data", "mark", "rewind", "malloc_input", "parse_input",
    "eval", "dump_result">>

\* A slip: the evaluation proper is given a deadline of its own.
ArmedCallsWithEvaluate == {"instantiate", "list_builtins", "list_entrypoints", "clear", "rewind"}

\* The calls that set_epoch_deadline precedes.
ArmedCalls == {"instantiate", "list_builtins", "list_entrypoints", "clear"}

\* eval calls back the builtins of the host, which push and pull their
\* values through StackHelper: an interruption there reaches the host as an
\* error of its own.
BuiltinReports == {"error"}

\* map_call_error reports an interruption as such; the calls of
\* StackHelper do not go through it.
ReportedAs(call) ==
  CASE call \in {"clear", "mark", "rewind"} -> {"deadline"}
    [] call = "eval" -> {"deadline"} \cup BuiltinReports
    [] OTHER -> {"error"}

-----------------------------------------------------------------------------
\* What a call leaves in memory.

Push(block) ==
  /\ top < MaxBlocks
  /\ memory' = [memory EXCEPT ![top + 1] = block]
  /\ top' = top + 1

SetHeap(pointer) == top' = pointer /\ memory' = memory

\* A setup works in a store and a memory of its own, which become the
\* evaluator's when it ends: the builtins, the text and the value of {}.
InstallSetup ==
  /\ memory' = [b \in Blocks |-> CASE b \in 1..2 -> Plain("text")
                                   [] b = 3 -> Plain("value")
                                   [] OTHER -> Plain("unused")]
  /\ top' = 3 /\ dataAddr' = 3 /\ baseHeap' = 3 /\ dataHeap' = 3
  /\ UNCHANGED inputAddr

\* A slip: the heap is given back down to the data only.
ClearEvaluation ==
  /\ SetHeap(dataHeap)
  /\ UNCHANGED <<policyVars, inputAddr>>

Clear ==
  /\ SetHeap(baseHeap)
  /\ UNCHANGED <<policyVars, inputAddr>>

ParseData(r) ==
  /\ Push(OfData("value", r))
  /\ dataAddr' = top + 1
  /\ UNCHANGED <<baseHeap, dataHeap, inputAddr>>

Mark ==
  /\ dataHeap' = top
  /\ UNCHANGED <<memory, top, dataAddr, baseHeap, inputAddr>>

\* A slip: the pointer that keeps the data is not the one used.
RewindToBase ==
  /\ SetHeap(baseHeap)
  /\ UNCHANGED <<policyVars, inputAddr>>

Rewind ==
  /\ SetHeap(dataHeap)
  /\ UNCHANGED <<policyVars, inputAddr>>

ParseInput(r) ==
  /\ Push(OfInput("value", r))
  /\ inputAddr' = top + 1
  /\ UNCHANGED policyVars

\* eval reads whatever lies at the two addresses it is given.
Result == [what |-> "result", data |-> memory[dataAddr].data, input |-> memory[inputAddr].input]

\* push_json_raw writes the text where opa_malloc has made room for it.
PushText(block) ==
  /\ Push(block)
  /\ UNCHANGED <<policyVars, inputAddr>>

DumpResult ==
  /\ Push([memory[top] EXCEPT !.what = "text"])
  /\ UNCHANGED <<policyVars, inputAddr>>

GuestReturns(call, r) ==
  \/ call \in {"instantiate", "builtins", "dump_builtins", "malloc_init", "parse_init"}
       /\ UNCHANGED burregoVars
  \/ call = "base" /\ InstallSetup
  \/ call \in {"list_builtins", "list_entrypoints"} /\ PushText(Plain("text"))
  \/ call = "clear" /\ Clear
  \/ call = "malloc_data" /\ PushText(OfData("text", r))
  \/ call = "parse_data" /\ ParseData(r)
  \/ call = "mark" /\ Mark
  \/ call = "rewind" /\ Rewind
  \/ call = "malloc_input" /\ PushText(OfInput("text", r))
  \/ call = "parse_input" /\ ParseInput(r)
  \/ call = "eval" /\ Push(Result) /\ UNCHANGED <<policyVars, inputAddr>>
  \/ call = "dump_result" /\ DumpResult

Allocating ==
  {"malloc_data", "parse_data", "malloc_input", "parse_input", "eval", "dump_result",
   "list_builtins", "list_entrypoints"}

\* A call that is cut short, or that fails, may leave a block behind.  The
\* host assigns the addresses only once a call has returned.
GuestStops(call) ==
  /\ \/ UNCHANGED <<memory, top>>
     \/ call \in Allocating /\ Push(Plain("torn"))
  /\ UNCHANGED <<policyVars, inputAddr>>
=============================================================================

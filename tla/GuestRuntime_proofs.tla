-------------------------- MODULE GuestRuntime_proofs --------------------------
(***************************************************************************)
(* For every deadline, number of requests and size of guest memory: the    *)
(* type invariant; that a Rego answer is that of its own request; that the *)
(* heap of a Rego guest is given back; that an operation has one deadline; *)
(* and that a deadline reported by validate leaves a fresh guest or a      *)
(* failed reset.                                                           *)
(***************************************************************************)
EXTENDS GuestRuntime, SequenceTheorems, TLAPS

-----------------------------------------------------------------------------
\* The parts of the inductive invariant.

\* The host is at a call of the program of its operation.
Located == Busy => at \in 1..Len(Program(op))

\* What has been recorded by the time an operation that keeps the outcome ends.
OutcomeKept ==
  /\ op = "build" => outcome.status = "none"
  /\ op = "reset" => outcome.status = "deadline"

\* How far the pointer of the allocator is when the host is at the k-th call.
Occupied(k) ==
  CASE k = 2 -> 3
    [] k = 3 -> 4
    [] k \in 4..6 -> 5
    [] k = 7 -> 6
    [] k = 8 -> 7
    [] OTHER -> 8

\* What an evaluation that is at its k-th call has put in memory.
Evaluating(k) ==
  /\ baseHeap = 3
  /\ IF k = 1 THEN top <= 9 ELSE top = Occupied(k)
  /\ k \in 4..9 => dataAddr = 5 /\ memory[5].data = request
  /\ k \in 5..9 => dataHeap = 5
  /\ k \in 8..9 => inputAddr = 7 /\ memory[7].input = request
  /\ k = 9 => memory[8].data = request /\ memory[8].input = request

\* What a build that is at its k-th call has put in memory.
Building(k) ==
  /\ k \in 1..6 => top = 0
  /\ k = 7 => top = 3 /\ baseHeap = 3
  /\ k = 8 => top = 4 /\ baseHeap = 3

\* An evaluator at rest, or resetting, has its base and room for an evaluation.
Serving == baseHeap = 3 /\ top <= 9

\* The memory of a Rego guest, whatever the host is doing.
GuestMemory ==
  kind = "rego" =>
    /\ op = "build" => Building(at)
    /\ op \in {"idle", "reset"} => Serving
    /\ op = "validate" => Evaluating(at)

\* The inductive invariant.
IInv ==
  /\ TypeOK
  /\ Located
  /\ OutcomeKept
  /\ GuestMemory
  /\ BudgetIsExact
  /\ ResultOfOwnRequest
  /\ DeadlineMeansFreshGuest

-----------------------------------------------------------------------------
\* The names of the calls of a build.
SetupNames ==
  {"instantiate", "builtins", "dump_builtins", "malloc_init", "parse_init", "base",
   "list_builtins", "list_entrypoints"}

\* The six calls of a setup.
LEMMA SetupProgram ==
  /\ SetupCalls \in Seq(SetupNames)
  /\ Len(SetupCalls) = 6
  /\ SetupCalls[1] = "instantiate" /\ SetupCalls[2] = "builtins"
  /\ SetupCalls[3] = "dump_builtins" /\ SetupCalls[4] = "malloc_init"
  /\ SetupCalls[5] = "parse_init" /\ SetupCalls[6] = "base"
<1> DEFINE helped == <<"instantiate">> \o HelperCalls
<1>1. <<"instantiate">> \in Seq(SetupNames)
  BY DEF SetupNames
<1>2. HelperCalls \in Seq(SetupNames)
  BY DEF HelperCalls, SetupNames
<1>3. PolicyCalls \in Seq(SetupNames)
  BY DEF PolicyCalls, SetupNames
<1>4. /\ helped \in Seq(SetupNames) /\ Len(helped) = 3
      /\ helped[1] = "instantiate" /\ helped[2] = "builtins" /\ helped[3] = "dump_builtins"
  BY <1>1, <1>2, ConcatProperties DEF HelperCalls
<1>5. SetupCalls = helped \o PolicyCalls
  BY DEF SetupCalls
<1> HIDE DEF helped
<1>6. /\ SetupCalls \in Seq(SetupNames)
      /\ Len(SetupCalls) = Len(helped) + Len(PolicyCalls)
      /\ \A k \in 1..(Len(helped) + Len(PolicyCalls)) :
           SetupCalls[k] = IF k <= Len(helped) THEN helped[k] ELSE PolicyCalls[k - Len(helped)]
  BY <1>3, <1>4, <1>5, ConcatProperties
<1>7. /\ Len(PolicyCalls) = 3
      /\ PolicyCalls[1] = "malloc_init" /\ PolicyCalls[2] = "parse_init" /\ PolicyCalls[3] = "base"
  BY DEF PolicyCalls
<1>8. QED
  BY <1>4, <1>6, <1>7

\* A build is a setup and two listings.
LEMMA BuildProgram ==
  /\ Len(BuildCalls) = 8
  /\ \A k \in 1..6 : BuildCalls[k] = SetupCalls[k]
  /\ BuildCalls[7] = "list_builtins" /\ BuildCalls[8] = "list_entrypoints"
<1>1. ListCalls \in Seq(SetupNames)
  BY DEF ListCalls, SetupNames
<1>2. Len(ListCalls) = 2 /\ ListCalls[1] = "list_builtins" /\ ListCalls[2] = "list_entrypoints"
  BY DEF ListCalls
<1>3. /\ Len(BuildCalls) = Len(SetupCalls) + Len(ListCalls)
      /\ \A k \in 1..(Len(SetupCalls) + Len(ListCalls)) :
           BuildCalls[k] =
             IF k <= Len(SetupCalls) THEN SetupCalls[k] ELSE ListCalls[k - Len(SetupCalls)]
  BY <1>1, SetupProgram, ConcatProperties DEF BuildCalls
<1>4. QED
  BY <1>2, <1>3, SetupProgram

\* What a Rego evaluator calls in each operation.
LEMMA RegoPrograms ==
  ASSUME kind = "rego"
  PROVE  /\ Program("build") = BuildCalls
         /\ Program("reset") = SetupCalls
         /\ Program("validate") = EvaluateCalls
         /\ Program("validate_settings") = <<>> /\ Program("protocol_version") = <<>>
  BY DEF Program, Calls

\* waPC and WASI guests are called at most once in an operation.
LEMMA OtherPrograms ==
  ASSUME kind \in {"wapc", "wasi"}, NEW o \in Operations
  PROVE  Program(o) \in {<<"wapc_init">>, <<"guest_call">>, <<"_start">>, <<>>}
<1>1. CASE kind = "wapc"
  BY <1>1 DEF Program, Calls, Operations
<1>2. CASE kind = "wasi"
  BY <1>2 DEF Program, Calls, Operations
<1>3. QED
  BY <1>1, <1>2

-----------------------------------------------------------------------------
\* What the calls do to the memory.

\* A push keeps the blocks below it.
LEMMA PushTyped ==
  ASSUME BurregoTypeOK, NEW block \in Block, Push(block),
         UNCHANGED <<policyVars, inputAddr>>
  PROVE  /\ BurregoTypeOK'
         /\ top' = top + 1 /\ top + 1 \in Blocks
         /\ memory'[top + 1] = block
         /\ \A b \in Blocks : b # top + 1 => memory'[b] = memory[b]
  BY BurregoBoundsAssumption DEF BurregoTypeOK, Push, Blocks, policyVars

\* The blocks the host pushes are blocks.
LEMMA BlocksTyped ==
  ASSUME NEW r \in 0..MaxRequests, NEW what \in {"unused", "text", "value", "result", "torn"}
  PROVE  Plain(what) \in Block /\ OfData(what, r) \in Block /\ OfInput(what, r) \in Block
  BY BurregoBoundsAssumption DEF Plain, OfData, OfInput, Block

\* Setting the heap pointer moves nothing else.
LEMMA SetHeapTyped ==
  ASSUME BurregoTypeOK, NEW p \in 0..MaxBlocks, SetHeap(p), UNCHANGED <<policyVars, inputAddr>>
  PROVE  BurregoTypeOK'
  BY DEF BurregoTypeOK, SetHeap, policyVars

\* A call that is cut short leaves one more block at most.
LEMMA StopsTyped ==
  ASSUME BurregoTypeOK, NEW call, GuestStops(call)
  PROVE  /\ BurregoTypeOK'
         /\ top' = top \/ (call \in Allocating /\ top' = top + 1)
         /\ baseHeap' = baseHeap
<1>1. CASE UNCHANGED <<memory, top>>
  BY <1>1 DEF GuestStops, BurregoTypeOK, policyVars
<1>2. CASE call \in Allocating /\ Push(Plain("torn"))
  <2>1. Plain("torn") \in Block
    BY BurregoBoundsAssumption DEF Plain, Block
  <2>2. QED
    BY <1>2, <2>1, PushTyped DEF GuestStops, policyVars
<1>3. QED
  BY <1>1, <1>2 DEF GuestStops

\* A setup leaves the memory alone up to its last call.
LEMMA SetupReturns ==
  ASSUME BurregoTypeOK, NEW r, NEW k \in 1..6, GuestReturns(SetupCalls[k], r)
  PROVE  /\ BurregoTypeOK'
         /\ k < 6 => UNCHANGED burregoVars
         /\ k = 6 => top' = 3 /\ baseHeap' = 3
<1>1. CASE k < 6
  <2>1. SetupCalls[k] \in {"instantiate", "builtins", "dump_builtins", "malloc_init", "parse_init"}
    BY <1>1, SetupProgram
  <2>2. UNCHANGED burregoVars
    BY <2>1 DEF GuestReturns
  <2>3. QED
    BY <1>1, <2>2 DEF BurregoTypeOK, burregoVars, policyVars
<1>2. CASE k = 6
  <2>1. InstallSetup
    BY <1>2, SetupProgram DEF GuestReturns
  <2>2. BurregoTypeOK'
    BY <2>1, BurregoBoundsAssumption DEF InstallSetup, BurregoTypeOK, Block, Blocks, Plain
  <2>3. QED
    BY <1>2, <2>1, <2>2 DEF InstallSetup
<1>3. QED
  BY <1>1, <1>2

\* A build goes on to list what the policy holds.
LEMMA BuildReturns ==
  ASSUME BurregoTypeOK, NEW r, NEW k \in 1..8, Building(k), GuestReturns(BuildCalls[k], r)
  PROVE  /\ BurregoTypeOK'
         /\ k < 8 => Building(k + 1)'
         /\ k = 8 => Serving'
<1>1. CASE k <= 6
  <2>1. GuestReturns(SetupCalls[k], r)
    BY <1>1, BuildProgram
  <2>2. QED
    BY <1>1, <2>1, SetupReturns DEF Building, burregoVars, policyVars
<1>2. CASE k \in 7..8
  <2>1. PushText(Plain("text"))
    BY <1>2, BuildProgram DEF GuestReturns
  <2>2. Plain("text") \in Block
    BY BurregoBoundsAssumption DEF Plain, Block
  <2>3. BurregoTypeOK' /\ top' = top + 1 /\ baseHeap' = baseHeap
    BY <2>1, <2>2, PushTyped DEF PushText, policyVars
  <2>4. QED
    BY <1>2, <2>3 DEF Building, Serving
<1>3. QED
  BY <1>1, <1>2

\* An evaluation puts the data and the input of its request where eval reads
\* them, and the result where the host reads it.
LEMMA EvaluationReturns ==
  ASSUME BurregoTypeOK, request \in 0..MaxRequests, request' = request,
         NEW k \in 1..9, Evaluating(k), GuestReturns(EvaluateCalls[k], request)
  PROVE  /\ BurregoTypeOK'
         /\ k < 9 => Evaluating(k + 1)'
         /\ k = 9 => Serving'
<1> USE DEF EvaluateCalls
<1>1. CASE k = 1
  <2>1. SetHeap(3) /\ UNCHANGED <<policyVars, inputAddr>>
    BY <1>1 DEF GuestReturns, Clear, Evaluating
  <2>2. BurregoTypeOK'
    BY <2>1, SetHeapTyped, BurregoBoundsAssumption
  <2>3. QED
    BY <1>1, <2>1, <2>2 DEF Evaluating, Occupied, SetHeap, policyVars
<1>2. CASE k = 2
  <2>1. PushText(OfData("text", request))
    BY <1>2 DEF GuestReturns
  <2>2. BurregoTypeOK' /\ top' = top + 1
    BY <2>1, BlocksTyped, PushTyped DEF PushText
  <2>3. QED
    BY <1>2, <2>1, <2>2 DEF Evaluating, Occupied, PushText, policyVars
<1>3. CASE k = 3
  <2>1. ParseData(request) /\ top = 4
    BY <1>3 DEF GuestReturns, Evaluating, Occupied
  <2>2. OfData("value", request) \in Block
    BY BlocksTyped
  <2>3. BurregoTypeOK'
    BY <2>1, <2>2, BurregoBoundsAssumption DEF ParseData, Push, BurregoTypeOK, Blocks
  <2>4. memory'[5].data = request
    BY <2>1, BurregoBoundsAssumption DEF ParseData, Push, BurregoTypeOK, Blocks, OfData
  <2>5. QED
    BY <1>3, <2>1, <2>3, <2>4 DEF Evaluating, Occupied, ParseData, Push
<1>4. CASE k = 4
  <2>1. Mark
    BY <1>4 DEF GuestReturns
  <2>2. QED
    BY <1>4, <2>1 DEF Mark, BurregoTypeOK, Evaluating, Occupied
<1>5. CASE k = 5
  <2>1. SetHeap(5) /\ UNCHANGED <<policyVars, inputAddr>> /\ dataHeap = 5
    BY <1>5 DEF GuestReturns, Rewind, Evaluating
  <2>2. BurregoTypeOK'
    BY <2>1, SetHeapTyped, BurregoBoundsAssumption
  <2>3. QED
    BY <1>5, <2>1, <2>2 DEF Evaluating, Occupied, SetHeap, policyVars
<1>6. CASE k = 6
  <2>1. PushText(OfInput("text", request)) /\ top = 5
    BY <1>6 DEF GuestReturns, Evaluating, Occupied
  <2>2. /\ BurregoTypeOK' /\ top' = 6
        /\ \A b \in Blocks : b # 6 => memory'[b] = memory[b]
    BY <2>1, BlocksTyped, PushTyped DEF PushText
  <2>3. 5 \in Blocks
    BY BurregoBoundsAssumption DEF Blocks
  <2>4. QED
    BY <1>6, <2>1, <2>2, <2>3 DEF Evaluating, Occupied, PushText, policyVars
<1>7. CASE k = 7
  <2>1. ParseInput(request) /\ top = 6
    BY <1>7 DEF GuestReturns, Evaluating, Occupied
  <2>2. OfInput("value", request) \in Block
    BY BlocksTyped
  <2>3. BurregoTypeOK'
    BY <2>1, <2>2, BurregoBoundsAssumption DEF ParseInput, Push, BurregoTypeOK, Blocks, policyVars
  <2>4. memory'[7].input = request /\ memory'[5] = memory[5]
    BY <2>1, BurregoBoundsAssumption DEF ParseInput, Push, BurregoTypeOK, Blocks, OfInput
  <2>5. QED
    BY <1>7, <2>1, <2>3, <2>4 DEF Evaluating, Occupied, ParseInput, Push, policyVars
<1>8. CASE k = 8
  <2>1. Push(Result) /\ top = 7 /\ UNCHANGED <<policyVars, inputAddr>>
    BY <1>8 DEF GuestReturns, Evaluating, Occupied
  <2>2. Result.data = request /\ Result.input = request
    BY <1>8 DEF Result, Evaluating
  <2>3. Result \in Block
    BY <2>2 DEF Result, Block
  <2>4. /\ BurregoTypeOK' /\ top' = 8
        /\ memory'[8] = Result
        /\ \A b \in Blocks : b # 8 => memory'[b] = memory[b]
    BY <2>1, <2>3, PushTyped
  <2>5. {5, 7} \subseteq Blocks
    BY BurregoBoundsAssumption DEF Blocks
  <2>6. QED
    BY <1>8, <2>1, <2>2, <2>4, <2>5 DEF Evaluating, Occupied, policyVars
<1>9. CASE k = 9
  <2>1. DumpResult /\ top = 8 /\ baseHeap = 3
    BY <1>9 DEF GuestReturns, Evaluating, Occupied
  <2>2. memory[8] \in Block
    BY BurregoBoundsAssumption DEF BurregoTypeOK, Blocks
  <2>3. [memory[8] EXCEPT !.what = "text"] \in Block
    BY <2>2 DEF Block
  <2>4. BurregoTypeOK' /\ top' = 9
    BY <2>1, <2>3, PushTyped DEF DumpResult
  <2>5. QED
    BY <1>9, <2>1, <2>4 DEF DumpResult, Serving, policyVars
<1>10. QED
  BY <1>1, <1>2, <1>3, <1>4, <1>5, <1>6, <1>7, <1>8, <1>9

\* An evaluation that is cut short leaves at most six blocks above the base.
LEMMA EvaluationStops ==
  ASSUME BurregoTypeOK, NEW k \in 1..9, Evaluating(k), GuestStops(EvaluateCalls[k])
  PROVE  BurregoTypeOK' /\ Serving'
<1>1. EvaluateCalls[1] \notin Allocating
  BY DEF EvaluateCalls, Allocating
<1>2. /\ BurregoTypeOK' /\ baseHeap' = baseHeap
      /\ top' = top \/ (EvaluateCalls[k] \in Allocating /\ top' = top + 1)
  BY StopsTyped
<1>3. QED
  BY <1>1, <1>2 DEF Serving, Evaluating, Occupied

-----------------------------------------------------------------------------
\* What the host relies on when a call returns or stops.

\* The number of guest calls of an operation.
LEMMA ProgramLength ==
  ASSUME kind \in Kinds, NEW o \in Operations
  PROVE  /\ Len(Program(o)) \in 0..9
         /\ kind = "rego" /\ Len(Program(o)) > 0 =>
              \/ o = "build" /\ Len(Program(o)) = 8
              \/ o = "reset" /\ Len(Program(o)) = 6
              \/ o = "validate" /\ Len(Program(o)) = 9
         /\ kind # "wasi" /\ o \in {"build", "reset", "validate"} => Len(Program(o)) > 0
<1>1. CASE kind = "rego"
  <2> DEFINE n == Len(Program(o))
  <2>1. Len(EvaluateCalls) = 9 /\ Len(<<>>) = 0
    BY DEF EvaluateCalls
  <2>2. \/ o = "build" /\ n = 8
        \/ o = "reset" /\ n = 6
        \/ o = "validate" /\ n = 9
        \/ o \in {"validate_settings", "protocol_version"} /\ n = 0
    <3>1. o = "build" => n = 8
      BY <1>1, RegoPrograms, BuildProgram
    <3>2. o = "reset" => n = 6
      BY <1>1, RegoPrograms, SetupProgram
    <3>3. o = "validate" => n = 9
      BY <1>1, <2>1, RegoPrograms
    <3>4. o \in {"validate_settings", "protocol_version"} => n = 0
      BY <1>1, <2>1, RegoPrograms
    <3> HIDE DEF n
    <3>5. QED
      BY <3>1, <3>2, <3>3, <3>4 DEF Operations
  <2> HIDE DEF n
  <2>3. /\ n \in 0..9
        /\ n > 0 => \/ o = "build" /\ n = 8
                    \/ o = "reset" /\ n = 6
                    \/ o = "validate" /\ n = 9
        /\ o \in {"build", "reset", "validate"} => n > 0
    BY <2>2
  <2>4. QED
    BY <2>3 DEF n
<1>2. CASE kind \in {"wapc", "wasi"}
  <2>1. Program(o) = <<>> \/ Len(Program(o)) = 1
    BY <1>2, OtherPrograms
  <2>2. kind = "wapc" => Program(o) # <<>>
    BY DEF Program, Calls, Operations
  <2>3. QED
    BY <1>2, <2>1, <2>2
<1>3. QED
  BY <1>1, <1>2 DEF Kinds

\* After the first call of an operation no other sets a deadline.
LEMMA ArmedOnce ==
  ASSUME kind \in Kinds, NEW o \in Operations \ {"build"}, NEW i \in 1..Len(Program(o))
  PROVE  Armed(Program(o)[i]) <=> i = 1
<1>1. CASE kind = "rego" /\ o = "reset"
  BY <1>1, RegoPrograms, SetupProgram DEF Armed, ArmedCalls
<1>2. CASE kind = "rego" /\ o = "validate"
  BY <1>2, RegoPrograms DEF Armed, ArmedCalls, EvaluateCalls
<1>3. CASE kind = "rego" /\ o \in {"validate_settings", "protocol_version"}
  <2>1. Len(Program(o)) = 0
    BY <1>3, RegoPrograms
  <2>2. QED
    BY <2>1
<1>4. CASE kind \in {"wapc", "wasi"}
  BY <1>4, OtherPrograms DEF Armed
<1>5. QED
  BY <1>1, <1>2, <1>3, <1>4 DEF Kinds, Operations

\* A call that returns takes the memory to where the next call expects it.
LEMMA MemoryReturns ==
  ASSUME TypeOK, Located, GuestMemory, Returns, NEW CONSTANT k, at = k
  PROVE  /\ BurregoTypeOK'
         /\ kind = "rego" =>
              /\ k < Len(Program(op)) =>
                   /\ op = "build" => Building(k + 1)'
                   /\ op = "reset" => Serving'
                   /\ op = "validate" => Evaluating(k + 1)'
              /\ k = Len(Program(op)) => Serving'
<1>1. CASE kind # "rego"
  BY <1>1 DEF Returns, TypeOK, BurregoTypeOK, burregoVars, policyVars
<1>2. CASE kind = "rego"
  <2>1. /\ op \in Operations /\ k \in 1..Len(Program(op))
        /\ GuestReturns(Program(op)[k], request)
        /\ BurregoTypeOK /\ request \in 0..MaxRequests /\ request' = request
    BY <1>2 DEF Returns, Busy, Located, Call, TypeOK
  <2>2. \/ op = "build" /\ Len(Program(op)) = 8
        \/ op = "reset" /\ Len(Program(op)) = 6
        \/ op = "validate" /\ Len(Program(op)) = 9
    BY <1>2, <2>1, ProgramLength DEF Kinds
  <2>3. CASE op = "build"
    BY <1>2, <2>1, <2>2, <2>3, RegoPrograms, BuildReturns DEF GuestMemory
  <2>4. CASE op = "reset"
    <3>1. BurregoTypeOK' /\ (k < 6 => UNCHANGED burregoVars) /\ (k = 6 => top' = 3 /\ baseHeap' = 3)
      BY <1>2, <2>1, <2>2, <2>4, RegoPrograms, SetupReturns
    <3>2. Serving
      BY <1>2, <2>4 DEF GuestMemory
    <3>3. QED
      BY <2>1, <2>2, <2>4, <3>1, <3>2 DEF Serving, burregoVars, policyVars
  <2>5. CASE op = "validate"
    BY <1>2, <2>1, <2>2, <2>5, RegoPrograms, EvaluationReturns DEF GuestMemory
  <2>6. QED
    BY <2>2, <2>3, <2>4, <2>5
<1>3. QED
  BY <1>1, <1>2

\* A call that stops leaves a memory the evaluator can go on with.
LEMMA MemoryStops ==
  ASSUME TypeOK, Located, GuestMemory, Stops
  PROVE  /\ BurregoTypeOK'
         /\ kind = "rego" /\ op # "build" => Serving'
<1>1. CASE kind # "rego"
  BY <1>1 DEF Stops, TypeOK, BurregoTypeOK, burregoVars, policyVars
<1>2. CASE kind = "rego" /\ place # "guest"
  <2>1. UNCHANGED burregoVars /\ BurregoTypeOK
    BY <1>2 DEF Stops, TypeOK
  <2>2. op # "build" => Serving
    <3>1. op \in Operations /\ at \in 1..Len(Program(op)) /\ kind \in Kinds
      BY DEF Stops, Busy, Located, TypeOK
    <3>2. Len(Program(op)) > 0
      BY <3>1, ProgramLength
    <3>3. op \in {"build", "reset", "validate"}
      BY <1>2, <3>1, <3>2, ProgramLength
    <3>4. op = "validate" => Evaluating(at)
      BY <1>2 DEF GuestMemory
    <3>5. op = "reset" => Serving
      BY <1>2 DEF GuestMemory
    <3>6. op = "validate" => Serving
      BY <3>4 DEF Evaluating, Occupied, Serving
    <3> QED BY <3>3, <3>5, <3>6
  <2> QED BY <2>1, <2>2 DEF burregoVars, policyVars, BurregoTypeOK, Serving
<1>3. CASE kind = "rego" /\ place = "guest"
  <2>1. /\ op \in Operations /\ at \in 1..Len(Program(op))
        /\ GuestStops(Program(op)[at])
        /\ BurregoTypeOK
    BY <1>3 DEF Stops, Busy, Located, Call, TypeOK
  <2>2. \/ op = "build" /\ Len(Program(op)) = 8
        \/ op = "reset" /\ Len(Program(op)) = 6
        \/ op = "validate" /\ Len(Program(op)) = 9
    BY <1>3, <2>1, ProgramLength DEF Kinds
  <2>3. CASE op = "build"
    BY <2>1, <2>3, StopsTyped
  <2>4. CASE op = "reset"
    <3>1. Program(op)[at] \notin Allocating
      BY <1>3, <2>1, <2>2, <2>4, RegoPrograms, SetupProgram DEF Allocating
    <3>2. BurregoTypeOK' /\ top' = top /\ baseHeap' = baseHeap
      BY <2>1, <3>1, StopsTyped
    <3>3. QED
      BY <1>3, <2>4, <3>2 DEF GuestMemory, Serving
  <2>5. CASE op = "validate"
    BY <1>3, <2>1, <2>2, <2>5, RegoPrograms, EvaluationStops DEF GuestMemory
  <2>6. QED
    BY <2>2, <2>3, <2>4, <2>5
<1>4. QED
  BY <1>1, <1>2, <1>3

-----------------------------------------------------------------------------
\* The steps.

\* A rehydrated evaluator is at the first call of its build, or idle.
LEMMA InitIInv == Init => IInv
<1> SUFFICES ASSUME Init PROVE IInv
  OBVIOUS
<1>1. TypeOK
  <2>1. BurregoTypeOK
    BY BurregoBoundsAssumption DEF Init, BurregoInit, BurregoTypeOK, Blocks, Block, Plain
  <2>2. outcome \in Outcome
    BY BurregoBoundsAssumption DEF Init, Outcome, Ended
  <2>3. op \in {"build", "idle"}
    BY DEF Init
  <2>4. left \in 0..Deadline /\ spent \in 0..Deadline /\ at \in 1..9 /\ request \in 0..MaxRequests
    BY BurregoBoundsAssumption, DeadlineAssumption DEF Init
  <2>5. cut \in BOOLEAN /\ unreset \in BOOLEAN /\ kind \in Kinds /\ place = "entry"
    BY DEF Init
  <2>6. QED
    BY <2>1, <2>2, <2>3, <2>4, <2>5 DEF TypeOK, Operations
<1>2. Located
  <2>1. op = "build" => Program("build") # <<>>
    BY DEF Init, Program
  <2>2. op = "build" => Len(Program("build")) > 0
    BY <1>1, <2>1, ProgramLength, OtherPrograms DEF TypeOK, Kinds, Operations
  <2>3. QED
    BY <1>1, <2>2, ProgramLength DEF Init, Located, Busy, TypeOK, Operations
<1>3. OutcomeKept /\ GuestMemory /\ BudgetIsExact /\ ResultOfOwnRequest /\ DeadlineMeansFreshGuest
  <2>1. kind = "rego" => op = "build"
    <3>1. kind = "rego" => Len(Calls[kind]["build"]) = 8
      BY RegoPrograms, BuildProgram DEF Program
    <3>2. Len(<<>>) = 0
      OBVIOUS
    <3>3. QED
      BY <3>1, <3>2 DEF Init
  <2>2. op \in {"build", "idle"} /\ outcome.status = "none" /\ at = 1
    BY DEF Init, Ended
  <2>3. top = 0
    BY DEF Init, BurregoInit
  <2>4. QED
    BY <2>1, <2>2, <2>3
    DEF OutcomeKept, GuestMemory, Building, BudgetIsExact, ResultOfOwnRequest,
        DeadlineMeansFreshGuest, Operations
<1>4. QED
  BY <1>1, <1>2, <1>3 DEF IInv

\* An operation that begins has a full deadline.
LEMMA BeginStep ==
  ASSUME TypeOK, kind' = kind, NEW o \in Operations \ {"build"}, Len(Program(o)) > 0, Begin(o)
  PROVE  /\ op' = o /\ at' = 1 /\ place' = "entry" /\ left' = Deadline /\ spent' = 0
         /\ Located' /\ BudgetIsExact'
<1>1. Len(Program(o)) \in 0..9
  BY ProgramLength DEF TypeOK
<1>2. Armed(Program(o)[1])
  BY <1>1, ArmedOnce DEF TypeOK
<1>3. op' = o /\ at' = 1 /\ place' = "entry" /\ left' = Deadline /\ spent' = 0
  BY <1>2 DEF Begin, Reach, Program
<1>4. Program(o)' = Program(o)
  BY DEF Program
<1>5. QED
  BY <1>1, <1>3, <1>4, DeadlineAssumption DEF Located, BudgetIsExact, Program

\* The outcomes that carry no result.
LEMMA OutcomeTyped ==
  ASSUME NEW status \in {"none", "answered", "refused", "deadline", "error"}
  PROVE  Ended(status) \in Outcome /\ Ended(status).status = status
  BY BurregoBoundsAssumption DEF Ended, Outcome

\* An operation that enters the guest starts from what the last one left.
LEMMA EnterStep ==
  ASSUME IInv, NEW o \in Operations \ {"build", "reset"}, Enter(o)
  PROVE  IInv'
<1>1. /\ TypeOK /\ op = "idle" /\ request < MaxRequests /\ request' = request + 1
      /\ UNCHANGED <<kind, cut, unreset, burregoVars>>
      /\ Begin(o) /\ outcome' = Ended("none")
  BY DEF IInv, Enter, Ask
<1>2. Len(Program(o)) > 0
  <2>1. kind = "rego" \/ kind \in {"wapc", "wasi"}
    BY <1>1 DEF TypeOK, Kinds
  <2>2. CASE kind = "rego"
    BY <2>2, RegoPrograms DEF Enter, Operations, EvaluateCalls
  <2>3. CASE kind \in {"wapc", "wasi"}
    BY <2>3, OtherPrograms DEF Enter
  <2>4. QED
    BY <2>1, <2>2, <2>3
<1>3. /\ op' = o /\ at' = 1 /\ place' = "entry" /\ left' = Deadline /\ spent' = 0
      /\ Located' /\ BudgetIsExact'
  BY <1>1, <1>2, BeginStep
<1>4. outcome' \in Outcome /\ outcome'.status = "none"
  BY <1>1, OutcomeTyped
<1>5. BurregoTypeOK'
  BY <1>1 DEF TypeOK, BurregoTypeOK, burregoVars, policyVars
<1>6. TypeOK'
  BY <1>1, <1>3, <1>4, <1>5, DeadlineAssumption, BurregoBoundsAssumption DEF TypeOK
<1>7. GuestMemory'
  <2>1. kind = "rego" => o = "validate"
    BY <1>1, <1>2, ProgramLength DEF TypeOK
  <2>2. kind = "rego" => Serving
    BY <1>1 DEF IInv, GuestMemory
  <2>3. QED
    BY <1>1, <1>3, <2>1, <2>2 DEF GuestMemory, Evaluating, Serving, burregoVars, policyVars
<1>8. OutcomeKept' /\ ResultOfOwnRequest' /\ DeadlineMeansFreshGuest'
  BY <1>3, <1>4 DEF OutcomeKept, ResultOfOwnRequest, DeadlineMeansFreshGuest, Operations
<1>9. QED
  BY <1>3, <1>6, <1>7, <1>8 DEF IInv

\* An operation answered by the host touches no memory.
LEMMA RefuseStep ==
  ASSUME IInv, Refuse
  PROVE  IInv'
<1>1. /\ TypeOK /\ op = "idle" /\ request < MaxRequests /\ request' = request + 1
      /\ UNCHANGED <<kind, cut, unreset, burregoVars>>
      /\ op' = "idle" /\ at' = 1 /\ place' = "entry" /\ outcome' = Ended("refused")
      /\ UNCHANGED <<left, spent>>
  BY DEF IInv, Refuse, Ask, Idle
<1>2. outcome' \in Outcome /\ outcome'.status = "refused"
  BY <1>1, OutcomeTyped
<1>3. BurregoTypeOK'
  BY <1>1 DEF TypeOK, BurregoTypeOK, burregoVars, policyVars
<1>4. TypeOK'
  BY <1>1, <1>2, <1>3, BurregoBoundsAssumption DEF TypeOK
<1>5. GuestMemory'
  BY <1>1 DEF IInv, GuestMemory, Serving, burregoVars, policyVars
<1>6. QED
  BY <1>1, <1>2, <1>4, <1>5
  DEF IInv, Located, Busy, OutcomeKept, BudgetIsExact, ResultOfOwnRequest,
      DeadlineMeansFreshGuest, Operations

\* A tick moves time from what is left to what is spent.
LEMMA TickStep ==
  ASSUME IInv, Tick
  PROVE  IInv'
<1>1. /\ TypeOK /\ op \in Operations /\ left > 0 /\ left' = left - 1
      /\ spent' = IF spent < Deadline THEN spent + 1 ELSE spent
      /\ UNCHANGED <<kind, op, at, place, cut, unreset, request, outcome, burregoVars>>
  BY DEF IInv, Tick, Busy
<1>2. left' \in 0..Deadline /\ spent' \in 0..Deadline
  BY <1>1, DeadlineAssumption DEF TypeOK
<1>3. BurregoTypeOK'
  BY <1>1 DEF TypeOK, BurregoTypeOK, burregoVars, policyVars
<1>4. TypeOK'
  BY <1>1, <1>2, <1>3 DEF TypeOK
<1>5. BudgetIsExact'
  BY <1>1, DeadlineAssumption DEF IInv, TypeOK, BudgetIsExact
<1>6. GuestMemory'
  BY <1>1
  DEF IInv, GuestMemory, Building, Serving, Evaluating, burregoVars, policyVars
<1>7. QED
  BY <1>1, <1>4, <1>5, <1>6
  DEF IInv, Located, Busy, Program, OutcomeKept, ResultOfOwnRequest, DeadlineMeansFreshGuest

\* A call that enters its guest, calls the host or returns from it is the same
\* call of the same operation.
LEMMA PlaceStep ==
  ASSUME IInv, EnterGuest \/ CallHost \/ HostReturns
  PROVE  IInv'
<1>1. /\ TypeOK /\ op \in Operations /\ place' \in {"guest", "host"}
      /\ UNCHANGED <<kind, op, at, left, spent, cut, unreset, request, outcome, burregoVars>>
  BY DEF IInv, EnterGuest, CallHost, HostReturns, Busy
<1>2. BurregoTypeOK'
  BY <1>1 DEF TypeOK, BurregoTypeOK, burregoVars, policyVars
<1>3. TypeOK'
  BY <1>1, <1>2 DEF TypeOK
<1>4. GuestMemory'
  BY <1>1
  DEF IInv, GuestMemory, Building, Serving, Evaluating, burregoVars, policyVars
<1>5. QED
  BY <1>1, <1>3, <1>4
  DEF IInv, Located, Busy, Program, OutcomeKept, BudgetIsExact, ResultOfOwnRequest,
      DeadlineMeansFreshGuest

\* The next call of an operation goes on within the same deadline.
LEMMA ProceedStep ==
  ASSUME IInv, Proceed
  PROVE  IInv'
<1>1. PICK k \in Nat : at = k
  BY DEF IInv, TypeOK
<1>2. /\ TypeOK /\ op \in Operations /\ k \in 1..Len(Program(op))
      /\ k < Len(Program(op)) /\ Reach(op, k + 1)
      /\ UNCHANGED <<kind, spent, cut, unreset, request, outcome>>
  BY <1>1 DEF IInv, Proceed, Returns, Busy, Located
<1>3. Len(Program(op)) \in 0..9
  BY <1>2, ProgramLength DEF TypeOK
<1>4. /\ op' = op /\ at' = k + 1 /\ place' = "entry"
      /\ left' = IF Armed(Program(op)[k + 1]) THEN Deadline ELSE left
  BY <1>2 DEF Reach, Program
<1>5. Program(op)' = Program(op)
  BY <1>2, <1>4 DEF Program
<1>6. /\ BurregoTypeOK'
      /\ kind = "rego" =>
           /\ op = "build" => Building(k + 1)'
           /\ op = "reset" => Serving'
           /\ op = "validate" => Evaluating(k + 1)'
  BY <1>1, <1>2, MemoryReturns DEF IInv, Proceed
<1>7. TypeOK'
  <2>1. at' \in 1..9 /\ op' \in Operations
    BY <1>2, <1>3, <1>4
  <2>2. left' \in 0..Deadline
    BY <1>2, <1>4, DeadlineAssumption DEF TypeOK
  <2>3. QED
    BY <1>2, <1>4, <1>6, <2>1, <2>2 DEF TypeOK
<1>8. Located'
  BY <1>2, <1>3, <1>4, <1>5 DEF Located
<1>9. BudgetIsExact'
  <2>1. op # "build" => left' = left
    BY <1>2, <1>3, <1>4, ArmedOnce DEF TypeOK
  <2>2. QED
    BY <1>2, <1>4, <2>1 DEF IInv, BudgetIsExact
<1>10. GuestMemory'
  BY <1>2, <1>4, <1>6 DEF GuestMemory, Building, Evaluating, Operations
<1>11. QED
  BY <1>2, <1>4, <1>7, <1>8, <1>9, <1>10
  DEF IInv, OutcomeKept, ResultOfOwnRequest, DeadlineMeansFreshGuest, Operations

\* What a validate of a Rego policy answers is what eval made of its request.
LEMMA AnswerIsOwn ==
  ASSUME IInv, Busy, op \notin {"build", "reset"}, at = Len(Program(op))
  PROVE  /\ Answer \in Outcome /\ Answer.status = "answered"
         /\ kind = "rego" => Answer.data = request /\ Answer.input = request
<1>1. CASE kind = "rego"
  <2>1. op = "validate" /\ at = 9
    <3>1. op \in Operations /\ kind \in Kinds /\ at \in 1..Len(Program(op))
      BY DEF IInv, TypeOK, Located, Busy
    <3>2. Len(Program(op)) > 0
      BY <3>1, ProgramLength
    <3>3. QED
      BY <1>1, <3>1, <3>2, ProgramLength
  <2>2. memory[top].data = request /\ memory[top].input = request
    BY <1>1, <2>1 DEF IInv, GuestMemory, Evaluating, Occupied
  <2>3. QED
    BY <1>1, <2>2 DEF Answer, Outcome, IInv, TypeOK
<1>2. CASE kind # "rego"
  BY <1>2, OutcomeTyped DEF Answer
<1>3. QED
  BY <1>1, <1>2

\* The last call of an operation: its answer, or the new store.
LEMMA FinishStep ==
  ASSUME IInv, Finish
  PROVE  IInv'
<1>1. PICK k \in Nat : at = k
  BY DEF IInv, TypeOK
<1>2. /\ TypeOK /\ Busy /\ op \in Operations /\ k = Len(Program(op))
      /\ op' = "idle" /\ at' = 1 /\ place' = "entry"
      /\ UNCHANGED <<kind, left, spent, request>>
      /\ outcome' = IF op \in {"build", "reset"} THEN outcome ELSE Answer
      /\ cut' = (cut /\ op # "reset") /\ unreset' = (unreset /\ op # "reset")
  BY <1>1 DEF IInv, Finish, Returns, Busy, Idle
<1>3. BurregoTypeOK' /\ (kind = "rego" => Serving')
  BY <1>1, <1>2, MemoryReturns DEF IInv, Finish
<1>4. op \notin {"build", "reset"} =>
        /\ Answer \in Outcome /\ Answer.status = "answered"
        /\ kind = "rego" => Answer.data = request /\ Answer.input = request
  BY <1>1, <1>2, AnswerIsOwn
<1>5. outcome' \in Outcome
  BY <1>2, <1>4 DEF TypeOK
<1>6. cut' \in BOOLEAN /\ unreset' \in BOOLEAN
  BY <1>2
<1>7. TypeOK'
  BY <1>2, <1>3, <1>5, <1>6 DEF TypeOK
<1>8. GuestMemory'
  BY <1>2, <1>3 DEF GuestMemory
<1>9. Located' /\ OutcomeKept' /\ BudgetIsExact'
  BY <1>2 DEF Located, Busy, OutcomeKept, BudgetIsExact, Operations
<1>10. ResultOfOwnRequest'
  BY <1>2, <1>4 DEF IInv, OutcomeKept, ResultOfOwnRequest
<1>11. DeadlineMeansFreshGuest'
  <2>1. CASE op = "reset"
    BY <1>2, <2>1 DEF DeadlineMeansFreshGuest
  <2>2. CASE op # "reset"
    BY <1>2, <1>4, <2>2 DEF IInv, OutcomeKept, DeadlineMeansFreshGuest
  <2>3. QED
    BY <2>1, <2>2
<1>12. QED
  BY <1>7, <1>8, <1>9, <1>10, <1>11 DEF IInv

\* An operation without an answer, whether a call failed or was interrupted.
LEMMA GiveUpStep ==
  ASSUME IInv, Stops, GiveUp, cut' \in BOOLEAN
  PROVE  IInv'
<1>1. /\ TypeOK /\ op \in Operations /\ UNCHANGED <<kind, request>>
  BY DEF IInv, Stops, Busy
<1>2. BurregoTypeOK' /\ (kind = "rego" /\ op # "build" => Serving')
  BY MemoryStops DEF IInv
<1>3. CASE op = "build"
  <2>1. op' = "gone" /\ at' = 1 /\ place' = "entry" /\ UNCHANGED <<left, spent, unreset, outcome>>
    BY <1>3 DEF GiveUp
  <2>2. TypeOK'
    BY <1>1, <1>2, <2>1 DEF TypeOK
  <2>3. QED
    BY <2>1, <2>2
    DEF IInv, Located, Busy, OutcomeKept, GuestMemory, BudgetIsExact, ResultOfOwnRequest,
        DeadlineMeansFreshGuest, Operations
<1>4. CASE op = "reset"
  <2>1. /\ op' = "idle" /\ at' = 1 /\ place' = "entry"
        /\ UNCHANGED <<left, spent, outcome>> /\ unreset' = TRUE
    BY <1>4 DEF GiveUp, Idle
  <2>2. TypeOK'
    BY <1>1, <1>2, <2>1 DEF TypeOK
  <2>3. GuestMemory' /\ ResultOfOwnRequest' /\ DeadlineMeansFreshGuest'
    BY <1>1, <1>2, <1>4, <2>1
    DEF IInv, OutcomeKept, GuestMemory, ResultOfOwnRequest, DeadlineMeansFreshGuest
  <2>4. QED
    BY <2>1, <2>2, <2>3 DEF IInv, Located, Busy, OutcomeKept, BudgetIsExact, Operations
<1>5. CASE op \notin {"build", "reset"}
  <2>1. /\ op' = "idle" /\ at' = 1 /\ place' = "entry" /\ UNCHANGED <<left, spent, unreset>>
        /\ outcome' = Ended("error")
    BY <1>5 DEF GiveUp, Idle
  <2>2. outcome' \in Outcome /\ outcome'.status = "error"
    BY <2>1, OutcomeTyped
  <2>3. TypeOK'
    BY <1>1, <1>2, <2>1, <2>2 DEF TypeOK
  <2>4. GuestMemory' /\ ResultOfOwnRequest' /\ DeadlineMeansFreshGuest'
    BY <1>1, <1>2, <1>5, <2>1, <2>2
    DEF GuestMemory, ResultOfOwnRequest, DeadlineMeansFreshGuest
  <2>5. QED
    BY <2>1, <2>3, <2>4 DEF IInv, Located, Busy, OutcomeKept, BudgetIsExact, Operations
<1>6. QED
  BY <1>3, <1>4, <1>5

\* An interrupted validate begins a reset, with a deadline of its own.
LEMMA InterruptAndResetStep ==
  ASSUME IInv, InterruptAndReset
  PROVE  IInv'
<1>1. /\ TypeOK /\ op = "validate" /\ Stops /\ UNCHANGED <<kind, request, unreset>>
      /\ Begin("reset") /\ outcome' = Ended("deadline")
      /\ cut' = (cut \/ (op \notin {"build", "reset"} /\ kind # "wasi"))
  BY DEF IInv, InterruptAndReset, Stopped, Stops
<1>2. kind # "wasi"
  BY DEF InterruptAndReset, Reports
<1>3. "reset" \in Operations \ {"build"} /\ Len(Program("reset")) > 0
  BY <1>1, <1>2, ProgramLength DEF TypeOK, Operations
<1>4. /\ op' = "reset" /\ at' = 1 /\ place' = "entry" /\ left' = Deadline /\ spent' = 0
      /\ Located' /\ BudgetIsExact'
  BY <1>1, <1>3, BeginStep
<1>5. outcome' \in Outcome /\ outcome'.status = "deadline"
  BY <1>1, OutcomeTyped
<1>6. BurregoTypeOK' /\ (kind = "rego" => Serving')
  BY <1>1, MemoryStops DEF IInv
<1>7. cut' \in BOOLEAN
  BY <1>1
<1>8. TypeOK'
  BY <1>1, <1>3, <1>4, <1>5, <1>6, <1>7, DeadlineAssumption DEF TypeOK
<1>9. GuestMemory' /\ OutcomeKept' /\ ResultOfOwnRequest' /\ DeadlineMeansFreshGuest'
  BY <1>1, <1>4, <1>5, <1>6
  DEF GuestMemory, OutcomeKept, ResultOfOwnRequest, DeadlineMeansFreshGuest
<1>10. QED
  BY <1>4, <1>8, <1>9 DEF IInv

\* Every step keeps the invariant.
LEMMA NextIInv == IInv /\ [Next]_vars => IInv'
<1> SUFFICES ASSUME IInv, [Next]_vars PROVE IInv'
  OBVIOUS
<1>1. ASSUME NEW o \in Operations \ {"build", "reset"}, Enter(o) PROVE IInv'
  BY <1>1, EnterStep
<1>2. CASE Refuse
  BY <1>2, RefuseStep
<1>3. CASE Proceed
  BY <1>3, ProceedStep
<1>4. CASE Finish
  BY <1>4, FinishStep
<1>5. CASE Fail
  <2>1. Stops /\ GiveUp /\ cut' \in BOOLEAN
    BY <1>5 DEF Fail, IInv, TypeOK
  <2>2. QED
    BY <2>1, GiveUpStep
<1>6. CASE Interrupt
  <2>1. Stops /\ GiveUp
    BY <1>6 DEF Interrupt, Stopped
  <2>2. cut' \in BOOLEAN
    BY <1>6 DEF Interrupt, Stopped
  <2>3. QED
    BY <2>1, <2>2, GiveUpStep
<1>7. CASE InterruptAndReset
  BY <1>7, InterruptAndResetStep
<1>8. CASE Tick
  BY <1>8, TickStep
<1>9. CASE UNCHANGED vars
  BY <1>9
  DEF IInv, TypeOK, BurregoTypeOK, Located, Busy, Program, OutcomeKept, GuestMemory, Building,
      Serving, Evaluating, BudgetIsExact, ResultOfOwnRequest, DeadlineMeansFreshGuest,
      vars, hostVars, burregoVars, policyVars
<1>10. CASE EnterGuest \/ CallHost \/ HostReturns
  BY <1>10, PlaceStep
<1>11. QED
  BY <1>1, <1>2, <1>3, <1>4, <1>5, <1>6, <1>7, <1>8, <1>9, <1>10 DEF Next

\* The invariant holds of every behaviour.
LEMMA Invariance == Spec => []IInv
  BY InitIInv, NextIInv, PTL DEF Spec

-----------------------------------------------------------------------------
\* The theorems.

\* The variables keep their types, the blocks of guest memory included.
THEOREM TypeCorrect == Spec => []TypeOK
<1>1. IInv => TypeOK
  BY DEF IInv
<1>2. QED
  BY <1>1, Invariance, PTL

\* What a Rego guest answers to validate was evaluated from the data and the
\* input of that request (set_data, evaluate), after any sequence of earlier
\* evaluations, failures, interruptions and resets.
THEOREM AnswersOwnRequest == Spec => []ResultOfOwnRequest
<1>1. IInv => ResultOfOwnRequest
  BY DEF IInv
<1>2. QED
  BY <1>1, Invariance, PTL

\* Between operations the heap of a Rego guest holds at most what one
\* evaluation takes (opa_heap_ptr_set gives the rest back).
THEOREM HeapIsGivenBack == Spec => []HeapGivenBack
<1>1. IInv => HeapGivenBack
  BY DEF IInv, GuestMemory, Serving, HeapGivenBack
<1>2. QED
  BY <1>1, Invariance, PTL

\* The guest calls of one operation share one deadline, whatever an earlier
\* operation left of its own (set_epoch_deadline_and_call_guest!).
THEOREM OneDeadlinePerOperation == Spec => []BudgetIsExact
<1>1. IInv => BudgetIsExact
  BY DEF IInv
<1>2. QED
  BY <1>1, Invariance, PTL

\* When validate answers that the deadline was exceeded, the store has been
\* replaced or its replacement has failed (Runtime::validate of waPC and Rego).
THEOREM DeadlineLeavesFreshGuest == Spec => []DeadlineMeansFreshGuest
<1>1. IInv => DeadlineMeansFreshGuest
  BY DEF IInv
<1>2. QED
  BY <1>1, Invariance, PTL

-----------------------------------------------------------------------------
\* The refinement: each step of the host and its guest is one of the service,
\* or none.

ClockOf == IF op \in Operations \ {"build"} THEN spent ELSE 0

\* The stage of each operation.
LEMMA Stages ==
  /\ op = "build" => StageOf = "building" /\ ClockOf = 0
  /\ op = "reset" => StageOf = "recovering" /\ ClockOf = spent
  /\ op = "idle" => StageOf = "idle" /\ ClockOf = 0
  /\ op = "gone" => StageOf = "gone" /\ ClockOf = 0
  /\ op \in Operations \ {"build", "reset"} => StageOf = "working" /\ ClockOf = spent
<1>1. op = "build" => StageOf = "building" /\ ClockOf = 0
  BY DEF StageOf, ClockOf, Operations
<1>2. op = "reset" => StageOf = "recovering" /\ ClockOf = spent
  BY DEF StageOf, ClockOf, Operations
<1>3. op = "idle" => StageOf = "idle" /\ ClockOf = 0
  BY DEF StageOf, ClockOf, Operations
<1>4. op = "gone" => StageOf = "gone" /\ ClockOf = 0
  BY DEF StageOf, ClockOf, Operations
<1>5. op \in Operations \ {"build", "reset"} => StageOf = "working" /\ ClockOf = spent
  <2>1. op \in Operations \ {"build", "reset"} =>
          op \in {"validate", "validate_settings", "protocol_version"}
    BY DEF Operations
  <2>2. op \in {"validate", "validate_settings", "protocol_version"} =>
          StageOf = "working" /\ ClockOf = spent
    BY DEF StageOf, ClockOf, Operations
  <2> QED BY <2>1, <2>2
<1> QED BY <1>1, <1>2, <1>3, <1>4, <1>5

\* The same after a step.
LEMMA StagesAfter ==
  /\ op' = "idle" => StageOf' = "idle" /\ ClockOf' = 0
  /\ op' = "gone" => StageOf' = "gone" /\ ClockOf' = 0
  /\ op' = "reset" => StageOf' = "recovering" /\ ClockOf' = spent'
  /\ op' \in Operations \ {"build", "reset"} => StageOf' = "working" /\ ClockOf' = spent'
<1>1. op' = "idle" => StageOf' = "idle" /\ ClockOf' = 0
  BY DEF StageOf, ClockOf, Operations
<1>2. op' = "gone" => StageOf' = "gone" /\ ClockOf' = 0
  BY DEF StageOf, ClockOf, Operations
<1>3. op' = "reset" => StageOf' = "recovering" /\ ClockOf' = spent'
  BY DEF StageOf, ClockOf, Operations
<1>4. op' \in Operations \ {"build", "reset"} => StageOf' = "working" /\ ClockOf' = spent'
  <2>1. op' \in Operations \ {"build", "reset"} =>
          op' \in {"validate", "validate_settings", "protocol_version"}
    BY DEF Operations
  <2>2. op' \in {"validate", "validate_settings", "protocol_version"} =>
          StageOf' = "working" /\ ClockOf' = spent'
    BY DEF StageOf, ClockOf, Operations
  <2> QED BY <2>1, <2>2
<1> QED BY <1>1, <1>2, <1>3, <1>4

\* The steps of the service, by what they do to its variables.
ServiceStep ==
  \/ /\ StageOf = "building" /\ StageOf' \in {"idle", "gone"} /\ ClockOf' = 0
     /\ UNCHANGED <<kind, request, outcome>>
  \/ /\ StageOf = "idle" /\ request < MaxRequests /\ request' = request + 1 /\ ClockOf' = 0
     /\ \/ StageOf' = "working" /\ outcome' = Ended("none")
        \/ StageOf' = "idle" /\ outcome' = Ended("refused")
     /\ UNCHANGED kind
  \/ /\ StageOf = "working" /\ StageOf' = "idle" /\ ClockOf' = 0
     /\ \/ outcome' = IF kind = "rego"
                        THEN [status |-> "answered", data |-> request, input |-> request]
                        ELSE Ended("answered")
        \/ outcome' = Ended("error")
     /\ UNCHANGED <<kind, request>>
  \/ /\ StageOf = "working" /\ kind # "wasi" /\ ClockOf = Deadline
     /\ StageOf' = "recovering" /\ ClockOf' = 0
     /\ outcome' = Ended("deadline")
     /\ UNCHANGED <<kind, request>>
  \/ /\ StageOf = "recovering" /\ StageOf' = "idle" /\ ClockOf' = 0
     /\ UNCHANGED <<kind, request, outcome>>
  \/ /\ StageOf \in {"working", "recovering"} /\ ClockOf < Deadline /\ ClockOf' = ClockOf + 1
     /\ UNCHANGED <<kind, StageOf, request, outcome>>
  \/ UNCHANGED <<kind, StageOf, request, outcome, ClockOf>>

LEMMA ServiceSteps == ServiceStep => [Evaluator!Next]_(Evaluator!vars)
BY DEF ServiceStep, ClockOf, Evaluator!Next, Evaluator!vars, Evaluator!Built, Evaluator!Lost,
       Evaluator!Ask, Evaluator!Reply, Evaluator!TimeOut, Evaluator!Recover, Evaluator!Pass,
       Evaluator!Move, Evaluator!Plain, Evaluator!Own, Ended

\* An operation without an answer ends in the service as well.
LEMMA GiveUpServes ==
  ASSUME IInv, Stops, GiveUp
  PROVE  ServiceStep
<1>1. op \in Operations /\ UNCHANGED <<kind, request>>
  BY DEF Stops, Busy
<1>2. CASE op = "build"
  <2>1. op' = "gone" /\ UNCHANGED outcome
    BY <1>2 DEF GiveUp
  <2> QED BY <1>1, <1>2, <2>1, Stages, StagesAfter DEF ServiceStep
<1>3. CASE op = "reset"
  <2>1. op' = "idle" /\ UNCHANGED outcome
    BY <1>3 DEF GiveUp, Idle
  <2> QED BY <1>1, <1>3, <2>1, Stages, StagesAfter DEF ServiceStep
<1>4. CASE op \in Operations \ {"build", "reset"}
  <2>1. op' = "idle" /\ outcome' = Ended("error")
    BY <1>4 DEF GiveUp, Idle
  <2> QED BY <1>1, <1>4, <2>1, Stages, StagesAfter DEF ServiceStep
<1> QED BY <1>1, <1>2, <1>3, <1>4

\* The last call of an operation is the end of the work, of the recovery or of
\* the building.
LEMMA FinishServes ==
  ASSUME IInv, Finish
  PROVE  ServiceStep
<1>1. /\ op \in Operations /\ at = Len(Program(op))
      /\ op' = "idle" /\ UNCHANGED <<kind, request>>
      /\ outcome' = IF op \in {"build", "reset"} THEN outcome ELSE Answer
  BY DEF Finish, Returns, Busy, Idle
<1>2. CASE op = "build"
  BY <1>1, <1>2, Stages, StagesAfter DEF ServiceStep
<1>3. CASE op = "reset"
  BY <1>1, <1>3, Stages, StagesAfter DEF ServiceStep
<1>4. CASE op \in Operations \ {"build", "reset"}
  <2>1. outcome' = IF kind = "rego"
                     THEN [status |-> "answered", data |-> request, input |-> request]
                     ELSE Ended("answered")
    <3>1. kind = "rego" => Answer.data = request /\ Answer.input = request
      BY <1>1, <1>4, AnswerIsOwn DEF Busy
    <3> QED BY <1>1, <1>4, <3>1 DEF Answer
  <2> QED BY <1>1, <1>4, <2>1, Stages, StagesAfter DEF ServiceStep
<1> QED BY <1>1, <1>2, <1>3, <1>4

\* Every step of the host and of its guest.
LEMMA EveryStepServes == IInv /\ [Next]_vars => ServiceStep
<1> SUFFICES ASSUME IInv, [Next]_vars
             PROVE  ServiceStep
  OBVIOUS
<1>1. ASSUME NEW o \in Operations \ {"build", "reset"}, Enter(o)
      PROVE  ServiceStep
  <2>1. /\ op = "idle" /\ request < MaxRequests /\ request' = request + 1 /\ UNCHANGED kind
        /\ op' = o /\ spent' = 0 /\ outcome' = Ended("none")
    BY <1>1 DEF Enter, Ask, Begin, Reach
  <2> QED BY <2>1, Stages, StagesAfter DEF ServiceStep
<1>2. CASE Refuse
  <2>1. /\ op = "idle" /\ request < MaxRequests /\ request' = request + 1 /\ UNCHANGED kind
        /\ op' = "idle" /\ outcome' = Ended("refused")
    BY <1>2 DEF Refuse, Ask, Idle
  <2> QED BY <2>1, Stages, StagesAfter DEF ServiceStep
<1>3. CASE Proceed
  <2>1. UNCHANGED <<kind, op, spent, request, outcome>>
    BY <1>3 DEF Proceed, Returns, Reach
  <2> QED BY <2>1 DEF ServiceStep, StageOf, ClockOf
<1>4. CASE Finish
  BY <1>4, FinishServes
<1>5. CASE Fail
  BY <1>5, GiveUpServes DEF Fail
<1>6. CASE Interrupt
  BY <1>6, GiveUpServes DEF Interrupt, Stopped
<1>7. CASE InterruptAndReset
  <2>1. /\ op = "validate" /\ left = 0 /\ UNCHANGED <<kind, request>>
        /\ op' = "reset" /\ spent' = 0 /\ outcome' = Ended("deadline")
    BY <1>7 DEF InterruptAndReset, Stopped, Stops, Begin, Reach
  <2>2. op \in Operations \ {"build", "reset"}
    BY <2>1 DEF Operations
  <2>3. spent = Deadline
    BY <2>1, <2>2 DEF IInv, TypeOK, BudgetIsExact
  <2>4. kind # "wasi"
    BY <1>7 DEF InterruptAndReset, Reports
  <2> QED BY <2>1, <2>2, <2>3, <2>4, Stages, StagesAfter DEF ServiceStep
<1>8. CASE Tick
  <2>1. /\ op \in Operations /\ left > 0 /\ UNCHANGED <<kind, op, request, outcome>>
        /\ spent' = IF spent < Deadline THEN spent + 1 ELSE spent
    BY <1>8 DEF Tick, Busy
  <2>2. UNCHANGED StageOf
    BY <2>1 DEF StageOf
  <2>3. CASE op = "build"
    <3>1. UNCHANGED ClockOf
      BY <2>1, <2>3 DEF ClockOf
    <3> QED BY <2>1, <2>2, <3>1 DEF ServiceStep
  <2>4. CASE op \in Operations \ {"build"}
    <3>1. spent < Deadline
      BY <2>1, <2>4 DEF IInv, TypeOK, BudgetIsExact
    <3>2. ClockOf = spent /\ ClockOf' = spent + 1
      BY <2>1, <2>4, <3>1 DEF ClockOf
    <3>3. StageOf \in {"working", "recovering"}
      BY <2>4, Stages
    <3> QED BY <2>1, <2>2, <3>1, <3>2, <3>3 DEF ServiceStep
  <2> QED BY <2>1, <2>3, <2>4
<1>9. CASE UNCHANGED vars
  BY <1>9 DEF vars, hostVars, ServiceStep, StageOf, ClockOf
<1>10. CASE EnterGuest \/ CallHost \/ HostReturns
  <2>1. UNCHANGED <<kind, op, spent, request, outcome>>
    BY <1>10 DEF EnterGuest, CallHost, HostReturns
  <2> QED BY <2>1 DEF ServiceStep, StageOf, ClockOf
<1> QED BY <1>1, <1>2, <1>3, <1>4, <1>5, <1>6, <1>7, <1>8, <1>9, <1>10 DEF Next

\* Stores that are reused, interrupted and reset make an evaluator that answers
\* each request once and from that request, if perhaps late, and says that the
\* deadline was exceeded only when it was (PolicyEvaluator).
THEOREM Refinement == Spec => ImplementsEvaluator
<1>1. Init => Evaluator!Init
  <2> SUFFICES ASSUME Init
               PROVE  Evaluator!Init
    OBVIOUS
  <2>1. kind \in Kinds /\ op \in {"idle", "build"} /\ request = 0 /\ outcome = Ended("none")
    BY DEF Init
  <2>2. StageOf \in {"building", "idle"} /\ ClockOf = 0
    BY <2>1, Stages
  <2> QED BY <2>1, <2>2 DEF Evaluator!Init, Evaluator!Plain, Ended, Kinds, ClockOf
<1>2. IInv /\ [Next]_vars => [Evaluator!Next]_(Evaluator!vars)
  BY EveryStepServes, ServiceSteps
<1> QED BY <1>1, <1>2, Invariance, PTL DEF Spec, ImplementsEvaluator, Evaluator!Spec
=============================================================================

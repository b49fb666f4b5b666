-------------------------- MODULE WasiProgram_proofs --------------------------
(***************************************************************************)
(* For every bound: the program with its pipes is a run of GuestRuntime,   *)
(* so what is proved of that holds of it; what a program reads is in       *)
(* order; and a verdict is that of the program's own run.                  *)
(***************************************************************************)
EXTENDS WasiProgram, GuestRuntime_proofs

-----------------------------------------------------------------------------
\* A step of the host in an operation keeps the request; outside one it begins
\* an operation or refuses a request.  No step changes the kind of the policy.

LEMMA HostSteps ==
  ASSUME Next
  PROVE  /\ kind' = kind
         /\ Busy => request' = request
         /\ ~Busy => op = "idle"
         /\ ~Busy /\ op' \notin Operations => op' = "idle" /\ outcome' = Ended("refused")
<1>1. ASSUME NEW o \in Operations, Enter(o)
      PROVE  kind' = kind /\ op = "idle" /\ op' \in Operations
  BY <1>1 DEF Enter, Ask, Begin, Reach
<1>2. Refuse => kind' = kind /\ op = "idle" /\ op' = "idle" /\ outcome' = Ended("refused")
  BY DEF Refuse, Ask, Idle
<1>3. EnterGuest \/ CallHost \/ HostReturns \/ Tick
        => Busy /\ kind' = kind /\ request' = request
  BY DEF EnterGuest, CallHost, HostReturns, Tick
<1>4. Proceed \/ Finish \/ Fail \/ Interrupt \/ InterruptAndReset
        => Busy /\ kind' = kind /\ request' = request
  BY DEF Proceed, Finish, Returns, Fail, Stops, Interrupt, InterruptAndReset, Stopped
<1>5. op = "idle" => ~Busy
  BY DEF Busy, Operations
<1> QED BY <1>1, <1>2, <1>3, <1>4, <1>5 DEF Next

\* A step of the guest moves nothing of the host.
LEMMA GuestSteps ==
  ASSUME GuestStep
  PROVE  UNCHANGED vars /\ Running
BY DEF GuestStep, Read, Write, Complain

\* A program with its pipes is a run of GuestRuntime: whatever is proved of
\* the evaluator, its deadlines included, holds while a WASI guest reads,
\* prints and calls the host (Stack::run).
THEOREM RunsAsGuest == WasiSpec => Spec
<1>1. WasiInit => Init
  BY DEF WasiInit
<1>2. [WasiNext]_allVars => [Next]_vars
  <2> SUFFICES ASSUME [WasiNext]_allVars
               PROVE  [Next]_vars
    OBVIOUS
  <2>1. CASE Next /\ Pipes
    BY <2>1
  <2>2. CASE GuestStep
    BY <2>2, GuestSteps
  <2>3. CASE UNCHANGED allVars
    BY <2>3 DEF allVars
  <2> QED BY <2>1, <2>2, <2>3 DEF WasiNext
<1> QED BY <1>1, <1>2, PTL DEF WasiSpec, Spec

\* What GuestRuntime keeps true, whatever the pipes hold (GuestRuntime, TypeOK).
THEOREM HostTyped == WasiSpec => []TypeOK
BY RunsAsGuest, TypeCorrect, PTL

\* An evaluator that runs a WASI program answers, gives up and recovers as every
\* other one does: what Stack::run promises is what the callers of an evaluator
\* are owed, whatever the program reads, prints and calls; it may be late.
THEOREM RunsAsEvaluator == WasiSpec => ImplementsEvaluator
BY RunsAsGuest, Refinement, PTL

\* The number of a request is a natural number.
LEMMA RequestIsNat == TypeOK => request \in Nat
BY BurregoBoundsAssumption DEF TypeOK

-----------------------------------------------------------------------------
\* The verdict.

Texts == {"accept", "reject", "rubbish", "bytes"}
Prints == [run : Nat, text : Texts]

\* The inductive invariant: what is on standard output is of the present run,
\* and once the run has ended, so is the verdict.
VerdictInv ==
  /\ stdout \in Seq(Prints)
  /\ kind = "wasi" /\ Busy => \A i \in 1..Len(stdout) : stdout[i].run = request
  /\ VerdictOfOwnRun

LEMMA VerdictInit == WasiInit => VerdictInv
BY DEF WasiInit, VerdictInv, VerdictOfOwnRun

\* An accepting verdict is one print, of a run that ended well.
LEMMA AcceptedIsPrinted ==
  ASSUME stdout \in Seq(Prints), NEW status, Verdict(status) = "accepted"
  PROVE  /\ status = "answered"
         /\ Len(stdout) = 1
         /\ stdout = << [run |-> stdout[1].run, text |-> "accept"] >>
<1>1. status = "answered" /\ Parse = "accepted"
  BY DEF Verdict
<1>2. Len(stdout) = 1 /\ stdout[1].text = "accept"
  BY <1>1 DEF Parse
<1>3. stdout[1] \in Prints
  BY <1>2
<1>4. stdout[1] = [run |-> stdout[1].run, text |-> "accept"]
  BY <1>2, <1>3 DEF Prints
<1>5. stdout = << stdout[1] >>
  BY <1>2
<1> QED BY <1>1, <1>2, <1>4, <1>5

LEMMA VerdictHost ==
  ASSUME VerdictInv, Next, Pipes
  PROVE  VerdictInv'
<1>1. CASE kind # "wasi"
  BY <1>1, HostSteps DEF Pipes, wasiVars, VerdictInv, VerdictOfOwnRun
<1>2. CASE kind = "wasi" /\ Busy /\ op' \in Operations
  <2>1. UNCHANGED <<stdout, verdict>> /\ request' = request /\ op' # "idle"
    BY <1>2, HostSteps DEF Pipes, AnswerCall, wasiVars, Operations
  <2> QED BY <1>2, <2>1 DEF VerdictInv, VerdictOfOwnRun
<1>3. CASE kind = "wasi" /\ ~Busy /\ op' \in Operations
  <2>1. stdout' = <<>> /\ op' # "idle"
    BY <1>3 DEF Pipes, OpenPipes, Busy, Operations
  <2> QED BY <2>1 DEF VerdictInv, VerdictOfOwnRun
<1>4. CASE kind = "wasi" /\ Busy /\ op' \notin Operations
  <2>1. stdout' = stdout /\ request' = request /\ verdict' = Verdict(outcome'.status)
    BY <1>4, HostSteps DEF Pipes, ClosePipes
  <2>2. ~Busy'
    BY <1>4 DEF Busy
  <2>3. ASSUME verdict' = "accepted"
        PROVE  outcome'.status = "answered" /\ stdout' = << [run |-> request', text |-> "accept"] >>
    <3>1. /\ outcome'.status = "answered"
          /\ Len(stdout) = 1
          /\ stdout = << [run |-> stdout[1].run, text |-> "accept"] >>
      BY <2>1, <2>3, AcceptedIsPrinted DEF VerdictInv
    <3>2. stdout[1].run = request
      BY <1>4, <3>1 DEF VerdictInv
    <3> QED BY <2>1, <3>1, <3>2
  <2> QED BY <2>1, <2>2, <2>3 DEF VerdictInv, VerdictOfOwnRun
<1>5. CASE kind = "wasi" /\ ~Busy /\ op' \notin Operations
  <2>1. verdict' = "error" /\ stdout' = stdout
    BY <1>5 DEF Pipes, ClosePipes
  <2>2. ~Busy'
    BY <1>5 DEF Busy
  <2> QED BY <2>1, <2>2 DEF VerdictInv, VerdictOfOwnRun
<1> QED BY <1>1, <1>2, <1>3, <1>4, <1>5

LEMMA VerdictGuest ==
  ASSUME VerdictInv, request \in Nat, GuestStep
  PROVE  VerdictInv'
<1>1. /\ op' = op /\ kind' = kind /\ request' = request /\ op # "idle" /\ op \in Operations
  BY GuestSteps DEF vars, hostVars, Running, Busy, Operations
<1>2. CASE UNCHANGED stdout
  BY <1>1, <1>2 DEF VerdictInv, VerdictOfOwnRun, Busy
<1>3. ASSUME NEW text \in Texts, Write(text)
      PROVE  VerdictInv'
  <2> DEFINE line == [run |-> request, text |-> text]
  <2>1. stdout' = Append(stdout, line) /\ line \in Prints /\ line.run = request
    BY <1>3 DEF Write, Prints
  <2>2. \A i \in 1..Len(stdout) : stdout[i].run = request
    BY GuestSteps DEF VerdictInv, Running
  <2> HIDE DEF line
  <2>3. stdout' \in Seq(Prints) /\ \A i \in 1..Len(stdout') : stdout'[i].run = request
    BY <2>1, <2>2 DEF VerdictInv
  <2> QED BY <1>1, <2>3 DEF VerdictInv, VerdictOfOwnRun
<1>4. UNCHANGED stdout \/ \E text \in Texts : Write(text)
  BY DEF GuestStep, Read, Complain, Texts
<1> QED BY <1>2, <1>3, <1>4

\* A request is accepted only by the one print of its own run, and only if the
\* run came to a good end (Stack::run, EvalRunResult).
THEOREM VerdictIsOwn == WasiSpec => []VerdictOfOwnRun
<1>1. VerdictInv /\ TypeOK /\ [WasiNext]_allVars => VerdictInv'
  <2>1. VerdictInv /\ UNCHANGED allVars => VerdictInv'
    BY DEF allVars, vars, hostVars, wasiVars, VerdictInv, VerdictOfOwnRun, Busy
  <2> QED BY <2>1, VerdictHost, VerdictGuest, RequestIsNat DEF WasiNext
<1>2. VerdictInv => VerdictOfOwnRun
  BY DEF VerdictInv
<1> QED BY <1>1, <1>2, VerdictInit, HostTyped, PTL DEF WasiSpec

-----------------------------------------------------------------------------
(* The standard input.                                                     *)

Parts == Nat \X Nat \X Nat

\* The inductive invariant: two sequences whose concatenation is what has been
\* sent.
StdinInv ==
  /\ stdin \in Seq(Parts) /\ received \in Seq(Parts)
  /\ made \in Nat
  /\ StdinIsInOrder

LEMMA Joined ==
  ASSUME NEW s \in Seq(Parts), NEW t \in Seq(Parts)
  PROVE  /\ s \o t \in Seq(Parts)
         /\ Len(s \o t) = Len(s) + Len(t)
         /\ \A i \in 1..Len(s) : (s \o t)[i] = s[i]
         /\ \A i \in 1..Len(t) : (s \o t)[Len(s) + i] = t[i]
<1>1. /\ s \o t \in Seq(Parts)
      /\ Len(s \o t) = Len(s) + Len(t)
      /\ \A i \in 1..(Len(s) + Len(t)) :
           (s \o t)[i] = IF i <= Len(s) THEN s[i] ELSE t[i - Len(s)]
  BY ConcatProperties
<1>2. ASSUME NEW i \in 1..Len(t)
      PROVE  (s \o t)[Len(s) + i] = t[i]
  <2>1. Len(s) + i \in 1..(Len(s) + Len(t)) /\ ~(Len(s) + i <= Len(s)) /\ (Len(s) + i) - Len(s) = i
    OBVIOUS
  <2> QED BY <1>1, <2>1
<1>3. ASSUME NEW i \in 1..Len(s)
      PROVE  (s \o t)[i] = s[i]
  <2>1. i \in 1..(Len(s) + Len(t)) /\ i <= Len(s)
    OBVIOUS
  <2> QED BY <1>1, <2>1
<1> QED BY <1>1, <1>2, <1>3

LEMMA JoinedInAnyOrder ==
  ASSUME NEW s \in Seq(Parts), NEW t \in Seq(Parts), NEW u \in Seq(Parts)
  PROVE  (s \o t) \o u = s \o (t \o u)
BY ConcatAssociative

LEMMA SameParts ==
  ASSUME NEW s \in Seq(Parts), NEW t \in Seq(Parts),
         Len(s) = Len(t), \A i \in 1..Len(s) : s[i] = t[i]
  PROVE  s = t
BY SeqEqual

LEMMA MessageTyped ==
  ASSUME NEW r \in Nat, NEW m \in Nat
  PROVE  /\ Message(r, m) \in Seq(Parts)
         /\ Len(Message(r, m)) = 2
         /\ Message(r, m)[1] = <<r, m, 1>> /\ Message(r, m)[2] = <<r, m, 2>>
BY DEF Message, Parts

\* What a program has been sent when it has made n calls.
LEMMA SentAfter ==
  ASSUME NEW r \in Nat, NEW n \in Nat
  PROVE  LET sent(k) == [i \in 1..(2 * k) |-> <<r, (i - 1) \div 2, ((i - 1) % 2) + 1>>]
         IN  /\ sent(n) \in Seq(Parts)
             /\ sent(n + 1) = sent(n) \o Message(r, n)
<1> DEFINE sent(k) == [i \in 1..(2 * k) |-> <<r, (i - 1) \div 2, ((i - 1) % 2) + 1>>]
<1>1. ASSUME NEW k \in Nat
      PROVE  sent(k) \in Seq(Parts) /\ Len(sent(k)) = 2 * k
  <2>1. \A i \in 1..(2 * k) : (i - 1) \div 2 \in Nat /\ ((i - 1) % 2) + 1 \in Nat
    OBVIOUS
  <2> QED BY <2>1 DEF Parts
<1>2. n + 1 \in Nat /\ 2 * (n + 1) = 2 * n + 2
  OBVIOUS
<1>3. PICK m \in Seq(Parts) : m = Message(r, n) /\ Len(m) = 2 /\ m[1] = <<r, n, 1>> /\ m[2] = <<r, n, 2>>
  BY MessageTyped
<1>4. PICK s \in Seq(Parts) : s = sent(n) /\ Len(s) = 2 * n
  <2> HIDE DEF sent
  <2> QED BY <1>1
<1>5. PICK t \in Seq(Parts) : t = sent(n + 1) /\ Len(t) = 2 * n + 2
  <2> HIDE DEF sent
  <2> QED BY <1>1, <1>2
<1>6. ASSUME NEW i \in 1..(2 * n)
      PROVE  t[i] = s[i]
  BY <1>4, <1>5
<1>7. t[2 * n + 1] = <<r, n, 1>>
  <2>1. ((2 * n + 1) - 1) \div 2 = n /\ (((2 * n + 1) - 1) % 2) + 1 = 1
    OBVIOUS
  <2>2. 2 * n + 1 \in 1..(2 * (n + 1))
    OBVIOUS
  <2> QED BY <1>5, <2>1, <2>2
<1>8. t[2 * n + 2] = <<r, n, 2>>
  <2>1. ((2 * n + 2) - 1) \div 2 = n /\ (((2 * n + 2) - 1) % 2) + 1 = 2
    OBVIOUS
  <2>2. 2 * n + 2 \in 1..(2 * (n + 1))
    OBVIOUS
  <2> QED BY <1>5, <2>1, <2>2
<1>9. t = s \o m
  <2>1. PICK w \in Seq(Parts) : w = s \o m
    BY Joined
  <2>2. /\ Len(w) = 2 * n + 2
        /\ \A i \in 1..(2 * n) : w[i] = s[i]
        /\ w[2 * n + 1] = m[1] /\ w[2 * n + 2] = m[2]
    <3>1. /\ Len(w) = Len(s) + Len(m)
          /\ \A i \in 1..Len(s) : w[i] = s[i]
          /\ \A i \in 1..Len(m) : w[Len(s) + i] = m[i]
      BY <2>1, Joined
    <3>2. w[Len(s) + 1] = m[1] /\ w[Len(s) + 2] = m[2]
      BY <1>3, <3>1
    <3>3. Len(s) + 1 = 2 * n + 1 /\ Len(s) + 2 = 2 * n + 2
      BY <1>4
    <3> QED BY <1>3, <1>4, <3>1, <3>2, <3>3
  <2>3. ASSUME NEW i \in 1..Len(t)
        PROVE  t[i] = w[i]
    <3>1. i \in 1..(2 * n) \/ i = 2 * n + 1 \/ i = 2 * n + 2
      BY <1>5
    <3> QED BY <1>3, <1>6, <1>7, <1>8, <2>2, <3>1
  <2>4. t = w
    BY <1>5, <2>2, <2>3, SameParts
  <2> QED BY <2>1, <2>4
<1> HIDE DEF sent
<1>10. sent(n) \in Seq(Parts) /\ sent(n + 1) = sent(n) \o Message(r, n)
  BY <1>3, <1>4, <1>5, <1>9
<1> QED BY <1>10 DEF sent

\* Before its first call a program has been sent its input.
LEMMA SentFirst ==
  ASSUME NEW r \in Nat
  PROVE  [i \in 1..(2 * (0 + 1)) |-> <<r, (i - 1) \div 2, ((i - 1) % 2) + 1>>] = Message(r, 0)
<1> DEFINE sent == [i \in 1..(2 * (0 + 1)) |-> <<r, (i - 1) \div 2, ((i - 1) % 2) + 1>>]
<1>1. 2 * (0 + 1) = 2 /\ (1 - 1) \div 2 = 0 /\ (2 - 1) \div 2 = 0
      /\ (1 - 1) % 2 = 0 /\ (2 - 1) % 2 = 1
  OBVIOUS
<1>2. sent \in Seq(Parts) /\ Len(sent) = 2
  <2>1. \A i \in 1..2 : (i - 1) \div 2 \in Nat /\ ((i - 1) % 2) + 1 \in Nat
    OBVIOUS
  <2> QED BY <1>1, <2>1 DEF Parts
<1>3. sent[1] = <<r, 0, 1>> /\ sent[2] = <<r, 0, 2>>
  BY <1>1
<1> HIDE DEF sent
<1>4. PICK m \in Seq(Parts) : m = Message(r, 0) /\ Len(m) = 2 /\ m[1] = <<r, 0, 1>> /\ m[2] = <<r, 0, 2>>
  BY MessageTyped
<1>5. sent = Message(r, 0)
  <2>1. \A i \in 1..2 : sent[i] = m[i]
    BY <1>3, <1>4
  <2> QED BY <1>2, <1>4, <2>1, SameParts
<1> QED BY <1>5 DEF sent

\* Taking a beginning from one sequence to the end of another keeps their
\* concatenation.
LEMMA ReadMoves ==
  ASSUME NEW in \in Seq(Parts), NEW out \in Seq(Parts), NEW n \in 1..Len(in)
  PROVE  /\ SubSeq(in, 1, n) \in Seq(Parts) /\ SubSeq(in, n + 1, Len(in)) \in Seq(Parts)
         /\ (out \o SubSeq(in, 1, n)) \o SubSeq(in, n + 1, Len(in)) = out \o in
<1>1. SubSeq(in, 1, n) \in Seq(Parts) /\ SubSeq(in, n + 1, Len(in)) \in Seq(Parts)
  OBVIOUS
<1>2. SubSeq(in, 1, n) \o SubSeq(in, n + 1, Len(in)) = in
  <2>1. SubSeq(in, 1, n) \o SubSeq(in, n + 1, Len(in)) = SubSeq(in, 1, Len(in))
    BY ConcatAdjacentSubSeq
  <2> QED BY <2>1, SubSeqFull
<1>3. PICK first \in Seq(Parts), rest \in Seq(Parts) :
        first = SubSeq(in, 1, n) /\ rest = SubSeq(in, n + 1, Len(in))
  BY <1>1
<1>4. (out \o first) \o rest = out \o (first \o rest)
  BY JoinedInAnyOrder
<1> QED BY <1>1, <1>2, <1>3, <1>4

LEMMA StdinInit == WasiInit => StdinInv
<1> SUFFICES ASSUME WasiInit
             PROVE  StdinInv
  OBVIOUS
<1>1. kind = "wasi" => op = "idle"
  BY DEF WasiInit, Init, Calls
<1> QED BY <1>1 DEF WasiInit, StdinInv, StdinIsInOrder, Busy, Operations

\* An answer is put behind what has not been read.
LEMMA StdinAnswered ==
  ASSUME StdinInv, request \in Nat, kind = "wasi", Busy, UNCHANGED <<kind, request>>, AnswerCall
  PROVE  StdinInv'
<1>1. made' = made + 1 /\ stdin' = stdin \o Message(request, made + 1) /\ received' = received
  BY DEF AnswerCall
<1>2. /\ made \in Nat /\ made + 1 \in Nat
      /\ stdin \in Seq(Parts) /\ received \in Seq(Parts)
      /\ Message(request, made + 1) \in Seq(Parts)
      /\ received \o stdin = Sent
  <2>1. /\ made \in Nat /\ stdin \in Seq(Parts) /\ received \in Seq(Parts)
        /\ received \o stdin = Sent
    BY DEF StdinInv, StdinIsInOrder
  <2>2. made + 1 \in Nat
    BY <2>1
  <2>3. Message(request, made + 1) \in Seq(Parts)
    BY <2>2, MessageTyped
  <2> QED BY <2>1, <2>2, <2>3
<1>3. stdin' \in Seq(Parts)
  BY <1>1, <1>2, Joined
<1>4. received' \o stdin' = Sent \o Message(request, made + 1)
  BY <1>1, <1>2, JoinedInAnyOrder
<1>5. Sent' = Sent \o Message(request, made + 1)
  BY <1>1, <1>2, SentAfter DEF Sent
<1> QED BY <1>1, <1>2, <1>3, <1>4, <1>5 DEF StdinInv, StdinIsInOrder

LEMMA StdinHost ==
  ASSUME StdinInv, Next, Pipes, request \in Nat, request' \in Nat
  PROVE  StdinInv'
<1>1. CASE kind # "wasi"
  BY <1>1, HostSteps DEF Pipes, wasiVars, StdinInv, StdinIsInOrder
<1>2. CASE kind = "wasi" /\ Busy /\ op' \in Operations /\ UNCHANGED wasiVars
  BY <1>2, HostSteps DEF wasiVars, StdinInv, StdinIsInOrder, Sent
<1>3. CASE kind = "wasi" /\ Busy /\ op' \in Operations /\ AnswerCall
  BY <1>3, HostSteps, StdinAnswered
<1>4. kind = "wasi" /\ Busy /\ op' \in Operations => UNCHANGED wasiVars \/ AnswerCall
  BY DEF Pipes
<1>5. CASE kind = "wasi" /\ ~Busy /\ op' \in Operations
  <2>1. stdin' = Message(request', 0) /\ received' = <<>> /\ made' = 0
    BY <1>5 DEF Pipes, OpenPipes
  <2>2. stdin' \in Seq(Parts)
    BY <2>1, MessageTyped
  <2>3. received' \o stdin' = stdin'
    BY <2>1, <2>2, ConcatEmptySeq
  <2>4. Sent' = Message(request', 0)
    BY <2>1, SentFirst DEF Sent
  <2> QED BY <2>1, <2>2, <2>3, <2>4 DEF StdinInv, StdinIsInOrder
<1>6. CASE kind = "wasi" /\ op' \notin Operations
  <2>1. UNCHANGED <<stdin, received, made>> /\ ~Busy'
    BY <1>6 DEF Pipes, ClosePipes, Busy
  <2> QED BY <2>1 DEF StdinInv, StdinIsInOrder
<1> QED BY <1>1, <1>2, <1>3, <1>4, <1>5, <1>6

LEMMA StdinGuest ==
  ASSUME StdinInv, request \in Nat, GuestStep
  PROVE  StdinInv'
<1>1. UNCHANGED <<kind, op, request>> /\ received \o stdin = Sent
  BY GuestSteps DEF vars, hostVars, Running, StdinInv, StdinIsInOrder
<1>2. ASSUME NEW n \in 1..2, Read(n)
      PROVE  StdinInv'
  <2>1. n \in 1..Len(stdin)
    BY <1>2 DEF Read, StdinInv
  <2>2. /\ received' = received \o SubSeq(stdin, 1, n)
        /\ stdin' = SubSeq(stdin, n + 1, Len(stdin))
        /\ made' = made
    BY <1>2 DEF Read
  <2>3. stdin' \in Seq(Parts) /\ received' \in Seq(Parts)
        /\ received' \o stdin' = received \o stdin
    BY <2>1, <2>2, ReadMoves, Joined DEF StdinInv
  <2>4. Sent' = Sent
    BY <1>1, <2>2 DEF Sent
  <2> QED BY <1>1, <2>2, <2>3, <2>4 DEF StdinInv, StdinIsInOrder
<1>3. CASE UNCHANGED <<stdin, received, made>>
  BY <1>1, <1>3 DEF StdinInv, StdinIsInOrder, Sent
<1> QED BY <1>2, <1>3 DEF GuestStep, Write, Complain

\* However reads and host calls alternate, a program has read a beginning of its
\* input followed by the answers of its own calls (WasiPipe, host_callback).
THEOREM InputInOrder == WasiSpec => []StdinIsInOrder
<1>1. StdinInv /\ TypeOK /\ TypeOK' /\ [WasiNext]_allVars => StdinInv'
  <2>1. StdinInv /\ UNCHANGED allVars => StdinInv'
    BY DEF allVars, vars, hostVars, wasiVars, StdinInv, StdinIsInOrder, Busy, Sent
  <2>2. TypeOK' => request' \in Nat
    BY BurregoBoundsAssumption DEF TypeOK
  <2> QED BY <2>1, <2>2, StdinHost, StdinGuest, RequestIsNat DEF WasiNext
<1>2. StdinInv => StdinIsInOrder
  BY DEF StdinInv
<1> QED BY <1>1, <1>2, StdinInit, HostTyped, PTL DEF WasiSpec
=============================================================================

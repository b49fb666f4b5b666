----------------------------- MODULE WasiProgram -----------------------------
(***************************************************************************)
(* What a WASI policy does between the start and the end of its run.  Its  *)
(* input waits on its standard input; the answer of each host call it      *)
(* makes is written behind what it has not read yet.  Its verdict is what  *)
(* it has printed, if its run ends well.  All three pipes belong to one    *)
(* run.  A message has two parts, so that it can be read by halves.        *)
(*                                                                         *)
(* The run itself, its store and its deadline, is that of GuestRuntime.    *)
(*                                                                         *)
(* Sources: runtimes/wasi_cli/{stack,stack_pre,wasi_pipe,runtime}.rs.      *)
(***************************************************************************)
EXTENDS GuestRuntime, Sequences

CONSTANTS
  MaxHostCalls,  \* bound: the host calls of one run
  MaxPrinted     \* bound: how often a run prints

ASSUME WasiBoundsAssumption == MaxHostCalls \in Nat /\ MaxPrinted \in Nat

VARIABLES
  stdin,     \* the parts that have not been read
  received,  \* the parts that have been read
  made,      \* how many host calls have been made
  stdout,    \* what has been printed
  stderr,    \* "text", or "bytes" that are not UTF-8
  verdict    \* what validate or validate_settings answers

wasiVars == <<stdin, received, made, stdout, stderr, verdict>>
allVars == <<vars, wasiVars>>

\* The halves of message m of run r; message 0 is the input.
Message(r, m) == << <<r, m, 1>>, <<r, m, 2>> >>

WasiInit ==
  /\ Init
  /\ stdin = <<>> /\ received = <<>> /\ made = 0
  /\ stdout = <<>> /\ stderr = "text"
  /\ verdict = "none"

-----------------------------------------------------------------------------
(* The host.                                                               *)

\* A run has pipes of its own.
OpenPipes(r) ==
  /\ stdin' = Message(r, 0)
  /\ received' = <<>> /\ made' = 0
  /\ stdout' = <<>> /\ stderr' = "text"
  /\ verdict' = "none"

\* What is printed is parsed as one document.
Parse ==
  IF Len(stdout) # 1 THEN "error"
  ELSE CASE stdout[1].text = "accept" -> "accepted"
         [] stdout[1].text = "reject" -> "rejected"
         [] OTHER -> "error"

\* A slip: what was printed counts, however the run has ended.
VerdictOfPipes(status) == Parse

\* A run that traps, is stopped or exits with another code than zero is an
\* error, and so is one that has printed bytes to either pipe; standard error
\* is looked at first, for every run.
Verdict(status) ==
  IF status = "answered" /\ stderr = "text" THEN Parse ELSE "error"

ClosePipes(answer) ==
  /\ verdict' = answer
  /\ UNCHANGED <<stdin, received, made, stdout, stderr>>

\* A slip: the answer is put before what has not been read.
AnswerCallFirst ==
  /\ made' = made + 1
  /\ stdin' = Message(request, made + 1) \o stdin
  /\ UNCHANGED <<received, stdout, stderr, verdict>>

\* host_callback answers with a value or with the text of an error; either is
\* appended.  (A call whose arguments are not text traps: GuestRuntime's Fail.)
AnswerCall ==
  /\ made' = made + 1
  /\ stdin' = stdin \o Message(request, made + 1)
  /\ UNCHANGED <<received, stdout, stderr, verdict>>

\* What becomes of the pipes as the evaluator goes on: a run begins, the host
\* answers it, it ends, or a request is refused before it has a run.
Pipes ==
  IF kind # "wasi" THEN UNCHANGED wasiVars
  ELSE /\ place' = "host" => made < MaxHostCalls
       /\ CASE Busy /\ op' \in Operations ->
                 IF place = "host" /\ place' = "guest" THEN AnswerCall ELSE UNCHANGED wasiVars
            [] op' \in Operations /\ ~Busy -> OpenPipes(request')
            [] OTHER -> ClosePipes(IF Busy THEN Verdict(outcome'.status) ELSE "error")

-----------------------------------------------------------------------------
(* The guest, while its _start runs and no host call keeps it.             *)

Running == kind = "wasi" /\ Busy /\ place = "guest"

\* A read takes as much as there is, up to the size of the guest's buffer; at
\* the end of the pipe it takes nothing, which a guest takes for the end.
Read(n) ==
  /\ Running
  /\ n <= Len(stdin)
  /\ received' = received \o SubSeq(stdin, 1, n)
  /\ stdin' = SubSeq(stdin, n + 1, Len(stdin))
  /\ UNCHANGED <<vars, made, stdout, stderr, verdict>>

Write(text) ==
  /\ Running /\ Len(stdout) < MaxPrinted
  /\ stdout' = Append(stdout, [run |-> request, text |-> text])
  /\ UNCHANGED <<vars, stdin, received, made, stderr, verdict>>

Complain ==
  /\ Running
  /\ stderr' = "bytes"
  /\ UNCHANGED <<vars, stdin, received, made, stdout, verdict>>

GuestStep ==
  \/ \E n \in 1..2 : Read(n)
  \/ \E text \in {"accept", "reject", "rubbish", "bytes"} : Write(text)
  \/ Complain

WasiNext == (Next /\ Pipes) \/ GuestStep

WasiSpec == WasiInit /\ [][WasiNext]_allVars

\* As in GuestRuntime: time passes and guest code looks at the epoch.
WasiFairSpec ==
  /\ WasiSpec
  /\ WF_allVars(Tick /\ Pipes)
  /\ SF_allVars((Interrupt \/ InterruptAndReset) /\ Pipes)

-----------------------------------------------------------------------------
(* Properties.                                                             *)

\* What the program has been sent in this run: its input and the answers.
Sent == [i \in 1..(2 * (made + 1)) |-> <<request, (i - 1) \div 2, ((i - 1) % 2) + 1>>]

\* What a program has read and what it still can read is its input and then the
\* answers of its own calls in their order, whatever an earlier run left unread
\* and however reads and calls alternate.  So a program that reads its input to
\* the end before its first call, and each answer before its next, reads exactly
\* the answer of the call it made (WasiPipe, "it's safe to write to the WasiPipe
\* instance multiple times").
StdinIsInOrder == kind = "wasi" /\ Busy => received \o stdin = Sent

\* A request is accepted only by what its own run has printed, once and in
\* full, and only if that run came to a good end: a verdict printed by a program
\* that then traps, is stopped at its deadline or exits with an error is none.
VerdictOfOwnRun ==
  kind = "wasi" /\ op = "idle" /\ verdict = "accepted" =>
    /\ outcome.status = "answered"
    /\ stdout = << [run |-> request, text |-> "accept"] >>
=============================================================================

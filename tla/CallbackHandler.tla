--------------------------- MODULE CallbackHandler ---------------------------
(***************************************************************************)
(* Policies run on threads of their own and are synchronous; the callback  *)
(* handler is asynchronous.  A guest that calls the host pushes a request  *)
(* on a bounded channel without waiting (try_send) and then blocks on the  *)
(* oneshot channel that travels with the request.  The handler's loop      *)
(* takes requests and spawns one task for each; a task sends one answer.   *)
(*                                                                         *)
(* Sources: callback_handler.rs, callback_handler/builder.rs,              *)
(* runtimes/callback.rs, runtimes/rego/context_aware.rs.                   *)
(***************************************************************************)
EXTENDS HostCallback, Naturals, Sequences, FiniteSets

CONSTANTS
  Guests,         \* the threads that evaluate a policy
  Resources,      \* what a payload can name, NoResource-like values included
  Calls,          \* the host calls the guests make
  Allowed,        \* guest -> resources its policy may read
  WithChannel,    \* the guests whose context holds a callback channel
  Capacity,       \* size of the request channel (100 unless the builder is told)
  Workers,        \* threads of the tokio runtime
  HasKubeClient,  \* whether the builder was given a kube::Client
  MayHang,        \* types whose evaluation awaits something with no timeout
  NoRequest

ClusterContextResources == { r[2] : r \in ClusterContext }

Requests == [type : RequestTypes, resource : Resources]

ASSUME CapacityAssumption == Capacity \in Nat \ {0}
ASSUME WorkersAssumption == Workers \in Nat \ {0}
ASSUME GuestsAssumption ==
  WithChannel \subseteq Guests /\ Allowed \in [Guests -> SUBSET Resources]
ASSUME CallsAssumption ==
  /\ ClusterContextResources \subseteq Resources
  /\ \A c \in Calls : c.resource \in Resources
ASSUME NoRequestAssumption == NoRequest \notin Requests

VARIABLES
  guest,     \* "running", or "waiting" in blocking_recv
  request,   \* the request a waiting guest has made
  outcome,   \* how the last host call of a guest ended
  reply,     \* the oneshot channel of a waiting guest
  queue,     \* the mpsc channel: whose request, oldest first
  task,      \* the spawned task that serves the guest's request
  handler,   \* the CallbackHandler value and its loop_eval
  shutdown   \* the oneshot channel that stops the loop

vars == <<guest, request, outcome, reply, queue, task, handler, shutdown>>
guestVars == <<guest, request, outcome>>

TypeOK ==
  /\ guest \in [Guests -> {"running", "waiting"}]
  /\ request \in [Guests -> Requests \cup {NoRequest}]
  /\ outcome \in [Guests -> {"none", "ok", "error"}]
  /\ reply \in [Guests -> {"unused", "pending", "ok", "failed", "dropped"}]
  /\ queue \in Seq(Guests)
  /\ Len(queue) <= Capacity
  /\ task \in [Guests -> {"none", "spawned", "blocking"}]
  /\ handler \in {"built", "looping", "returned", "dropped"}
  /\ shutdown \in {"armed", "message", "senderDropped"}

Init ==
  /\ guest = [g \in Guests |-> "running"]
  /\ request = [g \in Guests |-> NoRequest]
  /\ outcome = [g \in Guests |-> "none"]
  /\ reply = [g \in Guests |-> "unused"]
  /\ queue = <<>>
  /\ task = [g \in Guests |-> "none"]
  /\ handler = "built"
  /\ shutdown = "armed"

-----------------------------------------------------------------------------
(* The guests.                                                             *)

\* The host function returns at once.
Return(g, result) ==
  /\ outcome' = [outcome EXCEPT ![g] = result]
  /\ UNCHANGED <<guest, request, reply, queue>>

Enqueue(g, req) ==
  /\ queue' = Append(queue, g)
  /\ guest' = [guest EXCEPT ![g] = "waiting"]
  /\ request' = [request EXCEPT ![g] = req]
  /\ reply' = [reply EXCEPT ![g] = "pending"]
  /\ UNCHANGED outcome

\* A channel that grows past its size.
SubmitUnbounded(g, req) ==
  IF handler = "dropped" THEN Return(g, "error") ELSE Enqueue(g, req)

\* try_send, then blocking_recv: a full or closed channel is an error at once.
Submit(g, req) ==
  IF handler = "dropped" \/ Len(queue) = Capacity
  THEN Return(g, "error")
  ELSE Enqueue(g, req)

\* host_callback without the look at the allow list.
HostCallUnchecked(g, c) ==
  /\ guest[g] = "running"
  /\ \/ /\ IsLog(c)
        /\ Return(g, "ok")
     \/ /\ ~ IsLog(c)
        /\ RequestsOf(c, Resources) = {} \/ g \notin WithChannel
        /\ Return(g, "error")
     \/ /\ g \in WithChannel
        /\ \E req \in RequestsOf(c, Resources) : Submit(g, req)
  /\ UNCHANGED <<task, handler, shutdown>>

\* A waPC or WASI guest calls the host.
HostCall(g, c) ==
  /\ guest[g] = "running"
  /\ \/ /\ IsLog(c)
        /\ Return(g, "ok")
     \/ /\ ~ IsLog(c)
        /\ RequestsOf(c, Allowed[g]) = {} \/ g \notin WithChannel
        /\ Return(g, "error")
     \/ /\ g \in WithChannel
        /\ \E req \in RequestsOf(c, Allowed[g]) : Submit(g, req)
  /\ UNCHANGED <<task, handler, shutdown>>

\* The Rego runtimes ask for the resources of the policy's own allow list.
RegoCall(g, type, resource) ==
  /\ guest[g] = "running"
  /\ g \in WithChannel
  /\ Submit(g, [type |-> type, resource |-> resource])
  /\ UNCHANGED <<task, handler, shutdown>>

\* blocking_recv returns: an answer came, or its sender is gone.
Resume(g) ==
  /\ guest[g] = "waiting"
  /\ reply[g] # "pending"
  /\ guest' = [guest EXCEPT ![g] = "running"]
  /\ request' = [request EXCEPT ![g] = NoRequest]
  /\ outcome' = [outcome EXCEPT ![g] = IF reply[g] = "ok" THEN "ok" ELSE "error"]
  /\ reply' = [reply EXCEPT ![g] = "unused"]
  /\ UNCHANGED <<queue, task, handler, shutdown>>

-----------------------------------------------------------------------------
(* The owner of the handler and of the sender that stops it.               *)

StartLoop ==
  /\ handler = "built"
  /\ handler' = "looping"
  /\ UNCHANGED <<guestVars, reply, queue, task, shutdown>>

SendShutdown ==
  /\ shutdown = "armed"
  /\ shutdown' = "message"
  /\ UNCHANGED <<guestVars, reply, queue, task, handler>>

DropShutdownSender ==
  /\ shutdown = "armed"
  /\ shutdown' = "senderDropped"
  /\ UNCHANGED <<guestVars, reply, queue, task, handler>>

\* The request of g is still in the channel.
Queued(g) == \E i \in 1..Len(queue) : queue[i] = g

\* A handler that takes its tasks down with it.
DropHandlerAndTasks ==
  /\ handler \in {"built", "returned"}
  /\ handler' = "dropped"
  /\ queue' = <<>>
  /\ reply' = [g \in Guests |-> IF Queued(g) \/ task[g] # "none" THEN "dropped" ELSE reply[g]]
  /\ task' = [g \in Guests |-> "none"]
  /\ UNCHANGED <<guestVars, shutdown>>

\* A channel that outlives its receiver with the requests still in it.
DropHandlerKeepReplies ==
  /\ handler \in {"built", "returned"}
  /\ handler' = "dropped"
  /\ queue' = <<>>
  /\ UNCHANGED <<guestVars, reply, task, shutdown>>

\* Dropping the handler closes the channel and frees what it still holds: the
\* oneshot senders of the queued requests go with them.  Spawned tasks go on.
DropHandler ==
  /\ handler \in {"built", "returned"}
  /\ handler' = "dropped"
  /\ queue' = <<>>
  /\ reply' = [g \in Guests |-> IF Queued(g) THEN "dropped" ELSE reply[g]]
  /\ UNCHANGED <<guestVars, task, shutdown>>

-----------------------------------------------------------------------------
(* The runtime: the loop, the tasks and the threads they run on.           *)

\* dns_lookup::lookup_host is a synchronous call inside a task: it keeps the
\* thread.  Every other evaluation gives its thread back while it waits.
Blocking == { g \in Guests : task[g] = "blocking" }
FreeWorker == Cardinality(Blocking) < Workers

IsLookup(g) == request[g].type = "DNSLookupHost"

\* A loop that returns only after the evaluations it spawned.
LoopShutdownAfterTasks ==
  /\ FreeWorker
  /\ handler = "looping"
  /\ shutdown # "armed"
  /\ \A g \in Guests : task[g] = "none"
  /\ handler' = "returned"
  /\ UNCHANGED <<guestVars, reply, queue, task, shutdown>>

\* select! has no `biased`: when both branches are ready either may win.
LoopShutdown ==
  /\ FreeWorker
  /\ handler = "looping"
  /\ shutdown # "armed"
  /\ handler' = "returned"
  /\ UNCHANGED <<guestVars, reply, queue, task, shutdown>>

\* A loop that awaits the evaluation instead of spawning it.
LoopRequestInline ==
  /\ FreeWorker
  /\ handler = "looping"
  /\ queue # <<>>
  /\ \A g \in Guests : task[g] = "none"
  /\ queue' = Tail(queue)
  /\ task' = [task EXCEPT ![Head(queue)] = "spawned"]
  /\ UNCHANGED <<guestVars, reply, handler, shutdown>>

\* recv, then handle_request, which only spawns.
LoopRequest ==
  /\ FreeWorker
  /\ handler = "looping"
  /\ queue # <<>>
  /\ queue' = Tail(queue)
  /\ task' = [task EXCEPT ![Head(queue)] = "spawned"]
  /\ UNCHANGED <<guestVars, reply, handler, shutdown>>

Answer(g) ==
  /\ \E r \in {"ok", "failed"} :
       /\ request[g].type \in KubernetesTypes /\ ~ HasKubeClient => r = "failed"
       /\ reply' = [reply EXCEPT ![g] = r]
  /\ task' = [task EXCEPT ![g] = "none"]
  /\ UNCHANGED <<guestVars, queue, handler, shutdown>>

StartLookup(g) ==
  /\ FreeWorker
  /\ task[g] = "spawned"
  /\ IsLookup(g)
  /\ task' = [task EXCEPT ![g] = "blocking"]
  /\ UNCHANGED <<guestVars, reply, queue, handler, shutdown>>

FinishLookup(g) ==
  /\ task[g] = "blocking"
  /\ Answer(g)

FinishTask(g) ==
  /\ FreeWorker
  /\ task[g] = "spawned"
  /\ ~ IsLookup(g)
  /\ Answer(g)

MayPanic(g) == request[g] # NoRequest /\ request[g].type \in PanickingTypes

\* Url::parse(..).expect(..): the panic ends the task and unwinds what it owns,
\* the oneshot sender included.  The JoinHandle has been dropped: nobody else
\* notices.
PanicTask(g) ==
  /\ FreeWorker
  /\ task[g] = "spawned"
  /\ MayPanic(g)
  /\ reply' = [reply EXCEPT ![g] = "dropped"]
  /\ task' = [task EXCEPT ![g] = "none"]
  /\ UNCHANGED <<guestVars, queue, handler, shutdown>>

-----------------------------------------------------------------------------
GuestStep(g) ==
  \/ \E c \in Calls : HostCall(g, c)
  \/ \E type \in RegoRequestTypes, resource \in Allowed[g] : RegoCall(g, type, resource)
  \/ Resume(g)

OwnerStep == StartLoop \/ SendShutdown \/ DropShutdownSender \/ DropHandler

RuntimeStep ==
  \/ LoopShutdown
  \/ LoopRequest
  \/ \E g \in Guests : StartLookup(g) \/ FinishLookup(g) \/ FinishTask(g) \/ PanicTask(g)

Next == (\E g \in Guests : GuestStep(g)) \/ OwnerStep \/ RuntimeStep

\* The runtime schedules every ready task again and again, so a step that needs
\* a free thread is taken if one is free again and again.  A lookup ends (the
\* resolver gives up); an evaluation ends, if by a panic, unless its type may
\* hang.  The owner runs the loop it built and drops the handler when the loop
\* has returned.
\* Nothing obliges anybody to stop the loop.
EndingTask(g) ==
  /\ request[g] # NoRequest /\ request[g].type \notin MayHang
  /\ FinishTask(g) \/ PanicTask(g)

Fairness ==
  /\ WF_vars(StartLoop)
  /\ WF_vars(handler = "returned" /\ DropHandler)
  /\ SF_vars(LoopShutdown)
  /\ SF_vars(LoopRequest)
  /\ \A g \in Guests :
       /\ WF_vars(Resume(g))
       /\ SF_vars(StartLookup(g))
       /\ WF_vars(FinishLookup(g))
       /\ SF_vars(EndingTask(g))

Spec == Init /\ [][Next]_vars
FairSpec == Spec /\ Fairness

-----------------------------------------------------------------------------
(* Properties.                                                             *)

\* Request g has sent and nobody has answered or given up.
Awaiting(g) == guest[g] = "waiting" /\ reply[g] = "pending"

\* A guest blocked in blocking_recv can only be woken by whoever holds the
\* sender of its oneshot channel.  While it waits there is exactly one such
\* holder, the channel or a task; nobody holds the sender of a guest that does
\* not wait; and a dropped handler holds none.  (callback_handler.rs moves the
\* request from try_send to recv to the spawned task.)
OneHolderPerAwaitedReply ==
  /\ \A i, j \in 1..Len(queue) : queue[i] = queue[j] => i = j
  /\ \A g \in Guests :
       /\ Awaiting(g) <=> Queued(g) \/ task[g] # "none"
       /\ Queued(g) => task[g] = "none"
  /\ handler = "dropped" => queue = <<>>

\* A request for a Kubernetes resource reaches the handler only for a resource
\* in the allow list of the policy, whichever runtime made it; the deprecated
\* ClusterContext, with its three fixed resources, is the one exception
\* (can_access_kubernetes_resource in host_callback, the inventory's resources
\* in context_aware.rs).
OnlyGrantedResources ==
  \A g \in Guests :
    guest[g] = "waiting" /\ request[g].type \in GrantNeeded =>
      \/ request[g].resource \in Allowed[g]
      \/ /\ request[g].type = "KubernetesListResourceAll"
         /\ request[g].resource \in ClusterContextResources

\* What the handler promises, seen through its channel and tasks.
StatusOf(g) ==
  CASE reply[g] = "unused" -> "idle"
    [] reply[g] = "dropped" -> "abandoned"
    [] reply[g] \in {"ok", "failed"} -> "answered"
    [] reply[g] = "pending" /\ task[g] # "none" -> "serving"
    [] OTHER -> "accepted"

Service == INSTANCE HostCallService
             WITH open <- handler # "dropped",
                  status <- [g \in Guests |-> StatusOf(g)],
                  fragile <- {g \in Guests : MayPanic(g)}

\* Channel, loop, tasks and drop together implement the service: no call is
\* accepted after the drop; a call that a task serves is answered even when the
\* handler is dropped meanwhile, unless the evaluation of that very call panics,
\* which is of no consequence to the other calls; a call that nobody serves is
\* given up by the drop alone; and what has become of a call stays so until its
\* guest has read it.
ImplementsService == Service!Spec

\* A guest that calls the host gets control back, although evaluations of other
\* guests may never end, lookups keep threads busy and the handler may be
\* stopped at any time (one task per request in handle_request; the drop of the
\* oneshot senders).
EveryCallReturns ==
  \A g \in Guests :
    guest[g] = "waiting" /\ request[g].type \notin MayHang ~> guest[g] = "running"

\* Once the loop is told to stop, it stops, under any load.
ShutdownCompletes == shutdown # "armed" ~> handler = "dropped"
=============================================================================

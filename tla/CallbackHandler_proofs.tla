------------------------ MODULE CallbackHandler_proofs ------------------------
(***************************************************************************)
(* For every number of guests, channel size, number of threads and set of  *)
(* calls: the type invariant, one holder per awaited reply, and that the   *)
(* channel, the loop and the tasks implement HostCallService.              *)
(***************************************************************************)
EXTENDS CallbackHandler, SequenceTheorems, TLAPS

\* What a step needs to know beside the two invariants: the reply of a guest
\* says whether it waits.
ReplyMeansWaiting ==
  \A g \in Guests : reply[g] = "unused" <=> guest[g] = "running"

IInv == TypeOK /\ OneHolderPerAwaitedReply /\ ReplyMeansWaiting

\* Every request a host call puts on the channel has a type and a resource.
LEMMA RequestsTyped ==
  ASSUME NEW c \in Calls, NEW allowed, NEW req \in RequestsOf(c, allowed)
  PROVE  req \in Requests
  BY CallsAssumption
  DEF RequestsOf, Requests, RequestTypes, RegoRequestTypes, Route, ClusterContextResources

\* Whether a guest enqueues or is turned away, the types are right.
LEMMA SubmitTyped ==
  ASSUME TypeOK, NEW g \in Guests, NEW req \in Requests, Submit(g, req),
         UNCHANGED <<task, handler, shutdown>>
  PROVE  TypeOK'
<1>1. CASE Return(g, "error")
  BY <1>1 DEF TypeOK, Return
<1>2. CASE Len(queue) # Capacity /\ Enqueue(g, req)
  <2>1. queue' \in Seq(Guests) /\ Len(queue') <= Capacity
    BY <1>2, CapacityAssumption DEF TypeOK, Enqueue
  <2>2. QED
    BY <1>2, <2>1 DEF TypeOK, Enqueue
<1>3. QED
  BY <1>1, <1>2 DEF Submit

\* The type invariant is inductive: each action keeps every variable in its set
\* and the channel within its size.
LEMMA TypeStep == TypeOK /\ [Next]_vars => TypeOK'
<1> SUFFICES ASSUME TypeOK, [Next]_vars PROVE TypeOK'
  OBVIOUS
<1>1. ASSUME NEW g \in Guests, NEW c \in Calls, HostCall(g, c) PROVE TypeOK'
  <2>1. CASE IsLog(c) /\ Return(g, "ok")
    BY <1>1, <2>1 DEF TypeOK, HostCall, Return
  <2>2. CASE Return(g, "error")
    BY <1>1, <2>2 DEF TypeOK, HostCall, Return
  <2>3. ASSUME NEW req \in RequestsOf(c, Allowed[g]), Submit(g, req) PROVE TypeOK'
    <3>1. req \in Requests
      BY RequestsTyped
    <3>2. QED
      BY <1>1, <2>3, <3>1, SubmitTyped DEF HostCall
  <2>4. QED
    BY <1>1, <2>1, <2>2, <2>3 DEF HostCall
<1>2. ASSUME NEW g \in Guests, NEW type \in RegoRequestTypes, NEW resource \in Allowed[g],
             RegoCall(g, type, resource)
      PROVE TypeOK'
  <2>1. [type |-> type, resource |-> resource] \in Requests
    BY GuestsAssumption DEF Requests, RequestTypes
  <2>2. QED
    BY <1>2, <2>1, SubmitTyped DEF RegoCall
<1>3. ASSUME NEW g \in Guests, Resume(g) PROVE TypeOK'
  BY <1>3 DEF TypeOK, Resume
<1>4. CASE StartLoop \/ SendShutdown \/ DropShutdownSender
  BY <1>4 DEF TypeOK, StartLoop, SendShutdown, DropShutdownSender, guestVars
<1>5. CASE DropHandler
  BY <1>5, CapacityAssumption DEF TypeOK, DropHandler, guestVars
<1>6. CASE LoopShutdown
  BY <1>6 DEF TypeOK, LoopShutdown, guestVars
<1>7. CASE LoopRequest
  <2>1. /\ Head(queue) \in Guests
        /\ Tail(queue) \in Seq(Guests)
        /\ Len(Tail(queue)) = Len(queue) - 1
    BY <1>7, HeadTailProperties DEF TypeOK, LoopRequest
  <2>2. Len(queue) \in Nat
    BY LenProperties DEF TypeOK
  <2>3. QED
    BY <1>7, <2>1, <2>2, CapacityAssumption DEF TypeOK, LoopRequest, guestVars
<1>8. ASSUME NEW g \in Guests, StartLookup(g) PROVE TypeOK'
  BY <1>8 DEF TypeOK, StartLookup, guestVars
<1>9. ASSUME NEW g \in Guests, FinishLookup(g) \/ FinishTask(g) \/ PanicTask(g)
      PROVE TypeOK'
  BY <1>9 DEF TypeOK, FinishLookup, FinishTask, PanicTask, Answer, guestVars
<1>10. CASE UNCHANGED vars
  BY <1>10 DEF TypeOK, vars
<1>11. QED
  BY <1>1, <1>2, <1>3, <1>4, <1>5, <1>6, <1>7, <1>8, <1>9, <1>10
  DEF Next, GuestStep, OwnerStep, RuntimeStep

\* Type correctness of the callback handler for every value of its constants.
THEOREM TypeCorrect == Spec => []TypeOK
<1>1. Init => TypeOK
  BY CapacityAssumption DEF Init, TypeOK
<1>2. QED
  BY <1>1, TypeStep, PTL DEF Spec

-----------------------------------------------------------------------------
(* One holder per awaited reply.  The positions of the queue are what moves: *)
(* a request appended is a guest that was running, hence not yet in it, and  *)
(* the head taken leaves no second copy behind.                              *)

\* Who is in the queue after try_send.
LEMMA QueuedAfterAppend ==
  ASSUME TypeOK, NEW g \in Guests, queue' = Append(queue, g)
  PROVE  /\ \A x \in Guests : Queued(x)' <=> Queued(x) \/ x = g
         /\ Len(queue') = Len(queue) + 1
         /\ \A i \in 1..Len(queue) : queue'[i] = queue[i]
         /\ queue'[Len(queue) + 1] = g
<1>1. /\ Len(queue') = Len(queue) + 1
      /\ \A i \in 1..Len(queue) : queue'[i] = queue[i]
      /\ queue'[Len(queue) + 1] = g
  BY AppendProperties DEF TypeOK
<1>2. Len(queue) \in Nat
  BY LenProperties DEF TypeOK
<1>3. QED
  BY <1>1, <1>2 DEF Queued

\* Who is in the queue after recv, when nobody was in it twice.
LEMMA QueuedAfterTail ==
  ASSUME TypeOK, OneHolderPerAwaitedReply, queue # <<>>, queue' = Tail(queue)
  PROVE  /\ Head(queue) \in Guests
         /\ Queued(Head(queue))
         /\ \A x \in Guests : Queued(x)' <=> Queued(x) /\ x # Head(queue)
         /\ \A i, j \in 1..Len(queue') : queue'[i] = queue'[j] => i = j
<1>1. /\ Head(queue) \in Guests
      /\ Len(queue') = Len(queue) - 1
      /\ \A i \in 1..Len(queue') : queue'[i] = queue[i + 1]
  BY HeadTailProperties DEF TypeOK
<1>2. Len(queue) \in Nat /\ Len(queue) # 0 /\ Head(queue) = queue[1]
  BY LenProperties, EmptySeq DEF TypeOK
<1>3. \A i, j \in 1..Len(queue) : queue[i] = queue[j] => i = j
  BY DEF OneHolderPerAwaitedReply
<1>4. Queued(Head(queue))
  BY <1>2 DEF Queued
<1>5. ASSUME NEW x \in Guests PROVE Queued(x)' <=> Queued(x) /\ x # Head(queue)
  <2>1. ASSUME Queued(x)' PROVE Queued(x) /\ x # Head(queue)
    BY <1>1, <1>2, <1>3, <2>1 DEF Queued
  <2>2. ASSUME Queued(x), x # Head(queue) PROVE Queued(x)'
    <3>1. PICK i \in 1..Len(queue) : queue[i] = x
      BY <2>2 DEF Queued
    <3>2. i - 1 \in 1..Len(queue') /\ queue'[i - 1] = x
      BY <1>1, <1>2, <2>2, <3>1
    <3>3. QED
      BY <3>2 DEF Queued
  <2>3. QED
    BY <2>1, <2>2
<1>6. \A i, j \in 1..Len(queue') : queue'[i] = queue'[j] => i = j
  BY <1>1, <1>2, <1>3
<1>7. QED
  BY <1>1, <1>4, <1>5, <1>6

\* The guest that enqueues was running, so nobody held anything for it.
LEMMA SubmitHolder ==
  ASSUME IInv, NEW g \in Guests, NEW req \in Requests, guest[g] = "running",
         Submit(g, req), UNCHANGED <<task, handler, shutdown>>
  PROVE  (OneHolderPerAwaitedReply /\ ReplyMeansWaiting)'
<1>1. CASE Return(g, "error")
  BY <1>1 DEF IInv, TypeOK, Return, OneHolderPerAwaitedReply, ReplyMeansWaiting,
              Awaiting, Queued
<1>2. CASE Enqueue(g, req) /\ handler # "dropped"
  <2> USE <1>2 DEF IInv, Enqueue
  <2>1. ~ Queued(g) /\ task[g] = "none"
    BY DEF OneHolderPerAwaitedReply, Awaiting
  <2>2. /\ \A x \in Guests : Queued(x)' <=> Queued(x) \/ x = g
        /\ Len(queue') = Len(queue) + 1
        /\ \A i \in 1..Len(queue) : queue'[i] = queue[i]
        /\ queue'[Len(queue) + 1] = g
    BY QueuedAfterAppend
  <2>3. Len(queue) \in Nat
    BY LenProperties DEF TypeOK
  <2>4. \A i, j \in 1..Len(queue') : queue'[i] = queue'[j] => i = j
    BY <2>1, <2>2, <2>3 DEF OneHolderPerAwaitedReply, Queued
  <2>5. /\ guest' = [guest EXCEPT ![g] = "waiting"]
        /\ reply' = [reply EXCEPT ![g] = "pending"]
        /\ task' = task
        /\ handler' = handler
    OBVIOUS
  <2>6. ASSUME NEW x \in Guests
        PROVE  /\ Awaiting(x)' <=> Queued(x)' \/ task'[x] # "none"
               /\ Queued(x)' => task'[x] = "none"
    <3>1. CASE x = g
      BY <2>1, <2>2, <2>5, <3>1 DEF TypeOK, Awaiting
    <3>2. CASE x # g
      BY <2>2, <2>5, <3>2 DEF TypeOK, Awaiting, OneHolderPerAwaitedReply
    <3>3. QED
      BY <3>1, <3>2
  <2>7. ReplyMeansWaiting'
    BY <2>5 DEF TypeOK, ReplyMeansWaiting
  <2>8. QED
    BY <2>4, <2>5, <2>6, <2>7 DEF OneHolderPerAwaitedReply
<1>3. QED
  BY <1>1, <1>2 DEF Submit

\* Every step keeps the strengthened invariant.
LEMMA HolderStep == IInv /\ [Next]_vars => (OneHolderPerAwaitedReply /\ ReplyMeansWaiting)'
<1> SUFFICES ASSUME IInv, [Next]_vars
             PROVE  (OneHolderPerAwaitedReply /\ ReplyMeansWaiting)'
  OBVIOUS
<1> USE DEF IInv
<1>1. ASSUME NEW g \in Guests, NEW c \in Calls, HostCall(g, c)
      PROVE  (OneHolderPerAwaitedReply /\ ReplyMeansWaiting)'
  <2>1. ASSUME NEW result, Return(g, result)
        PROVE  (OneHolderPerAwaitedReply /\ ReplyMeansWaiting)'
    BY <1>1, <2>1 DEF HostCall, Return, OneHolderPerAwaitedReply, ReplyMeansWaiting,
                      Awaiting, Queued
  <2>2. ASSUME NEW req \in RequestsOf(c, Allowed[g]), Submit(g, req)
        PROVE  (OneHolderPerAwaitedReply /\ ReplyMeansWaiting)'
    <3>1. req \in Requests
      BY RequestsTyped
    <3>2. guest[g] = "running" /\ UNCHANGED <<task, handler, shutdown>>
      BY <1>1 DEF HostCall
    <3>3. QED
      BY <2>2, <3>1, <3>2, SubmitHolder
  <2>3. QED
    BY <1>1, <2>1, <2>2 DEF HostCall
<1>2. ASSUME NEW g \in Guests, NEW type \in RegoRequestTypes, NEW resource \in Allowed[g],
             RegoCall(g, type, resource)
      PROVE  (OneHolderPerAwaitedReply /\ ReplyMeansWaiting)'
  <2>1. [type |-> type, resource |-> resource] \in Requests
    BY GuestsAssumption DEF Requests, RequestTypes
  <2>2. QED
    BY <1>2, <2>1, SubmitHolder DEF RegoCall
<1>3. ASSUME NEW g \in Guests, Resume(g)
      PROVE  (OneHolderPerAwaitedReply /\ ReplyMeansWaiting)'
  BY <1>3 DEF Resume, TypeOK, OneHolderPerAwaitedReply, ReplyMeansWaiting, Awaiting, Queued
<1>4. CASE StartLoop \/ SendShutdown \/ DropShutdownSender \/ LoopShutdown
  BY <1>4 DEF StartLoop, SendShutdown, DropShutdownSender, LoopShutdown, guestVars,
              OneHolderPerAwaitedReply, ReplyMeansWaiting, Awaiting, Queued
<1>5. CASE DropHandler
  <2>1. \A g \in Guests : ~ Queued(g)'
    BY <1>5, EmptySeq DEF DropHandler, Queued
  <2>2. reply' = [g \in Guests |-> IF Queued(g) THEN "dropped" ELSE reply[g]]
    BY <1>5 DEF DropHandler
  <2>3. UNCHANGED <<guest, task>> /\ queue' = <<>>
    BY <1>5 DEF DropHandler, guestVars
  <2>4. \A i, j \in 1..Len(queue') : queue'[i] = queue'[j] => i = j
    BY <2>3, EmptySeq
  <2>5. \A g \in Guests : Awaiting(g)' <=> Queued(g)' \/ task'[g] # "none"
    BY <2>1, <2>2, <2>3 DEF OneHolderPerAwaitedReply, Awaiting
  <2>6. ReplyMeansWaiting'
    BY <2>2, <2>3 DEF ReplyMeansWaiting, OneHolderPerAwaitedReply, Awaiting
  <2>7. QED
    BY <2>1, <2>3, <2>4, <2>5, <2>6 DEF OneHolderPerAwaitedReply
<1>6. CASE LoopRequest
  <2>1. /\ Head(queue) \in Guests
        /\ Queued(Head(queue))
        /\ \A x \in Guests : Queued(x)' <=> Queued(x) /\ x # Head(queue)
        /\ \A i, j \in 1..Len(queue') : queue'[i] = queue'[j] => i = j
    BY <1>6, QueuedAfterTail DEF LoopRequest
  <2>2. /\ task' = [task EXCEPT ![Head(queue)] = "spawned"]
        /\ UNCHANGED <<guest, reply, handler>>
        /\ handler = "looping"
    BY <1>6 DEF LoopRequest, guestVars
  <2>3. ASSUME NEW g \in Guests
        PROVE  /\ Awaiting(g)' <=> Queued(g)' \/ task'[g] # "none"
               /\ Queued(g)' => task'[g] = "none"
    <3>1. CASE g = Head(queue)
      BY <2>1, <2>2, <3>1 DEF TypeOK, OneHolderPerAwaitedReply, Awaiting
    <3>2. CASE g # Head(queue)
      BY <2>1, <2>2, <3>2 DEF TypeOK, OneHolderPerAwaitedReply, Awaiting
    <3>3. QED
      BY <3>1, <3>2
  <2>4. ReplyMeansWaiting'
    BY <2>2 DEF ReplyMeansWaiting
  <2>5. QED
    BY <2>1, <2>2, <2>3, <2>4 DEF OneHolderPerAwaitedReply
<1>7. ASSUME NEW g \in Guests, StartLookup(g)
      PROVE  (OneHolderPerAwaitedReply /\ ReplyMeansWaiting)'
  BY <1>7 DEF StartLookup, TypeOK, guestVars, OneHolderPerAwaitedReply, ReplyMeansWaiting,
              Awaiting, Queued
<1>8. ASSUME NEW g \in Guests, task[g] # "none", Answer(g)
      PROVE  (OneHolderPerAwaitedReply /\ ReplyMeansWaiting)'
  BY <1>8 DEF Answer, TypeOK, guestVars, OneHolderPerAwaitedReply, ReplyMeansWaiting,
              Awaiting, Queued
<1>9. CASE UNCHANGED vars
  BY <1>9 DEF vars, OneHolderPerAwaitedReply, ReplyMeansWaiting, Awaiting, Queued
<1>10. ASSUME NEW g \in Guests, FinishLookup(g) \/ FinishTask(g) \/ PanicTask(g)
       PROVE  (OneHolderPerAwaitedReply /\ ReplyMeansWaiting)'
  <2>1. CASE PanicTask(g)
    BY <2>1 DEF PanicTask, TypeOK, guestVars, OneHolderPerAwaitedReply, ReplyMeansWaiting,
                Awaiting, Queued
  <2>2. QED
    BY <1>8, <1>10, <2>1 DEF FinishLookup, FinishTask
<1>11. QED
  BY <1>1, <1>2, <1>3, <1>4, <1>5, <1>6, <1>7, <1>9, <1>10
  DEF Next, GuestStep, OwnerStep, RuntimeStep

\* The strengthened invariant holds in every state.
THEOREM Invariance == Spec => []IInv
<1>1. Init => IInv
  BY CapacityAssumption, EmptySeq
  DEF Init, IInv, TypeOK, OneHolderPerAwaitedReply, ReplyMeansWaiting, Awaiting, Queued
<1>2. IInv /\ [Next]_vars => IInv'
  BY TypeStep, HolderStep DEF IInv
<1>3. QED
  BY <1>1, <1>2, PTL DEF Spec

\* A blocked guest can always still be woken, by exactly one holder.
THEOREM OneHolder == Spec => []OneHolderPerAwaitedReply
  BY Invariance, PTL DEF IInv

-----------------------------------------------------------------------------
(* The channel implements the service.                                      *)

\* A guest has a request exactly while it waits for the answer.
RequestMeansWaiting ==
  \A g \in Guests : request[g] = NoRequest <=> guest[g] = "running"

\* A guest is given its request when it starts to wait and forgets it with the
\* answer.
LEMMA RequestStep == TypeOK /\ RequestMeansWaiting /\ [Next]_vars => RequestMeansWaiting'
<1> SUFFICES ASSUME TypeOK, RequestMeansWaiting, [Next]_vars PROVE RequestMeansWaiting'
  OBVIOUS
<1>1. ASSUME NEW g \in Guests, NEW req \in Requests, Submit(g, req)
      PROVE  RequestMeansWaiting'
  BY <1>1, NoRequestAssumption DEF Submit, Return, Enqueue, TypeOK, RequestMeansWaiting
<1>2. ASSUME NEW g \in Guests, NEW c \in Calls, HostCall(g, c)
      PROVE  RequestMeansWaiting'
  <2>1. ASSUME NEW result, Return(g, result) PROVE RequestMeansWaiting'
    BY <2>1 DEF Return, RequestMeansWaiting
  <2>2. ASSUME NEW req \in RequestsOf(c, Allowed[g]), Submit(g, req)
        PROVE  RequestMeansWaiting'
    BY <1>1, <2>2, RequestsTyped
  <2>3. QED
    BY <1>2, <2>1, <2>2 DEF HostCall
<1>3. ASSUME NEW g \in Guests, NEW type \in RegoRequestTypes, NEW resource \in Allowed[g],
             RegoCall(g, type, resource)
      PROVE  RequestMeansWaiting'
  <2>1. [type |-> type, resource |-> resource] \in Requests
    BY GuestsAssumption DEF Requests, RequestTypes
  <2>2. QED
    BY <1>1, <1>3, <2>1 DEF RegoCall
<1>4. ASSUME NEW g \in Guests, Resume(g) PROVE RequestMeansWaiting'
  BY <1>4 DEF Resume, TypeOK, RequestMeansWaiting
<1>5. CASE UNCHANGED guestVars
  BY <1>5 DEF guestVars, RequestMeansWaiting
<1>6. QED
  BY <1>2, <1>3, <1>4, <1>5
  DEF Next, GuestStep, OwnerStep, RuntimeStep, StartLoop, SendShutdown,
      DropShutdownSender, DropHandler, LoopShutdown, LoopRequest, StartLookup,
      FinishLookup, FinishTask, PanicTask, Answer, vars, guestVars

\* What the service must know of a guest: the state of its call and its request.
THEOREM CallsKnown == Spec => [](IInv /\ RequestMeansWaiting)
<1>1. Init => RequestMeansWaiting
  BY DEF Init, RequestMeansWaiting
<1>2. IInv /\ RequestMeansWaiting /\ [Next]_vars => RequestMeansWaiting'
  BY RequestStep DEF IInv
<1>3. QED
  BY <1>1, <1>2, Invariance, PTL DEF Spec

\* The service's view of the calls.
Statuses == [g \in Guests |-> StatusOf(g)]

\* The service's view of the calls that may break.
Fragile == { g \in Guests : MayPanic(g) }

\* A step that leaves the requests alone leaves the same calls fragile.
LEMMA SameFragile == ASSUME UNCHANGED request PROVE Fragile' = Fragile
  BY DEF Fragile, MayPanic

\* A step that changes the state of one guest changes one status.
LEMMA OneStatus ==
  ASSUME NEW g \in Guests, NEW s, StatusOf(g)' = s,
         \A x \in Guests \ {g} : StatusOf(x)' = StatusOf(x)
  PROVE  Statuses' = [Statuses EXCEPT ![g] = s]
  BY DEF Statuses

\* Enqueueing is the service accepting a call; being turned away is nothing.
LEMMA SubmitRefines ==
  ASSUME IInv, RequestMeansWaiting, NEW g \in Guests, NEW req \in Requests, guest[g] = "running",
         Submit(g, req), UNCHANGED <<task, handler, shutdown>>
  PROVE  Service!Next \/ UNCHANGED Service!vars
<1>1. CASE Return(g, "error")
  BY <1>1 DEF Return, Service!vars, StatusOf, MayPanic
<1>2. CASE Enqueue(g, req) /\ handler # "dropped"
  <2>1. task[g] = "none"
    BY DEF IInv, OneHolderPerAwaitedReply, Awaiting
  <2>2. /\ guest' = [guest EXCEPT ![g] = "waiting"]
        /\ reply' = [reply EXCEPT ![g] = "pending"]
        /\ task' = task
        /\ handler' = handler
        /\ request' = [request EXCEPT ![g] = req]
    BY <1>2 DEF Enqueue
  <2>3. StatusOf(g) = "idle" /\ StatusOf(g)' = "accepted"
    BY <2>1, <2>2 DEF IInv, TypeOK, ReplyMeansWaiting, StatusOf
  <2>4. \A x \in Guests \ {g} : StatusOf(x)' = StatusOf(x)
    BY <2>2 DEF IInv, TypeOK, StatusOf
  <2>5. g \notin Fragile /\ Fragile' \in {Fragile, Fragile \cup {g}}
    <3>1. ~ MayPanic(g)
      BY DEF RequestMeansWaiting, MayPanic
    <3>2. \A x \in Guests \ {g} : MayPanic(x)' <=> MayPanic(x)
      BY <2>2 DEF IInv, TypeOK, MayPanic
    <3>3. QED
      BY <3>1, <3>2 DEF Fragile
  <2>6. Service!Accept(g)
    BY <1>2, <2>2, <2>3, <2>4, <2>5, OneStatus DEF Service!Accept, Statuses, Fragile
  <2>7. QED
    BY <2>6 DEF Service!Next
<1>3. QED
  BY <1>1, <1>2 DEF Submit

\* Every step of the handler is a step of the service or leaves it as it is.
LEMMA StepRefines ==
  ASSUME IInv, RequestMeansWaiting, [Next]_vars
  PROVE  Service!Next \/ UNCHANGED Service!vars
<1> USE DEF IInv
<1>1. ASSUME NEW g \in Guests, NEW c \in Calls, HostCall(g, c)
      PROVE  Service!Next \/ UNCHANGED Service!vars
  <2>1. ASSUME NEW result, Return(g, result)
        PROVE  UNCHANGED Service!vars
    BY <1>1, <2>1 DEF HostCall, Return, Service!vars, StatusOf, MayPanic
  <2>2. ASSUME NEW req \in RequestsOf(c, Allowed[g]), Submit(g, req)
        PROVE  Service!Next \/ UNCHANGED Service!vars
    <3>1. req \in Requests
      BY RequestsTyped
    <3>2. guest[g] = "running" /\ UNCHANGED <<task, handler, shutdown>>
      BY <1>1 DEF HostCall
    <3>3. QED
      BY <2>2, <3>1, <3>2, SubmitRefines
  <2>3. QED
    BY <1>1, <2>1, <2>2 DEF HostCall
<1>2. ASSUME NEW g \in Guests, NEW type \in RegoRequestTypes, NEW resource \in Allowed[g],
             RegoCall(g, type, resource)
      PROVE  Service!Next \/ UNCHANGED Service!vars
  <2>1. [type |-> type, resource |-> resource] \in Requests
    BY GuestsAssumption DEF Requests, RequestTypes
  <2>2. QED
    BY <1>2, <2>1, SubmitRefines DEF RegoCall
<1>3. ASSUME NEW g \in Guests, Resume(g)
      PROVE  Service!Next
  <2>1. /\ guest' = [guest EXCEPT ![g] = "running"]
        /\ reply' = [reply EXCEPT ![g] = "unused"]
        /\ UNCHANGED <<task, handler>>
        /\ guest[g] = "waiting" /\ reply[g] # "pending"
        /\ request' = [request EXCEPT ![g] = NoRequest]
    BY <1>3 DEF Resume
  <2>2. StatusOf(g) \in {"answered", "abandoned"} /\ StatusOf(g)' = "idle"
    BY <2>1 DEF TypeOK, StatusOf, ReplyMeansWaiting
  <2>3. \A x \in Guests \ {g} : StatusOf(x)' = StatusOf(x)
    BY <2>1 DEF TypeOK, StatusOf
  <2>4. Fragile' = Fragile \ {g}
    BY <2>1 DEF TypeOK, Fragile, MayPanic
  <2>5. Service!Return(g)
    BY <2>1, <2>2, <2>3, <2>4, OneStatus DEF Service!Return, Statuses, Fragile
  <2>6. QED
    BY <2>5 DEF Service!Next
<1>4. CASE StartLoop \/ SendShutdown \/ DropShutdownSender \/ LoopShutdown
  BY <1>4 DEF StartLoop, SendShutdown, DropShutdownSender, LoopShutdown, guestVars,
              Service!vars, StatusOf, MayPanic
<1>5. CASE DropHandler
  <2>1. /\ reply' = [g \in Guests |-> IF Queued(g) THEN "dropped" ELSE reply[g]]
        /\ UNCHANGED <<guest, request, task>>
        /\ handler # "dropped" /\ handler' = "dropped"
    BY <1>5 DEF DropHandler, guestVars
  <2>2. ASSUME NEW g \in Guests
        PROVE  StatusOf(g)' = IF StatusOf(g) = "accepted" THEN "abandoned" ELSE StatusOf(g)
    BY <2>1 DEF TypeOK, OneHolderPerAwaitedReply, ReplyMeansWaiting, Awaiting, StatusOf
  <2>3. Service!Close
    BY <2>1, <2>2, SameFragile DEF Service!Close, Fragile
  <2>4. QED
    BY <2>3 DEF Service!Next
<1>6. CASE LoopRequest
  <2>1. PICK h \in Guests : h = Head(queue) /\ Queued(h)
    BY <1>6, QueuedAfterTail DEF LoopRequest
  <2>2. /\ task' = [task EXCEPT ![h] = "spawned"]
        /\ UNCHANGED <<guest, request, reply, handler>>
        /\ handler = "looping"
    BY <1>6, <2>1 DEF LoopRequest, guestVars
  <2>3. StatusOf(h) = "accepted" /\ StatusOf(h)' = "serving"
    BY <2>1, <2>2 DEF TypeOK, OneHolderPerAwaitedReply, Awaiting, StatusOf
  <2>4. \A x \in Guests \ {h} : StatusOf(x)' = StatusOf(x)
    BY <2>2 DEF TypeOK, StatusOf
  <2>5. Service!Serve(h)
    BY <2>1, <2>2, <2>3, <2>4, OneStatus, SameFragile DEF Service!Serve, Statuses, Fragile
  <2>6. QED
    BY <2>1, <2>5 DEF Service!Next
<1>7. ASSUME NEW g \in Guests, StartLookup(g)
      PROVE  UNCHANGED Service!vars
  BY <1>7 DEF StartLookup, TypeOK, guestVars, Service!vars, StatusOf, MayPanic
<1>8. ASSUME NEW g \in Guests, task[g] # "none", Answer(g)
      PROVE  Service!Next
  <2>1. PICK r \in {"ok", "failed"} : reply' = [reply EXCEPT ![g] = r]
    BY <1>8 DEF Answer
  <2>2. /\ task' = [task EXCEPT ![g] = "none"]
        /\ UNCHANGED <<guest, request, handler>>
    BY <1>8 DEF Answer, guestVars
  <2>3. StatusOf(g) = "serving" /\ StatusOf(g)' = "answered"
    BY <1>8, <2>1, <2>2 DEF TypeOK, OneHolderPerAwaitedReply, Awaiting, StatusOf
  <2>4. \A x \in Guests \ {g} : StatusOf(x)' = StatusOf(x)
    BY <2>1, <2>2 DEF TypeOK, StatusOf
  <2>5. Service!Answer(g)
    BY <2>2, <2>3, <2>4, OneStatus, SameFragile DEF Service!Answer, Statuses, Fragile
  <2>6. QED
    BY <2>5 DEF Service!Next
<1>9. ASSUME NEW g \in Guests, FinishLookup(g) \/ FinishTask(g)
      PROVE  Service!Next
  BY <1>8, <1>9 DEF FinishLookup, FinishTask
<1>10. ASSUME NEW g \in Guests, PanicTask(g)
       PROVE  Service!Next
  <2>1. /\ reply' = [reply EXCEPT ![g] = "dropped"]
        /\ task' = [task EXCEPT ![g] = "none"]
        /\ UNCHANGED <<guest, request, handler>>
        /\ task[g] = "spawned" /\ MayPanic(g)
    BY <1>10 DEF PanicTask, guestVars
  <2>2. StatusOf(g) = "serving" /\ StatusOf(g)' = "abandoned"
    BY <2>1 DEF TypeOK, OneHolderPerAwaitedReply, Awaiting, StatusOf
  <2>3. \A x \in Guests \ {g} : StatusOf(x)' = StatusOf(x)
    BY <2>1 DEF TypeOK, StatusOf
  <2>4. Service!Break(g)
    BY <2>1, <2>2, <2>3, OneStatus, SameFragile DEF Service!Break, Statuses, Fragile
  <2>5. QED
    BY <2>4 DEF Service!Next
<1>11. CASE UNCHANGED vars
  BY <1>11 DEF vars, Service!vars, StatusOf, MayPanic
<1>12. QED
  BY <1>1, <1>2, <1>3, <1>4, <1>5, <1>6, <1>7, <1>9, <1>10, <1>11
  DEF Next, GuestStep, OwnerStep, RuntimeStep

\* Channel, loop, tasks and drop implement HostCallService for every number of
\* guests and every channel size: a call in service is given up by the panic of
\* its own evaluation and by nothing else, not even by the drop of the handler.
THEOREM Refinement == Spec => ImplementsService
<1>1. Init => Service!Init
  BY DEF Init, Service!Init, StatusOf, MayPanic
<1>2. IInv /\ RequestMeansWaiting /\ [Next]_vars => [Service!Next]_(Service!vars)
  BY StepRefines
<1>3. QED
  BY <1>1, <1>2, CallsKnown, PTL DEF Spec, ImplementsService, Service!Spec

-----------------------------------------------------------------------------
(* The allow list.                                                          *)

\* What host_callback lets through.
LEMMA RequestsGranted ==
  ASSUME NEW c \in Calls, NEW allowed, NEW req \in RequestsOf(c, allowed),
         req.type \in GrantNeeded
  PROVE  \/ req.resource \in allowed
         \/ /\ req.type = "KubernetesListResourceAll"
            /\ req.resource \in ClusterContextResources
  BY DEF RequestsOf, ClusterContextResources

\* A request in flight is one its policy may make; a guest's request changes
\* only when the guest makes it or has read the answer.
THEOREM Granted == Spec => []OnlyGrantedResources
<1>1. Init => OnlyGrantedResources
  BY DEF Init, OnlyGrantedResources
<1>2. ASSUME TypeOK, OnlyGrantedResources, [Next]_vars
      PROVE  OnlyGrantedResources'
  <2>1. ASSUME NEW g \in Guests, NEW req \in Requests, Submit(g, req),
               req.type \in GrantNeeded =>
                 \/ req.resource \in Allowed[g]
                 \/ /\ req.type = "KubernetesListResourceAll"
                    /\ req.resource \in ClusterContextResources
        PROVE  OnlyGrantedResources'
    BY <1>2, <2>1 DEF Submit, Return, Enqueue, TypeOK, OnlyGrantedResources
  <2>2. ASSUME NEW g \in Guests, NEW c \in Calls, HostCall(g, c)
        PROVE  OnlyGrantedResources'
    <3>1. ASSUME NEW result, Return(g, result) PROVE OnlyGrantedResources'
      BY <1>2, <3>1 DEF Return, OnlyGrantedResources
    <3>2. ASSUME NEW req \in RequestsOf(c, Allowed[g]), Submit(g, req)
          PROVE  OnlyGrantedResources'
      BY <2>1, <3>2, RequestsTyped, RequestsGranted
    <3>3. QED
      BY <2>2, <3>1, <3>2 DEF HostCall
  <2>3. ASSUME NEW g \in Guests, NEW type \in RegoRequestTypes,
               NEW resource \in Allowed[g], RegoCall(g, type, resource)
        PROVE  OnlyGrantedResources'
    <3>1. [type |-> type, resource |-> resource] \in Requests
      BY GuestsAssumption DEF Requests, RequestTypes
    <3>2. QED
      BY <2>1, <2>3, <3>1 DEF RegoCall
  <2>4. ASSUME NEW g \in Guests, Resume(g)
        PROVE  OnlyGrantedResources'
    BY <1>2, <2>4 DEF Resume, TypeOK, OnlyGrantedResources
  <2>5. CASE UNCHANGED guestVars
    BY <1>2, <2>5 DEF guestVars, OnlyGrantedResources
  <2>6. QED
    BY <1>2, <2>2, <2>3, <2>4, <2>5
    DEF Next, GuestStep, OwnerStep, RuntimeStep, StartLoop, SendShutdown,
        DropShutdownSender, DropHandler, LoopShutdown, LoopRequest, StartLookup,
        FinishLookup, FinishTask, PanicTask, Answer, vars, guestVars
<1>3. QED
  BY <1>1, <1>2, TypeCorrect, PTL DEF Spec

=============================================================================

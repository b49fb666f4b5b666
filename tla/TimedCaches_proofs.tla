-------------------------- MODULE TimedCaches_proofs --------------------------
(***************************************************************************)
(* For every set of tasks and questions, every life time and every bound:  *)
(* how the mutexes are held, how old an answer may be, that answers never  *)
(* go back, and what an answer that trusts an image stands for.            *)
(***************************************************************************)
EXTENDS TimedCaches, TLAPS

-----------------------------------------------------------------------------
(* Queues without repetition.                                              *)

Distinct(s) == \A i, j \in 1..Len(s) : s[i] = s[j] => i = j

\* Whoever joins a queue it is not in comes last.
LEMMA JoinQueue ==
  ASSUME NEW S, NEW s \in Seq(S), NEW x \in S
  PROVE  /\ Append(s, x) \in Seq(S)
         /\ Range(Append(s, x)) = Range(s) \cup {x}
         /\ Distinct(s) /\ x \notin Range(s) => Distinct(Append(s, x))
         /\ Append(s, x) # <<>>
         /\ Head(Append(s, x)) = IF s = <<>> THEN x ELSE Head(s)
<1> DEFINE a == Append(s, x)
<1>1. a \in Seq(S) /\ Len(a) = Len(s) + 1 /\ a[Len(s) + 1] = x
      /\ (\A i \in 1..Len(s) : a[i] = s[i]) /\ Len(s) \in Nat
  OBVIOUS
<1>2. DOMAIN a = 1..(Len(s) + 1) /\ DOMAIN s = 1..Len(s)
  BY <1>1
<1>3. 1..(Len(s) + 1) = 1..Len(s) \cup {Len(s) + 1}
  BY <1>1
<1> HIDE DEF a
<1>4. Range(a) = Range(s) \cup {x}
  BY <1>1, <1>2, <1>3 DEF Range
<1>5. ASSUME Distinct(s), x \notin Range(s)
      PROVE  Distinct(a)
  <2>1. \A i \in 1..Len(s) : s[i] # x
    BY <1>2, <1>5 DEF Range
  <2>2. QED
    BY <1>1, <1>3, <1>5, <2>1 DEF Distinct
<1>6. a # <<>> /\ Head(a) = IF s = <<>> THEN x ELSE Head(s)
  BY <1>1
<1>7. QED
  BY <1>1, <1>4, <1>5, <1>6 DEF a

\* Whoever leaves from the head of a queue is in it no more.
LEMMA LeaveQueue ==
  ASSUME NEW S, NEW s \in Seq(S), s # <<>>, Distinct(s)
  PROVE  /\ Tail(s) \in Seq(S)
         /\ Distinct(Tail(s))
         /\ Range(Tail(s)) = Range(s) \ {Head(s)}
<1> DEFINE u == Tail(s)
<1>1. u \in Seq(S) /\ Len(u) = Len(s) - 1 /\ Len(s) \in Nat \ {0}
      /\ \A i \in 1..Len(u) : u[i] = s[i + 1]
  OBVIOUS
<1>2. DOMAIN u = 1..Len(u) /\ DOMAIN s = 1..Len(s) /\ Head(s) = s[1]
  BY <1>1
<1> HIDE DEF u
<1>3. Distinct(u)
  BY <1>1 DEF Distinct
<1>4. \A i \in 2..Len(s) : i - 1 \in 1..Len(u) /\ u[i - 1] = s[i] /\ s[i] # s[1]
  BY <1>1 DEF Distinct
<1>5. \A i \in 1..Len(u) : i + 1 \in 2..Len(s) /\ u[i] = s[i + 1]
  BY <1>1
<1>6. 1..Len(s) = {1} \cup 2..Len(s)
  BY <1>1
<1>7. ASSUME NEW y \in Range(u)
      PROVE  y \in Range(s) /\ y # s[1]
  <2>1. PICK i \in 1..Len(u) : y = u[i]
    BY <1>2 DEF Range
  <2>2. y = s[i + 1] /\ i + 1 \in 1..Len(s) /\ i + 1 \in 2..Len(s) /\ s[i + 1] # s[1]
    BY <1>4, <1>5, <1>6, <2>1
  <2>3. QED
    BY <1>2, <2>2 DEF Range
<1>8. ASSUME NEW y \in Range(s), y # s[1]
      PROVE  y \in Range(u)
  <2>1. PICK i \in 1..Len(s) : y = s[i]
    BY <1>2 DEF Range
  <2>2. i - 1 \in 1..Len(u) /\ y = u[i - 1]
    BY <1>4, <1>6, <1>8, <2>1
  <2>3. QED
    BY <1>2, <2>2 DEF Range
<1>9. Range(u) = Range(s) \ {s[1]}
  BY <1>7, <1>8
<1>10. QED
  BY <1>1, <1>2, <1>3, <1>9 DEF u

\* Whoever stands at the head of a queue is in it.
LEMMA HolderIsInQueue ==
  ASSUME NEW S, NEW s \in Seq(S), s # <<>>
  PROVE  Head(s) \in Range(s)
  BY DEF Range

-----------------------------------------------------------------------------
(* The mutexes.                                                            *)

QueuesTyped == locks \in [Mutexes -> Seq(Tasks)]

\* What the calls in progress look like.
CallsTyped ==
  /\ phase \in [Tasks -> Phases]
  /\ asked \in [Tasks -> Questions \cup {NoQuestion}]
  /\ \A t \in Tasks : asked[t] = NoQuestion <=> phase[t] = "idle"

\* The invariant of the mutexes, named for its parts.
LockInv == QueuesTyped /\ CallsTyped /\ OneCallInsideEachCache

\* A call in progress has a question of one of the functions; a verification is
\* always made through its cache.
LEMMA BusyCall ==
  ASSUME CallsTyped, NEW t \in Tasks, Busy(t)
  PROVE  /\ asked[t] \in Questions
         /\ asked[t].function \in CachedFunctions
         /\ asked[t].function \in Mutexes
         /\ asked[t].function # "cosign"
         /\ asked[t].subject \in Subjects
         /\ KeyOf(asked[t]) \in Keys
         /\ asked[t].disable_cache \in BOOLEAN
         /\ Sigstore(asked[t]) => Cached(t)
<1>1. asked[t] \in Questions
  BY DEF CallsTyped, Busy
<1>2. QED
  BY <1>1, QuestionsAssumption
     DEF Mutexes, CachedFunctions, OciFunctions, KubernetesFunctions, SigstoreFunctions,
         Cached, Sigstore, Keys

\* A call that ends, having reached the head wherever it stands in a queue,
\* leaves every queue.
LEMMA EndLeavesQueues ==
  ASSUME LockInv, NEW t \in Tasks, Busy(t), End(t),
         Cached(t) => Holds(t, asked[t].function),
         phase[t] = "fetching" /\ Sigstore(asked[t]) => Holds(t, "cosign"),
         locks' = IF phase[t] = "fetching" /\ Sigstore(asked[t])
                  THEN [Release(t) EXCEPT !["cosign"] = Tail(@)]
                  ELSE Release(t)
  PROVE  LockInv'
<1> DEFINE f == asked[t].function
<1>1. f \in CachedFunctions /\ f \in Mutexes /\ f # "cosign" /\ "cosign" \in Mutexes
      /\ (Sigstore(asked[t]) => Cached(t)) /\ asked[t].disable_cache \in BOOLEAN
  BY BusyCall DEF LockInv, Mutexes
<1>2. \A l \in Mutexes : locks[l] \in Seq(Tasks) /\ Distinct(locks[l])
  BY DEF LockInv, QueuesTyped, OneCallInsideEachCache, Distinct
<1>3. \A l \in Mutexes : t \in Range(locks[l]) => Holds(t, l)
  BY <1>1 DEF LockInv, OneCallInsideEachCache, Mutexes
<1>4. t \in Range(locks[f]) <=> Cached(t)
  BY <1>1 DEF LockInv, OneCallInsideEachCache
<1>5. t \in Range(locks["cosign"]) <=> phase[t] = "fetching" /\ Sigstore(asked[t])
  BY DEF LockInv, OneCallInsideEachCache
<1>6. \A l \in CachedFunctions : t \in Range(locks[l]) => l = f
  BY DEF LockInv, OneCallInsideEachCache
<1>7. Release(t) = IF Cached(t) THEN [locks EXCEPT ![f] = Tail(@)] ELSE locks
  BY <1>1 DEF Release, MutexOf, Cached
<1>8. \A l \in Mutexes :
        locks'[l] = IF t \in Range(locks[l]) THEN Tail(locks[l]) ELSE locks[l]
  <2> SUFFICES ASSUME NEW l \in Mutexes
               PROVE  locks'[l] = IF t \in Range(locks[l]) THEN Tail(locks[l]) ELSE locks[l]
    OBVIOUS
  <2>1. Release(t)[l] = IF Cached(t) /\ l = f THEN Tail(locks[l]) ELSE locks[l]
    BY <1>1, <1>7 DEF LockInv, QueuesTyped
  <2>2. DOMAIN Release(t) = Mutexes
    BY <1>7 DEF LockInv, QueuesTyped
  <2>3. CASE l = "cosign"
    BY <1>1, <1>5, <2>1, <2>2, <2>3
  <2>4. CASE l # "cosign"
    BY <1>1, <1>4, <1>6, <2>1, <2>2, <2>4 DEF Mutexes
  <2>5. QED
    BY <2>3, <2>4
<1>9. \A l \in Mutexes :
        /\ locks'[l] \in Seq(Tasks)
        /\ Distinct(locks'[l])
        /\ Range(locks'[l]) = Range(locks[l]) \ {t}
        /\ t \notin Range(locks[l]) => locks'[l] = locks[l]
  <2> SUFFICES ASSUME NEW l \in Mutexes
               PROVE  /\ locks'[l] \in Seq(Tasks)
                      /\ Distinct(locks'[l])
                      /\ Range(locks'[l]) = Range(locks[l]) \ {t}
                      /\ t \notin Range(locks[l]) => locks'[l] = locks[l]
    OBVIOUS
  <2>1. CASE t \in Range(locks[l])
    <3>1. locks[l] # <<>> /\ Head(locks[l]) = t /\ locks'[l] = Tail(locks[l])
      BY <1>3, <1>8, <2>1 DEF Holds
    <3>2. QED
      BY <1>2, <2>1, <3>1, LeaveQueue
  <2>2. CASE t \notin Range(locks[l])
    BY <1>2, <1>8, <2>2
  <2>3. QED
    BY <2>1, <2>2
<1>10. QueuesTyped'
  <2>1. DOMAIN locks' = Mutexes /\ locks' = [l \in DOMAIN locks' |-> locks'[l]]
    BY <1>7 DEF LockInv, QueuesTyped
  <2>2. QED
    BY <1>9, <2>1 DEF QueuesTyped
<1>11. CallsTyped'
  BY SentinelsAssumption DEF LockInv, CallsTyped, End, Phases
<1>12. phase'[t] = "idle" /\ \A u \in Tasks \ {t} : phase'[u] = phase[u] /\ asked'[u] = asked[u]
  BY DEF LockInv, CallsTyped, End
<1>13. OneCallInsideEachCache'
  <2>1. \A l \in Mutexes : \A i, j \in 1..Len(locks'[l]) : locks'[l][i] = locks'[l][j] => i = j
    BY <1>9 DEF Distinct
  <2>2. \A l \in CachedFunctions, u \in Tasks :
          u \in Range(locks'[l]) <=> (Busy(u) /\ Cached(u) /\ asked[u].function = l)'
    <3> SUFFICES ASSUME NEW l \in CachedFunctions, NEW u \in Tasks
                 PROVE  u \in Range(locks'[l]) <=> (Busy(u) /\ Cached(u) /\ asked[u].function = l)'
      OBVIOUS
    <3>1. l \in Mutexes /\ Range(locks'[l]) = Range(locks[l]) \ {t}
      BY <1>9 DEF Mutexes
    <3>2. u \in Range(locks[l]) <=> Busy(u) /\ Cached(u) /\ asked[u].function = l
      BY DEF LockInv, OneCallInsideEachCache
    <3>3. CASE u = t
      BY <1>12, <3>1, <3>3 DEF Busy
    <3>4. CASE u # t
      BY <1>12, <3>1, <3>2, <3>4 DEF Busy, Cached
    <3>5. QED
      BY <3>3, <3>4
  <2>3. \A u \in Tasks : u \in Range(locks'["cosign"]) <=> (phase[u] = "fetching" /\ Sigstore(asked[u]))'
    <3> SUFFICES ASSUME NEW u \in Tasks
                 PROVE  u \in Range(locks'["cosign"]) <=> (phase[u] = "fetching" /\ Sigstore(asked[u]))'
      OBVIOUS
    <3>1. Range(locks'["cosign"]) = Range(locks["cosign"]) \ {t}
      BY <1>1, <1>9
    <3>2. u \in Range(locks["cosign"]) <=> phase[u] = "fetching" /\ Sigstore(asked[u])
      BY DEF LockInv, OneCallInsideEachCache
    <3>3. CASE u = t
      BY <1>12, <3>1, <3>3
    <3>4. CASE u # t
      BY <1>12, <3>1, <3>2, <3>4 DEF Sigstore
    <3>5. QED
      BY <3>3, <3>4
  <2>4. ASSUME NEW u \in Tasks, phase'[u] \in {"fetching", "read"}, Cached(u)'
        PROVE  Holds(u, asked[u].function)'
    <3>1. u # t /\ phase[u] = phase'[u] /\ asked'[u] = asked[u]
      BY <1>12, <2>4
    <3>2. Busy(u) /\ Cached(u) /\ Holds(u, asked[u].function)
      BY <2>4, <3>1 DEF LockInv, OneCallInsideEachCache, Busy, Cached
    <3>3. asked[u].function \in Mutexes
      BY <3>2, BusyCall DEF LockInv
    <3>4. t \notin Range(locks[asked[u].function])
      BY <1>3, <3>1, <3>2, <3>3 DEF Holds
    <3>5. locks'[asked[u].function] = locks[asked[u].function]
      BY <1>9, <3>3, <3>4
    <3>6. QED
      BY <3>1, <3>2, <3>5 DEF Holds
  <2>5. QED
    BY <2>1, <2>2, <2>3, <2>4 DEF OneCallInsideEachCache
<1>14. QED
  BY <1>10, <1>11, <1>13 DEF LockInv

\* Whoever joins a queue it is not in leaves the other queues and every head as
\* they are.
LEMMA JoinKeepsQueues ==
  ASSUME LockInv, NEW t \in Tasks, NEW l \in Mutexes, t \notin Range(locks[l]),
         locks' = [locks EXCEPT ![l] = Append(@, t)]
  PROVE  /\ QueuesTyped'
         /\ \A m \in Mutexes :
              /\ Distinct(locks'[m])
              /\ Range(locks'[m]) = IF m = l THEN Range(locks[m]) \cup {t} ELSE Range(locks[m])
              /\ \A u \in Tasks : Holds(u, m) => Holds(u, m)'
<1>1. \A m \in Mutexes : locks[m] \in Seq(Tasks) /\ Distinct(locks[m])
  BY DEF LockInv, QueuesTyped, OneCallInsideEachCache, Distinct
<1>2. \A m \in Mutexes : locks'[m] = IF m = l THEN Append(locks[m], t) ELSE locks[m]
  BY DEF LockInv, QueuesTyped
<1>3. QueuesTyped'
  BY <1>1 DEF LockInv, QueuesTyped
<1>4. ASSUME NEW m \in Mutexes
      PROVE  /\ Distinct(locks'[m])
             /\ Range(locks'[m]) = IF m = l THEN Range(locks[m]) \cup {t} ELSE Range(locks[m])
             /\ \A u \in Tasks : Holds(u, m) => Holds(u, m)'
  <2>1. CASE m = l
    <3>1. /\ Range(Append(locks[l], t)) = Range(locks[l]) \cup {t}
          /\ Distinct(Append(locks[l], t))
          /\ Append(locks[l], t) # <<>>
          /\ Head(Append(locks[l], t)) = IF locks[l] = <<>> THEN t ELSE Head(locks[l])
      BY <1>1, JoinQueue
    <3>2. QED
      BY <1>2, <2>1, <3>1 DEF Holds
  <2>2. CASE m # l
    BY <1>1, <1>2, <2>2 DEF Holds
  <2>3. QED
    BY <2>1, <2>2
<1>5. QED
  BY <1>3, <1>4

\* Every step keeps the mutexes in order.
LEMMA AskKeepsLocks ==
  ASSUME LockInv, NEW t \in Tasks, NEW q \in Questions, Ask(t, q)
  PROVE  LockInv'
<1>1. q.function \in CachedFunctions /\ q.function \in Mutexes /\ q.function # "cosign"
      /\ q.disable_cache = FALSE
  BY QuestionsAssumption
     DEF Ask, Mutexes, CachedFunctions, OciFunctions, KubernetesFunctions, SigstoreFunctions
<1>2. phase[t] = "idle" /\ t \notin Range(locks[q.function])
  BY <1>1 DEF Ask, LockInv, OneCallInsideEachCache, Busy
<1>3. locks' = [locks EXCEPT ![q.function] = Append(@, t)]
  BY DEF Ask, MutexOf
<1>4. phase'[t] = "queued" /\ asked'[t] = q
      /\ \A u \in Tasks \ {t} : phase'[u] = phase[u] /\ asked'[u] = asked[u]
  BY DEF Ask, LockInv, CallsTyped
<1>5. CallsTyped'
  BY SentinelsAssumption DEF Ask, LockInv, CallsTyped, Phases
<1>6. /\ QueuesTyped'
      /\ \A m \in Mutexes :
           /\ Distinct(locks'[m])
           /\ Range(locks'[m]) = IF m = q.function THEN Range(locks[m]) \cup {t} ELSE Range(locks[m])
           /\ \A u \in Tasks : Holds(u, m) => Holds(u, m)'
  BY <1>1, <1>2, <1>3, JoinKeepsQueues
<1>7. \A l \in CachedFunctions, u \in Tasks :
        u \in Range(locks'[l]) <=> (Busy(u) /\ Cached(u) /\ asked[u].function = l)'
  <2> SUFFICES ASSUME NEW l \in CachedFunctions, NEW u \in Tasks
               PROVE  u \in Range(locks'[l]) <=> (Busy(u) /\ Cached(u) /\ asked[u].function = l)'
    OBVIOUS
  <2>1. l \in Mutexes
    BY DEF Mutexes
  <2>2. u \in Range(locks[l]) <=> Busy(u) /\ Cached(u) /\ asked[u].function = l
    BY DEF LockInv, OneCallInsideEachCache
  <2>3. CASE u = t
    <3>1. t \notin Range(locks[l])
      BY <1>2, <2>2, <2>3 DEF Busy
    <3>2. QED
      BY <1>1, <1>4, <1>6, <2>1, <2>3, <3>1 DEF Busy, Cached
  <2>4. CASE u # t
    BY <1>4, <1>6, <2>1, <2>2, <2>4 DEF Busy, Cached
  <2>5. QED
    BY <2>3, <2>4
<1>8. \A u \in Tasks : u \in Range(locks'["cosign"]) <=> (phase[u] = "fetching" /\ Sigstore(asked[u]))'
  BY <1>1, <1>2, <1>4, <1>6 DEF LockInv, OneCallInsideEachCache, Mutexes, Sigstore
<1>9. ASSUME NEW u \in Tasks, phase'[u] \in {"fetching", "read"}, Cached(u)'
      PROVE  Holds(u, asked[u].function)'
  <2>1. u # t
    BY <1>4, <1>9
  <2>2. Busy(u) /\ Cached(u) /\ Holds(u, asked[u].function) /\ asked'[u] = asked[u]
    BY <1>4, <1>9, <2>1 DEF LockInv, OneCallInsideEachCache, Busy, Cached
  <2>3. QED
    BY <1>6, <2>2, BusyCall DEF LockInv, Holds
<1>10. QED
  BY <1>5, <1>6, <1>7, <1>8, <1>9 DEF LockInv, OneCallInsideEachCache, Distinct

\* A call without a cache stands in no queue.
LEMMA AskDirectlyKeepsLocks ==
  ASSUME LockInv, NEW t \in Tasks, NEW q \in Questions, AskDirectly(t, q)
  PROVE  LockInv'
<1>1. q.disable_cache = TRUE /\ ~ Sigstore(q)
  BY QuestionsAssumption DEF AskDirectly, Sigstore, KubernetesFunctions, SigstoreFunctions
<1>2. phase[t] = "idle" /\ locks' = locks
  BY DEF AskDirectly
<1>3. phase'[t] = "fetching" /\ asked'[t] = q
      /\ \A u \in Tasks \ {t} : phase'[u] = phase[u] /\ asked'[u] = asked[u]
  BY DEF AskDirectly, LockInv, CallsTyped
<1>4. QueuesTyped' /\ CallsTyped'
  BY SentinelsAssumption DEF AskDirectly, LockInv, QueuesTyped, CallsTyped, Phases
<1>5. ASSUME NEW l \in CachedFunctions, NEW u \in Tasks
      PROVE  u \in Range(locks'[l]) <=> (Busy(u) /\ Cached(u) /\ asked[u].function = l)'
  <2>1. u \in Range(locks[l]) <=> Busy(u) /\ Cached(u) /\ asked[u].function = l
    BY DEF LockInv, OneCallInsideEachCache
  <2>2. CASE u = t
    BY <1>1, <1>2, <1>3, <2>1, <2>2 DEF Busy, Cached
  <2>3. CASE u # t
    BY <1>2, <1>3, <2>1, <2>3 DEF Busy, Cached
  <2>4. QED
    BY <2>2, <2>3
<1>6. ASSUME NEW u \in Tasks
      PROVE  u \in Range(locks'["cosign"]) <=> (phase[u] = "fetching" /\ Sigstore(asked[u]))'
  BY <1>1, <1>2, <1>3 DEF LockInv, OneCallInsideEachCache, Sigstore
<1>7. ASSUME NEW u \in Tasks, phase'[u] \in {"fetching", "read"}, Cached(u)'
      PROVE  Holds(u, asked[u].function)'
  BY <1>1, <1>2, <1>3, <1>7 DEF LockInv, OneCallInsideEachCache, Cached, Holds
<1>8. QED
  BY <1>2, <1>4, <1>5, <1>6, <1>7 DEF LockInv, OneCallInsideEachCache

\* A call goes on, joins or leaves the queue of the sigstore client if it is a
\* verification, and keeps its place everywhere else.
LEMMA MissKeepsLocks ==
  ASSUME LockInv, NEW t \in Tasks, Miss(t)
  PROVE  LockInv'
<1>1. phase[t] = "queued" /\ Busy(t) /\ Cached(t) /\ Holds(t, asked[t].function)
  <2>1. phase[t] = "queued" /\ Holds(t, asked[t].function)
    BY DEF Miss, MutexOf
  <2>2. asked[t].function \in CachedFunctions /\ locks[asked[t].function] \in Seq(Tasks)
        /\ locks[asked[t].function] # <<>> /\ Head(locks[asked[t].function]) = t
    BY <2>1, BusyCall DEF LockInv, QueuesTyped, Busy, Holds, Mutexes
  <2>3. t \in Range(locks[asked[t].function])
    BY <2>2, HolderIsInQueue
  <2>4. QED
    BY <2>1, <2>2, <2>3 DEF LockInv, OneCallInsideEachCache
<1>2. asked[t].function \in Mutexes /\ asked[t].function # "cosign" /\ "cosign" \in Mutexes
  BY <1>1, BusyCall DEF LockInv, Mutexes
<1>3. t \notin Range(locks["cosign"])
  BY <1>1 DEF LockInv, OneCallInsideEachCache
<1>4. phase'[t] = "fetching" /\ asked' = asked
      /\ \A u \in Tasks \ {t} : phase'[u] = phase[u]
  BY DEF Miss, LockInv, CallsTyped
<1>5. CallsTyped'
  BY <1>1 DEF Miss, LockInv, CallsTyped, Phases
<1>6. /\ QueuesTyped'
      /\ \A m \in Mutexes :
           /\ Distinct(locks'[m])
           /\ Range(locks'[m]) = IF m = "cosign" /\ Sigstore(asked[t])
                                 THEN Range(locks[m]) \cup {t} ELSE Range(locks[m])
           /\ \A u \in Tasks : Holds(u, m) => Holds(u, m)'
  <2>1. CASE Sigstore(asked[t])
    <3>1. locks' = [locks EXCEPT !["cosign"] = Append(@, t)]
      BY <2>1 DEF Miss
    <3>2. "cosign" \in Mutexes
      BY <1>2
    <3>3. /\ QueuesTyped'
          /\ \A m \in Mutexes :
               /\ Distinct(locks'[m])
               /\ Range(locks'[m]) = IF m = "cosign" THEN Range(locks[m]) \cup {t} ELSE Range(locks[m])
               /\ \A u \in Tasks : Holds(u, m) => Holds(u, m)'
      BY <1>3, <3>1, <3>2, JoinKeepsQueues
    <3>4. \A m \in Mutexes :
            Range(locks'[m]) = IF m = "cosign" /\ Sigstore(asked[t])
                               THEN Range(locks[m]) \cup {t} ELSE Range(locks[m])
      BY <2>1, <3>3
    <3>5. QED
      BY <3>3, <3>4
  <2>2. CASE ~ Sigstore(asked[t])
    <3>1. locks' = locks
      BY <2>2 DEF Miss
    <3>2. QED
      BY <2>2, <3>1 DEF LockInv, QueuesTyped, OneCallInsideEachCache, Distinct, Holds
  <2>3. QED
    BY <2>1, <2>2
<1>7. ASSUME NEW l \in CachedFunctions, NEW u \in Tasks
      PROVE  u \in Range(locks'[l]) <=> (Busy(u) /\ Cached(u) /\ asked[u].function = l)'
  <2>1. u \in Range(locks[l]) <=> Busy(u) /\ Cached(u) /\ asked[u].function = l
    BY DEF LockInv, OneCallInsideEachCache
  <2>2. l \in Mutexes /\ l # "cosign"
    BY DEF Mutexes, CachedFunctions, OciFunctions, KubernetesFunctions, SigstoreFunctions
  <2>3. Busy(u)' <=> Busy(u)
    BY <1>1, <1>4 DEF Busy
  <2>4. QED
    BY <1>4, <1>6, <2>1, <2>2, <2>3 DEF Cached
<1>8. ASSUME NEW u \in Tasks
      PROVE  u \in Range(locks'["cosign"]) <=> (phase[u] = "fetching" /\ Sigstore(asked[u]))'
  <2>1. u \in Range(locks["cosign"]) <=> phase[u] = "fetching" /\ Sigstore(asked[u])
    BY DEF LockInv, OneCallInsideEachCache
  <2>2. CASE u = t
    BY <1>2, <1>3, <1>4, <1>6, <2>2 DEF Sigstore
  <2>3. CASE u # t
    BY <1>2, <1>4, <1>6, <2>1, <2>3 DEF Sigstore
  <2>4. QED
    BY <2>2, <2>3
<1>9. ASSUME NEW u \in Tasks, phase'[u] \in {"fetching", "read"}, Cached(u)'
      PROVE  Holds(u, asked[u].function)'
  <2>1. Busy(u) /\ Holds(u, asked[u].function)
    <3>1. CASE u = t
      BY <1>1, <3>1
    <3>2. CASE u # t
      BY <1>4, <1>9, <3>2 DEF LockInv, OneCallInsideEachCache, Busy, Cached
    <3>3. QED
      BY <3>1, <3>2
  <2>2. asked[u].function \in Mutexes
    BY <2>1, BusyCall DEF LockInv
  <2>3. QED
    BY <1>4, <1>6, <2>1, <2>2 DEF Holds
<1>10. QED
  BY <1>5, <1>6, <1>7, <1>8, <1>9 DEF LockInv, OneCallInsideEachCache, Distinct

LEMMA ReadKeepsLocks ==
  ASSUME LockInv, NEW t \in Tasks, ReadDirectly(t) \/ ReadSignatures(t)
  PROVE  LockInv'
<1>1. phase[t] = "fetching" /\ Busy(t) /\ (Cached(t) => Holds(t, asked[t].function))
  BY DEF ReadDirectly, ReadSignatures, LockInv, OneCallInsideEachCache, Busy
<1>2. phase'[t] = "read" /\ asked' = asked
      /\ \A u \in Tasks \ {t} : phase'[u] = phase[u]
  BY DEF ReadDirectly, ReadSignatures, LockInv, CallsTyped
<1>3. CallsTyped'
  BY <1>1 DEF ReadDirectly, ReadSignatures, LockInv, CallsTyped, Phases
<1>4. "cosign" \in Mutexes /\ \A l \in CachedFunctions : l \in Mutexes /\ l # "cosign"
  BY DEF Mutexes, CachedFunctions, OciFunctions, KubernetesFunctions, SigstoreFunctions
<1>5. /\ QueuesTyped'
      /\ Distinct(locks'["cosign"])
      /\ Range(locks'["cosign"]) = Range(locks["cosign"]) \ {t}
      /\ \A l \in CachedFunctions : locks'[l] = locks[l]
  <2>1. locks["cosign"] \in Seq(Tasks) /\ Distinct(locks["cosign"])
    BY <1>4 DEF LockInv, QueuesTyped, OneCallInsideEachCache, Distinct
  <2>2. CASE ReadSignatures(t)
    <3>1. locks' = [locks EXCEPT !["cosign"] = Tail(@)] /\ locks["cosign"] # <<>>
          /\ Head(locks["cosign"]) = t
      BY <2>2 DEF ReadSignatures, Holds
    <3>2. /\ Tail(locks["cosign"]) \in Seq(Tasks)
          /\ Distinct(Tail(locks["cosign"]))
          /\ Range(Tail(locks["cosign"])) = Range(locks["cosign"]) \ {t}
      BY <2>1, <3>1, LeaveQueue
    <3>3. QED
      BY <1>4, <3>1, <3>2 DEF LockInv, QueuesTyped
  <2>3. CASE ReadDirectly(t)
    <3>1. locks' = locks /\ t \notin Range(locks["cosign"])
      BY <2>3 DEF ReadDirectly, LockInv, OneCallInsideEachCache
    <3>2. QED
      BY <2>1, <3>1 DEF LockInv, QueuesTyped
  <2>4. QED
    BY <2>2, <2>3
<1>6. ASSUME NEW l \in CachedFunctions, NEW u \in Tasks
      PROVE  u \in Range(locks'[l]) <=> (Busy(u) /\ Cached(u) /\ asked[u].function = l)'
  <2>1. u \in Range(locks[l]) <=> Busy(u) /\ Cached(u) /\ asked[u].function = l
    BY DEF LockInv, OneCallInsideEachCache
  <2>2. Busy(u)' <=> Busy(u)
    BY <1>1, <1>2 DEF Busy
  <2>3. QED
    BY <1>2, <1>5, <2>1, <2>2 DEF Cached
<1>7. ASSUME NEW u \in Tasks
      PROVE  u \in Range(locks'["cosign"]) <=> (phase[u] = "fetching" /\ Sigstore(asked[u]))'
  BY <1>2, <1>5 DEF LockInv, OneCallInsideEachCache, Sigstore
<1>8. ASSUME NEW u \in Tasks, phase'[u] \in {"fetching", "read"}, Cached(u)'
      PROVE  Holds(u, asked[u].function)'
  <2>1. Busy(u) /\ Holds(u, asked[u].function)
    <3>1. CASE u = t
      BY <1>1, <1>2, <1>8, <3>1 DEF Cached
    <3>2. CASE u # t
      BY <1>2, <1>8, <3>2 DEF LockInv, OneCallInsideEachCache, Busy, Cached
    <3>3. QED
      BY <3>1, <3>2
  <2>2. asked[u].function \in CachedFunctions
    BY <2>1, BusyCall DEF LockInv
  <2>3. QED
    BY <1>2, <1>5, <2>1, <2>2 DEF Holds
<1>9. ASSUME NEW l \in Mutexes
      PROVE  Distinct(locks'[l])
  BY <1>5 DEF LockInv, OneCallInsideEachCache, Distinct, Mutexes
<1>10. QED
  BY <1>3, <1>5, <1>6, <1>7, <1>8, <1>9 DEF LockInv, OneCallInsideEachCache, Distinct

LEMMA LocksInitially == Init => LockInv
<1> SUFFICES ASSUME Init PROVE LockInv
  OBVIOUS
<1>1. \A l \in Mutexes : locks[l] = <<>>
  BY DEF Init
<1>2. Range(<<>>) = {}
  BY DEF Range
<1>3. \A t \in Tasks : phase[t] = "idle" /\ asked[t] = NoQuestion
  BY DEF Init
<1>4. QueuesTyped /\ CallsTyped
  BY <1>3 DEF Init, QueuesTyped, CallsTyped, Phases
<1>5. \A l \in CachedFunctions : l \in Mutexes
  BY DEF Mutexes
<1>6. "cosign" \in Mutexes
  BY DEF Mutexes
<1>7. OneCallInsideEachCache
  BY <1>1, <1>2, <1>3, <1>5, <1>6 DEF OneCallInsideEachCache, Busy
<1>8. QED
  BY <1>4, <1>7 DEF LockInv

LEMMA LocksPreserved == LockInv /\ [Next]_vars => LockInv'
<1> SUFFICES ASSUME LockInv, [Next]_vars PROVE LockInv'
  OBVIOUS
<1>1. CASE locks' = locks /\ phase' = phase /\ asked' = asked
  BY <1>1 DEF LockInv, QueuesTyped, CallsTyped, OneCallInsideEachCache, Busy, Cached, Holds, Sigstore
<1>2. ASSUME NEW t \in Tasks, TaskStep(t)
      PROVE  LockInv'
  <2>1. CASE \E q \in Questions : Ask(t, q)
    BY <2>1, AskKeepsLocks
  <2>2. CASE \E q \in Questions : AskDirectly(t, q)
    BY <2>2, AskDirectlyKeepsLocks
  <2>3. CASE Miss(t)
    BY <2>3, MissKeepsLocks
  <2>4. CASE ReadDirectly(t) \/ ReadSignatures(t)
    BY <2>4, ReadKeepsLocks
  <2>5. CASE Serve(t) \/ Refuse(t)
    <3>1. phase[t] = "queued" /\ Busy(t) /\ Holds(t, asked[t].function) /\ End(t) /\ locks' = Release(t)
      BY <2>5 DEF Serve, Refuse, Busy, MutexOf
    <3>2. QED
      BY <3>1, EndLeavesQueues
  <2>6. CASE Accept(t) \/ Reject(t)
    <3>1. phase[t] = "read" /\ Busy(t) /\ End(t) /\ locks' = Release(t)
      BY <2>6 DEF Accept, Reject, Busy
    <3>2. Cached(t) => Holds(t, asked[t].function)
      BY <3>1 DEF LockInv, OneCallInsideEachCache
    <3>3. QED
      BY <3>1, <3>2, EndLeavesQueues
  <2>7. CASE FailToRead(t)
    <3>1. phase[t] = "fetching" /\ Busy(t) /\ End(t) /\ (Sigstore(asked[t]) => Holds(t, "cosign"))
          /\ locks' = IF Sigstore(asked[t]) THEN [Release(t) EXCEPT !["cosign"] = Tail(@)] ELSE Release(t)
      BY <2>7 DEF FailToRead, Busy
    <3>2. Cached(t) => Holds(t, asked[t].function)
      BY <3>1 DEF LockInv, OneCallInsideEachCache
    <3>3. QED
      BY <3>1, <3>2, EndLeavesQueues
  <2>8. QED
    BY <1>2, <2>1, <2>2, <2>3, <2>4, <2>5, <2>6, <2>7 DEF TaskStep, LookUp, Read
<1>3. QED
  BY <1>1, <1>2 DEF Next, Tick, Changes, vars, taskVars

\* The calls of a cached function go through it one at a time and leave its
\* mutex behind in every way a call can end.
THEOREM OneCallAtATime == Spec => []OneCallInsideEachCache
<1>1. Spec => []LockInv
  BY LocksInitially, LocksPreserved, PTL DEF Spec
<1>2. LockInv => OneCallInsideEachCache
  BY DEF LockInv
<1>3. QED
  BY <1>1, <1>2, PTL

\* Whoever waits for a mutex is a call that goes through its cache.
QueuesFilled == \A t \in Tasks : phase[t] = "queued" => Cached(t)

LEMMA QueuesStayFilled ==
  ASSUME LockInv, QueuesFilled, [Next]_vars
  PROVE  QueuesFilled'
<1>1. ASSUME NEW t \in Tasks, NEW q \in Questions, Ask(t, q) \/ AskDirectly(t, q)
      PROVE  QueuesFilled'
  <2>1. /\ asked'[t] = q /\ (phase'[t] = "queued" => ~ q.disable_cache)
        /\ \A u \in Tasks \ {t} : phase'[u] = phase[u] /\ asked'[u] = asked[u]
    BY <1>1 DEF Ask, AskDirectly, LockInv, CallsTyped
  <2>2. QED
    BY <2>1 DEF QueuesFilled, Cached
<1>2. ASSUME NEW t \in Tasks, LookUp(t) \/ Read(t) \/ Accept(t) \/ Reject(t)
      PROVE  QueuesFilled'
  <2>1. /\ phase'[t] # "queued"
        /\ \A u \in Tasks \ {t} : phase'[u] = phase[u] /\ asked'[u] = asked[u]
    BY <1>2 DEF LookUp, Serve, Refuse, Miss, Read, ReadDirectly, ReadSignatures, FailToRead,
               Accept, Reject, End, LockInv, CallsTyped
  <2>2. QED
    BY <2>1 DEF QueuesFilled, Cached
<1>3. ASSUME Tick \/ (\E s \in Subjects : Changes(s)) \/ UNCHANGED vars
      PROVE  QueuesFilled'
  BY <1>3 DEF Tick, Changes, vars, taskVars, QueuesFilled, Cached
<1>4. QED
  BY <1>1, <1>2, <1>3 DEF Next, TaskStep

\* The head of a queue that somebody stands in.
LEMMA HeadOfQueue ==
  ASSUME QueuesTyped, NEW l \in Mutexes, NEW t \in Range(locks[l])
  PROVE  \E u \in Tasks : u \in Range(locks[l]) /\ Holds(u, l)
<1>1. locks[l] \in Seq(Tasks)
  BY DEF QueuesTyped
<1>2. locks[l] # <<>>
  BY DEF Range
<1>3. Head(locks[l]) \in Tasks /\ Head(locks[l]) \in Range(locks[l])
  BY <1>1, <1>2, HolderIsInQueue
<1>4. QED
  BY <1>2, <1>3 DEF Holds

\* A verification past its look-up goes on, or the holder of the client does.
LEMMA SomeVerificationGoesOn ==
  ASSUME LockInv, NEW t \in Tasks, phase[t] = "fetching", Sigstore(asked[t])
  PROVE  \E u \in Tasks : Busy(u) /\ Sigstore(asked[u]) /\ CanGoOn(u)
<1>1. "cosign" \in Mutexes /\ t \in Range(locks["cosign"])
  BY DEF LockInv, OneCallInsideEachCache, Mutexes
<1>2. PICK u \in Tasks : u \in Range(locks["cosign"]) /\ Holds(u, "cosign")
  BY <1>1, HeadOfQueue DEF LockInv
<1>3. phase[u] = "fetching" /\ Sigstore(asked[u])
  BY <1>2 DEF LockInv, OneCallInsideEachCache
<1>4. QED
  BY <1>2, <1>3 DEF Busy, CanGoOn

\* The call at the head of its function's queue, or one that stands in no queue,
\* can go on or waits for the sigstore client.
LEMMA SomeCallGoesOn ==
  ASSUME LockInv, NEW u \in Tasks, Busy(u),
         Cached(u) => Holds(u, asked[u].function), phase[u] = "queued" => Cached(u)
  PROVE  \E w \in Tasks : Busy(w) /\ Meet(asked[w], asked[u]) /\ CanGoOn(w)
<1>1. Meet(asked[u], asked[u])
  BY DEF Meet
<1>2. phase[u] \in {"queued", "fetching", "read"}
  BY DEF LockInv, CallsTyped, Busy, Phases
<1>3. CASE phase[u] = "queued"
  BY <1>1, <1>3 DEF CanGoOn, MutexOf
<1>4. CASE phase[u] = "fetching" /\ Sigstore(asked[u])
  BY <1>4, SomeVerificationGoesOn DEF Meet
<1>5. CASE phase[u] = "fetching" /\ ~ Sigstore(asked[u])
  BY <1>1, <1>5 DEF CanGoOn
<1>6. CASE phase[u] = "read"
  BY <1>1, <1>6 DEF CanGoOn
<1>7. QED
  BY <1>2, <1>3, <1>4, <1>5, <1>6

\* The two kinds of mutexes are taken in one order and let go in every way a
\* call can end, so before each call that waits stands one that can go on.
THEOREM NoCircle == Spec => []NobodyWaitsInACircle
<1>1. LockInv /\ QueuesFilled => NobodyWaitsInACircle
  <2> SUFFICES ASSUME LockInv, QueuesFilled, NEW t \in Tasks, Busy(t)
               PROVE  \E u \in Tasks : Busy(u) /\ Meet(asked[u], asked[t]) /\ CanGoOn(u)
    BY DEF NobodyWaitsInACircle
  <2>1. asked[t].function \in CachedFunctions /\ asked[t].function \in Mutexes
    BY BusyCall DEF LockInv
  <2>2. CASE ~ Cached(t)
    BY <2>2, SomeCallGoesOn DEF QueuesFilled
  <2>3. CASE Cached(t)
    <3>1. t \in Range(locks[asked[t].function])
      BY <2>1, <2>3 DEF LockInv, OneCallInsideEachCache
    <3>2. PICK u \in Tasks : u \in Range(locks[asked[t].function]) /\ Holds(u, asked[t].function)
      BY <2>1, <3>1, HeadOfQueue DEF LockInv
    <3>3. Busy(u) /\ Cached(u) /\ asked[u].function = asked[t].function
      BY <2>1, <3>2 DEF LockInv, OneCallInsideEachCache
    <3>4. PICK w \in Tasks : Busy(w) /\ Meet(asked[w], asked[u]) /\ CanGoOn(w)
      BY <3>2, <3>3, SomeCallGoesOn
    <3>5. Meet(asked[w], asked[t])
      BY <3>3, <3>4 DEF Meet, Sigstore
    <3>6. QED
      BY <3>4, <3>5
  <2>4. QED
    BY <2>2, <2>3
<1>2. Spec => []LockInv
  BY LocksInitially, LocksPreserved, PTL DEF Spec
<1>3. Init => QueuesFilled
  BY DEF Init, QueuesFilled
<1>4. LockInv /\ QueuesFilled /\ [Next]_vars => QueuesFilled'
  BY QueuesStayFilled
<1>5. QED
  BY <1>1, <1>2, <1>3, <1>4, PTL DEF Spec

-----------------------------------------------------------------------------
(* The types.                                                              *)

\* A step that tells an entry keeps the types of what is told.
LEMMA TellTyped ==
  ASSUME TypeOK, NEW t \in Tasks, Busy(t), NEW e \in Entries, Tell(t, e)
  PROVE  answer' \in Answers \cup {NoEntry} /\ told' \in [Keys -> Nat]
<1>1. asked[t] \in Questions /\ KeyOf(asked[t]) \in Keys
  BY BusyCall DEF TypeOK, CallsTyped
<1>2. e.version \in Nat /\ e.began \in Nat /\ e.stored \in Nat /\ now \in Nat
  BY DEF Entries, TypeOK
<1>3. answer' \in Answers
  BY <1>1, <1>2 DEF Tell, Answers
<1>4. told' \in [Keys -> Nat]
  BY <1>1, <1>2 DEF Tell, TypeOK
<1>5. QED
  BY <1>3, <1>4

\* So does the end of a call.
LEMMA EndTyped ==
  ASSUME TypeOK, NEW t \in Tasks, End(t)
  PROVE  began' \in [Tasks -> Nat] /\ seen' \in [Tasks -> Nat]
  BY DEF TypeOK, End

LEMMA StepTyped ==
  ASSUME TypeOK, LockInv', NEW t \in Tasks, TaskStep(t)
  PROVE  TypeOK'
<1>1. QueuesTyped' /\ CallsTyped'
  BY DEF LockInv
<1>2. ASSUME NEW q \in Questions, Ask(t, q) \/ AskDirectly(t, q)
      PROVE  TypeOK'
  <2>1. /\ now' = now /\ history' = history /\ store' = store /\ registry' = registry
        /\ seen' = seen /\ answer' = NoEntry /\ told' = told /\ calls' = calls + 1
        /\ (began' = began \/ began' = [began EXCEPT ![t] = now])
    BY <1>2 DEF Ask, AskDirectly, TellNothing
  <2>2. QED
    BY <1>1, <2>1 DEF TypeOK, QueuesTyped, CallsTyped
<1>3. ASSUME Serve(t)
      PROVE  TypeOK'
  <2> DEFINE e == store[KeyOf(asked[t])]
  <2>1. Busy(t) /\ e # NoEntry /\ Tell(t, e) /\ End(t)
        /\ UNCHANGED <<now, history, store, registry, calls>>
    BY <1>3 DEF Serve, FreshFor, Fresh, Busy
  <2>2. KeyOf(asked[t]) \in Keys
    BY <2>1, BusyCall DEF TypeOK, CallsTyped
  <2>3. e \in Entries
    BY <2>1, <2>2 DEF TypeOK
  <2>4. QED
    BY <1>1, <2>1, <2>3, TellTyped, EndTyped DEF TypeOK, QueuesTyped, CallsTyped
<1>4. ASSUME Refuse(t) \/ Reject(t) \/ FailToRead(t)
      PROVE  TypeOK'
  <2>1. End(t) /\ TellNothing /\ UNCHANGED <<now, history, registry, calls>>
        /\ (store' = store \/ store' = [store EXCEPT ![KeyOf(asked[t])] = NoEntry])
    BY <1>4 DEF Refuse, Reject, FailToRead
  <2>2. QED
    BY <1>1, <2>1, EndTyped DEF TypeOK, QueuesTyped, CallsTyped, TellNothing
<1>5. ASSUME Miss(t)
      PROVE  TypeOK'
  BY <1>1, <1>5 DEF Miss, TypeOK, QueuesTyped, CallsTyped, TellNothing
<1>6. ASSUME ReadDirectly(t)
      PROVE  TypeOK'
  <2>1. Busy(t)
    BY <1>6 DEF ReadDirectly, Busy
  <2>2. Version(asked[t].subject) \in Nat
    BY <2>1, BusyCall DEF TypeOK, CallsTyped, Version
  <2>3. QED
    BY <1>1, <1>6, <2>2 DEF ReadDirectly, TypeOK, QueuesTyped, CallsTyped, TellNothing
<1>7. ASSUME ReadSignatures(t)
      PROVE  TypeOK'
  <2> DEFINE s == asked[t].subject
  <2>1. s \in Subjects /\ Version(s) \in Nat
    BY <1>7, BusyCall DEF TypeOK, CallsTyped, Version, ReadSignatures, Busy
  <2>2. [version |-> Version(s), stored |-> now] \in RegistryEntries
    BY <2>1 DEF TypeOK, RegistryEntries
  <2>3. registry' \in [Subjects -> RegistryEntries \cup {NoEntry}] /\ registry'[s] \in RegistryEntries
    <3>1. CASE Fresh(registry[s], RegistryLifetime)
      BY <1>7, <2>1, <3>1 DEF TypeOK, ReadSignatures, Fresh
    <3>2. CASE ~ Fresh(registry[s], RegistryLifetime)
      BY <1>7, <2>1, <2>2, <3>2 DEF TypeOK, ReadSignatures
    <3>3. QED
      BY <3>1, <3>2
  <2>4. registry'[s].version \in Nat
    BY <2>3 DEF RegistryEntries
  <2>5. seen' \in [Tasks -> Nat]
    BY <1>7, <2>4 DEF TypeOK, ReadSignatures
  <2>6. QED
    BY <1>1, <1>7, <2>3, <2>5 DEF ReadSignatures, TypeOK, QueuesTyped, CallsTyped, TellNothing
<1>8. ASSUME Accept(t)
      PROVE  TypeOK'
  <2> DEFINE e == [version |-> seen[t], began |-> began[t], stored |-> now]
  <2>1. e \in Entries
    BY DEF TypeOK, Entries
  <2>2. Busy(t) /\ Tell(t, e) /\ End(t) /\ UNCHANGED <<now, history, registry, calls>>
        /\ (store' = store \/ store' = [store EXCEPT ![KeyOf(asked[t])] = e])
    BY <1>8 DEF Accept, Busy
  <2> HIDE DEF e
  <2>3. QED
    BY <1>1, <2>1, <2>2, TellTyped, EndTyped DEF TypeOK, QueuesTyped, CallsTyped
<1>9. QED
  BY <1>2, <1>3, <1>4, <1>5, <1>6, <1>7, <1>8 DEF TaskStep, LookUp, Read

LEMMA TypesInitially == Init => TypeOK
<1> SUFFICES ASSUME Init PROVE TypeOK
  OBVIOUS
<1>1. history \in [Subjects -> Seq(Nat)]
  BY DEF Init
<1>2. QED
  BY <1>1 DEF Init, TypeOK, Phases

LEMMA TypesPreserved == TypeOK /\ LockInv' /\ [Next]_vars => TypeOK'
<1> SUFFICES ASSUME TypeOK, LockInv', [Next]_vars PROVE TypeOK'
  OBVIOUS
<1>1. CASE Tick
  BY <1>1 DEF Tick, TellNothing, TypeOK, taskVars
<1>2. ASSUME NEW s \in Subjects, Changes(s)
      PROVE  TypeOK'
  <2>1. Append(history[s], now) \in Seq(Nat)
    BY DEF TypeOK
  <2>2. history' \in [Subjects -> Seq(Nat)]
    BY <1>2, <2>1 DEF Changes, TypeOK
  <2>3. QED
    BY <1>2, <2>2 DEF Changes, TellNothing, TypeOK, taskVars
<1>3. CASE UNCHANGED vars
  BY <1>3 DEF vars, taskVars, TypeOK
<1>4. QED
  BY <1>1, <1>2, <1>3, StepTyped DEF Next

\* The invariant that carries the types.
THEOREM TypeCorrect == Spec => []TypeOK
<1>1. Spec => []LockInv
  BY LocksInitially, LocksPreserved, PTL DEF Spec
<1>2. QED
  BY <1>1, TypesInitially, TypesPreserved, PTL DEF Spec

-----------------------------------------------------------------------------
(* How old an answer is and what it stands for.                            *)

\* Version v of s was still current at instant i, give or take the slack.
CurrentAt(s, v, i, slack) ==
  /\ v \in 1..Version(s)
  /\ v < Version(s) => i <= history[s][v + 1] + slack

\* What the registry cache beneath a verification may add to the age.
RegistrySlack(q) == IF Sigstore(q) THEN RegistryLifetime - 1 ELSE 0

\* A version that a fetch from b to e may have read for q.
ReadFor(q, v, b, e) ==
  b <= e /\ e <= now /\ CurrentAt(q.subject, v, b, RegistrySlack(q))

HistoryInv == \A s \in Subjects : Len(history[s]) >= 1

RegistryInv ==
  \A s \in Subjects :
    registry[s] # NoEntry =>
      registry[s].stored <= now /\ CurrentAt(s, registry[s].version, registry[s].stored, 0)

FetchInv ==
  \A t \in Tasks :
    /\ phase[t] \in {"fetching", "read"} => began[t] <= now /\ ~ Refused(asked[t])
    /\ phase[t] = "read" => ReadFor(asked[t], seen[t], began[t], now)

\* A question with the key of q has accepted version v.
Vouched(q, v) == \E p \in Questions : KeyOf(p) = KeyOf(q) /\ Accepts(p, v)

StoreInv ==
  \A q \in Questions :
    store[KeyOf(q)] # NoEntry =>
      LET e == store[KeyOf(q)] IN
      ReadFor(q, e.version, e.began, e.stored) /\ Vouched(q, e.version) /\ ~ Refused(q)

AnswerInv ==
  answer # NoEntry =>
    LET q == answer.question IN
    /\ ReadFor(q, answer.version, answer.began, answer.stored)
    /\ answer.at <= now
    /\ answer.at <= answer.stored + (IF q.disable_cache THEN 0 ELSE Lifetime(q) - 1)
    /\ Vouched(q, answer.version) /\ ~ Refused(q)

AgeInv == HistoryInv /\ RegistryInv /\ FetchInv /\ StoreInv /\ AnswerInv

\* Two questions with one key are of one function and about one subject, and what
\* vouches for the one vouches for the other.  They ask for the same, unless they
\* are certificates with one text.
LEMMA SameKeySameDemand ==
  ASSUME NEW p \in Questions, NEW q \in Questions, KeyOf(p) = KeyOf(q)
  PROVE  /\ p.function = q.function /\ p.subject = q.subject
         /\ p.function = "certificate" => SameText(p, q)
         /\ p.function # "certificate" => Demand(p) = Demand(q)
         /\ Sigstore(p) = Sigstore(q) /\ Lifetime(p) = Lifetime(q)
         /\ \A v : Vouched(p, v) = Vouched(q, v)
         /\ Refused(p) = Refused(q)
         /\ \A v, b, e : ReadFor(p, v, b, e) = ReadFor(q, v, b, e)
<1>1. p.function = q.function
  BY DEF KeyOf
<1>2. p.function = "certificate" => SameText(p, q) /\ p.subject = q.subject
  BY <1>1, TextAssumption DEF KeyOf, SameText
<1>3. p.function # "certificate" =>
        p.subject = q.subject /\ p.signers = q.signers /\ p.annotations = q.annotations
  BY <1>1 DEF KeyOf
<1>4. p.subject = q.subject
  BY <1>2, <1>3
<1>5. p.function # "certificate" => Demand(p) = Demand(q)
  BY <1>1, <1>3 DEF Demand
<1>6. Refused(p) = Refused(q)
  BY <1>1, <1>3 DEF Refused
<1>7. \A v : Vouched(p, v) = Vouched(q, v)
  BY DEF Vouched
<1>8. QED
  BY <1>1, <1>2, <1>4, <1>5, <1>6, <1>7 DEF Sigstore, Lifetime, ReadFor, RegistrySlack

\* What holds of an old version goes on to hold: the clock only advances, and a
\* version that is replaced now was current until now.
LEMMA WorldKeepsAges ==
  ASSUME TypeOK, Tick \/ (\E s \in Subjects : Changes(s)),
         NEW s \in Subjects, NEW v \in Nat, NEW i \in Nat, NEW slack \in Nat,
         i <= now, CurrentAt(s, v, i, slack)
  PROVE  CurrentAt(s, v, i, slack)'
<1>1. CASE history'[s] = history[s]
  BY <1>1 DEF CurrentAt, Version
<1>2. CASE history'[s] = Append(history[s], now)
  <2>1. history[s] \in Seq(Nat) /\ now \in Nat
    BY DEF TypeOK
  <2> DEFINE n == Len(history[s])
  <2>2. Len(history'[s]) = n + 1 /\ n \in Nat /\ history'[s][n + 1] = now
        /\ \A j \in 1..n : history'[s][j] = history[s][j]
    BY <1>2, <2>1
  <2>3. v \in 1..n /\ (v < n => i <= history[s][v + 1] + slack)
    BY DEF CurrentAt, Version
  <2> HIDE DEF n
  <2>4. v \in 1..(n + 1)
    BY <2>2, <2>3
  <2>5. CASE v < n
    <3>1. v + 1 \in 1..n
      BY <2>2, <2>3, <2>5
    <3>2. QED
      BY <2>2, <2>3, <2>4, <2>5, <3>1 DEF CurrentAt, Version
  <2>6. CASE v = n
    BY <2>1, <2>2, <2>4, <2>6 DEF CurrentAt, Version
  <2>7. QED
    BY <2>2, <2>3, <2>5, <2>6
<1>3. history'[s] = history[s] \/ history'[s] = Append(history[s], now)
  BY DEF Tick, Changes, TypeOK
<1>4. QED
  BY <1>1, <1>2, <1>3

LEMMA SlackIsNatural ==
  ASSUME NEW q
  PROVE  RegistrySlack(q) \in Nat /\ Lifetime(q) \in Nat \ {0}
  BY LifetimesAssumption DEF RegistrySlack, Lifetime

LEMMA WorldKeepsReads ==
  ASSUME TypeOK, Tick \/ (\E s \in Subjects : Changes(s)),
         NEW q \in Questions, NEW v \in Nat, NEW b \in Nat, NEW e \in Nat,
         ReadFor(q, v, b, e)
  PROVE  ReadFor(q, v, b, e)'
<1>1. q.subject \in Subjects /\ RegistrySlack(q) \in Nat
  BY QuestionsAssumption, SlackIsNatural
<1>2. b <= e /\ e <= now /\ now <= now' /\ b <= now /\ now' \in Nat /\ now \in Nat
  BY DEF ReadFor, Tick, Changes, TypeOK
<1>3. CurrentAt(q.subject, v, b, RegistrySlack(q))'
  BY <1>1, <1>2, WorldKeepsAges DEF ReadFor
<1>4. e <= now'
  BY <1>2
<1>5. RegistrySlack(q)' = RegistrySlack(q)
  BY DEF RegistrySlack, Sigstore
<1>6. QED
  BY <1>2, <1>3, <1>4 DEF ReadFor

LEMMA WorldKeepsAgeInv ==
  ASSUME TypeOK, AgeInv, Tick \/ (\E s \in Subjects : Changes(s))
  PROVE  AgeInv'
<1>1. /\ now <= now' /\ now \in Nat /\ now' \in Nat
      /\ UNCHANGED <<taskVars, store, registry>> /\ answer' = NoEntry
  BY DEF Tick, Changes, TypeOK, TellNothing
<1>2. UNCHANGED <<phase, asked, began, seen>>
  BY <1>1 DEF taskVars
<1>3. HistoryInv'
  <2>1. ASSUME NEW s \in Subjects
        PROVE  Len(history'[s]) >= 1
    <3>1. history[s] \in Seq(Nat) /\ Len(history[s]) >= 1
      BY DEF TypeOK, AgeInv, HistoryInv
    <3>2. history'[s] = history[s] \/ history'[s] = Append(history[s], now)
      BY DEF Tick, Changes, TypeOK
    <3>3. QED
      BY <1>1, <3>1, <3>2
  <2>2. QED
    BY <2>1 DEF HistoryInv
<1>4. RegistryInv'
  <2>1. ASSUME NEW s \in Subjects, registry[s] # NoEntry
        PROVE  registry[s].stored <= now' /\ CurrentAt(s, registry[s].version, registry[s].stored, 0)'
    <3>1. registry[s].stored \in Nat /\ registry[s].version \in Nat
      BY <2>1 DEF TypeOK, RegistryEntries
    <3>2. registry[s].stored <= now /\ CurrentAt(s, registry[s].version, registry[s].stored, 0)
      BY <2>1 DEF AgeInv, RegistryInv
    <3>3. CurrentAt(s, registry[s].version, registry[s].stored, 0)'
      BY <1>1, <3>1, <3>2, WorldKeepsAges DEF CurrentAt, Version
    <3>4. QED
      BY <1>1, <3>1, <3>2, <3>3
  <2>2. QED
    BY <1>1, <2>1 DEF RegistryInv, CurrentAt, Version
<1>5. FetchInv'
  <2>1. ASSUME NEW t \in Tasks
        PROVE  /\ phase[t] \in {"fetching", "read"} => began[t] <= now' /\ ~ Refused(asked[t])
               /\ phase[t] = "read" => ReadFor(asked[t], seen[t], began[t], now)'
    <3>1. began[t] \in Nat /\ seen[t] \in Nat
      BY DEF TypeOK
    <3>2. phase[t] \in {"fetching", "read"} => began[t] <= now' /\ ~ Refused(asked[t])
      BY <1>1, <3>1 DEF AgeInv, FetchInv
    <3>3. ASSUME phase[t] = "read"
          PROVE  ReadFor(asked[t], seen[t], began[t], now)'
      <4>1. asked[t] \in Questions
        BY <3>3, BusyCall DEF TypeOK, CallsTyped, Busy
      <4>2. ReadFor(asked[t], seen[t], began[t], now)
        BY <3>3 DEF AgeInv, FetchInv
      <4>3. PICK q \in Questions, v \in Nat, b \in Nat : q = asked[t] /\ v = seen[t] /\ b = began[t]
        BY <3>1, <4>1
      <4>4. ReadFor(q, v, b, now) /\ b <= now
        BY <4>2, <4>3 DEF ReadFor
      <4>5. CurrentAt(q.subject, v, b, RegistrySlack(q))'
        <5>1. q.subject \in Subjects /\ RegistrySlack(q) \in Nat
          BY QuestionsAssumption, SlackIsNatural
        <5>2. QED
          BY <4>4, <5>1, WorldKeepsAges DEF ReadFor
      <4>6. asked'[t] = q /\ seen'[t] = v /\ began'[t] = b /\ b <= now'
        BY <1>1, <1>2, <4>3, <4>4
      <4>7. QED
        BY <1>1, <4>5, <4>6 DEF ReadFor, CurrentAt, Version, RegistrySlack, Sigstore
    <3>4. QED
      BY <3>2, <3>3
  <2>2. QED
    BY <1>2, <2>1 DEF FetchInv, Refused
<1>6. StoreInv'
  <2>1. ASSUME NEW q \in Questions, store[KeyOf(q)] # NoEntry
        PROVE  LET e == store[KeyOf(q)] IN
               ReadFor(q, e.version, e.began, e.stored)' /\ Vouched(q, e.version) /\ ~ Refused(q)
    <3>1. store[KeyOf(q)] \in Entries
      BY <2>1 DEF TypeOK, Keys
    <3>2. PICK v \in Nat, b \in Nat, d \in Nat :
            v = store[KeyOf(q)].version /\ b = store[KeyOf(q)].began /\ d = store[KeyOf(q)].stored
      BY <3>1 DEF Entries
    <3>3. ReadFor(q, v, b, d) /\ Vouched(q, v) /\ ~ Refused(q)
      BY <2>1, <3>2 DEF AgeInv, StoreInv
    <3>4. ReadFor(q, v, b, d)'
      BY <3>3, WorldKeepsReads
    <3>5. store' = store
      BY <1>1
    <3>6. QED
      BY <3>2, <3>3, <3>4, <3>5 DEF ReadFor, CurrentAt, Version
  <2>2. store' = store
    BY <1>1
  <2>3. QED
    BY <2>1, <2>2 DEF StoreInv, Vouched, Accepts, Refused, ReadFor, CurrentAt, Version
<1>7. AnswerInv'
  BY <1>1 DEF AnswerInv
<1>8. QED
  BY <1>3, <1>4, <1>5, <1>6, <1>7 DEF AgeInv

\* A step of a task leaves the clock and the history as they are, and with them
\* what was read.
LEMMA StillRead ==
  ASSUME now' = now, history' = history,
         NEW q, NEW v, NEW b, NEW e
  PROVE  ReadFor(q, v, b, e) => ReadFor(q, v, b, e)'
  BY DEF ReadFor, CurrentAt, Version, RegistrySlack, Sigstore

LEMMA StillCurrent ==
  ASSUME now' = now, history' = history,
         NEW s, NEW v, NEW i, NEW slack
  PROVE  CurrentAt(s, v, i, slack) => CurrentAt(s, v, i, slack)'
  BY DEF CurrentAt, Version

LEMMA TaskKeepsTime ==
  ASSUME NEW t \in Tasks, TaskStep(t)
  PROVE  now' = now /\ history' = history
  BY DEF TaskStep, LookUp, Read, Ask, AskDirectly, Serve, Refuse, Miss, ReadDirectly,
         ReadSignatures, FailToRead, Accept, Reject

\* The entries stay as good as they were if one is left out.
LEMMA RemovingKeepsStore ==
  ASSUME TypeOK, StoreInv, now' = now, history' = history, NEW k,
         store' = store \/ store' = [store EXCEPT ![k] = NoEntry]
  PROVE  StoreInv'
<1>1. ASSUME NEW q \in Questions, store'[KeyOf(q)] # NoEntry
      PROVE  LET e == store[KeyOf(q)] IN
             (ReadFor(q, e.version, e.began, e.stored) /\ Vouched(q, e.version) /\ ~ Refused(q))'
  <2>1. KeyOf(q) \in Keys
    BY DEF Keys
  <2>2. store'[KeyOf(q)] = store[KeyOf(q)]
    BY <1>1, <2>1 DEF TypeOK
  <2>3. store[KeyOf(q)] \in Entries
    BY <1>1, <2>1, <2>2 DEF TypeOK
  <2>4. PICK v \in Nat, b \in Nat, d \in Nat :
          v = store[KeyOf(q)].version /\ b = store[KeyOf(q)].began /\ d = store[KeyOf(q)].stored
    BY <2>3 DEF Entries
  <2>5. ReadFor(q, v, b, d) /\ Vouched(q, v) /\ ~ Refused(q)
    BY <1>1, <2>2, <2>4 DEF StoreInv
  <2>6. ReadFor(q, v, b, d)'
    BY <2>5, StillRead
  <2>7. v = store'[KeyOf(q)].version /\ b = store'[KeyOf(q)].began /\ d = store'[KeyOf(q)].stored
    BY <2>2, <2>4
  <2>8. QED
    BY <2>5, <2>6, <2>7 DEF ReadFor, CurrentAt, Version, Vouched, Accepts, Refused
<1>2. QED
  BY <1>1 DEF StoreInv

\* What the other tasks have read is not touched.
LEMMA OthersKeepReads ==
  ASSUME TypeOK, FetchInv, NEW t \in Tasks, now' = now, history' = history,
         \A u \in Tasks \ {t} :
           phase'[u] = phase[u] /\ asked'[u] = asked[u] /\ began'[u] = began[u] /\ seen'[u] = seen[u],
         phase'[t] \in {"fetching", "read"} => began'[t] <= now /\ ~ Refused(asked'[t]),
         phase'[t] = "read" => ReadFor(asked'[t], seen'[t], began'[t], now)
  PROVE  FetchInv'
<1>1. ASSUME NEW u \in Tasks
      PROVE  /\ phase'[u] \in {"fetching", "read"} => began'[u] <= now' /\ ~ Refused(asked'[u])
             /\ phase'[u] = "read" => ReadFor(asked'[u], seen'[u], began'[u], now)
  <2>1. CASE u = t
    BY <2>1
  <2>2. CASE u # t
    BY <2>2 DEF FetchInv
  <2>3. QED
    BY <2>1, <2>2
<1>2. QED
  BY <1>1 DEF FetchInv, Refused, ReadFor, CurrentAt, Version, RegistrySlack, Sigstore

\* An entry may be stored for a call that has read it and accepted it: it is
\* vouched for to every question with the same key.
LEMMA StoringKeepsStore ==
  ASSUME TypeOK, StoreInv, now' = now, history' = history,
         NEW p \in Questions, NEW v \in Nat, NEW b \in Nat, NEW d \in Nat,
         ReadFor(p, v, b, d), Vouched(p, v), ~ Refused(p),
         store' = [store EXCEPT ![KeyOf(p)] = [version |-> v, began |-> b, stored |-> d]]
  PROVE  StoreInv'
<1>1. ASSUME NEW q \in Questions, store'[KeyOf(q)] # NoEntry
      PROVE  LET e == store[KeyOf(q)] IN
             (ReadFor(q, e.version, e.began, e.stored) /\ Vouched(q, e.version) /\ ~ Refused(q))'
  <2>1. KeyOf(q) \in Keys
    BY DEF Keys
  <2>2. CASE KeyOf(q) = KeyOf(p)
    <3>1. store'[KeyOf(q)] = [version |-> v, began |-> b, stored |-> d]
      BY <2>1, <2>2 DEF TypeOK
    <3>2. ReadFor(q, v, b, d) /\ Vouched(q, v) /\ ~ Refused(q)
      BY <2>2, SameKeySameDemand
    <3>3. ReadFor(q, v, b, d)'
      BY <3>2, StillRead
    <3>4. v = store'[KeyOf(q)].version /\ b = store'[KeyOf(q)].began /\ d = store'[KeyOf(q)].stored
      BY <3>1
    <3>5. QED
      BY <3>2, <3>3, <3>4 DEF ReadFor, CurrentAt, Version, Vouched, Accepts, Refused
  <2>3. CASE KeyOf(q) # KeyOf(p)
    <3>1. store'[KeyOf(q)] = store[KeyOf(q)]
      BY <2>1, <2>3 DEF TypeOK
    <3>2. store[KeyOf(q)] \in Entries
      BY <1>1, <2>1, <3>1 DEF TypeOK
    <3>3. PICK w \in Nat, c \in Nat, f \in Nat :
            w = store[KeyOf(q)].version /\ c = store[KeyOf(q)].began /\ f = store[KeyOf(q)].stored
      BY <3>2 DEF Entries
    <3>4. ReadFor(q, w, c, f) /\ Vouched(q, w) /\ ~ Refused(q)
      BY <1>1, <3>1, <3>3 DEF StoreInv
    <3>5. ReadFor(q, w, c, f)'
      BY <3>4, StillRead
    <3>6. w = store'[KeyOf(q)].version /\ c = store'[KeyOf(q)].began /\ f = store'[KeyOf(q)].stored
      BY <3>1, <3>3
    <3>7. QED
      BY <3>4, <3>5, <3>6 DEF ReadFor, CurrentAt, Version, Vouched, Accepts, Refused
  <2>4. QED
    BY <2>2, <2>3
<1>2. QED
  BY <1>1 DEF StoreInv

\* What is told of an entry.
LEMMA TellingIsRight ==
  ASSUME TypeOK, now' = now, history' = history, NEW t \in Tasks,
         NEW q \in Questions, NEW v \in Nat, NEW b \in Nat, NEW d \in Nat,
         q = asked[t],
         ReadFor(q, v, b, d), Vouched(q, v), ~ Refused(q),
         now <= d + (IF q.disable_cache THEN 0 ELSE Lifetime(q) - 1),
         Tell(t, [version |-> v, began |-> b, stored |-> d])
  PROVE  AnswerInv'
<1>1. answer' = [question |-> q, version |-> v, began |-> b, stored |-> d, at |-> now]
  BY DEF Tell
<1>2. ReadFor(q, v, b, d)'
  BY StillRead
<1>3. /\ q = answer'.question /\ v = answer'.version /\ b = answer'.began
      /\ d = answer'.stored /\ now = answer'.at
  BY <1>1
<1>4. now <= now' /\ now' = now
  BY DEF TypeOK
<1>5. QED
  BY <1>2, <1>3, <1>4
     DEF AnswerInv, ReadFor, CurrentAt, Version, Vouched, Accepts, Refused, Lifetime, RegistrySlack, Sigstore

\* The registry data beneath the verifications.
LEMMA ReadingSignatures ==
  ASSUME TypeOK, HistoryInv, RegistryInv, FetchInv, NEW t \in Tasks, ReadSignatures(t)
  PROVE  RegistryInv' /\ ReadFor(asked[t], seen'[t], began[t], now)
<1> DEFINE s == asked[t].subject
<1>1. /\ phase[t] = "fetching" /\ Sigstore(asked[t]) /\ s \in Subjects
      /\ asked[t] \in Questions
      /\ now' = now /\ history' = history
  BY BusyCall DEF ReadSignatures, Busy, TypeOK, CallsTyped
<1>2. now \in Nat /\ began[t] \in Nat /\ began[t] <= now /\ Version(s) \in Nat /\ Version(s) >= 1
  BY <1>1 DEF FetchInv, TypeOK, HistoryInv, Version
<1>3. RegistryLifetime \in Nat \ {0} /\ RegistrySlack(asked[t]) = RegistryLifetime - 1
  BY <1>1, LifetimesAssumption DEF RegistrySlack
<1>4. seen'[t] = registry'[s].version
  BY DEF ReadSignatures, TypeOK
<1>5. CASE Fresh(registry[s], RegistryLifetime)
  <2>1. registry' = registry /\ registry[s] \in RegistryEntries /\ now - registry[s].stored < RegistryLifetime
    BY <1>1, <1>5 DEF ReadSignatures, Fresh, TypeOK
  <2>2. PICK v \in Nat, i \in Nat : v = registry[s].version /\ i = registry[s].stored
    BY <2>1 DEF RegistryEntries
  <2>3. i <= now /\ CurrentAt(s, v, i, 0) /\ now - i < RegistryLifetime
    BY <1>1, <1>5, <2>1, <2>2 DEF RegistryInv, Fresh
  <2>4. CurrentAt(s, v, began[t], RegistryLifetime - 1)
    <3>1. v < Version(s) => history[s][v + 1] \in Nat
      <4>1. PICK h \in Seq(Nat) : h = history[s]
        BY <1>1 DEF TypeOK
      <4>2. v < Len(h) => h[v + 1] \in Nat
        BY <2>2
      <4>3. QED
        BY <4>1, <4>2 DEF Version
    <3>2. QED
      BY <1>2, <1>3, <2>2, <2>3, <3>1 DEF CurrentAt
  <2>5. ReadFor(asked[t], seen'[t], began[t], now)
    BY <1>2, <1>3, <1>4, <2>1, <2>2, <2>4 DEF ReadFor
  <2>6. RegistryInv'
    BY <1>1, <2>1 DEF RegistryInv, CurrentAt, Version
  <2>7. QED
    BY <2>5, <2>6
<1>6. CASE ~ Fresh(registry[s], RegistryLifetime)
  <2>1. registry' = [registry EXCEPT ![s] = [version |-> Version(s), stored |-> now]]
    BY <1>6 DEF ReadSignatures
  <2>2. registry'[s] = [version |-> Version(s), stored |-> now]
    BY <1>1, <2>1 DEF TypeOK
  <2>3. CurrentAt(s, Version(s), began[t], RegistrySlack(asked[t])) /\ CurrentAt(s, Version(s), now, 0)
    BY <1>2 DEF CurrentAt
  <2>4. ReadFor(asked[t], seen'[t], began[t], now)
    BY <1>2, <1>4, <2>2, <2>3 DEF ReadFor
  <2>5. ASSUME NEW r \in Subjects, registry'[r] # NoEntry
        PROVE  registry'[r].stored <= now /\ CurrentAt(r, registry'[r].version, registry'[r].stored, 0)
    <3>1. CASE r = s
      BY <1>2, <2>2, <2>3, <3>1
    <3>2. CASE r # s
      <4>1. registry'[r] = registry[r]
        BY <2>1, <3>2 DEF TypeOK
      <4>2. QED
        BY <2>5, <4>1 DEF RegistryInv
    <3>3. QED
      BY <3>1, <3>2
  <2>6. RegistryInv'
    BY <1>1, <2>5 DEF RegistryInv, CurrentAt, Version
  <2>7. QED
    BY <2>4, <2>6
<1>7. QED
  BY <1>5, <1>6

\* A call that is over has read nothing.
LEMMA EndKeepsReads ==
  ASSUME TypeOK, FetchInv, NEW t \in Tasks, End(t), now' = now, history' = history
  PROVE  FetchInv'
<1>1. phase'[t] = "idle"
      /\ \A u \in Tasks \ {t} :
           phase'[u] = phase[u] /\ asked'[u] = asked[u] /\ began'[u] = began[u] /\ seen'[u] = seen[u]
  BY DEF End, TypeOK
<1>2. QED
  BY <1>1, OthersKeepReads

\* Where the registry cache and the history are left alone, so is what is known
\* of them.
LEMMA RegistryStays ==
  ASSUME HistoryInv, RegistryInv, now' = now, history' = history, registry' = registry
  PROVE  HistoryInv' /\ RegistryInv'
  BY DEF HistoryInv, RegistryInv, CurrentAt, Version

LEMMA AskKeepsAgeInv ==
  ASSUME TypeOK, AgeInv, NEW t \in Tasks, NEW q \in Questions, Ask(t, q) \/ AskDirectly(t, q)
  PROVE  AgeInv'
<1>1. /\ now' = now /\ history' = history /\ registry' = registry /\ store' = store
      /\ answer' = NoEntry
      /\ \A u \in Tasks \ {t} :
           phase'[u] = phase[u] /\ asked'[u] = asked[u] /\ began'[u] = began[u] /\ seen'[u] = seen[u]
  BY DEF Ask, AskDirectly, TellNothing, TypeOK
<1>2. phase'[t] # "read"
      /\ (phase'[t] = "fetching" => began'[t] <= now /\ ~ Refused(asked'[t]))
  <2>1. CASE Ask(t, q)
    BY <2>1 DEF Ask, TypeOK
  <2>2. CASE AskDirectly(t, q)
    <3>1. phase'[t] = "fetching" /\ began'[t] = now /\ asked'[t] = q /\ ~ Refused(q) /\ now \in Nat
      BY <2>2 DEF AskDirectly, TypeOK
    <3>2. QED
      BY <3>1
  <2>3. QED
    BY <2>1, <2>2
<1>3. FetchInv'
  BY <1>1, <1>2, OthersKeepReads DEF AgeInv
<1>4. HistoryInv' /\ RegistryInv' /\ StoreInv' /\ AnswerInv'
  BY <1>1, RegistryStays, RemovingKeepsStore DEF AgeInv, AnswerInv
<1>5. QED
  BY <1>3, <1>4 DEF AgeInv

LEMMA ServeKeepsAgeInv ==
  ASSUME TypeOK, LockInv, AgeInv, NEW t \in Tasks, Serve(t)
  PROVE  AgeInv'
<1> DEFINE k == KeyOf(asked[t])
<1>1. /\ phase[t] = "queued" /\ Holds(t, asked[t].function) /\ End(t)
      /\ now' = now /\ history' = history /\ registry' = registry /\ store' = store
      /\ store[k] # NoEntry /\ now - store[k].stored < Lifetime(asked[t])
      /\ Tell(t, store[k])
  BY DEF Serve, MutexOf, FreshFor, Fresh
<1>2. asked[t] \in Questions /\ asked[t].function \in CachedFunctions /\ k \in Keys
      /\ asked[t].function \in Mutexes
  BY <1>1, BusyCall DEF Busy, LockInv
<1>3. Cached(t)
  <2>1. locks[asked[t].function] \in Seq(Tasks)
    BY <1>2 DEF LockInv, QueuesTyped
  <2>2. t \in Range(locks[asked[t].function])
    BY <1>1, <2>1, HolderIsInQueue DEF Holds
  <2>3. QED
    BY <1>2, <2>2 DEF LockInv, OneCallInsideEachCache
<1>4. store[k] \in Entries
  BY <1>1, <1>2 DEF TypeOK
<1>5. PICK q \in Questions, v \in Nat, b \in Nat, d \in Nat :
        q = asked[t] /\ v = store[k].version /\ b = store[k].began /\ d = store[k].stored
        /\ store[k] = [version |-> v, began |-> b, stored |-> d]
  BY <1>2, <1>4 DEF Entries
<1>6. ReadFor(q, v, b, d) /\ Vouched(q, v) /\ ~ Refused(q)
  BY <1>1, <1>5 DEF AgeInv, StoreInv
<1>7. now <= d + (IF q.disable_cache THEN 0 ELSE Lifetime(q) - 1)
  <2>1. q.disable_cache = FALSE
    BY <1>3, <1>5, QuestionsAssumption DEF Cached
  <2>2. now - d < Lifetime(q) /\ now \in Nat /\ Lifetime(q) \in Nat
    BY <1>1, <1>5, SlackIsNatural DEF TypeOK
  <2>3. QED
    BY <2>1, <2>2
<1>8. Tell(t, [version |-> v, began |-> b, stored |-> d])
  BY <1>1, <1>5
<1>9. AnswerInv'
  BY <1>1, <1>5, <1>6, <1>7, <1>8, TellingIsRight
<1>10. FetchInv'
  BY <1>1, EndKeepsReads DEF AgeInv
<1>11. HistoryInv' /\ RegistryInv' /\ StoreInv'
  BY <1>1, RegistryStays, RemovingKeepsStore DEF AgeInv
<1>12. QED
  BY <1>9, <1>10, <1>11 DEF AgeInv

LEMMA AcceptKeepsAgeInv ==
  ASSUME TypeOK, AgeInv, NEW t \in Tasks, Accept(t)
  PROVE  AgeInv'
<1>1. /\ phase[t] = "read" /\ End(t) /\ Accepts(asked[t], seen[t])
      /\ now' = now /\ history' = history /\ registry' = registry
      /\ Tell(t, [version |-> seen[t], began |-> began[t], stored |-> now])
      /\ store' = IF asked[t].disable_cache THEN store
                  ELSE [store EXCEPT ![KeyOf(asked[t])] =
                          [version |-> seen[t], began |-> began[t], stored |-> now]]
  BY DEF Accept
<1>2. asked[t] \in Questions
  BY <1>1, BusyCall DEF Busy, TypeOK, CallsTyped
<1>3. PICK q \in Questions, v \in Nat, b \in Nat, d \in Nat :
        q = asked[t] /\ v = seen[t] /\ b = began[t] /\ d = now
  BY <1>2 DEF TypeOK
<1>4. ReadFor(q, v, b, d) /\ Vouched(q, v) /\ ~ Refused(q)
  BY <1>1, <1>3 DEF AgeInv, FetchInv, Vouched
<1>5. now <= d + (IF q.disable_cache THEN 0 ELSE Lifetime(q) - 1)
  BY <1>3, SlackIsNatural
<1>6. Tell(t, [version |-> v, began |-> b, stored |-> d])
  BY <1>1, <1>3
<1>7. AnswerInv'
  BY <1>1, <1>3, <1>4, <1>5, <1>6, TellingIsRight
<1>8. StoreInv'
  <2>1. CASE asked[t].disable_cache
    BY <1>1, <2>1, RemovingKeepsStore DEF AgeInv
  <2>2. CASE ~ asked[t].disable_cache
    <3>1. store' = [store EXCEPT ![KeyOf(q)] = [version |-> v, began |-> b, stored |-> d]]
      BY <1>1, <1>3, <2>2
    <3>2. QED
      BY <1>1, <1>4, <3>1, StoringKeepsStore DEF AgeInv
  <2>3. QED
    BY <2>1, <2>2
<1>9. FetchInv'
  BY <1>1, EndKeepsReads DEF AgeInv
<1>10. HistoryInv' /\ RegistryInv'
  BY <1>1, RegistryStays DEF AgeInv
<1>11. QED
  BY <1>7, <1>8, <1>9, <1>10 DEF AgeInv

LEMMA ReadKeepsAgeInv ==
  ASSUME TypeOK, AgeInv, NEW t \in Tasks, ReadDirectly(t) \/ ReadSignatures(t)
  PROVE  AgeInv'
<1>1. /\ now' = now /\ history' = history /\ store' = store /\ answer' = NoEntry
      /\ phase[t] = "fetching" /\ asked' = asked /\ began' = began
      /\ \A u \in Tasks \ {t} :
           phase'[u] = phase[u] /\ asked'[u] = asked[u] /\ began'[u] = began[u] /\ seen'[u] = seen[u]
  BY DEF ReadDirectly, ReadSignatures, TellNothing, TypeOK
<1>2. HistoryInv' /\ StoreInv' /\ AnswerInv'
  BY <1>1, RemovingKeepsStore DEF AgeInv, AnswerInv, HistoryInv
<1>3. began'[t] <= now /\ ~ Refused(asked'[t])
  BY <1>1 DEF AgeInv, FetchInv
<1>4. CASE ReadDirectly(t)
  <2>1. registry' = registry /\ seen'[t] = Version(asked[t].subject)
    BY <1>4 DEF ReadDirectly, TypeOK
  <2>2. asked[t].subject \in Subjects /\ began[t] <= now /\ now \in Nat
    BY <1>1, BusyCall DEF Busy, TypeOK, CallsTyped, AgeInv, FetchInv
  <2>3. ReadFor(asked[t], seen'[t], began[t], now)
    <3>1. Version(asked[t].subject) \in Nat /\ Version(asked[t].subject) >= 1
      BY <2>2 DEF AgeInv, HistoryInv, Version, TypeOK
    <3>2. QED
      BY <2>1, <2>2, <3>1 DEF ReadFor, CurrentAt
  <2>4. FetchInv'
    BY <1>1, <1>3, <2>3, OthersKeepReads DEF AgeInv
  <2>5. QED
    BY <1>1, <1>2, <2>1, <2>4, RegistryStays DEF AgeInv
<1>5. CASE ReadSignatures(t)
  <2>1. RegistryInv' /\ ReadFor(asked[t], seen'[t], began[t], now)
    BY <1>5, ReadingSignatures DEF AgeInv
  <2>2. FetchInv'
    BY <1>1, <1>3, <2>1, OthersKeepReads DEF AgeInv
  <2>3. QED
    BY <1>2, <2>1, <2>2 DEF AgeInv
<1>6. QED
  BY <1>4, <1>5

LEMMA TaskKeepsAgeInv ==
  ASSUME TypeOK, LockInv, AgeInv, NEW t \in Tasks, TaskStep(t)
  PROVE  AgeInv'
<1>1. ASSUME Refuse(t) \/ Reject(t) \/ FailToRead(t)
      PROVE  AgeInv'
  <2>1. /\ End(t) /\ now' = now /\ history' = history /\ registry' = registry /\ answer' = NoEntry
        /\ (store' = store \/ store' = [store EXCEPT ![KeyOf(asked[t])] = NoEntry])
    BY <1>1 DEF Refuse, Reject, FailToRead, TellNothing
  <2>2. HistoryInv' /\ RegistryInv' /\ FetchInv'
    BY <2>1, RegistryStays, EndKeepsReads DEF AgeInv
  <2>3. StoreInv' /\ AnswerInv'
    BY <2>1, RemovingKeepsStore DEF AgeInv, AnswerInv
  <2>4. QED
    BY <2>2, <2>3 DEF AgeInv
<1>2. ASSUME Miss(t)
      PROVE  AgeInv'
  <2>1. /\ now' = now /\ history' = history /\ registry' = registry /\ answer' = NoEntry
        /\ store' = [store EXCEPT ![KeyOf(asked[t])] = NoEntry]
        /\ ~ Refused(asked[t]) /\ asked' = asked
        /\ phase'[t] = "fetching" /\ began'[t] = now /\ now \in Nat
        /\ \A u \in Tasks \ {t} :
             phase'[u] = phase[u] /\ asked'[u] = asked[u] /\ began'[u] = began[u] /\ seen'[u] = seen[u]
    BY <1>2 DEF Miss, TellNothing, TypeOK
  <2>2. FetchInv'
    BY <2>1, OthersKeepReads DEF AgeInv
  <2>3. HistoryInv' /\ RegistryInv' /\ StoreInv' /\ AnswerInv'
    BY <2>1, RegistryStays, RemovingKeepsStore DEF AgeInv, AnswerInv
  <2>4. QED
    BY <2>2, <2>3 DEF AgeInv
<1>3. QED
  BY <1>1, <1>2, AskKeepsAgeInv, ServeKeepsAgeInv, ReadKeepsAgeInv, AcceptKeepsAgeInv
     DEF TaskStep, LookUp, Read

LEMMA AgeInitially == Init => AgeInv
  BY DEF Init, AgeInv, HistoryInv, RegistryInv, FetchInv, StoreInv, AnswerInv, Keys

LEMMA AgePreserved == TypeOK /\ LockInv /\ AgeInv /\ [Next]_vars => AgeInv'
<1> SUFFICES ASSUME TypeOK, LockInv, AgeInv, [Next]_vars PROVE AgeInv'
  OBVIOUS
<1>1. CASE UNCHANGED vars
  BY <1>1 DEF vars, taskVars, AgeInv, HistoryInv, RegistryInv, FetchInv, StoreInv, AnswerInv,
              ReadFor, CurrentAt, Version, Vouched, Accepts, Refused, RegistrySlack, Sigstore, Lifetime
<1>2. QED
  BY <1>1, WorldKeepsAgeInv, TaskKeepsAgeInv DEF Next

LEMMA AgeAlways == Spec => [](TypeOK /\ LockInv /\ AgeInv)
<1>1. Spec => []LockInv
  BY LocksInitially, LocksPreserved, PTL DEF Spec
<1>2. QED
  BY <1>1, TypeCorrect, AgeInitially, AgePreserved, PTL DEF Spec

\* An answer is out of date by no more than the time of its fetch and the life
\* times of the caches it came through.
THEOREM AnswersRecent == Spec => []AnswersAreRecent
<1>1. TypeOK /\ AgeInv => AnswersAreRecent
  <2> SUFFICES ASSUME TypeOK, AgeInv, answer # NoEntry,
                      answer.version < Version(answer.question.subject)
               PROVE  answer.at <= history[answer.question.subject][answer.version + 1]
                                     + (answer.stored - answer.began) + Allowance(answer.question)
    BY DEF AnswersAreRecent
  <2>1. answer \in Answers
    BY DEF TypeOK
  <2>2. PICK q \in Questions, v \in Nat, b \in Nat, d \in Nat, i \in Nat :
          /\ q = answer.question /\ v = answer.version /\ b = answer.began
          /\ d = answer.stored /\ i = answer.at
    BY <2>1 DEF Answers
  <2>3. ReadFor(q, v, b, d) /\ i <= d + (IF q.disable_cache THEN 0 ELSE Lifetime(q) - 1)
    BY <2>2 DEF AgeInv, AnswerInv
  <2>4. v \in 1..Version(q.subject) /\ b <= history[q.subject][v + 1] + RegistrySlack(q) /\ b <= d
    BY <2>2, <2>3 DEF ReadFor, CurrentAt
  <2>5. PICK h \in Seq(Nat) : h = history[q.subject]
    BY QuestionsAssumption DEF TypeOK
  <2>6. h[v + 1] \in Nat
    <3>1. v < Len(h)
      BY <2>2, <2>5 DEF Version
    <3>2. QED
      BY <3>1
  <2>7. PICK r \in Nat, l \in Nat, n \in Nat :
          /\ r = RegistrySlack(q) /\ l = (IF q.disable_cache THEN 0 ELSE Lifetime(q) - 1)
          /\ n = h[v + 1]
    BY <2>6, SlackIsNatural
  <2>8. Allowance(q) = l + r
    BY <2>7 DEF Allowance, RegistrySlack
  <2>9. i <= d + l /\ b <= n + r
    BY <2>3, <2>4, <2>5, <2>7
  <2>10. i <= n + (d - b) + (l + r)
    BY <2>9
  <2>11. QED
    BY <2>2, <2>5, <2>7, <2>8, <2>10
<1>2. QED
  BY <1>1, AgeAlways, PTL

\* Trust is told only of versions that met every constraint of the call or, for a
\* certificate, of a call whose arguments are hashed as the same text (the keys of
\* the five #[cached] verifications).
THEOREM TrustAsDemanded == Spec => []TrustedAsDemanded
<1>1. TypeOK /\ AgeInv => TrustedAsDemanded
  <2> SUFFICES ASSUME TypeOK, AgeInv, answer # NoEntry, Sigstore(answer.question)
               PROVE  \E p \in Questions :
                        /\ p = answer.question \/ SameText(p, answer.question)
                        /\ Demand(p) # {}
                        /\ Demand(p) \subseteq Met[answer.question.subject][answer.version]
    BY DEF TrustedAsDemanded
  <2> DEFINE q == answer.question
  <2>1. q \in Questions /\ Vouched(q, answer.version) /\ ~ Refused(q)
    BY DEF AgeInv, AnswerInv, TypeOK, Answers
  <2>2. PICK p \in Questions : KeyOf(p) = KeyOf(q) /\ Accepts(p, answer.version)
    BY <2>1 DEF Vouched
  <2>3. /\ p.function = q.function /\ p.subject = q.subject /\ Sigstore(p)
        /\ p.function = "certificate" => SameText(p, q)
        /\ p.function # "certificate" => Demand(p) = Demand(q)
    BY <2>1, <2>2, SameKeySameDemand
  <2>4. Demand(p) \subseteq Met[q.subject][answer.version]
    BY <2>2, <2>3 DEF Accepts
  <2>5. CASE q.function = "certificate"
    <3>1. Demand(p) # {} /\ SameText(p, q)
      BY <2>3, <2>5 DEF Demand
    <3>2. QED
      BY <2>2, <2>4, <3>1
  <2>6. CASE q.function # "certificate"
    <3>1. q.signers \in Seq(Signers) /\ q.signers # <<>>
      BY <2>1, <2>6, QuestionsAssumption DEF Refused, Sigstore
    <3>2. Head(q.signers) \in Range(q.signers)
      BY <3>1, HolderIsInQueue
    <3>3. Demand(q) # {}
      BY <2>6, <3>2 DEF Demand
    <3>4. QED
      BY <2>1, <2>3, <2>4, <2>6, <3>3
  <2>7. QED
    BY <2>5, <2>6
<1>2. QED
  BY <1>1, AgeAlways, PTL

-----------------------------------------------------------------------------
(* Answers do not go back.                                                 *)

\* The registry cache has seen version v of s, or something newer.
RegistryHas(s, v) == v = 0 \/ (registry[s] # NoEntry /\ v <= registry[s].version)

\* What has been told is no newer than the subject, than the entry of the cache
\* and, for a verification, than the registry data.
ToldOf(q) ==
  LET k == KeyOf(q) IN
  /\ told[k] <= Version(q.subject)
  /\ store[k] # NoEntry => told[k] <= store[k].version
  /\ Sigstore(q) => RegistryHas(q.subject, told[k])
  /\ Sigstore(q) /\ store[k] # NoEntry => RegistryHas(q.subject, store[k].version)

\* Nor is it newer than what the call that may replace it has read.
ToldBefore(t) ==
  phase[t] = "read" =>
    /\ Cached(t) => told[KeyOf(asked[t])] <= seen[t]
    /\ Sigstore(asked[t]) => RegistryHas(asked[t].subject, seen[t])

ToldInv == (\A q \in Questions : ToldOf(q)) /\ (\A t \in Tasks : ToldBefore(t))

\* The subjects and the registry data beneath sigstore only advance.
Advances ==
  \A s \in Subjects :
    Version(s) <= Version(s)' /\ \A v \in Nat : RegistryHas(s, v) => RegistryHas(s, v)'

LEMMA StepsAdvance ==
  ASSUME TypeOK, RegistryInv, [Next]_vars
  PROVE  Advances
<1> SUFFICES ASSUME NEW s \in Subjects
             PROVE  Version(s) <= Version(s)'
                    /\ \A v \in Nat : RegistryHas(s, v) => RegistryHas(s, v)'
  BY DEF Advances
<1>1. Version(s) <= Version(s)'
  <2>1. history[s] \in Seq(Nat) /\ now \in Nat
    BY DEF TypeOK
  <2>2. history'[s] = history[s] \/ history'[s] = Append(history[s], now)
    <3>1. ASSUME NEW t \in Tasks, TaskStep(t)
          PROVE  history' = history
      BY <3>1, TaskKeepsTime
    <3>2. QED
      BY <3>1 DEF Next, Tick, Changes, vars, TypeOK
  <2>3. QED
    BY <2>1, <2>2 DEF Version
<1>2. ASSUME registry' # registry
      PROVE  registry'[s] = registry[s] \/ registry'[s] = [version |-> Version(s), stored |-> now]
  <2>1. PICK t \in Tasks : ReadSignatures(t)
    BY <1>2 DEF Next, Tick, Changes, vars, TypeOK, TaskStep, LookUp, Read, Ask, AskDirectly, Serve,
                Refuse, Miss, ReadDirectly, FailToRead, Accept, Reject
  <2>2. PICK r : registry' = registry
                 \/ registry' = [registry EXCEPT ![r] = [version |-> Version(r), stored |-> now]]
    BY <2>1 DEF ReadSignatures
  <2>3. QED
    BY <2>2 DEF TypeOK
<1>3. CASE registry'[s] = registry[s]
  BY <1>1, <1>3 DEF RegistryHas
<1>4. CASE registry'[s] = [version |-> Version(s), stored |-> now]
  <2>1. registry[s] # NoEntry => registry[s].version <= Version(s) /\ registry[s].version \in Nat
    BY DEF RegistryInv, CurrentAt, TypeOK, RegistryEntries, Version
  <2>2. PICK n \in Nat, i \in Nat : n = Version(s) /\ i = now
    BY DEF TypeOK, Version
  <2>3. registry'[s] \in RegistryEntries /\ registry'[s].version = n
    BY <1>4, <2>2 DEF RegistryEntries
  <2>4. registry'[s] # NoEntry
    BY <2>3, SentinelsAssumption DEF RegistryEntries
  <2>5. ASSUME NEW v \in Nat, RegistryHas(s, v)
        PROVE  RegistryHas(s, v)'
    BY <2>1, <2>2, <2>3, <2>4, <2>5 DEF RegistryHas
  <2>6. QED
    BY <1>1, <2>5
<1>5. QED
  BY <1>2, <1>3, <1>4

\* Two calls that may fill the entry of one key are one call.
LEMMA OneFillsTheEntry ==
  ASSUME LockInv, NEW t \in Tasks, NEW u \in Tasks,
         Busy(t), Holds(t, asked[t].function),
         phase[u] = "read", Cached(u), KeyOf(asked[u]) = KeyOf(asked[t])
  PROVE  u = t
<1>1. asked[t] \in Questions /\ asked[u] \in Questions
  BY BusyCall DEF LockInv, Busy
<1>2. asked[u].function = asked[t].function
  BY <1>1, SameKeySameDemand
<1>3. Holds(u, asked[u].function)
  BY DEF LockInv, OneCallInsideEachCache
<1>4. QED
  BY <1>2, <1>3 DEF Holds

\* A step that tells nothing, and at most leaves out an entry, keeps what has
\* been told in its place.
LEMMA TellingNothing ==
  ASSUME TypeOK, TypeOK', ToldInv, Advances, told' = told, NEW k,
         store' = store \/ store' = [store EXCEPT ![k] = NoEntry]
  PROVE  (\A q \in Questions : ToldOf(q))'
<1> SUFFICES ASSUME NEW q \in Questions PROVE ToldOf(q)'
  OBVIOUS
<1>1. KeyOf(q) \in Keys /\ q.subject \in Subjects
  BY QuestionsAssumption DEF Keys
<1>2. ToldOf(q)
  BY DEF ToldInv
<1>3. told[KeyOf(q)] \in Nat /\ Version(q.subject) \in Nat
      /\ (store[KeyOf(q)] # NoEntry => store[KeyOf(q)].version \in Nat)
  BY <1>1 DEF TypeOK, Version, Entries
<1>4. Version(q.subject) <= Version(q.subject)' /\ Version(q.subject)' \in Nat
      /\ \A v \in Nat : RegistryHas(q.subject, v) => RegistryHas(q.subject, v)'
  <2>1. Version(q.subject)' \in Nat
    BY <1>1 DEF TypeOK, Version
  <2>2. QED
    BY <1>1, <1>3, <2>1 DEF Advances
<1>5. store'[KeyOf(q)] = NoEntry \/ store'[KeyOf(q)] = store[KeyOf(q)]
  BY <1>1 DEF TypeOK
<1>6. PICK m \in Nat : m = told[KeyOf(q)]
  BY <1>3
<1>7. told'[KeyOf(q)] = m /\ m <= Version(q.subject)
  BY <1>2, <1>6 DEF ToldOf
<1>8. m <= Version(q.subject)'
  BY <1>3, <1>4, <1>7
<1>9. store'[KeyOf(q)] # NoEntry => m <= store'[KeyOf(q)].version
  BY <1>2, <1>5, <1>6 DEF ToldOf
<1>10. Sigstore(q) => RegistryHas(q.subject, m)'
  BY <1>2, <1>4, <1>6 DEF ToldOf
<1>11. ASSUME Sigstore(q), store'[KeyOf(q)] # NoEntry
       PROVE  RegistryHas(q.subject, store[KeyOf(q)].version)'
  <2>1. PICK w \in Nat : w = store[KeyOf(q)].version /\ store'[KeyOf(q)] = store[KeyOf(q)]
                         /\ store[KeyOf(q)] # NoEntry
    BY <1>3, <1>5, <1>11
  <2>2. RegistryHas(q.subject, w)'
    BY <1>2, <1>4, <1>11, <2>1 DEF ToldOf
  <2>3. QED
    BY <2>1, <2>2 DEF RegistryHas
<1>12. QED
  BY <1>7, <1>8, <1>9, <1>10, <1>11 DEF ToldOf, Version, RegistryHas, Sigstore

\* A step that tells version v for p, of an entry of version v, puts it in its
\* place.
LEMMA TellingVersion ==
  ASSUME TypeOK, TypeOK', ToldInv, Advances, NEW p \in Questions, NEW v \in Nat,
         v <= Version(p.subject), Sigstore(p) => RegistryHas(p.subject, v)',
         told' = [told EXCEPT ![KeyOf(p)] = v],
         store' = store \/ \E e : store' = [store EXCEPT ![KeyOf(p)] = e],
         store'[KeyOf(p)].version = v
  PROVE  (\A q \in Questions : ToldOf(q))'
<1> SUFFICES ASSUME NEW q \in Questions PROVE ToldOf(q)'
  OBVIOUS
<1>1. KeyOf(q) \in Keys /\ KeyOf(p) \in Keys /\ q.subject \in Subjects
  BY QuestionsAssumption DEF Keys
<1>2. Version(q.subject) \in Nat /\ Version(q.subject)' \in Nat
      /\ Version(q.subject) <= Version(q.subject)'
      /\ \A w \in Nat : RegistryHas(q.subject, w) => RegistryHas(q.subject, w)'
  BY <1>1 DEF TypeOK, Version, Advances
<1>3. CASE KeyOf(q) = KeyOf(p)
  <2>1. told'[KeyOf(q)] = v /\ store'[KeyOf(q)].version = v
    BY <1>1, <1>3 DEF TypeOK
  <2>2. q.subject = p.subject /\ (Sigstore(q) => Sigstore(p))
    BY <1>3, SameKeySameDemand
  <2>3. v <= Version(q.subject)' /\ (Sigstore(q) => RegistryHas(q.subject, v)')
    BY <1>2, <2>2
  <2>4. QED
    BY <2>1, <2>3 DEF ToldOf, Version, RegistryHas, Sigstore
<1>4. CASE KeyOf(q) # KeyOf(p)
  <2>1. told'[KeyOf(q)] = told[KeyOf(q)] /\ store'[KeyOf(q)] = store[KeyOf(q)]
    BY <1>1, <1>4 DEF TypeOK
  <2>2. ToldOf(q)
    BY DEF ToldInv
  <2>3. PICK m \in Nat : m = told[KeyOf(q)]
    BY <1>1 DEF TypeOK
  <2>4. m <= Version(q.subject) /\ m <= Version(q.subject)'
    BY <1>2, <2>2, <2>3 DEF ToldOf
  <2>5. store'[KeyOf(q)] # NoEntry => m <= store'[KeyOf(q)].version
    BY <2>1, <2>2, <2>3 DEF ToldOf
  <2>6. Sigstore(q) => RegistryHas(q.subject, m)'
    BY <1>2, <2>2, <2>3 DEF ToldOf
  <2>7. ASSUME Sigstore(q), store'[KeyOf(q)] # NoEntry
        PROVE  RegistryHas(q.subject, store[KeyOf(q)].version)'
    <3>1. PICK w \in Nat : w = store[KeyOf(q)].version
      BY <1>1, <2>1, <2>7 DEF TypeOK, Entries
    <3>2. RegistryHas(q.subject, w)'
      BY <1>2, <2>1, <2>2, <2>7, <3>1 DEF ToldOf
    <3>3. QED
      BY <2>1, <3>1, <3>2 DEF RegistryHas
  <2>8. QED
    BY <2>1, <2>3, <2>4, <2>5, <2>6, <2>7 DEF ToldOf, Version, RegistryHas, Sigstore
<1>5. QED
  BY <1>3, <1>4

\* The calls of the other tasks keep what they have read above what has been
\* told, unless another key has been told.
LEMMA OthersReadLater ==
  ASSUME TypeOK, TypeOK', ToldInv, Advances, NEW t \in Tasks,
         \A u \in Tasks \ {t} : phase'[u] = phase[u] /\ asked'[u] = asked[u] /\ seen'[u] = seen[u],
         \A u \in Tasks \ {t} :
           phase[u] = "read" /\ Cached(u) => told'[KeyOf(asked[u])] = told[KeyOf(asked[u])],
         ToldBefore(t)'
  PROVE  (\A u \in Tasks : ToldBefore(u))'
<1> SUFFICES ASSUME NEW u \in Tasks, u # t, phase'[u] = "read"
             PROVE  ToldBefore(u)'
  BY DEF ToldBefore
<1>1. phase[u] = "read" /\ asked'[u] = asked[u] /\ seen'[u] = seen[u]
  OBVIOUS
<1>2. asked[u] \in Questions
  BY <1>1, BusyCall DEF TypeOK, CallsTyped, Busy
<1>3. PICK q \in Questions, v \in Nat : q = asked[u] /\ v = seen[u]
  BY <1>2 DEF TypeOK
<1>4. ToldBefore(u)
  BY DEF ToldInv
<1>5. ~ q.disable_cache => told'[KeyOf(q)] <= v
  BY <1>1, <1>3, <1>4 DEF ToldBefore, Cached
<1>6. Sigstore(q) => RegistryHas(q.subject, v)'
  BY <1>1, <1>3, <1>4, QuestionsAssumption DEF ToldBefore, Advances
<1>7. QED
  BY <1>1, <1>3, <1>5, <1>6 DEF ToldBefore, Cached, RegistryHas, Sigstore

ToldGrows == \A k \in Keys : told[k] <= told'[k]

\* Whoever tells a version holds the mutex, so no other call has read for that
\* key meanwhile.
LEMMA TellStep ==
  ASSUME TypeOK, TypeOK', LockInv, ToldInv, Advances, NEW t \in Tasks,
         Busy(t), Cached(t), Holds(t, asked[t].function), End(t),
         NEW v \in Nat, v <= Version(asked[t].subject), told[KeyOf(asked[t])] <= v,
         Sigstore(asked[t]) => RegistryHas(asked[t].subject, v),
         told' = [told EXCEPT ![KeyOf(asked[t])] = v],
         store' = store \/ \E e : store' = [store EXCEPT ![KeyOf(asked[t])] = e],
         store'[KeyOf(asked[t])].version = v
  PROVE  ToldInv' /\ ToldGrows
<1>1. PICK p \in Questions : p = asked[t]
  BY BusyCall DEF LockInv
<1>2. KeyOf(p) \in Keys /\ p.subject \in Subjects
  BY QuestionsAssumption DEF Keys
<1>3. Sigstore(p) => RegistryHas(p.subject, v)'
  BY <1>1, <1>2 DEF Advances
<1>4. (\A q \in Questions : ToldOf(q))'
  BY <1>1, <1>3, TellingVersion
<1>5. ToldGrows
  BY <1>1, <1>2 DEF TypeOK, ToldGrows
<1>6. phase'[t] = "idle"
      /\ \A u \in Tasks \ {t} : phase'[u] = phase[u] /\ asked'[u] = asked[u] /\ seen'[u] = seen[u]
  BY DEF End, TypeOK
<1>7. ASSUME NEW u \in Tasks \ {t}, phase[u] = "read", Cached(u)
      PROVE  told'[KeyOf(asked[u])] = told[KeyOf(asked[u])]
  <2>1. KeyOf(asked[u]) # KeyOf(p)
    BY <1>1, <1>7, OneFillsTheEntry
  <2>2. asked[u] \in Questions /\ KeyOf(asked[u]) \in Keys
    BY <1>7, BusyCall DEF LockInv, Busy
  <2>3. QED
    BY <1>1, <2>1, <2>2 DEF TypeOK
<1>8. (\A u \in Tasks : ToldBefore(u))'
  <2>1. ToldBefore(t)'
    BY <1>6 DEF ToldBefore
  <2>2. QED
    BY <1>6, <1>7, <2>1, OthersReadLater
<1>9. QED
  BY <1>4, <1>5, <1>8 DEF ToldInv

LEMMA ServeTells ==
  ASSUME TypeOK, TypeOK', LockInv, AgeInv, ToldInv, Advances, NEW t \in Tasks, Serve(t)
  PROVE  ToldInv' /\ ToldGrows
<1> DEFINE k == KeyOf(asked[t])
<1>1. /\ Busy(t) /\ Holds(t, asked[t].function) /\ End(t) /\ store' = store
      /\ store[k] # NoEntry /\ Tell(t, store[k])
  BY DEF Serve, MutexOf, FreshFor, Fresh, Busy
<1>2. asked[t] \in Questions /\ asked[t].function \in CachedFunctions /\ k \in Keys
      /\ asked[t].function \in Mutexes /\ asked[t].disable_cache \in BOOLEAN
  BY <1>1, BusyCall DEF LockInv
<1>3. Cached(t)
  <2>1. locks[asked[t].function] \in Seq(Tasks)
    BY <1>2 DEF LockInv, QueuesTyped
  <2>2. t \in Range(locks[asked[t].function])
    BY <1>1, <2>1, HolderIsInQueue DEF Holds
  <2>3. QED
    BY <1>2, <2>2 DEF LockInv, OneCallInsideEachCache
<1>4. PICK v \in Nat : v = store[k].version
  BY <1>1, <1>2 DEF TypeOK, Entries
<1>5. v <= Version(asked[t].subject)
  BY <1>1, <1>2, <1>4 DEF AgeInv, StoreInv, ReadFor, CurrentAt, Version
<1>6. told[k] <= v /\ (Sigstore(asked[t]) => RegistryHas(asked[t].subject, v))
  BY <1>1, <1>2, <1>4 DEF ToldInv, ToldOf
<1>7. told' = [told EXCEPT ![k] = v]
  BY <1>1, <1>3, <1>4 DEF Tell, Cached
<1>8. store'[k].version = v
  BY <1>1, <1>4
<1>9. QED
  BY <1>1, <1>3, <1>5, <1>6, <1>7, <1>8, TellStep

\* A step that tells nothing of the caches.
LEMMA QuietStep ==
  ASSUME TypeOK, TypeOK', ToldInv, Advances, told' = told, NEW k,
         store' = store \/ store' = [store EXCEPT ![k] = NoEntry],
         NEW t \in Tasks, ToldBefore(t)',
         \A u \in Tasks \ {t} : phase'[u] = phase[u] /\ asked'[u] = asked[u] /\ seen'[u] = seen[u]
  PROVE  ToldInv' /\ ToldGrows
<1>1. (\A q \in Questions : ToldOf(q))'
  BY TellingNothing
<1>2. (\A u \in Tasks : ToldBefore(u))'
  BY OthersReadLater
<1>3. ToldGrows
  BY DEF ToldGrows, TypeOK
<1>4. QED
  BY <1>1, <1>2, <1>3 DEF ToldInv

LEMMA AcceptTells ==
  ASSUME TypeOK, TypeOK', LockInv, AgeInv, ToldInv, Advances, NEW t \in Tasks, Accept(t)
  PROVE  ToldInv' /\ ToldGrows
<1> DEFINE k == KeyOf(asked[t])
<1>1. /\ phase[t] = "read" /\ Busy(t) /\ End(t)
  BY DEF Accept, Busy
<1>2. asked[t] \in Questions /\ k \in Keys
  BY <1>1, BusyCall DEF LockInv
<1>3. phase'[t] = "idle"
      /\ \A u \in Tasks \ {t} : phase'[u] = phase[u] /\ asked'[u] = asked[u] /\ seen'[u] = seen[u]
  BY <1>1 DEF End, TypeOK
<1>4. ToldBefore(t)'
  BY <1>3 DEF ToldBefore
<1>5. CASE asked[t].disable_cache
  <2>1. told' = told /\ store' = store
    BY <1>5 DEF Accept, Tell
  <2>2. QED
    BY <1>3, <1>4, <2>1, QuietStep
<1>6. CASE ~ asked[t].disable_cache
  <2>1. Cached(t) /\ Holds(t, asked[t].function)
    BY <1>1, <1>6 DEF Cached, LockInv, OneCallInsideEachCache
  <2>2. PICK v \in Nat : v = seen[t]
    BY DEF TypeOK
  <2>3. v <= Version(asked[t].subject)
    BY <1>1, <2>2 DEF AgeInv, FetchInv, ReadFor, CurrentAt
  <2>4. told[k] <= v /\ (Sigstore(asked[t]) => RegistryHas(asked[t].subject, v))
    BY <1>1, <2>1, <2>2 DEF ToldInv, ToldBefore
  <2>5. told' = [told EXCEPT ![k] = v]
        /\ store' = [store EXCEPT ![k] = [version |-> v, began |-> began[t], stored |-> now]]
    BY <1>6, <2>2 DEF Accept, Tell
  <2>6. store'[k].version = v
    BY <1>2, <2>5 DEF TypeOK
  <2>7. QED
    BY <1>1, <2>1, <2>3, <2>4, <2>5, <2>6, TellStep
<1>7. QED
  BY <1>5, <1>6

LEMMA ReadDirectlyReadsLater ==
  ASSUME TypeOK, TypeOK', ToldInv, Advances, NEW t \in Tasks, ReadDirectly(t)
  PROVE  ToldInv' /\ ToldGrows
<1>1. /\ Busy(t) /\ ~ Sigstore(asked[t]) /\ told' = told /\ store' = store
      /\ asked' = asked /\ seen'[t] = Version(asked[t].subject)
      /\ \A u \in Tasks \ {t} : phase'[u] = phase[u] /\ asked'[u] = asked[u] /\ seen'[u] = seen[u]
  BY DEF ReadDirectly, Busy, TellNothing, TypeOK
<1>2. asked[t] \in Questions
  BY <1>1, BusyCall DEF TypeOK, CallsTyped
<1>3. told[KeyOf(asked[t])] <= Version(asked[t].subject)
  BY <1>2 DEF ToldInv, ToldOf
<1>4. ToldBefore(t)'
  BY <1>1, <1>3 DEF ToldBefore, Sigstore
<1>5. QED
  BY <1>1, <1>4, QuietStep

LEMMA ReadSignaturesReadsLater ==
  ASSUME TypeOK, TypeOK', ToldInv, Advances, NEW t \in Tasks, ReadSignatures(t)
  PROVE  ToldInv' /\ ToldGrows
<1>1. /\ Busy(t) /\ Sigstore(asked[t]) /\ told' = told /\ store' = store
      /\ asked' = asked /\ seen'[t] = registry'[asked[t].subject].version
      /\ \A u \in Tasks \ {t} : phase'[u] = phase[u] /\ asked'[u] = asked[u] /\ seen'[u] = seen[u]
  BY DEF ReadSignatures, Busy, TellNothing, TypeOK
<1>2. asked[t] \in Questions /\ asked[t].subject \in Subjects /\ KeyOf(asked[t]) \in Keys
  BY <1>1, BusyCall DEF TypeOK, CallsTyped
<1>3. PICK q \in Questions : q = asked[t] /\ q.subject \in Subjects /\ KeyOf(q) \in Keys
  BY <1>2
<1>4. registry'[q.subject] \in RegistryEntries
  <2>1. CASE Fresh(registry[q.subject], RegistryLifetime)
    BY <1>3, <2>1 DEF ReadSignatures, Fresh, TypeOK
  <2>2. CASE ~ Fresh(registry[q.subject], RegistryLifetime)
    <3>1. registry'[q.subject] = [version |-> Version(q.subject), stored |-> now]
      BY <1>3, <2>2 DEF ReadSignatures, TypeOK
    <3>2. Version(q.subject) \in Nat /\ now \in Nat
      BY <1>3 DEF TypeOK, Version
    <3>3. QED
      BY <3>1, <3>2 DEF RegistryEntries
  <2>3. QED
    BY <2>1, <2>2
<1>5. registry'[q.subject] # NoEntry
  BY <1>4, SentinelsAssumption DEF RegistryEntries
<1>6. PICK v \in Nat : v = registry'[q.subject].version
  BY <1>4 DEF RegistryEntries
<1>7. RegistryHas(q.subject, v)'
  BY <1>5, <1>6 DEF RegistryHas
<1>8. told[KeyOf(q)] <= v
  <2>1. PICK m \in Nat : m = told[KeyOf(q)]
    BY <1>3 DEF TypeOK
  <2>2. RegistryHas(q.subject, m)
    BY <1>1, <1>3, <2>1 DEF ToldInv, ToldOf
  <2>3. RegistryHas(q.subject, m)'
    BY <1>3, <2>2 DEF Advances
  <2>4. QED
    BY <1>6, <2>1, <2>3 DEF RegistryHas
<1>9. ToldBefore(t)'
  BY <1>1, <1>3, <1>6, <1>7, <1>8 DEF ToldBefore, RegistryHas
<1>10. QED
  BY <1>1, <1>9, QuietStep

LEMMA ToldPreserved ==
  ASSUME TypeOK, TypeOK', LockInv, AgeInv, ToldInv, [Next]_vars
  PROVE  ToldInv' /\ ToldGrows
<1>1. Advances
  BY StepsAdvance DEF AgeInv
<1>2. ASSUME NEW t \in Tasks, TaskStep(t)
      PROVE  ToldInv' /\ ToldGrows
  <2>1. ASSUME NEW q \in Questions, Ask(t, q) \/ AskDirectly(t, q)
        PROVE  ToldInv' /\ ToldGrows
    <3>1. /\ told' = told /\ store' = store /\ phase'[t] # "read"
          /\ \A u \in Tasks \ {t} : phase'[u] = phase[u] /\ asked'[u] = asked[u] /\ seen'[u] = seen[u]
      BY <2>1 DEF Ask, AskDirectly, TellNothing, TypeOK
    <3>2. ToldBefore(t)'
      BY <3>1 DEF ToldBefore
    <3>3. QED
      BY <1>1, <3>1, <3>2, QuietStep
  <2>2. ASSUME Refuse(t) \/ Reject(t) \/ FailToRead(t) \/ Miss(t)
        PROVE  ToldInv' /\ ToldGrows
    <3>1. /\ told' = told /\ phase'[t] # "read"
          /\ (store' = store \/ store' = [store EXCEPT ![KeyOf(asked[t])] = NoEntry])
          /\ \A u \in Tasks \ {t} : phase'[u] = phase[u] /\ asked'[u] = asked[u] /\ seen'[u] = seen[u]
      BY <2>2 DEF Refuse, Reject, FailToRead, Miss, End, TellNothing, TypeOK
    <3>2. ToldBefore(t)'
      BY <3>1 DEF ToldBefore
    <3>3. QED
      BY <1>1, <3>1, <3>2, QuietStep
  <2>3. QED
    BY <1>1, <1>2, <2>1, <2>2, ServeTells, AcceptTells, ReadDirectlyReadsLater,
       ReadSignaturesReadsLater
       DEF TaskStep, LookUp, Read
<1>3. ASSUME Tick \/ (\E s \in Subjects : Changes(s)) \/ UNCHANGED vars
      PROVE  ToldInv' /\ ToldGrows
  <2>1. told' = told /\ store' = store /\ phase' = phase /\ asked' = asked /\ seen' = seen
        /\ registry' = registry
    BY <1>3 DEF Tick, Changes, vars, taskVars, TellNothing
  <2>2. (\A q \in Questions : ToldOf(q))'
    BY <1>1, <2>1, TellingNothing
  <2>3. (\A t \in Tasks : ToldBefore(t))'
    BY <2>1 DEF ToldInv, ToldBefore, Cached, Sigstore, RegistryHas
  <2>4. QED
    BY <2>1, <2>2, <2>3 DEF ToldInv, ToldGrows, TypeOK
<1>4. QED
  BY <1>2, <1>3 DEF Next

LEMMA ToldInitially == Init => ToldInv
<1> SUFFICES ASSUME Init PROVE ToldInv
  OBVIOUS
<1>1. ASSUME NEW q \in Questions
      PROVE  ToldOf(q)
  <2>1. KeyOf(q) \in Keys /\ q.subject \in Subjects
    BY QuestionsAssumption DEF Keys
  <2>2. told[KeyOf(q)] = 0 /\ store[KeyOf(q)] = NoEntry /\ Version(q.subject) = 1
    BY <2>1 DEF Init, Version
  <2>3. QED
    BY <2>2 DEF ToldOf, RegistryHas
<1>2. QED
  BY <1>1 DEF ToldInv, ToldBefore, Init

\* Answers to one question never go back to an older version, because the
\* mutex is held over the fetch.
THEOREM NeverBack == Spec => NeverGoesBack
<1>1. TypeOK /\ TypeOK' /\ LockInv /\ AgeInv /\ ToldInv /\ [Next]_vars
        => ToldInv' /\ [\A k \in Keys : told[k] <= told'[k]]_vars
  BY ToldPreserved DEF ToldGrows
<1>2. QED
  BY <1>1, AgeAlways, ToldInitially, PTL DEF Spec, NeverGoesBack
=============================================================================

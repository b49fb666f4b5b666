------------------------ MODULE InventoryCache_proofs ------------------------
(***************************************************************************)
(* For every set of resources and callers, every allow list and every      *)
(* bound: the types, and what a cached inventory may lack.                 *)
(***************************************************************************)
EXTENDS InventoryCache, FiniteSetTheorems, TLAPS

\* What a caller in the middle of an evaluation holds.
CallerInv ==
  \A c \in Callers :
    /\ pc[c] # "list" => data[c] = NoData /\ listing[c] = "no"
    /\ pc[c] = "list" =>
         /\ todo[c] \subseteq Key[c]
         /\ \A r \in Resources : data[c][r] # NoSnapshot <=> r \in Key[c] \ todo[c]
    /\ listing[c] # "no" =>
         /\ todo[c] # {}
         /\ reader[c] \in 1..created
         /\ pool[reader[c]].resource = First(todo[c])

\* No instant lies in the future.
InstantsInv ==
  /\ \A i \in Ids : pool[i].last <= clock
  /\ \A c \in Callers : since[c] <= clock
  /\ \A k \in Keys : inventories[k] # NoEntry => inventories[k].time <= clock

\* A snapshot taken for an inventory of that time misses at most one event.
AlmostComplete(snapshot, time) ==
  pool[snapshot.reflector].last <= time => Told(snapshot.reflector) <= snapshot.events + 1

\* MissesAtMostOneEvent, for the inventories under construction as well.
SnapshotsInv ==
  /\ \A c \in Callers, r \in Resources :
       data[c][r] # NoSnapshot => AlmostComplete(data[c][r], since[c])
  /\ \A k \in Keys : \A r \in Resources :
       inventories[k] # NoEntry /\ inventories[k].data[r] # NoSnapshot =>
         AlmostComplete(inventories[k].data[r], inventories[k].time)

\* The first resource of a loop is one of those that are left.
LEMMA FirstIsMember ==
  ASSUME NEW S, S # {}
  PROVE  First(S) \in S
  BY DEF First

\* A new reflector keeps the types of the client.
LEMMA CreateTyped ==
  ASSUME ReflectorsTypeOK, NEW c \in Callers, NEW r \in Resources, CreateAndRun(c, r)
  PROVE  ReflectorsTypeOK'
<1>1. created \in Nat /\ created + 1 \in Ids /\ created' = created + 1 /\ created' \in 0..MaxReflectors
  BY BoundsAssumption DEF ReflectorsTypeOK, CreateAndRun, Ids
<1>2. [resource |-> r, ready |-> FALSE, events |-> 0, version |-> cluster[r],
       last |-> Now, inflight |-> NoEvent] \in Reflector
  BY DEF ReflectorsTypeOK, Reflector, Now
<1>3. pool' \in [Ids -> Reflector]
  BY <1>1, <1>2 DEF ReflectorsTypeOK, CreateAndRun
<1>4. registered' \in [Resources -> 0..created'] /\ reader' \in [Callers -> 0..created']
  BY <1>1 DEF ReflectorsTypeOK, CreateAndRun
<1>5. clock' \in Nat /\ cluster' \in [Resources -> Nat]
      /\ listing' \in [Callers -> {"no", "waiting", "reading"}]
  BY DEF ReflectorsTypeOK, CreateAndRun, Tick
<1>6. QED
  BY <1>1, <1>3, <1>4, <1>5 DEF ReflectorsTypeOK

\* So do the events of a watcher.
LEMMA WatcherTyped ==
  ASSUME ReflectorsTypeOK, NEW i \in Ids, WatcherSees(i) \/ ApplyWatcherEvent(i)
  PROVE  ReflectorsTypeOK'
<1>1. pool[i] \in Reflector
  BY DEF ReflectorsTypeOK
<1>2. CASE WatcherSees(i)
  <2>1. PICK v \in pool[i].version..cluster[pool[i].resource] :
          pool' = [pool EXCEPT ![i].last = Now, ![i].inflight = v]
    BY <1>2 DEF WatcherSees
  <2>2. v \in Nat
    BY <1>1 DEF ReflectorsTypeOK, Reflector
  <2> DEFINE told == [pool[i] EXCEPT !.last = Now, !.inflight = v]
  <2>3. told \in Reflector
    <3>1. Now \in Nat
      BY DEF ReflectorsTypeOK, Now
    <3>2. QED
      BY <1>1, <2>2, <3>1 DEF Reflector
  <2>4. pool' = [pool EXCEPT ![i] = told]
    BY <2>1, Zenon DEF ReflectorsTypeOK
  <2>5. pool' \in [Ids -> Reflector]
    BY <2>3, <2>4 DEF ReflectorsTypeOK
  <2>6. clock' = clock + 1 /\ UNCHANGED <<cluster, created, registered, listing, reader>>
    BY <1>2, Zenon DEF WatcherSees, Tick
  <2>7. QED
    BY <2>5, <2>6 DEF ReflectorsTypeOK
<1>3. CASE ApplyWatcherEvent(i)
  <2>1. pool' \in [Ids -> Reflector]
    BY <1>1, <1>3 DEF ReflectorsTypeOK, Reflector, ApplyWatcherEvent
  <2>2. QED
    BY <1>3, <2>1 DEF ReflectorsTypeOK, ApplyWatcherEvent
<1>4. QED
  BY <1>2, <1>3

\* What a caller ends with: nothing on its stack.
LEMMA FinishTyped ==
  ASSUME TypeOK, NEW c \in Callers, Finish(c),
         inventories' \in [Keys -> Entry \cup {NoEntry}], UNCHANGED reflectorVars
  PROVE  TypeOK'
<1>1. ReflectorsTypeOK'
  BY DEF TypeOK, ReflectorsTypeOK, reflectorVars
<1>2. NoData \in Data
  BY DEF NoData, Data
<1>3. QED
  BY <1>1, <1>2 DEF TypeOK, Finish

\* A step keeps the types, as long as a caller that reads has a reader.
LEMMA TypeStep == TypeOK /\ CallerInv /\ [Next]_vars => TypeOK'
<1> SUFFICES ASSUME TypeOK, CallerInv, [Next]_vars PROVE TypeOK'
  OBVIOUS
<1>1. ASSUME NEW c \in Callers PROVE Key[c] \in Keys /\ Key[c] \subseteq Resources
  BY KeyAssumption DEF Keys
<1>2. ASSUME NEW c \in Callers, Begin(c) PROVE TypeOK'
  <2>1. ReflectorsTypeOK'
    BY <1>2 DEF TypeOK, ReflectorsTypeOK, Begin, reflectorVars
  <2>2. inventories[Key[c]] # NoEntry => inventories[Key[c]].time \in Nat
    BY <1>1 DEF TypeOK, Entry
  <2>3. QED
    BY <1>1, <1>2, <2>1, <2>2, KeyAssumption DEF TypeOK, Begin
<1>3. ASSUME NEW c \in Callers, CheckResource(c) PROVE TypeOK'
  <2>1. ReflectorsTypeOK'
    BY <1>3 DEF TypeOK, ReflectorsTypeOK, CheckResource, reflectorVars
  <2>2. QED
    BY <1>3, <2>1 DEF TypeOK, CheckResource
<1>4. ASSUME NEW c \in Callers, ServeCached(c) PROVE TypeOK'
  BY <1>4, FinishTyped DEF TypeOK, ServeCached
<1>5. ASSUME NEW c \in Callers, StartInventory(c) PROVE TypeOK'
  <2>1. ReflectorsTypeOK'
    BY <1>5 DEF TypeOK, ReflectorsTypeOK, StartInventory, Tick
  <2>2. Now \in Nat
    BY DEF TypeOK, ReflectorsTypeOK, Now
  <2>3. QED
    BY <1>1, <1>5, <2>1, <2>2 DEF TypeOK, StartInventory
<1>6. ASSUME NEW c \in Callers, ListResource(c) PROVE TypeOK'
  <2>1. First(todo[c]) \in Resources
    BY <1>6, FirstIsMember DEF TypeOK, ListResource
  <2>2. ReflectorsTypeOK'
    <3>1. CASE registered[First(todo[c])] # 0
      BY <1>6, <2>1, <3>1 DEF TypeOK, ReflectorsTypeOK, ListResource, LookUp
    <3>2. CASE registered[First(todo[c])] = 0
      BY <1>6, <2>1, <3>2, CreateTyped DEF TypeOK, ListResource, LookUp
    <3>3. QED
      BY <3>1, <3>2
  <2>3. QED
    BY <1>6, <2>2 DEF TypeOK, ListResource, cacheVars
<1>7. ASSUME NEW c \in Callers, ListWaited(c) PROVE TypeOK'
  <2>1. ReflectorsTypeOK'
    BY <1>7 DEF TypeOK, ReflectorsTypeOK, ListWaited, ReflectorReady
  <2>2. QED
    BY <1>7, <2>1 DEF TypeOK, ListWaited, cacheVars
<1>8. ASSUME NEW c \in Callers, ListRead(c) PROVE TypeOK'
  <2>1. reader[c] \in 1..created /\ created \in 0..MaxReflectors
    BY <1>8 DEF TypeOK, ReflectorsTypeOK, CallerInv, ListRead
  <2>2. reader[c] \in Ids
    BY <2>1, BoundsAssumption DEF Ids
  <2>3. Content(reader[c]) \in Snapshot
    BY <2>2 DEF TypeOK, ReflectorsTypeOK, Reflector, Content, Snapshot
  <2>4. data' \in [Callers -> Data]
    BY <1>8, <2>3 DEF TypeOK, Data, ListRead
  <2>5. ReflectorsTypeOK'
    BY <1>8 DEF TypeOK, ReflectorsTypeOK, ListRead, ReadStore
  <2>6. QED
    BY <1>8, <2>4, <2>5 DEF TypeOK, ListRead
<1>9. ASSUME NEW c \in Callers, FinishList(c) PROVE TypeOK'
  <2>1. [time |-> since[c], data |-> data[c]] \in Entry
    BY DEF TypeOK, Entry
  <2>2. inventories' \in [Keys -> Entry \cup {NoEntry}]
    BY <1>1, <1>9, <2>1 DEF TypeOK, FinishList
  <2>3. QED
    BY <1>9, <2>2, FinishTyped DEF FinishList
<1>10. ASSUME NEW c \in Callers, Fail(c) PROVE TypeOK'
  BY <1>10, FinishTyped DEF TypeOK, Fail
<1>11. ASSUME NEW i \in Ids, WatcherStep(i) PROVE TypeOK'
  BY <1>11, WatcherTyped DEF TypeOK, WatcherStep, cacheVars
<1>12. CASE ClusterStep
  <2>1. ReflectorsTypeOK'
    BY <1>12 DEF TypeOK, ReflectorsTypeOK, ClusterStep, ClusterChanges
  <2>2. QED
    BY <1>12, <2>1 DEF TypeOK, ClusterStep, cacheVars
<1>13. CASE UNCHANGED vars
  BY <1>13 DEF TypeOK, ReflectorsTypeOK, vars, reflectorVars, cacheVars
<1>14. QED
  BY <1>2, <1>3, <1>4, <1>5, <1>6, <1>7, <1>8, <1>9, <1>10, <1>11, <1>12, <1>13
  DEF Next, CallerProgress

\* Only a new reflector and the events of the watchers change the reflectors.
LEMMA PoolCases ==
  ASSUME TypeOK, [Next]_vars
  PROVE  \/ UNCHANGED <<created, pool>> /\ clock' \in {clock, clock + 1}
         \/ \E c \in Callers, r \in Resources : CreateAndRun(c, r)
         \/ \E i \in Ids : WatcherSees(i) \/ ApplyWatcherEvent(i)
<1>1. ASSUME NEW c \in Callers, ListResource(c)
      PROVE  \/ UNCHANGED <<created, pool, clock>>
             \/ CreateAndRun(c, First(todo[c])) /\ First(todo[c]) \in Resources
  BY <1>1, FirstIsMember DEF TypeOK, ListResource, LookUp
<1>2. ASSUME NEW c \in Callers, Begin(c) \/ CheckResource(c) \/ ServeCached(c) \/ StartInventory(c)
      PROVE  UNCHANGED <<created, pool>> /\ clock' \in {clock, clock + 1}
  BY <1>2, Zenon
  DEF Begin, CheckResource, ServeCached, StartInventory, Tick, reflectorVars
<1>3. ASSUME NEW c \in Callers, ListWaited(c) \/ ListRead(c) \/ FinishList(c) \/ Fail(c)
      PROVE  UNCHANGED <<created, pool, clock>>
  BY <1>3, Zenon
  DEF ListWaited, ReflectorReady, ListRead, ReadStore, FinishList, Fail, reflectorVars
<1>4. ClusterStep \/ UNCHANGED vars => UNCHANGED <<created, pool, clock>>
  BY Zenon DEF ClusterStep, ClusterChanges, vars, reflectorVars
<1>5. QED
  BY <1>1, <1>2, <1>3, <1>4 DEF Next, CallerProgress, WatcherStep

\* What a step may do to the reflectors: those there are keep their resource,
\* once ready stay ready, and their number does not fall.
LEMMA PoolStep ==
  ASSUME TypeOK, [Next]_vars, NEW i \in 1..created
  PROVE  /\ i \in 1..created'
         /\ pool'[i].resource = pool[i].resource
         /\ pool[i].ready => pool'[i].ready
<1>1. created \in Nat /\ i \in Ids /\ created + 1 # i /\ 1..created \subseteq 1..(created + 1)
  BY BoundsAssumption DEF TypeOK, ReflectorsTypeOK, Ids
<1>2. pool[i] \in Reflector
  BY <1>1 DEF TypeOK, ReflectorsTypeOK
<1>3. ASSUME NEW c \in Callers, NEW r \in Resources, CreateAndRun(c, r)
      PROVE  created' = created + 1 /\ pool'[i] = pool[i]
  BY <1>1, <1>3 DEF TypeOK, ReflectorsTypeOK, CreateAndRun
<1>4. ASSUME NEW j \in Ids, ApplyWatcherEvent(j)
      PROVE  /\ created' = created
             /\ pool'[i].resource = pool[i].resource
             /\ pool[i].ready => pool'[i].ready
  BY <1>1, <1>2, <1>4 DEF TypeOK, ReflectorsTypeOK, Reflector, ApplyWatcherEvent
<1>5. ASSUME NEW j \in Ids, WatcherSees(j)
      PROVE  /\ created' = created
             /\ pool'[i].resource = pool[i].resource
             /\ pool'[i].ready = pool[i].ready
  <2>1. PICK v : pool' = [pool EXCEPT ![j].last = Now, ![j].inflight = v]
    BY <1>5, Zenon DEF WatcherSees
  <2>2. pool' = [pool EXCEPT ![j] = [pool[j] EXCEPT !.last = Now, !.inflight = v]]
    BY <2>1, Zenon DEF TypeOK, ReflectorsTypeOK
  <2>3. created' = created
    BY <1>5, Zenon DEF WatcherSees
  <2>4. QED
    BY <1>1, <1>2, <2>2, <2>3 DEF TypeOK, ReflectorsTypeOK, Reflector
<1>6. QED
  BY <1>1, <1>3, <1>4, <1>5, PoolCases

\* What a caller that ends, or has not begun to list, holds.
LEMMA CallerStep == TypeOK /\ CallerInv /\ ReadersAreReady /\ [Next]_vars => CallerInv'
<1> DEFINE P(c) ==
      /\ pc[c] # "list" => data[c] = NoData /\ listing[c] = "no"
      /\ pc[c] = "list" =>
           /\ todo[c] \subseteq Key[c]
           /\ \A r \in Resources : data[c][r] # NoSnapshot <=> r \in Key[c] \ todo[c]
      /\ listing[c] # "no" =>
           /\ todo[c] # {}
           /\ reader[c] \in 1..created
           /\ pool[reader[c]].resource = First(todo[c])
<1> SUFFICES ASSUME TypeOK, CallerInv, ReadersAreReady, [Next]_vars, NEW c \in Callers
             PROVE  P(c)'
  BY DEF CallerInv
<1>1. P(c)
  BY DEF CallerInv
\* A step of another caller or of the environment.
<1>2. ASSUME pc'[c] = pc[c], todo'[c] = todo[c], data'[c] = data[c],
             listing'[c] = listing[c], reader'[c] = reader[c]
      PROVE  P(c)'
  BY <1>1, <1>2, PoolStep
<1> HIDE DEF P
<1>3. ASSUME NEW d \in Callers, d # c, Begin(d) \/ CallerProgress(d) PROVE P(c)'
  <2>1. CASE Begin(d) \/ CheckResource(d) \/ ServeCached(d) \/ StartInventory(d)
    BY <1>2, <1>3, <2>1
    DEF TypeOK, ReflectorsTypeOK, Begin, CheckResource, ServeCached, StartInventory,
        Finish, reflectorVars
  <2>2. CASE ListResource(d)
    BY <1>2, <1>3, <2>2
    DEF TypeOK, ReflectorsTypeOK, ListResource, LookUp, CreateAndRun, cacheVars
  <2>3. CASE ListWaited(d) \/ ListRead(d)
    BY <1>2, <1>3, <2>3
    DEF TypeOK, ReflectorsTypeOK, ListWaited, ReflectorReady, ListRead, ReadStore, cacheVars
  <2>4. CASE FinishList(d) \/ Fail(d)
    BY <1>2, <1>3, <2>4
    DEF TypeOK, ReflectorsTypeOK, FinishList, Fail, Finish, reflectorVars
  <2>5. QED
    BY <1>3, <2>1, <2>2, <2>3, <2>4 DEF CallerProgress
<1>4. Key[c] \subseteq Resources
  BY KeyAssumption
<1>5. CASE Begin(c)
  BY <1>1, <1>4, <1>5
  DEF P, TypeOK, ReflectorsTypeOK, Begin, NoData, reflectorVars
<1>6. CASE CheckResource(c)
  BY <1>1, <1>6 DEF P, TypeOK, ReflectorsTypeOK, CheckResource, reflectorVars
<1>7. CASE ServeCached(c) \/ FinishList(c) \/ Fail(c)
  BY <1>1, <1>7
  DEF P, TypeOK, ReflectorsTypeOK, ServeCached, FinishList, Fail, Finish, reflectorVars
<1>8. CASE StartInventory(c)
  BY <1>1, <1>4, <1>8 DEF P, TypeOK, ReflectorsTypeOK, StartInventory, NoData
<1>9. CASE ListResource(c)
  <2> DEFINE r == First(todo[c])
  <2>1. r \in Resources
    BY <1>9, FirstIsMember DEF TypeOK, ListResource
  <2>2. CASE registered[r] # 0
    <3>1. registered[r] \in 1..created /\ pool[registered[r]].resource = r
      BY <2>1, <2>2 DEF TypeOK, ReflectorsTypeOK, ReadersAreReady
    <3>2. QED
      BY <1>1, <1>9, <2>2, <3>1
      DEF P, TypeOK, ReflectorsTypeOK, ListResource, LookUp, cacheVars
  <2>3. CASE registered[r] = 0
    <3>1. CreateAndRun(c, r)
      BY <1>9, <2>3 DEF ListResource, LookUp
    <3>2. /\ created + 1 \in Ids
          /\ created + 1 \in 1..(created + 1)
      BY <3>1, BoundsAssumption DEF TypeOK, ReflectorsTypeOK, CreateAndRun, Ids
    <3>3. /\ created' = created + 1
          /\ reader'[c] = created + 1
          /\ pool'[created + 1].resource = r
      BY <3>1, <3>2 DEF TypeOK, ReflectorsTypeOK, CreateAndRun
    <3>4. QED
      BY <1>1, <1>9, <3>2, <3>3 DEF P, ListResource, cacheVars
  <2>4. QED
    BY <2>2, <2>3
<1>10. CASE ListWaited(c)
  BY <1>1, <1>10 DEF P, TypeOK, ReflectorsTypeOK, ListWaited, ReflectorReady, cacheVars
<1>11. CASE ListRead(c)
  <2>1. First(todo[c]) \in todo[c] /\ reader[c] \in 1..created /\ todo[c] \subseteq Key[c]
    BY <1>1, <1>11, FirstIsMember DEF P, ListRead
  <2>2. reader[c] \in Ids
    BY <2>1, BoundsAssumption DEF TypeOK, ReflectorsTypeOK, Ids
  <2>3. Content(reader[c]) \in Snapshot
    BY <2>2 DEF TypeOK, ReflectorsTypeOK, Reflector, Content, Snapshot
  <2>4. \A r \in Resources :
          data'[c][r] = IF r = First(todo[c]) THEN Content(reader[c]) ELSE data[c][r]
    BY <1>11 DEF TypeOK, Data, ListRead
  <2>5. /\ pc'[c] = "list"
        /\ todo'[c] = todo[c] \ {First(todo[c])}
        /\ listing'[c] = "no"
    BY <1>11 DEF TypeOK, ReflectorsTypeOK, ListRead, ReadStore
  <2>6. \A r \in Resources : data'[c][r] # NoSnapshot <=> r \in Key[c] \ todo'[c]
    BY <1>1, <1>11, <2>1, <2>3, <2>4, <2>5, NoneAssumption DEF P, ListRead
  <2>7. QED
    BY <1>1, <2>1, <2>5, <2>6 DEF P
<1>12. CASE (\E i \in Ids : WatcherStep(i)) \/ ClusterStep \/ UNCHANGED vars
  <2>1. UNCHANGED <<cacheVars, listing, reader>>
    BY <1>12, Zenon
    DEF WatcherStep, WatcherSees, ApplyWatcherEvent, ClusterStep, ClusterChanges,
        vars, reflectorVars
  <2>2. QED
    BY <1>2, <2>1 DEF cacheVars
<1>13. QED
  BY <1>3, <1>5, <1>6, <1>7, <1>8, <1>9, <1>10, <1>11, <1>12 DEF Next, CallerProgress

\* Registered reflectors, and those that are read, stay ready.
LEMMA ReadersStep == TypeOK /\ CallerInv /\ ReadersAreReady /\ [Next]_vars => ReadersAreReady'
<1> DEFINE Registered(r) ==
      registered[r] # 0 => pool[registered[r]].ready /\ pool[registered[r]].resource = r
    Reading(c) == listing[c] = "reading" => pool[reader[c]].ready
<1> SUFFICES ASSUME TypeOK, CallerInv, ReadersAreReady, [Next]_vars
             PROVE  /\ \A r \in Resources : Registered(r)'
                    /\ \A c \in Callers : Reading(c)'
  BY DEF ReadersAreReady
<1>1. \A r \in Resources : Registered(r) /\ registered[r] \in 0..created
  BY DEF TypeOK, ReflectorsTypeOK, ReadersAreReady
<1>2. \A c \in Callers : Reading(c) /\ (listing[c] # "no" => reader[c] \in 1..created)
  BY DEF CallerInv, ReadersAreReady
<1>3. created \in Nat
  BY BoundsAssumption DEF TypeOK, ReflectorsTypeOK
<1>4. ASSUME NEW r \in Resources, registered'[r] = registered[r] PROVE Registered(r)'
  BY <1>1, <1>3, <1>4, PoolStep
<1>5. ASSUME NEW c \in Callers, listing'[c] = listing[c], reader'[c] = reader[c]
      PROVE  Reading(c)'
  BY <1>2, <1>5, PoolStep
<1>6. CASE UNCHANGED <<registered, listing, reader>>
  BY <1>4, <1>5, <1>6
<1>7. ASSUME NEW d \in Callers, ListResource(d)
      PROVE  (\A r \in Resources : Registered(r)') /\ (\A c \in Callers : Reading(c)')
  <2>1. UNCHANGED registered
    BY <1>7, Zenon DEF ListResource, LookUp, CreateAndRun
  <2>2. First(todo[d]) \in Resources
    BY <1>7, FirstIsMember DEF TypeOK, ListResource
  <2>3. \A c \in Callers : c # d => listing'[c] = listing[c] /\ reader'[c] = reader[c]
    BY <1>7 DEF TypeOK, ReflectorsTypeOK, ListResource, LookUp, CreateAndRun
  <2>4. Reading(d)'
    <3>1. CASE registered[First(todo[d])] # 0
      BY <1>1, <1>7, <2>2, <3>1 DEF TypeOK, ReflectorsTypeOK, ListResource, LookUp
    <3>2. CASE registered[First(todo[d])] = 0
      BY <1>7, <3>2 DEF TypeOK, ReflectorsTypeOK, ListResource, LookUp, CreateAndRun
    <3>3. QED
      BY <3>1, <3>2
  <2>5. QED
    BY <1>4, <1>5, <2>1, <2>3, <2>4
<1>8. ASSUME NEW d \in Callers, ListWaited(d)
      PROVE  (\A r \in Resources : Registered(r)') /\ (\A c \in Callers : Reading(c)')
  <2>1. /\ UNCHANGED <<pool, reader>>
        /\ pool[reader[d]].ready
        /\ pool[reader[d]].resource = First(todo[d])
    BY <1>8 DEF ListWaited, ReflectorReady, CallerInv
  <2>2. \A r \in Resources :
          registered'[r] = IF r = First(todo[d]) THEN reader[d] ELSE registered[r]
    BY <1>8 DEF TypeOK, ReflectorsTypeOK, ListWaited, ReflectorReady
  <2>3. \A c \in Callers : c # d => listing'[c] = listing[c]
    BY <1>8 DEF TypeOK, ReflectorsTypeOK, ListWaited, ReflectorReady
  <2>4. QED
    BY <1>1, <1>2, <2>1, <2>2, <2>3
<1>9. ASSUME NEW d \in Callers, ListRead(d)
      PROVE  (\A r \in Resources : Registered(r)') /\ (\A c \in Callers : Reading(c)')
  <2>1. /\ UNCHANGED registered
        /\ listing'[d] = "no"
        /\ \A c \in Callers : c # d => listing'[c] = listing[c] /\ reader'[c] = reader[c]
    BY <1>9 DEF TypeOK, ReflectorsTypeOK, ListRead, ReadStore
  <2>2. QED
    BY <1>4, <1>5, <2>1
<1>10. ASSUME NEW c \in Callers, Begin(c) \/ CheckResource(c) \/ ServeCached(c)
                                 \/ StartInventory(c) \/ FinishList(c) \/ Fail(c)
       PROVE  UNCHANGED <<registered, listing, reader>>
  BY <1>10, Zenon
  DEF Begin, CheckResource, ServeCached, StartInventory, FinishList, Fail, reflectorVars
<1>11. (\E i \in Ids : WatcherStep(i)) \/ ClusterStep \/ UNCHANGED vars =>
         UNCHANGED <<registered, listing, reader>>
  BY Zenon
  DEF WatcherStep, WatcherSees, ApplyWatcherEvent, ClusterStep, ClusterChanges,
      vars, reflectorVars
<1>12. QED
  BY <1>6, <1>7, <1>8, <1>9, <1>10, <1>11 DEF Next, CallerProgress

\* The cache changes only when a caller has listed everything.
LEMMA CacheCases ==
  ASSUME TypeOK, [Next]_vars
  PROVE  \/ UNCHANGED inventories
         \/ \E c \in Callers :
              FinishList(c) /\ c \in Gatekeeper /\ Key[c] \in Keys
              /\ inventories' = [inventories EXCEPT ![Key[c]] =
                                   [time |-> since[c], data |-> data[c]]]
<1>1. ASSUME NEW c \in Callers, Begin(c) \/ CheckResource(c) \/ ServeCached(c)
                                \/ StartInventory(c) \/ ListRead(c) \/ Fail(c)
      PROVE  UNCHANGED inventories
  BY <1>1, Zenon
  DEF Begin, CheckResource, ServeCached, StartInventory, ListRead, Fail
<1>2. ASSUME NEW c \in Callers, ListResource(c) \/ ListWaited(c)
      PROVE  UNCHANGED inventories
  BY <1>2, Zenon DEF ListResource, ListWaited, cacheVars
<1>3. (\E i \in Ids : WatcherStep(i)) \/ ClusterStep \/ UNCHANGED vars =>
        UNCHANGED inventories
  BY Zenon DEF WatcherStep, ClusterStep, vars, cacheVars
<1>4. ASSUME NEW c \in Callers, FinishList(c)
      PROVE  \/ UNCHANGED inventories
             \/ c \in Gatekeeper /\ Key[c] \in Keys
                /\ inventories' = [inventories EXCEPT ![Key[c]] =
                                     [time |-> since[c], data |-> data[c]]]
  BY <1>4 DEF FinishList, Keys
<1>5. QED
  BY <1>1, <1>2, <1>3, <1>4 DEF Next, CallerProgress

\* What is inserted was listed to the end.
LEMMA PartialStep ==
  TypeOK /\ CallerInv /\ NoPartialInventory /\ [Next]_vars => NoPartialInventory'
<1> SUFFICES ASSUME TypeOK, CallerInv, NoPartialInventory, [Next]_vars
             PROVE  NoPartialInventory'
  OBVIOUS
<1>1. CASE UNCHANGED inventories
  BY <1>1 DEF NoPartialInventory
<1>2. ASSUME NEW c \in Callers, FinishList(c), Key[c] \in Keys,
             inventories' = [inventories EXCEPT ![Key[c]] =
                               [time |-> since[c], data |-> data[c]]]
      PROVE  NoPartialInventory'
  <2>1. \A r \in Resources : data[c][r] # NoSnapshot <=> r \in Key[c]
    BY <1>2 DEF CallerInv, FinishList
  <2>2. \A k \in Keys :
          inventories'[k] = IF k = Key[c] THEN [time |-> since[c], data |-> data[c]]
                                          ELSE inventories[k]
    BY <1>2 DEF TypeOK
  <2>3. QED
    BY <2>1, <2>2 DEF NoPartialInventory
<1>3. QED
  BY <1>1, <1>2, CacheCases

\* What becomes of the time and the data on a caller's stack.
LEMMA StackCases ==
  ASSUME TypeOK, CallerInv, InstantsInv, [Next]_vars, NEW c \in Callers
  PROVE  \/ since'[c] = since[c] /\ data'[c] = data[c]
         \/ since'[c] = since[c] /\ ListRead(c)
         \/ since'[c] <= clock' /\ data'[c] = NoData
<1>1. clock \in Nat
  BY DEF TypeOK, ReflectorsTypeOK
<1>2. CASE Begin(c)
  <2>1. data'[c] = NoData /\ clock' = clock
    BY <1>2 DEF CallerInv, Begin, reflectorVars
  <2>2. since'[c] = since[c] \/ since'[c] = inventories[Key[c]].time
    BY <1>2 DEF TypeOK, Begin
  <2>3. since'[c] <= clock
    BY <1>2, <2>2, KeyAssumption DEF TypeOK, InstantsInv, Begin, Keys
  <2>4. QED
    BY <2>1, <2>3
<1>3. CASE StartInventory(c)
  BY <1>1, <1>3 DEF TypeOK, CallerInv, StartInventory, Tick, Now
<1>4. CASE ServeCached(c) \/ FinishList(c) \/ Fail(c)
  BY <1>1, <1>4 DEF TypeOK, ServeCached, FinishList, Fail, Finish, reflectorVars
<1>5. CASE ListRead(c)
  BY <1>5 DEF ListRead
<1>6. CASE CheckResource(c) \/ ListResource(c) \/ ListWaited(c)
  BY <1>6, Zenon DEF CheckResource, ListResource, ListWaited, cacheVars
<1>7. ASSUME NEW d \in Callers, d # c, Begin(d) \/ CallerProgress(d)
      PROVE  since'[c] = since[c] /\ data'[c] = data[c]
  <2>1. CASE Begin(d) \/ CheckResource(d) \/ ServeCached(d) \/ StartInventory(d)
    BY <1>7, <2>1
    DEF TypeOK, Begin, CheckResource, ServeCached, StartInventory, Finish
  <2>2. CASE ListResource(d) \/ ListWaited(d)
    BY <2>2, Zenon DEF ListResource, ListWaited, cacheVars
  <2>3. CASE ListRead(d) \/ FinishList(d) \/ Fail(d)
    BY <1>7, <2>3 DEF TypeOK, ListRead, FinishList, Fail, Finish
  <2>4. QED
    BY <1>7, <2>1, <2>2, <2>3 DEF CallerProgress
<1>8. (\E i \in Ids : WatcherStep(i)) \/ ClusterStep \/ UNCHANGED vars =>
        UNCHANGED <<since, data>>
  BY Zenon DEF WatcherStep, ClusterStep, vars, cacheVars
<1>9. QED
  BY <1>2, <1>3, <1>4, <1>5, <1>6, <1>7, <1>8 DEF Next, CallerProgress

\* Instants are read off a clock that only advances.
LEMMA InstantsStep == TypeOK /\ CallerInv /\ InstantsInv /\ [Next]_vars => InstantsInv'
<1> SUFFICES ASSUME TypeOK, CallerInv, InstantsInv, [Next]_vars PROVE InstantsInv'
  OBVIOUS
<1>1. clock \in Nat /\ (\A i \in Ids : pool[i] \in Reflector)
  BY DEF TypeOK, ReflectorsTypeOK
<1>2. clock' \in {clock, clock + 1} /\ (\A i \in Ids : pool'[i].last <= clock')
  <2>1. CASE UNCHANGED <<created, pool>> /\ clock' \in {clock, clock + 1}
    BY <1>1, <2>1 DEF InstantsInv, Reflector
  <2>2. ASSUME NEW c \in Callers, NEW r \in Resources, CreateAndRun(c, r)
        PROVE  clock' = clock + 1 /\ (\A i \in Ids : pool'[i].last <= clock')
    BY <1>1, <2>2
    DEF InstantsInv, TypeOK, ReflectorsTypeOK, Reflector, CreateAndRun, Tick, Now
  <2>3. ASSUME NEW j \in Ids, ApplyWatcherEvent(j)
        PROVE  clock' = clock /\ (\A i \in Ids : pool'[i].last <= clock')
    BY <1>1, <2>3
    DEF InstantsInv, TypeOK, ReflectorsTypeOK, Reflector, ApplyWatcherEvent
  <2>4. ASSUME NEW j \in Ids, WatcherSees(j)
        PROVE  clock' = clock + 1 /\ (\A i \in Ids : pool'[i].last <= clock')
    <3>1. PICK v : pool' = [pool EXCEPT ![j].last = Now, ![j].inflight = v]
      BY <2>4, Zenon DEF WatcherSees
    <3>2. pool' = [pool EXCEPT ![j] = [pool[j] EXCEPT !.last = Now, !.inflight = v]]
      BY <3>1, Zenon DEF TypeOK, ReflectorsTypeOK
    <3>3. clock' = clock + 1
      BY <2>4, Zenon DEF WatcherSees, Tick
    <3>4. QED
      BY <1>1, <3>2, <3>3 DEF InstantsInv, TypeOK, ReflectorsTypeOK, Reflector, Now
  <2>5. QED
    BY <2>1, <2>2, <2>3, <2>4, PoolCases
<1>3. \A k \in Keys : inventories[k] # NoEntry => inventories[k].time \in Nat
  BY DEF TypeOK, Entry
<1>4. \A c \in Callers : since'[c] <= clock'
  <2>1. \A c \in Callers : since[c] \in Nat /\ since[c] <= clock
    BY DEF TypeOK, InstantsInv
  <2>2. QED
    BY <1>1, <1>2, <2>1, StackCases
<1>5. \A k \in Keys : inventories'[k] # NoEntry => inventories'[k].time <= clock'
  <2>1. CASE UNCHANGED inventories
    BY <1>1, <1>2, <1>3, <2>1 DEF InstantsInv
  <2>2. ASSUME NEW c \in Callers, Key[c] \in Keys,
               inventories' = [inventories EXCEPT ![Key[c]] =
                                 [time |-> since[c], data |-> data[c]]]
        PROVE  \A k \in Keys : inventories'[k] # NoEntry => inventories'[k].time <= clock'
    BY <1>1, <1>2, <1>3, <2>2 DEF TypeOK, InstantsInv
  <2>3. QED
    BY <2>1, <2>2, CacheCases
<1>6. QED
  BY <1>2, <1>4, <1>5 DEF InstantsInv

\* A snapshot stays almost complete: the first event after the store was read
\* may already be counted, and the next one is stamped with a later instant.
LEMMA AlmostCompleteStep ==
  ASSUME TypeOK, [Next]_vars, NEW snapshot \in Snapshot, NEW time \in Nat,
         time <= clock, AlmostComplete(snapshot, time)
  PROVE  AlmostComplete(snapshot, time)'
<1> DEFINE i == snapshot.reflector
<1>1. i \in Ids /\ pool[i] \in Reflector /\ snapshot.events \in Nat /\ clock \in Nat
  BY DEF TypeOK, ReflectorsTypeOK, Snapshot
<1> HIDE DEF i
<1>2. AlmostComplete(snapshot, time) <=> (pool[i].last <= time => Told(i) <= snapshot.events + 1)
  BY DEF AlmostComplete, i
<1>3. AlmostComplete(snapshot, time)' <=>
        (pool'[i].last <= time => Told(i)' <= snapshot.events + 1)
  BY DEF AlmostComplete, i
<1>4. CASE pool'[i] = pool[i]
  BY <1>2, <1>3, <1>4 DEF Told
<1>5. CASE pool'[i].last = clock + 1
  BY <1>1, <1>3, <1>5
<1>6. ASSUME NEW c \in Callers, NEW r \in Resources, CreateAndRun(c, r)
      PROVE  pool'[i] = pool[i] \/ pool'[i].last = clock + 1
  BY <1>1, <1>6 DEF TypeOK, ReflectorsTypeOK, CreateAndRun, Now
<1>7. ASSUME NEW j \in Ids, WatcherSees(j)
      PROVE  pool'[i] = pool[i] \/ pool'[i].last = clock + 1
  <2>1. PICK v : pool' = [pool EXCEPT ![j].last = Now, ![j].inflight = v]
    BY <1>7, Zenon DEF WatcherSees
  <2>2. pool' = [pool EXCEPT ![j] = [pool[j] EXCEPT !.last = Now, !.inflight = v]]
    BY <2>1, Zenon DEF TypeOK, ReflectorsTypeOK
  <2>3. QED
    BY <1>1, <2>2 DEF TypeOK, ReflectorsTypeOK, Reflector, Now
<1>8. ASSUME NEW j \in Ids, ApplyWatcherEvent(j)
      PROVE  pool'[i].last = pool[i].last /\ Told(i)' = Told(i)
  BY <1>1, <1>8, NoEventAssumption
  DEF TypeOK, ReflectorsTypeOK, Reflector, ApplyWatcherEvent, Told
<1>9. QED
  BY <1>2, <1>3, <1>4, <1>5, <1>6, <1>7, <1>8, PoolCases

\* Snapshots on the stacks and in the cache.
LEMMA SnapshotsStep ==
  TypeOK /\ CallerInv /\ InstantsInv /\ SnapshotsInv /\ [Next]_vars => SnapshotsInv'
<1> SUFFICES ASSUME TypeOK, CallerInv, InstantsInv, SnapshotsInv, [Next]_vars
             PROVE  SnapshotsInv'
  OBVIOUS
<1>1. ASSUME NEW c \in Callers, NEW r \in Resources, data'[c][r] # NoSnapshot
      PROVE  AlmostComplete(data[c][r], since[c])'
  <2>1. CASE since'[c] = since[c] /\ data'[c][r] = data[c][r]
    <3>1. data[c][r] \in Snapshot /\ since[c] \in Nat /\ since[c] <= clock
      BY <1>1, <2>1 DEF TypeOK, Data, InstantsInv
    <3>2. AlmostComplete(data[c][r], since[c])
      BY <1>1, <2>1 DEF SnapshotsInv
    <3>3. PICK snapshot \in Snapshot, time \in Nat :
            snapshot = data[c][r] /\ time = since[c]
      BY <3>1
    <3>4. AlmostComplete(snapshot, time)'
      BY <3>1, <3>2, <3>3, AlmostCompleteStep
    <3>5. QED
      BY <2>1, <3>3, <3>4 DEF AlmostComplete, Told
  <2>2. CASE data'[c] = NoData
    BY <1>1, <2>2 DEF NoData
  <2>3. CASE since'[c] = since[c] /\ ListRead(c) /\ data'[c][r] # data[c][r]
    <3>1. data'[c][r] = Content(reader[c])
      BY <2>3 DEF TypeOK, Data, ListRead
    <3>2. UNCHANGED pool
      BY <2>3 DEF ListRead, ReadStore
    <3>3. reader[c] \in Ids
      BY <2>3, BoundsAssumption DEF TypeOK, ReflectorsTypeOK, CallerInv, ListRead, Ids
    <3>4. pool[reader[c]].events \in Nat
      BY <3>3 DEF TypeOK, ReflectorsTypeOK, Reflector
    <3>5. QED
      BY <3>1, <3>2, <3>4 DEF AlmostComplete, Content, Told
  <2>4. QED
    BY <2>1, <2>2, <2>3, StackCases
<1>2. ASSUME NEW k \in Keys, NEW r \in Resources,
             inventories'[k] # NoEntry, inventories'[k].data[r] # NoSnapshot
      PROVE  AlmostComplete(inventories[k].data[r], inventories[k].time)'
  <2>1. ASSUME NEW snapshot, NEW time, snapshot # NoSnapshot,
               snapshot \in Snapshot \cup {NoSnapshot}, time \in Nat, time <= clock,
               AlmostComplete(snapshot, time)
        PROVE  AlmostComplete(snapshot, time)'
    BY <2>1, AlmostCompleteStep
  <2>2. CASE inventories'[k] = inventories[k]
    <3>1. PICK snapshot, time : snapshot = inventories[k].data[r] /\ time = inventories[k].time
      OBVIOUS
    <3>2. snapshot \in Snapshot \cup {NoSnapshot} /\ time \in Nat /\ time <= clock
      BY <1>2, <2>2, <3>1 DEF TypeOK, Entry, Data, InstantsInv
    <3>3. AlmostComplete(snapshot, time)
      BY <1>2, <2>2, <3>1 DEF SnapshotsInv
    <3>4. AlmostComplete(snapshot, time)'
      BY <1>2, <2>1, <2>2, <3>1, <3>2, <3>3
    <3>5. QED
      BY <2>2, <3>1, <3>4 DEF AlmostComplete, Told
  <2>3. ASSUME NEW c \in Callers,
               inventories'[k] = [time |-> since[c], data |-> data[c]]
        PROVE  AlmostComplete(inventories[k].data[r], inventories[k].time)'
    <3>1. PICK snapshot, time : snapshot = data[c][r] /\ time = since[c]
      OBVIOUS
    <3>2. snapshot \in Snapshot \cup {NoSnapshot} /\ time \in Nat /\ time <= clock
      BY <3>1 DEF TypeOK, Data, InstantsInv
    <3>3. snapshot # NoSnapshot /\ AlmostComplete(snapshot, time)
      BY <1>2, <2>3, <3>1 DEF SnapshotsInv
    <3>4. AlmostComplete(snapshot, time)'
      BY <2>1, <3>2, <3>3
    <3>5. QED
      BY <2>3, <3>1, <3>4 DEF AlmostComplete, Told
  <2>4. inventories \in [Keys -> Entry \cup {NoEntry}]
    BY DEF TypeOK
  <2>5. QED
    BY <2>2, <2>3, <2>4, CacheCases
<1>3. QED
  BY <1>1, <1>2 DEF SnapshotsInv

IInv ==
  /\ TypeOK
  /\ CallerInv
  /\ ReadersAreReady
  /\ NoPartialInventory
  /\ InstantsInv
  /\ SnapshotsInv

\* The inductive invariant holds in every reachable state.
THEOREM Invariance == Spec => []IInv
<1>1. Init => IInv
  <2> SUFFICES ASSUME Init PROVE IInv
    OBVIOUS
  <2>1. NoData \in Data
    BY DEF NoData, Data
  <2>2. PICK r \in Resources :
          pool = [i \in Ids |-> [resource |-> r, ready |-> FALSE, events |-> 0,
                                 version |-> 0, last |-> 0, inflight |-> NoEvent]]
    BY DEF Init, ReflectorsInit
  <2>3. pool \in [Ids -> Reflector]
    BY <2>2 DEF Reflector
  <2>4. ReflectorsTypeOK
    <3>1. created \in 0..MaxReflectors /\ 0 \in 0..created
      BY BoundsAssumption DEF Init, ReflectorsInit
    <3>2. QED
      BY <2>3, <3>1 DEF Init, ReflectorsInit, ReflectorsTypeOK
  <2>5. TypeOK
    BY <2>1, <2>4, KeyAssumption DEF Init, TypeOK
  <2>6. CallerInv /\ NoPartialInventory /\ ReadersAreReady
    BY DEF Init, ReflectorsInit, CallerInv, NoPartialInventory, ReadersAreReady
  <2>7. InstantsInv
    BY <2>2 DEF Init, ReflectorsInit, InstantsInv
  <2>8. SnapshotsInv
    BY DEF Init, SnapshotsInv, NoData
  <2>9. QED
    BY <2>5, <2>6, <2>7, <2>8 DEF IInv
<1>2. IInv /\ [Next]_vars => IInv'
  BY TypeStep, CallerStep, ReadersStep, PartialStep, InstantsStep, SnapshotsStep DEF IInv
<1>3. QED
  BY <1>1, <1>2, PTL DEF Spec

\* Every variable keeps its type.
THEOREM TypeCorrect == Spec => []TypeOK
<1>1. IInv => TypeOK
  BY DEF IInv
<1>2. QED
  BY <1>1, Invariance, PTL

\* Whoever reads a store reads one that has listed its resource: get_reflector_reader
\* registers a reflector only after create_and_run has waited for it.
THEOREM Ready == Spec => []ReadersAreReady
<1>1. IInv => ReadersAreReady
  BY DEF IInv
<1>2. QED
  BY <1>1, Invariance, PTL

\* No error leaves a truncated inventory in the cache.
THEOREM NoPartial == Spec => []NoPartialInventory
<1>1. IInv => NoPartialInventory
  BY DEF IInv
<1>2. QED
  BY <1>1, Invariance, PTL

\* An inventory that passes for current lacks one event at the most of each store
\* it was read from, as long as that store's reflector has not been replaced in
\* the client's map (get_inventory, reflector_tracking_changes_instant).
THEOREM AtMostOne == Spec => []MissesAtMostOneEvent
<1>1. IInv => MissesAtMostOneEvent
  <2> SUFFICES ASSUME IInv, NEW k \in Keys, NEW r \in k, inventories[k] # NoEntry,
                      registered[r] = inventories[k].data[r].reflector,
                      ~ ChangedSince(r, inventories[k].time)
               PROVE  Told(inventories[k].data[r].reflector) <= inventories[k].data[r].events + 1
    BY DEF MissesAtMostOneEvent
  <2>1. r \in Resources
    BY KeyAssumption DEF Keys
  <2>2. inventories[k].data[r] # NoSnapshot /\ inventories[k].time \in Nat
    BY <2>1 DEF IInv, TypeOK, Entry, NoPartialInventory
  <2>3. AlmostComplete(inventories[k].data[r], inventories[k].time)
    BY <2>1, <2>2 DEF IInv, SnapshotsInv
  <2>4. registered[r] # 0 /\ registered[r] \in Ids
    BY <2>1, BoundsAssumption DEF IInv, TypeOK, ReflectorsTypeOK, ChangedSince, Ids
  <2>5. pool[registered[r]].last <= inventories[k].time
    BY <2>2, <2>4 DEF IInv, TypeOK, ReflectorsTypeOK, Reflector, ChangedSince
  <2>6. QED
    BY <2>3, <2>5 DEF AlmostComplete
<1>2. QED
  BY <1>1, Invariance, PTL

-----------------------------------------------------------------------------
(* The number of reflectors.                                               *)

\* The reflectors of a query.
Of(r) == {i \in 1..created : pool[i].resource = r}

\* The inductive invariant.  As long as nobody has registered a reflector of a
\* query, each of its reflectors still has the caller that made it waiting for it;
\* and a caller waits for one at a time.
BoundInv ==
  \A r \in Resources :
    /\ registered[r] = 0 =>
         \A i \in Of(r) : \E c \in Callers : listing[c] = "waiting" /\ reader[c] = i
    /\ Cardinality(Of(r)) <= Cardinality(Callers)

\* What each has a caller of its own is not more than the callers.
LEMMA NotMoreThanCallers ==
  ASSUME NEW F, NEW owned \in [Callers -> Int],
         \A i \in F : \E c \in Callers : owned[c] = i
  PROVE  Cardinality(F) <= Cardinality(Callers)
<1> DEFINE owners == {c \in Callers : owned[c] \in F}
<1> DEFINE f == [c \in owners |-> owned[c]]
<1>1. IsFiniteSet(owners) /\ Cardinality(owners) <= Cardinality(Callers)
  BY CallersAssumption, FS_Subset
<1>2. f \in Surjection(owners, F)
  BY DEF Surjection
<1>3. IsFiniteSet(F) /\ Cardinality(F) <= Cardinality(owners)
  <2> HIDE DEF f, owners
  <2> QED
    BY <1>1, <1>2, FS_Surjection
<1>4. Cardinality(F) \in Nat /\ Cardinality(owners) \in Nat /\ Cardinality(Callers) \in Nat
  BY <1>1, <1>3, CallersAssumption, FS_CardinalityType
<1> HIDE DEF owners
<1>5. QED
  BY <1>1, <1>3, <1>4

\* A caller starts a reflector only where none is registered.
LEMMA OfACreation ==
  ASSUME TypeOK, BoundInv, NEW d \in Callers, NEW q \in Resources,
         listing[d] = "no", registered[q] = 0, CreateAndRun(d, q)
  PROVE  BoundInv'
<1>1. /\ created \in Nat /\ created + 1 \in Ids /\ created + 1 \notin 1..created
      /\ created' = created + 1 /\ 1..(created + 1) = (1..created) \cup {created + 1}
      /\ 1..created \subseteq Ids
  BY BoundsAssumption DEF TypeOK, ReflectorsTypeOK, CreateAndRun, Ids
<1>2. /\ pool'[created + 1].resource = q
      /\ \A i \in 1..created : pool'[i] = pool[i]
      /\ listing'[d] = "waiting" /\ reader'[d] = created + 1
      /\ \A c \in Callers : c # d => listing'[c] = listing[c] /\ reader'[c] = reader[c]
      /\ registered' = registered
      /\ reader' \in [Callers -> Int]
  BY <1>1 DEF TypeOK, ReflectorsTypeOK, CreateAndRun
<1>3. \A r \in Resources : Of(r)' = IF r = q THEN Of(r) \cup {created + 1} ELSE Of(r)
  BY <1>1, <1>2 DEF Of
<1>4. ASSUME NEW r \in Resources, registered[r] = 0, NEW i \in Of(r)
      PROVE  \E c \in Callers : listing'[c] = "waiting" /\ reader'[c] = i
  <2>1. PICK c \in Callers : listing[c] = "waiting" /\ reader[c] = i
    BY <1>4 DEF BoundInv
  <2>2. c # d
    BY <2>1
  <2>3. QED
    BY <1>2, <2>1, <2>2
<1>5. \A i \in Of(q)' : \E c \in Callers : listing'[c] = "waiting" /\ reader'[c] = i
  BY <1>2, <1>3, <1>4
<1>6. Cardinality(Of(q)') <= Cardinality(Callers)
  BY <1>2, <1>5, NotMoreThanCallers
<1>7. ASSUME NEW r \in Resources
      PROVE  /\ registered'[r] = 0 =>
                  \A i \in Of(r)' : \E c \in Callers : listing'[c] = "waiting" /\ reader'[c] = i
             /\ Cardinality(Of(r)') <= Cardinality(Callers)
  <2>1. CASE r = q
    BY <1>5, <1>6, <2>1
  <2>2. CASE r # q
    BY <1>2, <1>3, <1>4, <2>2 DEF BoundInv
  <2>3. QED
    BY <2>1, <2>2
<1>8. QED
  BY <1>7 DEF BoundInv

\* Without a new reflector, a caller stops waiting only to register.
LEMMA OfNoCreation ==
  ASSUME TypeOK, BoundInv, [Next]_vars, created' = created,
         \A r \in Resources : registered'[r] = 0 =>
           /\ registered[r] = 0
           /\ \A c \in Callers : listing[c] = "waiting" /\ reader[c] \in Of(r) =>
                listing'[c] = "waiting" /\ reader'[c] = reader[c]
  PROVE  BoundInv'
<1>1. \A r \in Resources : Of(r)' = Of(r)
  BY PoolStep DEF Of
<1>2. ASSUME NEW r \in Resources
      PROVE  /\ registered'[r] = 0 =>
                  \A i \in Of(r)' : \E c \in Callers : listing'[c] = "waiting" /\ reader'[c] = i
             /\ Cardinality(Of(r)') <= Cardinality(Callers)
  <2>1. Cardinality(Of(r)') <= Cardinality(Callers)
    BY <1>1 DEF BoundInv
  <2>2. ASSUME registered'[r] = 0, NEW i \in Of(r)
        PROVE  \E c \in Callers : listing'[c] = "waiting" /\ reader'[c] = i
    <3>1. PICK c \in Callers : listing[c] = "waiting" /\ reader[c] = i
      BY <2>2 DEF BoundInv
    <3>2. QED
      BY <2>2, <3>1
  <2>3. QED
    BY <1>1, <2>1, <2>2
<1>3. QED
  BY <1>2 DEF BoundInv

LEMMA BoundStep == TypeOK /\ CallerInv /\ BoundInv /\ [Next]_vars => BoundInv'
<1> SUFFICES ASSUME TypeOK, CallerInv, BoundInv, [Next]_vars
             PROVE  BoundInv'
  OBVIOUS
<1>1. CASE UNCHANGED <<created, registered, listing, reader>>
  BY <1>1, OfNoCreation
<1>2. ASSUME NEW d \in Callers, ListResource(d)
      PROVE  BoundInv'
  <2> DEFINE q == First(todo[d])
  <2>1. q \in Resources /\ listing[d] = "no"
    BY <1>2, FirstIsMember DEF TypeOK, ListResource, LookUp
  <2>2. CASE registered[q] = 0
    BY <1>2, <2>1, <2>2, OfACreation DEF ListResource, LookUp
  <2>3. CASE registered[q] # 0
    <3>1. /\ UNCHANGED <<created, registered>>
          /\ \A c \in Callers : c # d => listing'[c] = listing[c] /\ reader'[c] = reader[c]
      BY <1>2, <2>3 DEF TypeOK, ReflectorsTypeOK, ListResource, LookUp
    <3>2. QED
      BY <2>1, <3>1, OfNoCreation
  <2>4. QED
    BY <2>2, <2>3
<1>3. ASSUME NEW d \in Callers, ListWaited(d)
      PROVE  BoundInv'
  <2> DEFINE q == First(todo[d])
  <2>1. /\ reader[d] \in 1..created /\ pool[reader[d]].resource = q
        /\ created \in Nat
    BY <1>3 DEF CallerInv, ListWaited, ReflectorReady, TypeOK, ReflectorsTypeOK
  <2>2. /\ UNCHANGED <<created, reader>>
        /\ registered' = [registered EXCEPT ![q] = reader[d]]
        /\ \A c \in Callers : c # d => listing'[c] = listing[c]
    BY <1>3 DEF TypeOK, ReflectorsTypeOK, ListWaited, ReflectorReady
  <2>3. ASSUME NEW r \in Resources, registered'[r] = 0
        PROVE  r # q /\ registered[r] = 0
    BY <2>1, <2>2, <2>3 DEF TypeOK, ReflectorsTypeOK
  <2>4. ASSUME NEW r \in Resources, r # q
        PROVE  reader[d] \notin Of(r)
    BY <2>1, <2>4 DEF Of
  <2>5. QED
    BY <2>2, <2>3, <2>4, OfNoCreation
<1>4. ASSUME NEW d \in Callers, ListRead(d)
      PROVE  BoundInv'
  <2>1. /\ listing[d] = "reading" /\ UNCHANGED <<created, registered>>
        /\ \A c \in Callers : c # d => listing'[c] = listing[c] /\ reader'[c] = reader[c]
    BY <1>4 DEF TypeOK, ReflectorsTypeOK, ListRead, ReadStore
  <2>2. QED
    BY <2>1, OfNoCreation
<1>5. ASSUME NEW c \in Callers, Begin(c) \/ CheckResource(c) \/ ServeCached(c)
                                \/ StartInventory(c) \/ FinishList(c) \/ Fail(c)
      PROVE  UNCHANGED <<created, registered, listing, reader>>
  BY <1>5, Zenon
  DEF Begin, CheckResource, ServeCached, StartInventory, FinishList, Fail, reflectorVars
<1>6. (\E i \in Ids : WatcherStep(i)) \/ ClusterStep \/ UNCHANGED vars =>
        UNCHANGED <<created, registered, listing, reader>>
  BY Zenon
  DEF WatcherStep, WatcherSees, ApplyWatcherEvent, ClusterStep, ClusterChanges,
      vars, reflectorVars
<1>7. QED
  BY <1>1, <1>2, <1>3, <1>4, <1>5, <1>6 DEF Next, CallerProgress

\* However many first lists of a query race, no more reflectors of it are ever
\* started than there are callers (get_reflector_reader, create_and_run).
THEOREM Bounded == Spec => []ReflectorsBoundedByCallers
<1>1. Init => BoundInv
  <2> SUFFICES ASSUME Init, NEW r \in Resources
               PROVE  Of(r) = {} /\ Cardinality(Of(r)) <= Cardinality(Callers)
    BY DEF BoundInv
  <2>1. Of(r) = {}
    BY DEF Init, ReflectorsInit, Of
  <2>2. Cardinality(Of(r)) = 0 /\ Cardinality(Callers) \in Nat
    BY <2>1, CallersAssumption, FS_EmptySet, FS_CardinalityType
  <2>3. QED
    BY <2>1, <2>2
<1>2. BoundInv => ReflectorsBoundedByCallers
  BY DEF BoundInv, ReflectorsBoundedByCallers, Of
<1>3. IInv => TypeOK /\ CallerInv
  BY DEF IInv
<1>4. QED
  BY <1>1, <1>2, <1>3, BoundStep, Invariance, PTL DEF Spec
=============================================================================

---------------------------- MODULE InventoryCache ----------------------------
(***************************************************************************)
(* The Rego runtimes hand Kubernetes data to their policies.  An OPA       *)
(* policy lists its resources at every evaluation; Gatekeeper policies     *)
(* share a process-wide cache of inventories, one per set of resources,    *)
(* and rebuild an inventory when a resource of it has changed.             *)
(*                                                                         *)
(* Every question goes through the callback channel (CallbackHandler.tla)  *)
(* and may fail there.                                                     *)
(*                                                                         *)
(* Sources: runtimes/rego/gatekeeper_inventory_cache.rs,                   *)
(* runtimes/rego/context_aware.rs.                                         *)
(***************************************************************************)
EXTENDS KubernetesReflectors

CONSTANTS
  Gatekeeper,  \* the callers that evaluate a Gatekeeper policy; the others use OPA
  Key,         \* caller -> the resources its policy may read
  MaxCalls,    \* bound: evaluations
  NoEntry, NoSnapshot

ASSUME KeyAssumption ==
  /\ Gatekeeper \subseteq Callers
  /\ Key \in [Callers -> SUBSET Resources]
  /\ MaxCalls \in Nat

Keys == { Key[c] : c \in Callers }

\* An inventory: what was read of each resource, and CachedInventory.cache_time.
Data == [Resources -> Snapshot \cup {NoSnapshot}]
Entry == [time : Nat, data : Data]
NoData == [r \in Resources |-> NoSnapshot]

ASSUME NoneAssumption == NoEntry \notin Entry /\ NoSnapshot \notin Snapshot

VARIABLES
  inventories,  \* GATEKEEPER_INVENTORY_CACHE
  pc,           \* where a caller is
  todo,         \* resources left in its current loop
  since,        \* cache_time of the entry it checks, or of the one it builds
  data,         \* what it has listed so far
  calls         \* evaluations begun

cacheVars == <<inventories, pc, todo, since, data, calls>>
vars == <<reflectorVars, cacheVars>>

TypeOK ==
  /\ ReflectorsTypeOK
  /\ inventories \in [Keys -> Entry \cup {NoEntry}]
  /\ pc \in [Callers -> {"idle", "check", "create", "list"}]
  /\ todo \in [Callers -> SUBSET Resources]
  /\ since \in [Callers -> Nat]
  /\ data \in [Callers -> Data]
  /\ calls \in 0..MaxCalls

Init ==
  /\ ReflectorsInit
  /\ inventories = [k \in Keys |-> NoEntry]
  /\ pc = [c \in Callers |-> "idle"]
  /\ todo = [c \in Callers |-> {}]
  /\ since = [c \in Callers |-> 0]
  /\ data = [c \in Callers |-> NoData]
  /\ calls = 0

\* The order in which a loop visits the resources of a BTreeSet.
First(S) == CHOOSE r \in S : TRUE

\* The caller is done, or has failed; what it held on its stack is gone.
Finish(c) ==
  /\ pc' = [pc EXCEPT ![c] = "idle"]
  /\ todo' = [todo EXCEPT ![c] = {}]
  /\ since' = [since EXCEPT ![c] = 0]
  /\ data' = [data EXCEPT ![c] = NoData]
  /\ UNCHANGED calls

-----------------------------------------------------------------------------
\* get_inventory reads the cache under the read lock and releases it; an OPA
\* policy goes straight to get_allowed_resources.
Begin(c) ==
  /\ pc[c] = "idle"
  /\ calls < MaxCalls
  /\ calls' = calls + 1
  /\ \/ /\ c \notin Gatekeeper
        /\ pc' = [pc EXCEPT ![c] = "list"]
        /\ todo' = [todo EXCEPT ![c] = Key[c]]
        /\ UNCHANGED since
     \/ /\ c \in Gatekeeper
        /\ inventories[Key[c]] = NoEntry
        /\ pc' = [pc EXCEPT ![c] = "create"]
        /\ UNCHANGED <<todo, since>>
     \/ /\ c \in Gatekeeper
        /\ inventories[Key[c]] # NoEntry
        /\ pc' = [pc EXCEPT ![c] = "check"]
        /\ todo' = [todo EXCEPT ![c] = Key[c]]
        /\ since' = [since EXCEPT ![c] = inventories[Key[c]].time]
  /\ UNCHANGED <<reflectorVars, inventories, data>>

\* have_allowed_resources_changed_since_instant: the first changed resource ends
\* the loop.
CheckResource(c) ==
  /\ pc[c] = "check"
  /\ todo[c] # {}
  /\ IF ChangedSince(First(todo[c]), since[c])
     THEN /\ pc' = [pc EXCEPT ![c] = "create"]
          /\ todo' = [todo EXCEPT ![c] = {}]
     ELSE /\ todo' = [todo EXCEPT ![c] = @ \ {First(todo[c])}]
          /\ UNCHANGED pc
  /\ UNCHANGED <<reflectorVars, inventories, since, data, calls>>

\* Nothing has changed: the cached inventory is the answer.
ServeCached(c) ==
  /\ pc[c] = "check"
  /\ todo[c] = {}
  /\ Finish(c)
  /\ UNCHANGED <<reflectorVars, inventories>>

\* create_and_register_inventory takes the time before it lists anything.
StartInventory(c) ==
  /\ pc[c] = "create"
  /\ Tick
  /\ since' = [since EXCEPT ![c] = Now]
  /\ todo' = [todo EXCEPT ![c] = Key[c]]
  /\ pc' = [pc EXCEPT ![c] = "list"]
  /\ UNCHANGED <<cluster, created, pool, registered, listing, reader,
                 inventories, data, calls>>

ListResource(c) ==
  /\ pc[c] = "list"
  /\ todo[c] # {}
  /\ LookUp(c, First(todo[c]))
  /\ UNCHANGED cacheVars

ListWaited(c) ==
  /\ pc[c] = "list"
  /\ ReflectorReady(c, First(todo[c]))
  /\ UNCHANGED cacheVars

ListRead(c) ==
  /\ pc[c] = "list"
  /\ listing[c] = "reading"
  /\ data' = [data EXCEPT ![c] = [@ EXCEPT ![First(todo[c])] = Content(reader[c])]]
  /\ todo' = [todo EXCEPT ![c] = @ \ {First(todo[c])}]
  /\ ReadStore(c)
  /\ UNCHANGED <<inventories, pc, since, calls>>

\* A slip: the inventory is stamped when it is registered.
FinishListStampedLate(c) ==
  /\ pc[c] = "list"
  /\ listing[c] = "no"
  /\ todo[c] = {}
  /\ inventories' =
       IF c \in Gatekeeper
       THEN [inventories EXCEPT ![Key[c]] = [time |-> clock, data |-> data[c]]]
       ELSE inventories
  /\ Finish(c)
  /\ UNCHANGED reflectorVars

\* All is listed.  A Gatekeeper inventory replaces whatever the cache holds by
\* now under its key.
FinishList(c) ==
  /\ pc[c] = "list"
  /\ listing[c] = "no"
  /\ todo[c] = {}
  /\ inventories' =
       IF c \in Gatekeeper
       THEN [inventories EXCEPT ![Key[c]] = [time |-> since[c], data |-> data[c]]]
       ELSE inventories
  /\ Finish(c)
  /\ UNCHANGED reflectorVars

\* A slip: what was listed before the error is cached.
FailKeepingListed(c) ==
  /\ pc[c] = "list" \/ (pc[c] = "check" /\ todo[c] # {})
  /\ listing[c] = "no"
  /\ inventories' =
       IF c \in Gatekeeper /\ pc[c] = "list"
       THEN [inventories EXCEPT ![Key[c]] = [time |-> since[c], data |-> data[c]]]
       ELSE inventories
  /\ Finish(c)
  /\ UNCHANGED reflectorVars

\* The question for a resource fails (the channel is full or closed, the kind
\* cannot be resolved), or the inventory cannot be made of what was listed.  The
\* evaluation ends with the error.
Fail(c) ==
  /\ pc[c] = "list" \/ (pc[c] = "check" /\ todo[c] # {})
  /\ listing[c] = "no"
  /\ Finish(c)
  /\ UNCHANGED <<reflectorVars, inventories>>

-----------------------------------------------------------------------------
CallerProgress(c) ==
  \/ CheckResource(c) \/ ServeCached(c) \/ StartInventory(c)
  \/ ListResource(c) \/ ListWaited(c) \/ ListRead(c) \/ FinishList(c) \/ Fail(c)

WatcherStep(i) == (WatcherSees(i) \/ ApplyWatcherEvent(i)) /\ UNCHANGED cacheVars

ClusterStep == (\E r \in Resources : ClusterChanges(r)) /\ UNCHANGED cacheVars

Next ==
  \/ \E c \in Callers : Begin(c) \/ CallerProgress(c)
  \/ \E i \in Ids : WatcherStep(i)
  \/ ClusterStep

\* A caller runs on; the API server answers the first list of a reflector (there
\* is no timeout: wait_until_ready waits as long as it takes).  Neither later
\* events nor changes of the cluster need ever come.
Fairness ==
  /\ \A c \in Callers : WF_vars(CallerProgress(c))
  /\ \A i \in Ids : WF_vars(~ pool[i].ready /\ WatcherStep(i))

Spec == Init /\ [][Next]_vars
FairSpec == Spec /\ Fairness

-----------------------------------------------------------------------------
(* Properties.                                                             *)

\* Events the reflector i has been told of: applied, or about to be.
Told(i) == pool[i].events + IF pool[i].inflight = NoEvent THEN 0 ELSE 1

\* An inventory that would be served, because the reflector it was read from is
\* still the registered one and reports no change since cache_time, lacks at most
\* one event of it: the one that was published but not yet applied when the store
\* was read (reflector_tracking_changes_instant sends before it applies;
\* create_and_register_inventory reads the clock before it lists).
MissesAtMostOneEvent ==
  \A k \in Keys : \A r \in k :
    inventories[k] # NoEntry =>
      LET snapshot == inventories[k].data[r] IN
        registered[r] = snapshot.reflector /\ ~ ChangedSince(r, inventories[k].time) =>
          Told(snapshot.reflector) <= snapshot.events + 1

\* A reflector that others can find, or that a caller reads, has listed its
\* resource: nobody takes a store that is still empty for an empty cluster
\* (create_and_run waits before get_reflector_reader registers).
ReadersAreReady ==
  /\ \A r \in Resources :
       registered[r] # 0 =>
         pool[registered[r]].ready /\ pool[registered[r]].resource = r
  /\ \A c \in Callers : listing[c] = "reading" => pool[reader[c]].ready

\* The cache never holds an inventory that an error cut short: every resource of
\* the key was listed, and no other (the `?` of get_allowed_resources precedes
\* the insert).
NoPartialInventory ==
  \A k \in Keys :
    inventories[k] # NoEntry =>
      \A r \in Resources : inventories[k].data[r] # NoSnapshot <=> r \in k

\* Concurrent first lists may each start a reflector, and those replaced in the
\* map keep running; there are never more of one query than callers.
ReflectorsBoundedByCallers ==
  \A r \in Resources :
    Cardinality({i \in 1..created : pool[i].resource = r}) <= Cardinality(Callers)

\* Every evaluation gets its data or an error.
EvaluationsReturn == \A c \in Callers : pc[c] # "idle" ~> pc[c] = "idle"

\* "This is used to prevent the creation of two Reflectors watching the same set
\* of resources" (doc comment of Reflector::compute_id).
OneReflectorPerQuery ==
  \A i, j \in 1..created : pool[i].resource = pool[j].resource => i = j

\* "The inventory is also recreated if the set of resources has changed since
\* the time the inventory was computed" (doc comment of get_inventory): an
\* inventory that is about to be served shows what the registered stores show.
ServedInventoryIsCurrent ==
  \A c \in Callers :
    pc[c] = "check" /\ (\A r \in Key[c] : ~ ChangedSince(r, since[c]))
                    /\ inventories[Key[c]].time = since[c] =>
      \A r \in Key[c] :
        inventories[Key[c]].data[r].version = pool[registered[r]].version
=============================================================================

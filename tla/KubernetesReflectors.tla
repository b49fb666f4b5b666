------------------------- MODULE KubernetesReflectors -------------------------
(***************************************************************************)
(* The Kubernetes client of the callback handler keeps one reflector per   *)
(* query: a background task that watches the API server and mirrors what   *)
(* it sees in a store.  A caller lists a resource by reading a store, and  *)
(* asks whether a resource changed by comparing the instant of the last    *)
(* event with one of its own.                                              *)
(*                                                                         *)
(* Queries carry no selectors here, so a query is a resource.  A store is  *)
(* abstracted to the number of events applied to it and to the version of  *)
(* the cluster it mirrors; two readings of the monotonic clock differ.     *)
(*                                                                         *)
(* Sources: callback_handler/kubernetes/client.rs, .../reflector.rs.       *)
(***************************************************************************)
EXTENDS Integers, FiniteSets

CONSTANTS
  Resources,      \* queries
  Callers,        \* tasks that serve the requests of the policies
  MaxReflectors,  \* bound: reflectors that can be created
  MaxVersion,     \* bound: changes the cluster makes to a resource
  MaxEvents,      \* bound: events a reflector sees
  NoEvent

ASSUME BoundsAssumption ==
  MaxReflectors \in Nat /\ MaxVersion \in Nat /\ MaxEvents \in Nat
ASSUME CallersAssumption == IsFiniteSet(Callers)
ASSUME NoEventAssumption == NoEvent \notin Nat

Ids == 1..MaxReflectors

Reflector ==
  [resource : Resources,
   ready : BOOLEAN,              \* wait_until_ready has something to report
   events : Nat,                 \* events applied to the store
   version : Nat,                \* version of the resource the store mirrors
   last : Nat,                   \* last_change_seen_at
   inflight : Nat \cup {NoEvent}] \* version brought by an event not yet applied

Snapshot == [reflector : Ids, events : Nat, version : Nat]

VARIABLES
  clock,       \* the last instant read
  cluster,     \* version of each resource in the cluster
  created,     \* number of reflectors created: the ids 1..created
  pool,        \* the reflectors; ids above created are not in use
  registered,  \* the client's map: resource -> reflector, 0 for none
  listing,     \* where a caller is in list_resources_from_reflector
  reader       \* the store a caller waits for or reads

reflectorVars == <<clock, cluster, created, pool, registered, listing, reader>>

ReflectorsTypeOK ==
  /\ clock \in Nat
  /\ cluster \in [Resources -> Nat]
  /\ created \in 0..MaxReflectors
  /\ pool \in [Ids -> Reflector]
  /\ registered \in [Resources -> 0..created]
  /\ listing \in [Callers -> {"no", "waiting", "reading"}]
  /\ reader \in [Callers -> 0..created]

ReflectorsInit ==
  /\ clock = 0
  /\ cluster = [r \in Resources |-> 0]
  /\ created = 0
  /\ \E r \in Resources :
       pool = [i \in Ids |-> [resource |-> r, ready |-> FALSE, events |-> 0,
                              version |-> 0, last |-> 0, inflight |-> NoEvent]]
  /\ registered = [r \in Resources |-> 0]
  /\ listing = [c \in Callers |-> "no"]
  /\ reader = [c \in Callers |-> 0]

\* Instant::now()
Tick == clock' = clock + 1
Now == clock + 1

-----------------------------------------------------------------------------
(* The cluster and the background task of a reflector.                     *)

ClusterChanges(r) ==
  /\ cluster[r] < MaxVersion
  /\ cluster' = [cluster EXCEPT ![r] = @ + 1]
  /\ UNCHANGED <<clock, created, pool, registered, listing, reader>>

\* The watcher yields an event: the next change, or a fresh list of everything,
\* which is how a watch starts and how it resumes after an error (a list comes
\* as several events, of which the last one fills the store; they are one here).
\* The event's instant is published first ...
WatcherSees(i) ==
  /\ i \in 1..created
  /\ pool[i].inflight = NoEvent
  /\ pool[i].events < MaxEvents
  /\ Tick
  /\ \E v \in pool[i].version..cluster[pool[i].resource] :
       pool' = [pool EXCEPT ![i].last = Now, ![i].inflight = v]
  /\ UNCHANGED <<cluster, created, registered, listing, reader>>

\* A slip: an event is applied once more.
ApplyWatcherEventAgain(i) ==
  /\ i \in 1..created
  /\ pool' = [pool EXCEPT ![i].version = pool[i].inflight,
                          ![i].events = @ + 1,
                          ![i].ready = TRUE,
                          ![i].inflight = NoEvent]
  /\ UNCHANGED <<clock, cluster, created, registered, listing, reader>>

\* A slip: a list that brings nothing new does not make the store ready.
ApplyWatcherEventIfNew(i) ==
  /\ i \in 1..created
  /\ pool[i].inflight # NoEvent
  /\ pool' = [pool EXCEPT ![i].version = pool[i].inflight,
                          ![i].events = @ + 1,
                          ![i].ready = @ \/ pool[i].inflight # pool[i].version,
                          ![i].inflight = NoEvent]
  /\ UNCHANGED <<clock, cluster, created, registered, listing, reader>>

\* ... and only then is the event applied to the store.
ApplyWatcherEvent(i) ==
  /\ i \in 1..created
  /\ pool[i].inflight # NoEvent
  /\ pool' = [pool EXCEPT ![i].version = pool[i].inflight,
                          ![i].events = @ + 1,
                          ![i].ready = TRUE,
                          ![i].inflight = NoEvent]
  /\ UNCHANGED <<clock, cluster, created, registered, listing, reader>>

-----------------------------------------------------------------------------
(* A caller lists the resource r.                                          *)

\* Reflector::create_and_run, up to the await of wait_until_ready.
CreateAndRun(c, r) ==
  /\ created < MaxReflectors
  /\ created' = created + 1
  /\ Tick
  /\ pool' = [pool EXCEPT ![created + 1] =
                [resource |-> r, ready |-> FALSE, events |-> 0,
                 version |-> cluster[r], last |-> Now, inflight |-> NoEvent]]
  /\ listing' = [listing EXCEPT ![c] = "waiting"]
  /\ reader' = [reader EXCEPT ![c] = created + 1]
  /\ UNCHANGED <<cluster, registered>>

\* A slip: the new reflector is in the map before its store is ready.
LookUpRegisteringEarly(c, r) ==
  /\ listing[c] = "no"
  /\ IF registered[r] # 0
     THEN /\ listing' = [listing EXCEPT ![c] = "reading"]
          /\ reader' = [reader EXCEPT ![c] = registered[r]]
          /\ UNCHANGED <<clock, cluster, created, pool, registered>>
     ELSE /\ created < MaxReflectors
          /\ created' = created + 1
          /\ Tick
          /\ pool' = [pool EXCEPT ![created + 1] =
                        [resource |-> r, ready |-> FALSE, events |-> 0,
                         version |-> cluster[r], last |-> Now, inflight |-> NoEvent]]
          /\ listing' = [listing EXCEPT ![c] = "waiting"]
          /\ reader' = [reader EXCEPT ![c] = created + 1]
          /\ registered' = [registered EXCEPT ![r] = created + 1]
          /\ UNCHANGED cluster

\* get_reflector_reader looks in the map under the read lock, and creates a
\* reflector with no lock held.
LookUp(c, r) ==
  /\ listing[c] = "no"
  /\ IF registered[r] # 0
     THEN /\ listing' = [listing EXCEPT ![c] = "reading"]
          /\ reader' = [reader EXCEPT ![c] = registered[r]]
          /\ UNCHANGED <<clock, cluster, created, pool, registered>>
     ELSE CreateAndRun(c, r)

\* A slip: the reflector is used once and never put in the map.
ReflectorReadyUnregistered(c, r) ==
  /\ listing[c] = "waiting"
  /\ pool[reader[c]].ready
  /\ listing' = [listing EXCEPT ![c] = "reading"]
  /\ UNCHANGED <<clock, cluster, created, pool, registered, reader>>

\* wait_until_ready returns; the write lock; the map's entry is replaced.
ReflectorReady(c, r) ==
  /\ listing[c] = "waiting"
  /\ pool[reader[c]].ready
  /\ registered' = [registered EXCEPT ![r] = reader[c]]
  /\ listing' = [listing EXCEPT ![c] = "reading"]
  /\ UNCHANGED <<clock, cluster, created, pool, reader>>

\* reader.state(): what the caller's own reader shows, registered or not.
Content(i) == [reflector |-> i, events |-> pool[i].events, version |-> pool[i].version]

ReadStore(c) ==
  /\ listing' = [listing EXCEPT ![c] = "no"]
  /\ reader' = [reader EXCEPT ![c] = 0]
  /\ UNCHANGED <<clock, cluster, created, pool, registered>>

\* have_reflector_resources_changed_since
ChangedSince(r, since) ==
  registered[r] # 0 => pool[registered[r]].last > since
=============================================================================

----------------------------- MODULE Inventories -----------------------------
(***************************************************************************)
(* The data of a Rego policy, built from the lists of the resources it may *)
(* see.  Gatekeeper's inventory is keyed by API version, kind, namespace   *)
(* and name; Open Policy Agent's by plural name, namespace and name, and   *)
(* plural names are not unique.  The objects are put in one by one, in the *)
(* order of the lists, and the first that cannot be makes the whole fail.  *)
(*                                                                         *)
(* A nested map is a function of the paths through it.                     *)
(*                                                                         *)
(* Sources: runtimes/rego/{gatekeeper_inventory,opa_inventory}.rs.         *)
(***************************************************************************)
EXTENDS Naturals, Sequences

CONSTANTS
  Clusters,     \* sequences of pairs of a resource and the list of its objects
  PluralNames,  \* partial functions from resources to plural names
  NoNamespace,  \* what a cluster-wide object has for a namespace
  NoName        \* what an object without a name has for one

\* Of an object, its contents are a number.
ListType ==
  [resource : [api : STRING, kind : STRING],
   objects : Seq([namespace : STRING, name : STRING, uid : Nat])]

ASSUME ClustersAssumption == \A k \in Clusters : k \in Seq(ListType)

VARIABLES
  kube, plurals,    \* the arguments
  place,            \* for each builder, which object of which list it is at
  state,            \* for each builder: "building", "built", "error" or "unasked"
  gatekeeper,       \* cluster_resources and namespaced_resources
  scopes, opa       \* for each plural name its scope; the objects

inventoryVars == <<kube, plurals, place, state, gatekeeper, scopes, opa>>
Builders == {"gatekeeper", "opa"}

-----------------------------------------------------------------------------
\* A slip: the first value of a key is kept.
InsertIfAbsent(map, key, value) ==
  [k \in DOMAIN map \cup {key} |-> IF k \in DOMAIN map THEN map[k] ELSE value]

\* BTreeMap::insert: the last value of a key is kept.
Insert(map, key, value) ==
  [k \in DOMAIN map \cup {key} |-> IF k = key THEN value ELSE map[k]]

\* Where a builder is: entering a list (0) or at one of its objects.
List(b) == kube[place[b][1]]
Entering(b) == state[b] = "building" /\ place[b][1] <= Len(kube) /\ place[b][2] = 0
AtObject(b) == state[b] = "building" /\ place[b][1] <= Len(kube) /\ place[b][2] > 0
Resource(b) == List(b).resource
Object(b) == List(b).objects[place[b][2]]

Forward(b) ==
  place' = [place EXCEPT ![b] = IF @[2] < Len(List(b).objects) THEN <<@[1], @[2] + 1>>
                                                               ELSE <<@[1] + 1, 0>>]

Abandon(b) ==
  /\ state' = [state EXCEPT ![b] = "error"]
  /\ UNCHANGED <<kube, plurals, place, gatekeeper, scopes, opa>>

GatekeeperPath(r, o) == <<o.namespace, r.api, r.kind, o.name>>
OpaPath(plural, o) == <<plural, o.namespace, o.name>>

EnterList(b) ==
  /\ Entering(b)
  /\ b = "opa" => Resource(b) \in DOMAIN plurals
  /\ Forward(b)
  /\ UNCHANGED <<kube, plurals, state, gatekeeper, scopes, opa>>

NoPluralName ==
  /\ Entering("opa") /\ Resource("opa") \notin DOMAIN plurals
  /\ Abandon("opa")

\* An object without a name.
Nameless(b) ==
  /\ AtObject(b) /\ Object(b).name = NoName
  /\ Abandon(b)

RegisterInGatekeeper ==
  LET b == "gatekeeper" IN
  /\ AtObject(b) /\ Object(b).name # NoName
  /\ gatekeeper' = Insert(gatekeeper, GatekeeperPath(Resource(b), Object(b)), Object(b))
  /\ Forward(b)
  /\ UNCHANGED <<kube, plurals, state, scopes, opa>>

Plural == plurals[Resource("opa")]
Scope(o) == IF o.namespace = NoNamespace THEN "cluster" ELSE "namespace"

\* A plural name has a scope from its first object on.
OtherScope ==
  /\ AtObject("opa")
  /\ Plural \in DOMAIN scopes /\ scopes[Plural] # Scope(Object("opa"))
  /\ Abandon("opa")

\* A slip: the scope is that of the present object.
RegisterWhateverScope ==
  LET b == "opa" IN
  /\ AtObject(b) /\ Object(b).name # NoName
  /\ scopes' = Insert(scopes, Plural, Scope(Object(b)))
  /\ opa' = Insert(opa, OpaPath(Plural, Object(b)), Object(b))
  /\ Forward(b)
  /\ UNCHANGED <<kube, plurals, state, gatekeeper>>

RegisterInOpa ==
  LET b == "opa" IN
  /\ AtObject(b) /\ Object(b).name # NoName
  /\ Plural \in DOMAIN scopes => scopes[Plural] = Scope(Object(b))
  /\ scopes' = Insert(scopes, Plural, Scope(Object(b)))
  /\ opa' = Insert(opa, OpaPath(Plural, Object(b)), Object(b))
  /\ Forward(b)
  /\ UNCHANGED <<kube, plurals, state, gatekeeper>>

Complete(b) ==
  /\ state[b] = "building" /\ place[b][1] > Len(kube)
  /\ state' = [state EXCEPT ![b] = "built"]
  /\ UNCHANGED <<kube, plurals, place, gatekeeper, scopes, opa>>

-----------------------------------------------------------------------------
Empty == [path \in {} |-> path]

EmptyInventories ==
  /\ place = [b \in Builders |-> <<1, 0>>]
  /\ gatekeeper = Empty /\ scopes = Empty /\ opa = Empty

InventoriesInit ==
  /\ kube \in Clusters /\ plurals \in PluralNames
  /\ state = [b \in Builders |-> "building"]
  /\ EmptyInventories

InventoriesRest ==
  /\ kube = <<>> /\ plurals = Empty
  /\ state = [b \in Builders |-> "unasked"]
  /\ EmptyInventories

InventoriesNext ==
  \/ \E b \in Builders : EnterList(b) \/ Nameless(b) \/ Complete(b)
  \/ NoPluralName
  \/ RegisterInGatekeeper
  \/ OtherScope
  \/ RegisterInOpa

InventoriesSpec == InventoriesInit /\ [][InventoriesNext]_inventoryVars

-----------------------------------------------------------------------------
(* Properties.                                                             *)

\* Every listed object, with its resource and how far behind in the lists it is.
Listed ==
  UNION {{[resource |-> kube[i].resource, object |-> kube[i].objects[j], list |-> i, nth |-> j] :
            j \in DOMAIN kube[i].objects} : i \in DOMAIN kube}

Behind(x, y) == x.list > y.list \/ (x.list = y.list /\ x.nth > y.nth)

\* A Gatekeeper policy sees each listed object under its own API version and
\* kind, unless an object behind it in the same list has its namespace and name;
\* and it sees nothing else (GatekeeperInventory::register).
GatekeeperShowsWhatIsListed ==
  state["gatekeeper"] = "built" =>
    LET path(x) == GatekeeperPath(x.resource, x.object) IN
    /\ DOMAIN gatekeeper = {path(x) : x \in Listed}
    /\ \A x \in Listed :
         \/ gatekeeper[path(x)] = x.object
         \/ \E y \in Listed : Behind(y, x) /\ path(y) = path(x) /\ y.resource = x.resource

\* Both kinds of policy see the same objects: a namespace and a name lead to the
\* same object, except where another resource shares the plural name and has an
\* object of that namespace and name further behind (opa_inventory.rs, "the name
\* of a resource isn't unique").
BothShowTheSame ==
  state = [b \in Builders |-> "built"] =>
    /\ DOMAIN opa = {OpaPath(plurals[x.resource], x.object) : x \in Listed}
    /\ \A x \in Listed :
         LET path == OpaPath(plurals[x.resource], x.object) IN
         \/ opa[path] = gatekeeper[GatekeeperPath(x.resource, x.object)]
         \/ \E y \in Listed : /\ Behind(y, x) /\ y.resource # x.resource
                              /\ OpaPath(plurals[y.resource], y.object) = path

\* Under one plural name all objects are cluster-wide or all are in a namespace,
\* or the policy would take a namespace for an object (ResourcesByScope).
ScopesNeverMix ==
  \A p, q \in DOMAIN opa : p[1] = q[1] => (p[2] = NoNamespace <=> q[2] = NoNamespace)
=============================================================================

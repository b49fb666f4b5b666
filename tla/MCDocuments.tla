---------------------------- MODULE MCDocuments ----------------------------
(***************************************************************************)
(* Small instances of the three parts that turn documents given to the     *)
(* evaluator into something it uses.  They share nothing, so a behaviour   *)
(* is one call to one of them and the others are at rest.                  *)
(***************************************************************************)
EXTENDS PolicyMetadata, Inventories, Certificates

SeqsUpTo(S, n) == UNION {[1..k -> S] : k \in 0..n}

-----------------------------------------------------------------------------
SomeResources ==
  {[res |-> "*", sub |-> NoSub], [res |-> "*", sub |-> "*"], [res |-> "*", sub |-> "s"],
   [res |-> "p", sub |-> NoSub], [res |-> "p", sub |-> "*"], [res |-> "p", sub |-> "s"],
   [res |-> "q", sub |-> "s"], [res |-> "", sub |-> NoSub]}

Rule(list) ==
  [groups |-> <<"*">>, versions |-> <<"v1">>, operations |-> <<"CREATE", "UPDATE">>, resources |-> list]

Document(rules) ==
  [protocol |-> "v1", mode |-> "wapc", context |-> {}, rules |-> rules]

PodRule == Rule(<<[res |-> "p", sub |-> NoSub]>>)
FewLists == {<<r>> : r \in SomeResources} \cup
            {<<[res |-> "*", sub |-> "s"], [res |-> "p", sub |-> NoSub]>>}

MCDocumentSet ==
  {Document(<<Rule(list)>>) : list \in SeqsUpTo(SomeResources, 3)} \cup
  {Document(<<Rule(a), Rule(b)>>) : a \in FewLists, b \in FewLists} \cup
  {Document(<<[PodRule EXCEPT !.groups = g, !.versions = v, !.operations = o]>>) :
     g \in SeqsUpTo({"*", "apps"}, 2), v \in SeqsUpTo({"*", "v1"}, 2),
     o \in {<<>>, <<"*">>, <<"CREATE", "*">>, <<"CREATE">>}} \cup
  {[protocol |-> p, mode |-> m, context |-> c, rules |-> <<PodRule>>] :
     p \in {"absent", "unknown", "v1"}, m \in {"wapc", "opa"},
     c \in SUBSET {[api |-> "v1", kind |-> "Pod"], [api |-> "", kind |-> "Pod"],
                   [api |-> "v1", kind |-> ""]}}

-----------------------------------------------------------------------------
Event == [api |-> "events/v1", kind |-> "Event"]
CoreEvent == [api |-> "v1", kind |-> "Event"]
Node == [api |-> "v1", kind |-> "Node"]

Objects ==
  {[namespace |-> ns, name |-> n, uid |-> u] :
     ns \in {"no namespace", "default"}, n \in {"no name", "a"}, u \in {1, 2}}

\* The lists of a map come in the order of its keys.
MCClusters ==
  {<<[resource |-> Event, objects |-> k], [resource |-> CoreEvent, objects |-> l]>> :
     k \in SeqsUpTo(Objects, 2), l \in SeqsUpTo(Objects, 1)} \cup
  {<<[resource |-> Node, objects |-> k]>> : k \in SeqsUpTo(Objects, 1)}

MCPluralNames ==
  {[r \in {Event, CoreEvent, Node} |-> IF r = Node THEN "nodes" ELSE "events"],
   [r \in {Event, CoreEvent} |-> r.api]}

-----------------------------------------------------------------------------
Cert(name, signer, from, until, form) ==
  [name |-> name, signer |-> signer, from |-> from, until |-> until, form |-> form]

Root == Cert("root", "root", 0, 1, "PEM")
Intermediate == Cert("intermediate", "root", 0, 2, "DER")
Second == Cert("second", "intermediate", 1, 4, "PEM")
MozillaRoot == Cert("mozilla", "mozilla", 0, 4, "DER")
Rubbish == Cert("root", "root", 0, 5, "other DER")
Garbled == Cert("root", "root", 0, 5, "bad PEM")

Leaves == {Cert("leaf", s, 0, 3, "PEM") : s \in {"root", "intermediate", "second", "mozilla"}}
            \cup {Rubbish, Garbled}

MCRequests ==
  {[certificate |-> c, chain |-> ch, notAfter |-> t] :
     c \in Leaves,
     ch \in {[given |-> FALSE, certificates |-> <<>>]} \cup
            {[given |-> TRUE, certificates |-> s] :
               s \in SeqsUpTo({Root, Intermediate, Second, MozillaRoot, Rubbish, Garbled}, 3)},
     t \in {[form |-> f, time |-> 0] : f \in {"none", "garbled"}} \cup
           {[form |-> "given", time |-> i] : i \in {-2, 0, 2, 3, 4}}}

MCMozilla == {MozillaRoot}

-----------------------------------------------------------------------------
vars == <<metadataVars, inventoryVars, certificateVars>>

Init ==
  \/ MetadataInit /\ InventoriesRest /\ CertificatesRest
  \/ MetadataRest /\ InventoriesInit /\ CertificatesRest
  \/ MetadataRest /\ InventoriesRest /\ CertificatesInit

Next ==
  \/ MetadataNext /\ UNCHANGED <<inventoryVars, certificateVars>>
  \/ InventoriesNext /\ UNCHANGED <<metadataVars, certificateVars>>
  \/ CertificatesNext /\ UNCHANGED <<metadataVars, inventoryVars>>

Spec == Init /\ [][Next]_vars
=============================================================================

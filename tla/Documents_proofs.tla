--------------------------- MODULE Documents_proofs ---------------------------
(***************************************************************************)
(* What is proved of the three parts that turn documents into something    *)
(* the evaluator uses.                                                     *)
(*                                                                         *)
(* For every list of rules: the scan, which looks at each resource once    *)
(* and keeps two sets and three flags, decides whether each list is in     *)
(* order, which is said of pairs of resources.                             *)
(*                                                                         *)
(* For every cluster and every naming of resources: each inventory shows   *)
(* what is listed, under each path the last object of it; the two show the *)
(* same; and an Open Policy Agent inventory never mixes scopes.            *)
(*                                                                         *)
(* For every request: a certificate is trusted only along a path that is   *)
(* valid at the time asked for.                                            *)
(***************************************************************************)
EXTENDS PolicyMetadata, Inventories, Certificates, TLAPS

-----------------------------------------------------------------------------
(* The rules of a policy's metadata.                                       *)

ResourceType == [res : STRING, sub : STRING]
EmptyResource == [res |-> "", sub |-> NoSub]
AllWildcard == [res |-> "*", sub |-> "*"]

\* What the scan keeps.
Knowledge ==
  [sub : SUBSET STRING, res : SUBSET STRING,
   double : BOOLEAN, single : BOOLEAN, plain : BOOLEAN]

\* What it keeps of one resource more.
After(k, r) ==
  [sub |-> IF r.sub = "*" THEN k.sub \cup {r.res} ELSE k.sub,
   res |-> IF r.sub # NoSub /\ r.res = "*" THEN k.res \cup {r.sub} ELSE k.res,
   double |-> k.double \/ r = AllWildcard,
   single |-> k.single \/ r = [res |-> "*", sub |-> NoSub],
   plain |-> IF r.sub = NoSub THEN r.res # "*" ELSE k.plain]

IsCovered(k, r) == r.sub # NoSub /\ (r.res \in k.sub \/ r.sub \in k.res)

\* What the scan has found out when it has passed the first n resources of l.
Passed(l, n, k) ==
  /\ \A i \in 1..n : l[i] # EmptyResource
  /\ \A i, j \in 1..n : i < j => ~Covers(l[i], l[j])
  /\ \A x \in STRING : x \in k.sub <=> \E i \in 1..n : l[i].sub = "*" /\ l[i].res = x
  /\ \A x \in STRING : x \in k.res <=> \E i \in 1..n : l[i].sub # NoSub /\ l[i].res = "*" /\ l[i].sub = x
  /\ k.double <=> \E i \in 1..n : l[i] = AllWildcard
  /\ k.single <=> \E i \in 1..n : IsSingle(l[i])
  /\ k.plain <=> \E i \in 1..n : IsPlain(l[i]) /\ \A j \in 1..n : i < j => ~IsSingle(l[j])

\* A resource is covered by one of the first n if it is in one of the two sets.
LEMMA CoveredByOneBefore ==
  ASSUME NEW l \in Seq(ResourceType), NEW n \in Nat, n < Len(l),
         NEW k \in Knowledge, Passed(l, n, k)
  PROVE  IsCovered(k, l[n + 1]) <=> \E i \in 1..n : Covers(l[i], l[n + 1])
<1>1. PICK r \in ResourceType : r = l[n + 1]
  OBVIOUS
<1>2. r.res \in STRING /\ r.sub \in STRING
  BY DEF ResourceType
<1>3. \A i \in 1..n : l[i] \in ResourceType
  OBVIOUS
<1>4. \A i \in 1..n :
        Covers(l[i], r) <=> /\ r.sub # NoSub
                            /\ \/ l[i].res = r.res /\ l[i].sub = "*"
                               \/ l[i].res = "*" /\ l[i].sub = r.sub
  BY <1>2, <1>3 DEF Covers, ResourceType
<1>5. r.res \in k.sub <=> \E i \in 1..n : l[i].sub = "*" /\ l[i].res = r.res
  BY <1>2 DEF Passed
<1>6. r.sub \in k.res <=> \E i \in 1..n : l[i].sub # NoSub /\ l[i].res = "*" /\ l[i].sub = r.sub
  BY <1>2 DEF Passed
<1> QED BY <1>1, <1>4, <1>5, <1>6 DEF IsCovered

\* An empty or a covered resource makes the list one that is not in order.
LEMMA RefusedIsNotInOrder ==
  ASSUME NEW l \in Seq(ResourceType), NEW n \in Nat, n < Len(l),
         NEW k \in Knowledge, Passed(l, n, k),
         l[n + 1] = EmptyResource \/ IsCovered(k, l[n + 1])
  PROVE  ~InOrder(l)
<1>1. n + 1 \in DOMAIN l
  OBVIOUS
<1>2. CASE l[n + 1] = EmptyResource
  BY <1>1, <1>2 DEF InOrder, EmptyResource
<1>3. CASE \E i \in 1..n : Covers(l[i], l[n + 1])
  <2>1. PICK i \in 1..n : Covers(l[i], l[n + 1])
    BY <1>3
  <2>2. i \in DOMAIN l /\ i < n + 1
    OBVIOUS
  <2> QED BY <1>1, <2>1, <2>2 DEF InOrder
<1> QED BY <1>2, <1>3, CoveredByOneBefore

\* Passing a resource keeps what the scan knows.
LEMMA PassOne ==
  ASSUME NEW l \in Seq(ResourceType), NEW n \in Nat, n < Len(l),
         NEW k \in Knowledge, Passed(l, n, k),
         l[n + 1] # EmptyResource, ~IsCovered(k, l[n + 1])
  PROVE  After(k, l[n + 1]) \in Knowledge /\ Passed(l, n + 1, After(k, l[n + 1]))
<1>1. PICK r \in ResourceType : r = l[n + 1]
  OBVIOUS
<1>2. \A i : i \in 1..(n + 1) <=> i \in 1..n \/ i = n + 1
  OBVIOUS
<1>3. r.res \in STRING /\ r.sub \in STRING
  BY DEF ResourceType
<1>4. r = [res |-> "*", sub |-> NoSub] <=> IsSingle(r)
  BY DEF ResourceType, IsSingle
<1>5. \A i \in 1..(n + 1) : l[i] # EmptyResource
  BY <1>2 DEF Passed
<1>6. \A i, j \in 1..(n + 1) : i < j => ~Covers(l[i], l[j])
  <2> SUFFICES ASSUME NEW i \in 1..(n + 1), NEW j \in 1..(n + 1), i < j
               PROVE  ~Covers(l[i], l[j])
    OBVIOUS
  <2>1. i \in 1..n
    OBVIOUS
  <2>2. CASE j \in 1..n
    BY <2>1, <2>2 DEF Passed
  <2>3. CASE j = n + 1
    BY <2>1, <2>3, CoveredByOneBefore
  <2> QED BY <2>2, <2>3
<1>7. \A x \in STRING :
        x \in (IF r.sub = "*" THEN k.sub \cup {r.res} ELSE k.sub)
          <=> \E i \in 1..(n + 1) : l[i].sub = "*" /\ l[i].res = x
  BY <1>1, <1>2 DEF Passed
<1>8. \A x \in STRING :
        x \in (IF r.sub # NoSub /\ r.res = "*" THEN k.res \cup {r.sub} ELSE k.res)
          <=> \E i \in 1..(n + 1) : l[i].sub # NoSub /\ l[i].res = "*" /\ l[i].sub = x
  BY <1>1, <1>2 DEF Passed
<1>9. (k.double \/ r = AllWildcard) <=> \E i \in 1..(n + 1) : l[i] = AllWildcard
  BY <1>1, <1>2 DEF Passed
<1>10. (k.single \/ r = [res |-> "*", sub |-> NoSub]) <=> \E i \in 1..(n + 1) : IsSingle(l[i])
  BY <1>1, <1>2, <1>4 DEF Passed
<1>11. (IF r.sub = NoSub THEN r.res # "*" ELSE k.plain)
          <=> \E i \in 1..(n + 1) : IsPlain(l[i]) /\ \A j \in 1..(n + 1) : i < j => ~IsSingle(l[j])
  <2>1. CASE IsPlain(r)
    <3>1. n + 1 \in 1..(n + 1) /\ \A j \in 1..(n + 1) : ~(n + 1 < j)
      OBVIOUS
    <3> QED BY <1>1, <2>1, <3>1 DEF IsPlain
  <2>2. CASE IsSingle(r)
    <3>1. ~IsPlain(r)
      BY <2>2 DEF IsPlain, IsSingle
    <3>2. \A i \in 1..n : i < n + 1 /\ n + 1 \in 1..(n + 1)
      OBVIOUS
    <3> QED BY <1>1, <1>2, <2>2, <3>1, <3>2 DEF IsSingle
  <2>3. CASE r.sub # NoSub
    <3>1. ~IsPlain(r) /\ ~IsSingle(r)
      BY <2>3 DEF IsPlain, IsSingle
    <3>2. k.plain <=> \E i \in 1..n : IsPlain(l[i]) /\ \A j \in 1..n : i < j => ~IsSingle(l[j])
      BY DEF Passed
    <3> QED BY <1>1, <1>2, <2>3, <3>1, <3>2
  <2> QED BY <2>1, <2>2, <2>3 DEF IsPlain, IsSingle
<1>12. PICK m : m = After(k, r)
  OBVIOUS
<1>13. /\ m.sub = (IF r.sub = "*" THEN k.sub \cup {r.res} ELSE k.sub)
       /\ m.res = (IF r.sub # NoSub /\ r.res = "*" THEN k.res \cup {r.sub} ELSE k.res)
       /\ m.double <=> k.double \/ r = AllWildcard
       /\ m.single <=> k.single \/ r = [res |-> "*", sub |-> NoSub]
       /\ m.plain <=> IF r.sub = NoSub THEN r.res # "*" ELSE k.plain
  BY <1>12 DEF After, Knowledge
<1>14. Passed(l, n + 1, m)
  BY <1>5, <1>6, <1>7, <1>8, <1>9, <1>10, <1>11, <1>13 DEF Passed
<1>15. m \in Knowledge
  BY <1>3, <1>12 DEF After, Knowledge
<1> QED BY <1>1, <1>12, <1>14, <1>15

\* At the end of a list the flags decide.
LEMMA PassedAll ==
  ASSUME NEW l \in Seq(ResourceType), NEW k \in Knowledge, Passed(l, Len(l), k)
  PROVE  InOrder(l) <=> ~((k.double /\ Len(l) > 1) \/ (k.single /\ k.plain))
<1>1. DOMAIN l = 1..Len(l) /\ Len(l) \in Nat
  OBVIOUS
<1>2. \A i \in DOMAIN l : l[i] # [res |-> "", sub |-> NoSub]
  BY <1>1 DEF Passed, EmptyResource
<1>3. \A i, j \in DOMAIN l : i < j => ~Covers(l[i], l[j])
  BY <1>1 DEF Passed
<1>4. ((\E i \in DOMAIN l : l[i] = [res |-> "*", sub |-> "*"]) => Len(l) = 1)
         <=> ~(k.double /\ Len(l) > 1)
  <2>1. k.double <=> \E i \in DOMAIN l : l[i] = [res |-> "*", sub |-> "*"]
    BY <1>1 DEF Passed, AllWildcard
  <2>2. (\E i \in DOMAIN l : l[i] = [res |-> "*", sub |-> "*"]) => Len(l) >= 1
    BY <1>1
  <2> QED BY <1>1, <2>1, <2>2
<1>5. ((\E i \in DOMAIN l : IsSingle(l[i])) =>
         \A i \in DOMAIN l : IsPlain(l[i]) => \E j \in DOMAIN l : i < j /\ IsSingle(l[j]))
         <=> ~(k.single /\ k.plain)
  BY <1>1 DEF Passed
<1> QED BY <1>2, <1>3, <1>4, <1>5 DEF InOrder

-----------------------------------------------------------------------------
\* The inductive invariant.

Known ==
  [sub |-> subWildcards, res |-> resWildcards, double |-> double, single |-> single, plain |-> plain]

NothingKnown ==
  [sub |-> {}, res |-> {}, double |-> FALSE, single |-> FALSE, plain |-> FALSE]

Allowed(r) == Lists(r) /\ InOrder(r.resources)

ScanInv ==
  /\ document.rules \in Seq(RuleType)
  /\ rule \in 1..(Len(document.rules) + 1)
  /\ Known \in Knowledge /\ broken \in BOOLEAN
  /\ broken <=> \E i \in 1..(rule - 1) : ~Allowed(document.rules[i])
  /\ rule <= Len(document.rules) =>
       /\ at \in 1..(Len(RuleResources) + 1)
       /\ Passed(RuleResources, at - 1, Known)
  /\ VerdictIsTheRule

\* Nothing is known of a list no resource of which has been looked at.
LEMMA NonePassed ==
  ASSUME NEW l
  PROVE  Passed(l, 0, NothingKnown) /\ NothingKnown \in Knowledge
BY DEF Passed, Knowledge, NothingKnown

LEMMA RuleTyped ==
  ASSUME NEW r \in RuleType
  PROVE  r.resources \in Seq(ResourceType) /\ Len(r.resources) \in Nat
BY DEF RuleType, ResourceType

LEMMA ScanInit == MetadataInit => ScanInv
<1> SUFFICES ASSUME MetadataInit
             PROVE  ScanInv
  OBVIOUS
<1>1. FreshScan
  BY DEF MetadataInit
<1>2. document.rules \in Seq(RuleType)
  BY DocumentsAssumption DEF MetadataInit
<1>3. VerdictIsTheRule
  BY DEF MetadataInit, VerdictIsTheRule
<1>4. rule <= Len(document.rules) => at \in 1..(Len(RuleResources) + 1)
  <2> SUFFICES ASSUME rule <= Len(document.rules)
               PROVE  at \in 1..(Len(RuleResources) + 1)
    OBVIOUS
  <2>1. document.rules[rule] \in RuleType
    BY <1>1, <1>2 DEF FreshScan
  <2> QED BY <1>1, <2>1, RuleTyped DEF FreshScan, RuleResources
<1>5. Passed(RuleResources, at - 1, Known) /\ Known \in Knowledge
  <2>1. at - 1 = 0
    BY <1>1 DEF FreshScan
  <2>2. Known = NothingKnown
    BY <1>1 DEF FreshScan, Known, NothingKnown
  <2> QED BY <2>1, <2>2, NonePassed
<1>6. rule \in 1..(Len(document.rules) + 1) /\ rule - 1 = 0 /\ broken = FALSE
  BY <1>1, <1>2 DEF FreshScan
<1>7. broken <=> \E i \in 1..(rule - 1) : ~Allowed(document.rules[i])
  BY <1>6
<1> QED BY <1>2, <1>3, <1>4, <1>5, <1>6, <1>7 DEF ScanInv

\* A rule is done with when it is known to be allowed or not.
LEMMA NextRuleStep ==
  ASSUME ScanInv, Scanning, NEW wrong \in BOOLEAN,
         wrong <=> ~InOrder(RuleResources),
         NextRule(wrong)
  PROVE  ScanInv'
<1>1. PICK rs \in Seq(RuleType) : rs = document.rules
  BY DEF ScanInv
<1>2. PICK k \in 1..Len(rs) : k = rule
  BY <1>1 DEF ScanInv, Scanning
<1>3. document' = document /\ rule' = k + 1 /\ at' = 1 /\ verdict' = verdict
      /\ verdict = "none"
  BY <1>2 DEF NextRule, Scanning
<1>4. broken' \in BOOLEAN /\ (broken' <=> broken \/ ~Allowed(rs[k]))
  BY <1>1, <1>2 DEF NextRule, Allowed, RuleResources, ScanInv
<1>5. broken' <=> \E i \in 1..((k + 1) - 1) : ~Allowed(rs[i])
  <2>1. broken <=> \E i \in 1..(k - 1) : ~Allowed(rs[i])
    BY <1>1, <1>2 DEF ScanInv
  <2>2. \A i : i \in 1..((k + 1) - 1) <=> i \in 1..(k - 1) \/ i = k
    OBVIOUS
  <2> QED BY <1>4, <2>1, <2>2
<1>6. (rule <= Len(document.rules) => at \in 1..(Len(RuleResources) + 1))'
  <2> SUFFICES ASSUME k + 1 <= Len(rs)
               PROVE  1 \in 1..(Len(rs[k + 1].resources) + 1)
    BY <1>1, <1>3 DEF RuleResources
  <2>1. rs[k + 1] \in RuleType
    OBVIOUS
  <2> QED BY <2>1, RuleTyped
<1>7. Passed(RuleResources, at - 1, Known)' /\ Known' \in Knowledge
  <2>1. at' - 1 = 0
    BY <1>3
  <2>2. Known' = NothingKnown
    BY DEF NextRule, Known, NothingKnown
  <2> QED BY <2>1, <2>2, NonePassed
<1>8. VerdictIsTheRule'
  BY <1>3 DEF VerdictIsTheRule
<1>10. document.rules' \in Seq(RuleType) /\ rule' \in 1..(Len(document.rules') + 1)
  BY <1>1, <1>2, <1>3
<1>11. (broken <=> \E i \in 1..(rule - 1) : ~Allowed(document.rules[i]))'
  BY <1>1, <1>3, <1>5
<1> QED BY <1>4, <1>6, <1>7, <1>8, <1>10, <1>11 DEF ScanInv

\* What is known while a rule is looked at.
LEMMA AtResource ==
  ASSUME ScanInv, Scanning
  PROVE  /\ RuleResources \in Seq(ResourceType) /\ Len(RuleResources) \in Nat
         /\ at \in 1..(Len(RuleResources) + 1)
         /\ Passed(RuleResources, at - 1, Known)
         /\ Known \in Knowledge
<1>1. document.rules[rule] \in RuleType
  BY DEF ScanInv, Scanning
<1> QED BY <1>1, RuleTyped DEF ScanInv, Scanning, RuleResources

LEMMA RefuseStep == ScanInv /\ RefuseResource => ScanInv'
<1> SUFFICES ASSUME ScanInv, RefuseResource
             PROVE  ScanInv'
  OBVIOUS
<1>1. PICK n \in Nat : at = n + 1 /\ n < Len(RuleResources) /\ n = at - 1
  <2>1. Len(RuleResources) \in Nat /\ at \in 1..(Len(RuleResources) + 1) /\ at <= Len(RuleResources)
    BY AtResource DEF RefuseResource
  <2>2. at - 1 \in Nat /\ at = (at - 1) + 1 /\ at - 1 < Len(RuleResources)
    BY <2>1
  <2> QED BY <2>2
<1>2. PICK k \in Knowledge : k = Known /\ Passed(RuleResources, n, k)
  BY <1>1, AtResource DEF RefuseResource
<1>3. RuleResources[n + 1] = EmptyResource \/ IsCovered(k, RuleResources[n + 1])
  BY <1>1, <1>2 DEF RefuseResource, Candidate, Covered, EmptyResource, IsCovered, Known
<1>4. ~InOrder(RuleResources)
  <2>1. RuleResources \in Seq(ResourceType)
    BY AtResource DEF RefuseResource
  <2> QED BY <1>1, <1>2, <1>3, <2>1, RefusedIsNotInOrder
<1> QED BY <1>4, NextRuleStep DEF RefuseResource

LEMMA PassStep == ScanInv /\ PassResource => ScanInv'
<1> SUFFICES ASSUME ScanInv, PassResource
             PROVE  ScanInv'
  OBVIOUS
<1>1. PICK l \in Seq(ResourceType) : l = RuleResources
  BY AtResource DEF PassResource
<1>2. PICK n \in Nat : at = n + 1 /\ n < Len(l) /\ n = at - 1
  <2>1. Len(l) \in Nat /\ at \in 1..(Len(l) + 1) /\ at <= Len(l)
    BY <1>1, AtResource DEF PassResource
  <2>2. at - 1 \in Nat /\ at = (at - 1) + 1 /\ at - 1 < Len(l)
    BY <2>1
  <2> QED BY <2>2
<1>3. PICK k \in Knowledge : k = Known /\ Passed(l, n, k)
  BY <1>1, <1>2, AtResource DEF PassResource
<1>4. l[n + 1] # EmptyResource /\ ~IsCovered(k, l[n + 1])
  BY <1>1, <1>2, <1>3 DEF PassResource, Candidate, Covered, EmptyResource, IsCovered, Known
<1>5. After(k, l[n + 1]) \in Knowledge /\ Passed(l, n + 1, After(k, l[n + 1]))
  BY <1>2, <1>3, <1>4, PassOne
<1>6. Known' = After(k, l[n + 1])
  BY <1>1, <1>2, <1>3 DEF PassResource, Candidate, AllWildcard, Known, After
<1>8. Passed(l, n + 1, Known') /\ Known' \in Knowledge
  BY <1>5, <1>6
<1>9. at' = n + 2 /\ (n + 2) - 1 = n + 1 /\ UNCHANGED <<document, rule, broken, verdict>>
  <2>1. at' = at + 1 /\ UNCHANGED <<document, rule, broken, verdict>>
    BY DEF PassResource
  <2> QED BY <1>2, <2>1
<1>10. RuleResources' = l
  BY <1>1, <1>9 DEF RuleResources
<1>11. Passed(RuleResources, at - 1, Known)'
  BY <1>8, <1>9, <1>10
<1>12. at' \in 1..(Len(RuleResources') + 1)
  BY <1>2, <1>9, <1>10
<1>14. (broken <=> \E i \in 1..(rule - 1) : ~Allowed(document.rules[i]))'
  BY <1>9 DEF ScanInv
<1>15. VerdictIsTheRule'
  BY <1>9 DEF ScanInv, VerdictIsTheRule
<1> QED BY <1>8, <1>9, <1>11, <1>12, <1>14, <1>15 DEF ScanInv

LEMMA EndStep == ScanInv /\ EndOfRule => ScanInv'
<1> SUFFICES ASSUME ScanInv, EndOfRule
             PROVE  ScanInv'
  OBVIOUS
<1>1. PICK l \in Seq(ResourceType) : l = RuleResources
  BY AtResource DEF EndOfRule
<1>2. at - 1 = Len(l)
  BY <1>1, AtResource DEF EndOfRule
<1>3. PICK k \in Knowledge : k = Known /\ Passed(l, Len(l), k)
  BY <1>1, <1>2, AtResource DEF EndOfRule
<1>4. InOrder(l) <=> ~((double /\ Len(l) > 1) \/ (single /\ plain))
  BY <1>3, PassedAll DEF Known
<1>5. PICK wrong \in BOOLEAN : wrong = ((double /\ Len(l) > 1) \/ (single /\ plain))
  OBVIOUS
<1>6. NextRule(wrong) /\ Scanning
  BY <1>1, <1>5 DEF EndOfRule
<1>7. wrong <=> ~InOrder(RuleResources)
  BY <1>1, <1>4, <1>5
<1> QED BY <1>6, <1>7, NextRuleStep

LEMMA ConcludeStep == ScanInv /\ Conclude => ScanInv'
<1> SUFFICES ASSUME ScanInv, Conclude
             PROVE  ScanInv'
  OBVIOUS
<1>1. UNCHANGED <<document, rule, scanVars, broken>>
  BY DEF Conclude
<1>2. rule - 1 = Len(document.rules)
  BY DEF ScanInv, Conclude
<1>3. ~broken <=> \A i \in DOMAIN document.rules : Allowed(document.rules[i])
  BY <1>2 DEF ScanInv
<1>4. VerdictIsTheRule'
  BY <1>1, <1>3 DEF Conclude, VerdictIsTheRule, Allowed
<1> QED BY <1>1, <1>4 DEF ScanInv, scanVars, RuleResources, Known

\* A document is accepted exactly if its header and each of its rules is: the
\* scan forgets no wildcard and holds nothing of one rule against another
\* (validate_resources, Validate for Metadata).
THEOREM VerdictIsCorrect == MetadataSpec => []VerdictIsTheRule
<1>1. ScanInv /\ [MetadataNext]_metadataVars => ScanInv'
  <2>1. ScanInv /\ UNCHANGED metadataVars => ScanInv'
    BY DEF metadataVars, scanVars, ScanInv, RuleResources, VerdictIsTheRule, Known
  <2> QED BY <2>1, RefuseStep, PassStep, EndStep, ConcludeStep DEF MetadataNext
<1>2. ScanInv => VerdictIsTheRule
  BY DEF ScanInv
<1> QED BY <1>1, <1>2, ScanInit, PTL DEF MetadataSpec

-----------------------------------------------------------------------------
(* The inventories: scopes.                                                *)

\* The inductive invariant: a plural name with an object has the scope of it.
ScopeInv ==
  \A p \in DOMAIN opa :
    /\ p[1] \in DOMAIN scopes
    /\ scopes[p[1]] = "cluster" <=> p[2] = NoNamespace

LEMMA ScopeStep == ScopeInv /\ RegisterInOpa => ScopeInv'
<1> SUFFICES ASSUME ScopeInv, RegisterInOpa, NEW p \in DOMAIN opa'
             PROVE  /\ p[1] \in DOMAIN scopes'
                    /\ scopes'[p[1]] = "cluster" <=> p[2] = NoNamespace
  BY DEF ScopeInv
<1>1. PICK q, o : q = Plural /\ o = Object("opa")
  OBVIOUS
<1>2. /\ q \in DOMAIN scopes => scopes[q] = Scope(o)
      /\ scopes' = Insert(scopes, q, Scope(o))
      /\ opa' = Insert(opa, OpaPath(q, o), o)
  BY <1>1 DEF RegisterInOpa
<1>3. /\ DOMAIN scopes' = {q} \cup DOMAIN scopes
      /\ scopes'[q] = Scope(o)
      /\ \A z \in DOMAIN scopes : z # q => scopes'[z] = scopes[z]
  BY <1>2 DEF Insert
<1>4. p = OpaPath(q, o) \/ p \in DOMAIN opa
  BY <1>2 DEF Insert
<1>5. CASE p = OpaPath(q, o)
  <2>1. p[1] = q /\ p[2] = o.namespace
    BY <1>5 DEF OpaPath
  <2>2. Scope(o) = "cluster" <=> o.namespace = NoNamespace
    BY DEF Scope
  <2> QED BY <1>3, <2>1, <2>2
<1>6. CASE p \in DOMAIN opa
  <2>1. p[1] \in DOMAIN scopes /\ (scopes[p[1]] = "cluster" <=> p[2] = NoNamespace)
    BY <1>6 DEF ScopeInv
  <2>2. scopes'[p[1]] = scopes[p[1]]
    BY <1>2, <1>3, <2>1
  <2> QED BY <1>3, <2>1, <2>2
<1> QED BY <1>4, <1>5, <1>6

\* An Open Policy Agent policy never finds a cluster-wide object and a namespace
\* side by side (ResourcesByPluralName::register).
THEOREM ScopesApart == InventoriesSpec => []ScopesNeverMix
<1>1. InventoriesInit => ScopeInv
  BY DEF InventoriesInit, EmptyInventories, Empty, ScopeInv
<1>2. ScopeInv /\ [InventoriesNext]_inventoryVars => ScopeInv'
  <2>1. ScopeInv /\ UNCHANGED <<scopes, opa>> => ScopeInv'
    BY DEF ScopeInv
  <2>2. InventoriesNext => RegisterInOpa \/ UNCHANGED <<scopes, opa>>
    BY DEF InventoriesNext, EnterList, Nameless, Complete, NoPluralName, RegisterInGatekeeper,
           OtherScope, Abandon
  <2>3. UNCHANGED inventoryVars => UNCHANGED <<scopes, opa>>
    BY DEF inventoryVars
  <2> QED BY <2>1, <2>2, <2>3, ScopeStep
<1>3. ScopeInv => ScopesNeverMix
  BY DEF ScopeInv, ScopesNeverMix
<1> QED BY <1>1, <1>2, <1>3, PTL DEF InventoriesSpec

-----------------------------------------------------------------------------
(* What an inventory shows while it is built, of either kind.              *)

\* The path of the j-th object of the i-th list, with n the plural names.
Key(b, k, n, i, j) ==
  IF b = "gatekeeper" THEN GatekeeperPath(k[i].resource, k[i].objects[j])
                      ELSE OpaPath(n[k[i].resource], k[i].objects[j])

\* The b-th object of the a-th list comes before the j-th of the i-th.
Earlier(a, b, i, j) == a < i \/ (a = i /\ b < j)

\* Of the objects that come before place i, j, that at c, d is the last with its path.
IsLast(b, k, n, c, d, i, j) ==
  /\ Earlier(c, d, i, j)
  /\ \A e \in DOMAIN k : \A f \in DOMAIN k[e].objects :
       Earlier(e, f, i, j) /\ Earlier(c, d, e, f) => Key(b, k, n, e, f) # Key(b, k, n, c, d)

\* Inventory g shows the objects of k that come before the j-th of the i-th list:
\* it has the path of each of them, and under a path the last one.
ShownUpTo(b, g, k, n, i, j) ==
  /\ \A p \in DOMAIN g : \E c \in DOMAIN k : \E d \in DOMAIN k[c].objects :
       /\ p = Key(b, k, n, c, d) /\ g[p] = k[c].objects[d]
       /\ IsLast(b, k, n, c, d, i, j)
  /\ \A c \in DOMAIN k : \A d \in DOMAIN k[c].objects :
       Earlier(c, d, i, j) => Key(b, k, n, c, d) \in DOMAIN g

LEMMA ListTyped ==
  ASSUME NEW k \in Seq(ListType), NEW a \in DOMAIN k
  PROVE  /\ k[a].resource \in [api : STRING, kind : STRING]
         /\ DOMAIN k[a].objects = 1..Len(k[a].objects)
         /\ Len(k[a].objects) \in Nat
         /\ DOMAIN k = 1..Len(k) /\ Len(k) \in Nat /\ a \in Nat
<1>1. k[a] \in ListType
  OBVIOUS
<1> QED BY <1>1 DEF ListType

\* Two places before which the same objects come.
LEMMA SamePlace ==
  ASSUME NEW b, NEW g, NEW k, NEW n, NEW i, NEW j, NEW x, NEW y,
         ShownUpTo(b, g, k, n, i, j),
         \A c \in DOMAIN k : \A d \in DOMAIN k[c].objects :
           Earlier(c, d, i, j) <=> Earlier(c, d, x, y)
  PROVE  ShownUpTo(b, g, k, n, x, y)
<1>1. ASSUME NEW c \in DOMAIN k, NEW d \in DOMAIN k[c].objects, IsLast(b, k, n, c, d, i, j)
      PROVE  IsLast(b, k, n, c, d, x, y)
  BY <1>1 DEF IsLast
<1>2. ASSUME NEW p \in DOMAIN g
      PROVE  \E c \in DOMAIN k : \E d \in DOMAIN k[c].objects :
               /\ p = Key(b, k, n, c, d) /\ g[p] = k[c].objects[d]
               /\ IsLast(b, k, n, c, d, x, y)
  <2>1. PICK c \in DOMAIN k : \E d \in DOMAIN k[c].objects :
               /\ p = Key(b, k, n, c, d) /\ g[p] = k[c].objects[d]
               /\ IsLast(b, k, n, c, d, i, j)
    BY <1>2 DEF ShownUpTo
  <2> QED BY <1>1, <2>1
<1>3. \A c \in DOMAIN k : \A d \in DOMAIN k[c].objects :
        Earlier(c, d, x, y) => Key(b, k, n, c, d) \in DOMAIN g
  BY DEF ShownUpTo
<1> QED BY <1>2, <1>3 DEF ShownUpTo

\* Registering one object more.
LEMMA ShownOneMore ==
  ASSUME NEW b, NEW g, NEW k \in Seq(ListType), NEW n,
         NEW i \in DOMAIN k, NEW j \in DOMAIN k[i].objects,
         ShownUpTo(b, g, k, n, i, j)
  PROVE  ShownUpTo(b, Insert(g, Key(b, k, n, i, j), k[i].objects[j]), k, n, i, j + 1)
<1>1. PICK h, q : q = Key(b, k, n, i, j) /\ h = Insert(g, q, k[i].objects[j])
  OBVIOUS
<1>2. /\ DOMAIN h = {q} \cup DOMAIN g
      /\ h[q] = k[i].objects[j]
      /\ \A z \in DOMAIN g : z # q => h[z] = g[z]
  BY <1>1 DEF Insert
<1>3. ASSUME NEW c \in DOMAIN k, NEW d \in DOMAIN k[c].objects
      PROVE  /\ Earlier(c, d, i, j + 1) <=> Earlier(c, d, i, j) \/ (c = i /\ d = j)
             /\ ~(Earlier(c, d, i, j + 1) /\ Earlier(i, j, c, d))
  BY ListTyped DEF Earlier
<1>4. IsLast(b, k, n, i, j, i, j + 1)
  <2>1. Earlier(i, j, i, j + 1)
    BY ListTyped DEF Earlier
  <2> QED BY <1>3, <2>1 DEF IsLast
<1>5. ASSUME NEW c \in DOMAIN k, NEW d \in DOMAIN k[c].objects,
             IsLast(b, k, n, c, d, i, j), Key(b, k, n, c, d) # q
      PROVE  IsLast(b, k, n, c, d, i, j + 1)
  <2>1. Earlier(c, d, i, j + 1)
    BY <1>3, <1>5 DEF IsLast
  <2>2. ASSUME NEW e \in DOMAIN k, NEW f \in DOMAIN k[e].objects,
               Earlier(e, f, i, j + 1), Earlier(c, d, e, f)
        PROVE  Key(b, k, n, e, f) # Key(b, k, n, c, d)
    <3>1. CASE Earlier(e, f, i, j)
      BY <1>5, <2>2, <3>1 DEF IsLast
    <3>2. CASE e = i /\ f = j
      BY <1>1, <1>5, <3>2
    <3> QED BY <1>3, <2>2, <3>1, <3>2
  <2> QED BY <2>1, <2>2 DEF IsLast
<1>6. ASSUME NEW p \in DOMAIN h
      PROVE  \E c \in DOMAIN k : \E d \in DOMAIN k[c].objects :
               /\ p = Key(b, k, n, c, d) /\ h[p] = k[c].objects[d]
               /\ IsLast(b, k, n, c, d, i, j + 1)
  <2>1. CASE p = q
    BY <1>1, <1>2, <1>4, <2>1
  <2>2. CASE p # q
    <3>1. p \in DOMAIN g /\ h[p] = g[p]
      BY <1>2, <1>6, <2>2
    <3>2. PICK c \in DOMAIN k : \E d \in DOMAIN k[c].objects :
                 /\ p = Key(b, k, n, c, d) /\ g[p] = k[c].objects[d]
                 /\ IsLast(b, k, n, c, d, i, j)
      BY <3>1 DEF ShownUpTo
    <3> QED BY <1>5, <2>2, <3>1, <3>2
  <2> QED BY <2>1, <2>2
<1>7. ASSUME NEW c \in DOMAIN k, NEW d \in DOMAIN k[c].objects, Earlier(c, d, i, j + 1)
      PROVE  Key(b, k, n, c, d) \in DOMAIN h
  <2>1. CASE Earlier(c, d, i, j)
    BY <1>2, <2>1 DEF ShownUpTo
  <2>2. CASE c = i /\ d = j
    BY <1>1, <1>2, <2>2
  <2> QED BY <1>3, <1>7, <2>1, <2>2
<1>8. ShownUpTo(b, h, k, n, i, j + 1)
  BY <1>6, <1>7 DEF ShownUpTo
<1> QED BY <1>1, <1>8

\* Before the first object of a list come the same objects as before the list.
LEMMA ShownOnEntering ==
  ASSUME NEW b, NEW g, NEW k \in Seq(ListType), NEW n, NEW i \in DOMAIN k,
         ShownUpTo(b, g, k, n, i, 0)
  PROVE  ShownUpTo(b, g, k, n, i, 0 + 1)
<1>1. ASSUME NEW c \in DOMAIN k, NEW d \in DOMAIN k[c].objects
      PROVE  Earlier(c, d, i, 0) <=> Earlier(c, d, i, 0 + 1)
  BY ListTyped DEF Earlier
<1> QED BY <1>1, SamePlace

\* Behind the last object of a list comes the next list.
LEMMA ShownByList ==
  ASSUME NEW b, NEW g, NEW k \in Seq(ListType), NEW n, NEW i \in DOMAIN k,
         ShownUpTo(b, g, k, n, i, Len(k[i].objects) + 1)
  PROVE  ShownUpTo(b, g, k, n, i + 1, 0)
<1>1. ASSUME NEW c \in DOMAIN k, NEW d \in DOMAIN k[c].objects
      PROVE  Earlier(c, d, i, Len(k[i].objects) + 1) <=> Earlier(c, d, i + 1, 0)
  <2>1. d \in 1..Len(k[c].objects) /\ Len(k[c].objects) \in Nat /\ c \in Nat /\ i \in Nat
    BY ListTyped
  <2>2. CASE c = i
    BY <2>1, <2>2 DEF Earlier
  <2>3. CASE c # i
    BY <2>1, <2>3 DEF Earlier
  <2> QED BY <2>2, <2>3
<1> QED BY <1>1, SamePlace

-----------------------------------------------------------------------------
(* Either builder.                                                         *)

Map(b) == IF b = "gatekeeper" THEN gatekeeper ELSE opa

\* What comes before the builder's place is shown.
ShowsItsPart(b) ==
  /\ place[b][1] \in 1..(Len(kube) + 1)
  /\ place[b][1] <= Len(kube) => place[b][2] <= Len(kube[place[b][1]].objects)
  /\ ShownUpTo(b, Map(b), kube, plurals, place[b][1], place[b][2])
  /\ state[b] = "built" => place[b][1] = Len(kube) + 1

\* The inductive invariant.
BuildersInv ==
  /\ kube \in Seq(ListType)
  /\ place \in [Builders -> Nat \X Nat]
  /\ DOMAIN state = Builders
  /\ \A b \in Builders : ShowsItsPart(b)

LEMMA BuildersInitially == InventoriesInit => BuildersInv
<1> SUFFICES ASSUME InventoriesInit
             PROVE  BuildersInv
  OBVIOUS
<1>1. kube \in Seq(ListType) /\ Len(kube) \in Nat
  BY ClustersAssumption DEF InventoriesInit
<1>2. place = [b \in Builders |-> <<1, 0>>] /\ state = [b \in Builders |-> "building"]
  BY DEF InventoriesInit, EmptyInventories
<1>3. place \in [Builders -> Nat \X Nat] /\ DOMAIN state = Builders
  <2>1. <<1, 0>> \in Nat \X Nat
    OBVIOUS
  <2>2. PICK v \in Nat \X Nat : v = <<1, 0>>
    BY <2>1
  <2>3. place \in [Builders -> Nat \X Nat]
    BY <1>2, <2>2
  <2>4. DOMAIN state = Builders
    BY <1>2
  <2> QED BY <2>3, <2>4
<1>4. 1 <= Len(kube) => 0 <= Len(kube[1].objects)
  BY <1>1, ListTyped
<1>5. ASSUME NEW b \in Builders
      PROVE  ShowsItsPart(b)
  <2>1. place[b][1] = 1 /\ place[b][2] = 0 /\ state[b] = "building"
    BY <1>2
  <2>2. Map(b) = Empty
    BY DEF Map, InventoriesInit, EmptyInventories
  <2>3. \A c \in DOMAIN kube : \A d \in DOMAIN kube[c].objects : ~Earlier(c, d, 1, 0)
    BY <1>1, ListTyped DEF Earlier
  <2>4. ShownUpTo(b, Map(b), kube, plurals, 1, 0)
    BY <2>2, <2>3 DEF ShownUpTo, Empty
  <2> QED BY <1>1, <1>4, <2>1, <2>4 DEF ShowsItsPart
<1> QED BY <1>1, <1>3, <1>5 DEF BuildersInv

\* Where a builder stands when it is at an object of a list.
LEMMA Standing ==
  ASSUME BuildersInv, NEW b \in Builders, place[b][1] <= Len(kube)
  PROVE  \E i \in DOMAIN kube, j \in Nat :
           /\ place[b] = <<i, j>> /\ j <= Len(kube[i].objects)
           /\ j > 0 => j \in DOMAIN kube[i].objects
           /\ ShownUpTo(b, Map(b), kube, plurals, i, j)
<1>1. PICK i \in Nat, j \in Nat : place[b] = <<i, j>>
  BY DEF BuildersInv
<1>2. kube \in Seq(ListType) /\ i \in DOMAIN kube /\ j <= Len(kube[i].objects)
      /\ ShownUpTo(b, Map(b), kube, plurals, i, j)
  BY <1>1 DEF BuildersInv, ShowsItsPart
<1>3. DOMAIN kube[i].objects = 1..Len(kube[i].objects) /\ Len(kube[i].objects) \in Nat
  BY <1>2, ListTyped
<1>4. j > 0 => j \in DOMAIN kube[i].objects
  BY <1>2, <1>3
<1> QED BY <1>1, <1>2, <1>4

\* A builder moves on from its place, and the other stays.
LEMMA BuilderForward ==
  ASSUME BuildersInv, NEW b \in Builders, place[b][1] <= Len(kube),
         Forward(b), UNCHANGED <<kube, plurals, state>>,
         state[b] = "building",
         \A c \in Builders : c # b => Map(c)' = Map(c),
         ShownUpTo(b, Map(b)', kube, plurals, place[b][1], place[b][2] + 1)
  PROVE  BuildersInv'
<1>1. PICK k \in Seq(ListType) : k = kube
  BY DEF BuildersInv
<1>2. PICK i \in DOMAIN k, j \in Nat : place[b] = <<i, j>> /\ j <= Len(k[i].objects)
  BY <1>1, Standing
<1>3. /\ i \in Nat /\ Len(k) \in Nat /\ i <= Len(k) /\ Len(k[i].objects) \in Nat
      /\ ShownUpTo(b, Map(b)', k, plurals, i, j + 1)
  BY <1>1, <1>2, ListTyped
<1>4. PICK v \in Nat \X Nat : v = IF j < Len(k[i].objects) THEN <<i, j + 1>> ELSE <<i + 1, 0>>
  <2>1. <<i, j + 1>> \in Nat \X Nat /\ <<i + 1, 0>> \in Nat \X Nat
    BY <1>3
  <2> QED BY <2>1
<1>5. place' = [place EXCEPT ![b] = v]
  BY <1>1, <1>2, <1>4 DEF Forward, List
<1>6. place' \in [Builders -> Nat \X Nat] /\ place'[b] = v
  BY <1>5 DEF BuildersInv
<1>7. ShowsItsPart(b)'
  <2>1. CASE j < Len(k[i].objects)
    <3>1. place'[b][1] = i /\ place'[b][2] = j + 1
      BY <1>4, <1>6, <2>1
    <3>2. i \in 1..(Len(k) + 1) /\ j + 1 <= Len(k[i].objects)
      BY <1>3, <2>1
    <3>3. ShownUpTo(b, Map(b)', kube', plurals', i, j + 1)
      BY <1>1, <1>3
    <3> QED BY <1>1, <3>1, <3>2, <3>3 DEF ShowsItsPart
  <2>2. CASE ~(j < Len(k[i].objects))
    <3>1. place'[b][1] = i + 1 /\ place'[b][2] = 0
      BY <1>4, <1>6, <2>2
    <3>2. j = Len(k[i].objects)
      BY <1>2, <1>3, <2>2
    <3>3. ShownUpTo(b, Map(b)', k, plurals, i + 1, 0)
      BY <1>3, <3>2, ShownByList
    <3>4. ShownUpTo(b, Map(b)', kube', plurals', i + 1, 0)
      BY <1>1, <3>3
    <3>5. i + 1 \in 1..(Len(k) + 1) /\ (i + 1 <= Len(k) => 0 <= Len(k[i + 1].objects))
      <4>1. i + 1 \in 1..(Len(k) + 1) /\ (i + 1 <= Len(k) => i + 1 \in DOMAIN k)
        BY <1>3, ListTyped
      <4> QED BY <4>1, ListTyped
    <3> QED BY <1>1, <3>1, <3>4, <3>5 DEF ShowsItsPart
  <2> QED BY <2>1, <2>2
<1>8. ASSUME NEW c \in Builders, c # b
      PROVE  ShowsItsPart(c)'
  <2>1. place'[c] = place[c] /\ Map(c)' = Map(c)
    BY <1>5, <1>8 DEF BuildersInv
  <2>2. ShowsItsPart(c)
    BY DEF BuildersInv
  <2> QED BY <2>1, <2>2 DEF ShowsItsPart
<1> QED BY <1>6, <1>7, <1>8 DEF BuildersInv

\* A builder ends, as built only behind the last list.
LEMMA BuilderEnds ==
  ASSUME BuildersInv, NEW b \in Builders, NEW s,
         state' = [state EXCEPT ![b] = s], s = "built" => place[b][1] = Len(kube) + 1,
         UNCHANGED <<kube, plurals, place, gatekeeper, opa>>
  PROVE  BuildersInv'
<1>1. DOMAIN state' = Builders
  BY DEF BuildersInv
<1>2. ASSUME NEW c \in Builders
      PROVE  ShowsItsPart(c)'
  <2>1. ShowsItsPart(c) /\ Map(c)' = Map(c)
    BY DEF BuildersInv, Map
  <2>2. state'[c] = "built" => place[c][1] = Len(kube) + 1
    <3>1. state'[c] = IF c = b THEN s ELSE state[c]
      BY DEF BuildersInv
    <3> QED BY <2>1, <3>1 DEF ShowsItsPart
  <2> QED BY <2>1, <2>2 DEF ShowsItsPart
<1> QED BY <1>1, <1>2 DEF BuildersInv

LEMMA EnterListStep ==
  ASSUME BuildersInv, NEW b \in Builders, EnterList(b)
  PROVE  BuildersInv'
<1>1. /\ place[b][1] <= Len(kube) /\ place[b][2] = 0 /\ state[b] = "building"
      /\ Forward(b) /\ UNCHANGED <<kube, plurals, state, gatekeeper, opa>>
  BY DEF EnterList, Entering
<1>2. PICK k \in Seq(ListType) : k = kube
  BY DEF BuildersInv
<1>3. PICK i \in DOMAIN k, j \in Nat :
        place[b] = <<i, j>> /\ ShownUpTo(b, Map(b), k, plurals, i, j)
  BY <1>1, <1>2, Standing
<1>4. ShownUpTo(b, Map(b), k, plurals, i, 0 + 1)
  BY <1>1, <1>3, ShownOnEntering
<1>5. \A c \in Builders : Map(c)' = Map(c)
  BY <1>1 DEF Map
<1>6. ShownUpTo(b, Map(b)', kube, plurals, place[b][1], place[b][2] + 1)
  BY <1>1, <1>2, <1>3, <1>4, <1>5
<1> QED BY <1>1, <1>5, <1>6, BuilderForward

LEMMA RegisterStep ==
  ASSUME BuildersInv, NEW b \in Builders, AtObject(b), Forward(b),
         UNCHANGED <<kube, plurals, state>>,
         \A c \in Builders : c # b => Map(c)' = Map(c),
         Map(b)' = Insert(Map(b),
                          IF b = "gatekeeper" THEN GatekeeperPath(Resource(b), Object(b))
                                              ELSE OpaPath(plurals[Resource(b)], Object(b)),
                          Object(b))
  PROVE  BuildersInv'
<1>1. place[b][1] <= Len(kube) /\ place[b][2] > 0 /\ state[b] = "building"
  BY DEF AtObject
<1>2. PICK k \in Seq(ListType) : k = kube
  BY DEF BuildersInv
<1>3. PICK i \in DOMAIN k, j \in Nat :
        /\ place[b] = <<i, j>> /\ (j > 0 => j \in DOMAIN k[i].objects)
        /\ ShownUpTo(b, Map(b), k, plurals, i, j)
  BY <1>1, <1>2, Standing
<1>4. j \in DOMAIN k[i].objects
  BY <1>1, <1>3
<1>5. Resource(b) = k[i].resource /\ Object(b) = k[i].objects[j]
  BY <1>2, <1>3 DEF Resource, Object, List
<1>6. Map(b)' = Insert(Map(b), Key(b, k, plurals, i, j), k[i].objects[j])
  BY <1>5 DEF Key
<1>7. ShownUpTo(b, Map(b)', k, plurals, i, j + 1)
  BY <1>3, <1>4, <1>6, ShownOneMore
<1>8. ShownUpTo(b, Map(b)', kube, plurals, place[b][1], place[b][2] + 1)
  BY <1>2, <1>3, <1>7
<1> QED BY <1>1, <1>8, BuilderForward

LEMMA BuildersStep == BuildersInv /\ [InventoriesNext]_inventoryVars => BuildersInv'
<1> SUFFICES ASSUME BuildersInv, [InventoriesNext]_inventoryVars
             PROVE  BuildersInv'
  OBVIOUS
<1>1. ASSUME NEW b \in Builders, EnterList(b)
      PROVE  BuildersInv'
  BY <1>1, EnterListStep
<1>2. ASSUME NEW b \in Builders, Nameless(b)
      PROVE  BuildersInv'
  BY <1>2, BuilderEnds DEF Nameless, Abandon
<1>3. ASSUME NEW b \in Builders, Complete(b)
      PROVE  BuildersInv'
  <2>1. place[b][1] = Len(kube) + 1
    <3>1. place[b][1] \in 1..(Len(kube) + 1) /\ place[b][1] > Len(kube) /\ Len(kube) \in Nat
      BY <1>3 DEF Complete, BuildersInv, ShowsItsPart
    <3> QED BY <3>1
  <2> QED BY <1>3, <2>1, BuilderEnds DEF Complete
<1>4. CASE NoPluralName \/ OtherScope
  <2>1. "opa" \in Builders /\ Abandon("opa")
    BY <1>4 DEF NoPluralName, OtherScope, Builders
  <2> QED BY <2>1, BuilderEnds DEF Abandon
<1>5. CASE RegisterInGatekeeper
  <2>1. /\ "gatekeeper" \in Builders /\ AtObject("gatekeeper") /\ Forward("gatekeeper")
        /\ UNCHANGED <<kube, plurals, state>>
        /\ \A c \in Builders : c # "gatekeeper" => Map(c)' = Map(c)
        /\ Map("gatekeeper")' =
             Insert(Map("gatekeeper"),
                    GatekeeperPath(Resource("gatekeeper"), Object("gatekeeper")),
                    Object("gatekeeper"))
    BY <1>5 DEF RegisterInGatekeeper, Builders, Map
  <2> QED BY <2>1, RegisterStep
<1>6. CASE RegisterInOpa
  <2>1. /\ "opa" \in Builders /\ "opa" # "gatekeeper" /\ AtObject("opa") /\ Forward("opa")
        /\ UNCHANGED <<kube, plurals, state>>
        /\ \A c \in Builders : c # "opa" => Map(c)' = Map(c)
        /\ Map("opa")' = Insert(Map("opa"), OpaPath(plurals[Resource("opa")], Object("opa")),
                                Object("opa"))
    BY <1>6 DEF RegisterInOpa, Builders, Map, Plural
  <2> QED BY <2>1, RegisterStep
<1>7. CASE UNCHANGED inventoryVars
  <2>1. ASSUME NEW b \in Builders
        PROVE  ShowsItsPart(b)'
    BY <1>7 DEF inventoryVars, BuildersInv, ShowsItsPart, Map
  <2> QED BY <1>7, <2>1 DEF inventoryVars, BuildersInv
<1> QED BY <1>1, <1>2, <1>3, <1>4, <1>5, <1>6, <1>7 DEF InventoriesNext

-----------------------------------------------------------------------------
(* What is shown when a builder has ended.                                 *)

\* The object at a place, as Listed has it.
Item(k, a, b) ==
  [resource |-> k[a].resource, object |-> k[a].objects[b], list |-> a, nth |-> b]

LEMMA ListedItems ==
  \A x : x \in Listed <=>
    \E a \in DOMAIN kube : \E b \in DOMAIN kube[a].objects : x = Item(kube, a, b)
BY DEF Listed, Item

PathOf(b, x) ==
  IF b = "gatekeeper" THEN GatekeeperPath(x.resource, x.object)
                      ELSE OpaPath(plurals[x.resource], x.object)

\* A built inventory has the paths of what is listed, and under each path the last
\* object of it.
LEMMA BuiltShowsTheLast ==
  ASSUME BuildersInv, NEW b \in Builders, state[b] = "built"
  PROVE  /\ DOMAIN Map(b) = {PathOf(b, x) : x \in Listed}
         /\ \A x \in Listed : \E y \in Listed :
              /\ PathOf(b, y) = PathOf(b, x) /\ Map(b)[PathOf(b, x)] = y.object
              /\ \A z \in Listed : PathOf(b, z) = PathOf(b, x) => z = y \/ Behind(y, z)
<1>1. PICK k \in Seq(ListType) : k = kube
  BY DEF BuildersInv
<1>2. PICK j \in Nat : ShownUpTo(b, Map(b), k, plurals, Len(k) + 1, j)
  BY <1>1 DEF BuildersInv, ShowsItsPart
<1>3. ASSUME NEW c \in DOMAIN k, NEW d \in DOMAIN k[c].objects
      PROVE  /\ Earlier(c, d, Len(k) + 1, j)
             /\ Item(k, c, d) \in Listed
             /\ PathOf(b, Item(k, c, d)) = Key(b, k, plurals, c, d)
  <2>1. Earlier(c, d, Len(k) + 1, j)
    BY ListTyped DEF Earlier
  <2>2. Item(k, c, d) \in Listed
    BY <1>1, ListedItems
  <2>3. PathOf(b, Item(k, c, d)) = Key(b, k, plurals, c, d)
    BY DEF PathOf, Item, Key
  <2> QED BY <2>1, <2>2, <2>3
<1>4. ASSUME NEW x \in Listed
      PROVE  \E c \in DOMAIN k : \E d \in DOMAIN k[c].objects : x = Item(k, c, d)
  BY <1>1, ListedItems
<1>5. ASSUME NEW p \in DOMAIN Map(b)
      PROVE  \E y \in Listed :
               /\ PathOf(b, y) = p /\ Map(b)[p] = y.object
               /\ \A z \in Listed : PathOf(b, z) = p => z = y \/ Behind(y, z)
  <2>1. PICK c \in DOMAIN k : \E d \in DOMAIN k[c].objects :
               /\ p = Key(b, k, plurals, c, d) /\ Map(b)[p] = k[c].objects[d]
               /\ IsLast(b, k, plurals, c, d, Len(k) + 1, j)
    BY <1>2 DEF ShownUpTo
  <2>2. PICK d \in DOMAIN k[c].objects :
               /\ p = Key(b, k, plurals, c, d) /\ Map(b)[p] = k[c].objects[d]
               /\ IsLast(b, k, plurals, c, d, Len(k) + 1, j)
    BY <2>1
  <2>3. ASSUME NEW z \in Listed, PathOf(b, z) = p
        PROVE  z = Item(k, c, d) \/ Behind(Item(k, c, d), z)
    <3>1. PICK e \in DOMAIN k : \E f \in DOMAIN k[e].objects : z = Item(k, e, f)
      BY <1>4
    <3>2. PICK f \in DOMAIN k[e].objects : z = Item(k, e, f)
      BY <3>1
    <3>3. Key(b, k, plurals, e, f) = Key(b, k, plurals, c, d)
      BY <1>3, <2>2, <2>3, <3>2
    <3>4. ~Earlier(c, d, e, f)
      BY <1>3, <2>2, <3>3 DEF IsLast
    <3>5. (c = e /\ d = f) \/ Earlier(e, f, c, d)
      BY <3>4, ListTyped DEF Earlier
    <3>6. CASE Earlier(e, f, c, d)
      BY <3>2, <3>6, ListTyped DEF Earlier, Behind, Item
    <3> QED BY <3>2, <3>5, <3>6
  <2>4. Map(b)[p] = Item(k, c, d).object
    BY <2>2 DEF Item
  <2> QED BY <1>3, <2>2, <2>3, <2>4
<1>6. ASSUME NEW x \in Listed
      PROVE  PathOf(b, x) \in DOMAIN Map(b)
  <2>1. PICK c \in DOMAIN k : \E d \in DOMAIN k[c].objects : x = Item(k, c, d)
    BY <1>4
  <2> QED BY <1>2, <1>3, <2>1 DEF ShownUpTo
<1>7. DOMAIN Map(b) = {PathOf(b, x) : x \in Listed}
  BY <1>5, <1>6
<1> QED BY <1>5, <1>6, <1>7

\* A path through Gatekeeper's inventory tells the resource, and where it leads
\* Open Policy Agent's.
LEMMA GatekeeperPathTells ==
  ASSUME kube \in Seq(ListType), NEW x \in Listed, NEW y \in Listed,
         PathOf("gatekeeper", x) = PathOf("gatekeeper", y)
  PROVE  x.resource = y.resource /\ PathOf("opa", x) = PathOf("opa", y)
<1>1. /\ x.resource.api = y.resource.api /\ x.resource.kind = y.resource.kind
      /\ x.object.namespace = y.object.namespace /\ x.object.name = y.object.name
  BY DEF PathOf, GatekeeperPath
<1>2. ASSUME NEW z \in Listed
      PROVE  z.resource \in [api : STRING, kind : STRING]
  <2>1. PICK a \in DOMAIN kube : \E b \in DOMAIN kube[a].objects : z = Item(kube, a, b)
    BY ListedItems
  <2>2. z.resource = kube[a].resource
    BY <2>1 DEF Item
  <2> QED BY <2>2, ListTyped
<1>3. PICK r \in [api : STRING, kind : STRING], s \in [api : STRING, kind : STRING] :
        r = x.resource /\ s = y.resource
  BY <1>2
<1>4. x.resource = y.resource
  BY <1>1, <1>3
<1> QED BY <1>1, <1>4 DEF PathOf, OpaPath

\* A Gatekeeper policy sees each listed object under its API version, kind,
\* namespace and name, and nothing else, whatever the lists hold
\* (GatekeeperInventory::new).
THEOREM GatekeeperIsComplete == InventoriesSpec => []GatekeeperShowsWhatIsListed
<1>1. BuildersInv => GatekeeperShowsWhatIsListed
  <2> SUFFICES ASSUME BuildersInv, state["gatekeeper"] = "built"
               PROVE  GatekeeperShowsWhatIsListed
    BY DEF GatekeeperShowsWhatIsListed
  <2>1. /\ "gatekeeper" \in Builders /\ Map("gatekeeper") = gatekeeper
        /\ \A x : PathOf("gatekeeper", x) = GatekeeperPath(x.resource, x.object)
    BY DEF Builders, Map, PathOf
  <2>2. DOMAIN gatekeeper = {GatekeeperPath(x.resource, x.object) : x \in Listed}
    BY <2>1, BuiltShowsTheLast
  <2>3. ASSUME NEW x \in Listed
        PROVE  \/ gatekeeper[GatekeeperPath(x.resource, x.object)] = x.object
               \/ \E y \in Listed :
                    /\ Behind(y, x)
                    /\ GatekeeperPath(y.resource, y.object) = GatekeeperPath(x.resource, x.object)
                    /\ y.resource = x.resource
    <3>1. PICK y \in Listed :
            /\ PathOf("gatekeeper", y) = PathOf("gatekeeper", x)
            /\ gatekeeper[PathOf("gatekeeper", x)] = y.object
            /\ x = y \/ Behind(y, x)
      BY <2>1, BuiltShowsTheLast
    <3>2. y.resource = x.resource
      BY <3>1, GatekeeperPathTells DEF BuildersInv
    <3> QED BY <2>1, <3>1, <3>2
  <2> QED BY <2>2, <2>3 DEF GatekeeperShowsWhatIsListed
<1> QED BY <1>1, BuildersInitially, BuildersStep, PTL DEF InventoriesSpec

\* Both kinds of policy find the same object under a namespace and a name, unless
\* another resource takes its place under a shared plural name (OpaInventory::new).
THEOREM InventoriesAgree == InventoriesSpec => []BothShowTheSame
<1>1. BuildersInv => BothShowTheSame
  <2> SUFFICES ASSUME BuildersInv, state = [b \in Builders |-> "built"]
               PROVE  BothShowTheSame
    BY DEF BothShowTheSame
  <2>1. /\ "gatekeeper" \in Builders /\ Map("gatekeeper") = gatekeeper
        /\ state["gatekeeper"] = "built"
        /\ "opa" \in Builders /\ Map("opa") = opa /\ state["opa"] = "built"
    BY DEF Builders, Map
  <2>2. \A x : /\ PathOf("gatekeeper", x) = GatekeeperPath(x.resource, x.object)
               /\ PathOf("opa", x) = OpaPath(plurals[x.resource], x.object)
    BY DEF PathOf
  <2>3. DOMAIN opa = {OpaPath(plurals[x.resource], x.object) : x \in Listed}
    <3>1. DOMAIN opa = {PathOf("opa", x) : x \in Listed}
      BY <2>1, BuiltShowsTheLast
    <3> QED BY <2>2, <3>1
  <2>4. ASSUME NEW x \in Listed
        PROVE  \/ opa[PathOf("opa", x)] = gatekeeper[PathOf("gatekeeper", x)]
               \/ \E y \in Listed : /\ Behind(y, x) /\ y.resource # x.resource
                                    /\ PathOf("opa", y) = PathOf("opa", x)
    <3>1. PICK y \in Listed :
            /\ PathOf("gatekeeper", y) = PathOf("gatekeeper", x)
            /\ gatekeeper[PathOf("gatekeeper", x)] = y.object
            /\ \A z \in Listed : PathOf("gatekeeper", z) = PathOf("gatekeeper", x) =>
                 z = y \/ Behind(y, z)
      BY <2>1, BuiltShowsTheLast
    <3>2. PICK z \in Listed :
            /\ PathOf("opa", z) = PathOf("opa", x)
            /\ opa[PathOf("opa", x)] = z.object
            /\ \A w \in Listed : PathOf("opa", w) = PathOf("opa", x) => w = z \/ Behind(z, w)
      BY <2>1, BuiltShowsTheLast
    <3>3. CASE z.resource # x.resource
      BY <3>2, <3>3
    <3>4. CASE z.resource = x.resource
      <4>1. PathOf("gatekeeper", z) = PathOf("gatekeeper", x)
        <5>1. z.object.namespace = x.object.namespace /\ z.object.name = x.object.name
          BY <3>2 DEF PathOf, OpaPath
        <5> QED BY <3>4, <5>1 DEF PathOf, GatekeeperPath
      <4>2. PathOf("opa", y) = PathOf("opa", x)
        BY <3>1, GatekeeperPathTells DEF BuildersInv
      <4>3. (z = y \/ Behind(y, z)) /\ (y = z \/ Behind(z, y))
        BY <3>1, <3>2, <4>1, <4>2
      <4>4. ~(Behind(y, z) /\ Behind(z, y))
        <5>1. ASSUME NEW w \in Listed
              PROVE  w.list \in Nat /\ w.nth \in Nat
          <6>1. PICK a \in DOMAIN kube : \E b \in DOMAIN kube[a].objects : w = Item(kube, a, b)
            BY ListedItems
          <6>2. PICK b \in DOMAIN kube[a].objects : w = Item(kube, a, b)
            BY <6>1
          <6>3. a \in Nat /\ b \in Nat
            BY ListTyped DEF BuildersInv
          <6> QED BY <6>2, <6>3 DEF Item
        <5>2. PICK m \in Nat, n \in Nat, r \in Nat, s \in Nat :
                y.list = m /\ y.nth = n /\ z.list = r /\ z.nth = s
          BY <5>1
        <5> QED BY <5>2 DEF Behind
      <4> QED BY <3>1, <3>2, <4>3, <4>4
    <3> QED BY <3>3, <3>4
  <2> QED BY <2>2, <2>3, <2>4 DEF BothShowTheSame
<1> QED BY <1>1, BuildersInitially, BuildersStep, PTL DEF InventoriesSpec

-----------------------------------------------------------------------------
(* Certificates.                                                           *)

\* The time the request is about.
TimeAsked == IF asked.notAfter.form = "none" THEN Present ELSE asked.notAfter.time

\* A path from the certificate to what is trusted, when it is valid.
AnchoredAt(t) ==
  LET chain == asked.chain.certificates
      last == Len(chain)
  IN  IF asked.chain.given
        THEN last > 0 /\ Anchored(asked.certificate, {chain[i] : i \in 1..(last - 1)}, {chain[last]}, t)
        ELSE Anchored(asked.certificate, {}, Mozilla, t)

\* The inductive invariant.  What webpki is given says the same as the request,
\* but for the time, which may be another.
CertificateInv ==
  /\ asked \in Requests
  /\ stage \in {"certificate", "time", "pool"} => intermediates = {}
  /\ stage \in {"pool", "verify"} => moment = AsU64(TimeAsked)
  /\ stage = "verify" =>
       (Anchored(asked.certificate, intermediates, roots, moment) => AnchoredAt(moment))
  /\ stage = "done" /\ response.trusted => AnchoredAt(TimeAsked)

\* Nothing is anchored in nothing.
LEMMA NoAnchors ==
  ASSUME NEW c, NEW pool, NEW t
  PROVE  ~Anchored(c, pool, {}, t)
BY DEF Anchored

LEMMA RequestTyped ==
  ASSUME NEW q \in Requests
  PROVE  /\ q \in RequestType
         /\ q.chain.certificates \in Seq(CertificateType)
         /\ q.certificate.until \in Int
         /\ q.notAfter.time \in Int
<1>1. q \in RequestType
  BY TimesAssumption
<1> QED BY <1>1 DEF RequestType, CertificateType

LEMMA MomentTyped ==
  ASSUME asked \in Requests, moment = AsU64(TimeAsked)
  PROVE  moment \in Int
BY RequestTyped, TimesAssumption DEF AsU64, TimeAsked

\* A time that is not the one it is taken for is later than the end of the
\* certificate.
LEMMA TakenForLater ==
  ASSUME asked \in Requests, AsU64(TimeAsked) <= asked.certificate.until
  PROVE  AsU64(TimeAsked) = TimeAsked
<1>1. PICK w \in Nat : w = Word /\ w > 0 /\ Present \in 0..(w - 1)
  BY TimesAssumption
<1>2. PICK t \in Int : t = TimeAsked
  BY <1>1, RequestTyped DEF TimeAsked
<1>3. PICK u \in Int : u = asked.certificate.until
  BY RequestTyped
<1>4. CASE asked.notAfter.form = "none"
  <2>1. t \in 0..(w - 1)
    BY <1>1, <1>2, <1>4 DEF TimeAsked
  <2>2. t % w = t
    BY <1>1, <2>1
  <2> QED BY <1>1, <1>2, <2>2 DEF AsU64
<1>5. CASE asked.notAfter.form # "none"
  <2>1. t \in (-w)..(w - 1) /\ u < w + t
    BY <1>1, <1>2, <1>3, <1>5, TimesAssumption DEF TimeAsked
  <2>2. t % w <= u
    BY <1>1, <1>2, <1>3 DEF AsU64
  <2>3. t >= 0
    <3> SUFFICES ASSUME t < 0
                 PROVE  FALSE
      BY <1>2
    <3>1. t + w \in 0..(w - 1)
      BY <1>1, <2>1
    <3>2. t % w = t + w
      BY <1>1, <3>1
    <3> QED BY <1>1, <2>1, <2>2, <3>2
  <2>4. t % w = t
    BY <1>1, <2>1, <2>3
  <2> QED BY <1>1, <1>2, <2>4 DEF AsU64
<1> QED BY <1>4, <1>5

LEMMA TakeStep ==
  ASSUME CertificateInv, TakeCertificate \/ TakeTime
  PROVE  CertificateInv'
<1>1. UNCHANGED <<asked, intermediates>>
  BY DEF TakeCertificate, TakeTime
<1>2. TimeAsked' = TimeAsked
  BY <1>1 DEF TimeAsked
<1>3. CASE stage' = "done" /\ response' = Error
  <2>1. ~response'.trusted
    BY <1>3 DEF Error
  <2> QED BY <1>1, <1>3, <2>1 DEF CertificateInv
<1>4. CASE stage = "certificate" /\ stage' = "time"
  BY <1>1, <1>4 DEF CertificateInv
<1>5. CASE stage = "time" /\ stage' = "pool" /\ moment' = AsU64(TimeAsked)
  BY <1>1, <1>2, <1>5 DEF CertificateInv, AsU64
<1>6. \/ stage' = "done" /\ response' = Error
      \/ stage = "certificate" /\ stage' = "time"
      \/ stage = "time" /\ stage' = "pool" /\ moment' = AsU64(TimeAsked)
  BY DEF TakeCertificate, TakeTime, Answer, TimeAsked
<1> QED BY <1>3, <1>4, <1>5, <1>6

LEMMA PoolStep ==
  ASSUME CertificateInv, UseMozilla \/ UseChain
  PROVE  CertificateInv'
<1>1. stage = "pool" /\ UNCHANGED <<asked, moment>> /\ TimeAsked' = TimeAsked
  BY DEF UseMozilla, UseChain, TimeAsked
<1>2. moment = AsU64(TimeAsked) /\ intermediates = {} /\ asked \in Requests
  BY <1>1 DEF CertificateInv
<1>3. CASE stage' = "done" /\ response' = Error
  <2>1. ~response'.trusted
    BY <1>3 DEF Error
  <2> QED BY <1>1, <1>3, <2>1 DEF CertificateInv
<1>4. CASE UseMozilla
  <2>1. ~asked.chain.given /\ roots' = Mozilla /\ stage' = "verify" /\ UNCHANGED intermediates
    BY <1>4 DEF UseMozilla
  <2>2. Anchored(asked.certificate, intermediates', roots', moment) => AnchoredAt(moment)
    BY <1>2, <2>1 DEF AnchoredAt
  <2> QED BY <1>1, <1>2, <2>1, <2>2 DEF CertificateInv, AnchoredAt
<1>5. CASE UseChain /\ stage' = "verify"
  <2>1. PICK chain \in Seq(CertificateType) : chain = asked.chain.certificates
    BY <1>2, RequestTyped
  <2>2. /\ asked.chain.given
        /\ roots' = {chain[i] : i \in {Len(chain)} \ {0}}
        /\ intermediates' = {chain[i] : i \in DOMAIN chain \ ({Len(chain)} \ {0})}
    BY <1>5, <2>1 DEF UseChain, Answer
  <2>3. Len(chain) \in Nat /\ DOMAIN chain = 1..Len(chain)
    BY <2>1
  <2>4. CASE Len(chain) = 0
    <3>1. roots' = {}
      BY <2>2, <2>4
    <3>2. ~Anchored(asked.certificate, intermediates', roots', moment)
      BY <3>1, NoAnchors
    <3> QED BY <1>1, <1>2, <1>5, <3>2 DEF CertificateInv
  <2>5. CASE Len(chain) > 0
    <3>1. roots' = {chain[Len(chain)]}
      BY <2>2, <2>5
    <3>2. DOMAIN chain \ ({Len(chain)} \ {0}) = 1..(Len(chain) - 1)
      BY <2>3, <2>5
    <3>3. intermediates' = {chain[i] : i \in 1..(Len(chain) - 1)}
      BY <2>2, <3>2
    <3>4. Anchored(asked.certificate, intermediates', roots', moment) => AnchoredAt(moment)
      <4>1. AnchoredAt(moment) <=>
              Anchored(asked.certificate, {chain[i] : i \in 1..(Len(chain) - 1)},
                       {chain[Len(chain)]}, moment)
        BY <2>1, <2>2, <2>5 DEF AnchoredAt
      <4> QED BY <3>1, <3>3, <4>1
    <3>5. AnchoredAt(moment)' <=> AnchoredAt(moment)
      BY <1>1 DEF AnchoredAt
    <3> HIDE DEF AnchoredAt
    <3> QED BY <1>1, <1>2, <1>5, <3>4, <3>5 DEF CertificateInv
  <2> QED BY <2>3, <2>4, <2>5
<1>6. UseMozilla \/ (UseChain /\ stage' = "verify") \/ (stage' = "done" /\ response' = Error)
  BY DEF UseMozilla, UseChain, Answer
<1> QED BY <1>3, <1>4, <1>5, <1>6

LEMMA VerifyStep ==
  ASSUME CertificateInv, NEW result, Verify(result)
  PROVE  CertificateInv'
<1>1. /\ stage = "verify" /\ stage' = "done" /\ UNCHANGED <<asked, moment, roots, intermediates>>
      /\ result \in VerificationResults
      /\ TimeAsked' = TimeAsked
  BY DEF Verify, Answer, TimeAsked
<1>2. asked \in Requests /\ moment = AsU64(TimeAsked)
  BY <1>1 DEF CertificateInv
<1>3. CASE result # "ok"
  <2>1. ~response'.trusted
    BY <1>3 DEF Verify, Answer, Untrusted
  <2> QED BY <1>1, <1>2, <2>1 DEF CertificateInv
<1>4. CASE result = "ok"
  <2>1. /\ ~(moment > asked.certificate.until)
        /\ Anchored(asked.certificate, intermediates, roots, moment)
    <3> DEFINE late == moment > asked.certificate.until
               early == moment < asked.certificate.from
               anchored == Anchored(asked.certificate, intermediates, roots, moment)
    <3>1. anchored => ~late
      <4>1. anchored => moment <= asked.certificate.until
        BY DEF Anchored, ValidAt
      <4> QED BY <1>2, <4>1, RequestTyped, MomentTyped
    <3>2. VerificationResults =
            CASE late -> {"expired"} [] early -> {"not yet valid"} [] anchored -> {"ok", "other"}
              [] OTHER -> {"expired", "not yet valid", "bad signature", "unknown issuer", "other"}
      BY DEF VerificationResults
    <3> HIDE DEF late, early, anchored
    <3>3. anchored
      BY <1>1, <1>4, <3>2
    <3> QED BY <3>1, <3>3 DEF late, anchored
  <2>2. moment <= asked.certificate.until
    <3>1. moment \in Int
      BY <1>2, MomentTyped
    <3> QED BY <1>2, <2>1, <3>1, RequestTyped
  <2>3. moment = TimeAsked
    BY <1>2, <2>2, TakenForLater
  <2>4. AnchoredAt(TimeAsked)
    BY <1>1, <2>1, <2>3 DEF CertificateInv
  <2>5. AnchoredAt(TimeAsked)'
    BY <1>1, <2>4 DEF AnchoredAt
  <2> QED BY <1>1, <1>2, <2>5 DEF CertificateInv
<1> QED BY <1>3, <1>4

\* A certificate is trusted only along a path to the last of the chain given, or
\* else to one of Mozilla's roots, valid at the time asked for but for the dates of
\* the root; the conversion of a time before 1970 does not change that
\* (verify_certificate).
THEOREM Trust == CertificatesSpec => []TrustIsAnchored
<1>1. CertificatesInit => CertificateInv
  BY DEF CertificatesInit, NothingYet, Error, CertificateInv
<1>2. CertificateInv /\ [CertificatesNext]_certificateVars => CertificateInv'
  <2> SUFFICES ASSUME CertificateInv, [CertificatesNext]_certificateVars
               PROVE  CertificateInv'
    OBVIOUS
  <2>1. CASE UNCHANGED certificateVars
    BY <2>1 DEF certificateVars, CertificateInv, TimeAsked, AnchoredAt
  <2> QED BY <2>1, TakeStep, PoolStep, VerifyStep DEF CertificatesNext
<1>3. CertificateInv => TrustIsAnchored
  BY DEF CertificateInv, TrustIsAnchored, AnchoredAt, TimeAsked
<1> QED BY <1>1, <1>2, <1>3, PTL DEF CertificatesSpec
===============================================================================

---------------------------- MODULE PolicyMetadata ----------------------------
(***************************************************************************)
(* The validation of the metadata of a policy.  Most of it is about        *)
(* wildcards.  The resources of a rule are looked at one after the other,  *)
(* against what has been seen before: what is refused depends on their     *)
(* order.                                                                  *)
(*                                                                         *)
(* A resource is "res" or "res/sub"; what the rules turn on is whether a   *)
(* part is "*", empty, or the same as another.                             *)
(*                                                                         *)
(* Source: policy_metadata.rs.                                             *)
(***************************************************************************)
EXTENDS Naturals, Sequences

CONSTANTS
  Documents   \* metadata: protocol, mode, context and a sequence of rules

\* A resource without a subresource has this for one.
NoSub == "none"

RuleType ==
  [groups : Seq(STRING), versions : Seq(STRING), operations : Seq(STRING),
   resources : Seq([res : STRING, sub : STRING])]

ASSUME DocumentsAssumption == \A d \in Documents : d.rules \in Seq(RuleType)

VARIABLES
  document, rule, at,                   \* what is looked at
  subWildcards, resWildcards,           \* the x of x/* and the y of */y seen before
  double, single, plain,                \* the flags of validate_resources
  broken,                               \* some field has an error
  verdict

scanVars == <<at, subWildcards, resWildcards, double, single, plain>>
metadataVars == <<document, rule, scanVars, broken, verdict>>

-----------------------------------------------------------------------------
(* The validation.                                                         *)

RuleResources == document.rules[rule].resources
Candidate == RuleResources[at]

\* A "*" stands alone.
AloneIfWildcard(list) == (\E i \in DOMAIN list : list[i] = "*") => Len(list) = 1

Lists(r) ==
  /\ r.groups # <<>> /\ AloneIfWildcard(r.groups)
  /\ r.versions # <<>> /\ AloneIfWildcard(r.versions)
  /\ r.operations # <<>> /\ AloneIfWildcard(r.operations)
  /\ r.resources # <<>>

\* Only a waPC guest speaks a protocol with versions, yet all must state one.
Header(d) ==
  /\ d.protocol # "absent"
  /\ ~(d.mode = "wapc" /\ d.protocol = "unknown")
  /\ \A c \in d.context : c.api # "" /\ c.kind # ""

Scanning == verdict = "none" /\ rule <= Len(document.rules)

\* A slip: the wildcards of one rule are held against the next.
NextRuleKeepingWildcards(wrong) ==
  /\ broken' = (broken \/ wrong \/ ~Lists(document.rules[rule]))
  /\ rule' = rule + 1
  /\ at' = 1
  /\ double' = FALSE /\ single' = FALSE /\ plain' = FALSE
  /\ UNCHANGED <<document, subWildcards, resWildcards, verdict>>

\* The next rule is looked at afresh.
NextRule(wrong) ==
  /\ broken' = (broken \/ wrong \/ ~Lists(document.rules[rule]))
  /\ rule' = rule + 1
  /\ at' = 1
  /\ subWildcards' = {} /\ resWildcards' = {}
  /\ double' = FALSE /\ single' = FALSE /\ plain' = FALSE
  /\ UNCHANGED <<document, verdict>>

\* A resource that a wildcard before it covers.
Covered == Candidate.sub # NoSub /\ (Candidate.res \in subWildcards \/ Candidate.sub \in resWildcards)

\* An error ends the scan of the rule: what is behind is not looked at.
RefuseResource ==
  /\ Scanning /\ at <= Len(RuleResources)
  /\ Candidate = [res |-> "", sub |-> NoSub] \/ Covered
  /\ NextRule(TRUE)

\* The last resource without a subresource decides on plain.
PassResource ==
  /\ Scanning /\ at <= Len(RuleResources)
  /\ Candidate # [res |-> "", sub |-> NoSub] /\ ~Covered
  /\ at' = at + 1
  /\ double' = (double \/ Candidate = [res |-> "*", sub |-> "*"])
  /\ single' = (single \/ Candidate = [res |-> "*", sub |-> NoSub])
  /\ plain' = IF Candidate.sub = NoSub THEN Candidate.res # "*" ELSE plain
  /\ subWildcards' = IF Candidate.sub = "*" THEN subWildcards \cup {Candidate.res} ELSE subWildcards
  /\ resWildcards' = IF Candidate.sub # NoSub /\ Candidate.res = "*"
                       THEN resWildcards \cup {Candidate.sub} ELSE resWildcards
  /\ UNCHANGED <<document, rule, broken, verdict>>

EndOfRule ==
  /\ Scanning /\ at > Len(RuleResources)
  /\ NextRule((double /\ Len(RuleResources) > 1) \/ (single /\ plain))

\* The errors of all fields are gathered; the check of the whole is made
\* even if there are some.
Conclude ==
  /\ verdict = "none" /\ rule > Len(document.rules)
  /\ verdict' = IF ~broken /\ Header(document) THEN "accepted" ELSE "rejected"
  /\ UNCHANGED <<document, rule, scanVars, broken>>

-----------------------------------------------------------------------------
FreshScan ==
  /\ rule = 1 /\ at = 1
  /\ subWildcards = {} /\ resWildcards = {}
  /\ double = FALSE /\ single = FALSE /\ plain = FALSE
  /\ broken = FALSE

MetadataInit == document \in Documents /\ FreshScan /\ verdict = "none"

\* No call has been made.
MetadataRest ==
  /\ document = [protocol |-> "absent", mode |-> "wapc", context |-> {}, rules |-> <<>>]
  /\ FreshScan /\ verdict = "unasked"

MetadataNext ==
  \/ RefuseResource
  \/ PassResource
  \/ EndOfRule
  \/ Conclude

MetadataSpec == MetadataInit /\ [][MetadataNext]_metadataVars

-----------------------------------------------------------------------------
(* Properties.                                                             *)

\* Resource b is one of those wildcard a stands for.
Covers(a, b) ==
  /\ b.sub # NoSub
  /\ \/ a = [res |-> b.res, sub |-> "*"]
     \/ a = [res |-> "*", sub |-> b.sub]

IsPlain(r) == r.sub = NoSub /\ r.res # "*"
IsSingle(r) == r.sub = NoSub /\ r.res = "*"

\* A list of resources is in order if no resource comes behind a wildcard that
\* covers it, "*/*" is alone, and behind "*" and a resource without a
\* subresource, whichever is first, comes a "*".
InOrder(list) ==
  /\ \A i \in DOMAIN list : list[i] # [res |-> "", sub |-> NoSub]
  /\ \A i, j \in DOMAIN list : i < j => ~Covers(list[i], list[j])
  /\ (\E i \in DOMAIN list : list[i] = [res |-> "*", sub |-> "*"]) => Len(list) = 1
  /\ (\E i \in DOMAIN list : IsSingle(list[i])) =>
       \A i \in DOMAIN list : IsPlain(list[i]) => \E j \in DOMAIN list : i < j /\ IsSingle(list[j])

\* The validation, resource after resource and rule after rule, accepts exactly
\* the documents each rule of which is in order: nothing seen in one rule is
\* held against another, no wildcard before a resource is forgotten, and an error
\* in one field hides none (Validate for Metadata, validate_resources).
VerdictIsTheRule ==
  verdict \in {"accepted", "rejected"} =>
    (verdict = "accepted" <=>
      /\ Header(document)
      /\ \A i \in DOMAIN document.rules :
           Lists(document.rules[i]) /\ InOrder(document.rules[i].resources))

\* "if '*' is present, must not specify other resources without subresources"
\* (policy_metadata.rs:133-135): of an accepted document no rule does.
SingleWildcardExcludesPlain ==
  verdict = "accepted" =>
    \A i \in DOMAIN document.rules :
      ~ \E j, k \in DOMAIN document.rules[i].resources :
          IsSingle(document.rules[i].resources[j]) /\ IsPlain(document.rules[i].resources[k])
=============================================================================

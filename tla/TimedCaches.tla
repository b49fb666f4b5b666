----------------------------- MODULE TimedCaches -----------------------------
(***************************************************************************)
(* The ten #[cached] functions of the callback handler.  Each keeps a      *)
(* static cache of its own behind an asynchronous mutex that a caller      *)
(* holds over the look-up, the fetch and the store (sync_writes), so the   *)
(* callers of one function wait for one another in the order they came.    *)
(* An entry is served until it has reached the life time of its cache.     *)
(* Beneath the five verifications lie one sigstore client, shared behind a *)
(* second mutex, and the time-bound cache of the registry data it reads.   *)
(*                                                                         *)
(* Sources: callback_handler/oci.rs, sigstore_verification.rs,             *)
(* kubernetes.rs, kubernetes/client.rs, callback_handler.rs.               *)
(***************************************************************************)
EXTENDS Naturals, Sequences, SequencesExt

CONSTANTS
  Tasks,              \* the tasks that serve a request, one at a time each
  Subjects,           \* the images, resources and access reviews asked about
  Signers,            \* the keys, identities, owners and certificates named
  Questions,          \* the requests the policies make
  Met,                \* subject -> version -> the constraints it satisfies
  Text,               \* what is hashed of a subject, a signer, some annotations
  MalformedPrefixes,  \* url prefixes that do not parse
  MayHang,            \* the functions whose fetch may never end
  HasKubeClient,
  ShortLifetime,      \* 5 seconds: Kubernetes
  LongLifetime,       \* 60 seconds: registry and signatures
  RegistryLifetime,   \* the same, for the registry data beneath sigstore
  MaxVersions,        \* bound: how often a subject is seen to change
  MaxTime,            \* bound: the last instant
  MaxCalls,           \* bound: how many requests are made
  AnySigner, NoChain, NoEntry, NoQuestion

OciFunctions == {"digest", "manifest", "manifest_and_config"}
KubernetesFunctions == {"get_resource", "can_i"}
SigstoreFunctions ==
  {"pub_key", "keyless", "keyless_prefix", "github_actions", "certificate"}
CachedFunctions == OciFunctions \cup KubernetesFunctions \cup SigstoreFunctions

\* The arguments of a call.  `signers` are the keys, the identities, the owner
\* and repository, or the certificate and whether it needs a Rekor bundle; only
\* a certificate has a `chain`.
Fields ==
  {"function", "subject", "signers", "chain", "annotations", "disable_cache"}

Sigstore(q) == q.function \in SigstoreFunctions

Lifetime(q) ==
  IF q.function \in KubernetesFunctions THEN ShortLifetime ELSE LongLifetime

\* The text that is hashed for a certificate: the image, the certificate, the
\* chain, the flag and the annotations in one row, with nothing between them.
\* An absent chain adds what an empty one adds, nothing.
CertificateText ==
  [ q \in { p \in Questions : p.function = "certificate" } |->
      Text[q.subject] \o Text[q.signers[1]]
        \o (IF q.chain = NoChain THEN <<>> ELSE FlattenSeq([i \in DOMAIN q.chain |-> Text[q.chain[i]]]))
        \o Text[q.signers[2]] \o Text[q.annotations] ]

\* A slip: a key that forgets which annotations were asked for.
KeyWithoutAnnotations(q) == <<q.function, <<q.subject, q.signers>> >>

\* The arguments as the cache tells them apart.  The key of a certificate is the
\* SHA-256 of its text, taken to be different for different texts; the others
\* quote their arguments ({:?}) and so keep them apart.
KeyOf(q) ==
  << q.function, IF q.function = "certificate" THEN CertificateText[q]
                 ELSE <<q.subject, q.signers, q.annotations>> >>

Keys == { KeyOf(q) : q \in Questions }

\* What has to hold of the image: each signature that is asked for, with the
\* annotations; for a certificate the annotations are a constraint of their own.
Demand(q) ==
  IF q.function = "certificate"
  THEN {<<q.signers, q.chain>>} \cup (IF q.annotations = {} THEN {} ELSE {<<AnySigner, q.annotations>>})
  ELSE { <<k, q.annotations>> : k \in Range(q.signers) }

\* all_of: every constraint is met by what the registry holds.
Accepts(q, v) ==
  \/ ~ Sigstore(q)
  \/ Demand(q) \subseteq Met[q.subject][v]

\* Calls that end in an error before anything is fetched.
Refused(q) ==
  \/ q.function \in SigstoreFunctions \ {"certificate"} /\ q.signers = <<>>
  \/ q.function \in KubernetesFunctions /\ ~ HasKubeClient

\* Url::parse(..).expect(..)
Panics(q) ==
  q.function = "keyless_prefix" /\ Range(q.signers) \cap MalformedPrefixes # {}

ASSUME LifetimesAssumption ==
  /\ ShortLifetime \in Nat \ {0}
  /\ LongLifetime \in Nat \ {0}
  /\ RegistryLifetime \in Nat \ {0}
ASSUME BoundsAssumption == MaxVersions \in Nat \ {0} /\ MaxTime \in Nat /\ MaxCalls \in Nat
ASSUME QuestionsAssumption ==
  \A q \in Questions :
    /\ DOMAIN q = Fields
    /\ q.function \in CachedFunctions
    /\ q.subject \in Subjects
    /\ q.signers \in Seq(Signers)
    /\ q.disable_cache \in BOOLEAN
    /\ q.disable_cache => q.function \in KubernetesFunctions
    /\ q.function = "certificate" => Len(q.signers) = 2

\* Questions about certificates that the cache cannot tell apart.
SameText(p, q) ==
  /\ p.function = "certificate" /\ q.function = "certificate"
  /\ CertificateText[p] = CertificateText[q]

\* The hashed text tells the image at least: a certificate in PEM begins with a
\* header that has a blank in it, which the reference of an image has not.
ASSUME TextAssumption ==
  \A p, q \in Questions : SameText(p, q) => p.subject = q.subject
ASSUME SentinelsAssumption ==
  NoQuestion \notin Questions /\ NoEntry \notin [version : Nat, stored : Nat]

-----------------------------------------------------------------------------
VARIABLES
  now,        \* tokio's clock, in units of a second
  history,    \* subject -> the instants at which its versions appeared
  locks,      \* mutex -> who holds it and who waits, first come first served
  phase,      \* task -> how far its call has come
  asked,      \* task -> its call
  began,      \* task -> when its fetch began
  seen,       \* task -> the version its fetch has read
  store,      \* key -> the entry of the cache
  registry,   \* subject -> the entry of the sigstore client's registry cache
  answer,     \* what the last step has told a guest, if it told anything
  told,       \* key -> the version last told for it
  calls       \* how many requests have been made

taskVars == <<phase, asked, began, seen>>
vars == <<now, history, locks, taskVars, store, registry, answer, told, calls>>

Mutexes == CachedFunctions \cup {"cosign"}
Phases == {"idle", "queued", "fetching", "read"}
Entries == [version : Nat, began : Nat, stored : Nat]
RegistryEntries == [version : Nat, stored : Nat]
Answers == [question : Questions, version : Nat, began : Nat, stored : Nat, at : Nat]

TypeOK ==
  /\ now \in Nat
  /\ history \in [Subjects -> Seq(Nat)]
  /\ locks \in [Mutexes -> Seq(Tasks)]
  /\ phase \in [Tasks -> Phases]
  /\ asked \in [Tasks -> Questions \cup {NoQuestion}]
  /\ \A t \in Tasks : asked[t] = NoQuestion <=> phase[t] = "idle"
  /\ began \in [Tasks -> Nat]
  /\ seen \in [Tasks -> Nat]
  /\ store \in [Keys -> Entries \cup {NoEntry}]
  /\ registry \in [Subjects -> RegistryEntries \cup {NoEntry}]
  /\ answer \in Answers \cup {NoEntry}
  /\ told \in [Keys -> Nat]
  /\ calls \in Nat

Init ==
  /\ now = 0
  /\ history = [s \in Subjects |-> <<0>>]
  /\ locks = [l \in Mutexes |-> <<>>]
  /\ phase = [t \in Tasks |-> "idle"]
  /\ asked = [t \in Tasks |-> NoQuestion]
  /\ began = [t \in Tasks |-> 0]
  /\ seen = [t \in Tasks |-> 0]
  /\ store = [k \in Keys |-> NoEntry]
  /\ registry = [s \in Subjects |-> NoEntry]
  /\ answer = NoEntry
  /\ told = [k \in Keys |-> 0]
  /\ calls = 0

\* A step that sends no value to a guest.
TellNothing == answer' = NoEntry /\ UNCHANGED told

-----------------------------------------------------------------------------
(* The world.                                                              *)

Version(s) == Len(history[s])

Tick ==
  /\ now < MaxTime
  /\ now' = now + 1
  /\ TellNothing
  /\ UNCHANGED <<history, locks, taskVars, store, registry, calls>>

\* A tag is moved, a signature is pushed, a resource or a role is edited.
Changes(s) ==
  /\ Version(s) < MaxVersions
  /\ history' = [history EXCEPT ![s] = Append(@, now)]
  /\ TellNothing
  /\ UNCHANGED <<now, locks, taskVars, store, registry, calls>>

-----------------------------------------------------------------------------
(* The calls.                                                              *)

\* A slip: one mutex for all the functions.
OneMutex(q) == "digest"

\* The static cache of each function has a mutex of its own.
MutexOf(q) == q.function

\* A slip: a mutex that lets everybody in.
HoldsInCrowd(t, l) == \E i \in 1..Len(locks[l]) : locks[l][i] = t

Holds(t, l) == locks[l] # <<>> /\ Head(locks[l]) = t

\* A slip: a guard that a panic does not drop.
ReleaseUnlessPanic(t) ==
  IF asked[t].disable_cache \/ Panics(asked[t]) THEN locks
  ELSE [locks EXCEPT ![MutexOf(asked[t])] = Tail(@)]

\* The guard goes out of scope, in a panic too.
Release(t) ==
  IF asked[t].disable_cache THEN locks
  ELSE [locks EXCEPT ![MutexOf(asked[t])] = Tail(@)]

\* A slip: the call is kept when it is over.
EndKeepingCall(t) ==
  /\ phase' = [phase EXCEPT ![t] = "idle"]
  /\ began' = [began EXCEPT ![t] = 0]
  /\ seen' = [seen EXCEPT ![t] = 0]
  /\ UNCHANGED asked

\* The call is over and its locals are gone.
End(t) ==
  /\ phase' = [phase EXCEPT ![t] = "idle"]
  /\ asked' = [asked EXCEPT ![t] = NoQuestion]
  /\ began' = [began EXCEPT ![t] = 0]
  /\ seen' = [seen EXCEPT ![t] = 0]

\* handle_callback! sends the value of an entry.
Tell(t, e) ==
  /\ answer' = [question |-> asked[t], version |-> e.version, began |-> e.began,
                stored |-> e.stored, at |-> now]
  /\ told' = IF asked[t].disable_cache THEN told
             ELSE [told EXCEPT ![KeyOf(asked[t])] = e.version]

\* A new request that the cached functions serve: it waits for the mutex.
Ask(t, q) ==
  /\ calls < MaxCalls /\ calls' = calls + 1
  /\ phase[t] = "idle"
  /\ ~ q.disable_cache
  /\ asked' = [asked EXCEPT ![t] = q]
  /\ phase' = [phase EXCEPT ![t] = "queued"]
  /\ locks' = [locks EXCEPT ![MutexOf(q)] = Append(@, t)]
  /\ TellNothing
  /\ UNCHANGED <<now, history, began, seen, store, registry>>

\* With disable_cache the function beneath is called, which neither reads nor
\* writes the cache.  (Without a kube::Client it fails at once: a stutter.)
AskDirectly(t, q) ==
  /\ calls < MaxCalls /\ calls' = calls + 1
  /\ phase[t] = "idle"
  /\ q.disable_cache /\ ~ Refused(q)
  /\ asked' = [asked EXCEPT ![t] = q]
  /\ phase' = [phase EXCEPT ![t] = "fetching"]
  /\ began' = [began EXCEPT ![t] = now]
  /\ TellNothing
  /\ UNCHANGED <<now, history, locks, seen, store, registry>>

\* A slip: an entry served at its life time, not only before it.
FreshInclusive(e, lifetime) == e # NoEntry /\ now - e.stored <= lifetime

Fresh(e, lifetime) == e # NoEntry /\ now - e.stored < lifetime

FreshFor(q) == Fresh(store[KeyOf(q)], Lifetime(q))

Serve(t) ==
  LET q == asked[t] IN
  /\ phase[t] = "queued" /\ Holds(t, MutexOf(q))
  /\ FreshFor(q)
  /\ Tell(t, store[KeyOf(q)])
  /\ End(t)
  /\ locks' = Release(t)
  /\ UNCHANGED <<now, history, store, registry, calls>>

\* A look-up that finds nothing fresh removes what is too old; the call may be
\* over then, with an error or a panic.
Refuse(t) ==
  LET q == asked[t] IN
  /\ phase[t] = "queued" /\ Holds(t, MutexOf(q))
  /\ ~ FreshFor(q)
  /\ Refused(q) \/ Panics(q)
  /\ store' = [store EXCEPT ![KeyOf(q)] = NoEntry]
  /\ End(t)
  /\ locks' = Release(t)
  /\ TellNothing
  /\ UNCHANGED <<now, history, registry, calls>>

\* Otherwise the function runs; a verification waits for the sigstore client.
Miss(t) ==
  LET q == asked[t] IN
  /\ phase[t] = "queued" /\ Holds(t, MutexOf(q))
  /\ ~ FreshFor(q)
  /\ ~ Refused(q) /\ ~ Panics(q)
  /\ store' = [store EXCEPT ![KeyOf(q)] = NoEntry]
  /\ phase' = [phase EXCEPT ![t] = "fetching"]
  /\ began' = [began EXCEPT ![t] = now]
  /\ locks' = IF Sigstore(q) THEN [locks EXCEPT !["cosign"] = Append(@, t)] ELSE locks
  /\ TellNothing
  /\ UNCHANGED <<now, history, asked, seen, registry, calls>>

\* The registry or the API server answers with what is current.
ReadDirectly(t) ==
  /\ phase[t] = "fetching" /\ ~ Sigstore(asked[t])
  /\ phase' = [phase EXCEPT ![t] = "read"]
  /\ seen' = [seen EXCEPT ![t] = Version(asked[t].subject)]
  /\ TellNothing
  /\ UNCHANGED <<now, history, locks, asked, began, store, registry, calls>>

\* The sigstore client, locked meanwhile, reads through its registry cache.
ReadSignatures(t) ==
  LET s == asked[t].subject IN
  /\ phase[t] = "fetching" /\ Sigstore(asked[t]) /\ Holds(t, "cosign")
  /\ registry' = IF Fresh(registry[s], RegistryLifetime) THEN registry
                 ELSE [registry EXCEPT ![s] = [version |-> Version(s), stored |-> now]]
  /\ seen' = [seen EXCEPT ![t] = registry'[s].version]
  /\ phase' = [phase EXCEPT ![t] = "read"]
  /\ locks' = [locks EXCEPT !["cosign"] = Tail(@)]
  /\ TellNothing
  /\ UNCHANGED <<now, history, asked, began, store, calls>>

\* Only what has been read and accepted is stored, as of now, and told.
Accept(t) ==
  LET q == asked[t]
      e == [version |-> seen[t], began |-> began[t], stored |-> now]
  IN
  /\ phase[t] = "read"
  /\ Accepts(q, seen[t])
  /\ store' = IF q.disable_cache THEN store ELSE [store EXCEPT ![KeyOf(q)] = e]
  /\ Tell(t, e)
  /\ End(t)
  /\ locks' = Release(t)
  /\ UNCHANGED <<now, history, registry, calls>>

\* A slip: an error while reading that leaves the sigstore client locked.
FailKeepingClient(t) ==
  /\ phase[t] = "fetching"
  /\ Sigstore(asked[t]) => Holds(t, "cosign")
  /\ End(t)
  /\ locks' = Release(t)
  /\ TellNothing
  /\ UNCHANGED <<now, history, store, registry, calls>>

\* A reference that does not parse, a network that fails: the error is told and
\* nothing is stored.  Whoever fails while it reads lets go of the client too.
FailToRead(t) ==
  /\ phase[t] = "fetching"
  /\ Sigstore(asked[t]) => Holds(t, "cosign")
  /\ End(t)
  /\ locks' = IF Sigstore(asked[t]) THEN [Release(t) EXCEPT !["cosign"] = Tail(@)] ELSE Release(t)
  /\ TellNothing
  /\ UNCHANGED <<now, history, store, registry, calls>>

\* A signature that is missing, a resource that is not there.
Reject(t) ==
  /\ phase[t] = "read"
  /\ End(t)
  /\ locks' = Release(t)
  /\ TellNothing
  /\ UNCHANGED <<now, history, store, registry, calls>>

-----------------------------------------------------------------------------
Read(t) == ReadDirectly(t) \/ ReadSignatures(t) \/ FailToRead(t)

LookUp(t) == Serve(t) \/ Refuse(t) \/ Miss(t)

TaskStep(t) ==
  \/ \E q \in Questions : Ask(t, q) \/ AskDirectly(t, q)
  \/ LookUp(t)
  \/ Read(t)
  \/ Accept(t)
  \/ Reject(t)

Next ==
  \/ Tick
  \/ \E s \in Subjects : Changes(s)
  \/ \E t \in Tasks : TaskStep(t)

Spec == Init /\ [][Next]_vars

\* The runtime runs every task that can go on.  A fetch ends, with an answer or
\* an error, unless its function may hang; nothing obliges a guest to ask.
EndsFetch(t) == phase[t] = "fetching" /\ asked[t].function \notin MayHang /\ Read(t)

Progress(t) == LookUp(t) \/ EndsFetch(t) \/ Accept(t) \/ Reject(t)

FairSpec == Spec /\ \A t \in Tasks : WF_vars(Progress(t))

-----------------------------------------------------------------------------
(* Properties.                                                             *)

Busy(t) == phase[t] # "idle"
Cached(t) == ~ asked[t].disable_cache

\* Every busy call of a cached function stands once in the queue of that
\* function's mutex, nobody else does, and only the one at the head has gone
\* past the look-up; the same of the verifications that want the sigstore
\* client.  So two fetches never fill one cache at a time, and no call leaves
\* its mutex behind, an error or a panic included (sync_writes = "default" of
\* the #[cached] functions, `expect` in verify_keyless_prefix).
OneCallInsideEachCache ==
  /\ \A l \in Mutexes : \A i, j \in 1..Len(locks[l]) : locks[l][i] = locks[l][j] => i = j
  /\ \A l \in CachedFunctions, t \in Tasks :
       t \in Range(locks[l]) <=> Busy(t) /\ Cached(t) /\ asked[t].function = l
  /\ \A t \in Tasks :
       t \in Range(locks["cosign"]) <=> phase[t] = "fetching" /\ Sigstore(asked[t])
  /\ \A t \in Tasks :
       phase[t] \in {"fetching", "read"} /\ Cached(t) => Holds(t, asked[t].function)

\* A call that waits for no mutex: the next step of its function is its own, or
\* the network's.
CanGoOn(t) ==
  \/ phase[t] = "queued" /\ Holds(t, MutexOf(asked[t]))
  \/ phase[t] = "fetching" /\ (Sigstore(asked[t]) => Holds(t, "cosign"))
  \/ phase[t] = "read"

\* Calls that meet at a mutex: of one function, or two verifications.
Meet(p, q) == p.function = q.function \/ (Sigstore(p) /\ Sigstore(q))

\* However the calls stand in the queues of the two kinds of mutexes, one that
\* can go on stands before each that waits, and it is a call of the same
\* function or another verification: nobody waits in a circle, or for a mutex
\* that an ended call has left locked, or behind a function that has nothing to
\* do with its own (the caches' mutexes, then cosign_client.lock()).
NobodyWaitsInACircle ==
  \A t \in Tasks : Busy(t) =>
    \E u \in Tasks : Busy(u) /\ Meet(asked[u], asked[t]) /\ CanGoOn(u)

\* What a call may add to the age of an answer besides the time of its fetch.
Allowance(q) ==
  (IF q.disable_cache THEN 0 ELSE Lifetime(q) - 1)
    + (IF Sigstore(q) THEN RegistryLifetime - 1 ELSE 0)

\* A version that has been replaced is not told any more once the life times of
\* the caches it passed through, and the time its fetch took, are over: a tag
\* that was moved, a signature that was withdrawn, a role that was taken away
\* ("cached values are purged after 60 seconds"; with disable_cache nothing is
\* added to the time of the fetch).
AnswersAreRecent ==
  answer # NoEntry =>
    LET q == answer.question
        s == q.subject
    IN
    answer.version < Version(s) =>
      answer.at <= history[s][answer.version + 1] + (answer.stored - answer.began) + Allowance(q)

\* The answers of a cached function to one question never go back to an older
\* version, however the calls of several policies interleave with the changes:
\* the mutex is held over the fetch, so a slow fetch cannot overwrite the entry
\* of one that began later.
NeverGoesBack == [][\A k \in Keys : told[k] <= told'[k]]_vars

\* An image is called trusted only if the version the answer stands for met
\* every constraint of this call, although the answer may have been fetched for
\* another: all_of is asked for, never any_of, and the quoted arguments in the
\* keys of four verifications keep apart what those verifications keep apart.
\* The key of the fifth does not: a certificate's answer vouches for the
\* constraints of this call or of another one with the same hashed text, with
\* other annotations or certificates that read the same in a row.
TrustedAsDemanded ==
  answer # NoEntry /\ Sigstore(answer.question) =>
    LET q == answer.question IN
    \E p \in Questions :
      /\ p = q \/ SameText(p, q)
      /\ Demand(p) # {}
      /\ Demand(p) \subseteq Met[q.subject][answer.version]

\* The functions that may be held up by a fetch that never ends: those that may
\* hang themselves and, as the verifications share one client, all of them if
\* one may hang.
HeldUp == MayHang \cup (IF MayHang \cap SigstoreFunctions = {} THEN {} ELSE SigstoreFunctions)

\* A call is answered, whatever hangs in the caches of other functions.
EveryCallEnds ==
  \A t \in Tasks : Busy(t) /\ asked[t].function \notin HeldUp ~> ~ Busy(t)
=============================================================================

# policy-evaluator in TLA+

A verification development for `policy-evaluator`, the library that Kubewarden's
policy-server uses to run Kubernetes admission policies compiled to WebAssembly.
Paths below are relative to the repository, except that those of the library start at its `src`
directory.

1. [The system](#the-system)
2. [The modules](#the-modules)
3. [What the runs check](#what-the-runs-check)
4. [Bounds](#bounds)
5. [Fairness](#fairness)
6. [What is proved](#what-is-proved)
7. [Where the code and its documentation differ](#where-the-code-and-its-documentation-differ)
8. [What is not modelled](#what-is-not-modelled)
9. [Plan](#plan)

## The system

A policy is a Wasm module run by one of three runtimes: waPC (Kubewarden policies),
burrego (Rego policies, for OPA or for Gatekeeper) and WASI. The embedder builds a
`PolicyEvaluatorPre` per policy, rehydrates a `PolicyEvaluator` from it and calls
`validate`, `validate_settings` and `protocol_version` on a blocking thread. Guest
code may need something from the asynchronous world (a registry, Sigstore, DNS, the
Kubernetes API); it asks for it through a *callback channel*, served by the loop of
`CallbackHandler` on a tokio runtime.

```
 blocking threads                             tokio runtime
 ----------------                             -------------
 PolicyGroupEvaluator                         CallbackHandler.loop_eval
   | rhai expression                            | one task per request
 PolicyEvaluator  --- CallbackRequest (mpsc) -->|
   | waPC / burrego / WASI                      |--> Kubernetes client --> reflectors
   |             <-- CallbackResponse (oneshot)-|--> OCI, Sigstore, DNS
   |  GATEKEEPER_INVENTORY_CACHE (global)
 AdmissionResponse --> AdmissionResponseHandler --> the API server's answer
```

| Component | State it keeps | Operations | What is hard | What makes it correct |
|---|---|---|---|---|
| Callback channel and handler (`src/callback_handler.rs`, `src/callback_handler/builder.rs`, `src/runtimes/callback.rs`) | bounded mpsc channel, one oneshot per request, one task per request, shutdown oneshot | `host_callback`, `try_send`, `blocking_recv`, `loop_eval`, drop | shutdown and drop racing with requests; full channel; blocking DNS look-ups on worker threads; tasks that panic | each host call returns once, with an answer unless its own evaluation panics or nobody serves it; only granted resources are read; shutdown ends |
| Kubernetes client and reflectors (`src/callback_handler/kubernetes/`) | map query -> reflector behind an RwLock; a store, a watcher task and an instant per reflector | `list_resources_all`, `get_reflector_reader`, `have_reflector_resources_changed_since` | check and create without a lock; an instant published before its event is applied; waiting for the first list | readers see complete lists; changes are noticed; reflectors are not multiplied |
| Gatekeeper inventory cache (`src/runtimes/rego/gatekeeper_inventory_cache.rs`) | global map resource set -> serialized inventory and instant | `get_inventory`, `create_and_register_inventory` | evaluations that build the same inventory concurrently; one list of several failing | an inventory that is served is complete and at most slightly stale |
| Policy groups (`src/policy_group_evaluator/evaluator.rs`) | members, settings, a rhai expression; per request a map of results | `add_policy_member`, `validate_settings`, `validate` | short circuits, members called twice, members that fail or mutate | fails closed; results explain the decision; validated groups run |
| Admission responses (`src/admission_response.rs`, `src/admission_response_handler.rs`) | mode, mutation flag, custom message | three rewriting steps | each step sees what the one before left | monitor mode never interferes; no forbidden patch; the custom message wins |
| Guest runtimes (`src/policy_evaluator/`, `src/runtimes/{wapc,rego,wasi_cli}/`) | a wasmtime store per waPC or Rego evaluator | `validate`, `validate_settings`, `protocol_version`, reset | the epoch deadline stops guest code anywhere, without clean-up, but not in a host call nor past its last check; resets may fail | an interrupted store is replaced; an operation ends unless a host call never does |
| burrego (`crates/burrego/src/`) | guest memory, heap pointers, addresses of data and input | set up, `set_data`, `evaluate`, `reset` | evaluations that fail halfway in a memory the next one reuses | a result is that of its own request; memory is given back |
| WASI programs (`src/runtimes/wasi_cli/`) | three pipes and a store per run | `run`, `host_call`, reads and prints of the guest | answers of host calls share the standard input with what is not read yet; a run may print a verdict and then fail | a program reads its input and its answers in order; a verdict counts only if its run ended well |
| Timed caches (`src/callback_handler/{kubernetes,oci,sigstore_verification}.rs`) | ten `#[cached]` maps, each behind a mutex held over the fetch; one sigstore client behind another mutex, with a cache of its own | the cached look-ups, the direct ones | one caller at a time over all keys of a function; two locks at once; fetches that fail, hang or panic; answers for 5 or 60 s | answers are as recent as the life times allow and never go back; a verdict fits the constraints of the call that gets it, as far as the key tells them apart; calls end |
| Inventory documents (`src/runtimes/rego/{gatekeeper,opa}_inventory.rs`) | nested maps under construction | `new`, `register` | plural names are not unique; later objects replace earlier ones | both kinds of policy see what was listed; scopes do not mix |
| Policy metadata (`src/policy_metadata.rs`) | none | `validate` (`from_contents` is left out) | combinations of asterisks, looked at in one pass | a document is accepted exactly if all its rules are in order |
| Certificate verification (`src/callback_handler/crypto.rs`) | none | `verify_certificate` | the chain is taken apart from its end; times are cast | trusted only along the given chain, at the given time; the dates of the root do not count |
| Evaluator builder, Rego builtins, tracing | none | | | not modelled, see [below](#what-is-not-modelled) |

The hazards these descriptions lead to are listed, each at its line and with the
properties that would catch it, in `PROJECT.json`.

## The modules

| Module | Models | Extends |
|---|---|---|
| `HostCallback` | the dispatch of a host call and its access checks: which requests a guest may have sent | |
| `HostCallService` | abstract: a call is answered or given up, once; one that is being served is given up only if serving it breaks, and that affects no other | |
| `CallbackHandler` | channel, loop, tasks, workers, shutdown | `HostCallback`; implements `HostCallService` |
| `KubernetesReflectors` | the client's map, reflectors, watch events | |
| `InventoryCache` | evaluations of Gatekeeper and OPA policies over the cache and the reflectors | `KubernetesReflectors` |
| `AdmissionResponse` | the responses of each runtime and the handler's steps as operators | |
| `PolicyGroup` | a group from its construction to its response | `AdmissionResponse` |
| `Admission` | a request to a policy or a group, through to the final response | `PolicyGroup` |
| `EvaluatorService` | abstract: an evaluator answers each request once and from that request, and reports the deadline only when it has passed | |
| `BurregoEvaluator` | the calls into a Rego guest and what they leave in its memory | |
| `GuestRuntime` | the operations of an evaluator of each kind, under an epoch deadline | `BurregoEvaluator`; implements `EvaluatorService` |
| `WasiProgram` | the pipes of a WASI program and what it does with them | `GuestRuntime` |
| `TimedCaches` | the cached functions, their mutexes, the sigstore client and its registry cache | |
| `PolicyMetadata` | validating the metadata of a policy, resource by resource | |
| `Inventories` | building the two inventories, object by object | |
| `Certificates` | the steps of `verify_certificate` | |
| `MC...` | constants of the runs; `MCDocuments` puts the last three side by side | |
| `..._proofs` | theorems about a module; `Documents_proofs` about `PolicyMetadata`, `Inventories` and `Certificates` | it, or for `WasiProgram_proofs` the proofs of `GuestRuntime` too |

How state and actions correspond to the code:

**CallbackHandler.** `queue` is the mpsc channel, `task` the spawned tasks, `reply` the
oneshot channel a guest waits on, `handler` the struct and its loop, `shutdown` the
other oneshot channel. `HostCall` and `RegoCall` are `host_callback` and
`make_request_via_callback_channel` up to the `try_send`, `Resume` is the return of
`blocking_recv`, `LoopRequest` a turn of the loop that receives and spawns,
`LoopShutdown` one that stops. `StartLookup`, `FinishLookup` and `FinishTask` are the
tasks; a look-up holds a worker from start to finish because `dns_lookup::lookup_host`
blocks. A task whose request verifies signatures may also panic (`PanicTask`: the `expect` on a url
prefix): its sender is dropped, and `Resume` returns the error of `blocking_recv` to that guest alone.
`DropHandler` loses what is still queued, and with it the senders of the
replies. `select!` is unbiased, so either branch may be taken when both are ready.

**KubernetesReflectors, InventoryCache.** A store is the number of events applied and
the version it mirrors. An event reaches a store in two steps, as in
`reflector_tracking_changes_instant`: `WatcherSees` publishes the instant,
`ApplyWatcherEvent` changes the store. A caller goes through `LookUp` (read lock),
`CreateAndRun` and the wait, `ReflectorReady` (write lock) and `ReadStore`;
`CheckResource` and `ServeCached` are the test of the cached inventory,
`StartInventory` reads the clock, `FinishList` registers. `Fail` is any failure of a
look-up or a list.

**PolicyGroup, Admission.** A rhai Boolean expression is a decision diagram: each node
calls a member and says where to go on true and on false, which is what `&&`, `||`, `!`
and parentheses come to under short-circuit evaluation. `CallMember` is the registered closure with a response of any
runtime, `RehydrateFails` its error path, `UnknownFunction` a call of a name that is
not registered, `Conclude` builds the response. `Process` applies the handler's steps
in the order of `process_response`.

**BurregoEvaluator, GuestRuntime.** Guest memory is a row of blocks below a pointer;
what lies above stays readable until overwritten. Each call the host makes into the
guest is a step that may return, fail (possibly leaving a block) or be interrupted.
`left` is the distance between the epoch of the engine and the deadline of the store,
`Tick` the embedder's `increment_epoch`, `Reach` arms the deadline where the code
calls `set_epoch_deadline`. `cut` says that guest code has been interrupted in the
store that is still in use. waPC and WASI guests are one call per operation.
`place` says where the call is. The engine looks at the epoch when a function is entered (`EnterGuest`)
and at the back edges of loops, thus only in guest code: `Interrupt` and `InterruptAndReset` are
impossible while a waPC or WASI guest is inside a host call (`CallHost` to `HostReturns`, where it sits in
`blocking_recv`), and a call may return after the deadline, from the host or past its last look.
The builtins of Rego call back into the guest and do not wait for anybody, so Rego guests are in no host call.

**WasiProgram.** While the `_start` of a WASI run is under way (`Running`), its guest may
`Read` from its standard input, `Write` and `Complain`, but for the time it spends in a host call, whose
return appends an answer to the same pipe (`AnswerCall`). `Pipes` says what becomes of the pipes when `GuestRuntime`
takes a step: a run opens its own (`OpenPipes`), and its end turns them into a verdict
(`Verdict`, in the order of `Stack::run`: standard error first, then the result of the
run, then standard output). A message has two halves, so that a read may end between them.

**TimedCaches.** A task queues on the mutex of its function (`Ask`), finds a fresh entry
(`Serve`), an error or a panic (`Refuse`) or nothing (`Miss`); it reads directly or, for a
verification, through the sigstore client behind a second mutex (`ReadDirectly`,
`ReadSignatures`, `FailToRead`), and then stores and tells what it has read (`Accept`) or
fails (`Reject`). `AskDirectly` is a call with `disable_cache`. What the registry and the
API server hold is a sequence of versions with the instants at which they appeared
(`history`); what a verification finds in a version is the set of constraints it satisfies
(`Met`). A panic of `expect` ends the task and, by unwinding, its locks. The keys of four verifications
quote their arguments and are modelled as tuples. The key of a certificate is the hash of what
`get_sigstore_certificate_verification_cache_key` feeds to it in a row: `CertificateText` puts the texts of
the parts together (`Text`), nothing for an absent or an empty chain, so that different requests may have
one key. SHA-256 is taken to keep different texts apart. A task lets go of the mutex and sends its reply in
one step, so answers are ordered as they leave the cache.

**PolicyMetadata, Inventories, Certificates.** The first two are loops over a document, one
iteration per step, with the flags, sets and maps of the code as variables; a verification
takes one step per stage (certificate, time, pool, webpki's answer), each of which may fail. A resource of
a rule is a pair of parts; a nested map is a function of the paths through it; a
certificate says by whom it is signed and when it is valid. Which answers webpki may give
for a chain and a time (`VerificationResults`) is external: an acceptance needs a path.

## What the runs check

| Run | Result | Shows |
|---|---|---|
| `callback` | passes | `OneHolderPerAwaitedReply`: whoever waits has exactly one holder of its reply. `ImplementsService`: the handler refines the abstract service, in which a call being served is given up only by the panic of its own evaluation. `OnlyGrantedResources`. `EveryCallReturns` and `ShutdownCompletes` under fairness, with one worker and blocking look-ups. |
| `inventory` | passes | `MissesAtMostOneEvent`: an inventory that would be served lacks at most the one event that was published and not yet applied, if the reflector it was read from is still registered. `ReadersAreReady`: no store is read before its first list. `ReflectorsBoundedByCallers`: at most one reflector per concurrent caller and query is ever created. |
| `inventory_mixed` | passes | `NoPartialInventory` with a key of two resources and failing lists, `EvaluationsReturn`. |
| `admission` | passes | `FailsClosed`, `DecisionMatchesResults` (the decision is the expression over the recorded results), `RejectionHasACause`, `ValidatedConjunctionRuns`, `MonitorNeverInterferes`, `NoForbiddenPatch`, `CustomMessageWins`. |
| `guests` | passes | `ResultOfOwnRequest`: a Rego result comes from the data and the input of its own request, whatever interrupted or failed evaluations left. `HeapGivenBack`, `BudgetIsExact` (one full deadline per operation, not more), `DeadlineMeansFreshGuest`. `OperationsEnd`: an operation ends whatever guest code does, provided that no host call keeps the guest for ever. `ImplementsEvaluator`: the runtimes, WASI programs included, refine the abstract evaluator, whose answers may be late. For WASI programs, `StdinIsInOrder` (what is read and what is left is the input and then the answers, in order) and `VerdictOfOwnRun` (an acceptance was printed by this run, once, and the run ended well). |
| `timed_caches` | passes | `OneCallInsideEachCache`: every busy call is queued once, only the head fetches, and nothing leaves a lock behind, a panic included. `NobodyWaitsInACircle`: before each call that waits for a cache or for the sigstore client stands one that can go on. `AnswersAreRecent`: a replaced version is told no longer than the life times it passed through. `NeverGoesBack`. `TrustedAsDemanded`: the version a verdict stands for met the constraints of the call that gets it or, for a certificate, those of a call that is hashed as the same text. (Stated without the second half it does not hold, which the two certificates of this run show.) `EveryCallEnds`: a fetch that hangs holds up its own function only. |
| `documents` | passes | `VerdictIsTheRule`: one pass over the resources accepts exactly the documents whose rules are in order, by a definition without a pass. `GatekeeperShowsWhatIsListed`, `BothShowTheSame`, `ScopesNeverMix`. `TrustIsAnchored`: trusted only at a time at which the certificate and the intermediate ones are valid (a root may have expired, as `crypto.rs:30` says), and only by the chain given. |
| `stale`, `duplicates`, `settings`, `guest_reset`, `metadata_order` | violations | see below |

Each property of a passing run comes with a mutant: a slip in one definition, kept in the
module in front of it, under which TLC finds the property violated.

## Bounds

* `callback`: two guests, one that may read Pods and one that may read nothing, seven calls that
  between them are logged, refused, routed to a look-up, to a request that may hang, to one that may
  panic and to one that does neither; a channel of capacity 1, full as soon as a request waits; one worker, so that a look-up
  blocks everything. Guests call as often as they like: the state space is finite without a bound.
  Both guests have a callback channel; a guest without one only ever gets an error, and the theorems
  cover it.
* `inventory`: two callers, one resource, `MaxCalls = 3` evaluations and `MaxEvents = 3` events per
  reflector. `MaxReflectors = 3` is above the number of callers, so that it never binds before
  `ReflectorsBoundedByCallers` would fail. The versions of the cluster play no part in these properties
  (`MaxVersion = 0`). A stale entry needs one evaluation to build it, one to be served it, and an event
  between two reads of the clock.
* `inventory_mixed`: a second resource, which gives the lists of one inventory an order and the failures a
  place between them; one event per reflector.
* `admission`: two members, a name nobody registered and an expression of each shape (conjunction,
  disjunction, negation, a member called twice, an unknown name behind `&&` and behind `||`), every
  response of every runtime and every configuration of the handler.
* `guests`: three operations (one to break the evaluator, one to start from what it broke, one to see
  what is left), a deadline of 2 ticks (a guest may be interrupted after each part of its time) and 12
  blocks of memory where an evaluation uses at most 9, so that a leak shows before memory is full.

* `guests`, WASI: two host calls per run, so that answers have an order among themselves and towards the
  input; two prints, so that a second one can spoil a verdict.
* `timed_caches`: two tasks and one subject, an image to the verifications and a resource to the other
  functions, which share no data, so that it does not matter that both change together; two questions that
  differ in their annotations only, two about certificates that are hashed as one text although chain and
  annotations differ, one whose url prefix is malformed, one that may hang, one past the cache.
  `MaxVersions = 2`: an answer is of the old version or of the new one, and each meets the constraints of one
  of the two certificates. `MaxTime = 2` and `MaxCalls = 3`: an entry is stored, served and outlived by a third
  call. The life times are 1 and 2 instead of 5 and 60 seconds; what matters is that an entry can be found
  at, before and after its life time, and that one is longer. `NoQuestion`, `NoEntry`, `NoChain` and
  `AnySigner` are model values.
* `documents`: one call per behaviour. Rules with up to 3 resources out of 8 that cover every combination
  of empty, `*` and named parts, pairs of rules, and every list of up to 2 groups and versions. Lists of up to 2 and 1 objects of two kinds that share a plural name, or do not,
  with and without names and namespaces. Chains of up to 3 certificates out of 6, times on both sides of
  each limit and before 1970, with 16 values for a word instead of 2^64: far enough from every date, as
  -2 is 14 there.

`inventory` declares its callers symmetric; it checks invariants only. Deadlock is not checked where
evaluations, calls or documents are bounded in number and the system stops when they are used up; in
`timed_caches` also because a fetch may hang for ever.

## Fairness

* `CallbackHandler`: the runtime schedules every ready task again and again, so a step that needs a free
  worker is taken if one is free again and again (strong fairness of `LoopShutdown`, `LoopRequest`,
  `StartLookup`, and the end of a task, by an answer or a panic); a look-up ends, because the resolver gives up; a guest whose reply has come
  goes on. Requests that wait for the first list of a reflector may never end (`MayHang`), and
  `EveryCallReturns` promises nothing for them. The owner runs the loop it built and drops the handler
  when the loop has returned. Nobody is obliged to call or to shut down.
* `InventoryCache`: a caller goes on, and the API server answers the first list of a watch.
  `wait_until_ready` has no timeout, so `EvaluationsReturn` would be false without this. Neither later
  events nor changes of the cluster need ever come.
* `GuestRuntime`: the embedder keeps incrementing the epoch, and guest code that goes on running looks at it
  again and again (the engine puts a check into each loop and each function). This is strong fairness of the
  interruption: it is possible in guest code only, and a guest that alternates between its code and the
  host gives it infinitely many chances. Nothing is assumed of guest code, which may loop for ever, nor of
  the host, whose call may never return: `OperationsEnd` has as its premise that the guest is infinitely
  often not in the host. `WasiFairSpec` is the same with the pipes.
* `TimedCaches`: a task that holds what it waits for goes on, and a fetch ends, with an answer or an
  error, unless its function is one that may hang (`MayHang`). The mutexes need no fairness of their own:
  tokio's are first come, first served, which the queues model. Nothing obliges a guest to ask.

## What is proved

TLAPS checks every theorem for all values of the constants, from the assumptions named in
the modules (bounds are naturals, model values are not numbers, `MaxBlocks >= 9`, ...).

* `CallbackHandler_proofs`: `IInv` adds to `OneHolderPerAwaitedReply` what the channel's length
  and the states of loop and handler say about who may hold a reply. From it: `TypeCorrect`,
  `OneHolder`, `Granted` (the request of a waiting guest passed its check, which stays true because
  a request does not change on its way) and `Refinement`, which maps each action to an action of
  `HostCallService` or to a stutter.
* `InventoryCache_proofs`: the inductive invariant relates, for each snapshot in a caller's hands
  or in the cache, the number of events it was read with to the events its reflector has been
  told of, and the instants in between. `AtMostOne` needs that an inventory's time is read before its
  lists and that a reflector has at most one event in flight. Also `TypeCorrect`, `Ready`,
  `NoPartial`. `Bounded` counts: as long as nobody has registered a reflector of a query, each of its
  reflectors still has the caller that made it waiting for it, and a caller waits for one at a time
  (`BoundInv`); once one is registered, no other is made. That there are then no more reflectors than
  callers is a fact about finite sets (`NotMoreThanCallers`).
* `Admission_proofs`: `IInv` says what a failed member, a verdict and a patch imply for the
  response under construction. From it `TypeCorrect`, `Closed`, `Explained`, `Monitor`, `Patch`,
  `Custom`. `Decision` and `ConjunctionRuns` speak of a function that is recursive over the
  expression (`Holds`). What they need is not an induction over all data but that no node is the last one for
  which a statement fails: lemmas `LeastNumber` and `FromTheLastNode` say so of any set of nodes. `DecisionInv`
  says that what the members called so far have answered takes the walk to its node, whatever the others
  would answer, and that all of them were called at nodes before it, so that no answer can still change;
  `ConjunctionInv`, that a successful dry run of a conjunction has visited all its names and that members
  only ever join.
* `GuestRuntime_proofs`: `IInv` says, for each call of an evaluation (`Evaluating`) and of a build
  (`Building`), how far the allocator's pointer is and which addresses hold the data and the input of
  the present request; that the host is inside the program of its operation; and which outcome a reset
  or a build keeps. `ResultOfOwnRequest` alone is not inductive: it says nothing while an evaluation is
  under way, and an evaluation starts from whatever memory the last one left. From it `TypeCorrect`,
  `AnswersOwnRequest`, `HeapIsGivenBack`, `DeadlineLeavesFreshGuest`, and `OneDeadlinePerOperation`,
  which rests on the lemma that only the first call of a program is armed (`ArmedOnce`). `Refinement`
  takes these invariants together: each guest call, tick, interruption and reset is a step of
  `EvaluatorService` or a stutter. `StageOf` is the mapping of the operations; the clock of the service is
  the time spent, so that a deadline that is reported was really reached; that an answer comes before it is
  not shown, as it need not.
* `TimedCaches_proofs`: the queue invariant (`OneCallAtATime`) is inductive once it also says that the
  holder alone is past the look-up. `AnswersRecent` rests on an invariant over entries, fetches under way
  and the registry cache: each was read when its version was current, or is not older than its cache
  allows. `NeverBack` needs the queue: as only the holder fetches, what is stored was read after what was
  stored before. `NoCircle` follows from the queue invariant: the two kinds of mutexes are taken in one order,
  so the head of a function's queue can go on, or waits in the queue of the sigstore client, whose head can. `TrustAsDemanded` needs to know for whom an entry
  vouches: its key was made by a question that accepted the version (`Vouched`), and two questions with one
  key ask for the same, or are certificates with one text (`SameKeySameDemand`).
* `WasiProgram_proofs`: `RunsAsGuest` shows that each step of `WasiSpec` is a step of `GuestRuntime` or a
  stutter, so that its type invariant and safety theorems carry over (`HostTyped` is the first).
  `RunsAsEvaluator` carries the refinement over in the same way. `InputInOrder` and `VerdictIsOwn` are inductive with the number of answers sent and the run that each
  print belongs to.
* `Documents_proofs`, metadata: the invariant relates the flags and sets to the part of the list that has been
  looked at: which wildcards it holds, and that it is in order up to here. `VerdictIsCorrect` follows for
  lists and documents of every length; the loop is a state machine, so no induction over data is needed.
* `Documents_proofs`, inventories: one invariant for both builders (`BuildersInv`): a map shows, under each
  path, the last object of that path among those already passed, and nothing else. `GatekeeperIsComplete`
  is that for one builder, `InventoriesAgree` for both at their ends; `ScopesApart` needs the scope that the
  first object of a plural name has fixed.
* `Documents_proofs`, certificates: `CertificateInv` says of each stage which part of the request has been
  taken, and that what webpki is given says the same as the request except for the time. A time that the
  cast has taken for another one is beyond the end of every certificate (`TakenForLater`), so `Trust` holds
  before 1970 too.

The assumptions behind these, by name: `LifetimesAssumption`, `BoundsAssumption`, `QuestionsAssumption`,
`SentinelsAssumption` and `TextAssumption` (`TimedCaches`), `WasiBoundsAssumption` (`WasiProgram`),
`DocumentsAssumption` (`PolicyMetadata`), `ClustersAssumption` (`Inventories`), `TimesAssumption`
(`Certificates`), `CallersAssumption` (`KubernetesReflectors`: finitely many callers). `TimesAssumption` says that
a time is an i64 and that no certificate is valid so long that a time before 1970, taken for a u64,
falls into its validity: dates of certificates have years of four digits. `TextAssumption` says only that certificates hashed as one text are about one
image: a certificate in PEM begins with a header that holds a blank, and the reference of an image has none.
What else the text does not tell apart, it does not tell apart here either. `AtMostOne` speaks of
reflectors that have not been replaced and `Decision` of expressions that call each member at one place
(`CallsOnce`); for members called again there is `Explained`.

Only model-checked: the five liveness properties (`EveryCallReturns`, `ShutdownCompletes`,
`EvaluationsReturn`, `OperationsEnd`, `EveryCallEnds`), which need fairness and ENABLED. What can be said of
them without fairness is proved: `NoCircle` is the part of `EveryCallEnds` that the code is responsible for,
the rest is that the network answers. Every other property of a passing run is stated by a theorem. The other way round, the
types of `Admission` are proved and not checked in its run.

## Where the code and its documentation differ

| Run | Documentation | Code |
|---|---|---|
| `stale` | `src/runtimes/rego/gatekeeper_inventory_cache.rs:71`: the inventory "is also recreated if the set of resources has changed since" | an event whose instant precedes the inventory's and which is applied after the store was read goes unnoticed until the next one |
| `duplicates` | `src/callback_handler/kubernetes/reflector.rs:58`: the id is "used to prevent the creation of two Reflectors" | two first requests create two |
| `settings` | `src/policy_group_evaluator/evaluator.rs:33`: validation makes sure that "the expression is valid" | operands behind a short circuit are not resolved |
| `guest_reset` | `src/runtimes/wapc/runtime.rs:91`: after an interruption "we have to reset the waPC host" | only `validate` does |
| `metadata_order` | `src/policy_metadata.rs:134`: "if '*' is present, must not specify other resources without subresources" | the last resource without a subresource decides: `["pods", "*"]` is accepted, `["*", "pods"]` is not |

Three more differ where a run would only restate one line of code:

* `src/callback_handler.rs:73` says that the loop "is interrupted only when a message is sent". Its branch
  of `select!` matches any result of the receiver, so dropping the sender ends the loop too
  (`DropShutdownSender`).
* `src/admission_response_handler.rs:19` says that the original error "is added in the warnings list".
  It goes to the causes (`CustomRejectionMessage`).
* `src/policy_evaluator/policy_evaluator_builder.rs:105-111` documents two deadlines, for
  the initialisation and for the functions of a waPC guest. The builder only looks at whether they are
  set; both deadlines in use are `EvaluationContext::epoch_deadline`
  (`src/runtimes/wapc/stack_pre.rs:30-34`), which is what `GuestRuntime` models.

## What is not modelled

* What the outside world answers: registries, Sigstore, DNS and the API server give an answer or an
  error; in `TimedCaches` the answer is the current version of the subject.
* How the metadata is found in a Wasm module (`from_contents`).
* Selectors of Kubernetes queries; a query is a resource.
* The contents of the objects in inventories, of admission requests and of patches; a patch is present or
  not, an object is a number.
* Path validation of certificates: webpki may refuse for reasons that are not modelled.
* Rego builtins, ArtifactHub packages, conversions from custom resources, tracing, the compilation of
  modules and the checks of the evaluator builder: pure functions or pure I/O.
* Panics of the host (`opa_abort` during a set-up, out-of-range pointers of WASI host calls, a second
  `loop_eval`). A panic in a task of the callback handler is modelled: `PanicTask` of
  `CallbackHandler`, `Refuse` of `TimedCaches`.
* Two reflectors of one query that drift apart: `MissesAtMostOneEvent` counts the events of the reflector
  that was read. When a late reflector is registered over an early one, or read while an early one answers
  the question for changes, nothing bounds how far an inventory lags behind the cluster, until the next
  event.
* Settings of a member that is registered again under its name after `validate_settings`: they are not
  validated again. `ValidatedConjunctionRuns` speaks of names only.
* Policies without an epoch deadline, for which `OperationsEnd` does not hold.

## Plan

Done: the core (callback handler, reflectors and cache, groups and responses, guest runtimes), the timed
caches, WASI programs, and the documents (metadata, inventories, certificates), their runs and theorems.

What would come next:

1. Composition: the host calls of `GuestRuntime` as calls of `CallbackHandler`; the timed caches as tasks of
   `CallbackHandler`.
2. Two reflectors of one query that drift apart, with the leak of the replaced task.
3. Theorems: an abstract cache that `InventoryCache` implements; for the callback handler, the counterpart of
   `NoCircle`: whoever waits for a reply waits for a task or a queue that can move.

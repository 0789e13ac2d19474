# Verification of the standalone policy engine

TLA+ models of the policy decision point (PDP, Go) and of its enforcement point
in Odoo (Python), the TLC runs that check them on small instances, and theorems
that TLAPS proves for every instance. `PROJECT.json` lists the components, the
runs, the mutants each property is tested against, the source lines behind every
definition, the hazards and the theorems.

    tlc -workers 2 -config MCPolicySync_live.cfg MCPolicySync     # one run
    tlapm PolicySyncProofs.tla                                    # the proofs of a module

## The system

A control plane stores policies in PostgreSQL. Every change of a tenant's ACTIVE
set advances the tenant's revision and sends a notification in the same
transaction (`internal/storage/postgres.go`). PDP processes keep compiled tries
of the tenants they serve in a copy-on-write state (`internal/engine`); a syncer
follows the notifications and reconciles periodically; requests load a missing
tenant lazily; a collector drops idle ones. Decisions are answered over gRPC and
HTTP (`internal/server`), audited in batches (`internal/audit`), and restricted
by revocable delegation grants (`internal/security`, `internal/storage/revocation.go`).

The Odoo addon (`custom_addons/pdp_authorizer`) asks the PDP before it confirms
a purchase order. Three fence rows in Odoo's database order the final commit
against policy publications, grant revocations and changes of Odoo's own users
and groups.

Policies are texts in a small language (`internal/parser`) whose conditions are
evaluated on the attributes of a request. Besides the server there is an edge
mode that starts from snapshots on disk (`internal/storage/badger.go`,
`internal/engine/edge_restore.go`) and a PDP embedded in a service (`pkg/pdp`).

## Parts of the system

| Part | Source | State here |
|---|---|---|
| Engine state, syncer, lazy loading, collector | `internal/engine/{engine_gc,state_writer,sync}.go`, `internal/storage/policy_bundle.go` | modelled, proved |
| Policy administration | `internal/server/handlers_policy.go`, `internal/storage/postgres.go` | modelled, proved with the next row |
| Edge snapshots, embedded PDP, prewarming | `badger.go`, `edge_restore.go`, `pkg/pdp/embedded.go`, `handlers_tenant.go` | modelled, proved |
| Policy, revocation and local-authority fences | `erp_policy_fence.go`, `erp_revocation_fence.go`, `authority_fence.py`, `revocation_fence.py` | modelled, proved |
| Policy language: lexer, parser, compiler, evaluator | `internal/parser`, `internal/engine/evaluator.go` | modelled |
| Decision index, verdict, explanation, simulation | `internal/engine/{trie,decision,engine}.go` | modelled with abstract conditions, proved |
| Role hierarchy | `internal/engine/dag.go`, `internal/storage/policy_bundle.go` | modelled, proved |
| A tenant's engine: hierarchy and index together | `internal/engine/{engine_gc,state_writer}.go` | modelled, proved to compose |
| Odoo confirmation and human approval | `custom_addons/pdp_authorizer/models` | delegated route modelled, proved |
| Revocation propagation | `internal/security/{delegation,revocation_sync}.go`, `internal/storage/revocation.go` | modelled, proved |
| Audit logger, spill, archive | `internal/audit` | modelled, proved |
| Intent encoding, cryptography, JWT, configuration, metrics, `pectl`, middleware, replay buffer, generated code | | not modelled, see the end |

## Modules

| Module | Models | Source |
|---|---|---|
| `PolicyView` | what one replica promises about each tenant: it serves nothing or a committed revision and moves forwards unless it drops the tenant | abstract |
| `PolicySync` | one PDP process: engine state, syncer, collector, requests | `engine_gc.go`, `state_writer.go`, `sync.go`, parts of `postgres.go`, `policy_bundle.go`, `grpc_approval.go` |
| `PolicySyncProofs` | theorems about `PolicySync`: types and writers, the invariants, and that it implements `PolicyView` | |
| `PolicyFence` | the three fence rows of one tenant and one grant, the policy writers, the replicas' decisions, revocation, and the protected Odoo transactions | `erp_policy_fence.go`, `erp_revocation_fence.go`, `authority_fence.py`, `revocation_fence.py`, `purchase_order*.py`, `approval_invalidation.py` |
| `PolicyFenceProofs` | theorems about `PolicyFence` | |
| `Approval` | one delegated purchase order, its command ledger and its human approval under concurrent requests | the addon's `models` |
| `ApprovalProofs` | theorems about `Approval` | |
| `Revocation` | replicas' revocation caches, the durable table and its notifications | `delegation.go`, `revocation_sync.go`, `revocation.go`, `grpc_revoke.go` |
| `RevocationProofs` | theorems about `Revocation` | |
| `RoleDAG` | building and validating a tenant's role hierarchy | `dag.go`, `policy_bundle.go` |
| `Decision` | the index of a tenant, its lookup, the verdict, explanation and what-if simulation | `trie.go`, `decision.go`, `engine_gc.go`, `grpc_explain.go` |
| `DecisionProofs` | theorems about `Decision` | |
| `TenantEngine` | composes `RoleDAG` and `Decision`: builds of a tenant's trie and the requests served between them | `engine_gc.go`, `state_writer.go` |
| `RoleDAGProofs` | theorems about `RoleDAG` and its searches, and that `TenantEngine` composes | |
| `PolicyAdmin` | the life of one tenant's policies in the database: create, update, delete, publish | `handlers_policy.go`, `postgres.go` |
| `EdgeReplica` | extends `PolicyAdmin` by a process that loads the policies: edge, control plane or embedded | `sync.go`, `badger.go`, `edge_restore.go`, `embedded.go`, `handlers_tenant.go` |
| `EdgeReplicaProofs` | theorems about `EdgeReplica` | |
| `Lexer`, `Literals`, `Parser`, `Compiler`, `Evaluator` | the policy language, a module per stage; `Literals` holds the readers of addresses and times that the compiler and the evaluator have each in their own version | `lexer.go`, `parser.go`, `obligation.go`, `compiler.go`, `evaluator.go` |
| `PolicyLanguage` | a rule set going through all stages, beside a grammar and a semantics stated without them | `policy_set.go`, `decision.go` |
| `Audit` | the batch logger with queue, worker, spill store, archive, shutdown and restart | `internal/audit` |
| `AuditProofs` | theorems about `Audit` | |

Each `MC...` module instantiates one of them for TLC; each of its `.cfg` files is
one run. A definition introduced by a comment that begins with "Mutant" is a
plausible bug in the definition after it; `PROJECT.json` pairs them with the
property that notices.

### PolicySync

A goroutine is a program counter (`pc`) with the locals of its call: the tenant
(`arg`), the revision asked for (`want`), the trie it built or read (`trie`) and
the state it copied (`copy`). Each access to shared memory, each database
statement and each lock is a step. A trie is the pair of its label
(`TrieRoot.Revision`) and the revision its content was committed under; label 0
is "not in the map". The LISTEN session is `link` and the queue of notifications
sent on it. `broken` holds the committed sets that do not compile. Time is
abstract: a record may age at any moment and timers fire whenever they can.

### PolicyFence

A writer's program counter walks the statements of `fencedPolicyMutation`; each
may fail, and a failed commit may have happened. A protected transaction takes
its snapshot at `Begin`, obtains its decisions, then locks the grant's row, the
epoch row and the policy row. Under REPEATABLE READ a row changed by somebody
else since the snapshot cannot be locked: `stale` holds those rows. A decision
may carry any revision a replica can be serving, which is what `PolicyView`
promises and `PolicySyncProofs!ViewRefinement` proves. `origin` is a history field
of the policy row: who wrote it last, a first decision or a publication. A
tenant starts with `FirstRevision` revisions behind it and no row, as when the fence
is configured for a tenant that has been in use. The first decision inserts the row
at its own revision, even if the replica lags, and `ReadyRowIsCurrent` and
`CommitsUnderCurrentPolicy` therefore except a row that a decision inserted and that
no mutation has followed (`Bootstrapped`). The run `fence_bootstrap` shows the
exception to be needed.

### Approval

A session is one Odoo request in one transaction. It works on `view`, the
database at its snapshot with its own writes; `stale` holds the rows others have
committed since, which it can no longer lock; `Commit` installs what it wrote,
after the deferred trigger of `authorization_attempt.py`. Every failure (an
exception, a serialization failure, an unreachable PDP, a dead worker) is
`Rollback`, possible at every step; the retry is a new session. Edits of lines and
of the order, state changes, revocation and activation of the grant are short
transactions of other users: each takes one lock and holds it to its end, so one
step is enough. The intent is the order's state, its write version (one new
`write_date` per transaction) and the version of its lines. Inserted lines are the
hard case, because no row lock of another transaction covers them: only the
update of the parent order in `purchase_order_line_guard.py` stops a stale
confirmation. Odoo's own `button_confirm` is external: it skips orders that are
not drafts and may stop at "to approve" under double validation. `effects` is a
history variable: the intent seen at the snapshot, the approval, and the order
found in the database at the commit.

### Revocation

A revocation record is reduced to its expiry, in seconds of one clock that the
replicas and the database share; `Skew` is the tolerance of the check. The window
of a grant is fixed. A cache entry is changed by compare-and-swap, so each applier
has a load step and a swap step. The syncer listens first, then loads the table,
then follows the notifications; a lost connection or a crash at any point sends it
back. The tombstone in the ERP database is in `PolicyFence`.

### RoleDAG, Decision and TenantEngine

Role names and keys are abstract, so every order of rows is tried and the text
checks on names are left out. The three depth-first searches of `RoleDAG` are
functions of the depth of their calls, and the loops in them of the neighbours they
have passed. A search only enters roles it has not met, so that `Depth`, one call
more than there are roles, is enough. They are compared with reachability,
defined without a search. The loops that build the trie and look a request up
are functions of the number of rows or roles they have passed, compared with plain
scope matching. A condition holds, fails or cannot be evaluated. `Decision` keeps the
sharing of buckets between the live index and the copy a simulation works on;
the concurrent access to those Go maps is a data race of which only the lasting
effect is modelled. An explanation's list of matched policies is a set: only which
policies it names matters.

`TenantEngine` is `buildTenantTrie` and what serves the result: it adds the stored
pairs one by one, then the policies, and installs the trie; the closure that
`RoleDAG` has computed is the hierarchy that `Decision` looks requests up in. A
failed build leaves the tenant as it was.

`ForbidOverrides` is about the policies whose three scopes match. A policy for any
principal and any resource is collected for every action, whatever its own action
is; a request that meets such a stray policy (`Strays`) is excepted, and the run
`decision_scope` shows what happens to it.

### Audit

An entry is its audit ID and sizes count entries. `SpillStore.WriteBatch` is one
step under its mutex; `Replay` holds the mutex over several. A process may crash
at any instruction; what was in memory is then gone, and `NothingVanishes` says
where everything else is. An archive segment is the sequence of entries of one
tenant that its object key is a hash of. Of the counters only those the runbook relies on are
kept. Left-over temporary files are not modelled.

### PolicyAdmin and EdgeReplica

A row is its text, its status and the text its `ast_json` was made from. Texts are
told apart by what the compiler says of them: good ones, those that fail, and
those with several statements, of which `/publish` compiles only the first while
`CompilePolicySet` refuses the whole set. Publishing is two transactions with the
compilation in between (`PublishReads`, `PublishWrites`). `committed` is a history
variable: every active set there has been, with its revision.

`EdgeReplica` runs three loaders against that database. Which of them exist, whether
there is a disk and whether there is a collector depends on the kind of process.
Each loader reads and compiles (`Load`), installs under the engine's mutex
(`Install`) and, on an edge process, saves (`Save`); others run in between. The
engine's pointer swaps are one step here, because `PolicySync` shows them to be.
The edge process that is online and saves is what an application that calls
`SetBadgerStore` would run; no binary of the repository calls it.

### The policy language

A source is a sequence of characters; a run of letters, or a whole RFC 3339
timestamp, is one character, so that interesting texts stay short. `Lexer` turns it
into tokens, `Parser` into a tree (precedence climbing with every early return),
`Compiler` types literals, folds constants and lists the attributes a condition
reads, `Evaluator` gives a condition true, false or an error. The reference
definitions in `PolicyLanguage` do not share that structure. The grammar is that of
`docs/technical-spec/POLICY_DSL_SPEC.md`: it splits a token list at its last, loosest
operator outside brackets, and allows one operator where the document does not repeat
it. Two cases are excepted by name, because code and document differ there:
`Chained` operators, which the code groups to the left, and variables of the action,
which the parser refuses. The meaning of a condition is the evaluation of the tree
with its literals typed and nothing folded; an equality of two time literals
(`ComparesTimes`) is excepted.

## Runs

| Run | Properties | Shows |
|---|---|---|
| `sync_live` | `RevisionNamesBundle`, `LoadedTenantsAreTracked`, `NoLostUpdate`, `ImplementsPolicyView`, `CatchUp`, `RequestsReturn` | A tenant served by three concurrent publishers, the collector, requests and an issuer, with failed statements, lost sessions and sets that do not compile: what is served is one committed bundle, no publication is lost, the replica catches up and every request returns. |
| `fence_publish` | `ReadyRowIsCurrent`, `CommitsUnderCurrentPolicy`, `CommitsUnrevoked`, `CommitsUnderLocalAuthority`, `FenceReopens` | Two writers with a failed statement or a lost answer, a replica and a protected transaction, on a tenant with two revisions behind it: a ready row names the committed revision unless a first decision inserted it, whoever is about to commit decided under the row's revision, is not revoked and is still locally authorised, and a publication that does not fail ends. |
| `engine` | `ClosureIsReachability`, `StoredHierarchyBuilds`, `LookupFindsMatches`, `ForbidOverrides`, `ExplanationJustifies` | Every list of up to three inheritance pairs over a user and two roles, stored or rejected, built in every order the searches may take, and on each hierarchy that results every rule set of up to two policies, unloaded, simulated and explained: the closure is reachability, what the storage accepts every replica builds, the index finds what matches, the verdict is forbid-overrides, and an explanation lists what decided. |
| `revocation` | `RevokedStaysDenied`, `NoLostRevocation`, `RevocationsOnlyGrow`, `RevocationReachesReplicas`, `ReplicasRecover` | One replica revokes a grant, perhaps for the second time, and the other checks it, until the records have expired, with a lost session, a failed statement or a crash anywhere: nothing is lost between snapshot and notifications, no goroutine shortens a record, a revoked grant stays denied to the end of its window, the revocation reaches both replicas, and both recover. |
| `audit` | `NothingVanishes`, `CountersBalance`, `StoredOnce`, `SpillIsDelivered`, `StopEnds` | Entries of two tenants through a queue and batches of two, with a spill directory that overflows, an archive, a damaged file, a failed write or a crash, and shutdowns: nothing is lost or stored twice, the counters account for every call, spilled entries are delivered and every Stop returns. |
| `approval_race` | `OneEffect`, `EffectMatchesIntent`, `LedgerAgrees`, `EffectsUnderAuthority`, `ApprovalMovesForward` | Two concurrent requests, each a confirmation or an issuance, with edits, state changes, revocation, reactivation, expiry, PDP refusals and rollbacks at every step: one effect at most, of exactly what was decided on and under authority that still holds. |
| `language` | `CompilesTheGrammar`, `FoldingPreservesMeaning`, `MissingNeverSatisfies`, `SchemaSuffices`, `EqualTextsAreEqual` | Some ten thousand rule sets, well formed and not, are lexed, parsed, compiled and evaluated for requests with present, missing and unreadable attributes, against the documented grammar stated without a parser, with chained operators as a named exception, and against an evaluation without folding. |
| `edge` | `ServedAsCommitted`, `SavedSnapshotsRestore`, `TickerCatchesUp` | Administrators create, edit, publish and delete two policies, some of which publish but do not load, while a process of each kind loads, installs, saves, unloads, crashes and restarts with or without the database. |

### Bounds

* `PolicySync`: one tenant with three goroutines that may publish it (subscriber,
  reconciliation, a request that loads lazily) and the collector; one commit is enough for a
  publisher to be overtaken, and one fault reaches every error path, since after
  each the goroutine starts over. That publications of different tenants do not
  overwrite each other in the shared map needs two tenants, which are beyond TLC
  with liveness; the theorems cover any number.
* `PolicyFence`: two writers for exclusion, one transaction on the approved route,
  which takes every lock and two decisions, one fault anywhere. Two revisions at the
  start let the first decision be behind, and a third lets a later one.
* `Approval`: two sessions cover confirm against confirm, confirm against issuance
  and issuance against issuance. `MaxVersion` 3 leaves room for an edit before the
  pending intent, one between it and the approval or one after it, and for cancel
  and reset. Grant and capability both expire within `MaxTime`.
* `Revocation`: two replicas; one revocation of a grant of which the table may already
  hold a record, so that two expiries meet in a cache in either order; one fault; a
  clock that passes the later expiry.
* `TenantEngine`: three pairs over a user and two roles hold a cycle, a chain and a
  repeated pair; every hierarchy they build meets every set of two policies, and a
  verdict depends on one allowing and one forbidding policy. The policies have the
  scopes from the narrowest to the global partition and every condition outcome. One
  build, one simulation and one explanation in any order. One list does not replace
  another within these bounds; the theorems cover that.
* `Audit`: three entries overfill a queue of two, fill a batch and the spill quota.
  One fault and one damaged file meet in every order.
* `EdgeReplica`: two policies and three revisions, so that a set can be replaced by a
  smaller, a larger or one that does not compile while an older one is on its way
  to memory or disk; every kind of process is an initial state.
* `PolicyLanguage`: every sequence of up to four pieces of a condition, every pair of
  operators with and without brackets, every comparison of an attribute with a
  literal under every wrapper that folding treats specially, and every statement one
  token away from a good one.

Deadlock is checked except in `engine`, where the bounded number of builds ends, in
`language`, where each rule set is compiled once, and in the runs of the next section,
which stop at their counterexample or at their bounds.

### Fairness

Only what the runtime promises is assumed. Goroutines that can run do run (WF).
A mutex or a row lock is handed to a waiter that keeps waiting (SF): Go's mutex
has a starvation mode, PostgreSQL queues lock requests. Go's `select` chooses at
random among ready cases, so a cancellation that stays ready is taken (SF).
Tickers fire. Processes that are down are started again by the orchestrator. No
client is obliged to call, no fault to happen, no time to pass. In `edge` only the
ticker is promised to go on; no event has to arrive.

## Where the code and its documents disagree

Each of these runs checks a sentence of the repository and finds a behaviour that
contradicts it; `PROJECT.json` quotes the sentence and the line.

| Run | Property | Shows |
|---|---|---|
| `fence_bootstrap` | `StaleRevisionsFailClosed` | The replica that makes a tenant's first fenced decision serves an older revision: the row it inserts is ready, and a transaction commits under a policy that is no longer the committed one. |
| `decision_scope` | `ScopesDecide` | A policy for any principal and any resource, scoped to one action, decides requests for another action. |
| `decision_simulate` | `SimulationChangesNothing` | A simulated policy whose principal the tenant already has a policy for stays in the live index and changes later answers. |
| `publish` | `ActivatesWhatItCompiled` | An update that commits between the two transactions of a publication is activated without having been compiled. |

Other behaviours a reader of the documents would not expect, met while modelling.
No run of this project is about them; where a property would meet one, its comment
names it as an exception.

* After one failed synchronisation the readiness status stays degraded although the
  LISTEN session is active and every loaded tenant is in parity.
* A publication between a decision and the read of the tenant's revision makes an
  approval capability name another revision than its decision used.
* A mutation whose revision read or last UPDATE fails is reported as failed although
  the policy change is committed.
* A grant revoked before its validity begins is accepted again once the record has
  expired, while the grant's window is still open.
* A replay that delivers one spill file and fails on the next returns without
  counting what it delivered, and a request whose entry finds the queue full waits
  for the mutex under which the worker replays.
* Confirming a cancelled order under ALLOW completes the command as executed although
  Odoo's `button_confirm` skipped the order.
* `APPROVAL_CAPABILITY.md:99` (and 124, 130) asks for equality of the intent before a
  capability is issued. `approval_request.py:227-248` does not compare it: a capability
  is issued for an order whose lines were edited while its approval was pending. Its
  execution then fails, since `EffectMatchesIntent` holds.
* `/publish` compiles the first statement of a text only. A text of two statements is
  activated, `CompilePolicySet` then refuses the tenant's whole set, and every
  process stays on its last good set until the text is changed.
* `docs` describe snapshots saved in cloud mode, but `cmd/pdp-server/main.go` never
  calls `SetBadgerStore`. The saves of two synchronisations are not ordered, so the
  disk may hold an older set than memory. In edge mode there is no loader: a tenant
  that the collector drops stays dropped until the process restarts.
* Chained operators. The grammar of `POLICY_DSL_SPEC.md:26-28` has at most one `==` or
  `!=`, one order and one `in` or `contains` in a row, and lets `in` and `contains` bind
  tighter than the orders. The parser accepts `A == B == C`, `A < B < C` and
  `A in B in C`, grouped to the left, and reads `A < B in C` as `(A < B) in C`. The same
  grammar lists variables of the action, which `parseVariable` refuses.
* Two equal time literals compare unequal when folded, since `evaluateEq`
  (`compiler.go:309-324`) has no case for times, and equal when evaluated. Folding
  `x && false` hides that x is ill typed, which shows under `!`.
* A literal that looks like an address or a time never equals `principal.id` or
  `resource.id`; networks are equal to nothing; IPv6 attributes are never read; the
  seconds of "10:20:99" are ignored by the compiler and refused by the evaluator;
  addresses with leading zeros are read by the evaluator only; a time of day compared
  with a full timestamp compares seconds with nanoseconds.
* A comparison of a missing attribute is false, so its negation holds, and so does an
  `unless` clause, although `PROTOCOL_CONTRACT.md:83` says that missing attributes fail
  closed. `MissingNeverSatisfies` is about conditions without negation.

## Proofs

| Theorem | Module | Says |
|---|---|---|
| `TypeCorrect` | `PolicySyncProofs` | Every variable of the process keeps its type. |
| `ServedBundles` | `PolicySyncProofs` | For any tenants, requests and bounds, what is served, about to be published or being evaluated is one committed, compiled bundle under its own revision. |
| `Tracking` | `PolicySyncProofs` | Every tenant in memory has an access record or its publisher is about to write one. |
| `PublicationsSurvive` | `PolicySyncProofs` | A tenant's entry only moves to a later revision or is dropped by the collector: no publication is lost. |
| `ViewRefinement` | `PolicySyncProofs` | The process implements PolicyView, the view of a replica the ERP fence relies on. |
| `FenceTypes` | `PolicyFenceProofs` | Every variable keeps its type; no decision carries an uncommitted revision. |
| `ExclusivePublications` | `PolicyFenceProofs` | For any number of writers, whatever fails, two are never inside a publication. |
| `ReadyRows` | `PolicyFenceProofs` | Whatever history the tenant has, a ready row names the committed revision, unless a decision inserted it and no mutation has committed since. |
| `UnrevokedCommits` | `PolicyFenceProofs` | A transaction about to commit holds a grant that nobody has revoked. |
| `LocallyAuthorisedCommits` | `PolicyFenceProofs` | What the snapshot said of local authority still holds when the transaction is about to commit. |
| `CurrentPolicyCommits` | `PolicyFenceProofs` | Every decision of a transaction about to commit was made under the row's revision, which is the committed one unless a first decision inserted the row and no mutation has committed since. |
| `LookupFinds` | `DecisionProofs` | For rule sets, hierarchies and orders of roles of any size, the lookup finds every policy whose scopes match, once for each time it was published. |
| `ForbidWins` | `DecisionProofs` | For every request that meets no global policy scoped to another action, the verdict is ALLOW exactly when a policy in force permits and none forbids, and it names only a policy in force. |
| `ExplanationHolds` | `DecisionProofs` | The policies an explanation lists justify its decision whenever both reads saw the same trie, whatever is published or simulated around them. |
| `ClosureCorrect` | `RoleDAGProofs` | For any finite set of roles and any lists of pairs, what IsDescendant and GetInheritedRoles answer is reachability in the graph added so far. |
| `StoredHierarchyLoads` | `RoleDAGProofs` | Every list replaceRoleInheritances committed is built by buildTenantTrie without an error, in any order of the rows, and the graph is the table. |
| `HasCycleIsExact` | `RoleDAGProofs` | The three-colour search of hasCycle reports a cycle if and only if the graph has one, in whatever order the keys come. |
| `ValidationIsExact` | `RoleDAGProofs` | The search of validateRoleInheritances reports a cycle if and only if the list has one, in whatever order the parents come. |
| `NeverCyclic` | `RoleDAGProofs` | Neither the stored rows nor the graph the engine answers from ever has a cycle, even when AddInheritance is called with pairs nobody validated. |
| `Composition` | `RoleDAGProofs` | Every behaviour of the engine buildTenantTrie composes is one of RoleDAG and one of Decision, so that the theorems about each hold of the whole. |
| `NothingLost` | `RevocationProofs` | For any replicas, grants and faults, every row in force is in the map of a ready replica whose session lives, or on its way there. |
| `EntriesOnlyGrow` | `RevocationProofs` | While the process runs, no entry in force is lowered or removed, whatever the handler, the syncer and a lookup do at once. |
| `NeverAcceptedAgain` | `RevocationProofs` | A check that began after a replica received a revocation requested after the grant's validity began is not accepted. |
| `NoEntryVanishes` | `AuditProofs` | For any entries, calls, tenants, faults and crashes, an entry is delivered, on disk, in memory, counted as dropped or lost with a crashed process. |
| `CountersAdd` | `AuditProofs` | For any number of calls of Log and of Stop, the counters of a process account for every call it has taken. |
| `EntryStoredOnce` | `AuditProofs` | However often a batch or a spill file is delivered again, an entry has one row in the database and one object in the archive. |
| `AtMostOnce` | `ApprovalProofs` | For any number of concurrent requests, retries, edits and resets, a command has at most one effect. |
| `AsIntended` | `ApprovalProofs` | An order that reaches a final state is, at the commit, what the request first saw and, on the approved route, what the human approved. |
| `Ledger` | `ApprovalProofs` | The ledger, the approval and the effect are committed together. |
| `Authorised` | `ApprovalProofs` | An effect is committed only under an active, unexpired and unrevoked grant and an unexpired approval. |
| `Onward` | `ApprovalProofs` | An approval only moves from pending to approved to one terminal state, with its first intent. |
| `Served` | `EdgeReplicaProofs` | For any policies, texts and publish requests, what a process serves, is about to install or has on disk is the active set committed under its revision. |
| `Restored` | `EdgeReplicaProofs` | A snapshot in the current format always restores, whatever administrators did since it was saved. |

They hold for every value of the constants allowed by the modules' assumptions:
any tenants, requests, writers, replicas, sessions, entries, policies, transactions
and bounds, any history of a tenant before it is fenced, and any finite set of roles.

**PolicySync.** The served map alone is not inductive: a publisher holds a copy of
the whole map between its read and its store. `Inv` therefore adds that the
process-wide write mutex has one owner and that the owner's copy still equals the
served map (`WriterDiscipline`), that every trie in a goroutine's hands is a
committed, compiled bundle under its own revision (`RevisionNamesBundle`), and that
locals belong to the tenant of the call (`ArgOK`). From it follow the two action
properties: no store moves an entry back, and every step is a step of `PolicyView`
or a stutter.

**PolicyFence.** `OwnerInv`: a writer inside a publication owns the row that is not
ready. `PolicyInv`: such a writer is the only one who can have advanced the revision
since the row was last ready, unless a first decision inserted the row. `LockInv`: a
row a transaction holds has not changed since its snapshot. `DecisionInv`: a
transaction past its decisions has one, and as long as it holds the policy row, the row
is ready at their revision. Together they give the commit properties.

**EdgeReplica.** `ServedAsCommitted` speaks of every set in memory, on disk and in a
goroutine's hands, but says nothing of the database, so `IInv` adds `Recorded`: the
active set at this moment is the one recorded under the current revision, no
recorded revision is later, and a revision names one set. It is what an update that
left the revision alone would break. `Tracked` adds that a set past the compiler
compiles and that an idle goroutine holds nothing; this gives
`SavedSnapshotsRestore`, since what is saved has passed the compiler that the restart
runs again.

**Revocation.** `NoLostRevocation` speaks of ready replicas, but a record is lost, if at
all, before the replica becomes ready. `NoneMissed` therefore begins when a live
session has loaded its snapshot, and follows a record at least as late as its row
from the snapshot or the queue through the syncer's hands into the map;
`ReadyWatches` adds that only the watch loop leaves a replica ready. The syncer takes
up a record only when its hand is empty, and a failed swap loads again, so no step
drops one in force. `ChecksConsistent` follows a check: before its lookup the map
holds what had arrived when it began, and after it that entry has expired. A proof
accepted then is still in its window, so the entry ended no later than the window;
a window is no longer than the entry's `TTL`, so the revocation was requested no later
than the window began. That is `RevokedStaysDenied`; `RevocationsOnlyGrow` follows
from the comparisons in `ApplySwap` and `DeleteExpired`.

**Approval.** The row of the order is the mutex of a whole command: whoever holds any
row holds that one, and what a session holds is not stale (`Owned`, `Held`). `Fresh`
says what a snapshot is still worth: a row that is neither stale nor written by the
session is as committed; a commit of the ledger or of a line also writes the order,
and one of the grant also the epoch, so the two locks that a request takes speak for
all of them. `Placed` states, for every place in the code, what the request is about
to commit: a new state of the approval, an order that waits, or the effect on either
route. `Agrees` and `Recorded` relate the committed rows: the ledger remembers the
effect. `OneEffect` follows because an effect needs a ledger row that does not say
"executed", read under the lock of the order.

**Audit.** `NothingVanishes` needs that the worker empties its batch, or removes a spill
file, only when the entries are in the database (`Delivered`), and that nothing
enters the queue once the worker drains it (`Drained`). For the counters, every call
of Log that has returned is counted in exactly one place: an entry is in memory once
and not also dropped (`InOnePlace`), a call that has not returned is counted nowhere
(`CallsOpen`), and every step moves as many entries as it adds to a counter
(`Balance`). `StoredOnce` follows from the life of a batch: what is in memory is
neither archived nor in a file, no entry is in two files (`Apart`), and what the
archive already has of a file is what the replay of that file will put again
(`Resumable`), so that the conditional put meets its own earlier object.

**Decision.** `IndexInv`: the trie indexes what was published and what simulations left
(`Indexed`: every policy is in the one leaf of its scopes, or in the global partition,
as often as it was added, and nowhere else), and the list of a subject's roles is its
closure without repetition (`RolesListed`). The lookup visits every subject of that
list once and its four leaves hold different policies, hence each match is found as
often as it was published. The verdict is then a statement about the set found, which
is the set in force when no policy strays.
`ExplainInv` follows an explanation between its two reads: revisions are never reused
and a simulation only lengthens what leaked, so the same revision and the same leak
mean the same verdict. The loops over rows and over roles are recursive functions;
`Recursion` shows such a function to exist and `UpTo` is the induction along it. Both
come from `Least`, that every set of numbers has a least element, so they speak of
sets and need no induction rule with an operator for a parameter.

**RoleDAG.** Each search is first shown to do its work on one role when the calls it
makes do theirs, and then, by induction on the depth, to do it whenever there are
calls enough left for the roles not met; each call meets one. `dfsCollect` adds
to `visited` only what is below the role, each with its children (`Collecting`), so
that it ends with a closed set, and the least closed set is reachability. For the two
cycle searches, what is finished (black, `visited`) is `Settled`: no edge leaves it
and no cycle goes through it. A role whose children are all settled can be settled,
and a graph whose parents are all settled has no cycle. The roles on the path (gray,
`visiting`) are above the role that is searched (`Called`, `Open`), so meeting one of
them closes a cycle. Both searches therefore find a cycle exactly where there is one
(`HasCycleIsExact`, `ValidationIsExact`): they agree although they were written
apart. `IInv` adds to the two properties that the stored rows are acyclic and that,
while they are loaded, the edges added and the pairs pending are together the rows;
a subset of acyclic rows is acyclic, hence no row is refused. TLC has checked `IInv`
on four roles with three pairs. The loops are handled as in `Decision`.
`Composition` shows that every step of `TenantEngine` is a step or a stutter of
`RoleDAG` and of `Decision`, with the closure of the one as the hierarchy of the other,
so that the theorems about both hold of the whole.

Only model-checked: every liveness property (fairness and ENABLED are outside the
prover), and what the run of `PolicyLanguage` checks. Lexer, parser, compiler and
evaluator are recursive over texts and expressions, in operators the prover does not
take. They are checked on every instance within the bounds above.

## Not modelled

* Redaction and codecs of audit entries: functions of one entry, without state.
* The canonical encoding of business intents in Go and Python: `Approval` takes the
  intent as the tuple that is encoded. That two tuples never share an encoding is a
  property of byte strings and of two JSON libraries, not of a state machine.
* HMAC, JWT, TLS and key rings: cryptography is taken to work, and a verification is
  a success or a failure.
* The replay buffer of policy events (`replay_buffer.go`): nothing outside its test
  calls it.
* Configuration, flags, wiring, metrics, middleware, `pectl`, generated clients,
  manifests and scripts: no protocol state.
* The confirmation of orders without a delegation grant: it has no ledger and no
  fences, only one decision before Odoo's own confirmation.
* Clearing or changing the delegation fields of an order. An order whose grant was
  cleared takes the undelegated branch of `_pdp_confirm_one`
  (`purchase_order.py:193-228`): one decision of the PDP on the human user, and then
  the final transition, without a ledger and without fences. The theorems about
  `Approval` are about orders that keep their grant.
* The allowed-tenant list and the shutdown of the embedded PDP, and the deletion of
  snapshots, which nothing calls.

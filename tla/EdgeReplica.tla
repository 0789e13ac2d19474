---------------------------- MODULE EdgeReplica -----------------------------
(***************************************************************************)
(* A process that holds the tenant's policies in memory while              *)
(* administrators change them (PolicyAdmin).  It is one of three kinds:    *)
(*   "edge"      a syncer with a BadgerDB store: every synchronisation is  *)
(*               saved on disk, and the process can start from the disk    *)
(*               without PostgreSQL (sync.go, badger.go, edge_restore.go); *)
(*   "control"   the control plane: a syncer without a store, and the      *)
(*               prewarm handler (handlers_tenant.go);                     *)
(*   "embedded"  a PDP inside a microservice (pkg/pdp/embedded.go).        *)
(* SetBadgerStore has no caller: the server's main gives its syncer no     *)
(* store, and starts an edge node from the disk alone.  The edge process   *)
(* that is online and saves is the engine package's, as an application     *)
(* that calls SetBadgerStore would run it.                                 *)
(*                                                                         *)
(* In each of them several goroutines load, compile and install the policy *)
(* set concurrently.  The details of the engine's state are in PolicySync; *)
(* here a compiled set is the set of its sources.                          *)
(***************************************************************************)
EXTENDS PolicyAdmin

VARIABLES
  kind,      \* the kind of the process
  mode,      \* "down", "online" or "offline"
  engine,    \* the revision and policies in memory
  disk,      \* the snapshot in BadgerDB, with its format
  task       \* per goroutine: what it is about to do, and the set it loaded

replicaVars == <<kind, mode, engine, disk, task>>
vars == <<rows, revision, committed, session, kind, mode, engine, disk, task>>

(* The NOTIFY or Redis subscriber, the reconciliation worker or syncLoop,   *)
(* and the prewarm handler.                                                 *)
Threads == {"events", "ticker", "prewarm"}

Unloaded == Versioned(0, {})
Waiting == [pc |-> "idle", set |-> Unloaded]
NoSnapshot == [format |-> "none", set |-> Unloaded]
Legacy == [format |-> "old", set |-> Unloaded]

Init ==
  /\ AdminInit
  /\ kind \in {"edge", "control", "embedded"}
  /\ mode = "down"
  /\ engine = Unloaded
  /\ disk \in {NoSnapshot, Legacy}
  /\ task = [th \in Threads |-> Waiting]

(* CompilePolicySet succeeds: every source is one statement that compiles.  *)
CompilePolicySet(policies) == \A source \in policies : source[2] \in Good

Current == Versioned(revision, Bundle)

-----------------------------------------------------------------------------
(* When a goroutine goes to the database.                                   *)

(* Mutant of SyncerTurns: the ticker handles only the next revision.        *)
GapMissed(th) ==
  /\ kind \in {"edge", "control"}
  /\ \/ th = "events" /\ revision > engine.rev
     \/ th = "ticker" /\ revision = engine.rev + 1 /\ engine # Unloaded

(* An event or a tick counts if it is newer than the memory; the ticker     *)
(* visits loaded tenants, and an event or a request for a tenant that is    *)
(* not loaded loads it.                                                     *)
SyncerTurns(th) ==
  /\ kind \in {"edge", "control"}
  /\ \/ th = "events" /\ revision > engine.rev
     \/ th = "ticker" /\ revision > engine.rev /\ engine # Unloaded

EmbeddedTurns(th) == kind = "embedded" /\ th \in {"events", "ticker"}

handlePrewarm(th) == kind = "control" /\ th = "prewarm"

(* A bundle is read and compiled; one that does not compile is reported and *)
(* what is in memory stays.                                                 *)
Load(th) ==
  /\ mode = "online"
  /\ task[th] = Waiting
  /\ SyncerTurns(th) \/ EmbeddedTurns(th) \/ handlePrewarm(th)
  /\ task' = [task EXCEPT ![th] =
                IF CompilePolicySet(Bundle) THEN [pc |-> "install", set |-> Current] ELSE Waiting]
  /\ UNCHANGED <<kind, mode, engine, disk>>

revisionIsStale(set) == set.rev < engine.rev

(* UpdateTenantPoliciesWithRevision; a set of the revision in memory is     *)
(* dropped.  Only the edge syncer has a store to save to, and it saves      *)
(* unless the set was stale.                                                *)
Install(th) ==
  LET set == task[th].set
  IN /\ task[th].pc = "install"
     /\ engine' = IF revisionIsStale(set) \/ set.rev = engine.rev THEN engine ELSE set
     /\ task' = [task EXCEPT ![th] =
                   IF kind = "edge" /\ ~revisionIsStale(set)
                   THEN [pc |-> "save", set |-> set] ELSE Waiting]
     /\ UNCHANGED <<kind, mode, disk>>

(* Mutant of Save: what the database holds now is saved, compiled or not.   *)
SaveCurrent(th) ==
  /\ task[th].pc = "save"
  /\ task' = [task EXCEPT ![th] = Waiting]
  /\ disk' = [format |-> "current", set |-> Current]
  /\ UNCHANGED <<kind, mode, engine>>

(* SavePolicySnapshot replaces the tenant's snapshot, or fails and leaves   *)
(* it.  No lock orders the saves of the two goroutines.                     *)
Save(th) ==
  /\ task[th].pc = "save"
  /\ task' = [task EXCEPT ![th] = Waiting]
  /\ disk' \in {disk, [format |-> "current", set |-> task[th].set]}
  /\ UNCHANGED <<kind, mode, engine>>

-----------------------------------------------------------------------------

(* UnloadTenant by the garbage collector, which runs offline too; the       *)
(* embedded engine has none.                                                *)
UnloadTenant ==
  /\ mode # "down"
  /\ kind # "embedded"
  /\ engine # Unloaded
  /\ engine' = Unloaded
  /\ UNCHANGED <<kind, mode, disk, task>>

(* Memory is lost, the disk is not.                                         *)
Crash ==
  /\ mode # "down"
  /\ mode' = "down"
  /\ engine' = Unloaded
  /\ task' = [th \in Threads |-> Waiting]
  /\ UNCHANGED <<kind, disk>>

(* A server, or an edge process with the database in reach, starts empty    *)
(* and fills on demand.                                                     *)
StartServer ==
  /\ mode = "down"
  /\ kind \in {"edge", "control"}
  /\ mode' = "online"
  /\ UNCHANGED <<kind, engine, disk, task>>

(* New of the embedded PDP: the first synchronisation must succeed.         *)
StartEmbedded ==
  /\ mode = "down"
  /\ kind = "embedded"
  /\ IF CompilePolicySet(Bundle) THEN mode' = "online" /\ engine' = Current
     ELSE UNCHANGED <<mode, engine>>
  /\ UNCHANGED <<kind, disk, task>>

(* LoadPolicySnapshot and its validation, and the recompilation.  The role  *)
(* inheritances saved with the set, and that they build again, are the      *)
(* subject of RoleDAG.                                                      *)
Restorable(snapshot) ==
  /\ snapshot.format = "current"
  /\ snapshot.set.rev # 0
  /\ CompilePolicySet(snapshot.set.policies)

(* RestoreEdgeSnapshots runs before anything else, without a syncer; the    *)
(* process ends if it fails.                                                *)
RestoreEdgeSnapshots ==
  /\ mode = "down"
  /\ kind = "edge"
  /\ IF Restorable(disk) THEN mode' = "offline" /\ engine' = disk.set
     ELSE UNCHANGED <<mode, engine>>
  /\ UNCHANGED <<kind, disk, task>>

ReplicaStep ==
  \/ \E th \in Threads : Load(th) \/ Install(th) \/ Save(th)
  \/ UnloadTenant \/ Crash \/ StartServer \/ StartEmbedded \/ RestoreEdgeSnapshots

Next ==
  \/ AdminStep /\ UNCHANGED replicaVars
  \/ ReplicaStep /\ UNCHANGED adminVars

(* A goroutine that has work to do does it, and the ticker ticks.  Nothing  *)
(* makes events arrive.                                                     *)
Fairness ==
  /\ WF_vars(Load("ticker") /\ UNCHANGED adminVars)
  /\ \A th \in Threads : WF_vars((Install(th) \/ Save(th)) /\ UNCHANGED adminVars)

Spec == Init /\ [][Next]_vars /\ Fairness

-----------------------------------------------------------------------------

Versions == [rev : Nat, policies : SUBSET (Policies \X (Texts \cup {NoText}))]

(* The values of the variables.                                             *)
TypeOK ==
  /\ rows \in [Policies -> [text : Texts \cup {NoText}, ast : Texts \cup {NoText},
                             status : {"none", "DRAFT", "ACTIVE", "deleted"}]]
  /\ revision \in Nat \ {0}
  /\ committed \subseteq Versions
  /\ session \in [Sessions -> [id : Policies \cup {"none"}, text : Texts \cup {NoText}]]
  /\ kind \in {"edge", "control", "embedded"}
  /\ mode \in {"down", "online", "offline"}
  /\ engine \in Versions
  /\ disk \in [format : {"none", "old", "current"}, set : Versions]
  /\ task \in [Threads -> [pc : {"idle", "install", "save"}, set : Versions]]

Snapshots == {engine, disk.set} \cup {task[th].set : th \in Threads}

(* Whatever a process serves, is about to install or has on disk is exactly *)
(* the active set that was committed under the revision it carries, and a   *)
(* revision names one set: no mixture of two revisions is ever served,      *)
(* neither online nor after a restart from disk.                            *)
ServedAsCommitted ==
  /\ \A set \in Snapshots : set # Unloaded => set \in committed
  /\ \A a, b \in committed : a.rev = b.rev => a = b

(* A snapshot that a synchronisation saved can always be restored, even     *)
(* when the administrators have broken the active set since: an offline     *)
(* start fails only for want of a snapshot in the current format.           *)
SavedSnapshotsRestore == disk.format = "current" => Restorable(disk)

(* A process whose tenant is loaded ends up serving the last revision if    *)
(* the set that stays active compiles, even if every event is lost.         *)
TickerCatchesUp ==
  <>[](mode = "online" /\ engine # Unloaded /\ CompilePolicySet(Bundle))
    => <>[](engine.rev = revision)

=============================================================================

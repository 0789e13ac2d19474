----------------------------- MODULE PolicySync -----------------------------
(***************************************************************************)
(* One PDP process: the copy-on-write engine state (engine_gc.go,          *)
(* state_writer.go), the Syncer that keeps it in step with PostgreSQL      *)
(* (sync.go), the tenant garbage collector, and the requests that read the *)
(* state or load a tenant lazily.                                          *)
(*                                                                         *)
(* Data abstraction.  What matters of a tenant's ACTIVE policies and role  *)
(* inheritances is which committed revision they are; so a compiled trie   *)
(* is the pair of the revision it is labelled with (TrieRoot.Revision) and *)
(* the revision whose content it was built from.  Revisions start at 1     *)
(* (migration 000003), so the label 0 stands for "tenant not in the map",  *)
(* which is also what GetTenantRevision answers for such a tenant.         *)
(***************************************************************************)
EXTENDS Naturals, Sequences, FiniteSets

CONSTANTS
  Tenants,      \* tenant identifiers
  Requests,     \* gRPC handler goroutines that evaluate a decision
  Issuers,      \* the requests that are IssueApprovalCapability calls
  GCEnabled,    \* EngineWithGC.gcEnabled
  MaxCommits,   \* bound: committed policy changes
  MaxFaults     \* bound: failed statements and lost connections

Subscriber == "subscriber"    \* goroutine postgresEventSubscriber
Reconciler == "reconciler"    \* goroutine reconciliationWorker
GC == "gc"                    \* goroutine gcWorker
NoThread == "free"
NoTenant == "no tenant"

Syncers == Requests \cup {Subscriber, Reconciler}
Threads == Syncers \cup {GC}

ASSUME ConstantsAssumption ==
  /\ Issuers \subseteq Requests
  /\ Requests \cap {Subscriber, Reconciler, GC, NoThread} = {}
  /\ NoTenant \notin Tenants
  /\ GCEnabled \in BOOLEAN
  /\ MaxCommits \in Nat
  /\ MaxFaults \in Nat

VARIABLES
  dbRev,    \* tenants.revision
  broken,   \* <<tenant, revision>> pairs whose policy set does not compile
  link,     \* the LISTEN session: "closed", "open", "broken" (not yet noticed)
  queue,    \* notifications sent on the session and not yet handled
  status,   \* Syncer.status
  commits,  \* policy changes so far
  faults,   \* failures so far
  mem,      \* the published EngineState: tenant -> trie
  record,   \* accessRecords: "none", "fresh" or "idle" (older than maxIdleTime)
  writeMu,  \* holder of EngineWithGC.writeMu
  pc,       \* where each goroutine stands
  arg,      \* the tenant it works on
  want,     \* the revision it was asked to reach
  trie,     \* the trie it has built or read
  copy,     \* the EngineState it read under writeMu
  todo,     \* tenants left in the reconciler's pass
  victims,  \* tenants left in the collector's pass
  issued    \* per issuer, the capability it last returned: the revision of the
            \* decision, and IssuancePolicyRevision; <<0, 0>> when there is none

dbVars == <<dbRev, broken, commits>>
linkVars == <<link, queue, status>>
engineVars == <<mem, record, writeMu>>
threadVars == <<pc, arg, want, trie, copy, todo, victims>>
vars == <<dbVars, linkVars, faults, engineVars, threadVars, issued>>

Revisions == Nat \ {0}
Trie == [rev : Nat, content : Nat]
NoTrie == [rev |-> 0, content |-> 0]
EngineState == [Tenants -> Trie]
NoState == [t \in Tenants |-> NoTrie]

Loaded(t) == mem[t].rev > 0
LoadedTenants == {t \in Tenants : Loaded(t)}

Init ==
  /\ dbRev = [t \in Tenants |-> 1]
  /\ broken = {}
  /\ link = "closed"
  /\ queue = <<>>
  /\ status = "not_ready"
  /\ commits = 0
  /\ faults = 0
  /\ mem = NoState
  /\ record = [t \in Tenants |-> "none"]
  /\ writeMu = NoThread
  /\ pc = [w \in Threads |-> "idle"]
  /\ arg = [w \in Threads |-> NoTenant]
  /\ want = [w \in Threads |-> 0]
  /\ trie = [w \in Threads |-> NoTrie]
  /\ copy = [w \in Threads |-> NoState]
  /\ todo = {}
  /\ victims = {}
  /\ issued = [r \in Issuers |-> <<0, 0>>]

Goto(w, label) == pc' = [pc EXCEPT ![w] = label]

(* The goroutine's call returns and its local variables go out of scope.     *)
Return(w) ==
  /\ Goto(w, "idle")
  /\ arg' = [arg EXCEPT ![w] = NoTenant]
  /\ want' = [want EXCEPT ![w] = 0]
  /\ trie' = [trie EXCEPT ![w] = NoTrie]
  /\ copy' = [copy EXCEPT ![w] = NoState]

Fault == faults < MaxFaults /\ faults' = faults + 1

-----------------------------------------------------------------------------
(* PostgreSQL: a committed mutation of the ACTIVE set (publish, update or    *)
(* delete of a policy, or new role inheritances) advances the revision and   *)
(* notifies in the same transaction.  ok says whether the new set compiles.  *)

CommitPolicyChange(t, ok) ==
  /\ commits < MaxCommits
  /\ commits' = commits + 1
  /\ dbRev' = [dbRev EXCEPT ![t] = @ + 1]
  /\ broken' = IF ok THEN broken ELSE broken \cup {<<t, dbRev[t] + 1>>}
  /\ queue' = IF link = "open" THEN Append(queue, <<t, dbRev[t] + 1>>) ELSE queue
  /\ UNCHANGED <<link, status, faults, engineVars, threadVars, issued>>

-----------------------------------------------------------------------------
(* The LISTEN session.  The subscriber only looks at the connection between  *)
(* two notifications, so a loss is noticed when it is idle.                  *)

Listen ==
  /\ link = "closed" /\ pc[Subscriber] = "idle"
  /\ link' = "open"
  /\ status' = "healthy"
  /\ UNCHANGED <<dbVars, queue, faults, engineVars, threadVars, issued>>

ListenFails ==
  /\ link = "closed" /\ pc[Subscriber] = "idle"
  /\ Fault
  /\ status' = "degraded"
  /\ UNCHANGED <<dbVars, link, queue, engineVars, threadVars, issued>>

ConnectionLost ==
  /\ link = "open"
  /\ Fault
  /\ link' = "broken"
  /\ queue' = <<>>
  /\ UNCHANGED <<dbVars, status, engineVars, threadVars, issued>>

NoticeLoss ==
  /\ link = "broken" /\ pc[Subscriber] = "idle"
  /\ link' = "closed"
  /\ status' = "degraded"
  /\ UNCHANGED <<dbVars, queue, faults, engineVars, threadVars, issued>>

shouldSyncRevision(current, received) == received = 0 \/ received > current

ReceiveEvent ==
  /\ link = "open" /\ queue # <<>> /\ pc[Subscriber] = "idle"
  /\ queue' = Tail(queue)
  /\ LET t == Head(queue)[1]
         received == Head(queue)[2]
     IN IF shouldSyncRevision(mem[t].rev, received)
        THEN /\ Goto(Subscriber, "load")
             /\ arg' = [arg EXCEPT ![Subscriber] = t]
             /\ want' = [want EXCEPT ![Subscriber] = received]
        ELSE UNCHANGED <<pc, arg, want>>
  /\ UNCHANGED <<dbVars, link, status, faults, engineVars, trie, copy, todo,
                 victims, issued>>

-----------------------------------------------------------------------------
(* SyncTenantWithRevision, run by the subscriber, the reconciler and, as the *)
(* lazy loader, by requests.  An error degrades the status (background       *)
(* workers) or denies the request.                                           *)

SyncError(w) ==
  /\ Return(w)
  /\ status' = IF w \in Requests THEN status ELSE "degraded"

(* A request goes on to read the state again; a worker is done.              *)
SyncDone(w) ==
  IF w \in Requests
  THEN /\ Goto(w, "reread")
       /\ trie' = [trie EXCEPT ![w] = NoTrie]
       /\ copy' = [copy EXCEPT ![w] = NoState]
       /\ UNCHANGED <<arg, want>>
  ELSE Return(w)

(* GetTenantPolicyBundle reads revision, policies and inheritances in one    *)
(* repeatable-read snapshot.                                                 *)
GetTenantPolicyBundle(t) == [rev |-> dbRev[t], content |-> dbRev[t]]

(* The trie is labelled with the revision of the bundle, whatever revision   *)
(* the caller asked for.                                                     *)
RequestedRevision(requested, bundle) ==    \* mutant: trusts the event
  IF requested > 0 THEN requested ELSE bundle.rev

PublishedRevision(requested, bundle) == bundle.rev

LoadBundle(w) ==
  /\ pc[w] = "load"
  /\ LET bundle == GetTenantPolicyBundle(arg[w])
     IN IF <<arg[w], bundle.content>> \in broken \/ want[w] > bundle.rev
        THEN SyncError(w)
        ELSE /\ Goto(w, "publish")
             /\ trie' = [trie EXCEPT ![w] =
                  [bundle EXCEPT !.rev = PublishedRevision(want[w], bundle)]]
             /\ UNCHANGED <<arg, want, copy, status>>
  /\ UNCHANGED <<dbVars, link, queue, faults, engineVars, todo, victims, issued>>

LoadFailsUnloading(w) ==    \* mutant: a failed load drops the last known good
  /\ pc[w] = "load"
  /\ Fault
  /\ SyncError(w)
  /\ mem' = [mem EXCEPT ![arg[w]] = NoTrie]
  /\ UNCHANGED <<dbVars, link, queue, record, writeMu, todo, victims, issued>>

LoadFails(w) ==
  /\ pc[w] = "load"
  /\ Fault
  /\ SyncError(w)
  /\ UNCHANGED <<dbVars, link, queue, engineVars, todo, victims, issued>>

NeverStale(state, t, rev) == FALSE    \* mutant: the last writer wins

revisionIsStale(state, t, rev) == state[t].rev > 0 /\ rev > 0 /\ rev < state[t].rev
revisionIsDuplicate(state, t, rev) == state[t].rev > 0 /\ rev > 0 /\ rev = state[t].rev


CanLock == writeMu = NoThread

(* UpdateTenantPoliciesWithRevision up to the decision to publish.  A stale  *)
(* or duplicate trie is dropped and the lock released at once.               *)
PublishLock(w) ==
  /\ pc[w] = "publish"
  /\ CanLock
  /\ IF \/ revisionIsStale(mem, arg[w], trie[w].rev)
        \/ revisionIsDuplicate(mem, arg[w], trie[w].rev)
     THEN SyncDone(w) /\ UNCHANGED writeMu
     ELSE /\ writeMu' = w
          /\ copy' = [copy EXCEPT ![w] = mem]
          /\ Goto(w, "store")
          /\ UNCHANGED <<arg, want, trie>>
  /\ UNCHANGED <<dbVars, linkVars, faults, mem, record, todo, victims, issued>>

stateWithTenant(state, t, new) == [state EXCEPT ![t] = new]
stateWithoutTenant(state, t) == [state EXCEPT ![t] = NoTrie]

PublishStore(w) ==
  /\ pc[w] = "store"
  /\ mem' = stateWithTenant(copy[w], arg[w], trie[w])
  /\ writeMu' = NoThread
  /\ copy' = [copy EXCEPT ![w] = NoState]
  /\ Goto(w, "touch")
  /\ UNCHANGED <<dbVars, linkVars, faults, record, arg, want, trie, todo,
                 victims, issued>>

touchTenant(t) == record' = [record EXCEPT ![t] = "fresh"]

PublishTouch(w) ==
  /\ pc[w] = "touch"
  /\ touchTenant(arg[w])
  /\ SyncDone(w)
  /\ UNCHANGED <<dbVars, linkVars, faults, mem, writeMu, todo, victims, issued>>

-----------------------------------------------------------------------------
(* Requests.  CheckPermission reads the state once; when the tenant is       *)
(* absent GetTenantTrie reads it again, loads it, and reads it a third time. *)

UseTrie(r, t) ==
  /\ Goto(r, "eval")
  /\ trie' = [trie EXCEPT ![r] = mem[t]]

CheckPermission(r, t) ==
  /\ pc[r] = "idle"
  /\ arg' = [arg EXCEPT ![r] = t]
  /\ issued' = [i \in Issuers |-> IF i = r THEN <<0, 0>> ELSE issued[i]]
  /\ IF Loaded(t) THEN UseTrie(r, t) ELSE Goto(r, "lookup") /\ UNCHANGED trie
  /\ UNCHANGED <<dbVars, linkVars, faults, engineVars, want, copy, todo, victims>>

GetTenantTrie(r) ==
  /\ pc[r] = "lookup"
  /\ IF Loaded(arg[r]) THEN UseTrie(r, arg[r]) ELSE Goto(r, "load") /\ UNCHANGED trie
  /\ UNCHANGED <<dbVars, linkVars, faults, engineVars, arg, want, copy, todo,
                 victims, issued>>

RereadUntilLoaded(r) ==    \* mutant: loads again instead of denying
  /\ pc[r] = "reread"
  /\ IF Loaded(arg[r]) THEN UseTrie(r, arg[r]) ELSE Goto(r, "load") /\ UNCHANGED trie
  /\ UNCHANGED <<dbVars, linkVars, faults, engineVars, arg, want, copy, todo,
                 victims, issued>>

(* After the lazy load; the tenant may have been unloaded again (deny).      *)
RereadTrie(r) ==
  /\ pc[r] = "reread"
  /\ IF Loaded(arg[r]) THEN UseTrie(r, arg[r]) /\ UNCHANGED <<arg, want, copy>>
     ELSE Return(r)
  /\ UNCHANGED <<dbVars, linkVars, faults, engineVars, todo, victims, issued>>

(* Touch, then evaluate the immutable trie: the answer carries trie.Revision. *)
(* An issuer whose decision is ALLOW goes on to sign a capability.            *)
Evaluate(r) ==
  /\ pc[r] = "eval"
  /\ touchTenant(arg[r])
  /\ \/ Return(r)
     \/ r \in Issuers /\ Goto(r, "issue") /\ UNCHANGED <<arg, want, trie, copy>>
  /\ UNCHANGED <<dbVars, linkVars, faults, mem, writeMu, todo, victims, issued>>

(* The rest of IssueApprovalCapability: it asks the engine for the revision. *)
IssueApprovalCapability(r) ==
  /\ pc[r] = "issue"
  /\ issued' = [issued EXCEPT ![r] = <<trie[r].rev, mem[arg[r]].rev>>]
  /\ Return(r)
  /\ UNCHANGED <<dbVars, linkVars, faults, engineVars, todo, victims>>

-----------------------------------------------------------------------------
(* The reconciler: on a tick it walks the tenants of one state snapshot.     *)

ReconcileTick ==
  /\ pc[Reconciler] = "idle" /\ todo = {}
  /\ LoadedTenants # {}
  /\ todo' = LoadedTenants
  /\ UNCHANGED <<dbVars, linkVars, faults, engineVars, pc, arg, want, trie, copy,
                 victims, issued>>

ReconcileRead(t) ==
  /\ pc[Reconciler] = "idle" /\ t \in todo
  /\ todo' = todo \ {t}
  /\ Goto(Reconciler, "compare")
  /\ arg' = [arg EXCEPT ![Reconciler] = t]
  /\ want' = [want EXCEPT ![Reconciler] = dbRev[t]]
  /\ UNCHANGED <<dbVars, linkVars, faults, engineVars, trie, copy, victims, issued>>

ReconcileReadFails(t) ==
  /\ pc[Reconciler] = "idle" /\ t \in todo
  /\ Fault
  /\ todo' = todo \ {t}
  /\ status' = "degraded"
  /\ UNCHANGED <<dbVars, link, queue, engineVars, pc, arg, want, trie, copy,
                 victims, issued>>

BehindByAGap(db, current) == db > current + 1    \* mutant: only reacts to gaps

Behind(db, current) == db > current

reconcileTenantRevision ==
  /\ pc[Reconciler] = "compare"
  /\ IF Behind(want[Reconciler], mem[arg[Reconciler]].rev)
     THEN Goto(Reconciler, "load") /\ UNCHANGED <<arg, want, trie, copy>>
     ELSE Return(Reconciler)
  /\ UNCHANGED <<dbVars, linkVars, faults, engineVars, todo, victims, issued>>

-----------------------------------------------------------------------------
(* The collector.  Records age with time; a cycle collects the idle ones and *)
(* then unloads them one by one without looking at their age again.          *)

AgeRecord(t) ==
  /\ GCEnabled
  /\ record[t] = "fresh"
  /\ record' = [record EXCEPT ![t] = "idle"]
  /\ UNCHANGED <<dbVars, linkVars, faults, mem, writeMu, threadVars, issued>>

runGCCycle ==
  /\ GCEnabled
  /\ pc[GC] = "idle" /\ victims = {}
  /\ \E t \in Tenants : record[t] = "idle"
  /\ victims' = {t \in Tenants : record[t] = "idle"}
  /\ UNCHANGED <<dbVars, linkVars, faults, engineVars, pc, arg, want, trie, copy,
                 todo, issued>>

UnloadLock(t) ==
  /\ pc[GC] = "idle" /\ t \in victims
  /\ CanLock
  /\ victims' = victims \ {t}
  /\ IF Loaded(t)
     THEN /\ writeMu' = GC
          /\ copy' = [copy EXCEPT ![GC] = mem]
          /\ arg' = [arg EXCEPT ![GC] = t]
          /\ Goto(GC, "unload")
     ELSE UNCHANGED <<writeMu, copy, arg, pc>>
  /\ UNCHANGED <<dbVars, linkVars, faults, mem, record, want, trie, todo, issued>>

UnloadStoreThenUnlock ==    \* mutant: the record is deleted after the unlock
  /\ pc[GC] = "unload"
  /\ mem' = stateWithoutTenant(copy[GC], arg[GC])
  /\ copy' = [copy EXCEPT ![GC] = NoState]
  /\ writeMu' = NoThread
  /\ Goto(GC, "delete")
  /\ UNCHANGED <<dbVars, linkVars, faults, record, arg, want, trie, todo, victims,
                 issued>>

UnloadStore ==
  /\ pc[GC] = "unload"
  /\ mem' = stateWithoutTenant(copy[GC], arg[GC])
  /\ copy' = [copy EXCEPT ![GC] = NoState]
  /\ Goto(GC, "delete")
  /\ UNCHANGED <<dbVars, linkVars, faults, record, writeMu, arg, want, trie, todo,
                 victims, issued>>

UnloadDelete ==
  /\ pc[GC] = "delete"
  /\ record' = [record EXCEPT ![arg[GC]] = "none"]
  /\ writeMu' = NoThread
  /\ Return(GC)
  /\ UNCHANGED <<dbVars, linkVars, faults, mem, todo, victims, issued>>

-----------------------------------------------------------------------------

Session == Listen \/ ListenFails \/ ConnectionLost \/ NoticeLoss \/ ReceiveEvent

SyncTenant(w) ==
  LoadBundle(w) \/ LoadFails(w) \/ PublishLock(w) \/ PublishStore(w) \/ PublishTouch(w)

Request(r) ==
  \/ \E t \in Tenants : CheckPermission(r, t)
  \/ GetTenantTrie(r) \/ RereadTrie(r) \/ Evaluate(r) \/ IssueApprovalCapability(r)

Reconcile ==
  \/ ReconcileTick
  \/ \E t \in Tenants : ReconcileRead(t) \/ ReconcileReadFails(t)
  \/ reconcileTenantRevision

Collect ==
  \/ runGCCycle \/ UnloadStore \/ UnloadDelete
  \/ \E t \in Tenants : AgeRecord(t) \/ UnloadLock(t)

Next ==
  \/ \E t \in Tenants, ok \in BOOLEAN : CommitPolicyChange(t, ok)
  \/ Session
  \/ \E w \in Syncers : SyncTenant(w)
  \/ \E r \in Requests : Request(r)
  \/ Reconcile
  \/ Collect

Spec == Init /\ [][Next]_vars

(* A runnable goroutine runs; sync.Mutex hands the lock to a waiter that has *)
(* been starved for a millisecond, so whoever keeps asking gets it; the      *)
(* reconnect and reconcile timers fire.  Nothing makes clients call, commits *)
(* happen, records age or connections fail.                                  *)
Fairness ==
  /\ WF_vars(Listen) /\ WF_vars(NoticeLoss) /\ WF_vars(ReceiveEvent)
  /\ \A w \in Syncers :
       /\ WF_vars(LoadBundle(w) \/ PublishStore(w) \/ PublishTouch(w))
       /\ SF_vars(PublishLock(w))
  /\ \A r \in Requests :
       WF_vars(GetTenantTrie(r) \/ RereadTrie(r) \/ Evaluate(r) \/ IssueApprovalCapability(r))
  /\ WF_vars(ReconcileTick \/ (\E t \in Tenants : ReconcileRead(t)) \/ reconcileTenantRevision)
  /\ WF_vars(UnloadStore \/ UnloadDelete)

FairSpec == Spec /\ Fairness

-----------------------------------------------------------------------------

Labels == {"idle", "load", "publish", "store", "touch", "lookup", "reread",
           "eval", "issue", "compare", "unload", "delete"}

(* Every variable has the type of the Go field or local it stands for.       *)
TypeOK ==
  /\ dbRev \in [Tenants -> Revisions]
  /\ broken \subseteq Tenants \X Revisions
  /\ link \in {"closed", "open", "broken"}
  /\ queue \in Seq(Tenants \X Revisions)
  /\ status \in {"not_ready", "healthy", "degraded"}
  /\ commits \in 0 .. MaxCommits
  /\ faults \in 0 .. MaxFaults
  /\ mem \in EngineState
  /\ record \in [Tenants -> {"none", "fresh", "idle"}]
  /\ writeMu \in Threads \cup {NoThread}
  /\ pc \in [Threads -> Labels]
  /\ arg \in [Threads -> Tenants \cup {NoTenant}]
  /\ want \in [Threads -> Nat]
  /\ trie \in [Threads -> Trie]
  /\ copy \in [Threads -> EngineState]
  /\ todo \subseteq Tenants
  /\ victims \subseteq Tenants
  /\ issued \in [Issuers -> Nat \X Nat]

(* A trie of t that is in use is exactly the content committed under the     *)
(* revision it is labelled with, that revision has been committed, and its   *)
(* set compiled: an invalid set never replaces the last known good one.      *)
Faithful(t, x) == x.content = x.rev /\ x.rev <= dbRev[t] /\ <<t, x.rev>> \notin broken

(* What the engine serves, what a goroutine is about to publish and what a   *)
(* request evaluates is one committed bundle under its own revision, however *)
(* commits, loads, publications and unloads interleave.                      *)
Holding == {"publish", "store", "eval", "issue"}
RevisionNamesBundle ==
  /\ \A t \in LoadedTenants : Faithful(t, mem[t])
  /\ \A w \in Syncers : pc[w] \in Holding => trie[w].rev > 0 /\ Faithful(arg[w], trie[w])

(* Whoever is between reading the state and storing its successor holds      *)
(* writeMu, works from the state that is still published, and has something  *)
(* newer to publish; the record is deleted while the tenant is out.          *)
Critical == {"store", "unload", "delete"}
WriterDiscipline ==
  /\ \A w \in Threads : writeMu = w <=> pc[w] \in Critical
  /\ \A w \in Threads : pc[w] \in {"store", "unload"} => copy[w] = mem
  /\ \A w \in Threads : pc[w] = "store" => trie[w].rev > mem[arg[w]].rev
  /\ pc[GC] = "delete" => ~Loaded(arg[GC])

(* Copy-on-write publication loses nobody's update: a tenant's entry changes *)
(* only to a later revision or, by the collector's own store, to nothing.    *)
NoLostUpdate ==
  [][\A t \in Tenants :
       \/ mem'[t] = mem[t]
       \/ mem'[t].rev > mem[t].rev
       \/ mem'[t] = NoTrie /\ pc[GC] = "unload" /\ arg[GC] = t]_vars

(* The process implements the abstract view: it serves nothing or one        *)
(* committed revision per tenant and moves only forwards, except that the    *)
(* collector may drop the tenant.                                            *)
View == INSTANCE PolicyView
          WITH committed <- dbRev, served <- [t \in Tenants |-> mem[t].rev]
ImplementsPolicyView == View!Spec

(* The collector can find every tenant in memory: UnloadTenant deletes the   *)
(* access record, and whoever loads the tenant afterwards puts one back.     *)
LoadedTenantsAreTracked ==
  \A t \in LoadedTenants :
    \/ record[t] # "none"
    \/ \E w \in Syncers : pc[w] = "touch" /\ arg[w] = t

(* Whatever notifications were lost, the engine keeps catching up: again and *)
(* again a loaded tenant is at the database revision, unless the set at that *)
(* revision does not compile.                                                *)
CatchUp ==
  \A t \in Tenants :
    []<>(~Loaded(t) \/ mem[t].rev = dbRev[t] \/ <<t, dbRev[t]>> \in broken)

(* Every decision request returns: no path keeps writeMu.                    *)
RequestsReturn == \A r \in Requests : []<>(pc[r] = "idle")

=============================================================================

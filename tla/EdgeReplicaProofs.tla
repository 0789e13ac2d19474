------------------------- MODULE EdgeReplicaProofs --------------------------
(***************************************************************************)
(* ServedAsCommitted and SavedSnapshotsRestore for any policies, texts,    *)
(* publish requests and number of revisions.  The inductive invariant says *)
(* of every set on its way from the database to memory or disk that it was *)
(* committed, and of those past the compiler that they compile.            *)
(***************************************************************************)
EXTENDS EdgeReplica, TLAPS

(* The latest revision names the active set, and the earlier ones are older.*)
Recorded ==
  /\ Current \in committed
  /\ \A c \in committed : c.rev <= revision
  /\ \A a, b \in committed : a.rev = b.rev => a = b

(* A set that has passed CompilePolicySet.                                  *)
Compiled(set) == set \in committed /\ set.rev # 0 /\ CompilePolicySet(set.policies)

(* An idle goroutine holds nothing, a busy one a compiled set.              *)
Sound(job) == IF job.pc = "idle" THEN job = Waiting ELSE Compiled(job.set)

Tracked ==
  /\ engine = Unloaded \/ engine \in committed
  /\ disk.format = "current" => Compiled(disk.set)
  /\ disk.format # "current" => disk.set = Unloaded
  /\ \A th \in Threads : Sound(task[th])
  /\ mode = "down" => engine = Unloaded /\ task = [th \in Threads |-> Waiting]

IInv == TypeOK /\ Recorded /\ Tracked

-----------------------------------------------------------------------------

(* The types of the bundle and of the constant states.                      *)
LEMMA BundleType ==
  ASSUME TypeOK
  PROVE  Current \in Versions /\ Unloaded \in Versions
  BY DEF TypeOK, Current, Versioned, Versions, Bundle, Unloaded

(* Initially nothing is active and nothing is loaded.                       *)
LEMMA InitInv == Init => IInv
  <1> SUFFICES ASSUME Init PROVE IInv
    OBVIOUS
  <1> USE DEF Init, AdminInit
  <1>1. Bundle = {}
    BY DEF Bundle, NoRow
  <1>a. Unloaded \in Versions /\ Versioned(1, {}) \in Versions
    BY DEF Unloaded, Versioned, Versions
  <1>b. /\ disk \in [format : {"none", "old", "current"}, set : Versions]
        /\ task \in [Threads -> [pc : {"idle", "install", "save"}, set : Versions]]
    BY <1>a DEF NoSnapshot, Legacy, Waiting
  <1>2. TypeOK
    BY <1>a, <1>b DEF TypeOK, NoRow, Idle
  <1>3. Recorded
    BY <1>1 DEF Recorded, Current, Versioned
  <1>4. Tracked
    <2>1. disk.format # "current" /\ disk.set = Unloaded
      BY DEF NoSnapshot, Legacy
    <2>2. \A th \in Threads : task[th].pc = "idle" /\ task[th] = Waiting
      BY DEF Waiting
    <2> QED
      BY <2>1, <2>2 DEF Tracked, Sound
  <1> QED
    BY <1>2, <1>3, <1>4 DEF IInv

(* A change of the rows keeps the active set or goes with a new revision.   *)
LEMMA AdminRecords ==
  ASSUME TypeOK, AdminStep
  PROVE  \/ Bundle' = Bundle /\ UNCHANGED <<revision, committed>>
         \/ incrementTenantRevisionAndNotify
  <1>1. ASSUME NEW p \in Policies, NEW text \in Texts, handleCreatePolicy(p, text)
        PROVE  Bundle' = Bundle /\ UNCHANGED <<revision, committed>>
    BY <1>1 DEF handleCreatePolicy, Bundle, TypeOK
  <1>2. ASSUME NEW p \in Policies, NEW text \in Texts, handleUpdatePolicy(p, text)
        PROVE  \/ Bundle' = Bundle /\ UNCHANGED <<revision, committed>>
               \/ incrementTenantRevisionAndNotify
    <2>1. CASE rows[p].status = "ACTIVE"
      BY <1>2, <2>1 DEF handleUpdatePolicy
    <2>2. CASE rows[p].status # "ACTIVE"
      BY <1>2, <2>2 DEF handleUpdatePolicy, Bundle, TypeOK
    <2> QED
      BY <2>1, <2>2
  <1>3. ASSUME NEW p \in Policies, handleDeletePolicy(p)
        PROVE  incrementTenantRevisionAndNotify
    BY <1>3 DEF handleDeletePolicy
  <1>4. ASSUME NEW s \in Sessions, PublishWrites(s)
        PROVE  incrementTenantRevisionAndNotify
    BY <1>4 DEF PublishWrites
  <1>5. ASSUME NEW s \in Sessions, PublishFails(s) \/ \E p \in Policies : PublishReads(s, p)
        PROVE  Bundle' = Bundle /\ UNCHANGED <<revision, committed>>
    BY <1>5 DEF PublishFails, PublishReads, Bundle
  <1> QED
    BY <1>1, <1>2, <1>3, <1>4, <1>5 DEF AdminStep

(* The rows and the sessions keep their types.                              *)
LEMMA AdminTypes ==
  ASSUME TypeOK, AdminStep
  PROVE  /\ rows' \in [Policies -> [text : Texts \cup {NoText}, ast : Texts \cup {NoText},
                                    status : {"none", "DRAFT", "ACTIVE", "deleted"}]]
         /\ session' \in [Sessions -> [id : Policies \cup {"none"}, text : Texts \cup {NoText}]]
  <1> DEFINE Row == [text : Texts \cup {NoText}, ast : Texts \cup {NoText},
                     status : {"none", "DRAFT", "ACTIVE", "deleted"}]
             Call == [id : Policies \cup {"none"}, text : Texts \cup {NoText}]
  <1>0. rows \in [Policies -> Row] /\ session \in [Sessions -> Call] /\ Idle \in Call
    BY DEF TypeOK, Idle
  <1>1. ASSUME NEW p \in Policies, NEW text \in Texts,
               handleCreatePolicy(p, text) \/ handleUpdatePolicy(p, text)
        PROVE  rows' \in [Policies -> Row] /\ session' = session
    BY <1>0, <1>1 DEF handleCreatePolicy, handleUpdatePolicy
  <1>2. ASSUME NEW p \in Policies, handleDeletePolicy(p)
        PROVE  rows' \in [Policies -> Row] /\ session' = session
    BY <1>0, <1>2 DEF handleDeletePolicy, NoRow
  <1>3. ASSUME NEW s \in Sessions, PublishWrites(s)
        PROVE  rows' \in [Policies -> Row] /\ session' \in [Sessions -> Call]
    <2>1. session' \in [Sessions -> Call] /\ session[s].text \in Texts \cup {NoText}
      BY <1>0, <1>3 DEF PublishWrites
    <2>2. PICK p : rows' = [rows EXCEPT ![p].status = "ACTIVE", ![p].ast = session[s].text]
      BY <1>3 DEF PublishWrites
    <2>3. rows' = [rows EXCEPT ![p] = [rows[p] EXCEPT !.status = "ACTIVE", !.ast = session[s].text]]
      BY <2>2, <1>0
    <2>4. p \in Policies => [rows[p] EXCEPT !.status = "ACTIVE", !.ast = session[s].text] \in Row
      BY ZenonT(60), <1>0, <2>1
    <2> QED
      BY <1>0, <2>1, <2>3, <2>4
  <1>4. ASSUME NEW s \in Sessions, PublishFails(s)
        PROVE  rows' = rows /\ session' \in [Sessions -> Call]
    BY <1>0, <1>4 DEF PublishFails
  <1>5. ASSUME NEW s \in Sessions, NEW p \in Policies, PublishReads(s, p)
        PROVE  rows' = rows /\ session' \in [Sessions -> Call]
    BY <1>0, <1>5 DEF PublishReads
  <1> HIDE DEF Row, Call
  <1>6. rows' \in [Policies -> Row] /\ session' \in [Sessions -> Call]
    BY <1>0, <1>1, <1>2, <1>3, <1>4, <1>5 DEF AdminStep
  <1> QED
    BY <1>6 DEF Row, Call

(* Administrators keep the invariant: a committed set stays committed.      *)
LEMMA AdminKeeps ==
  ASSUME IInv, AdminStep, UNCHANGED replicaVars
  PROVE  IInv'
  <1> USE DEF IInv
  <1>1. revision' \in Nat \ {0} /\ committed \subseteq committed'
    BY AdminRecords DEF TypeOK, incrementTenantRevisionAndNotify
  <1>2. Current' \in Versions
    <2>1. Bundle' \in SUBSET (Policies \X (Texts \cup {NoText}))
      BY AdminTypes DEF Bundle
    <2> QED
      BY <1>1, <2>1 DEF Current, Versioned, Versions
  <1>3. TypeOK'
    <2>1. committed' \subseteq Versions
      BY <1>2, AdminRecords DEF TypeOK, incrementTenantRevisionAndNotify, Current
    <2> QED
      BY <1>1, <2>1, AdminTypes DEF TypeOK, replicaVars
  <1>4. Recorded'
    <2>1. CASE Bundle' = Bundle /\ UNCHANGED <<revision, committed>>
      BY <2>1 DEF Recorded, Current, Versioned
    <2>2. CASE incrementTenantRevisionAndNotify
      <3>1. committed' = committed \cup {Current'} /\ revision' = revision + 1
        BY <2>2 DEF incrementTenantRevisionAndNotify, Current
      <3>2. Current'.rev = revision + 1
        BY <3>1 DEF Current, Versioned
      <3>3. \A c \in committed : c.rev \in Nat /\ c.rev < revision + 1
        BY DEF Recorded, TypeOK, Versions
      <3>4. \A a, b \in committed' : a.rev = b.rev => a = b
        BY <3>1, <3>2, <3>3 DEF Recorded
      <3> QED
        BY <3>1, <3>2, <3>3, <3>4 DEF Recorded, TypeOK
    <2> QED
      BY <2>1, <2>2, AdminRecords
  <1>5. Tracked'
    BY <1>1 DEF Tracked, Sound, Compiled, replicaVars
  <1> QED
    BY <1>3, <1>4, <1>5

-----------------------------------------------------------------------------

(* A loaded bundle is the committed one, and goes on only if it compiles.   *)
LEMMA LoadKeeps ==
  ASSUME IInv, NEW th \in Threads, Load(th), UNCHANGED adminVars
  PROVE  IInv'
  <1> USE DEF IInv
  <1>1. Current' = Current /\ Recorded'
    BY DEF adminVars, Recorded, Current, Bundle
  <1>2. PICK job \in {Waiting, [pc |-> "install", set |-> Current]} :
          /\ task' = [task EXCEPT ![th] = job]
          /\ job # Waiting => CompilePolicySet(Bundle)
    BY DEF Load
  <1>3. job \in [pc : {"idle", "install", "save"}, set : Versions]
    BY <1>2, BundleType DEF Waiting
  <1>4. TypeOK'
    BY <1>2, <1>3 DEF Load, TypeOK, adminVars
  <1>5. Sound(job)
    <2>1. CASE job = Waiting
      BY <2>1 DEF Sound, Waiting
    <2>2. CASE job # Waiting
      <3>1. Compiled(Current)
        BY <1>2, <2>2 DEF Compiled, Recorded, Current, Versioned, TypeOK
      <3> QED
        BY <1>2, <2>2, <3>1 DEF Sound
    <2> QED
      BY <2>1, <2>2
  <1>6. /\ task'[th] = job
        /\ \A u \in Threads \ {th} : task'[u] = task[u]
    BY <1>2 DEF TypeOK
  <1>7. Tracked'
    BY <1>5, <1>6 DEF Tracked, Sound, Compiled, Load, adminVars
  <1> QED
    BY <1>1, <1>4, <1>7

(* The engine takes a compiled set or stays as it is.                       *)
LEMMA InstallKeeps ==
  ASSUME IInv, NEW th \in Threads, Install(th), UNCHANGED adminVars
  PROVE  IInv'
  <1> USE DEF IInv
  <1> DEFINE set == task[th].set
  <1>1. Recorded'
    BY DEF adminVars, Recorded, Current, Bundle
  <1>2. Compiled(set) /\ set \in Versions
    BY DEF Install, Tracked, Sound, TypeOK
  <1>3. engine' \in {engine, set}
    BY DEF Install
  <1> HIDE DEF set
  <1>4. PICK job \in {Waiting, [pc |-> "save", set |-> set]} :
          task' = [task EXCEPT ![th] = job]
    BY DEF Install, set
  <1>5. job \in [pc : {"idle", "install", "save"}, set : Versions]
    BY <1>2, <1>4, BundleType DEF Waiting
  <1>6. TypeOK'
    BY <1>2, <1>3, <1>4, <1>5 DEF Install, TypeOK, adminVars
  <1>7. Sound(job)
    <2>1. CASE job = Waiting
      BY <2>1 DEF Sound, Waiting
    <2>2. CASE job # Waiting
      BY <1>2, <1>4, <2>2 DEF Sound
    <2> QED
      BY <2>1, <2>2
  <1>8. /\ task'[th] = job
        /\ \A u \in Threads \ {th} : task'[u] = task[u]
    BY <1>4 DEF TypeOK
  <1>9. mode # "down"
    BY DEF Install, Tracked, Waiting
  <1>10. Tracked'
    BY <1>2, <1>3, <1>7, <1>8, <1>9 DEF Tracked, Sound, Compiled, Install, adminVars
  <1> QED
    BY <1>1, <1>6, <1>10

(* What is saved has been compiled.                                         *)
LEMMA SaveKeeps ==
  ASSUME IInv, NEW th \in Threads, Save(th), UNCHANGED adminVars
  PROVE  IInv'
  <1> USE DEF IInv
  <1>1. Recorded'
    BY DEF adminVars, Recorded, Current, Bundle
  <1>2. Compiled(task[th].set) /\ task[th].set \in Versions
    BY DEF Save, Tracked, Sound, TypeOK
  <1>3. Waiting \in [pc : {"idle", "install", "save"}, set : Versions] /\ Waiting.pc = "idle"
    BY BundleType DEF Waiting
  <1>4. TypeOK'
    BY <1>2, <1>3 DEF Save, TypeOK, adminVars
  <1>5. /\ task'[th] = Waiting
        /\ \A u \in Threads \ {th} : task'[u] = task[u]
    BY DEF Save, TypeOK
  <1>6. \/ disk' = disk
        \/ disk'.format = "current" /\ disk'.set = task[th].set
    BY DEF Save
  <1>7. mode # "down"
    BY DEF Save, Tracked, Waiting
  <1>8. Tracked'
    BY <1>2, <1>3, <1>5, <1>6, <1>7 DEF Tracked, Sound, Compiled, Save, adminVars
  <1> QED
    BY <1>1, <1>4, <1>8

(* Unloading, crashing and starting take only what is on disk or committed. *)
LEMMA LifecycleKeeps ==
  ASSUME IInv, UNCHANGED adminVars,
         UnloadTenant \/ Crash \/ StartServer \/ StartEmbedded \/ RestoreEdgeSnapshots
  PROVE  IInv'
  <1> USE DEF IInv
  <1>1. Recorded'
    BY DEF adminVars, Recorded, Current, Bundle
  <1>2. Waiting \in [pc : {"idle", "install", "save"}, set : Versions] /\ Waiting.pc = "idle"
    BY BundleType DEF Waiting
  <1>3. /\ disk' = disk /\ kind' = kind
        /\ task' = task \/ task' = [u \in Threads |-> Waiting]
        /\ mode' \in {"down", "online", "offline"}
        /\ mode' = "down" => task' = [u \in Threads |-> Waiting]
    BY DEF UnloadTenant, Crash, StartServer, StartEmbedded, RestoreEdgeSnapshots, Tracked, TypeOK
  <1>4. /\ engine' \in Versions
        /\ engine' = Unloaded \/ engine' \in committed
        /\ mode' = "down" => engine' = Unloaded
    <2>1. CASE UnloadTenant \/ Crash \/ StartServer
      BY <2>1, BundleType DEF UnloadTenant, Crash, StartServer, Tracked, TypeOK
    <2>2. CASE StartEmbedded
      BY <2>2, BundleType DEF StartEmbedded, Tracked, Recorded, TypeOK
    <2>3. CASE RestoreEdgeSnapshots
      BY <2>3, BundleType DEF RestoreEdgeSnapshots, Restorable, Compiled, Tracked, TypeOK
    <2> QED
      BY <2>1, <2>2, <2>3
  <1>5. TypeOK'
    BY <1>2, <1>3, <1>4 DEF TypeOK, adminVars
  <1>6. Tracked'
    BY <1>2, <1>3, <1>4 DEF Tracked, Sound, Compiled, adminVars
  <1> QED
    BY <1>1, <1>5, <1>6

-----------------------------------------------------------------------------

(* Every step keeps the invariant.                                          *)
LEMMA Inductive == IInv /\ [Next]_vars => IInv'
  <1> SUFFICES ASSUME IInv, [Next]_vars PROVE IInv'
    OBVIOUS
  <1>1. CASE UNCHANGED vars
    BY <1>1 DEF vars, IInv, TypeOK, Recorded, Current, Bundle, Tracked, Sound, Compiled
  <1>2. CASE AdminStep /\ UNCHANGED replicaVars
    BY <1>2, AdminKeeps
  <1>3. CASE ReplicaStep /\ UNCHANGED adminVars
    BY <1>3, LoadKeeps, InstallKeeps, SaveKeeps, LifecycleKeeps DEF ReplicaStep
  <1> QED
    BY <1>1, <1>2, <1>3 DEF Next

(* The invariant holds of every process and database.                       *)
THEOREM Invariant == Spec => []IInv
  BY InitInv, Inductive, PTL DEF Spec

(* What a process serves, is about to install or keeps on disk is the       *)
(* active set that the database committed under its revision.               *)
THEOREM Served == Spec => []ServedAsCommitted
  <1>1. IInv => ServedAsCommitted
    <2> SUFFICES ASSUME IInv PROVE ServedAsCommitted
      OBVIOUS
    <2> USE DEF IInv
    <2>1. \A th \in Threads : task[th].set = Unloaded \/ task[th].set \in committed
      BY DEF Tracked, Sound, Compiled, Waiting
    <2>2. disk.set = Unloaded \/ disk.set \in committed
      BY DEF Tracked, Compiled
    <2> QED
      BY <2>1, <2>2 DEF ServedAsCommitted, Snapshots, Tracked, Recorded
  <1> QED
    BY <1>1, Invariant, PTL

(* A snapshot that a synchronisation saved passes the checks of an offline  *)
(* start, whatever has been published since.                                *)
THEOREM Restored == Spec => []SavedSnapshotsRestore
  <1>1. IInv => SavedSnapshotsRestore
    BY DEF IInv, Tracked, Compiled, SavedSnapshotsRestore, Restorable
  <1> QED
    BY <1>1, Invariant, PTL

=============================================================================

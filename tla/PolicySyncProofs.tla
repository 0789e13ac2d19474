-------------------------- MODULE PolicySyncProofs --------------------------
(* Proofs about PolicySync, for any tenants, requests and bounds: its types, *)
(* the discipline of the writers of the engine state, its safety invariants, *)
(* and that it implements PolicyView.                                        *)
EXTENDS PolicySync, TLAPS

(* A goroutine inside a call works on a tenant, and only the collector runs  *)
(* UnloadTenant.                                                             *)
ArgOK ==
  /\ \A w \in Threads : pc[w] # "idle" => arg[w] \in Tenants
  /\ \A w \in Syncers : pc[w] \notin {"unload", "delete"}
  /\ pc[GC] \in {"idle", "unload", "delete"}

(* The goroutines are distinct, and none is NoThread.                       *)
LEMMA ThreadFacts ==
  /\ Subscriber \in Syncers /\ Reconciler \in Syncers /\ GC \in Threads
  /\ Subscriber \in Threads /\ Reconciler \in Threads
  /\ Requests \subseteq Syncers /\ Syncers \subseteq Threads
  /\ GC \notin Syncers /\ NoThread \notin Threads
  /\ Subscriber \notin Requests /\ Reconciler \notin Requests /\ GC \notin Requests
  BY ConstantsAssumption DEF Subscriber, Reconciler, GC, NoThread, Syncers, Threads

(* The absent trie and the empty state have their types.                    *)
LEMMA NoTrieType == NoTrie \in Trie /\ NoState \in EngineState
  BY DEF NoTrie, Trie, NoState, EngineState

(* Initially every variable has its type.                                   *)
LEMMA TypeInit == Init => TypeOK /\ ArgOK
  <1> SUFFICES ASSUME Init PROVE TypeOK /\ ArgOK
    OBVIOUS
  <1>1. TypeOK
    BY NoTrieType, ConstantsAssumption
    DEF Init, TypeOK, Revisions, Labels, Threads, EngineState
  <1>2. ArgOK
    BY ThreadFacts DEF Init, ArgOK
  <1> QED
    BY <1>1, <1>2

(* The labels used in the steps are labels.                                 *)
LEMMA LabelFacts ==
  /\ "idle" \in Labels /\ "load" \in Labels /\ "publish" \in Labels
  /\ "store" \in Labels /\ "touch" \in Labels /\ "lookup" \in Labels
  /\ "reread" \in Labels /\ "eval" \in Labels /\ "issue" \in Labels
  /\ "compare" \in Labels /\ "unload" \in Labels /\ "delete" \in Labels
  BY DEF Labels

(* A goroutine that moves to a label of its own, with a tenant to work on    *)
(* unless it returns, keeps ArgOK.                                           *)
LEMMA Move ==
  ASSUME TypeOK, ArgOK,
         NEW w \in Threads, NEW l \in Labels, NEW a \in Tenants \cup {NoTenant},
         pc' = [pc EXCEPT ![w] = l],
         arg' = [arg EXCEPT ![w] = a],
         l # "idle" => a \in Tenants,
         IF w = GC THEN l \in {"idle", "unload", "delete"} ELSE l \notin {"unload", "delete"}
  PROVE  /\ pc' \in [Threads -> Labels]
         /\ arg' \in [Threads -> Tenants \cup {NoTenant}]
         /\ ArgOK'
  <1>1. pc' \in [Threads -> Labels] /\ arg' \in [Threads -> Tenants \cup {NoTenant}]
    BY DEF TypeOK
  <1>2. \A v \in Threads : pc'[v] # "idle" => arg'[v] \in Tenants
    BY DEF TypeOK, ArgOK
  <1>3. \A v \in Syncers : pc'[v] \notin {"unload", "delete"}
    BY ThreadFacts DEF TypeOK, ArgOK
  <1>4. pc'[GC] \in {"idle", "unload", "delete"}
    BY ThreadFacts DEF TypeOK, ArgOK
  <1> QED
    BY <1>1, <1>2, <1>3, <1>4 DEF ArgOK

(* The same, when the goroutine keeps its tenant.                            *)
LEMMA MoveOn ==
  ASSUME TypeOK, ArgOK,
         NEW w \in Threads, NEW l \in Labels, arg[w] \in Tenants,
         pc' = [pc EXCEPT ![w] = l],
         UNCHANGED arg,
         IF w = GC THEN l \in {"idle", "unload", "delete"} ELSE l \notin {"unload", "delete"}
  PROVE  pc' \in [Threads -> Labels] /\ ArgOK'
  <1>1. arg' = [arg EXCEPT ![w] = arg[w]]
    BY DEF TypeOK
  <1> QED
    BY Zenon, <1>1, Move

(* A call that returns keeps the types.                                     *)
LEMMA ReturnType ==
  ASSUME TypeOK, ArgOK, NEW w \in Threads, Return(w)
  PROVE  /\ pc' \in [Threads -> Labels]
         /\ arg' \in [Threads -> Tenants \cup {NoTenant}]
         /\ want' \in [Threads -> Nat]
         /\ trie' \in [Threads -> Trie]
         /\ copy' \in [Threads -> EngineState]
         /\ ArgOK'
  <1>1. /\ pc' \in [Threads -> Labels]
        /\ arg' \in [Threads -> Tenants \cup {NoTenant}]
        /\ ArgOK'
    BY Zenon, Move, LabelFacts DEF Return, Goto
  <1> QED
    BY <1>1, NoTrieType DEF TypeOK, Return

(* Every step keeps every variable in its type.                              *)
LEMMA TypeStep ==
  ASSUME TypeOK, ArgOK, [Next]_vars
  PROVE  TypeOK' /\ ArgOK'
  <1> USE ThreadFacts, NoTrieType, LabelFacts
  <1>1. ASSUME NEW t \in Tenants, NEW ok \in BOOLEAN, CommitPolicyChange(t, ok)
        PROVE  TypeOK' /\ ArgOK'
    <2>1. queue' \in Seq(Tenants \X Revisions)
      <3>1. dbRev[t] + 1 \in Revisions
        BY DEF TypeOK, Revisions
      <3>2. queue' = queue \/ queue' = Append(queue, <<t, dbRev[t] + 1>>)
        BY <1>1 DEF CommitPolicyChange
      <3>3. <<t, dbRev[t] + 1>> \in Tenants \X Revisions
        BY <3>1
      <3>4. queue \in Seq(Tenants \X Revisions)
        BY DEF TypeOK
      <3> HIDE DEF Revisions
      <3> QED
        BY <3>2, <3>3, <3>4
    <2>2. dbRev' \in [Tenants -> Revisions] /\ commits' \in 0 .. MaxCommits
      BY SMTT(60), <1>1, ConstantsAssumption DEF CommitPolicyChange, TypeOK, Revisions
    <2>3. broken' \subseteq Tenants \X Revisions
      BY <1>1 DEF CommitPolicyChange, TypeOK, Revisions
    <2> QED
      BY <1>1, <2>1, <2>2, <2>3
      DEF CommitPolicyChange, TypeOK, ArgOK, engineVars, threadVars
  <1>2. ASSUME Listen \/ ListenFails \/ ConnectionLost \/ NoticeLoss
        PROVE  TypeOK' /\ ArgOK'
    <2>1. /\ link' \in {"closed", "open", "broken"}
          /\ queue' \in Seq(Tenants \X Revisions)
          /\ status' \in {"not_ready", "healthy", "degraded"}
          /\ faults' \in 0 .. MaxFaults
          /\ UNCHANGED <<dbVars, engineVars, threadVars, issued>>
      <3>1. queue' = queue \/ queue' = <<>>
        BY <1>2 DEF Listen, ListenFails, ConnectionLost, NoticeLoss
      <3>2. faults' = faults \/ Fault
        BY <1>2 DEF Listen, ListenFails, ConnectionLost, NoticeLoss
      <3>3. queue' \in Seq(Tenants \X Revisions)
        <4>1. <<>> \in Seq(Tenants \X Revisions)
          OBVIOUS
        <4>2. queue \in Seq(Tenants \X Revisions)
          BY DEF TypeOK
        <4> QED
          BY Zenon, <3>1, <4>1, <4>2
      <3>7. faults' \in 0 .. MaxFaults
        BY <3>2, ConstantsAssumption DEF TypeOK, Fault
      <3>4. link' \in {"closed", "open", "broken"}
        BY <1>2 DEF Listen, ListenFails, ConnectionLost, NoticeLoss, TypeOK
      <3>5. status' \in {"not_ready", "healthy", "degraded"}
        <4>1. status' = status \/ status' = "healthy" \/ status' = "degraded"
          BY <1>2 DEF Listen, ListenFails, ConnectionLost, NoticeLoss
        <4> QED
          BY <4>1 DEF TypeOK
      <3>6. UNCHANGED <<dbVars, engineVars, threadVars, issued>>
        BY <1>2 DEF Listen, ListenFails, ConnectionLost, NoticeLoss
      <3> QED
        BY <3>3, <3>4, <3>5, <3>6, <3>7
    <2> QED
      BY Zenon, <2>1 DEF TypeOK, ArgOK, dbVars, engineVars, threadVars
  <1>3. ASSUME ReceiveEvent PROVE TypeOK' /\ ArgOK'
    <2>1. /\ queue' \in Seq(Tenants \X Revisions)
          /\ Head(queue)[1] \in Tenants /\ Head(queue)[2] \in Nat
      BY SMTT(60), <1>3 DEF ReceiveEvent, TypeOK, Revisions
    <2>2. \/ UNCHANGED <<pc, arg, want>>
          \/ \E t \in Tenants, n \in Nat :
               /\ pc' = [pc EXCEPT ![Subscriber] = "load"]
               /\ arg' = [arg EXCEPT ![Subscriber] = t]
               /\ want' = [want EXCEPT ![Subscriber] = n]
      BY <1>3, <2>1 DEF ReceiveEvent, Goto
    <2>3. /\ pc' \in [Threads -> Labels]
          /\ arg' \in [Threads -> Tenants \cup {NoTenant}]
          /\ want' \in [Threads -> Nat]
          /\ ArgOK'
      <3>1. CASE UNCHANGED <<pc, arg, want>>
        BY <3>1 DEF TypeOK, ArgOK
      <3>2. ASSUME NEW t \in Tenants, NEW n \in Nat,
                   pc' = [pc EXCEPT ![Subscriber] = "load"],
                   arg' = [arg EXCEPT ![Subscriber] = t],
                   want' = [want EXCEPT ![Subscriber] = n]
            PROVE  /\ pc' \in [Threads -> Labels]
                   /\ arg' \in [Threads -> Tenants \cup {NoTenant}]
                   /\ want' \in [Threads -> Nat]
                   /\ ArgOK'
        BY Zenon, <3>2, Move DEF TypeOK
      <3> QED
        BY <2>2, <3>1, <3>2
    <2> QED
      BY Zenon, <1>3, <2>1, <2>3 DEF ReceiveEvent, TypeOK, dbVars, engineVars
  <1>4. ASSUME NEW w \in Syncers, LoadBundle(w) PROVE TypeOK' /\ ArgOK'
    <2>1. CASE SyncError(w)
      BY Zenon, <1>4, <2>1, ReturnType
      DEF LoadBundle, SyncError, TypeOK, dbVars, engineVars
    <2>2. CASE ~SyncError(w)
      <3>1. arg[w] \in Tenants
        BY <1>4 DEF LoadBundle, ArgOK
      <3>2. /\ pc' = [pc EXCEPT ![w] = "publish"]
            /\ trie' = [trie EXCEPT ![w] = [rev |-> dbRev[arg[w]], content |-> dbRev[arg[w]]]]
            /\ UNCHANGED <<arg, want, copy, status>>
        BY <1>4, <2>2 DEF LoadBundle, GetTenantPolicyBundle, PublishedRevision, Goto
      <3>3. trie' \in [Threads -> Trie]
        BY <3>1, <3>2 DEF TypeOK, Trie, Revisions
      <3> QED
        BY <1>4, <3>1, <3>2, <3>3 DEF LoadBundle, TypeOK, ArgOK, Labels, dbVars, engineVars
    <2> QED
      BY <2>1, <2>2
  <1>5. ASSUME NEW w \in Syncers, LoadFails(w) PROVE TypeOK' /\ ArgOK'
    <2>1. Return(w) /\ status' \in {status, "degraded"} /\ faults' \in 0 .. MaxFaults
      BY <1>5, ConstantsAssumption DEF LoadFails, SyncError, Fault, TypeOK
    <2> QED
      BY Zenon, <1>5, <2>1, ReturnType DEF LoadFails, TypeOK, dbVars, engineVars
  <1>6. ASSUME NEW w \in Syncers, SyncDone(w), pc[w] # "idle"
        PROVE  /\ pc' \in [Threads -> Labels]
               /\ arg' \in [Threads -> Tenants \cup {NoTenant}]
               /\ want' \in [Threads -> Nat]
               /\ trie' \in [Threads -> Trie]
               /\ copy' \in [Threads -> EngineState]
               /\ ArgOK'
    <2>1. CASE w \in Requests
      <3>1. pc' \in [Threads -> Labels] /\ ArgOK'
        BY <1>6, <2>1, MoveOn DEF SyncDone, Goto, ArgOK
      <3> QED
        <4>1. /\ trie' = [trie EXCEPT ![w] = NoTrie]
              /\ copy' = [copy EXCEPT ![w] = NoState]
              /\ UNCHANGED <<arg, want>>
          BY <1>6, <2>1 DEF SyncDone
        <4> QED
          BY <3>1, <4>1 DEF TypeOK
    <2>2. CASE w \notin Requests
      BY <1>6, <2>2, ReturnType DEF SyncDone
    <2> QED
      BY <2>1, <2>2
  <1>7. ASSUME NEW w \in Syncers, PublishLock(w) PROVE TypeOK' /\ ArgOK'
    <2>1. CASE SyncDone(w) /\ UNCHANGED writeMu
      BY Zenon, <1>6, <1>7, <2>1 DEF PublishLock, TypeOK, dbVars, linkVars
    <2>2. CASE ~(SyncDone(w) /\ UNCHANGED writeMu)
      <3>1. /\ pc' = [pc EXCEPT ![w] = "store"] /\ writeMu' = w
            /\ copy' = [copy EXCEPT ![w] = mem]
            /\ UNCHANGED <<arg, want, trie>>
        BY <1>7, <2>2 DEF PublishLock, Goto
      <3>2. pc' \in [Threads -> Labels] /\ ArgOK'
        BY Zenon, <1>7, <3>1, MoveOn DEF PublishLock, ArgOK
      <3> QED
        BY <1>7, <3>1, <3>2 DEF PublishLock, TypeOK, dbVars, linkVars
    <2> QED
      BY <2>1, <2>2
  <1>8. ASSUME NEW w \in Syncers, PublishStore(w) PROVE TypeOK' /\ ArgOK'
    <2>1. mem' \in EngineState
      BY Zenon, <1>8 DEF PublishStore, stateWithTenant, TypeOK, EngineState
    <2>2. pc' \in [Threads -> Labels] /\ ArgOK'
      BY Zenon, <1>8, MoveOn DEF PublishStore, Goto, ArgOK
    <2> QED
      BY Zenon, <1>8, <2>1, <2>2 DEF PublishStore, TypeOK, dbVars, linkVars
  <1>9. ASSUME NEW w \in Syncers, PublishTouch(w) PROVE TypeOK' /\ ArgOK'
    BY Zenon, <1>6, <1>9 DEF PublishTouch, touchTenant, TypeOK, dbVars, linkVars
  <1>10. ASSUME NEW r \in Requests, NEW t \in Tenants, CheckPermission(r, t)
         PROVE  TypeOK' /\ ArgOK'
    <2>1. issued' \in [Issuers -> Nat \X Nat]
      BY <1>10 DEF CheckPermission, TypeOK
    <2>2. trie' \in [Threads -> Trie]
      <3>1. mem[t] \in Trie
        BY DEF TypeOK, EngineState
      <3>2. trie' = trie \/ trie' = [trie EXCEPT ![r] = mem[t]]
        BY <1>10 DEF CheckPermission, UseTrie
      <3> QED
        BY Zenon, <3>1, <3>2 DEF TypeOK
    <2>3. pc' = [pc EXCEPT ![r] = "eval"] \/ pc' = [pc EXCEPT ![r] = "lookup"]
      BY <1>10 DEF CheckPermission, UseTrie, Goto
    <2>4. /\ pc' \in [Threads -> Labels]
          /\ arg' \in [Threads -> Tenants \cup {NoTenant}]
          /\ ArgOK'
      BY Zenon, <1>10, <2>3, Move DEF CheckPermission
    <2> QED
      BY <1>10, <2>1, <2>2, <2>4
      DEF CheckPermission, TypeOK, dbVars, linkVars, engineVars
  <1>11. ASSUME NEW r \in Requests, GetTenantTrie(r) PROVE TypeOK' /\ ArgOK'
    <2>1. arg[r] \in Tenants
      BY Zenon, <1>11 DEF GetTenantTrie, ArgOK
    <2>2. trie' \in [Threads -> Trie]
      <3>1. mem[arg[r]] \in Trie
        BY <2>1 DEF TypeOK, EngineState
      <3>2. trie' = trie \/ trie' = [trie EXCEPT ![r] = mem[arg[r]]]
        BY <1>11 DEF GetTenantTrie, UseTrie
      <3> QED
        BY <3>1, <3>2 DEF TypeOK
    <2>3. pc' = [pc EXCEPT ![r] = "eval"] \/ pc' = [pc EXCEPT ![r] = "load"]
      BY <1>11 DEF GetTenantTrie, UseTrie, Goto
    <2>4. pc' \in [Threads -> Labels] /\ ArgOK'
      BY <1>11, <2>1, <2>3, MoveOn DEF GetTenantTrie
    <2> QED
      BY <1>11, <2>2, <2>4
      DEF GetTenantTrie, TypeOK, dbVars, linkVars, engineVars
  <1>12. ASSUME NEW r \in Requests, RereadTrie(r) PROVE TypeOK' /\ ArgOK'
    <2>1. CASE Return(r)
      BY Zenon, <1>12, <2>1, ReturnType DEF RereadTrie, TypeOK, dbVars, linkVars, engineVars
    <2>2. CASE ~Return(r)
      <3>1. arg[r] \in Tenants
        BY <1>12 DEF RereadTrie, ArgOK
      <3>2. pc' = [pc EXCEPT ![r] = "eval"] /\ trie' = [trie EXCEPT ![r] = mem[arg[r]]]
            /\ UNCHANGED <<arg, want, copy>>
        BY <1>12, <2>2 DEF RereadTrie, UseTrie, Goto
      <3>3. pc' \in [Threads -> Labels] /\ ArgOK'
        BY Zenon, <3>1, <3>2, MoveOn
      <3> QED
        BY Zenon, <1>12, <3>1, <3>2, <3>3
        DEF RereadTrie, TypeOK, EngineState, dbVars, linkVars, engineVars
    <2> QED
      BY <2>1, <2>2
  <1>13. ASSUME NEW r \in Requests, Evaluate(r) PROVE TypeOK' /\ ArgOK'
    <2>1. CASE Return(r)
      BY Zenon, <1>13, <2>1, ReturnType DEF Evaluate, touchTenant, TypeOK, dbVars, linkVars
    <2>2. CASE ~Return(r)
      <3>1. pc' = [pc EXCEPT ![r] = "issue"] /\ UNCHANGED <<arg, want, trie, copy>>
        BY <1>13, <2>2 DEF Evaluate, Goto
      <3>2. pc' \in [Threads -> Labels] /\ ArgOK'
        BY Zenon, <1>13, <3>1, MoveOn DEF Evaluate, ArgOK
      <3> QED
        BY Zenon, <1>13, <3>1, <3>2 DEF Evaluate, touchTenant, TypeOK, dbVars, linkVars
    <2> QED
      BY <2>1, <2>2
  <1>14. ASSUME NEW r \in Requests, IssueApprovalCapability(r) PROVE TypeOK' /\ ArgOK'
    <2>1. arg[r] \in Tenants
      BY Zenon, <1>14 DEF IssueApprovalCapability, ArgOK
    <2>2. issued' \in [Issuers -> Nat \X Nat]
      BY Zenon, <1>14, <2>1 DEF IssueApprovalCapability, TypeOK, EngineState, Trie
    <2> QED
      BY Zenon, <1>14, <2>2, ReturnType
      DEF IssueApprovalCapability, TypeOK, dbVars, linkVars, engineVars
  <1>15. ASSUME ReconcileTick PROVE TypeOK' /\ ArgOK'
    BY <1>15 DEF ReconcileTick, LoadedTenants, TypeOK, ArgOK, dbVars, linkVars, engineVars
  <1>16. ASSUME NEW t \in Tenants, ReconcileRead(t) PROVE TypeOK' /\ ArgOK'
    <2>1. /\ pc' \in [Threads -> Labels]
          /\ arg' \in [Threads -> Tenants \cup {NoTenant}]
          /\ ArgOK'
      BY Zenon, <1>16, Move DEF ReconcileRead, Goto, GC, Reconciler
    <2> QED
      BY Zenon, <1>16, <2>1
      DEF ReconcileRead, TypeOK, Revisions, dbVars, linkVars, engineVars
  <1>17. ASSUME NEW t \in Tenants, ReconcileReadFails(t) PROVE TypeOK' /\ ArgOK'
    BY <1>17, ConstantsAssumption
    DEF ReconcileReadFails, Fault, TypeOK, ArgOK, dbVars, engineVars
  <1>18. ASSUME reconcileTenantRevision PROVE TypeOK' /\ ArgOK'
    <2>1. CASE Return(Reconciler)
      BY Zenon, <1>18, <2>1, ReturnType
      DEF reconcileTenantRevision, TypeOK, dbVars, linkVars, engineVars
    <2>2. CASE ~Return(Reconciler)
      <3>1. pc' = [pc EXCEPT ![Reconciler] = "load"] /\ UNCHANGED <<arg, want, trie, copy>>
        BY <1>18, <2>2 DEF reconcileTenantRevision, Goto
      <3>2. pc' \in [Threads -> Labels] /\ ArgOK'
        BY Zenon, <1>18, <3>1, MoveOn DEF reconcileTenantRevision, ArgOK
      <3> QED
        BY Zenon, <1>18, <3>1, <3>2
        DEF reconcileTenantRevision, TypeOK, dbVars, linkVars, engineVars
    <2> QED
      BY <2>1, <2>2
  <1>19. ASSUME NEW t \in Tenants, AgeRecord(t) PROVE TypeOK' /\ ArgOK'
    BY <1>19 DEF AgeRecord, TypeOK, ArgOK, dbVars, linkVars, threadVars
  <1>20. ASSUME runGCCycle PROVE TypeOK' /\ ArgOK'
    BY <1>20 DEF runGCCycle, TypeOK, ArgOK, dbVars, linkVars, engineVars
  <1>21. ASSUME NEW t \in Tenants, UnloadLock(t) PROVE TypeOK' /\ ArgOK'
    <2>1. CASE Loaded(t)
      <3>1. /\ pc' \in [Threads -> Labels]
            /\ arg' \in [Threads -> Tenants \cup {NoTenant}]
            /\ ArgOK'
        BY <1>21, <2>1, Move DEF UnloadLock, Goto
      <3> QED
        BY ZenonT(60), <1>21, <2>1, <3>1 DEF UnloadLock, TypeOK, dbVars, linkVars
    <2>2. CASE ~Loaded(t)
      BY <1>21, <2>2 DEF UnloadLock, TypeOK, ArgOK, dbVars, linkVars
    <2> QED
      BY <2>1, <2>2
  <1>22. ASSUME UnloadStore PROVE TypeOK' /\ ArgOK'
    <2>1. mem' \in EngineState
      BY Zenon, <1>22 DEF UnloadStore, stateWithoutTenant, TypeOK, EngineState
    <2>2. pc' \in [Threads -> Labels] /\ ArgOK'
      BY Zenon, <1>22, MoveOn DEF UnloadStore, Goto, ArgOK
    <2> QED
      BY Zenon, <1>22, <2>1, <2>2 DEF UnloadStore, TypeOK, dbVars, linkVars
  <1>23. ASSUME UnloadDelete PROVE TypeOK' /\ ArgOK'
    BY Zenon, <1>23, ReturnType DEF UnloadDelete, TypeOK, dbVars, linkVars
  <1>24. ASSUME UNCHANGED vars PROVE TypeOK' /\ ArgOK'
    BY <1>24
    DEF vars, TypeOK, ArgOK, dbVars, linkVars, engineVars, threadVars
  <1> QED
    BY <1>1, <1>2, <1>3, <1>4, <1>5, <1>7, <1>8, <1>9, <1>10, <1>11, <1>12, <1>13,
       <1>14, <1>15, <1>16, <1>17, <1>18, <1>19, <1>20, <1>21, <1>22, <1>23, <1>24
    DEF Next, Session, SyncTenant, Request, Reconcile, Collect

(* The types of engine_gc.go and sync.go hold in every reachable state.      *)
THEOREM TypeCorrect == Spec => []TypeOK
  <1>1. Init => TypeOK /\ ArgOK
    BY TypeInit
  <1>2. TypeOK /\ ArgOK /\ [Next]_vars => TypeOK' /\ ArgOK'
    BY TypeStep
  <1> QED
    BY <1>1, <1>2, PTL DEF Spec

-----------------------------------------------------------------------------
(* The writers.                                                              *)

OnlyMoves(w) ==
  \A v \in Threads \ {w} :
    pc'[v] = pc[v] /\ arg'[v] = arg[v] /\ trie'[v] = trie[v] /\ copy'[v] = copy[v]

(* Initially nobody holds writeMu.                                          *)
LEMMA WriterInit == Init => WriterDiscipline
  BY ZenonT(60), ThreadFacts DEF Init, WriterDiscipline, Critical

(* A call that returns moves its own goroutine only.                        *)
LEMMA ReturnMoves ==
  ASSUME TypeOK, NEW w \in Threads, Return(w)
  PROVE  OnlyMoves(w) /\ pc'[w] = "idle"
  BY DEF TypeOK, Return, Goto, OnlyMoves

(* So does the end of a sync.                                               *)
LEMMA SyncDoneMoves ==
  ASSUME TypeOK, NEW w \in Threads, SyncDone(w)
  PROVE  OnlyMoves(w) /\ pc'[w] \in {"idle", "reread"}
  <1>1. CASE w \in Requests
    BY <1>1 DEF TypeOK, SyncDone, Goto, OnlyMoves
  <1>2. CASE w \notin Requests
    BY <1>2, ReturnMoves DEF SyncDone
  <1> QED
    BY <1>1, <1>2

(* A goroutine that stays out of the critical section disturbs no writer.    *)
LEMMA WriterQuiet ==
  ASSUME WriterDiscipline, NEW w \in Threads,
         UNCHANGED <<mem, writeMu>>,
         OnlyMoves(w), pc[w] \notin Critical, pc'[w] \notin Critical
  PROVE  WriterDiscipline'
  <1>1. \A v \in Threads : writeMu' = v <=> pc'[v] \in Critical
    BY DEF WriterDiscipline, OnlyMoves
  <1>2. \A v \in Threads : pc'[v] \in {"store", "unload"} => copy'[v] = mem'
    BY DEF WriterDiscipline, OnlyMoves, Critical
  <1>3. \A v \in Threads : pc'[v] = "store" => trie'[v].rev > mem'[arg'[v]].rev
    BY DEF WriterDiscipline, OnlyMoves, Critical
  <1>4. pc'[GC] = "delete" => ~Loaded(arg[GC])'
    BY ThreadFacts DEF WriterDiscipline, OnlyMoves, Critical, Loaded
  <1> QED
    BY <1>1, <1>2, <1>3, <1>4 DEF WriterDiscipline

(* Every step keeps the writer discipline.                                  *)
LEMMA WriterStep ==
  ASSUME TypeOK, ArgOK, RevisionNamesBundle, WriterDiscipline, [Next]_vars
  PROVE  WriterDiscipline'
  <1> USE ThreadFacts
  <1>1. ASSUME UNCHANGED <<mem, writeMu, pc, arg, trie, copy>>
        PROVE  WriterDiscipline'
    BY <1>1 DEF WriterDiscipline, Loaded
  <1>2. ASSUME NEW t \in Tenants, NEW ok \in BOOLEAN, CommitPolicyChange(t, ok)
        PROVE  WriterDiscipline'
    BY <1>1, <1>2 DEF CommitPolicyChange, engineVars, threadVars
  <1>3. ASSUME Listen \/ ListenFails \/ ConnectionLost \/ NoticeLoss
        PROVE  WriterDiscipline'
    BY <1>1, <1>3
    DEF Listen, ListenFails, ConnectionLost, NoticeLoss, engineVars, threadVars
  <1>4. ASSUME ReceiveEvent PROVE WriterDiscipline'
    <2>1. CASE UNCHANGED <<pc, arg, want>>
      BY Zenon, <1>1, <1>4, <2>1 DEF ReceiveEvent, engineVars
    <2>2. CASE ~UNCHANGED <<pc, arg, want>>
      <3>1. OnlyMoves(Subscriber) /\ pc[Subscriber] = "idle" /\ pc'[Subscriber] = "load"
        BY <1>4, <2>2 DEF ReceiveEvent, Goto, OnlyMoves, TypeOK
      <3> QED
        BY <1>4, <3>1, WriterQuiet DEF ReceiveEvent, engineVars, Critical
    <2> QED
      BY <2>1, <2>2
  <1>5. ASSUME NEW w \in Syncers, LoadBundle(w) \/ LoadFails(w)
        PROVE  WriterDiscipline'
    <2>1. OnlyMoves(w) /\ pc[w] = "load" /\ pc'[w] \in {"idle", "publish"}
      <3>1. CASE SyncError(w)
        BY <1>5, <3>1, ReturnMoves DEF LoadBundle, LoadFails, SyncError
      <3>2. CASE ~SyncError(w)
        BY <1>5, <3>2 DEF LoadBundle, LoadFails, Goto, OnlyMoves, TypeOK
      <3> QED
        BY <3>1, <3>2
    <2> QED
      BY <1>5, <2>1, WriterQuiet DEF LoadBundle, LoadFails, engineVars, Critical
  <1>6. ASSUME NEW w \in Syncers, PublishLock(w) PROVE WriterDiscipline'
    <2>1. CASE SyncDone(w) /\ UNCHANGED writeMu
      BY <1>6, <2>1, SyncDoneMoves, WriterQuiet DEF PublishLock, Critical
    <2>2. CASE ~(SyncDone(w) /\ UNCHANGED writeMu)
      <3>1. /\ writeMu = NoThread /\ writeMu' = w /\ mem' = mem
            /\ pc' = [pc EXCEPT ![w] = "store"]
            /\ copy' = [copy EXCEPT ![w] = mem]
            /\ UNCHANGED <<arg, trie>>
            /\ ~revisionIsStale(mem, arg[w], trie[w].rev)
            /\ ~revisionIsDuplicate(mem, arg[w], trie[w].rev)
        BY Zenon, <1>6, <2>2 DEF PublishLock, CanLock, Goto
      <3>2. trie[w].rev > mem[arg[w]].rev
        <4>1. trie[w].rev \in Nat /\ mem[arg[w]].rev \in Nat /\ trie[w].rev > 0
          BY Zenon, <1>6 DEF PublishLock, TypeOK, ArgOK, EngineState, Trie, RevisionNamesBundle, Holding
        <4> QED
          BY <3>1, <4>1 DEF revisionIsStale, revisionIsDuplicate
      <3>3. \A v \in Threads : pc[v] \notin Critical
        BY <3>1 DEF WriterDiscipline
      <3>4. pc' [w] = "store" /\ copy'[w] = mem /\ \A v \in Threads \ {w} : pc'[v] \notin Critical
        BY <3>1, <3>3 DEF TypeOK
      <3>5. \A v \in Threads : writeMu' = v <=> pc'[v] \in Critical
        BY <3>1, <3>4 DEF Critical
      <3>6. \A v \in Threads : pc'[v] \in {"store", "unload"} => v = w
        BY <3>4 DEF Critical
      <3>7. pc'[GC] # "delete"
        BY <3>4, GC # w DEF Critical
      <3> QED
        BY <3>1, <3>2, <3>4, <3>5, <3>6, <3>7 DEF WriterDiscipline
    <2> QED
      BY <2>1, <2>2
  <1>7. ASSUME NEW w \in Syncers, PublishStore(w) PROVE WriterDiscipline'
    <2>1. writeMu = w /\ \A v \in Threads \ {w} : pc[v] \notin Critical
      BY <1>7 DEF PublishStore, WriterDiscipline, Critical
    <2>2. writeMu' = NoThread /\ \A v \in Threads : pc'[v] \notin Critical
      BY <1>7, <2>1 DEF PublishStore, Goto, TypeOK, Critical
    <2> QED
      BY <2>2 DEF WriterDiscipline, Critical
  <1>8. ASSUME NEW w \in Syncers, PublishTouch(w) PROVE WriterDiscipline'
    BY Zenon, <1>8, SyncDoneMoves, WriterQuiet DEF PublishTouch, Critical
  <1>9. ASSUME NEW r \in Requests, NEW t \in Tenants, CheckPermission(r, t)
        PROVE  WriterDiscipline'
    <2>1. OnlyMoves(r) /\ pc[r] = "idle" /\ pc'[r] \in {"eval", "lookup"}
      BY <1>9 DEF CheckPermission, UseTrie, Goto, OnlyMoves, TypeOK
    <2> QED
      BY <1>9, <2>1, WriterQuiet DEF CheckPermission, engineVars, Critical
  <1>10. ASSUME NEW r \in Requests, GetTenantTrie(r) PROVE WriterDiscipline'
    <2>1. OnlyMoves(r) /\ pc[r] = "lookup" /\ pc'[r] \in {"eval", "load"}
      BY <1>10 DEF GetTenantTrie, UseTrie, Goto, OnlyMoves, TypeOK
    <2> QED
      BY Zenon, <1>10, <2>1, WriterQuiet DEF GetTenantTrie, engineVars, Critical
  <1>11. ASSUME NEW r \in Requests, RereadTrie(r) PROVE WriterDiscipline'
    <2>1. OnlyMoves(r) /\ pc'[r] \in {"eval", "idle"}
      <3>1. CASE Return(r)
        BY <3>1, ReturnMoves
      <3>2. CASE ~Return(r)
        BY <1>11, <3>2 DEF RereadTrie, UseTrie, Goto, OnlyMoves, TypeOK
      <3> QED
        BY <3>1, <3>2
    <2> QED
      BY Zenon, <1>11, <2>1, WriterQuiet DEF RereadTrie, engineVars, Critical
  <1>12. ASSUME NEW r \in Requests, Evaluate(r) PROVE WriterDiscipline'
    <2>1. OnlyMoves(r) /\ pc'[r] \in {"issue", "idle"}
      <3>1. CASE Return(r)
        BY <3>1, ReturnMoves
      <3>2. CASE ~Return(r)
        BY <1>12, <3>2 DEF Evaluate, Goto, OnlyMoves, TypeOK
      <3> QED
        BY <3>1, <3>2
    <2> QED
      BY Zenon, <1>12, <2>1, WriterQuiet DEF Evaluate, Critical
  <1>13. ASSUME NEW r \in Requests, IssueApprovalCapability(r) PROVE WriterDiscipline'
    BY Zenon, <1>13, ReturnMoves, WriterQuiet DEF IssueApprovalCapability, engineVars, Critical
  <1>14. ASSUME ReconcileTick \/ (\E t \in Tenants : ReconcileReadFails(t))
         PROVE  WriterDiscipline'
    BY <1>1, <1>14 DEF ReconcileTick, ReconcileReadFails, engineVars
  <1>15. ASSUME NEW t \in Tenants, ReconcileRead(t) PROVE WriterDiscipline'
    <2>1. OnlyMoves(Reconciler) /\ pc[Reconciler] = "idle" /\ pc'[Reconciler] = "compare"
      BY <1>15 DEF ReconcileRead, Goto, OnlyMoves, TypeOK
    <2> QED
      BY <1>15, <2>1, WriterQuiet DEF ReconcileRead, engineVars, Critical
  <1>16. ASSUME reconcileTenantRevision PROVE WriterDiscipline'
    <2>1. OnlyMoves(Reconciler) /\ pc'[Reconciler] \in {"load", "idle"}
      <3>1. CASE Return(Reconciler)
        BY <3>1, ReturnMoves
      <3>2. CASE ~Return(Reconciler)
        BY <1>16, <3>2 DEF reconcileTenantRevision, Goto, OnlyMoves, TypeOK
      <3> QED
        BY <3>1, <3>2
    <2> QED
      BY <1>16, <2>1, WriterQuiet DEF reconcileTenantRevision, engineVars, Critical
  <1>17. ASSUME runGCCycle \/ (\E t \in Tenants : AgeRecord(t))
         PROVE  WriterDiscipline'
    BY <1>1, <1>17 DEF AgeRecord, runGCCycle, engineVars, threadVars
  <1>18. ASSUME NEW t \in Tenants, UnloadLock(t) PROVE WriterDiscipline'
    <2>1. CASE ~Loaded(t)
      BY <1>1, <1>18, <2>1 DEF UnloadLock
    <2>2. CASE Loaded(t)
      <3>1. \A v \in Threads : pc[v] \notin Critical
        BY <1>18 DEF UnloadLock, CanLock, WriterDiscipline
      <3>2. /\ writeMu' = GC /\ mem' = mem
            /\ pc'[GC] = "unload" /\ copy'[GC] = mem
            /\ \A v \in Threads \ {GC} : pc'[v] \notin Critical
        BY <1>18, <2>2, <3>1 DEF UnloadLock, Goto, TypeOK
      <3> QED
        BY <3>2 DEF WriterDiscipline, Critical
    <2> QED
      BY <2>1, <2>2
  <1>19. ASSUME UnloadStore PROVE WriterDiscipline'
    <2>1. writeMu = GC /\ \A v \in Threads \ {GC} : pc[v] \notin Critical
      BY Zenon, <1>19 DEF UnloadStore, WriterDiscipline, Critical
    <2>2. /\ writeMu' = GC /\ pc'[GC] = "delete" /\ arg'[GC] = arg[GC]
          /\ \A v \in Threads \ {GC} : pc'[v] \notin Critical
      BY <1>19, <2>1 DEF UnloadStore, Goto, TypeOK
    <2>3. ~Loaded(arg[GC])'
      <3>1. arg[GC] \in Tenants /\ copy[GC] \in EngineState
        BY <1>19 DEF UnloadStore, ArgOK, TypeOK
      <3>2. mem'[arg[GC]] = NoTrie
        BY <1>19, <3>1 DEF UnloadStore, stateWithoutTenant, EngineState
      <3> QED
        BY <2>2, <3>2 DEF Loaded, NoTrie
    <2> QED
      BY Zenon, <2>2, <2>3 DEF WriterDiscipline, Critical
  <1>20. ASSUME UnloadDelete PROVE WriterDiscipline'
    <2>1. writeMu = GC /\ \A v \in Threads \ {GC} : pc[v] \notin Critical
      BY <1>20 DEF UnloadDelete, WriterDiscipline, Critical
    <2>2. writeMu' = NoThread /\ \A v \in Threads : pc'[v] \notin Critical
      BY <1>20, <2>1, ReturnMoves DEF UnloadDelete, OnlyMoves, Critical
    <2> QED
      BY <2>2 DEF WriterDiscipline, Critical
  <1>21. ASSUME UNCHANGED vars PROVE WriterDiscipline'
    BY <1>1, <1>21 DEF vars, engineVars, threadVars
  <1> QED
    BY <1>2, <1>3, <1>4, <1>5, <1>6, <1>7, <1>8, <1>9, <1>10, <1>11, <1>12, <1>13,
       <1>14, <1>15, <1>16, <1>17, <1>18, <1>19, <1>20, <1>21
    DEF Next, Session, SyncTenant, Request, Reconcile, Collect

-----------------------------------------------------------------------------
(* Tries and the bundles they were built from.                               *)

(* Initially no tenant is loaded and nobody holds a trie.                   *)
LEMMA BundleInit == Init => RevisionNamesBundle
  BY ThreadFacts DEF Init, RevisionNamesBundle, LoadedTenants, Loaded, Holding, NoState, NoTrie

(* A step that leaves the database and the published state alone keeps the   *)
(* invariant if the goroutine that moves ends up with a faithful trie or     *)
(* with none.                                                                *)
LEMMA BundleLocal ==
  ASSUME RevisionNamesBundle, NEW w \in Threads,
         UNCHANGED <<dbRev, broken, mem>>,
         OnlyMoves(w),
         w \in Syncers /\ pc'[w] \in Holding =>
           trie'[w].rev > 0 /\ Faithful(arg'[w], trie'[w])
  PROVE  RevisionNamesBundle'
  <1>1. \A t \in LoadedTenants' : Faithful(t, mem[t])'
    BY DEF RevisionNamesBundle, LoadedTenants, Loaded, Faithful
  <1>2. ASSUME NEW v \in Syncers, pc'[v] \in Holding
        PROVE  trie'[v].rev > 0 /\ Faithful(arg[v], trie[v])'
    <2>1. CASE v = w
      BY <1>2, <2>1 DEF Faithful
    <2>2. CASE v # w
      BY Zenon, <1>2, <2>2, ThreadFacts DEF RevisionNamesBundle, OnlyMoves, Faithful
    <2> QED
      BY <2>1, <2>2
  <1> QED
    BY <1>1, <1>2 DEF RevisionNamesBundle

(* Every step keeps every trie in use faithful to one committed bundle.     *)
LEMMA BundleStep ==
  ASSUME TypeOK, ArgOK, RevisionNamesBundle, WriterDiscipline, [Next]_vars
  PROVE  RevisionNamesBundle'
  <1> USE ThreadFacts
  <1>1. ASSUME UNCHANGED <<dbRev, broken, mem, pc, arg, trie>>
        PROVE  RevisionNamesBundle'
    BY <1>1 DEF RevisionNamesBundle, LoadedTenants, Loaded, Faithful
  <1>2. ASSUME NEW t \in Tenants, NEW ok \in BOOLEAN, CommitPolicyChange(t, ok)
        PROVE  RevisionNamesBundle'
    <2>1. ASSUME NEW u \in Tenants, NEW x \in Trie, Faithful(u, x)
          PROVE  Faithful(u, x)'
      <3>1. dbRev'[u] \in Nat /\ dbRev[u] \in Nat /\ dbRev'[u] >= dbRev[u]
        BY SMTT(60), <1>2 DEF CommitPolicyChange, TypeOK, Revisions
      <3>2. x.rev <= dbRev[u] /\ x.rev \in Nat
        BY <2>1 DEF Faithful, Trie
      <3>3. <<u, x.rev>> # <<t, dbRev[t] + 1>>
        BY <3>1, <3>2
      <3>4. <<u, x.rev>> \notin broken'
        BY <1>2, <2>1, <3>3 DEF CommitPolicyChange, Faithful
      <3> QED
        BY <2>1, <3>1, <3>2, <3>4 DEF Faithful
    <2>2. \A u \in LoadedTenants' : Faithful(u, mem[u])'
      BY <1>2, <2>1
      DEF CommitPolicyChange, engineVars, RevisionNamesBundle, LoadedTenants, Loaded,
          TypeOK, EngineState
    <2>3. ASSUME NEW v \in Syncers, pc'[v] \in Holding
          PROVE  trie'[v].rev > 0 /\ Faithful(arg[v], trie[v])'
      <3>1. UNCHANGED <<pc, arg, trie>>
        BY <1>2 DEF CommitPolicyChange, threadVars
      <3>2. arg[v] \in Tenants /\ trie[v] \in Trie
        BY <2>3, <3>1 DEF TypeOK, ArgOK, Holding
      <3>3. trie[v].rev > 0 /\ Faithful(arg[v], trie[v])
        BY <2>3, <3>1 DEF RevisionNamesBundle
      <3> QED
        BY <2>1, <3>1, <3>2, <3>3 DEF Faithful
    <2> QED
      BY <2>2, <2>3 DEF RevisionNamesBundle
  <1>3. ASSUME Listen \/ ListenFails \/ ConnectionLost \/ NoticeLoss
        PROVE  RevisionNamesBundle'
    BY <1>1, <1>3
    DEF Listen, ListenFails, ConnectionLost, NoticeLoss, dbVars, engineVars, threadVars
  <1>4. ASSUME ReceiveEvent PROVE RevisionNamesBundle'
    <2>1. CASE UNCHANGED <<pc, arg, want>>
      BY Zenon, <1>1, <1>4, <2>1 DEF ReceiveEvent, dbVars, engineVars
    <2>2. CASE ~UNCHANGED <<pc, arg, want>>
      <3>1. OnlyMoves(Subscriber) /\ pc'[Subscriber] = "load"
        BY <1>4, <2>2 DEF ReceiveEvent, Goto, OnlyMoves, TypeOK
      <3> QED
        BY <1>4, <3>1, BundleLocal DEF ReceiveEvent, dbVars, engineVars, Holding
    <2> QED
      BY <2>1, <2>2
  <1>5. ASSUME NEW w \in Syncers, LoadBundle(w) \/ LoadFails(w)
        PROVE  RevisionNamesBundle'
    <2>1. CASE SyncError(w)
      BY <1>5, <2>1, ReturnMoves, BundleLocal
      DEF LoadBundle, LoadFails, SyncError, dbVars, engineVars, Holding
    <2>2. CASE ~SyncError(w)
      <3>1. /\ pc' = [pc EXCEPT ![w] = "publish"]
            /\ trie' = [trie EXCEPT ![w] = [rev |-> dbRev[arg[w]], content |-> dbRev[arg[w]]]]
            /\ UNCHANGED <<arg, copy>>
            /\ <<arg[w], dbRev[arg[w]]>> \notin broken
        BY <1>5, <2>2 DEF LoadBundle, LoadFails, GetTenantPolicyBundle, PublishedRevision, Goto
      <3>2. dbRev[arg[w]] \in Nat /\ dbRev[arg[w]] > 0
        BY <1>5 DEF LoadBundle, LoadFails, ArgOK, TypeOK, Revisions
      <3>3. trie'[w] = [rev |-> dbRev[arg[w]], content |-> dbRev[arg[w]]]
        BY <3>1 DEF TypeOK
      <3> HIDE ThreadFacts
      <3>a. trie'[w].rev = dbRev[arg[w]] /\ trie'[w].content = dbRev[arg[w]]
        BY <3>3
      <3>b. arg'[w] = arg[w]
        BY <3>1
      <3>4. trie'[w].rev > 0 /\ Faithful(arg'[w], trie'[w])
        BY <3>1, <3>2, <3>a, <3>b DEF Faithful
      <3>5. OnlyMoves(w)
        BY <3>1 DEF OnlyMoves, TypeOK
      <3>6. UNCHANGED <<dbRev, broken, mem>>
        BY <1>5 DEF LoadBundle, LoadFails, dbVars, engineVars
      <3> QED
        BY <3>4, <3>5, <3>6, ThreadFacts, BundleLocal
    <2> QED
      BY <2>1, <2>2
  <1>6. ASSUME NEW w \in Syncers, PublishLock(w) PROVE RevisionNamesBundle'
    <2>1. CASE SyncDone(w)
      BY Zenon, <1>6, <2>1, SyncDoneMoves, BundleLocal DEF PublishLock, dbVars, Holding
    <2>2. CASE ~SyncDone(w)
      <3>1. OnlyMoves(w) /\ arg' = arg /\ trie' = trie
        BY <1>6, <2>2 DEF PublishLock, Goto, OnlyMoves, TypeOK
      <3>2. trie[w].rev > 0 /\ Faithful(arg[w], trie[w])
        BY Zenon, <1>6 DEF PublishLock, RevisionNamesBundle, Holding
      <3> QED
        BY <1>6, <3>1, <3>2, BundleLocal DEF PublishLock, dbVars
    <2> QED
      BY <2>1, <2>2
  <1>7. ASSUME NEW w \in Syncers, PublishStore(w) PROVE RevisionNamesBundle'
    <2>1. /\ copy[w] = mem /\ arg[w] \in Tenants
          /\ trie[w].rev > 0 /\ Faithful(arg[w], trie[w])
      BY Zenon, <1>7 DEF PublishStore, WriterDiscipline, ArgOK, RevisionNamesBundle, Holding
    <2>2. mem' = [mem EXCEPT ![arg[w]] = trie[w]]
      BY Zenon, <1>7, <2>1 DEF PublishStore, stateWithTenant
    <2>3. \A u \in LoadedTenants' : Faithful(u, mem[u])'
      BY ZenonT(60), <1>7, <2>1, <2>2
      DEF PublishStore, dbVars, RevisionNamesBundle, LoadedTenants, Loaded, Faithful,
          TypeOK, EngineState
    <2>4. ASSUME NEW v \in Syncers, pc'[v] \in Holding
          PROVE  trie'[v].rev > 0 /\ Faithful(arg[v], trie[v])'
      <3>1. v # w /\ pc'[v] = pc[v]
        BY <1>7, <2>4 DEF PublishStore, Goto, TypeOK, Holding
      <3> QED
        BY Zenon, <1>7, <2>4, <3>1 DEF PublishStore, dbVars, RevisionNamesBundle, Faithful
    <2> QED
      BY Zenon, <2>3, <2>4 DEF RevisionNamesBundle
  <1>8. ASSUME NEW w \in Syncers, PublishTouch(w) PROVE RevisionNamesBundle'
    BY <1>8, SyncDoneMoves, BundleLocal DEF PublishTouch, dbVars, Holding
  <1>9. ASSUME NEW r \in Requests, NEW t \in Tenants, Loaded(t), UseTrie(r, t),
               arg'[r] = t, OnlyMoves(r), UNCHANGED <<dbRev, broken, mem>>
        PROVE  RevisionNamesBundle'
    <2>1. mem[t].rev > 0 /\ Faithful(t, mem[t])
      BY <1>9 DEF RevisionNamesBundle, LoadedTenants, Loaded
    <2>2. trie'[r] = mem[t]
      BY <1>9 DEF UseTrie, TypeOK
    <2> QED
      BY <1>9, <2>1, <2>2, BundleLocal
  <1>10. ASSUME NEW r \in Requests, NEW t \in Tenants, CheckPermission(r, t)
         PROVE  RevisionNamesBundle'
    <2>1. OnlyMoves(r) /\ arg'[r] = t /\ UNCHANGED <<dbRev, broken, mem>>
      BY <1>10 DEF CheckPermission, UseTrie, Goto, OnlyMoves, TypeOK, dbVars, engineVars
    <2>2. CASE Loaded(t)
      BY Zenon, <1>9, <1>10, <2>1, <2>2 DEF CheckPermission
    <2>3. CASE ~Loaded(t)
      <3>1. pc'[r] = "lookup"
        BY <1>10, <2>3 DEF CheckPermission, Goto, TypeOK
      <3> QED
        BY Zenon, <2>1, <3>1, BundleLocal DEF Holding
    <2> QED
      BY <2>2, <2>3
  <1>11. ASSUME NEW r \in Requests, GetTenantTrie(r) PROVE RevisionNamesBundle'
    <2>1. /\ OnlyMoves(r) /\ arg'[r] = arg[r] /\ arg[r] \in Tenants
          /\ UNCHANGED <<dbRev, broken, mem>>
      BY <1>11
      DEF GetTenantTrie, UseTrie, Goto, OnlyMoves, TypeOK, ArgOK, dbVars, engineVars
    <2>2. CASE Loaded(arg[r])
      BY <1>9, <1>11, <2>1, <2>2 DEF GetTenantTrie
    <2>3. CASE ~Loaded(arg[r])
      <3>1. pc'[r] = "load"
        BY <1>11, <2>3 DEF GetTenantTrie, Goto, TypeOK
      <3> QED
        BY Zenon, <2>1, <3>1, BundleLocal DEF Holding
    <2> QED
      BY <2>2, <2>3
  <1>12. ASSUME NEW r \in Requests, RereadTrie(r) PROVE RevisionNamesBundle'
    <2>1. UNCHANGED <<dbRev, broken, mem>> /\ arg[r] \in Tenants
      BY Zenon, <1>12 DEF RereadTrie, ArgOK, dbVars, engineVars
    <2>2. CASE Loaded(arg[r])
      <3>1. OnlyMoves(r) /\ arg'[r] = arg[r]
        BY <1>12, <2>2 DEF RereadTrie, UseTrie, Goto, OnlyMoves, TypeOK
      <3> QED
        BY <1>9, <1>12, <2>1, <2>2, <3>1 DEF RereadTrie
    <2>3. CASE ~Loaded(arg[r])
      BY <1>12, <2>1, <2>3, ReturnMoves, BundleLocal DEF RereadTrie, Holding
    <2> QED
      BY <2>2, <2>3
  <1>13. ASSUME NEW r \in Requests, Evaluate(r) PROVE RevisionNamesBundle'
    <2>1. UNCHANGED <<dbRev, broken, mem>>
      BY Zenon, <1>13 DEF Evaluate, dbVars
    <2>2. CASE Return(r)
      BY Zenon, <2>1, <2>2, ReturnMoves, BundleLocal DEF Holding
    <2>3. CASE ~Return(r)
      <3>1. OnlyMoves(r) /\ UNCHANGED <<arg, trie>>
        BY <1>13, <2>3 DEF Evaluate, Goto, OnlyMoves, TypeOK
      <3>2. trie[r].rev > 0 /\ Faithful(arg[r], trie[r])
        BY Zenon, <1>13 DEF Evaluate, RevisionNamesBundle, Holding
      <3> QED
        BY <2>1, <3>1, <3>2, BundleLocal
    <2> QED
      BY <2>2, <2>3
  <1>14. ASSUME NEW r \in Requests, IssueApprovalCapability(r) PROVE RevisionNamesBundle'
    BY <1>14, ReturnMoves, BundleLocal
    DEF IssueApprovalCapability, dbVars, engineVars, Holding
  <1>15. ASSUME ReconcileTick \/ (\E t \in Tenants : ReconcileReadFails(t))
         PROVE  RevisionNamesBundle'
    BY <1>1, <1>15 DEF ReconcileTick, ReconcileReadFails, dbVars, engineVars
  <1>16. ASSUME NEW t \in Tenants, ReconcileRead(t) PROVE RevisionNamesBundle'
    <2>1. OnlyMoves(Reconciler) /\ pc'[Reconciler] = "compare"
      BY <1>16 DEF ReconcileRead, Goto, OnlyMoves, TypeOK
    <2> QED
      BY <1>16, <2>1, BundleLocal DEF ReconcileRead, dbVars, engineVars, Holding
  <1>17. ASSUME reconcileTenantRevision PROVE RevisionNamesBundle'
    <2>1. OnlyMoves(Reconciler) /\ pc'[Reconciler] \in {"load", "idle"}
      <3>1. CASE Return(Reconciler)
        BY <3>1, ReturnMoves
      <3>2. CASE ~Return(Reconciler)
        BY <1>17, <3>2 DEF reconcileTenantRevision, Goto, OnlyMoves, TypeOK
      <3> QED
        BY <3>1, <3>2
    <2> QED
      BY <1>17, <2>1, BundleLocal DEF reconcileTenantRevision, dbVars, engineVars, Holding
  <1>18. ASSUME runGCCycle \/ (\E t \in Tenants : AgeRecord(t)) PROVE RevisionNamesBundle'
    BY <1>1, <1>18 DEF AgeRecord, runGCCycle, dbVars, engineVars, threadVars
  <1>19. ASSUME NEW t \in Tenants, UnloadLock(t) PROVE RevisionNamesBundle'
    <2>1. OnlyMoves(GC)
      BY <1>19 DEF UnloadLock, Goto, OnlyMoves, TypeOK
    <2> QED
      BY <1>19, <2>1, BundleLocal DEF UnloadLock, dbVars
  <1>20. ASSUME UnloadStore PROVE RevisionNamesBundle'
    <2>1. copy[GC] = mem /\ arg[GC] \in Tenants
      BY Zenon, <1>20 DEF UnloadStore, WriterDiscipline, ArgOK
    <2>2. mem' = [mem EXCEPT ![arg[GC]] = NoTrie]
      BY Zenon, <1>20, <2>1 DEF UnloadStore, stateWithoutTenant
    <2>3. \A u \in LoadedTenants' : u \in LoadedTenants /\ mem'[u] = mem[u]
      BY <2>1, <2>2 DEF LoadedTenants, Loaded, NoTrie, TypeOK, EngineState
    <2>4. \A v \in Syncers : pc'[v] = pc[v]
      BY <1>20 DEF UnloadStore, Goto, TypeOK
    <2> QED
      BY Zenon, <1>20, <2>3, <2>4 DEF UnloadStore, dbVars, RevisionNamesBundle, Faithful
  <1>21. ASSUME UnloadDelete PROVE RevisionNamesBundle'
    BY <1>21, ReturnMoves, BundleLocal DEF UnloadDelete, dbVars
  <1>22. ASSUME UNCHANGED vars PROVE RevisionNamesBundle'
    BY <1>1, <1>22 DEF vars, dbVars, engineVars, threadVars
  <1> QED
    BY <1>2, <1>3, <1>4, <1>5, <1>6, <1>7, <1>8, <1>10, <1>11, <1>12, <1>13, <1>14,
       <1>15, <1>16, <1>17, <1>18, <1>19, <1>20, <1>21, <1>22
    DEF Next, Session, SyncTenant, Request, Reconcile, Collect

-----------------------------------------------------------------------------
(* What the collector can see.                                               *)

(* Initially no tenant is loaded.                                           *)
LEMMA TrackedInit == Init => LoadedTenantsAreTracked
  BY DEF Init, LoadedTenantsAreTracked, LoadedTenants, Loaded, NoState, NoTrie

(* A step that publishes nothing, deletes no record and completes no pending *)
(* touch keeps every loaded tenant tracked.                                  *)
LEMMA TrackedLocal ==
  ASSUME LoadedTenantsAreTracked, NEW w \in Threads, OnlyMoves(w), UNCHANGED mem,
         \A t \in Tenants : record[t] # "none" => record'[t] # "none",
         pc[w] # "touch"
  PROVE  LoadedTenantsAreTracked'
  <1>1. LoadedTenants' = LoadedTenants
    BY DEF LoadedTenants, Loaded
  <1> SUFFICES ASSUME NEW t \in LoadedTenants
               PROVE  \/ record'[t] # "none"
                      \/ \E v \in Syncers : pc'[v] = "touch" /\ arg'[v] = t
    BY <1>1 DEF LoadedTenantsAreTracked
  <1>2. CASE record[t] # "none"
    BY Zenon, <1>2 DEF LoadedTenants
  <1>3. CASE \E v \in Syncers : pc[v] = "touch" /\ arg[v] = t
    <2>1. PICK v \in Syncers : pc[v] = "touch" /\ arg[v] = t
      BY <1>3
    <2>2. v # w /\ v \in Threads
      BY <2>1, ThreadFacts
    <2>3. pc'[v] = pc[v] /\ arg'[v] = arg[v]
      BY <2>2 DEF OnlyMoves
    <2> QED
      BY <2>1, <2>3
  <1> QED
    BY <1>2, <1>3 DEF LoadedTenantsAreTracked

(* Every step keeps every loaded tenant tracked.                            *)
LEMMA TrackedStep ==
  ASSUME TypeOK, ArgOK, WriterDiscipline, LoadedTenantsAreTracked, [Next]_vars
  PROVE  LoadedTenantsAreTracked'
  <1> USE ThreadFacts
  <1>1. ASSUME UNCHANGED <<mem, record, pc, arg>>
        PROVE  LoadedTenantsAreTracked'
    BY <1>1 DEF LoadedTenantsAreTracked, LoadedTenants, Loaded
  <1>2. ASSUME NEW t \in Tenants, NEW ok \in BOOLEAN, CommitPolicyChange(t, ok)
        PROVE  LoadedTenantsAreTracked'
    BY <1>1, <1>2 DEF CommitPolicyChange, engineVars, threadVars
  <1>3. ASSUME Listen \/ ListenFails \/ ConnectionLost \/ NoticeLoss
        PROVE  LoadedTenantsAreTracked'
    BY <1>1, <1>3
    DEF Listen, ListenFails, ConnectionLost, NoticeLoss, engineVars, threadVars
  <1>4. ASSUME ReceiveEvent PROVE LoadedTenantsAreTracked'
    <2>1. OnlyMoves(Subscriber)
      BY Zenon, <1>4 DEF ReceiveEvent, Goto, OnlyMoves, TypeOK
    <2> QED
      BY Zenon, <1>4, <2>1, TrackedLocal DEF ReceiveEvent, engineVars
  <1>5. ASSUME NEW w \in Syncers, LoadBundle(w) \/ LoadFails(w)
        PROVE  LoadedTenantsAreTracked'
    <2>1. OnlyMoves(w)
      <3>1. CASE SyncError(w)
        BY <3>1, ReturnMoves DEF SyncError
      <3>2. CASE ~SyncError(w)
        BY <1>5, <3>2 DEF LoadBundle, LoadFails, Goto, OnlyMoves, TypeOK
      <3> QED
        BY <3>1, <3>2
    <2> QED
      BY <1>5, <2>1, TrackedLocal DEF LoadBundle, LoadFails, engineVars
  <1>6. ASSUME NEW w \in Syncers, PublishLock(w) PROVE LoadedTenantsAreTracked'
    <2>1. OnlyMoves(w)
      <3>1. CASE SyncDone(w)
        BY <3>1, SyncDoneMoves
      <3>2. CASE ~SyncDone(w)
        BY <1>6, <3>2 DEF PublishLock, Goto, OnlyMoves, TypeOK
      <3> QED
        BY <3>1, <3>2
    <2> QED
      BY Zenon, <1>6, <2>1, TrackedLocal DEF PublishLock
  <1>7. ASSUME NEW w \in Syncers, PublishStore(w) PROVE LoadedTenantsAreTracked'
    <2>1. pc'[w] = "touch" /\ arg'[w] = arg[w]
      BY <1>7 DEF PublishStore, Goto, TypeOK
    <2>2. ASSUME NEW u \in LoadedTenants', u # arg[w]
          PROVE  u \in LoadedTenants
      BY <1>7, <2>2
      DEF PublishStore, stateWithTenant, WriterDiscipline, LoadedTenants, Loaded, TypeOK,
          EngineState
    <2>3. \A v \in Syncers : pc[v] = "touch" => pc'[v] = "touch" /\ arg'[v] = arg[v]
      BY <1>7 DEF PublishStore, Goto, TypeOK
    <2> QED
      BY Zenon, <1>7, <2>1, <2>2, <2>3 DEF PublishStore, LoadedTenantsAreTracked
  <1>8. ASSUME NEW w \in Syncers, PublishTouch(w) PROVE LoadedTenantsAreTracked'
    <2>1. arg[w] \in Tenants /\ OnlyMoves(w)
      BY <1>8, SyncDoneMoves DEF PublishTouch, ArgOK
    <2>2. record'[arg[w]] = "fresh" /\ \A t \in Tenants : t # arg[w] => record'[t] = record[t]
      BY <1>8, <2>1 DEF PublishTouch, touchTenant, TypeOK
    <2>3. LoadedTenants' = LoadedTenants
      BY Zenon, <1>8 DEF PublishTouch, LoadedTenants, Loaded
    <2>4. \A v \in Syncers : v # w => pc'[v] = pc[v] /\ arg'[v] = arg[v]
      BY <2>1 DEF OnlyMoves
    <2> SUFFICES ASSUME NEW t \in LoadedTenants, t # arg[w]
                 PROVE  \/ record'[t] # "none"
                        \/ \E v \in Syncers : pc'[v] = "touch" /\ arg'[v] = t
      BY Zenon, <2>2, <2>3, Zenon DEF LoadedTenantsAreTracked
    <2>5. CASE record[t] # "none"
      BY <2>2, <2>5 DEF LoadedTenants
    <2>6. CASE \E v \in Syncers : pc[v] = "touch" /\ arg[v] = t
      BY <2>4, <2>6
    <2> QED
      BY Zenon, <2>5, <2>6 DEF LoadedTenantsAreTracked
  <1>9. ASSUME NEW r \in Requests, NEW t \in Tenants, CheckPermission(r, t)
        PROVE  LoadedTenantsAreTracked'
    <2>1. OnlyMoves(r)
      BY <1>9 DEF CheckPermission, UseTrie, Goto, OnlyMoves, TypeOK
    <2> QED
      BY <1>9, <2>1, TrackedLocal DEF CheckPermission, engineVars
  <1>10. ASSUME NEW r \in Requests, GetTenantTrie(r) PROVE LoadedTenantsAreTracked'
    <2>1. OnlyMoves(r)
      BY <1>10 DEF GetTenantTrie, UseTrie, Goto, OnlyMoves, TypeOK
    <2> QED
      BY Zenon, <1>10, <2>1, TrackedLocal DEF GetTenantTrie, engineVars
  <1>11. ASSUME NEW r \in Requests, RereadTrie(r) PROVE LoadedTenantsAreTracked'
    <2>1. OnlyMoves(r)
      <3>1. CASE Return(r)
        BY <3>1, ReturnMoves
      <3>2. CASE ~Return(r)
        BY <1>11, <3>2 DEF RereadTrie, UseTrie, Goto, OnlyMoves, TypeOK
      <3> QED
        BY <3>1, <3>2
    <2> QED
      BY Zenon, <1>11, <2>1, TrackedLocal DEF RereadTrie, engineVars
  <1>12. ASSUME NEW r \in Requests, Evaluate(r) PROVE LoadedTenantsAreTracked'
    <2>1. OnlyMoves(r)
      <3>1. CASE Return(r)
        BY <3>1, ReturnMoves
      <3>2. CASE ~Return(r)
        BY <1>12, <3>2 DEF Evaluate, Goto, OnlyMoves, TypeOK
      <3> QED
        BY <3>1, <3>2
    <2>2. \A t \in Tenants : record[t] # "none" => record'[t] # "none"
      BY <1>12 DEF Evaluate, touchTenant, TypeOK
    <2> QED
      BY Zenon, <1>12, <2>1, <2>2, TrackedLocal DEF Evaluate
  <1>13. ASSUME NEW r \in Requests, IssueApprovalCapability(r)
         PROVE  LoadedTenantsAreTracked'
    BY Zenon, <1>13, ReturnMoves, TrackedLocal DEF IssueApprovalCapability, engineVars
  <1>14. ASSUME ReconcileTick \/ (\E t \in Tenants : ReconcileReadFails(t))
         PROVE  LoadedTenantsAreTracked'
    BY <1>1, <1>14 DEF ReconcileTick, ReconcileReadFails, engineVars
  <1>15. ASSUME NEW t \in Tenants, ReconcileRead(t) PROVE LoadedTenantsAreTracked'
    <2>1. OnlyMoves(Reconciler)
      BY <1>15 DEF ReconcileRead, Goto, OnlyMoves, TypeOK
    <2> QED
      BY <1>15, <2>1, TrackedLocal DEF ReconcileRead, engineVars
  <1>16. ASSUME reconcileTenantRevision PROVE LoadedTenantsAreTracked'
    <2>1. OnlyMoves(Reconciler)
      <3>1. CASE Return(Reconciler)
        BY <3>1, ReturnMoves
      <3>2. CASE ~Return(Reconciler)
        BY <1>16, <3>2 DEF reconcileTenantRevision, Goto, OnlyMoves, TypeOK
      <3> QED
        BY <3>1, <3>2
    <2> QED
      BY <1>16, <2>1, TrackedLocal DEF reconcileTenantRevision, engineVars
  <1>17. ASSUME runGCCycle PROVE LoadedTenantsAreTracked'
    BY <1>1, <1>17 DEF runGCCycle, engineVars
  <1>18. ASSUME NEW t \in Tenants, AgeRecord(t) PROVE LoadedTenantsAreTracked'
    BY <1>18
    DEF AgeRecord, threadVars, TypeOK, LoadedTenantsAreTracked, LoadedTenants, Loaded
  <1>19. ASSUME NEW t \in Tenants, UnloadLock(t) PROVE LoadedTenantsAreTracked'
    <2>1. OnlyMoves(GC)
      BY <1>19 DEF UnloadLock, Goto, OnlyMoves, TypeOK
    <2> QED
      BY <1>19, <2>1, TrackedLocal DEF UnloadLock
  <1>20. ASSUME UnloadStore PROVE LoadedTenantsAreTracked'
    <2>1. \A u \in LoadedTenants' : u \in LoadedTenants
      BY SMTT(60), <1>20
      DEF UnloadStore, stateWithoutTenant, WriterDiscipline, LoadedTenants, Loaded, NoTrie,
          TypeOK, EngineState
    <2>2. \A v \in Syncers : pc'[v] = pc[v] /\ arg'[v] = arg[v]
      BY <1>20 DEF UnloadStore, Goto, TypeOK
    <2> QED
      BY SMTT(60), <1>20, <2>1, <2>2 DEF UnloadStore, LoadedTenantsAreTracked
  <1>21. ASSUME UnloadDelete PROVE LoadedTenantsAreTracked'
    <2>1. arg[GC] \notin LoadedTenants /\ LoadedTenants' = LoadedTenants
      BY Zenon, <1>21 DEF UnloadDelete, WriterDiscipline, LoadedTenants, Loaded
    <2>2. \A u \in LoadedTenants : record'[u] = record[u]
      BY <1>21, <2>1 DEF UnloadDelete, LoadedTenants, TypeOK
    <2>3. \A v \in Syncers : pc'[v] = pc[v] /\ arg'[v] = arg[v]
      BY Zenon, <1>21, ReturnMoves DEF UnloadDelete, OnlyMoves
    <2> SUFFICES ASSUME NEW t \in LoadedTenants
                 PROVE  \/ record'[t] # "none"
                        \/ \E v \in Syncers : pc'[v] = "touch" /\ arg'[v] = t
      BY <2>1 DEF LoadedTenantsAreTracked
    <2>4. CASE record[t] # "none"
      BY <2>2, <2>4
    <2>5. CASE \E v \in Syncers : pc[v] = "touch" /\ arg[v] = t
      BY <2>3, <2>5
    <2> QED
      BY Zenon, <2>4, <2>5 DEF LoadedTenantsAreTracked
  <1>22. ASSUME UNCHANGED vars PROVE LoadedTenantsAreTracked'
    BY <1>1, <1>22 DEF vars, engineVars, threadVars
  <1> QED
    BY <1>2, <1>3, <1>4, <1>5, <1>6, <1>7, <1>8, <1>9, <1>10, <1>11, <1>12, <1>13, <1>14,
       <1>15, <1>16, <1>17, <1>18, <1>19, <1>20, <1>21, <1>22
    DEF Next, Session, SyncTenant, Request, Reconcile, Collect

-----------------------------------------------------------------------------
(* The theorems.                                                             *)

Inv == TypeOK /\ ArgOK /\ RevisionNamesBundle /\ WriterDiscipline /\ LoadedTenantsAreTracked

(* The inductive invariant holds in every reachable state.                  *)
LEMMA Invariance == Spec => []Inv
  <1>1. Init => Inv
    BY TypeInit, BundleInit, WriterInit, TrackedInit DEF Inv
  <1>2. Inv /\ [Next]_vars => Inv'
    BY TypeStep, BundleStep, WriterStep, TrackedStep DEF Inv
  <1> QED
    BY <1>1, <1>2, PTL DEF Spec

(* buildTenantTrie and UpdateTenantPoliciesWithRevision: whatever the engine *)
(* serves is one committed, compiled bundle under its own revision.          *)
THEOREM ServedBundles == Spec => []RevisionNamesBundle
  <1>1. Inv => RevisionNamesBundle
    BY DEF Inv
  <1> QED
    BY <1>1, Invariance, PTL

(* UnloadTenant and touchTenant: a loaded tenant has an access record, or    *)
(* its publisher is about to write one.                                      *)
THEOREM Tracking == Spec => []LoadedTenantsAreTracked
  <1>1. Inv => LoadedTenantsAreTracked
    BY DEF Inv
  <1> QED
    BY <1>1, Invariance, PTL

(* Only a publication and an unload store a new engine state, and only a     *)
(* committed policy change advances a revision.                              *)
LEMMA StateSteps ==
  ASSUME [Next]_vars
  PROVE  \/ UNCHANGED <<mem, dbRev>>
         \/ UnloadStore
         \/ \E w \in Syncers : PublishStore(w)
         \/ \E t \in Tenants, ok \in BOOLEAN : CommitPolicyChange(t, ok)
  BY Zenon DEF Next, Session, SyncTenant, Request, Reconcile, Collect, Listen, ListenFails, ConnectionLost, NoticeLoss, ReceiveEvent, LoadBundle,
       LoadFails, PublishLock, PublishTouch, CheckPermission, GetTenantTrie, RereadTrie,
       Evaluate, IssueApprovalCapability, ReconcileTick, ReconcileRead,
       ReconcileReadFails, reconcileTenantRevision, AgeRecord, runGCCycle, UnloadLock,
       UnloadDelete, engineVars, dbVars, vars

(* The step property behind NoLostUpdate.                                    *)
EntryAdvances ==
  \A t \in Tenants :
    \/ mem'[t] = mem[t]
    \/ mem'[t].rev > mem[t].rev
    \/ mem'[t] = NoTrie /\ pc[GC] = "unload" /\ arg[GC] = t

(* A step changes an entry of the state forwards, or the collector drops it. *)
LEMMA EntriesAdvance ==
  ASSUME Inv, [Next]_vars
  PROVE  EntryAdvances
  <1> USE ThreadFacts
  <1>1. ASSUME NEW w \in Syncers, PublishStore(w) PROVE EntryAdvances
    <2>1. mem' = [mem EXCEPT ![arg[w]] = trie[w]] /\ trie[w].rev > mem[arg[w]].rev
      BY Zenon, <1>1 DEF PublishStore, stateWithTenant, Inv, WriterDiscipline
    <2> QED
      BY <2>1 DEF EntryAdvances, Inv, TypeOK, EngineState
  <1>2. ASSUME UnloadStore PROVE EntryAdvances
    <2>1. mem' = [mem EXCEPT ![arg[GC]] = NoTrie]
      BY Zenon, <1>2 DEF UnloadStore, stateWithoutTenant, Inv, WriterDiscipline
    <2> QED
      BY <1>2, <2>1 DEF UnloadStore, EntryAdvances, Inv, TypeOK, EngineState
  <1>3. CASE UNCHANGED mem
    BY Zenon, <1>3 DEF EntryAdvances
  <1>4. ASSUME NEW t \in Tenants, NEW ok \in BOOLEAN, CommitPolicyChange(t, ok)
        PROVE  EntryAdvances
    BY Zenon, <1>4 DEF CommitPolicyChange, engineVars, EntryAdvances
  <1> QED
    BY <1>1, <1>2, <1>3, <1>4, StateSteps

(* The copy-on-write store of UpdateTenantPoliciesWithRevision and           *)
(* UnloadTenant: no writer undoes another's publication.                     *)
THEOREM PublicationsSurvive == Spec => NoLostUpdate
  <1>1. Inv /\ [Next]_vars => [EntryAdvances]_vars
    BY EntriesAdvance
  <1> QED
    BY <1>1, Invariance, PTL DEF Spec, NoLostUpdate, EntryAdvances

-----------------------------------------------------------------------------
(* Refinement: the process implements PolicyView.                            *)

ServedRevisions == [t \in Tenants |-> mem[t].rev]

(* Initially the view serves nothing.                                       *)
LEMMA ViewInit == Init => View!Init
  BY DEF Init, View!Init, NoState, NoTrie

(* Each step commits one tenant's revision, serves a later committed one,    *)
(* drops a tenant, or leaves the view alone.                                 *)
LEMMA ViewStep ==
  ASSUME Inv, [Next]_vars
  PROVE  [View!Next]_(View!vars)
  <1> USE ThreadFacts
  <1>1. ASSUME NEW w \in Syncers, PublishStore(w) PROVE \E t \in Tenants : View!Serve(t)
    <2>1. PICK t \in Tenants : t = arg[w]
      BY Zenon, <1>1 DEF PublishStore, Inv, ArgOK
    <2>2. mem' = [mem EXCEPT ![t] = trie[w]] /\ trie[w].rev > mem[t].rev
      BY Zenon, <1>1, <2>1 DEF PublishStore, stateWithTenant, Inv, WriterDiscipline
    <2>3. trie[w].rev <= dbRev[t] /\ UNCHANGED dbRev
      BY Zenon, <1>1, <2>1 DEF PublishStore, Inv, RevisionNamesBundle, Holding, Faithful, dbVars
    <2>4. trie[w].rev \in Nat /\ mem[t].rev \in Nat /\ dbRev[t] \in Nat
      BY Zenon, <2>1 DEF Inv, TypeOK, EngineState, Trie, Revisions
    <2>5. trie[w].rev \in mem[t].rev + 1 .. dbRev[t]
      BY <2>2, <2>3, <2>4
    <2>6. ServedRevisions' = [ServedRevisions EXCEPT ![t] = trie[w].rev]
      BY Zenon, <2>1, <2>2 DEF ServedRevisions, Inv, TypeOK, EngineState
    <2>7. View!Serve(t)
      BY Zenon, <2>1, <2>3, <2>5, <2>6 DEF View!Serve, ServedRevisions
    <2> QED
      BY <2>7
  <1>2. ASSUME UnloadStore PROVE \E t \in Tenants : View!Drop(t)
    <2>1. PICK t \in Tenants : t = arg[GC]
      BY <1>2 DEF UnloadStore, Inv, ArgOK
    <2>2. mem' = [mem EXCEPT ![t] = NoTrie] /\ UNCHANGED dbRev
      BY Zenon, <1>2, <2>1 DEF UnloadStore, stateWithoutTenant, Inv, WriterDiscipline, dbVars
    <2>3. ServedRevisions' = [ServedRevisions EXCEPT ![t] = 0]
      BY Zenon, <2>1, <2>2 DEF ServedRevisions, Inv, TypeOK, EngineState, NoTrie
    <2>4. View!Drop(t)
      BY <2>2, <2>3 DEF View!Drop, ServedRevisions
    <2> QED
      BY <2>4
  <1>3. ASSUME NEW t \in Tenants, NEW ok \in BOOLEAN, CommitPolicyChange(t, ok)
        PROVE  View!Commit(t)
    BY <1>3 DEF CommitPolicyChange, View!Commit, engineVars
  <1>4. CASE UNCHANGED <<mem, dbRev>>
    BY <1>4 DEF View!vars
  <1> QED
    BY <1>1, <1>2, <1>3, <1>4, StateSteps DEF View!Next

(* sync.go and engine_gc.go together implement PolicyView, the promise that  *)
(* the ERP fence relies on.                                                  *)
THEOREM ViewRefinement == Spec => ImplementsPolicyView
  <1>1. Inv /\ [Next]_vars => [View!Next]_(View!vars)
    BY ViewStep
  <1> QED
    BY <1>1, ViewInit, Invariance, PTL DEF Spec, ImplementsPolicyView, View!Spec

=============================================================================

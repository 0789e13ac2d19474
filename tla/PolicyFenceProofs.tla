-------------------------- MODULE PolicyFenceProofs --------------------------
(* Proofs about PolicyFence, for any writers, replicas and transactions and  *)
(* any bounds.                                                               *)
EXTENDS PolicyFence, TLAPS

(* NoOne is neither a writer nor a transaction.                              *)
LEMMA NoOneFacts == NoOne \notin Writers /\ NoOne \notin Transactions
  BY FenceAssumption

-----------------------------------------------------------------------------
(* Types.                                                                    *)

WLabels == {"idle", "mutate", "read", "publish"}
TLabels == {"idle", "approver", "agent", "ensure", "denied", "grant", "local",
            "policy", "locked"}
RowType(n) == [present : BOOLEAN, revision : 0 .. n, ready : BOOLEAN,
               owner : Writers \cup {NoOne},
               origin : {"none", "decision", "publication"}]

(* The initial state is well typed.                                          *)
LEMMA TypeInit == Init => TypeOK
  <1> SUFFICES ASSUME Init PROVE TypeOK
    OBVIOUS
  <1> USE FenceAssumption
  <1>1. rev \in Nat \ {0} /\ permits \subseteq Served \ {0}
    BY DEF Init, Served
  <1>2. row \in [present : BOOLEAN, revision : Served, ready : BOOLEAN,
                 owner : Writers \cup {NoOne},
                 origin : {"none", "decision", "publication"}]
    BY DEF Init, Absent, Served
  <1>3. got \in [Writers -> Served] /\ answer \in [Transactions -> Served]
    BY DEF Init, Served
  <1> QED
    BY Zenon, <1>1, <1>2, <1>3 DEF Init, TypeOK, Rows

(* Marking a row as changed keeps the snapshots typed.                       *)
LEMMA ChangedType ==
  ASSUME TypeOK, NEW o \in Rows, Changed(o)
  PROVE  stale' \in [Transactions -> SUBSET Rows]
  BY DEF TypeOK, Changed

(* A step of a writer keeps the types.                                       *)
LEMMA TypeWriter ==
  ASSUME TypeOK, NEW w \in Writers, Writer(w)
  PROVE  TypeOK'
  <1> USE DEF Goto, Fails, Fault
  <1>0. "policy" \in Rows
    BY DEF Rows
  <1>1. CASE BeginPublication(w)
    <2>1. row' \in RowType(rev) /\ stale' \in [Transactions -> SUBSET Rows]
      BY ZenonT(60), <1>1, <1>0, ChangedType DEF BeginPublication, Reserved, TypeOK, Served, RowType
    <2>2. wpc' \in [Writers -> WLabels]
      BY <1>1 DEF BeginPublication, TypeOK, WLabels
    <2> QED
      BY <1>1, <2>1, <2>2
      DEF BeginPublication, TypeOK, Served, RowType, WLabels, grantVars, txVars
  <1>2. CASE BeginFails(w)
    <2>1. row' \in RowType(rev) /\ stale' \in [Transactions -> SUBSET Rows]
      BY ZenonT(60), <1>2, <1>0, ChangedType DEF BeginFails, Reserved, TypeOK, Served, RowType
    <2>2. wpc' \in [Writers -> WLabels] /\ faults' \in Nat
      BY <1>2 DEF BeginFails, TypeOK, WLabels
    <2> QED
      BY <1>2, <2>1, <2>2
      DEF BeginFails, TypeOK, Served, RowType, WLabels, grantVars, txVars
  <1>3. CASE Mutate(w) \/ MutateFails(w)
    <2>1. \/ UNCHANGED <<rev, permits>>
          \/ /\ rev' = rev + 1
             /\ permits' = permits \/ permits' = permits \cup {rev + 1}
      BY <1>3 DEF Mutate, MutateFails, Advance
    <2>2. /\ rev' \in Nat \ {0} /\ Served \subseteq Served'
          /\ permits' \subseteq Served' \ {0} /\ permits \subseteq permits'
      <3>1. CASE UNCHANGED <<rev, permits>>
        BY <3>1 DEF TypeOK, Served
      <3>2. CASE /\ rev' = rev + 1
                 /\ permits' = permits \/ permits' = permits \cup {rev + 1}
        <4>1. rev' \in Nat \ {0}
          BY <3>2 DEF TypeOK
        <4>2. 0 .. rev \subseteq 0 .. rev' /\ rev + 1 \in (0 .. rev') \ {0}
          BY <3>2 DEF TypeOK
        <4>3. permits \subseteq permits' /\ permits' \subseteq (0 .. rev') \ {0}
          BY Zenon, <3>2, <4>2 DEF TypeOK, Served
        <4> QED
          BY <4>1, <4>2, <4>3 DEF Served
      <3> QED
        BY <2>1, <3>1, <3>2
    <2>3. /\ wpc' \in [Writers -> WLabels] /\ faults' \in Nat
      <3>1. CASE Mutate(w)
        BY <3>1 DEF Mutate, TypeOK, WLabels
      <3>2. CASE MutateFails(w)
        BY <3>2 DEF MutateFails, TypeOK, WLabels
      <3> QED
        BY <1>3, <3>1, <3>2
    <2>4. UNCHANGED <<row, got, grantVars, local, lock, stale, txVars>>
      BY <1>3 DEF Mutate, MutateFails
    <2>5. row' \in [present : BOOLEAN, revision : Served', ready : BOOLEAN,
                    owner : Writers \cup {NoOne},
                    origin : {"none", "decision", "publication"}]
      BY <2>2, <2>4 DEF TypeOK
    <2>6. got' \in [Writers -> Served'] /\ answer' \in [Transactions -> Served']
          /\ revs' \in [Transactions -> SUBSET permits']
      BY <2>2, <2>4 DEF TypeOK, txVars
    <2> QED
      BY <2>2, <2>3, <2>4, <2>5, <2>6 DEF TypeOK, WLabels, grantVars, txVars
  <1>4. CASE ReadRevision(w)
    BY <1>4 DEF ReadRevision, TypeOK, Served, grantVars, txVars
  <1>5. Published(w) \in RowType(rev)
    BY DEF TypeOK, Published, Served, RowType
  <1>6. CASE FinishPublication(w)
    <2>1. row' \in RowType(rev) /\ stale' \in [Transactions -> SUBSET Rows]
      BY <1>6, <1>0, <1>5, ChangedType DEF FinishPublication, TypeOK, Served, RowType
    <2>2. wpc' \in [Writers -> WLabels]
      BY <1>6 DEF FinishPublication, TypeOK, WLabels
    <2>3. got' \in [Writers -> Served]
      BY <1>6 DEF FinishPublication, TypeOK, Served
    <2> QED
      BY <1>6, <2>1, <2>2, <2>3
      DEF FinishPublication, TypeOK, Served, RowType, WLabels, grantVars, txVars
  <1>7. CASE PublicationFails(w)
    <2>1. row' \in RowType(rev) /\ stale' \in [Transactions -> SUBSET Rows]
      BY <1>7, <1>0, <1>5, ChangedType DEF PublicationFails, TypeOK, Served, RowType
    <2>2. wpc' \in [Writers -> WLabels] /\ faults' \in Nat
          /\ got' \in [Writers -> Served]
      BY <1>7 DEF PublicationFails, TypeOK, WLabels, Served
    <2> QED
      BY <1>7, <2>1, <2>2
      DEF PublicationFails, TypeOK, Served, RowType, WLabels, grantVars, txVars
  <1> QED
    BY <1>1, <1>2, <1>3, <1>4, <1>6, <1>7 DEF Writer

(* A step of a protected transaction keeps the types.                        *)
LEMMA TypeTransaction ==
  ASSUME TypeOK, NEW x \in Transactions, Transaction(x)
  PROVE  TypeOK'
  <1> USE DEF Step
  <1>0. "policy" \in Rows
    BY DEF Rows
  <1>1. ASSUME Ended(x)
        PROVE  /\ tpc' \in [Transactions -> TLabels]
               /\ answer' \in [Transactions -> Served]
               /\ revs' \in [Transactions -> SUBSET permits]
               /\ lock' \in [Rows -> Transactions \cup {NoOne}]
    BY <1>1 DEF Ended, Release, TypeOK, TLabels, Served
  <1>2. CASE Leave(x)
    <2>1. stale' \in [Transactions -> SUBSET Rows]
      BY <1>2 DEF Leave, TypeOK
    <2> QED
      BY <1>1, <1>2, <2>1 DEF Leave, TypeOK, TLabels, Served, writerVars, grantVars
  <1>3. CASE Begin(x)
    BY <1>3 DEF Begin, TypeOK, Served, writerVars, grantVars
  <1>4. CASE ApproverDecision(x)
    <2>1. PICK n \in Served \cap permits : revs' = [revs EXCEPT ![x] = @ \cup {n}]
      BY Zenon, <1>4 DEF ApproverDecision
    <2>2. revs' \in [Transactions -> SUBSET permits]
      BY <2>1 DEF TypeOK
    <2> QED
      BY <1>4, <2>2 DEF ApproverDecision, TypeOK, Served, writerVars, grantVars
  <1>5. ASSUME NEW p \in Replicas, AgentDecision(x, p) PROVE TypeOK'
    BY <1>5 DEF AgentDecision, TypeOK, Served, writerVars, grantVars
  <1>6. CASE EnsureERPPolicyRevision(x)
    <2>1. row' \in RowType(rev) /\ stale' \in [Transactions -> SUBSET Rows]
      <3>1. CASE Bootstrap
        <4>1. answer[x] \in 0 .. rev /\ row \in RowType(rev)
          BY DEF TypeOK, Served, RowType
        <4>2. row' = [row EXCEPT !.present = TRUE, !.ready = TRUE, !.revision = answer[x],
                               !.origin = "decision"]
              /\ Changed("policy")
          BY <1>6, <3>1 DEF EnsureERPPolicyRevision
        <4> QED
          BY Zenon, <1>0, <4>1, <4>2, ChangedType DEF RowType
      <3>2. CASE ~Bootstrap
        BY <1>6, <3>2 DEF EnsureERPPolicyRevision, TypeOK, Served, RowType
      <3> QED
        BY <3>1, <3>2
    <2>2. tpc' \in [Transactions -> TLabels] /\ revs' \in [Transactions -> SUBSET permits]
      BY <1>6 DEF EnsureERPPolicyRevision, TypeOK, TLabels
    <2>3. answer' \in [Transactions -> Served]
      BY <1>6 DEF EnsureERPPolicyRevision, TypeOK, Served
    <2> QED
      BY <1>6, <2>1, <2>2, <2>3
      DEF EnsureERPPolicyRevision, TypeOK, Served, RowType, TLabels, writerVars, grantVars
  <1>7. CASE LockGrant(x) \/ LockLocal(x) \/ LockPolicy(x)
    <2>1. lock' \in [Rows -> Transactions \cup {NoOne}]
      BY <1>7 DEF LockGrant, LockLocal, LockPolicy, Lock, TypeOK
    <2>2. tpc' \in [Transactions -> TLabels]
      BY <1>7 DEF LockGrant, LockLocal, LockPolicy, TypeOK, TLabels
    <2> QED
      BY Zenon, <1>7, <2>1, <2>2
      DEF LockGrant, LockLocal, LockPolicy, TypeOK, Served, TLabels, writerVars, grantVars
  <1>8. CASE Commit(x)
    <2>1. stale' \in [Transactions -> SUBSET Rows]
      BY <1>8 DEF Commit, TypeOK, Rows
    <2> QED
      BY <1>1, <1>8, <2>1 DEF Commit, TypeOK, TLabels, Served, writerVars
  <1> QED
    BY <1>2, <1>3, <1>4, <1>5, <1>6, <1>7, <1>8 DEF Transaction

(* Every step keeps the types.                                               *)
LEMMA TypeStep ==
  ASSUME TypeOK, [Next]_vars
  PROVE  TypeOK'
  <1>0. "policy" \in Rows /\ "grant" \in Rows /\ "local" \in Rows
    BY DEF Rows
  <1>1. CASE RecoverPublication
    BY <1>0, <1>1, ChangedType
    DEF RecoverPublication, TypeOK, Served, writerVars, grantVars, txVars
  <1>2. CASE RevokeInERP
    BY <1>0, <1>2, ChangedType DEF RevokeInERP, TypeOK, Served, writerVars, txVars
  <1>3. CASE RevokeInPDP
    BY <1>3 DEF RevokeInPDP, TypeOK, Served, writerVars, txVars
  <1>4. CASE ChangeLocalAuthority
    BY <1>0, <1>4, ChangedType
    DEF ChangeLocalAuthority, TouchLocalAuthority, TypeOK, Served, writerVars, grantVars,
        txVars
  <1>5. ASSUME NEW p \in Replicas, Replica(p) PROVE TypeOK'
    BY Zenon, <1>5
    DEF Replica, AcknowledgeRevocation, ApplyRevocation, TypeOK, Served, writerVars, txVars
  <1>6. CASE UNCHANGED vars
    BY <1>6 DEF vars, TypeOK, Served, writerVars, grantVars, txVars
  <1> QED
    BY <1>1, <1>2, <1>3, <1>4, <1>5, <1>6, TypeWriter, TypeTransaction DEF Next

(* Every field of the fence rows, the writers and the transactions keeps its *)
(* type; in particular no decision carries an uncommitted revision.          *)
THEOREM FenceTypes == Spec => []TypeOK
  BY TypeInit, TypeStep, PTL DEF Spec

-----------------------------------------------------------------------------
(* Publications exclude each other: a writer inside a publication owns the   *)
(* pending row, and a row has one owner.                                     *)

OwnerInv == \A w \in Writers : wpc[w] # "idle" => Owns(w)

(* Initially nobody publishes.                                               *)
LEMMA OwnerInit == Init => OwnerInv
  BY DEF Init, OwnerInv

(* Who leaves the row and the writers alone.                                 *)
LEMMA RowSteps ==
  ASSUME [Next]_vars
  PROVE  \/ UNCHANGED <<row, wpc, got, rev, permits>>
         \/ \E w \in Writers : Writer(w)
         \/ \E x \in Transactions : EnsureERPPolicyRevision(x)
         \/ RecoverPublication
  BY DEF Next, Replica, AcknowledgeRevocation, ApplyRevocation, Transaction, Begin,
     ApproverDecision, AgentDecision, LockGrant, LockLocal, LockPolicy, Commit, Leave,
     RevokeInERP, RevokeInPDP, ChangeLocalAuthority, vars, writerVars

(* Every step keeps it.                                                      *)
LEMMA OwnerStep ==
  ASSUME TypeOK, OwnerInv, [Next]_vars
  PROVE  OwnerInv'
  <1> USE DEF OwnerInv, Owns, Pending
  <1>1. CASE UNCHANGED <<row, wpc, got, rev, permits>>
    BY <1>1
  <1>2. ASSUME NEW w \in Writers, BeginPublication(w) PROVE OwnerInv'
    <2>1. CASE Pending
      BY <1>2, <2>1 DEF BeginPublication, Fails, Goto, TypeOK
    <2>2. CASE ~Pending
      <3>1. \A v \in Writers : wpc[v] = "idle"
        BY <2>2
      <3>2. row' = Reserved(w) /\ wpc' = [wpc EXCEPT ![w] = "mutate"]
        BY <1>2, <2>2 DEF BeginPublication, Goto
      <3>3. row'.present /\ ~row'.ready /\ row'.owner = w
        BY <3>2 DEF Reserved, TypeOK
      <3> QED
        BY <3>1, <3>2, <3>3 DEF TypeOK
    <2> QED
      BY <2>1, <2>2
  <1>3. ASSUME NEW w \in Writers, BeginFails(w) PROVE OwnerInv'
    <2>1. wpc' = [wpc EXCEPT ![w] = "idle"] /\ (row' = row \/ ~Pending)
      BY <1>3 DEF BeginFails, Fails, Goto
    <2> QED
      BY <2>1 DEF TypeOK
  <1>4. ASSUME NEW w \in Writers, Mutate(w) \/ MutateFails(w) \/ ReadRevision(w)
        PROVE  OwnerInv'
    <2>1. wpc[w] # "idle" /\ UNCHANGED row
      BY <1>4 DEF Mutate, MutateFails, ReadRevision
    <2>2. \A v \in Writers : v # w => wpc'[v] = wpc[v]
      BY <1>4 DEF Mutate, MutateFails, ReadRevision, Fails, Goto, TypeOK
    <2> QED
      BY <2>1, <2>2
  <1>5. ASSUME NEW w \in Writers, FinishPublication(w) \/ PublicationFails(w)
        PROVE  OwnerInv'
    <2>1. wpc[w] # "idle" /\ wpc' = [wpc EXCEPT ![w] = "idle"]
      BY <1>5 DEF FinishPublication, PublicationFails, Fails, Goto
    <2>2. \A v \in Writers : v # w => wpc[v] = "idle"
      BY <2>1
    <2> QED
      BY <2>1, <2>2 DEF TypeOK
  <1>6. ASSUME NEW x \in Transactions, EnsureERPPolicyRevision(x) PROVE OwnerInv'
    <2>1. UNCHANGED wpc /\ (row' = row \/ ~Pending)
      BY <1>6 DEF EnsureERPPolicyRevision, Bootstrap, writerVars
    <2> QED
      BY <2>1
  <1>7. CASE RecoverPublication
    BY <1>7 DEF RecoverPublication, writerVars
  <1> QED
    BY <1>1, <1>2, <1>3, <1>4, <1>5, <1>6, <1>7, RowSteps DEF Writer

(* fencedPolicyMutation with its token and "AND ready=true": two writers are *)
(* never inside a publication at the same time, whatever fails.              *)
THEOREM ExclusivePublications == Spec => []PublicationsAreExclusive
  <1>1. Init => TypeOK /\ OwnerInv
    BY TypeInit, OwnerInit
  <1>2. TypeOK /\ OwnerInv /\ [Next]_vars => (TypeOK /\ OwnerInv)'
    BY TypeStep, OwnerStep
  <1>3. TypeOK /\ OwnerInv => PublicationsAreExclusive
    BY DEF OwnerInv, Owns, PublicationsAreExclusive
  <1> QED
    BY <1>1, <1>2, <1>3, PTL DEF Spec

-----------------------------------------------------------------------------
(* The policy row.                                                           *)

(* Without a row no mutation has committed, a writer about to publish has    *)
(* the committed revision in hand, and a ready row is current.               *)
PolicyInv ==
  /\ ~row.present => rev = FirstRevision
  /\ \A w \in Writers : wpc[w] = "publish" => got[w] = rev
  /\ ReadyRowIsCurrent

(* Initially there is no row and no writer.                                  *)
LEMMA PolicyInit == Init => PolicyInv
  BY DEF Init, Absent, PolicyInv, ReadyRowIsCurrent

(* Every step keeps it.                                                      *)
LEMMA PolicyStep ==
  ASSUME TypeOK, OwnerInv, PolicyInv, [Next]_vars
  PROVE  PolicyInv'
  <1> USE DEF PolicyInv, ReadyRowIsCurrent, Bootstrapped
  <1>1. CASE UNCHANGED <<row, wpc, got, rev, permits>>
    BY <1>1
  <1>2. ASSUME NEW w \in Writers, BeginPublication(w) \/ BeginFails(w) PROVE PolicyInv'
    <2>1. UNCHANGED <<rev, got>> /\ (row' = row \/ row' = Reserved(w))
      BY <1>2 DEF BeginPublication, BeginFails
    <2>2. \A v \in Writers : wpc'[v] = "publish" => wpc[v] = "publish"
      BY <1>2 DEF BeginPublication, BeginFails, Fails, Goto, TypeOK
    <2>3. Reserved(w).present /\ ~Reserved(w).ready
      BY DEF Reserved, TypeOK
    <2> QED
      BY <2>1, <2>2, <2>3
  <1>3. ASSUME NEW w \in Writers, Mutate(w) \/ MutateFails(w) PROVE PolicyInv'
    <2>1. wpc[w] = "mutate" /\ UNCHANGED <<row, got>>
      BY <1>3 DEF Mutate, MutateFails
    <2>2. row.present /\ ~row.ready
      BY <2>1 DEF OwnerInv, Owns, Pending
    <2>3. \A v \in Writers : wpc'[v] # "publish"
      <3>1. \A v \in Writers : v # w => wpc[v] = "idle"
        BY <2>1 DEF OwnerInv, Owns
      <3>2. wpc' = [wpc EXCEPT ![w] = "read"] \/ wpc' = [wpc EXCEPT ![w] = "idle"]
        BY <1>3 DEF Mutate, MutateFails, Fails, Goto
      <3> QED
        BY <3>1, <3>2 DEF TypeOK
    <2> QED
      BY <2>1, <2>2, <2>3
  <1>4. ASSUME NEW w \in Writers, ReadRevision(w) PROVE PolicyInv'
    BY <1>4 DEF ReadRevision, Goto, TypeOK
  <1>5. ASSUME NEW w \in Writers, FinishPublication(w) \/ PublicationFails(w)
        PROVE  PolicyInv'
    <2>1. UNCHANGED rev /\ wpc[w] # "idle" /\ wpc' = [wpc EXCEPT ![w] = "idle"]
          /\ (row' = row \/ (wpc[w] = "publish" /\ row' = Published(w)))
      BY <1>5 DEF FinishPublication, PublicationFails, Fails, Goto
    <2>2. \A v \in Writers : wpc'[v] = "idle"
      BY <2>1 DEF OwnerInv, Owns, TypeOK
    <2>3. wpc[w] = "publish" => Published(w).revision = rev /\ Published(w).present
      BY DEF Published
    <2> QED
      BY <2>1, <2>2, <2>3
  <1>6. ASSUME NEW x \in Transactions, EnsureERPPolicyRevision(x) PROVE PolicyInv'
    <2>1. UNCHANGED <<rev, wpc, got>>
      BY <1>6 DEF EnsureERPPolicyRevision, writerVars
    <2>2. CASE Bootstrap
      <3>1. rev = FirstRevision
        BY <2>2 DEF Bootstrap
      <3>2. row'.present /\ row'.origin = "decision"
        BY Zenon, <1>6, <2>2 DEF EnsureERPPolicyRevision, TypeOK
      <3> QED
        BY <2>1, <3>1, <3>2
    <2>3. CASE ~Bootstrap
      BY <1>6, <2>1, <2>3 DEF EnsureERPPolicyRevision
    <2> QED
      BY <2>2, <2>3
  <1>7. CASE RecoverPublication
    BY <1>7 DEF RecoverPublication, writerVars
  <1> QED
    BY <1>1, <1>2, <1>3, <1>4, <1>5, <1>6, <1>7, RowSteps DEF Writer

(* EnsureERPPolicyRevision inserts only, and a writer publishes what it read *)
(* back: a ready row names the committed revision, whatever history the      *)
(* tenant has, unless a decision inserted it and nothing was mutated since.  *)
THEOREM ReadyRows == Spec => []ReadyRowIsCurrent
  <1> DEFINE I == TypeOK /\ OwnerInv /\ PolicyInv
  <1>1. Init => I
    BY TypeInit, OwnerInit, PolicyInit
  <1>2. I /\ [Next]_vars => I'
    BY TypeStep, OwnerStep, PolicyStep
  <1>3. I => ReadyRowIsCurrent
    BY DEF PolicyInv
  <1> QED
    BY <1>1, <1>2, <1>3, PTL DEF Spec

-----------------------------------------------------------------------------
(* The row locks.  What a transaction has locked is what its snapshot says,  *)
(* and stays so; local authority read from the snapshot still holds while    *)
(* the epoch row has not changed since.                                      *)

LockInv ==
  \A x \in Transactions :
    /\ tpc[x] \in {"local", "policy", "locked"} => lock["grant"] = x /\ revocation = "none"
    /\ tpc[x] \in {"policy", "locked"} => lock["local"] = x /\ local
    /\ tpc[x] = "locked" => lock["policy"] = x
    /\ tpc[x] # "idle" /\ "local" \notin stale[x] => local

(* Initially every transaction is idle.                                      *)
LEMMA LockInit == Init => LockInv
  BY DEF Init, LockInv

(* A change of a row other than the epoch's only adds to the stale rows.     *)
LEMMA ChangedGrows ==
  ASSUME TypeOK, NEW o \in Rows, Changed(o)
  PROVE  \A x \in Transactions : tpc[x] # "idle" => stale'[x] = stale[x] \cup {o}
  BY DEF Changed

(* Steps that touch no lock, no transaction and no grant or local authority. *)
LEMMA LockQuiet ==
  ASSUME TypeOK, LockInv, UNCHANGED <<tpc, lock, revocation, local>>,
         \A x \in Transactions : tpc[x] # "idle" => stale[x] \subseteq stale'[x]
  PROVE  LockInv'
  BY DEF LockInv

(* Every step keeps it.                                                      *)
LEMMA LockStep ==
  ASSUME TypeOK, LockInv, [Next]_vars
  PROVE  LockInv'
  <1> USE NoOneFacts
  <1>0. "policy" \in Rows /\ "grant" \in Rows /\ "local" \in Rows
    BY DEF Rows
  <1>1. ASSUME NEW w \in Writers, Writer(w) PROVE LockInv'
    <2>1. UNCHANGED <<tpc, lock, revocation, local>> /\ (stale' = stale \/ Changed("policy"))
      BY <1>1
      DEF Writer, BeginPublication, BeginFails, Mutate, MutateFails, ReadRevision,
          FinishPublication, PublicationFails, grantVars, txVars
    <2> QED
      BY <1>0, <2>1, ChangedGrows, LockQuiet
  <1>2. CASE RecoverPublication
    BY Zenon, <1>0, <1>2, ChangedGrows, LockQuiet DEF RecoverPublication, grantVars, txVars
  <1>3. CASE RevokeInERP
    <2>1. \A x \in Transactions : tpc[x] \notin {"local", "policy", "locked"}
      BY <1>3 DEF RevokeInERP, Unlocked, LockInv
    <2>2. UNCHANGED <<tpc, lock, local>> /\ Changed("grant")
      BY <1>3 DEF RevokeInERP, txVars
    <2> QED
      BY <1>0, <2>1, <2>2, ChangedGrows DEF LockInv
  <1>4. ASSUME RevokeInPDP \/ \E p \in Replicas : Replica(p) PROVE LockInv'
    <2>1. revocation # "none" \/ UNCHANGED revocation
      BY <1>4 DEF RevokeInPDP, Replica, AcknowledgeRevocation, ApplyRevocation
    <2>2. UNCHANGED <<tpc, lock, local, stale>>
      BY <1>4 DEF RevokeInPDP, Replica, AcknowledgeRevocation, ApplyRevocation, txVars
    <2> QED
      BY <2>1, <2>2 DEF LockInv
  <1>5. CASE ChangeLocalAuthority
    <2>1. \A x \in Transactions : tpc[x] \notin {"policy", "locked"}
      BY <1>5 DEF ChangeLocalAuthority, TouchLocalAuthority, Unlocked, LockInv
    <2>2. UNCHANGED <<tpc, lock, revocation>> /\ Changed("local")
      BY <1>5 DEF ChangeLocalAuthority, TouchLocalAuthority, grantVars, txVars
    <2> QED
      BY <1>0, <2>1, <2>2, ChangedGrows DEF LockInv
  <1>6. ASSUME NEW x \in Transactions, Leave(x) \/ Commit(x) PROVE LockInv'
    <2>1. /\ tpc' = [tpc EXCEPT ![x] = "idle"]
          /\ lock' = [o \in Rows |-> IF lock[o] = x THEN NoOne ELSE lock[o]]
          /\ UNCHANGED <<revocation, local>>
      BY <1>6 DEF Leave, Commit, Ended, Step, Release, grantVars
    <2>2. \A y \in Transactions : y # x /\ tpc[y] # "idle" => stale[y] \subseteq stale'[y]
      BY <1>6 DEF Leave, Commit, TypeOK
    <2> QED
      BY <1>0, <2>1, <2>2 DEF LockInv, TypeOK
  <1>7. ASSUME NEW x \in Transactions, Begin(x) PROVE LockInv'
    <2>1. local /\ UNCHANGED <<lock, revocation, local, stale>>
      BY <1>7 DEF Begin, grantVars
    <2>2. tpc' = [tpc EXCEPT ![x] = "approver"] \/ tpc' = [tpc EXCEPT ![x] = "agent"]
      BY Zenon, <1>7 DEF Begin, Step
    <2> QED
      BY <2>1, <2>2 DEF LockInv, TypeOK
  <1>8. ASSUME NEW x \in Transactions,
               \/ ApproverDecision(x)
               \/ \E p \in Replicas : AgentDecision(x, p)
               \/ EnsureERPPolicyRevision(x)
        PROVE  LockInv'
    <2>1. UNCHANGED <<lock, revocation, local>> /\ (stale' = stale \/ Changed("policy"))
      BY <1>8 DEF ApproverDecision, AgentDecision, EnsureERPPolicyRevision, grantVars
    <2>2. tpc[x] # "idle"
      BY <1>8 DEF ApproverDecision, AgentDecision, EnsureERPPolicyRevision
    <2>3. \/ tpc' = [tpc EXCEPT ![x] = "agent"]
          \/ tpc' = [tpc EXCEPT ![x] = "ensure"]
          \/ tpc' = [tpc EXCEPT ![x] = "grant"]
          \/ tpc' = [tpc EXCEPT ![x] = "denied"]
      BY <1>8 DEF ApproverDecision, AgentDecision, EnsureERPPolicyRevision, Step
    <2>4. \A y \in Transactions : tpc[y] # "idle" => stale[y] \subseteq stale'[y]
      BY <1>0, <2>1, ChangedGrows
    <2> QED
      BY <2>1, <2>2, <2>3, <2>4 DEF LockInv, TypeOK
  <1>9. ASSUME NEW x \in Transactions, LockGrant(x) PROVE LockInv'
    <2>1. /\ tpc[x] = "grant" /\ tpc' = [tpc EXCEPT ![x] = "local"]
          /\ lock["grant"] = NoOne /\ lock' = [lock EXCEPT !["grant"] = x]
          /\ revocation = "none" /\ UNCHANGED <<revocation, local, stale>>
      BY <1>9 DEF LockGrant, CanLock, Unlocked, Lock, Step, grantVars
    <2> QED
      BY <1>0, <2>1 DEF LockInv, TypeOK
  <1>10. ASSUME NEW x \in Transactions, LockLocal(x) PROVE LockInv'
    <2>1. /\ tpc[x] = "local" /\ tpc' = [tpc EXCEPT ![x] = "policy"]
          /\ lock["local"] = NoOne /\ lock' = [lock EXCEPT !["local"] = x]
          /\ "local" \notin stale[x] /\ UNCHANGED <<revocation, local, stale>>
      BY <1>10 DEF LockLocal, CanLock, Unlocked, Lock, Step, grantVars
    <2> QED
      BY <1>0, <2>1 DEF LockInv, TypeOK
  <1>11. ASSUME NEW x \in Transactions, LockPolicy(x) PROVE LockInv'
    <2>1. /\ tpc[x] = "policy" /\ tpc' = [tpc EXCEPT ![x] = "locked"]
          /\ lock["policy"] = NoOne /\ lock' = [lock EXCEPT !["policy"] = x]
          /\ UNCHANGED <<revocation, local, stale>>
      BY <1>11 DEF LockPolicy, CanLock, Unlocked, Lock, Step, grantVars
    <2> QED
      BY <1>0, <2>1 DEF LockInv, TypeOK
  <1>12. CASE UNCHANGED vars
    BY <1>12, LockQuiet DEF vars, grantVars, txVars
  <1> QED
    BY <1>1, <1>2, <1>3, <1>4, <1>5, <1>6, <1>7, <1>8, <1>9, <1>10, <1>11, <1>12
    DEF Next, Transaction

(* _lock_delegation_revocation_fence and PersistRevocation: no protected     *)
(* transaction is about to commit once the tombstone is in the ERP database, *)
(* so none commits after RevokeDelegation returned.                          *)
THEOREM UnrevokedCommits == Spec => []CommitsUnrevoked
  <1>1. Init => TypeOK /\ LockInv
    BY TypeInit, LockInit
  <1>2. TypeOK /\ LockInv /\ [Next]_vars => (TypeOK /\ LockInv)'
    BY TypeStep, LockStep
  <1>3. LockInv => CommitsUnrevoked
    BY DEF LockInv, CommitsUnrevoked
  <1> QED
    BY <1>1, <1>2, <1>3, PTL DEF Spec

(* _lock_current_authority and the epoch triggers: local authority read from *)
(* the snapshot still holds when the transaction is about to commit.         *)
THEOREM LocallyAuthorisedCommits == Spec => []CommitsUnderLocalAuthority
  <1>1. Init => TypeOK /\ LockInv
    BY TypeInit, LockInit
  <1>2. TypeOK /\ LockInv /\ [Next]_vars => (TypeOK /\ LockInv)'
    BY TypeStep, LockStep
  <1>3. LockInv => CommitsUnderLocalAuthority
    BY DEF LockInv, CommitsUnderLocalAuthority
  <1> QED
    BY <1>1, <1>2, <1>3, PTL DEF Spec

-----------------------------------------------------------------------------
(* The decisions.  A transaction past its decisions has at least one, and    *)
(* the one that has locked the policy row holds it ready at their revision.  *)

DecisionInv ==
  \A x \in Transactions :
    /\ tpc[x] \in {"grant", "local", "policy", "locked"} => revs[x] # {}
    /\ tpc[x] = "locked" => row.present /\ row.ready /\ Current(x)

(* Initially every transaction is idle.                                      *)
LEMMA DecisionInit == Init => DecisionInv
  BY DEF Init, DecisionInv

(* A step that changes the row finds it unlocked, or absent.                 *)
LEMMA LockedRowStays ==
  ASSUME TypeOK, LockInv, DecisionInv, [Next]_vars,
         NEW x \in Transactions, tpc[x] = "locked"
  PROVE  UNCHANGED row
  <1> USE NoOneFacts
  <1>1. lock["policy"] = x /\ row.present
    BY DEF LockInv, DecisionInv
  <1>2. ASSUME NEW w \in Writers, Writer(w) PROVE UNCHANGED row
    BY Zenon, <1>1, <1>2
    DEF Writer, BeginPublication, BeginFails, Mutate, MutateFails, ReadRevision,
        FinishPublication, PublicationFails, Unlocked
  <1>3. ASSUME NEW y \in Transactions, EnsureERPPolicyRevision(y) PROVE UNCHANGED row
    BY <1>1, <1>3 DEF EnsureERPPolicyRevision, Bootstrap
  <1>4. ~RecoverPublication
    BY <1>1 DEF RecoverPublication, Unlocked
  <1> QED
    BY <1>2, <1>3, <1>4, RowSteps

(* Every step keeps it.                                                      *)
LEMMA DecisionStep ==
  ASSUME TypeOK, LockInv, DecisionInv, [Next]_vars
  PROVE  DecisionInv'
  <1>1. ASSUME UNCHANGED <<tpc, revs>> PROVE DecisionInv'
    BY <1>1, LockedRowStays DEF DecisionInv, Current
  <1>2. ASSUME NEW x \in Transactions, Leave(x) \/ Commit(x) PROVE DecisionInv'
    <2>1. tpc' = [tpc EXCEPT ![x] = "idle"] /\ revs' = [revs EXCEPT ![x] = {}]
          /\ UNCHANGED row
      BY <1>2 DEF Leave, Commit, Ended, Step
    <2> QED
      BY <2>1 DEF DecisionInv, Current, TypeOK
  <1>3. ASSUME NEW x \in Transactions,
               Begin(x) \/ ApproverDecision(x) \/ (\E p \in Replicas : AgentDecision(x, p))
        PROVE  DecisionInv'
    <2>1. /\ tpc'[x] \in {"approver", "agent", "ensure"}
          /\ \A y \in Transactions : y # x => tpc'[y] = tpc[y] /\ revs'[y] = revs[y]
          /\ UNCHANGED row
      BY <1>3 DEF Begin, ApproverDecision, AgentDecision, Step, TypeOK
    <2> QED
      BY <2>1 DEF DecisionInv, Current
  <1>4. ASSUME NEW x \in Transactions, EnsureERPPolicyRevision(x) PROVE DecisionInv'
    <2>1. /\ tpc'[x] = "denied" \/ (tpc'[x] = "grant" /\ answer[x] \in revs'[x])
          /\ \A y \in Transactions : y # x => tpc'[y] = tpc[y] /\ revs'[y] = revs[y]
      BY <1>4 DEF EnsureERPPolicyRevision, Step, TypeOK
    <2> QED
      BY <2>1, LockedRowStays DEF DecisionInv, Current
  <1>5. ASSUME NEW x \in Transactions, LockGrant(x) \/ LockLocal(x) PROVE DecisionInv'
    <2>1. /\ tpc[x] \in {"grant", "local"} /\ tpc'[x] \in {"local", "policy"}
          /\ \A y \in Transactions : y # x => tpc'[y] = tpc[y]
          /\ UNCHANGED <<row, revs>>
      BY <1>5 DEF LockGrant, LockLocal, Step, TypeOK
    <2> QED
      BY <2>1 DEF DecisionInv, Current
  <1>6. ASSUME NEW x \in Transactions, LockPolicy(x) PROVE DecisionInv'
    <2>1. /\ tpc[x] = "policy" /\ row.present /\ row.ready /\ Current(x)
          /\ \A y \in Transactions : y # x => tpc'[y] = tpc[y]
          /\ UNCHANGED <<row, revs>>
      BY <1>6 DEF LockPolicy, Step, TypeOK
    <2> QED
      BY <2>1 DEF DecisionInv, Current
  <1>7. \/ UNCHANGED <<tpc, revs>>
        \/ \E x \in Transactions : Transaction(x)
    BY DEF Next, Writer, BeginPublication, BeginFails, Mutate, MutateFails, ReadRevision,
       FinishPublication, PublicationFails, Replica, AcknowledgeRevocation,
       ApplyRevocation, RecoverPublication, RevokeInERP, RevokeInPDP,
       ChangeLocalAuthority, txVars, vars
  <1> QED
    BY <1>1, <1>2, <1>3, <1>4, <1>5, <1>6, <1>7 DEF Transaction

(* _lock_current_authority against fencedPolicyMutation: every decision of a *)
(* transaction that is about to commit was made under the revision of the    *)
(* row, and that is the one committed at that moment unless the row is still *)
(* the one a first decision inserted.                                        *)
THEOREM CurrentPolicyCommits == Spec => []CommitsUnderCurrentPolicy
  <1> DEFINE I == TypeOK /\ OwnerInv /\ PolicyInv /\ LockInv /\ DecisionInv
  <1>1. Init => I
    BY TypeInit, OwnerInit, PolicyInit, LockInit, DecisionInit
  <1>2. I /\ [Next]_vars => I'
    BY TypeStep, OwnerStep, PolicyStep, LockStep, DecisionStep
  <1>3. I => CommitsUnderCurrentPolicy
    <2> SUFFICES ASSUME I, NEW x \in Transactions, tpc[x] = "locked"
                 PROVE  revs[x] = {row.revision} /\ (row.revision = rev \/ Bootstrapped)
      BY DEF CommitsUnderCurrentPolicy
    <2>1. PICK d \in revs[x] : TRUE
      BY DEF DecisionInv
    <2>2. row.present /\ row.ready /\ \A e \in revs[x] : e = row.revision
      BY DEF DecisionInv, Current
    <2>3. row.revision = rev \/ Bootstrapped
      BY <2>2 DEF PolicyInv, ReadyRowIsCurrent
    <2> QED
      BY <2>1, <2>2, <2>3
  <1> QED
    BY <1>1, <1>2, <1>3, PTL DEF Spec

=============================================================================

----------------------------- MODULE PolicyFence -----------------------------
(***************************************************************************)
(* The authority fences of one tenant and one delegation grant in the ERP  *)
(* (Odoo) database, and everybody who meets there:                         *)
(*   - policy writers, fencedPolicyMutation in erp_policy_fence.go;        *)
(*   - PDP replicas, whose CheckAccess decisions may bootstrap the policy  *)
(*     row and carry the revision they were evaluated under;               *)
(*   - RevokeDelegation, whose tombstone goes to the ERP database first;   *)
(*   - protected Odoo transactions (purchase_order_final.py), which lock   *)
(*     the three fence rows and keep them until they commit.               *)
(*                                                                         *)
(* Odoo runs REPEATABLE READ: a row that somebody else committed a change  *)
(* to since the transaction's snapshot cannot be locked any more.  stale   *)
(* keeps, per transaction, the rows changed since its snapshot; a row that *)
(* is not stale still has its snapshot value.                              *)
(***************************************************************************)
EXTENDS Naturals, FiniteSets

CONSTANTS
  Writers,       \* control-plane goroutines that change policies
  Replicas,      \* PDP processes
  Transactions,  \* protected Odoo transactions
  Approved,      \* those on the approved route: the approver decides first
  FirstRevision, \* tenant revision when the fence was first configured
  FirstPermits,  \* those of its revisions that allow the protected action
  MaxRevision,   \* bound on the tenant revision
  MaxFaults      \* bound on failed statements of the writers

NoOne == "no one"

ASSUME FenceAssumption ==
  /\ NoOne \notin Writers \cup Transactions
  /\ Approved \subseteq Transactions
  /\ FirstRevision \in Nat \ {0}
  /\ FirstPermits \subseteq 1 .. FirstRevision
  /\ MaxRevision \in Nat
  /\ MaxFaults \in Nat

Rows == {"grant", "local", "policy"}

VARIABLES
  rev,       \* tenants.revision in the PDP database
  permits,   \* revisions whose policies allow the protected action
  row,       \* the tenant's row of pdp_policy_fence_v1; origin, who last wrote
             \* its revision, is no column and no guard reads it
  wpc,       \* where each writer stands
  got,       \* the revision a writer read back
  faults,
  revocation,\* how far RevokeDelegation got: "none", "tombstone" (ERP),
             \* "durable" (PDP database) or "acknowledged" (to the caller)
  grantRow,  \* whether the grant has a row in pdp_delegation_fence_v1
  known,     \* replicas whose revocation cache has the grant
  local,     \* whether Odoo's own users, groups and grant still authorise
  lock,      \* row -> the transaction that locked it
  tpc,       \* where each Odoo transaction stands
  stale,     \* rows changed since its snapshot
  answer,    \* the revision of the decision being returned to it
  revs       \* the revisions of the decisions that allowed it

writerVars == <<wpc, got, faults>>
grantVars == <<revocation, grantRow, known>>
txVars == <<tpc, answer, revs>>
vars == <<rev, permits, row, writerVars, grantVars, local, lock, stale, txVars>>

Absent == [present |-> FALSE, revision |-> 0, ready |-> FALSE, owner |-> NoOne,
           origin |-> "none"]

Init ==
  /\ rev = FirstRevision
  /\ permits = FirstPermits
  /\ row = Absent
  /\ wpc = [w \in Writers |-> "idle"]
  /\ got = [w \in Writers |-> 0]
  /\ faults = 0
  /\ revocation = "none"
  /\ grantRow = FALSE
  /\ known = {}
  /\ local = TRUE
  /\ lock = [o \in Rows |-> NoOne]
  /\ tpc = [x \in Transactions |-> "idle"]
  /\ stale = [x \in Transactions |-> {}]
  /\ answer = [x \in Transactions |-> 0]
  /\ revs = [x \in Transactions |-> {}]

(* What a replica may be serving: any committed revision, or 0 while the     *)
(* tenant is not loaded.  This is what PolicyView promises of PolicySync.    *)
Served == 0 .. rev

Unlocked(o) == lock[o] = NoOne

(* A change of row o commits: every other open snapshot is now behind it.    *)
Changed(o) ==
  stale' = [x \in Transactions |-> IF tpc[x] = "idle" THEN {} ELSE stale[x] \cup {o}]

Fault == faults < MaxFaults /\ faults' = faults + 1

-----------------------------------------------------------------------------
(* fencedPolicyMutation.  Each database statement is a step; an error stops  *)
(* the call and leaves the row as it is, for an operator.                    *)

Goto(w, label) == wpc' = [wpc EXCEPT ![w] = label]

Fails(w) == Goto(w, "idle")

Pending == row.present /\ ~row.ready

Reserved(w) == [row EXCEPT !.present = TRUE, !.ready = FALSE, !.owner = w]

(* One ERP transaction inserts the row if it is absent and takes it out of   *)
(* service; it is rolled back if a publication is already pending.           *)
BeginPublication(w) ==
  /\ wpc[w] = "idle"
  /\ Unlocked("policy")
  /\ IF Pending
     THEN Fails(w) /\ UNCHANGED <<row, stale>>
     ELSE /\ row' = Reserved(w)
          /\ Changed("policy")
          /\ Goto(w, "mutate")
  /\ UNCHANGED <<rev, permits, got, faults, grantVars, local, lock, txVars>>

(* The transaction fails; if only the answer to its commit was lost, the row *)
(* is reserved all the same.                                                 *)
BeginFails(w) ==
  /\ wpc[w] = "idle"
  /\ Fault
  /\ Fails(w)
  /\ \/ UNCHANGED <<row, stale>>
     \/ /\ Unlocked("policy")
        /\ ~Pending
        /\ row' = Reserved(w)
        /\ Changed("policy")
  /\ UNCHANGED <<rev, permits, got, grantVars, local, lock, txVars>>

(* The mutation commits.  It advances the revision unless it only touched a  *)
(* draft.                                                                    *)
Advance(permit) ==
  /\ rev < MaxRevision
  /\ rev' = rev + 1
  /\ permits' = IF permit THEN permits \cup {rev + 1} ELSE permits

Mutate(w) ==
  /\ wpc[w] = "mutate"
  /\ \/ \E permit \in BOOLEAN : Advance(permit)
     \/ UNCHANGED <<rev, permits>>
  /\ Goto(w, "read")
  /\ UNCHANGED <<row, got, faults, grantVars, local, lock, stale, txVars>>

(* The mutation is refused (no such policy), fails, or its commit is lost.   *)
MutateFails(w) ==
  /\ wpc[w] = "mutate"
  /\ Fault
  /\ Fails(w)
  /\ \/ UNCHANGED <<rev, permits>>
     \/ \E permit \in BOOLEAN : Advance(permit)
  /\ UNCHANGED <<row, got, grantVars, local, lock, stale, txVars>>

ReadRevision(w) ==
  /\ wpc[w] = "read"
  /\ got' = [got EXCEPT ![w] = rev]
  /\ Goto(w, "publish")
  /\ UNCHANGED <<rev, permits, row, faults, grantVars, local, lock, stale,
                 txVars>>

(* Mutant of Published: the flag is not raised again.                        *)
PublishedNotReady(w) ==
  [present |-> TRUE, revision |-> got[w], ready |-> FALSE, owner |-> NoOne,
   origin |-> "publication"]

Published(w) ==
  [present |-> TRUE, revision |-> got[w], ready |-> TRUE, owner |-> NoOne,
   origin |-> "publication"]

Owns(w) == Pending /\ row.owner = w

FinishPublication(w) ==
  /\ wpc[w] = "publish"
  /\ Unlocked("policy")
  /\ IF Owns(w)
     THEN /\ row' = Published(w)
          /\ Changed("policy")
          /\ Goto(w, "idle")
     ELSE Fails(w) /\ UNCHANGED <<row, stale>>
  /\ got' = [got EXCEPT ![w] = 0]
  /\ UNCHANGED <<rev, permits, faults, grantVars, local, lock, txVars>>

(* Reading back or publishing fails after the mutation has committed.  The   *)
(* answer to the last UPDATE may be lost too.                                *)
PublicationFails(w) ==
  /\ wpc[w] \in {"read", "publish"}
  /\ Fault
  /\ Fails(w)
  /\ got' = [got EXCEPT ![w] = 0]
  /\ \/ UNCHANGED <<row, stale>>
     \/ /\ wpc[w] = "publish"
        /\ Unlocked("policy")
        /\ Owns(w)
        /\ row' = Published(w)
        /\ Changed("policy")
  /\ UNCHANGED <<rev, permits, grantVars, local, lock, txVars>>

(* The administrator's procedure for a pending row: with every writer        *)
(* drained, install the committed revision.                                  *)
RecoverPublication ==
  /\ \A w \in Writers : wpc[w] = "idle"
  /\ Pending
  /\ Unlocked("policy")
  /\ row' = [present |-> TRUE, revision |-> rev, ready |-> TRUE, owner |-> NoOne,
             origin |-> "publication"]
  /\ Changed("policy")
  /\ UNCHANGED <<rev, permits, writerVars, grantVars, local, lock, txVars>>

-----------------------------------------------------------------------------
(* RevokeDelegation: the ERP tombstone, the PDP row, then the handling       *)
(* replica's cache and the answer.  A failure in between is a later retry.   *)
RevokeInERP ==
  /\ revocation = "none"
  /\ Unlocked("grant")
  /\ revocation' = "tombstone"
  /\ grantRow' = TRUE
  /\ Changed("grant")
  /\ UNCHANGED <<rev, permits, row, writerVars, known, local, lock, txVars>>

RevokeInPDP ==
  /\ revocation = "tombstone"
  /\ revocation' = "durable"
  /\ UNCHANGED <<rev, permits, row, writerVars, grantRow, known, local, lock,
                 stale, txVars>>

AcknowledgeRevocation(p) ==
  /\ revocation = "durable"
  /\ revocation' = "acknowledged"
  /\ known' = known \cup {p}
  /\ UNCHANGED <<rev, permits, row, writerVars, grantRow, local, lock, stale,
                 txVars>>

(* Another replica learns of it from the revocation stream.                  *)
ApplyRevocation(p) ==
  /\ revocation \in {"durable", "acknowledged"}
  /\ p \notin known
  /\ known' = known \cup {p}
  /\ UNCHANGED <<rev, permits, row, writerVars, revocation, grantRow, local,
                 lock, stale, txVars>>

(* The statement trigger waits for the epoch row and advances it.            *)
TouchLocalAuthority == Unlocked("local") /\ Changed("local")

(* A user, group, company or grant row is written in Odoo.                   *)
ChangeLocalAuthority ==
  /\ TouchLocalAuthority
  /\ local' \in BOOLEAN
  /\ UNCHANGED <<rev, permits, row, writerVars, grantVars, lock, txVars>>

-----------------------------------------------------------------------------
(* A protected Odoo transaction: _pdp_confirm_one on the direct route and    *)
(* _execute_approved_confirmation on the approved one.                       *)

Step(x, label) == tpc' = [tpc EXCEPT ![x] = label]

(* Commit and rollback release every row lock.                               *)
Release(x) == lock' = [o \in Rows |-> IF lock[o] = x THEN NoOne ELSE lock[o]]

Ended(x) ==
  /\ Step(x, "idle")
  /\ answer' = [answer EXCEPT ![x] = 0]
  /\ revs' = [revs EXCEPT ![x] = {}]
  /\ Release(x)

(* An exception, a refusal, a lost worker or a terminal approval state ends  *)
(* the transaction without the protected effect.                             *)
Leave(x) ==
  /\ tpc[x] # "idle"
  /\ Ended(x)
  /\ stale' = [stale EXCEPT ![x] = {}]
  /\ UNCHANGED <<rev, permits, row, writerVars, grantVars, local>>

(* The snapshot is taken; users, groups and grant are read from it and must  *)
(* authorise the command.                                                    *)
Begin(x) ==
  /\ tpc[x] = "idle"
  /\ local
  /\ Step(x, IF x \in Approved THEN "approver" ELSE "agent")
  /\ UNCHANGED <<rev, permits, row, writerVars, grantVars, local, lock, stale,
                 answer, revs>>

(* The approver's decision names no fence: no revocation check, no bootstrap. *)
ApproverDecision(x) ==
  /\ tpc[x] = "approver"
  /\ \E n \in Served \cap permits : revs' = [revs EXCEPT ![x] = @ \cup {n}]
  /\ Step(x, "agent")
  /\ UNCHANGED <<rev, permits, row, writerVars, grantVars, local, lock, stale,
                 answer>>

(* CheckAccess for the agent: refused if this replica knows the revocation,  *)
(* else evaluated under whatever the replica serves.                         *)
AgentDecision(x, p) ==
  /\ tpc[x] = "agent"
  /\ p \notin known
  /\ \E n \in Served : answer' = [answer EXCEPT ![x] = n]
  /\ Step(x, "ensure")
  /\ UNCHANGED <<rev, permits, row, writerVars, grantVars, local, lock, stale,
                 revs>>

(* Mutant of Bootstrap: ON CONFLICT DO UPDATE.                               *)
BootstrapAlways == TRUE

Bootstrap == ~row.present

(* EnsureERPPolicyRevision, also after a DENY, then the answer to Odoo.      *)
EnsureERPPolicyRevision(x) ==
  /\ tpc[x] = "ensure"
  /\ IF Bootstrap
     THEN /\ row' = [row EXCEPT !.present = TRUE, !.ready = TRUE,
                                !.revision = answer[x], !.origin = "decision"]
          /\ Changed("policy")
     ELSE UNCHANGED <<row, stale>>
  /\ IF answer[x] \in permits
     THEN Step(x, "grant") /\ revs' = [revs EXCEPT ![x] = @ \cup {answer[x]}]
     ELSE Step(x, "denied") /\ UNCHANGED revs
  /\ answer' = [answer EXCEPT ![x] = 0]
  /\ UNCHANGED <<rev, permits, writerVars, grantVars, local, lock>>

(* Mutant of CanLock: the serialization failure is swallowed.                *)
LockIgnoringSnapshot(x, o) == Unlocked(o)

(* FOR UPDATE under REPEATABLE READ: waits for the holder, and fails if the  *)
(* row has changed since the snapshot.                                       *)
CanLock(x, o) == Unlocked(o) /\ o \notin stale[x]

Lock(x, o) == lock' = [lock EXCEPT ![o] = x]

(* Mutant of LockGrant: it continues with the pre-revocation snapshot.       *)
LockGrantFromSnapshot(x) ==
  /\ tpc[x] = "grant"
  /\ Unlocked("grant")
  /\ revocation = "none" \/ "grant" \in stale[x]
  /\ Lock(x, "grant")
  /\ Step(x, "local")
  /\ UNCHANGED <<rev, permits, row, writerVars, grantVars, local, stale, answer,
                 revs>>

LockGrant(x) ==
  /\ tpc[x] = "grant"
  /\ CanLock(x, "grant")
  /\ revocation = "none"
  /\ Lock(x, "grant")
  /\ Step(x, "local")
  /\ UNCHANGED <<rev, permits, row, writerVars, grantVars, local, stale, answer,
                 revs>>

LockLocal(x) ==
  /\ tpc[x] = "local"
  /\ CanLock(x, "local")
  /\ Lock(x, "local")
  /\ Step(x, "policy")
  /\ UNCHANGED <<rev, permits, row, writerVars, grantVars, local, stale, answer,
                 revs>>

(* Mutant of Current: one matching revision is enough.                       *)
SomeCurrent(x) == row.revision \in revs[x]

Current(x) == \A d \in revs[x] : d = row.revision

LockPolicy(x) ==
  /\ tpc[x] = "policy"
  /\ CanLock(x, "policy")
  /\ row.present /\ row.ready
  /\ Current(x)
  /\ Lock(x, "policy")
  /\ Step(x, "locked")
  /\ UNCHANGED <<rev, permits, row, writerVars, grantVars, local, stale, answer,
                 revs>>

(* The purchase order is confirmed.  The first commit also inserts the       *)
(* grant's row, which no open snapshot can see.                              *)
Commit(x) ==
  /\ tpc[x] = "locked"
  /\ Ended(x)
  /\ grantRow' = TRUE
  /\ stale' = [y \in Transactions |->
                 IF y = x \/ tpc[y] = "idle" THEN {}
                 ELSE IF grantRow THEN stale[y] ELSE stale[y] \cup {"grant"}]
  /\ UNCHANGED <<rev, permits, row, writerVars, revocation, known, local>>

-----------------------------------------------------------------------------
Writer(w) ==
  \/ BeginPublication(w)
  \/ BeginFails(w)
  \/ Mutate(w)
  \/ MutateFails(w)
  \/ ReadRevision(w)
  \/ FinishPublication(w)
  \/ PublicationFails(w)

Replica(p) ==
  \/ AcknowledgeRevocation(p)
  \/ ApplyRevocation(p)

Transaction(x) ==
  \/ Begin(x)
  \/ ApproverDecision(x)
  \/ \E p \in Replicas : AgentDecision(x, p)
  \/ EnsureERPPolicyRevision(x)
  \/ LockGrant(x)
  \/ LockLocal(x)
  \/ LockPolicy(x)
  \/ Commit(x)
  \/ Leave(x)

Next ==
  \/ \E w \in Writers : Writer(w)
  \/ \E p \in Replicas : Replica(p)
  \/ \E x \in Transactions : Transaction(x)
  \/ RecoverPublication
  \/ RevokeInERP
  \/ RevokeInPDP
  \/ ChangeLocalAuthority

Spec == Init /\ [][Next]_vars

(* Fairness: a started call of a writer goes on to its next statement, and   *)
(* an open Odoo transaction goes on or ends (statement and RPC timeouts).    *)
(* A row lock is granted to a waiter that keeps waiting, hence SF.  Starting *)
(* calls, faults, revocations and recovery are not promised.                 *)
Fairness ==
  /\ \A w \in Writers : /\ WF_vars(Mutate(w) \/ ReadRevision(w))
                        /\ SF_vars(FinishPublication(w))
  /\ \A x \in Transactions : WF_vars(Leave(x) \/ Commit(x))

FairSpec == Spec /\ Fairness

-----------------------------------------------------------------------------
(* Type invariant.                                                           *)
TypeOK ==
  /\ rev \in Nat \ {0}
  /\ permits \subseteq Served \ {0}
  /\ row \in [present : BOOLEAN, revision : Served, ready : BOOLEAN,
              owner : Writers \cup {NoOne},
              origin : {"none", "decision", "publication"}]
  /\ wpc \in [Writers -> {"idle", "mutate", "read", "publish"}]
  /\ got \in [Writers -> Served]
  /\ faults \in Nat
  /\ revocation \in {"none", "tombstone", "durable", "acknowledged"}
  /\ grantRow \in BOOLEAN
  /\ known \subseteq Replicas
  /\ local \in BOOLEAN
  /\ lock \in [Rows -> Transactions \cup {NoOne}]
  /\ tpc \in [Transactions -> {"idle", "approver", "agent", "ensure", "denied",
                               "grant", "local", "policy", "locked"}]
  /\ stale \in [Transactions -> SUBSET Rows]
  /\ answer \in [Transactions -> Served]
  /\ revs \in [Transactions -> SUBSET permits]

(* EnsureERPPolicyRevision inserts an absent row with the revision of the    *)
(* decision it follows, which a lagging replica evaluated under an older one *)
(* (or, the tenant not loaded, under none).  Such a row stands until the     *)
(* first publication.                                                        *)
Bootstrapped == row.origin = "decision" /\ rev = FirstRevision

(* A ready row names the committed revision: no writer can be between its    *)
(* mutation and its publication, and no decision overwrites a row            *)
(* (erp_policy_fence.go).  The exception is the row of a first decision,     *)
(* while no mutation has committed since the fence was configured.           *)
ReadyRowIsCurrent ==
  row.present /\ row.ready => row.revision = rev \/ Bootstrapped

(* The pending row excludes a second writer: never two writers between       *)
(* reserving the row and publishing it, whichever of them failed or crashed. *)
PublicationsAreExclusive ==
  \A v, w \in Writers : wpc[v] # "idle" /\ wpc[w] # "idle" => v = w

(* What a transaction that is about to commit relies on.  All of its         *)
(* decisions were made under one revision, that of the row, and it is the    *)
(* one committed at that very moment unless a decision bootstrapped the row. *)
CommitsUnderCurrentPolicy ==
  \A x \in Transactions :
    tpc[x] = "locked" => /\ revs[x] = {row.revision}
                         /\ row.revision = rev \/ Bootstrapped

(* The grant is not revoked in the ERP database, so RevokeDelegation has not *)
(* been acknowledged either: nothing commits after a revocation returned.    *)
CommitsUnrevoked ==
  \A x \in Transactions : tpc[x] = "locked" => revocation = "none"

(* Odoo's own users, groups, companies and grant still authorise it, though  *)
(* they were read from a snapshot taken before the PDP was asked.            *)
CommitsUnderLocalAuthority ==
  \A x \in Transactions : tpc[x] = "locked" => local

(* A pending publication reopens the row, however many transactions come to  *)
(* lock it, or else the call that reserved the row has ended with an error.  *)
FenceReopens ==
  Pending ~> (~Pending \/ \E w \in Writers : row.owner = w /\ wpc[w] = "idle")
-----------------------------------------------------------------------------
(* A statement of the repository that the code does not keep: "stale         *)
(* decision revisions [...] fail closed" (pdp_authorizer/README.md), so that *)
(* whatever commits was decided under the committed revision.                *)
StaleRevisionsFailClosed ==
  \A x \in Transactions : tpc[x] = "locked" => revs[x] = {rev}

=============================================================================

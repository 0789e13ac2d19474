------------------------------- MODULE Approval -------------------------------
(***************************************************************************)
(* The life of one delegated purchase order in the Odoo addon: the command *)
(* ledger (pdp.authorization.attempt), the human approval                  *)
(* (pdp.approval.request) and the order itself, under concurrent           *)
(* button_confirm and action_issue_capability requests, edits, grant       *)
(* changes and the passing of time.                                        *)
(*                                                                         *)
(* A session is one Odoo request and one REPEATABLE READ transaction: it   *)
(* works on view, the database at its snapshot with its own writes, and    *)
(* can lock a row only if nobody committed a change to it since            *)
(* (stale).  PDP answers are arbitrary: the replica that gives them may    *)
(* not know the revocation yet.  The policy revisions they carry are in    *)
(* PolicyFence.                                                            *)
(***************************************************************************)
EXTENDS Naturals, Sequences, FiniteSets

CONSTANTS
  Sessions,    \* concurrent Odoo requests
  GrantUntil,  \* delegation_grant.valid_until
  TTL,         \* lifetime of an approval capability
  CoreAllows,  \* what Odoo's _approval_allowed() may answer
  MaxTime,     \* bound on the clock
  MaxVersion   \* no edit of an order that was written this often

NoOne == "no one"

ASSUME ApprovalAssumption ==
  /\ NoOne \notin Sessions
  /\ {GrantUntil, TTL, MaxTime, MaxVersion} \subseteq Nat
  /\ CoreAllows \in (SUBSET BOOLEAN) \ {{}}

Rows == {"order", "approval", "attempt", "grant", "fence", "epoch"}
FinalStates == {"purchase"}
TerminalStates == {"invalidated", "expired", "consumed"}

VARIABLES
  clock,
  db,      \* the committed rows: order, lines, attempt, approval, grant and
           \* fence, whether the grant's revocation tombstone is set
  lock,    \* row -> the session that locked it
  tx,      \* what each session is doing
  effects  \* history: the final transitions that were committed

vars == <<clock, db, lock, tx, effects>>

NoIntent == [state |-> "none", version |-> 0, lines |-> 0]

NoApproval == [state |-> "none", intent |-> NoIntent, expires |-> 0]

NewOrder ==
  [order    |-> [state |-> "draft", version |-> 0, nonce |-> FALSE],
   lines    |-> 0,
   attempt  |-> "none",
   approval |-> NoApproval,
   grant    |-> "active",
   fence    |-> FALSE]

Idle ==
  [at |-> "idle", view |-> NewOrder, seen |-> NoIntent, stale |-> {}, wrote |-> {}]

\* The canonical business intent of an order: everything material about it,
\* its state and its write version.
build_purchase_order_intent(v) ==
  [state |-> v.order.state, version |-> v.order.version, lines |-> v.lines]

Init ==
  /\ clock = 0
  /\ db = NewOrder
  /\ lock = [r \in Rows |-> NoOne]
  /\ tx = [s \in Sessions |-> Idle]
  /\ effects = <<>>

-----------------------------------------------------------------------------
(* PostgreSQL: snapshots, row locks, commit and rollback.                  *)

CanLock(s, rows) ==
  /\ \A r \in rows : lock[r] \in {NoOne, s}
  /\ rows \cap tx[s].stale = {}

Locked(s, rows) == lock' = [r \in Rows |-> IF r \in rows THEN s ELSE lock[r]]

Released(s) == lock' = [r \in Rows |-> IF lock[r] = s THEN NoOne ELSE lock[r]]

Unlocked(rows) == \A r \in rows : lock[r] = NoOne

\* tx with the rows that somebody else's commit makes stale.
Outdated(rows) ==
  [s \in Sessions |->
     IF tx[s].at = "idle" THEN tx[s] ELSE [tx[s] EXCEPT !.stale = @ \cup rows]]

\* A short transaction of somebody else, from its snapshot to its commit.
Commits(rows, new) ==
  /\ Unlocked(rows)
  /\ db' = new
  /\ tx' = Outdated(rows)
  /\ UNCHANGED <<clock, lock, effects>>

Begin(s) ==
  /\ tx[s].at = "idle"
  /\ \E request \in {"confirm", "issue"} :
       tx' = [tx EXCEPT ![s] = [at |-> request, view |-> db,
                                seen |-> build_purchase_order_intent(db),
                                stale |-> {}, wrote |-> {}]]
  /\ UNCHANGED <<clock, db, lock, effects>>

\* The request goes on at label, having written rows of its view.
Continue(s, label, view, rows) ==
  /\ tx' = [tx EXCEPT ![s] = [at |-> label, view |-> view, seen |-> @.seen,
                              stale |-> @.stale, wrote |-> @.wrote \cup rows]]
  /\ UNCHANGED <<clock, db, effects>>

\* Every failure ends here: an exception of the code, a serialization failure,
\* a PDP outage, a worker that dies.  Nothing of the transaction remains.
Rollback(s) ==
  /\ tx[s].at # "idle"
  /\ tx' = [tx EXCEPT ![s] = Idle]
  /\ Released(s)
  /\ UNCHANGED <<clock, db, effects>>

-----------------------------------------------------------------------------
(* button_confirm, up to the first PDP decision.                           *)

\* A write of the order row: one new write_date per transaction.
Written(v, state) ==
  [v EXCEPT !.order = [state |-> state, version |-> db.order.version + 1, nonce |-> @.nonce]]

with_nonce(v) ==
  IF v.order.nonce THEN v ELSE [Written(v, v.order.state) EXCEPT !.order.nonce = TRUE]

\* Mutant: an order that was reset to draft is a new command.
NewAfterReset(v) ==
  \/ v.attempt = "none"
  \/ v.attempt = "executed" /\ v.order.state = "draft"

NewAttempt(v) == v.attempt = "none"

\* _delegated_request: the order row is locked, then the ledger decides
\* whether this is a new command, a retry, or a retry after approval.
delegated_request(s) ==
  LET v == with_nonce(tx[s].view)
      wrote == IF v = tx[s].view THEN {} ELSE {"order"}
  IN /\ tx[s].at = "confirm"
     /\ CanLock(s, {"order"})
     /\ Locked(s, {"order"})
     /\ \/ /\ NewAttempt(v)
           /\ v.grant = "active"
           /\ Continue(s, "decide", [v EXCEPT !.attempt = "pending"],
                       wrote \cup {"attempt"})
        \/ /\ v.attempt = "executed"
           /\ Continue(s, "commit", v, wrote)
        \/ /\ v.attempt = "approval_required"
           /\ v.approval.state = "pending"
           /\ Continue(s, "commit", v, wrote)
        \/ /\ v.attempt = "approval_required"
           /\ v.approval.state = "approved"
           /\ Continue(s, "final", v, wrote)

\* The PDP allows; a denial or an unsupported obligation is a Rollback.
Allowed(s) ==
  /\ tx[s].at = "decide"
  /\ Continue(s, "fence", tx[s].view, {})
  /\ UNCHANGED lock

\* create_pending: the intent is that of the order after its transition.
create_pending(v) ==
  [v EXCEPT !.approval = [state |-> "pending", intent |-> build_purchase_order_intent(v),
                          expires |-> 0],
            !.attempt = "approval_required"]

\* The PDP allows with REQUIRE_HUMAN_APPROVAL.
RequireApproval(s) ==
  /\ tx[s].at = "decide"
  /\ Continue(s, "commit", create_pending(Written(tx[s].view, "to approve")),
              {"order", "approval", "attempt"})
  /\ UNCHANGED lock

-----------------------------------------------------------------------------
(* button_confirm of an approved order.                                    *)

IntentChanged(v) ==
  \/ build_purchase_order_intent(v) # v.approval.intent
  \/ v.order.state # "to approve"

Settled(v, state) == [v EXCEPT !.approval.state = state]

\* _set_terminal: of the request only this write remains to be committed.
set_terminal(s, state) == Continue(s, "commit", Settled(tx[s].view, state), {"approval"})

\* _prepare_final_intent and the local half of _revalidate_approved_capability.
prepare_final_intent(s) ==
  LET v == tx[s].view
  IN /\ tx[s].at = "final"
     /\ CanLock(s, {"order", "approval", "attempt"})
     /\ Locked(s, {"order", "approval", "attempt"})
     /\ \/ /\ IntentChanged(v)
           /\ set_terminal(s, "invalidated")
        \/ /\ ~IntentChanged(v)
           /\ v.approval.expires <= clock
           /\ set_terminal(s, "expired")
        \/ /\ ~IntentChanged(v)
           /\ v.approval.expires > clock
           /\ v.grant # "active" \/ GrantUntil <= clock
           /\ set_terminal(s, "invalidated")
        \/ /\ ~IntentChanged(v)
           /\ v.approval.expires > clock
           /\ v.grant = "active"
           /\ GrantUntil > clock
           /\ Continue(s, "verify", v, {})

\* _verify_current_approval_authority, then the agent's own CheckAccess.
Verified(s) ==
  /\ tx[s].at = "verify"
  /\ Continue(s, "fence", tx[s].view, {})
  /\ UNCHANGED lock

ApproverRefused(s) ==
  /\ tx[s].at = "verify"
  /\ set_terminal(s, "invalidated")
  /\ UNCHANGED lock

-----------------------------------------------------------------------------
(* The fences, the effect and the commit, common to both routes.           *)

OnApprovedRoute(v) == v.attempt = "approval_required"

lock_delegation_revocation_fence(s) ==
  LET v == tx[s].view
  IN /\ tx[s].at = "fence"
     /\ CanLock(s, {"fence"})
     /\ Locked(s, {"fence"})
     /\ \/ /\ ~v.fence
           /\ Continue(s, "epoch", v, {})
        \/ /\ v.fence
           /\ OnApprovedRoute(v)
           /\ set_terminal(s, "invalidated")

\* Odoo's own button_confirm: an order that is not a draft is skipped, and
\* double validation may stop it at "to approve".
button_confirm(v, allowed) ==
  Written(v, CASE v.order.state # "draft" -> v.order.state
               [] v.order.state = "draft" /\ allowed -> "purchase"
               [] v.order.state = "draft" /\ ~allowed -> "to approve")

\* Mutant: the capability is consumed and the command is not completed.
ConsumeOnly(v) == [Written(v, "purchase") EXCEPT !.approval.state = "consumed"]

\* The end of _execute_approved_confirmation.
approved_confirmation(v) ==
  [Settled(Written(v, "purchase"), "consumed") EXCEPT !.attempt = "executed"]

\* _lock_current_authority, then the business effect in the session's view.
Execute(s) ==
  LET v == tx[s].view
  IN /\ tx[s].at = "epoch"
     /\ CanLock(s, {"epoch"})
     /\ Locked(s, {"epoch"})
     /\ \/ /\ ~OnApprovedRoute(v)
           /\ \E allowed \in CoreAllows :
                Continue(s, "commit", [button_confirm(v, allowed) EXCEPT !.attempt = "executed"],
                         {"order", "attempt"})
        \/ /\ OnApprovedRoute(v)
           /\ TRUE \in CoreAllows
           /\ Continue(s, "commit", approved_confirmation(v), {"order", "approval", "attempt"})

\* Mutant: the deadline is only checked before the fences.
NoDeadline(s) == TRUE

\* pdp_check_execution_deadline_v1, the deferred trigger on the ledger.
check_execution_deadline(s) ==
  LET v == tx[s].view
  IN "attempt" \in tx[s].wrote /\ v.attempt = "executed" =>
       /\ GrantUntil > clock
       /\ v.grant = "active"
       /\ \/ v.approval.state = "none"
          \/ v.approval.state = "consumed" /\ v.approval.expires > clock

Reaches(s) ==
  /\ "order" \in tx[s].wrote
  /\ tx[s].view.order.state \in FinalStates
  /\ tx[s].seen.state \notin FinalStates

Commit(s) ==
  LET v == tx[s].view
      wrote == tx[s].wrote
  IN /\ tx[s].at = "commit"
     /\ check_execution_deadline(s)
     /\ db' = [r \in DOMAIN db |-> IF r \in wrote THEN v[r] ELSE db[r]]
     /\ tx' = [Outdated(wrote) EXCEPT ![s] = Idle]
     /\ Released(s)
     /\ effects' = IF Reaches(s)
                   THEN Append(effects, [approved |-> v.approval, seen |-> tx[s].seen,
                                         found |-> build_purchase_order_intent(db)])
                   ELSE effects
     /\ UNCHANGED clock

-----------------------------------------------------------------------------
(* action_issue_capability.                                                *)

LockOrder(s) ==
  /\ tx[s].at = "issue"
  /\ tx[s].view.approval.state # "none"
  /\ CanLock(s, {"order"})
  /\ Locked(s, {"order"})
  /\ Continue(s, "approval", tx[s].view, {})

\* Mutant: whatever the state of the approval.
AnyApproval(v) == v.order.state = "to approve"

\* _validated_pending_intent: only what was stored is looked at.
validated_pending_intent(v) == v.approval.state = "pending" /\ v.order.state = "to approve"

\* An approved request is only verified again; a pending one goes through
\* check_current_approver, whose checks of the person may also fail.
LockApproval(s) ==
  LET v == tx[s].view
  IN /\ tx[s].at = "approval"
     /\ CanLock(s, {"approval"})
     /\ Locked(s, {"approval"})
     /\ \/ /\ v.approval.state = "approved"
           /\ Continue(s, "commit", v, {})
        \/ /\ validated_pending_intent(v)
           /\ Continue(s, "capability", v, {})

\* ApprovalCapabilityManager.Issue never outlives the delegation.
Expiry == IF GrantUntil < clock + TTL THEN GrantUntil ELSE clock + TTL

IssueCapability(s) ==
  LET v == tx[s].view
  IN /\ tx[s].at = "capability"
     /\ v.grant = "active"
     /\ Expiry > clock
     /\ Continue(s, "commit",
                 [v EXCEPT !.approval = [state |-> "approved", intent |-> @.intent,
                                         expires |-> Expiry]],
                 {"approval"})
     /\ UNCHANGED lock

-----------------------------------------------------------------------------
(* Everybody else.                                                         *)

\* _touch_delegated_parents and the line's own change.
LineWritten(v) == [Written(v, v.order.state) EXCEPT !.lines = @ + 1]

\* Mutant: only the line rows are locked.
NoParent == {}

TouchedParents == {"order"}

EditLines ==
  /\ db.order.version < MaxVersion
  /\ Commits(TouchedParents, LineWritten(db))

\* Any other write of the order.  The transition guard keeps everybody out of
\* the final states.
write(state) ==
  /\ db.order.version < MaxVersion
  /\ Commits({"order"}, Written(db, state))

\* action_revoke: the PDP commits the tombstone, then the grant changes.
RevokeDelegation == ~db.fence /\ Commits({"fence"}, [db EXCEPT !.fence = TRUE])

\* A write of the grant also advances the local-authority epoch.
action_revoke ==
  /\ db.fence
  /\ db.grant = "active"
  /\ Commits({"grant", "epoch"}, [db EXCEPT !.grant = "revoked"])

action_activate ==
  /\ db.grant = "revoked"
  /\ Commits({"grant", "epoch"}, [db EXCEPT !.grant = "active"])

Tick ==
  /\ clock < MaxTime
  /\ clock' = clock + 1
  /\ UNCHANGED <<db, lock, tx, effects>>

-----------------------------------------------------------------------------
Session(s) ==
  \/ Begin(s)
  \/ delegated_request(s)
  \/ Allowed(s)
  \/ RequireApproval(s)
  \/ prepare_final_intent(s)
  \/ Verified(s)
  \/ ApproverRefused(s)
  \/ lock_delegation_revocation_fence(s)
  \/ Execute(s)
  \/ LockOrder(s)
  \/ LockApproval(s)
  \/ IssueCapability(s)
  \/ Commit(s)
  \/ Rollback(s)

Next ==
  \/ \E s \in Sessions : Session(s)
  \/ EditLines
  \/ \E state \in {"draft", "to approve", "cancel"} : write(state)
  \/ RevokeDelegation
  \/ action_revoke
  \/ action_activate
  \/ Tick

Spec == Init /\ [][Next]_vars

-----------------------------------------------------------------------------
(* Properties.                                                             *)

\* However often an order is confirmed, retried, cancelled, reset to draft and
\* confirmed again, its command has at most one business effect: the nonce and
\* the ledger of purchase_order.py stay with the order.
OneEffect == Len(effects) <= 1

\* What reaches a final state is what was decided on: at the commit, the order
\* and its lines are as the transaction first saw them, and on the approved
\* route as the human approved them (_prepare_final_intent).
EffectMatchesIntent ==
  \A i \in 1 .. Len(effects) :
    LET e == effects[i]
    IN /\ e.found = e.seen
       /\ e.approved.state # "none" => e.approved.intent = e.found

\* The ledger, the approval and the effect are committed together: a
\* capability is consumed exactly when its command was executed and took
\* effect, and no "pending" ledger row outlives its transaction.
LedgerAgrees ==
  /\ db.attempt # "pending"
  /\ db.attempt = "none" <=> ~db.order.nonce
  /\ db.attempt = "none" => db.approval.state = "none"
  /\ db.attempt = "approval_required" =>
       db.approval.state \notin {"none", "consumed"}
  /\ db.attempt = "executed" => db.approval.state \in {"none", "consumed"}
  /\ db.approval.state = "consumed" => effects # <<>>

\* An effect is only committed while the grant is active, unexpired and not
\* revoked, and while the approval has not expired: the fence locks and
\* the deferred deadline of authorization_attempt.py.
EffectsUnderAuthority ==
  [][effects' # effects =>
       /\ ~db.fence
       /\ db.grant = "active"
       /\ clock < GrantUntil
       /\ db.approval.state # "none" => clock < db.approval.expires]_vars

\* An approval only moves forward, from pending to approved to one terminal
\* state, with the intent it was created with; a retry of
\* action_issue_capability neither renews nor revives it.
ApprovalMovesForward ==
  [][LET a == db.approval
         b == db'.approval
     IN a # b =>
          \/ a.state = "none" /\ b.state = "pending"
          \/ /\ a.state = "pending"
             /\ b.state = "approved"
             /\ b.intent = a.intent
          \/ /\ a.state = "approved"
             /\ b \in [state : TerminalStates, intent : {a.intent}, expires : {a.expires}]]_vars

=============================================================================

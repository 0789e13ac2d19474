--------------------------- MODULE ApprovalProofs ---------------------------
(***************************************************************************)
(* The properties of Approval for any number of concurrent requests, any   *)
(* deadlines and any lifetime of a capability.  The order row is the mutex *)
(* of the whole command: whoever holds any row holds it, its own snapshot  *)
(* of the order and of the ledger is then the committed one, and stays so. *)
(***************************************************************************)
EXTENDS Approval, TLAPS

Labels == {"idle", "confirm", "issue", "decide", "final", "verify", "fence", "epoch",
           "approval", "capability", "commit"}
OrderStates == {"none", "draft", "to approve", "cancel", "purchase"}
Orders == [state : OrderStates, version : Nat, nonce : BOOLEAN]
Intents == [state : OrderStates, version : Nat, lines : Nat]
ApprovalStates == {"none", "pending", "approved"} \cup TerminalStates
Approvals == [state : ApprovalStates, intent : Intents, expires : Nat]
Views == [order : Orders, lines : Nat,
          attempt : {"none", "pending", "approval_required", "executed"},
          approval : Approvals, grant : {"active", "revoked"}, fence : BOOLEAN]
Txs == [at : Labels, view : Views, seen : Intents, stale : SUBSET Rows, wrote : SUBSET Rows]
Effects == [approved : Approvals, seen : Intents, found : Intents]

Types ==
  /\ clock \in Nat
  /\ db \in Views
  /\ lock \in [Rows -> Sessions \cup {NoOne}]
  /\ tx \in [Sessions -> Txs]
  /\ effects \in Seq(Effects)

(* The ledger, the nonce and the approval of committed rows.                *)
Agrees(v) ==
  /\ v.attempt # "pending"
  /\ v.attempt = "none" <=> ~v.order.nonce
  /\ v.attempt = "none" => v.approval.state = "none"
  /\ v.attempt = "approval_required" => v.approval.state \notin {"none", "consumed"}
  /\ v.attempt = "executed" => v.approval.state \in {"none", "consumed"}

(* Before the order row is locked.                                          *)
Outside == {"idle", "confirm", "issue"}

(* A row that a session holds has not changed since its snapshot.           *)
Owned(s) == \A r \in Rows : lock[r] = s => tx[s].at \notin Outside /\ r \notin tx[s].stale

Executing(t) == t.at = "commit" /\ "attempt" \in t.wrote /\ t.view.attempt = "executed"

(* The rows a session holds, by its place.                                  *)
Held(s) ==
  LET t == tx[s]
  IN /\ t.at \notin Outside => lock["order"] = s
     /\ t.at = "epoch" \/ Executing(t) => lock["fence"] = s /\ ~t.view.fence
     /\ Executing(t) => lock["epoch"] = s

(* What is neither stale nor written is as committed.  A commit of the      *)
(* ledger or of a line also writes the order, one of the grant the epoch.   *)
Fresh(t) ==
  /\ "order" \notin t.stale => /\ t.view.lines = db.lines
                               /\ t.seen = build_purchase_order_intent(db)
                               /\ "order" \notin t.wrote => t.view.order = db.order
                               /\ "attempt" \notin t.wrote => t.view.attempt = db.attempt
  /\ "approval" \notin t.stale \cup t.wrote => t.view.approval = db.approval
  /\ "fence" \notin t.stale => t.view.fence = db.fence
  /\ "epoch" \notin t.stale => t.view.grant = db.grant

(* A new command.                                                           *)
Pending(t) ==
  /\ t.wrote = {"order", "attempt"}
  /\ t.view.order.nonce
  /\ t.view.order.state = t.seen.state
  /\ t.view.attempt = "pending"
  /\ t.view.approval.state = "none"
  /\ db.attempt = "none"

(* An approved one, whose intent is unchanged.                              *)
Approved(t) ==
  /\ t.wrote = {}
  /\ "approval" \notin t.stale
  /\ t.view.attempt = "approval_required"
  /\ t.view.approval.state = "approved"
  /\ t.view.approval.intent = t.seen
  /\ t.seen.state = "to approve"

(* What a request is about to commit: a new state of the approval, ...      *)
Judged(t) ==
  /\ t.wrote = {"approval"}
  /\ db.attempt = "approval_required"
  /\ t.view.approval.intent = db.approval.intent
  /\ \/ db.approval.state = "pending" /\ t.view.approval.state = "approved"
     \/ /\ db.approval.state = "approved"
        /\ t.view.approval.state \in {"invalidated", "expired"}
        /\ t.view.approval.expires = db.approval.expires

(* ... an order that waits for approval, ...                                *)
Required(t) ==
  /\ t.wrote = {"order", "approval", "attempt"}
  /\ t.view.order.nonce
  /\ t.view.order.state = "to approve"
  /\ t.view.attempt = "approval_required"
  /\ t.view.approval.state = "pending"
  /\ db.attempt = "none"

(* ... or the effect, on the direct route and on the approved one.          *)
Executed(t) ==
  /\ t.wrote = {"order", "attempt"}
  /\ t.view.order.nonce
  /\ t.view.attempt = "executed"
  /\ t.view.approval.state = "none"
  /\ db.attempt = "none"
Consumed(t) ==
  /\ t.wrote = {"order", "approval", "attempt"}
  /\ t.view.order.nonce
  /\ t.view.order.state = "purchase"
  /\ t.view.attempt = "executed"
  /\ t.view.approval.state = "consumed"
  /\ t.view.approval.expires = db.approval.expires
  /\ t.view.approval.intent = db.approval.intent
  /\ t.view.approval.intent = t.seen
  /\ t.seen.state = "to approve"
  /\ db.attempt = "approval_required"
  /\ db.approval.state = "approved"

Placed(t) ==
  /\ t.at = "confirm" => t.wrote = {} /\ Agrees(t.view)
  /\ t.at \in {"issue", "approval"} => t.wrote = {}
  /\ t.at = "decide" => Pending(t)
  /\ t.at = "final" => t.wrote = {} /\ t.view.attempt = "approval_required"
                                    /\ t.view.approval.state = "approved"
  /\ t.at = "verify" => Approved(t)
  /\ t.at \in {"fence", "epoch"} => Pending(t) \/ Approved(t)
  /\ t.at = "capability" => /\ t.wrote = {}
                            /\ "approval" \notin t.stale
                            /\ t.view.approval.state = "pending"
  /\ t.at = "commit" =>
       t.wrote = {} \/ Judged(t) \/ Required(t) \/ Executed(t) \/ Consumed(t)

Good(s) == Owned(s) /\ Held(s) /\ (tx[s].at # "idle" => Fresh(tx[s]) /\ Placed(tx[s]))

(* The ledger remembers the effect.                                         *)
Recorded ==
  /\ OneEffect
  /\ effects # <<>> => db.attempt = "executed"
  /\ db.approval.state = "consumed" => effects # <<>>

IInv == Types /\ Agrees(db) /\ Recorded /\ EffectMatchesIntent /\ \A s \in Sessions : Good(s)

-----------------------------------------------------------------------------
(* One step of one request.                                                 *)

(* The transaction of s after Continue.                                     *)
Then(s, label, view, rows) ==
  [at |-> label, view |-> view, seen |-> tx[s].seen, stale |-> tx[s].stale,
   wrote |-> tx[s].wrote \cup rows]

(* Initially no request runs and nothing is locked.                         *)
LEMMA InitInv == Init => IInv
  <1> SUFFICES ASSUME Init PROVE IInv
    BY Zenon
  <1> USE DEF Init
  <1>1. NewOrder \in Views /\ NoIntent \in Intents
    BY Zenon DEF NewOrder, NoApproval, NoIntent, Views, Orders, Intents, Approvals,
           ApprovalStates, OrderStates
  <1>2. Idle \in Txs
    BY Zenon, <1>1 DEF Idle, Txs, Labels
  <1>3. Types
    BY <1>1, <1>2 DEF Types
  <1>4. Agrees(db) /\ Recorded /\ EffectMatchesIntent
    BY DEF Agrees, NewOrder, NoApproval, Recorded, OneEffect, EffectMatchesIntent
  <1>5. \A s \in Sessions : Good(s)
    BY Zenon, ApprovalAssumption DEF Good, Owned, Held, Idle, Outside, Executing, Rows
  <1> QED
    BY Zenon, <1>3, <1>4, <1>5 DEF IInv

(* A write of the order row changes its state and version.                  *)
LEMMA WrittenIs ==
  ASSUME db \in Views, NEW v \in Views, NEW state \in OrderStates
  PROVE  /\ Written(v, state) \in Views
         /\ Written(v, state).order.state = state
         /\ Written(v, state).order.nonce = v.order.nonce
         /\ Written(v, state).lines = v.lines
         /\ Written(v, state).attempt = v.attempt
         /\ Written(v, state).approval = v.approval
         /\ Written(v, state).grant = v.grant
         /\ Written(v, state).fence = v.fence
  <1> DEFINE o == [state |-> state, version |-> db.order.version + 1, nonce |-> v.order.nonce]
  <1>1. o \in Orders
    BY DEF Views, Orders
  <1>2. Written(v, state) = [v EXCEPT !.order = o]
    BY Zenon DEF Written
  <1> QED
    BY <1>1, <1>2 DEF Views

(* A request that is not touched stays good.                                *)
LEMMA Undisturbed ==
  ASSUME NEW q \in Sessions, Good(q), tx'[q] = tx[q], db' = db,
         \A r \in Rows : lock'[r] = q <=> lock[r] = q
  PROVE  Good(q)'
  <1>1. Owned(q)'
    BY Zenon DEF Good, Owned
  <1>2. Held(q)'
    BY Zenon DEF Good, Held, Executing, Rows
  <1>3. Fresh(tx[q])' <=> Fresh(tx[q])
    BY Zenon DEF Fresh, build_purchase_order_intent
  <1>4. Placed(tx[q])' <=> Placed(tx[q])
    BY DEF Placed, Agrees, Pending, Approved, Judged, Required, Executed, Consumed
  <1> QED
    BY Zenon, <1>1, <1>2, <1>3, <1>4 DEF Good

(* A request that goes on with its rows locked.                             *)
LEMMA Progress ==
  ASSUME IInv, NEW s \in Sessions, NEW label \in Labels \ Outside, NEW v \in Views,
         NEW rows \in SUBSET Rows, Continue(s, label, v, rows),
         NEW locked \in SUBSET Rows, CanLock(s, locked), Locked(s, locked),
         "order" \in locked \/ tx[s].at \notin Outside,
         Fresh(Then(s, label, v, rows)), Placed(Then(s, label, v, rows)),
         label = "epoch" \/ Executing(Then(s, label, v, rows)) =>
           ("fence" \in locked \/ lock["fence"] = s) /\ ~v.fence,
         Executing(Then(s, label, v, rows)) => "epoch" \in locked \/ lock["epoch"] = s
  PROVE  IInv'
  <1> DEFINE t == Then(s, label, v, rows)
  <1>0. t \in Txs
    BY Zenon DEF Then, IInv, Types, Txs
  <1>1. /\ tx' = [tx EXCEPT ![s] = t]
        /\ UNCHANGED <<clock, db, effects>>
    BY Zenon DEF Continue, Then
  <1>a. /\ tx'[s] = t /\ tx' \in [Sessions -> Txs]
        /\ \A q \in Sessions \ {s} : tx'[q] = tx[q]
    BY Zenon, <1>0, <1>1 DEF IInv, Types
  <1>2. /\ lock' \in [Rows -> Sessions \cup {NoOne}]
        /\ \A q \in Sessions \ {s}, r \in Rows : lock'[r] = q <=> lock[r] = q
        /\ \A r \in Rows : lock'[r] = s <=> r \in locked \/ lock[r] = s
    BY Zenon, ApprovalAssumption DEF Locked, CanLock, IInv, Types
  <1>3. Types'
    BY Zenon, <1>1, <1>a, <1>2 DEF IInv, Types
  <1>4. \A q \in Sessions \ {s} : Good(q)'
    BY Zenon, <1>1, <1>a, <1>2, Undisturbed DEF IInv
  <1>5. Good(s)'
    <2>1. Owned(s)'
      <3>1. t.at = label /\ t.stale = tx[s].stale
        BY Zenon DEF Then
      <3> QED
        BY <1>a, <1>2, <3>1 DEF Owned, IInv, Good, CanLock
    <2>2. Held(s)'
      <3>1. t.at = label /\ t.view = v
        BY Zenon DEF Then
      <3>2. Executing(tx[s])' <=> Executing(t)
        BY Zenon, <1>a DEF Executing
      <3>3. lock'["order"] = s
        BY Zenon, <1>2 DEF IInv, Good, Held, Rows
      <3>4. label = "epoch" \/ Executing(t) => lock'["fence"] = s /\ ~v.fence
        BY Zenon, <1>2 DEF Rows
      <3>5. Executing(t) => lock'["epoch"] = s
        BY Zenon, <1>2 DEF Rows
      <3> HIDE DEF t
      <3> QED
        BY Zenon, <1>a, <3>1, <3>2, <3>3, <3>4, <3>5 DEF Held
    <2>3. Fresh(tx[s])' /\ Placed(tx[s])'
      <3>1. Fresh(t) /\ Placed(t)
        BY Zenon
      <3> HIDE DEF t
      <3>2. Fresh(tx[s])'
        BY Zenon, <1>1, <1>a, <3>1 DEF Fresh, build_purchase_order_intent
      <3>3. Placed(tx[s])'
        BY Zenon, <1>1, <1>a, <3>1 DEF Placed, Agrees, Pending, Approved, Judged, Required,
                                Executed, Consumed
      <3> QED
        BY Zenon, <3>2, <3>3
    <2> QED
      BY Zenon, <2>1, <2>2, <2>3 DEF Good
  <1>6. Agrees(db)' /\ Recorded' /\ EffectMatchesIntent'
    BY Zenon, <1>1 DEF IInv, Agrees, Recorded, OneEffect, EffectMatchesIntent
  <1> QED
    BY Zenon, <1>3, <1>4, <1>5, <1>6 DEF IInv

(* A step that locks nothing.                                               *)
LEMMA Unlocking ==
  ASSUME Types, NEW s \in Sessions, UNCHANGED lock
  PROVE  CanLock(s, {}) /\ Locked(s, {})
  BY Zenon DEF Types, CanLock, Locked

(* What a request knows once it holds the order.                            *)
LEMMA Inside ==
  ASSUME IInv, NEW s \in Sessions, tx[s].at # "idle", "order" \notin tx[s].stale
  PROVE  /\ tx[s] \in Txs /\ tx[s].view \in Views /\ db \in Views
         /\ Fresh(tx[s]) /\ Placed(tx[s])
         /\ tx[s].seen = build_purchase_order_intent(db)
         /\ "order" \notin tx[s].wrote =>
              tx[s].seen = build_purchase_order_intent(tx[s].view)
  BY Zenon DEF IInv, Types, Txs, Good, Fresh, build_purchase_order_intent

(* The order row of a request past its lock is not stale.                   *)
LEMMA NotStale ==
  ASSUME IInv, NEW s \in Sessions, tx[s].at \notin Outside
  PROVE  tx[s].at # "idle" /\ "order" \notin tx[s].stale
  BY Zenon DEF IInv, Good, Held, Owned, Outside, Rows

(* The fields of an intent.                                                 *)
LEMMA IntentIs ==
  ASSUME NEW v
  PROVE  LET i == build_purchase_order_intent(v)
         IN i.state = v.order.state /\ i.version = v.order.version /\ i.lines = v.lines
  BY Zenon DEF build_purchase_order_intent

(* A request stays fresh when its snapshot does not change and it changes   *)
(* in its view only what it writes.                                         *)
LEMMA FreshKept ==
  ASSUME NEW t, NEW n, Fresh(t), n.stale = t.stale, n.seen = t.seen,
         \A r \in t.wrote : r \in n.wrote,
         n.view.lines = t.view.lines, n.view.fence = t.view.fence, n.view.grant = t.view.grant,
         "order" \in n.wrote \/ n.view.order = t.view.order,
         "attempt" \in n.wrote \/ n.view.attempt = t.view.attempt,
         "approval" \in n.wrote \/ n.view.approval = t.view.approval
  PROVE  Fresh(n)
  BY Zenon DEF Fresh

(* with_nonce writes the order exactly when it has no nonce.                *)
LEMMA NonceIs ==
  ASSUME db \in Views, NEW v \in Views
  PROVE  LET w == with_nonce(v)
         IN /\ w \in Views /\ w.order.nonce /\ w.order.state = v.order.state
            /\ w.lines = v.lines /\ w.attempt = v.attempt /\ w.approval = v.approval
            /\ w.grant = v.grant /\ w.fence = v.fence
            /\ w = v <=> v.order.nonce
  <1>0. v.order.state \in OrderStates /\ v.order.nonce \in BOOLEAN
    BY Zenon DEF Views, Orders
  <1>1. CASE v.order.nonce
    BY Zenon, <1>1 DEF with_nonce
  <1>2. CASE ~v.order.nonce
    <2> DEFINE u == Written(v, v.order.state)
               w == [u EXCEPT !.order.nonce = TRUE]
    <2>1. u \in Views /\ u.order.state = v.order.state /\ u.lines = v.lines
          /\ u.attempt = v.attempt /\ u.approval = v.approval /\ u.grant = v.grant
          /\ u.fence = v.fence
      BY Zenon, <1>0, WrittenIs
    <2> HIDE DEF u
    <2>2. w.order \in Orders /\ w.order.state = u.order.state /\ w.order.nonce
      BY Zenon, <2>1 DEF Views, Orders
    <2>3. w = [u EXCEPT !.order = w.order]
      BY Zenon, <2>1 DEF Views
    <2>4. w \in Views /\ w.lines = u.lines /\ w.attempt = u.attempt
          /\ w.approval = u.approval /\ w.grant = u.grant /\ w.fence = u.fence
      BY Zenon, <2>1, <2>2 DEF Views
    <2>5. with_nonce(v) = w
      BY Zenon, <1>2 DEF with_nonce, u
    <2> QED
      BY Zenon, <1>2, <2>1, <2>2, <2>4, <2>5
  <1> QED
    BY Zenon, <1>0, <1>1, <1>2

(* A new state of the approval changes nothing else.                        *)
LEMMA SettledIs ==
  ASSUME NEW v \in Views, NEW state \in ApprovalStates
  PROVE  LET w == Settled(v, state)
         IN /\ w \in Views /\ w.order = v.order /\ w.lines = v.lines
            /\ w.attempt = v.attempt /\ w.grant = v.grant /\ w.fence = v.fence
            /\ w.approval.state = state /\ w.approval.intent = v.approval.intent
            /\ w.approval.expires = v.approval.expires
  <1> DEFINE a == [v.approval EXCEPT !.state = state]
  <1>1. a \in Approvals /\ a.state = state /\ a.intent = v.approval.intent
        /\ a.expires = v.approval.expires
    BY Zenon DEF Views, Approvals, ApprovalStates
  <1>2. Settled(v, state) = [v EXCEPT !.approval = a]
    BY Zenon DEF Settled, Views, Approvals
  <1> HIDE DEF a
  <1>3. [v EXCEPT !.approval = a] \in Views
    BY Zenon, <1>1 DEF Views
  <1> QED
    BY Zenon, <1>1, <1>2, <1>3 DEF Views, a

-----------------------------------------------------------------------------
(* The steps of button_confirm and action_issue_capability.                 *)

(* The ledger's choice agrees with the committed row, not with a stale one. *)
LEMMA RequestKept ==
  ASSUME IInv, NEW s \in Sessions, delegated_request(s)
  PROVE  IInv'
  <1> DEFINE t == tx[s]
             v == with_nonce(t.view)
             wrote == IF v = t.view THEN {} ELSE {"order"}
  <1>1. /\ t.at = "confirm" /\ t.wrote = {} /\ "order" \notin t.stale
        /\ CanLock(s, {"order"}) /\ Locked(s, {"order"})
    BY Zenon DEF delegated_request, CanLock, IInv, Good, Placed
  <1>2. /\ t.view \in Views /\ db \in Views /\ Agrees(t.view) /\ Fresh(t)
        /\ t.seen = build_purchase_order_intent(t.view)
    BY Zenon, <1>1, Inside DEF Placed
  <1>3. /\ v \in Views /\ v.order.nonce /\ v.order.state = t.view.order.state
        /\ v.lines = t.view.lines /\ v.attempt = t.view.attempt
        /\ v.approval = t.view.approval /\ v.grant = t.view.grant
        /\ v.fence = t.view.fence
        /\ v = t.view <=> t.view.order.nonce
    BY Zenon, <1>2, NonceIs
  <1>4. CASE v.attempt = "none" /\ Continue(s, "decide", [v EXCEPT !.attempt = "pending"],
                                             wrote \cup {"attempt"})
    <2> DEFINE w == [v EXCEPT !.attempt = "pending"]
               n == Then(s, "decide", w, wrote \cup {"attempt"})
    <2>1. wrote \cup {"attempt"} = {"order", "attempt"}
      BY Zenon, <1>2, <1>3, <1>4 DEF Agrees
    <2>2. /\ w \in Views /\ w.order = v.order /\ w.lines = v.lines /\ w.attempt = "pending"
          /\ w.approval = v.approval /\ w.grant = v.grant /\ w.fence = v.fence
      BY Zenon, <1>3 DEF Views
    <2> HIDE DEF w, v
    <2>3. n.at = "decide" /\ n.view = w /\ n.seen = t.seen /\ n.stale = t.stale
          /\ n.wrote = {"order", "attempt"}
      BY Zenon, <1>1, <2>1 DEF Then
    <2> HIDE DEF n
    <2>4. Fresh(n)
      BY <1>1, <1>2, <1>3, <2>2, <2>3, FreshKept
    <2>5. Placed(n)
      BY <1>1, <1>2, <1>3, <1>4, <2>2, <2>3
         DEF Placed, Pending, Agrees, Fresh, build_purchase_order_intent
    <2>6. ~Executing(n)
      BY Zenon, <2>3 DEF Executing
    <2> QED
      BY Zenon, <1>1, <1>4, <2>1, <2>2, <2>4, <2>5, <2>6, Progress DEF n, w, Rows, Labels, Outside
  <1>5. ASSUME v.attempt # "none",
               NEW label \in {"commit", "final"}, Continue(s, label, v, wrote),
               label = "final" => v.attempt = "approval_required" /\ v.approval.state = "approved"
        PROVE  IInv'
    <2> DEFINE n == Then(s, label, v, wrote)
    <2>1. v = t.view /\ wrote = {}
      BY Zenon, <1>2, <1>3, <1>5 DEF Agrees
    <2>2. n.at = label /\ n.view = t.view /\ n.seen = t.seen /\ n.stale = t.stale /\ n.wrote = {}
      BY Zenon, <1>1, <2>1 DEF Then
    <2> HIDE DEF n, v
    <2>3. Fresh(n)
      BY Zenon, <1>1, <1>2, <2>2 DEF Fresh
    <2>4. Placed(n)
      BY Zenon, <1>5, <2>1, <2>2 DEF Placed
    <2>5. ~Executing(n) /\ label # "epoch"
      BY Zenon, <2>2 DEF Executing
    <2> QED
      BY Zenon, <1>1, <1>3, <1>5, <2>1, <2>3, <2>4, <2>5, Progress DEF n, Rows, Labels, Outside
  <1> QED
    BY Zenon, <1>4, <1>5 DEF delegated_request, NewAttempt

(* A request that ends an approval it has just read and locked.             *)
LEMMA TerminalKept ==
  ASSUME IInv, NEW s \in Sessions, tx[s].at \notin Outside,
         tx[s].wrote = {}, "approval" \notin tx[s].stale,
         tx[s].view.attempt = "approval_required", tx[s].view.approval.state = "approved",
         NEW state \in {"invalidated", "expired"}, set_terminal(s, state),
         NEW locked \in SUBSET Rows, CanLock(s, locked), Locked(s, locked)
  PROVE  IInv'
  <1> DEFINE t == tx[s]
             w == Settled(t.view, state)
             n == Then(s, "commit", w, {"approval"})
  <1>1. /\ "order" \notin t.stale /\ t.view \in Views /\ Fresh(t)
        /\ t.view.attempt = db.attempt /\ t.view.approval = db.approval
    BY Zenon, NotStale, Inside DEF Fresh
  <1>2. /\ w \in Views /\ w.order = t.view.order /\ w.lines = t.view.lines
        /\ w.attempt = t.view.attempt /\ w.grant = t.view.grant /\ w.fence = t.view.fence
        /\ w.approval.state = state /\ w.approval.intent = t.view.approval.intent
        /\ w.approval.expires = t.view.approval.expires
    <2>1. state \in ApprovalStates
      BY Zenon DEF ApprovalStates, TerminalStates
    <2> QED
      BY Zenon, <1>1, <2>1, SettledIs
  <1>3. Continue(s, "commit", w, {"approval"})
    BY Zenon DEF set_terminal
  <1> HIDE DEF w
  <1>4. n.at = "commit" /\ n.view = w /\ n.seen = t.seen /\ n.stale = t.stale
        /\ n.wrote = {"approval"}
    BY Zenon DEF Then
  <1> HIDE DEF n
  <1>5. Fresh(n)
    BY Zenon, <1>1, <1>2, <1>4, FreshKept
  <1>6. Placed(n)
    BY Zenon, <1>1, <1>2, <1>4 DEF Placed, Judged
  <1>7. ~Executing(n)
    BY Zenon, <1>4 DEF Executing
  <1> QED
    BY Zenon, <1>2, <1>3, <1>5, <1>6, <1>7, Progress DEF n, Rows, Labels, Outside

(* A request that goes on without writing.                                  *)
LEMMA PassOn ==
  ASSUME IInv, NEW s \in Sessions, tx[s].at # "idle", "order" \notin tx[s].stale,
         NEW label \in Labels \ Outside, Continue(s, label, tx[s].view, {}),
         NEW locked \in SUBSET Rows, CanLock(s, locked), Locked(s, locked),
         "order" \in locked \/ tx[s].at \notin Outside,
         Placed(Then(s, label, tx[s].view, {})), label = "commit" => tx[s].wrote = {},
         label = "epoch" => "fence" \in locked /\ ~tx[s].view.fence
  PROVE  IInv'
  <1> DEFINE t == tx[s]
             n == Then(s, label, t.view, {})
  <1>1. t.view \in Views /\ Fresh(t)
    BY Zenon, Inside
  <1>2. n.at = label /\ n.view = t.view /\ n.seen = t.seen /\ n.stale = t.stale
        /\ n.wrote = t.wrote
    BY Zenon DEF Then
  <1> HIDE DEF n
  <1>3. Fresh(n)
    BY Zenon, <1>1, <1>2, FreshKept
  <1>4. ~Executing(n)
    BY Zenon, <1>2 DEF Executing
  <1> QED
    BY Zenon, <1>1, <1>3, <1>4, Progress DEF n

(* The first PDP decision.                                                  *)
LEMMA DecisionKept ==
  ASSUME IInv, NEW s \in Sessions, Allowed(s) \/ RequireApproval(s)
  PROVE  IInv'
  <1> DEFINE t == tx[s]
  <1>0. t.at = "decide" /\ UNCHANGED lock /\ CanLock(s, {}) /\ Locked(s, {})
    BY Zenon, Unlocking DEF Allowed, RequireApproval, IInv
  <1>1. /\ "order" \notin t.stale /\ t.view \in Views /\ db \in Views /\ Fresh(t) /\ Pending(t)
        /\ t.at \notin Outside /\ t.at # "idle"
    BY Zenon, <1>0, NotStale, Inside DEF Placed, Outside
  <1>2. CASE Allowed(s)
    <2> DEFINE n == Then(s, "fence", t.view, {})
    <2>1. n.at = "fence" /\ n.view = t.view /\ n.seen = t.seen /\ n.wrote = t.wrote
      BY Zenon DEF Then
    <2> HIDE DEF n
    <2>2. Placed(n)
      BY Zenon, <1>1, <2>1 DEF Placed, Pending
    <2> QED
      BY Zenon, <1>0, <1>1, <1>2, <2>2, PassOn DEF n, Allowed, Labels, Outside
  <1>3. CASE RequireApproval(s)
    <2> DEFINE u == Written(t.view, "to approve")
               a == [state |-> "pending", intent |-> build_purchase_order_intent(u), expires |-> 0]
               w == [u EXCEPT !.approval = a, !.attempt = "approval_required"]
               rows == {"order", "approval", "attempt"}
               n == Then(s, "commit", w, rows)
    <2>1. /\ u \in Views /\ u.order.state = "to approve" /\ u.order.nonce = t.view.order.nonce
          /\ u.lines = t.view.lines /\ u.grant = t.view.grant /\ u.fence = t.view.fence
      BY Zenon, <1>1, WrittenIs DEF OrderStates
    <2>2. Continue(s, "commit", w, rows)
      BY Zenon, <1>3 DEF RequireApproval, create_pending
    <2> HIDE DEF u
    <2>3. a \in Approvals /\ a.state = "pending"
      BY Zenon, <2>1
         DEF Approvals, ApprovalStates, Intents, build_purchase_order_intent, Views, Orders
    <2> HIDE DEF a
    <2>4. /\ w \in Views /\ w.order = u.order /\ w.lines = u.lines /\ w.grant = u.grant
          /\ w.fence = u.fence /\ w.approval = a /\ w.attempt = "approval_required"
      BY Zenon, <2>1, <2>3 DEF Views
    <2> HIDE DEF w
    <2>5. n.at = "commit" /\ n.view = w /\ n.seen = t.seen /\ n.stale = t.stale /\ n.wrote = rows
      BY Zenon, <1>1 DEF Then, Pending
    <2> HIDE DEF n
    <2>6. Fresh(n)
      BY <1>1, <2>1, <2>4, <2>5, FreshKept DEF Pending
    <2>7. Placed(n)
      BY Zenon, <1>1, <2>1, <2>3, <2>4, <2>5 DEF Placed, Required, Pending
    <2>8. ~Executing(n)
      BY Zenon, <2>4, <2>5 DEF Executing
    <2> QED
      BY Zenon, <1>0, <1>1, <2>2, <2>4, <2>6, <2>7, <2>8, Progress DEF n, Rows, Labels, Outside
  <1> QED
    BY Zenon, <1>2, <1>3

(* _prepare_final_intent and the authority of the approver.                 *)
LEMMA FinalKept ==
  ASSUME IInv, NEW s \in Sessions,
         prepare_final_intent(s) \/ Verified(s) \/ ApproverRefused(s)
  PROVE  IInv'
  <1> DEFINE t == tx[s]
  <1>1. CASE prepare_final_intent(s)
    <2> DEFINE rows == {"order", "approval", "attempt"}
    <2>1. t.at = "final" /\ CanLock(s, rows) /\ Locked(s, rows) /\ rows \in SUBSET Rows
      BY Zenon, <1>1 DEF prepare_final_intent, Rows
    <2>2. /\ "order" \notin t.stale /\ "approval" \notin t.stale
          /\ t.at \notin Outside /\ t.at # "idle"
      BY Zenon, <2>1 DEF CanLock, Outside
    <2>3. /\ t.wrote = {} /\ t.view.attempt = "approval_required"
          /\ t.view.approval.state = "approved"
          /\ t.seen = build_purchase_order_intent(t.view)
      BY Zenon, <2>1, <2>2, Inside DEF Placed
    <2>4. CASE Continue(s, "verify", t.view, {}) /\ ~IntentChanged(t.view)
      <3> DEFINE n == Then(s, "verify", t.view, {})
      <3>1. n.at = "verify" /\ n.view = t.view /\ n.seen = t.seen /\ n.stale = t.stale
            /\ n.wrote = {}
        BY Zenon, <2>3 DEF Then
      <3> HIDE DEF n
      <3>2. Placed(n)
        <4>1. t.view.approval.intent = t.seen /\ t.view.order.state = "to approve"
          BY Zenon, <2>3, <2>4 DEF IntentChanged
        <4>2. t.seen.state = "to approve"
          BY Zenon, <2>3, <4>1, IntentIs
        <4> QED
          BY Zenon, <2>2, <2>3, <3>1, <4>1, <4>2 DEF Placed, Approved
      <3> QED
        BY Zenon, <2>1, <2>2, <2>4, <3>2, PassOn DEF n, Labels, Outside
    <2>5. CASE set_terminal(s, "invalidated") \/ set_terminal(s, "expired")
      BY Zenon, <2>1, <2>2, <2>3, <2>5, TerminalKept
    <2> QED
      BY Zenon, <1>1, <2>4, <2>5 DEF prepare_final_intent
  <1>2. CASE Verified(s) \/ ApproverRefused(s)
    <2>1. t.at = "verify" /\ CanLock(s, {}) /\ Locked(s, {}) /\ {} \in SUBSET Rows
      BY Zenon, <1>2, Unlocking DEF Verified, ApproverRefused, IInv
    <2>2. t.at \notin Outside /\ t.at # "idle" /\ "order" \notin t.stale
      BY Zenon, <2>1, NotStale DEF Outside
    <2>3. Approved(t)
      BY Zenon, <2>1, <2>2, Inside DEF Placed
    <2>4. CASE Verified(s)
      <3> DEFINE n == Then(s, "fence", t.view, {})
      <3>1. n.at = "fence" /\ n.view = t.view /\ n.seen = t.seen /\ n.stale = t.stale
            /\ n.wrote = t.wrote
        BY Zenon DEF Then
      <3> HIDE DEF n
      <3>2. Placed(n)
        BY Zenon, <2>3, <3>1 DEF Placed, Approved
      <3> QED
        BY Zenon, <2>1, <2>2, <2>4, <3>2, PassOn DEF n, Verified, Labels, Outside
    <2>5. CASE ApproverRefused(s)
      BY Zenon, <2>1, <2>2, <2>3, <2>5, TerminalKept DEF ApproverRefused, Approved
    <2> QED
      BY Zenon, <1>2, <2>4, <2>5
  <1> QED
    BY Zenon, <1>1, <1>2

(* The revocation fence.                                                    *)
LEMMA FenceKept ==
  ASSUME IInv, NEW s \in Sessions, lock_delegation_revocation_fence(s)
  PROVE  IInv'
  <1> DEFINE t == tx[s]
             n == Then(s, "epoch", t.view, {})
  <1>1. t.at = "fence" /\ CanLock(s, {"fence"}) /\ Locked(s, {"fence"})
        /\ {"fence"} \in SUBSET Rows
    BY Zenon DEF lock_delegation_revocation_fence, Rows
  <1>2. t.at \notin Outside /\ t.at # "idle" /\ "order" \notin t.stale
    BY Zenon, <1>1, NotStale DEF Outside
  <1>3. Pending(t) \/ Approved(t)
    BY Zenon, <1>1, <1>2, Inside DEF Placed
  <1>4. CASE ~t.view.fence /\ Continue(s, "epoch", t.view, {})
    <2>1. n.at = "epoch" /\ n.view = t.view /\ n.seen = t.seen /\ n.stale = t.stale
          /\ n.wrote = t.wrote
      BY Zenon DEF Then
    <2> HIDE DEF n
    <2>2. Placed(n)
      BY Zenon, <1>3, <2>1 DEF Placed, Approved, Pending
    <2> QED
      BY Zenon, <1>1, <1>2, <1>4, <2>2, PassOn DEF n, Labels, Outside
  <1>5. CASE OnApprovedRoute(t.view) /\ set_terminal(s, "invalidated")
    <2>1. Approved(t)
      BY Zenon, <1>3, <1>5 DEF OnApprovedRoute, Pending
    <2> QED
      BY Zenon, <1>1, <1>2, <1>5, <2>1, TerminalKept DEF Approved
  <1> QED
    BY Zenon, <1>4, <1>5 DEF lock_delegation_revocation_fence

(* The effect, in the view of the request.                                  *)
LEMMA ExecuteKept ==
  ASSUME IInv, NEW s \in Sessions, Execute(s)
  PROVE  IInv'
  <1> DEFINE t == tx[s]
             direct(allowed) == [button_confirm(t.view, allowed) EXCEPT !.attempt = "executed"]
  <1>1. /\ t.at = "epoch" /\ CanLock(s, {"epoch"}) /\ Locked(s, {"epoch"})
        /\ {"epoch"} \in SUBSET Rows /\ t.at \notin Outside /\ t.at # "idle"
    BY Zenon DEF Execute, Rows, Outside
  <1>2. "order" \notin t.stale /\ lock["fence"] = s /\ ~t.view.fence
    BY Zenon, <1>1, NotStale DEF IInv, Good, Held
  <1>3. /\ t.view \in Views /\ db \in Views /\ Fresh(t) /\ (Pending(t) \/ Approved(t))
    BY Zenon, <1>1, <1>2, Inside DEF Placed
  <1>4. ASSUME ~OnApprovedRoute(t.view), NEW allowed \in CoreAllows,
               Continue(s, "commit", direct(allowed), {"order", "attempt"})
        PROVE  IInv'
    <2> DEFINE u == button_confirm(t.view, allowed)
               w == direct(allowed)
               n == Then(s, "commit", w, {"order", "attempt"})
    <2>1. PICK state \in OrderStates : u = Written(t.view, state)
      BY Zenon, <1>3, <1>4, ApprovalAssumption DEF button_confirm, Views, Orders, OrderStates
    <2>2. /\ u \in Views /\ u.order.nonce = t.view.order.nonce /\ u.lines = t.view.lines
          /\ u.approval = t.view.approval /\ u.grant = t.view.grant /\ u.fence = t.view.fence
      BY <1>3, <2>1, WrittenIs
    <2>3. Pending(t)
      BY Zenon, <1>3, <1>4 DEF OnApprovedRoute, Approved
    <2> HIDE DEF u
    <2>4. /\ w \in Views /\ w.order = u.order /\ w.lines = u.lines /\ w.grant = u.grant
          /\ w.fence = u.fence /\ w.approval = u.approval /\ w.attempt = "executed"
      BY Zenon, <2>2 DEF Views, u
    <2> HIDE DEF w, direct
    <2>5. n.at = "commit" /\ n.view = w /\ n.seen = t.seen /\ n.stale = t.stale
          /\ n.wrote = {"order", "attempt"}
      BY Zenon, <2>3 DEF Then, Pending
    <2> HIDE DEF n
    <2>6. Fresh(n)
      BY <1>3, <2>2, <2>3, <2>4, <2>5, FreshKept DEF Pending
    <2>7. Placed(n)
      BY <2>2, <2>3, <2>4, <2>5 DEF Placed, Executed, Pending
    <2>8. ~w.fence
      BY Zenon, <1>2, <2>2, <2>4
    <2> QED
      BY Zenon, <1>1, <1>2, <1>4, <2>4, <2>6, <2>7, <2>8, Progress DEF n, w, Rows, Labels, Outside
  <1>5. ASSUME OnApprovedRoute(t.view),
               Continue(s, "commit", approved_confirmation(t.view),
                        {"order", "approval", "attempt"})
        PROVE  IInv'
    <2> DEFINE u == Written(t.view, "purchase")
               c == Settled(u, "consumed")
               w == approved_confirmation(t.view)
               rows == {"order", "approval", "attempt"}
               n == Then(s, "commit", w, rows)
    <2>1. Approved(t)
      BY Zenon, <1>3, <1>5 DEF OnApprovedRoute, Pending
    <2>2. /\ u \in Views /\ u.order.nonce = t.view.order.nonce /\ u.lines = t.view.lines
          /\ u.order.state = "purchase" /\ u.approval = t.view.approval
          /\ u.grant = t.view.grant /\ u.fence = t.view.fence
      BY Zenon, <1>3, WrittenIs DEF OrderStates
    <2> HIDE DEF u
    <2>3. "consumed" \in ApprovalStates
      BY Zenon DEF ApprovalStates, TerminalStates
    <2>4. /\ c \in Views /\ c.order = u.order /\ c.lines = u.lines /\ c.grant = u.grant
          /\ c.fence = u.fence /\ c.approval.state = "consumed"
          /\ c.approval.intent = u.approval.intent /\ c.approval.expires = u.approval.expires
      BY Zenon, <2>2, <2>3, SettledIs
    <2>5. w = [c EXCEPT !.attempt = "executed"]
      BY Zenon DEF approved_confirmation, u
    <2> HIDE DEF c, w
    <2>6. /\ w \in Views /\ w.order = c.order /\ w.lines = c.lines /\ w.grant = c.grant
          /\ w.fence = c.fence /\ w.approval = c.approval /\ w.attempt = "executed"
      BY Zenon, <2>4, <2>5 DEF Views
    <2>7. n.at = "commit" /\ n.view = w /\ n.seen = t.seen /\ n.stale = t.stale /\ n.wrote = rows
      BY Zenon, <2>1 DEF Then, Approved
    <2> HIDE DEF n
    <2>8. Fresh(n)
      <3>1. /\ n.view.lines = t.view.lines /\ n.view.grant = t.view.grant
            /\ n.view.fence = t.view.fence
        BY Zenon, <2>2, <2>4, <2>6, <2>7
      <3>2. \A r \in t.wrote : r \in n.wrote
        BY <2>1 DEF Approved
      <3> QED
        BY Zenon, <1>3, <2>7, <3>1, <3>2, FreshKept
    <2>9. /\ t.view.approval = db.approval /\ db.attempt = "approval_required"
          /\ t.view.order.nonce
      BY Zenon, <1>2, <1>3, <2>1 DEF Fresh, Approved, IInv, Agrees, Views, Orders
    <2>10. Placed(n)
      <3>1. n.view.order.nonce
        BY Zenon, <2>2, <2>4, <2>6, <2>7, <2>9
      <3>2. n.view.order.state = "purchase" /\ n.view.attempt = "executed"
        BY Zenon, <2>2, <2>4, <2>6, <2>7
      <3>3. /\ n.view.approval.state = "consumed"
            /\ n.view.approval.expires = db.approval.expires
            /\ n.view.approval.intent = db.approval.intent
        BY <2>2, <2>4, <2>6, <2>7, <2>9
      <3>4. /\ db.approval.intent = t.seen /\ t.seen.state = "to approve"
            /\ db.approval.state = "approved"
        BY Zenon, <2>1, <2>9 DEF Approved
      <3>5. Consumed(n)
        BY Zenon, <2>7, <2>9, <3>1, <3>2, <3>3, <3>4 DEF Consumed
      <3> QED
        BY Zenon, <2>7, <3>5 DEF Placed
    <2>11. ~w.fence
      BY Zenon, <1>2, <2>2, <2>4, <2>6
    <2> QED
      BY Zenon, <1>1, <1>2, <1>5, <2>6, <2>8, <2>10, <2>11, Progress DEF n, w, Rows, Labels, Outside
  <1> QED
    BY Zenon, <1>4, <1>5 DEF Execute

(* action_issue_capability.                                                 *)
LEMMA IssueKept ==
  ASSUME IInv, NEW s \in Sessions, LockOrder(s) \/ LockApproval(s) \/ IssueCapability(s)
  PROVE  IInv'
  <1> DEFINE t == tx[s]
  <1>1. CASE LockOrder(s)
    <2> DEFINE n == Then(s, "approval", t.view, {})
    <2>1. /\ t.at = "issue" /\ "order" \notin t.stale /\ CanLock(s, {"order"})
          /\ Locked(s, {"order"}) /\ {"order"} \in SUBSET Rows
      BY Zenon, <1>1 DEF LockOrder, CanLock, Rows
    <2>2. n.at = "approval" /\ n.wrote = {}
      BY Zenon, <2>1, Inside DEF Then, Placed
    <2> HIDE DEF n
    <2>3. Placed(n)
      BY Zenon, <2>2 DEF Placed
    <2> QED
      BY Zenon, <1>1, <2>1, <2>3, PassOn DEF n, LockOrder, Labels, Outside
  <1>2. CASE LockApproval(s)
    <2>1. /\ t.at = "approval" /\ CanLock(s, {"approval"}) /\ Locked(s, {"approval"})
          /\ {"approval"} \in SUBSET Rows /\ t.at \notin Outside /\ t.at # "idle"
      BY Zenon, <1>2 DEF LockApproval, Rows, Outside
    <2>2. "order" \notin t.stale /\ "approval" \notin t.stale /\ t.wrote = {}
      BY Zenon, <2>1, NotStale, Inside DEF CanLock, Placed
    <2>3. ASSUME NEW label \in {"commit", "capability"}, Continue(s, label, t.view, {}),
                 label = "capability" => t.view.approval.state = "pending"
          PROVE  IInv'
      <3> DEFINE n == Then(s, label, t.view, {})
      <3>1. n.at = label /\ n.view = t.view /\ n.stale = t.stale /\ n.wrote = {}
        BY Zenon, <2>2 DEF Then
      <3> HIDE DEF n
      <3>2. Placed(n)
        BY Zenon, <2>2, <2>3, <3>1 DEF Placed
      <3> QED
        BY Zenon, <2>1, <2>2, <2>3, <3>2, PassOn DEF n, Labels, Outside
    <2> QED
      BY Zenon, <1>2, <2>3 DEF LockApproval, validated_pending_intent
  <1>3. CASE IssueCapability(s)
    <2> DEFINE a == [state |-> "approved", intent |-> t.view.approval.intent, expires |-> Expiry]
               w == [t.view EXCEPT !.approval = a]
               n == Then(s, "commit", w, {"approval"})
    <2>1. /\ t.at = "capability" /\ CanLock(s, {}) /\ Locked(s, {}) /\ {} \in SUBSET Rows
          /\ t.at \notin Outside /\ t.at # "idle"
      BY Zenon, <1>3, Unlocking DEF IssueCapability, IInv, Outside
    <2>2. /\ t.view \in Views /\ db \in Views /\ Fresh(t) /\ t.wrote = {}
          /\ t.view.approval = db.approval /\ db.approval.state = "pending"
      BY Zenon, <2>1, NotStale, Inside DEF Placed, Fresh
    <2>3. db.attempt = "approval_required"
      BY Zenon, <2>2 DEF IInv, Agrees, Views
    <2>4. Expiry \in Nat
      BY ApprovalAssumption DEF Expiry, IInv, Types
    <2>5. Continue(s, "commit", w, {"approval"})
      BY Zenon, <1>3 DEF IssueCapability
    <2>6. a \in Approvals
      BY Zenon, <2>2, <2>4 DEF Approvals, ApprovalStates, Views
    <2>8. /\ w \in Views /\ w.order = t.view.order /\ w.lines = t.view.lines
          /\ w.attempt = t.view.attempt /\ w.grant = t.view.grant /\ w.fence = t.view.fence
          /\ w.approval.state = "approved" /\ w.approval.intent = t.view.approval.intent
      BY Zenon, <2>2, <2>6 DEF Views
    <2> HIDE DEF w
    <2>9. n.at = "commit" /\ n.view = w /\ n.seen = t.seen /\ n.stale = t.stale
          /\ n.wrote = {"approval"}
      BY Zenon, <2>2 DEF Then
    <2> HIDE DEF n
    <2>10. Fresh(n)
      BY Zenon, <2>2, <2>8, <2>9, FreshKept
    <2>11. Placed(n)
      BY Zenon, <2>2, <2>3, <2>8, <2>9 DEF Placed, Judged
    <2>12. ~Executing(n)
      BY Zenon, <2>9 DEF Executing
    <2> QED
      BY Zenon, <2>1, <2>5, <2>8, <2>10, <2>11, <2>12, Progress DEF n, Rows, Labels, Outside
  <1> QED
    BY Zenon, <1>1, <1>2, <1>3

(* A request begins with the committed rows.                                *)
LEMMA BeginKept ==
  ASSUME IInv, NEW s \in Sessions, Begin(s)
  PROVE  IInv'
  <1> DEFINE new(request) == [at |-> request, view |-> db,
                              seen |-> build_purchase_order_intent(db),
                              stale |-> {}, wrote |-> {}]
  <1>2. PICK request \in {"confirm", "issue"} : tx' = [tx EXCEPT ![s] = new(request)]
    BY Zenon DEF Begin
  <1> DEFINE n == new(request)
  <1>3. db \in Views /\ build_purchase_order_intent(db) \in Intents
    BY Zenon DEF IInv, Types, Views, Orders, Intents, build_purchase_order_intent
  <1>4. n \in Txs
    BY Zenon, <1>3 DEF Txs, Labels
  <1>5. /\ tx'[s] = n /\ tx' \in [Sessions -> Txs]
        /\ \A q \in Sessions \ {s} : tx'[q] = tx[q]
        /\ UNCHANGED <<clock, db, lock, effects>>
    BY Zenon, <1>2, <1>4 DEF IInv, Types, Begin
  <1>6. Types'
    BY Zenon, <1>5 DEF IInv, Types
  <1>7. \A q \in Sessions \ {s} : Good(q)'
    BY Zenon, <1>5, Undisturbed DEF IInv
  <1>8. Good(s)'
    <2>1. /\ n.at = request /\ n.view = db /\ n.seen = build_purchase_order_intent(db)
          /\ n.wrote = {}
      BY Zenon
    <2> HIDE DEF n
    <2>2. Owned(s)'
      BY Zenon, <1>5 DEF IInv, Good, Owned, Begin, Outside
    <2>3. Held(s)'
      BY Zenon, <1>5, <2>1 DEF Held, Executing, Outside
    <2>4. Fresh(tx[s])'
      BY Zenon, <1>5, <2>1 DEF Fresh, build_purchase_order_intent
    <2>5. Placed(tx[s])'
      BY Zenon, <1>5, <2>1 DEF Placed, Agrees, IInv
    <2> QED
      BY Zenon, <2>2, <2>3, <2>4, <2>5 DEF Good
  <1>9. Agrees(db)' /\ Recorded' /\ EffectMatchesIntent'
    BY Zenon, <1>5 DEF IInv, Agrees, Recorded, OneEffect, EffectMatchesIntent
  <1> QED
    BY Zenon, <1>6, <1>7, <1>8, <1>9 DEF IInv

-----------------------------------------------------------------------------
(* Ends and commits.                                                        *)

(* The rows of s are free, everybody else's stay.                           *)
LEMMA ReleasedIs ==
  ASSUME Types, NEW s \in Sessions, Released(s)
  PROVE  /\ lock' \in [Rows -> Sessions \cup {NoOne}]
         /\ \A r \in Rows : lock'[r] # s
         /\ \A q \in Sessions \ {s}, r \in Rows : lock'[r] = q <=> lock[r] = q
  BY ApprovalAssumption DEF Types, Released

(* A session without a request is good when it holds no row.                *)
LEMMA IdleGood ==
  ASSUME NEW s \in Sessions, tx'[s] = Idle, \A r \in Rows : lock'[r] # s
  PROVE  Good(s)'
  BY DEF Good, Owned, Held, Idle, Outside, Executing

(* Nothing of a failed request remains.                                     *)
LEMMA RollbackKept ==
  ASSUME IInv, NEW s \in Sessions, Rollback(s)
  PROVE  IInv'
  <1>1. Idle \in Txs
    BY Zenon DEF Idle, NewOrder, NoApproval, NoIntent, Txs, Views, Orders, Intents, Approvals,
           ApprovalStates, OrderStates, Labels
  <1>2. /\ tx'[s] = Idle /\ tx' \in [Sessions -> Txs]
        /\ \A q \in Sessions \ {s} : tx'[q] = tx[q]
        /\ UNCHANGED <<clock, db, effects>> /\ Released(s)
    BY Zenon, <1>1 DEF Rollback, IInv, Types
  <1>3. Types'
    BY Zenon, <1>2, ReleasedIs DEF IInv, Types
  <1>4. \A q \in Sessions : Good(q)'
    BY <1>2, ReleasedIs, IdleGood, Undisturbed DEF IInv
  <1>5. Agrees(db)' /\ Recorded' /\ EffectMatchesIntent'
    BY Zenon, <1>2 DEF IInv, Agrees, Recorded, OneEffect, EffectMatchesIntent
  <1> QED
    BY Zenon, <1>3, <1>4, <1>5 DEF IInv

(* Somebody else's commit only makes rows stale.                            *)
LEMMA OutdatedIs ==
  ASSUME Types, NEW rows \in SUBSET Rows, NEW q \in Sessions
  PROVE  LET o == Outdated(rows)
         IN /\ o \in [Sessions -> Txs]
            /\ o[q].at = tx[q].at /\ o[q].view = tx[q].view /\ o[q].seen = tx[q].seen
            /\ o[q].wrote = tx[q].wrote
            /\ tx[q].at # "idle" => o[q].stale = tx[q].stale \cup rows
            /\ tx[q].at = "idle" => o[q].stale = tx[q].stale
  BY Zenon DEF Types, Outdated, Txs

(* A transaction of somebody else takes no row that is held, and leaves the *)
(* ledger and the approval alone.                                           *)
LEMMA Elsewhere ==
  ASSUME IInv, NEW rows \in SUBSET Rows, NEW new \in Views, Commits(rows, new),
         "approval" \notin rows, new.attempt = db.attempt, new.approval = db.approval,
         new.order.nonce = db.order.nonce,
         "order" \in rows \/ (new.order = db.order /\ new.lines = db.lines),
         "fence" \in rows \/ new.fence = db.fence,
         "epoch" \in rows \/ new.grant = db.grant
  PROVE  IInv'
  <1>1. db' = new /\ tx' = Outdated(rows) /\ UNCHANGED <<clock, lock, effects>> /\ Unlocked(rows)
    BY Zenon DEF Commits
  <1>2. tx' \in [Sessions -> Txs]
    BY <1>1 DEF Outdated, IInv, Types, Txs
  <1>3. Types'
    BY Zenon, <1>1, <1>2 DEF IInv, Types
  <1>4. Agrees(db)' /\ Recorded' /\ EffectMatchesIntent'
    BY Zenon, <1>1 DEF IInv, Agrees, Recorded, OneEffect, EffectMatchesIntent
  <1>5. ASSUME NEW q \in Sessions PROVE Good(q)'
    <2> DEFINE t == tx[q]
               n == tx'[q]
    <2>1. /\ n.at = t.at /\ n.view = t.view /\ n.seen = t.seen /\ n.wrote = t.wrote
          /\ t.at # "idle" => n.stale = t.stale \cup rows
          /\ t.at = "idle" => n.stale = t.stale
      BY Zenon, <1>1, OutdatedIs DEF IInv
    <2>2. Good(q)
      BY Zenon DEF IInv
    <2>3. Owned(q)'
      BY Zenon, <1>1, <2>1, <2>2, ApprovalAssumption DEF Good, Owned, Unlocked, Outside
    <2>4. Held(q)'
      <3>1. Executing(n) <=> Executing(t)
        BY Zenon, <2>1 DEF Executing
      <3> QED
        BY Zenon, <1>1, <2>1, <2>2, <3>1 DEF Good, Held, Executing
    <2>5. ASSUME t.at # "idle" PROVE Fresh(tx[q])' /\ Placed(tx[q])'
      <3>1. Fresh(t) /\ Placed(t)
        BY Zenon, <2>2, <2>5 DEF Good
      <3>2. Fresh(tx[q])'
        BY Zenon, <1>1, <2>1, <2>5, <3>1 DEF Fresh, build_purchase_order_intent
      <3>3. Placed(tx[q])'
        <4>1. db'.attempt = db.attempt /\ db'.approval = db.approval
          BY Zenon, <1>1
        <4>2. /\ Pending(tx[q])' <=> Pending(t)
              /\ Approved(tx[q])' <=> Approved(t)
          BY Zenon, <2>1, <2>5, <4>1 DEF Pending, Approved
        <4>3. /\ Judged(tx[q])' <=> Judged(t)
              /\ Required(tx[q])' <=> Required(t)
          BY Zenon, <2>1, <4>1 DEF Judged, Required
        <4>4. /\ Executed(tx[q])' <=> Executed(t)
              /\ Consumed(tx[q])' <=> Consumed(t)
          BY <2>1, <4>1 DEF Executed, Consumed
        <4> QED
          BY Zenon, <2>1, <2>5, <3>1, <4>2, <4>3, <4>4 DEF Placed, Agrees
      <3> QED
        BY Zenon, <3>2, <3>3
    <2> QED
      BY Zenon, <2>1, <2>3, <2>4, <2>5 DEF Good
  <1> QED
    BY Zenon, <1>3, <1>4, <1>5 DEF IInv

(* Time, and steps of nobody.                                               *)
LEMMA StutterKept ==
  ASSUME IInv, UNCHANGED <<db, lock, tx, effects>>, clock' \in Nat
  PROVE  IInv'
  <1>1. Types' /\ Agrees(db)' /\ Recorded' /\ EffectMatchesIntent'
    BY Zenon DEF IInv, Types, Agrees, Recorded, OneEffect, EffectMatchesIntent
  <1>2. \A q \in Sessions : Good(q)'
    BY Zenon, Undisturbed DEF IInv
  <1> QED
    BY Zenon, <1>1, <1>2 DEF IInv

(* For the number of line changes.                                          *)
LEMMA Successor == \A i \in Nat : i + 1 \in Nat
  OBVIOUS

(* Edits, revocation and reactivation.                                      *)
LEMMA OthersKept ==
  ASSUME IInv,
         \/ EditLines
         \/ \E state \in {"draft", "to approve", "cancel"} : write(state)
         \/ RevokeDelegation \/ action_revoke \/ action_activate
  PROVE  IInv'
  <1>0. db \in Views /\ db.order.state \in OrderStates
    BY Zenon DEF IInv, Types, Views, Orders
  <1>1. CASE EditLines
    <2> DEFINE u == Written(db, db.order.state)
               l == u.lines + 1
               w == [u EXCEPT !.lines = l]
    <2>1. /\ u \in Views /\ u.order.nonce = db.order.nonce /\ u.attempt = db.attempt
          /\ u.approval = db.approval /\ u.grant = db.grant /\ u.fence = db.fence
      BY Zenon, <1>0, WrittenIs
    <2>2. Commits({"order"}, w)
      BY Zenon, <1>1 DEF EditLines, TouchedParents, LineWritten
    <2> HIDE DEF u
    <2>4. u.lines \in Nat
      BY Zenon, <2>1 DEF Views
    <2>5. l \in Nat
      BY <2>4, Successor, Zenon
    <2> HIDE DEF l
    <2>3. /\ w \in Views /\ w.order = u.order /\ w.attempt = u.attempt
          /\ w.approval = u.approval /\ w.grant = u.grant /\ w.fence = u.fence
      BY Zenon, <2>1, <2>5 DEF Views
    <2> HIDE DEF w
    <2> QED
      BY Zenon, <2>1, <2>2, <2>3, Elsewhere DEF Rows
  <1>2. ASSUME NEW state \in {"draft", "to approve", "cancel"}, write(state) PROVE IInv'
    <2>1. state \in OrderStates
      BY Zenon DEF OrderStates
    <2> QED
      BY Zenon, <1>0, <1>2, <2>1, WrittenIs, Elsewhere DEF write, Rows
  <1>3. CASE RevokeDelegation
    <2> DEFINE w == [db EXCEPT !.fence = TRUE]
    <2>1. /\ w \in Views /\ w.order = db.order /\ w.lines = db.lines /\ w.attempt = db.attempt
          /\ w.approval = db.approval /\ w.grant = db.grant
      BY Zenon, <1>0 DEF Views
    <2>2. Commits({"fence"}, w)
      BY Zenon, <1>3 DEF RevokeDelegation
    <2> HIDE DEF w
    <2> QED
      BY Zenon, <2>1, <2>2, Elsewhere DEF Rows
  <1>4. ASSUME NEW grant \in {"active", "revoked"},
               Commits({"grant", "epoch"}, [db EXCEPT !.grant = grant])
        PROVE  IInv'
    <2> DEFINE w == [db EXCEPT !.grant = grant]
    <2>1. /\ w \in Views /\ w.order = db.order /\ w.lines = db.lines /\ w.attempt = db.attempt
          /\ w.approval = db.approval /\ w.fence = db.fence
      BY Zenon, <1>0 DEF Views
    <2>2. Commits({"grant", "epoch"}, w)
      BY Zenon, <1>4
    <2> HIDE DEF w
    <2> QED
      BY Zenon, <2>1, <2>2, Elsewhere DEF Rows
  <1> QED
    BY Zenon, <1>1, <1>2, <1>3, <1>4 DEF action_revoke, action_activate

(* While a request is about to commit, no other one holds a row.            *)
LEMMA Alone ==
  ASSUME IInv, NEW s \in Sessions, tx[s].at \notin Outside, NEW q \in Sessions \ {s}
  PROVE  tx[q].at \in Outside /\ \A r \in Rows : lock[r] # q
  BY Zenon DEF IInv, Good, Held, Owned

(* The rows a request has written replace the committed ones.               *)
LEMMA CommitIs ==
  ASSUME IInv, NEW s \in Sessions, Commit(s)
  PROVE  LET t == tx[s]
         IN /\ t.at = "commit" /\ "order" \notin t.stale
            /\ t.wrote = {} \/ Judged(t) \/ Required(t) \/ Executed(t) \/ Consumed(t)
            /\ t.seen = build_purchase_order_intent(db)
            /\ db' \in Views /\ db'.lines = db.lines
            /\ db'.order = IF "order" \in t.wrote THEN t.view.order ELSE db.order
            /\ db'.attempt = IF "attempt" \in t.wrote THEN t.view.attempt ELSE db.attempt
            /\ db'.approval = IF "approval" \in t.wrote THEN t.view.approval ELSE db.approval
            /\ db'.grant = db.grant /\ db'.fence = db.fence
            /\ "attempt" \in t.wrote => "order" \in t.wrote
  <1> DEFINE t == tx[s]
  <1>1. t.at = "commit" /\ t.at \notin Outside
    BY Zenon DEF Commit, Outside
  <1>2. /\ "order" \notin t.stale /\ t.view \in Views /\ db \in Views /\ Placed(t)
        /\ t.seen = build_purchase_order_intent(db)
    BY Zenon, <1>1, NotStale, Inside
  <1>3. t.wrote = {} \/ Judged(t) \/ Required(t) \/ Executed(t) \/ Consumed(t)
    BY Zenon, <1>1, <1>2 DEF Placed
  <1>4. /\ "grant" \notin t.wrote /\ "fence" \notin t.wrote /\ "lines" \notin t.wrote
        /\ "attempt" \in t.wrote => "order" \in t.wrote
    BY Zenon, <1>3 DEF Judged, Required, Executed, Consumed
  <1>5. db' = [r \in DOMAIN db |-> IF r \in t.wrote THEN t.view[r] ELSE db[r]]
    BY Zenon DEF Commit
  <1>6. /\ db' \in Views /\ db'.lines = db.lines
        /\ db'.order = IF "order" \in t.wrote THEN t.view.order ELSE db.order
        /\ db'.attempt = IF "attempt" \in t.wrote THEN t.view.attempt ELSE db.attempt
        /\ db'.approval = IF "approval" \in t.wrote THEN t.view.approval ELSE db.approval
        /\ db'.grant = db.grant /\ db'.fence = db.fence
    BY Zenon, <1>2, <1>4, <1>5 DEF Views
  <1> QED
    BY Zenon, <1>1, <1>2, <1>3, <1>4, <1>6

(* Types after a commit, the effects aside.                                 *)
LEMMA CommitTypes ==
  ASSUME IInv, NEW s \in Sessions, Commit(s), effects' \in Seq(Effects)
  PROVE  Types'
  <1>1. Idle \in Txs
    BY Zenon DEF Idle, NewOrder, NoApproval, NoIntent, Txs, Views, Orders, Intents, Approvals,
           ApprovalStates, OrderStates, Labels
  <1>2. tx[s].wrote \in SUBSET Rows
    BY Zenon DEF IInv, Types, Txs
  <1>3. tx' \in [Sessions -> Txs]
    BY Zenon, <1>1, <1>2, OutdatedIs DEF Commit, IInv
  <1> QED
    BY Zenon, <1>3, CommitIs, ReleasedIs DEF Types, IInv, Commit

(* A commit leaves the others fresh, or makes stale what it changed.        *)
LEMMA CommitGood ==
  ASSUME IInv, NEW s \in Sessions, Commit(s), NEW q \in Sessions
  PROVE  Good(q)'
  <1> DEFINE t == tx[q]
             n == tx'[q]
             wrote == tx[s].wrote
  <1>0. tx[s].at = "commit" /\ tx[s].at \notin Outside /\ wrote \in SUBSET Rows
    BY Zenon DEF Commit, Outside, IInv, Types, Txs
  <1>1. CASE q = s
    <2>1. tx'[s] = Idle
      BY Zenon, <1>0, OutdatedIs DEF Commit, IInv
    <2> QED
      BY Zenon, <1>1, <2>1, ReleasedIs, IdleGood DEF Commit, IInv
  <1>2. CASE q # s
    <2>1. t.at \in Outside /\ \A r \in Rows : lock'[r] # q
      BY Zenon, <1>0, <1>2, Alone, ReleasedIs DEF Commit, IInv
    <2>2. /\ n.at = t.at /\ n.view = t.view /\ n.seen = t.seen /\ n.wrote = t.wrote
          /\ t.at # "idle" => n.stale = t.stale \cup wrote
      <3>1. tx' = [Outdated(wrote) EXCEPT ![s] = Idle]
        BY Zenon DEF Commit
      <3>2. tx'[q] = Outdated(wrote)[q]
        BY Zenon, <1>0, <1>2, <3>1, OutdatedIs DEF IInv
      <3> QED
        BY <1>0, <3>2, OutdatedIs DEF IInv
    <2>3. Owned(q)' /\ Held(q)'
      BY Zenon, <2>1, <2>2 DEF Owned, Held, Executing, Outside
    <2>4. ASSUME t.at # "idle" PROVE Fresh(tx[q])' /\ Placed(tx[q])'
      <3>1. /\ Fresh(t) /\ t.wrote = {} /\ (t.at = "confirm" => Agrees(t.view))
            /\ t.at \in {"confirm", "issue"}
        BY Zenon, <2>1, <2>4 DEF IInv, Good, Placed, Outside
      <3>2. Placed(tx[q])'
        BY <2>2, <3>1 DEF Placed, Agrees
      <3>3. "order" \notin n.stale => /\ n.view.lines = db'.lines /\ n.view.order = db'.order
                                     /\ n.view.attempt = db'.attempt
                                     /\ n.seen = build_purchase_order_intent(db')
        BY Zenon, <2>2, <2>4, <3>1, CommitIs DEF Fresh, build_purchase_order_intent
      <3>4. /\ "approval" \notin n.stale => n.view.approval = db'.approval
            /\ "fence" \notin n.stale => n.view.fence = db'.fence
            /\ "epoch" \notin n.stale => n.view.grant = db'.grant
        BY Zenon, <2>2, <2>4, <3>1, CommitIs DEF Fresh
      <3>5. Fresh(tx[q])'
        BY Zenon, <2>2, <3>1, <3>3, <3>4 DEF Fresh, build_purchase_order_intent
      <3> QED
        BY Zenon, <3>2, <3>5
    <2> QED
      BY Zenon, <2>2, <2>3, <2>4 DEF Good
  <1> QED
    BY Zenon, <1>1, <1>2

(* Only an execution reaches a final state.                                 *)
LEMMA Effective ==
  ASSUME IInv, NEW s \in Sessions, Commit(s), Reaches(s)
  PROVE  Executed(tx[s]) \/ Consumed(tx[s])
  <1>1. "order" \in tx[s].wrote /\ tx[s].view.order.state = "purchase"
    BY Zenon DEF Reaches, FinalStates
  <1>2. tx[s].wrote # {} /\ ~Judged(tx[s]) /\ ~Required(tx[s])
    BY <1>1 DEF Judged, Required
  <1> QED
    BY Zenon, <1>2, CommitIs

(* What a commit does to the ledger, the approval and the effects.          *)
LEMMA CommitKept ==
  ASSUME IInv, NEW s \in Sessions, Commit(s)
  PROVE  IInv'
  <1> DEFINE t == tx[s]
             e == [approved |-> t.view.approval, seen |-> t.seen,
                   found |-> build_purchase_order_intent(db)]
  <1>0. /\ t.view \in Views /\ t.view.order \in Orders /\ t.view.approval \in Approvals
        /\ t.seen \in Intents /\ t.wrote \in SUBSET Rows /\ effects \in Seq(Effects)
    BY Zenon DEF IInv, Types, Txs, Views
  <1>1. /\ t.wrote = {} \/ Judged(t) \/ Required(t) \/ Executed(t) \/ Consumed(t)
        /\ t.seen = build_purchase_order_intent(db)
        /\ db' \in Views
        /\ db'.order = IF "order" \in t.wrote THEN t.view.order ELSE db.order
        /\ db'.attempt = IF "attempt" \in t.wrote THEN t.view.attempt ELSE db.attempt
        /\ db'.approval = IF "approval" \in t.wrote THEN t.view.approval ELSE db.approval
    BY Zenon, CommitIs
  <1>2. Agrees(db) /\ Recorded /\ EffectMatchesIntent
    BY Zenon DEF IInv
  <1>3. Agrees(db)'
    <2>1. CASE t.wrote = {}
      BY <1>1, <1>2, <2>1 DEF Agrees
    <2>2. CASE Judged(t)
      BY Zenon, <1>1, <1>2, <2>2 DEF Agrees, Judged
    <2>3. CASE Required(t)
      BY Zenon, <1>1, <1>2, <2>3 DEF Agrees, Required
    <2>4. CASE Executed(t)
      BY Zenon, <1>1, <1>2, <2>4 DEF Agrees, Executed
    <2>5. CASE Consumed(t)
      BY Zenon, <1>1, <1>2, <2>5 DEF Agrees, Consumed
    <2> QED
      BY Zenon, <1>1, <2>1, <2>2, <2>3, <2>4, <2>5
  <1>4. e \in Effects /\ e.approved = t.view.approval /\ e.found = e.seen /\ e.seen = t.seen
    BY Zenon, <1>0, <1>1 DEF Effects
  <1> HIDE DEF e
  <1>5. Reaches(s) => effects' = Append(effects, e)
    BY Zenon DEF Commit, e
  <1>6. ~Reaches(s) => effects' = effects
    BY Zenon DEF Commit
  <1>7. CASE Reaches(s)
    <2>1. Executed(t) \/ Consumed(t)
      BY Zenon, <1>7, Effective
    <2>2. effects = <<>> /\ db'.attempt = "executed"
      BY Zenon, <1>1, <1>2, <2>1 DEF Recorded, Executed, Consumed
    <2>3. effects' = <<e>> /\ effects' \in Seq(Effects)
      <3>1. effects' = Append(<<>>, e)
        BY Zenon, <1>5, <1>7, <2>2
      <3>2. Append(<<>>, e) = <<e>>
        OBVIOUS
      <3> QED
        BY <1>4, <3>1, <3>2
    <2>4. Recorded'
      BY <2>2, <2>3 DEF Recorded, OneEffect
    <2>5. t.view.approval.state # "none" => t.view.approval.intent = t.seen
      BY Zenon, <2>1 DEF Executed, Consumed
    <2>6. EffectMatchesIntent'
      BY <1>4, <2>3, <2>5 DEF EffectMatchesIntent
    <2> QED
      BY Zenon, <2>3, <2>4, <2>6, <1>3, <1>1, CommitTypes, CommitGood DEF IInv
  <1>8. CASE ~Reaches(s)
    <2>1. ~Consumed(t)
      BY Zenon, <1>8 DEF Reaches, Consumed, FinalStates
    <2>2. Recorded'
      BY Zenon, <1>1, <1>2, <1>6, <1>8, <2>1
         DEF Recorded, OneEffect, Judged, Required, Executed, Agrees
    <2>3. EffectMatchesIntent'
      BY Zenon, <1>2, <1>6, <1>8 DEF EffectMatchesIntent
    <2> QED
      BY Zenon, <1>0, <1>1, <1>3, <1>6, <1>8, <2>2, <2>3, CommitTypes, CommitGood DEF IInv
  <1> QED
    BY Zenon, <1>7, <1>8

-----------------------------------------------------------------------------

(* The invariant is inductive.                                              *)
LEMMA Invariance == Spec => []IInv
  <1>1. IInv /\ [Next]_vars => IInv'
    <2> SUFFICES ASSUME IInv, [Next]_vars PROVE IInv'
      BY Zenon
    <2>1. CASE UNCHANGED vars
      BY Zenon, <2>1, StutterKept DEF vars, IInv, Types
    <2>2. CASE Tick
      BY <2>2, StutterKept DEF Tick, IInv, Types
    <2>3. ASSUME NEW s \in Sessions, Session(s) PROVE IInv'
      BY Zenon, <2>3, RequestKept, DecisionKept, FinalKept, FenceKept, ExecuteKept, IssueKept,
         BeginKept, CommitKept, RollbackKept DEF Session
    <2> QED
      BY Zenon, <2>1, <2>2, <2>3, OthersKept DEF Next
  <1> QED
    BY InitInv, <1>1, PTL DEF Spec

(* A command has at most one effect, whatever retries run beside it: the    *)
(* ledger row of purchase_order.py is read under the lock of the order.     *)
THEOREM AtMostOnce == Spec => []OneEffect
  <1>1. IInv => OneEffect
    BY Zenon DEF IInv, Recorded
  <1> QED
    BY Invariance, <1>1, PTL

(* What _prepare_final_intent compares under the lock is what is committed. *)
THEOREM AsIntended == Spec => []EffectMatchesIntent
  <1>1. IInv => EffectMatchesIntent
    BY Zenon DEF IInv
  <1> QED
    BY Invariance, <1>1, PTL

(* Ledger, approval and effect of _execute_approved_confirmation are        *)
(* committed together.                                                      *)
THEOREM Ledger == Spec => []LedgerAgrees
  <1>1. IInv => LedgerAgrees
    BY Zenon DEF IInv, Agrees, Recorded, LedgerAgrees
  <1> QED
    BY Invariance, <1>1, PTL

(* Effects, and changes of the approval, are commits of requests.           *)
LEMMA OnlyCommits ==
  ASSUME IInv, [Next]_vars
  PROVE  \/ \E s \in Sessions : Commit(s)
         \/ effects' = effects /\ db'.approval = db.approval
  <1>0. db \in Views /\ db.order.state \in OrderStates
    BY Zenon DEF IInv, Types, Views, Orders
  <1>1. CASE UNCHANGED vars \/ Tick
    BY Zenon, <1>1 DEF vars, Tick
  <1>2. ASSUME NEW s \in Sessions, Session(s), ~Commit(s) PROVE UNCHANGED <<db, effects>>
    BY Zenon, <1>2 DEF Session, Begin, delegated_request, Allowed, RequireApproval,
                prepare_final_intent, Verified, ApproverRefused,
                lock_delegation_revocation_fence, Execute, LockOrder, LockApproval,
                IssueCapability, Rollback, set_terminal, Continue
  <1>3. CASE EditLines
    <2>1. effects' = effects /\ db' = LineWritten(db)
      BY Zenon, <1>3 DEF EditLines, Commits
    <2>2. LineWritten(db).approval = Written(db, db.order.state).approval
      BY <1>0, WrittenIs DEF LineWritten, Views
    <2> QED
      BY Zenon, <1>0, <2>1, <2>2, WrittenIs
  <1>4. ASSUME NEW state \in {"draft", "to approve", "cancel"}, write(state)
        PROVE  effects' = effects /\ db'.approval = db.approval
    <2>1. state \in OrderStates
      BY Zenon DEF OrderStates
    <2> QED
      BY Zenon, <1>0, <1>4, <2>1, WrittenIs DEF write, Commits
  <1>5. CASE RevokeDelegation \/ action_revoke \/ action_activate
    BY Zenon, <1>0, <1>5 DEF RevokeDelegation, action_revoke, action_activate, Commits, Views
  <1> QED
    BY Zenon, <1>1, <1>2, <1>3, <1>4, <1>5 DEF Next

(* The fences a request holds, and the deferred deadline, keep the          *)
(* authority it checked until its effect is committed.                      *)
THEOREM Authorised == Spec => EffectsUnderAuthority
  <1>1. ASSUME IInv, [Next]_vars, effects' # effects
        PROVE  /\ ~db.fence
               /\ db.grant = "active"
               /\ clock < GrantUntil
               /\ db.approval.state # "none" => clock < db.approval.expires
    <2>1. PICK s \in Sessions : Commit(s)
      BY Zenon, <1>1, OnlyCommits
    <2> DEFINE t == tx[s]
    <2>2. Reaches(s)
      BY Zenon, <1>1, <2>1 DEF Commit
    <2>3. Executed(t) \/ Consumed(t)
      BY Zenon, <1>1, <2>1, <2>2, Effective
    <2>4. t.at = "commit" /\ Executing(t) /\ "attempt" \in t.wrote /\ t.view.attempt = "executed"
      BY Zenon, <2>1, <2>3 DEF Commit, Executing, Executed, Consumed
    <2>5. /\ lock["fence"] = s /\ ~t.view.fence /\ lock["epoch"] = s /\ Fresh(t)
          /\ "fence" \notin t.stale /\ "epoch" \notin t.stale
      BY Zenon, <1>1, <2>4 DEF IInv, Good, Held, Owned, Rows
    <2>6. ~db.fence
      BY Zenon, <2>5 DEF Fresh
    <2>7. t.view.grant = db.grant
      BY Zenon, <2>5 DEF Fresh
    <2>8. /\ GrantUntil > clock /\ t.view.grant = "active"
          /\ t.view.approval.state = "consumed" => t.view.approval.expires > clock
      BY Zenon, <2>1, <2>4 DEF Commit, check_execution_deadline
    <2>9. db.approval.state # "none" => t.view.approval.expires > clock
                                        /\ db.approval.expires = t.view.approval.expires
      BY Zenon, <1>1, <2>3, <2>8 DEF Executed, Consumed, IInv, Agrees
    <2> QED
      BY Zenon, <2>6, <2>7, <2>8, <2>9
  <1> QED
    BY Invariance, <1>1, PTL DEF Spec, EffectsUnderAuthority

(* _set_terminal and _approve write under the lock of the order, so that an *)
(* approval ends once and keeps its intent.                                 *)
THEOREM Onward == Spec => ApprovalMovesForward
  <1>1. ASSUME IInv, [Next]_vars, db.approval # db'.approval
        PROVE  LET a == db.approval
                   b == db'.approval
               IN \/ a.state = "none" /\ b.state = "pending"
                  \/ a.state = "pending" /\ b.state = "approved" /\ b.intent = a.intent
                  \/ /\ a.state = "approved"
                     /\ b \in [state : TerminalStates, intent : {a.intent}, expires : {a.expires}]
    <2>1. PICK s \in Sessions : Commit(s)
      BY Zenon, <1>1, OnlyCommits
    <2> DEFINE t == tx[s]
               b == db'.approval
    <2>2. /\ "approval" \in t.wrote /\ b = t.view.approval /\ b \in Approvals
          /\ t.wrote = {} \/ Judged(t) \/ Required(t) \/ Executed(t) \/ Consumed(t)
      BY Zenon, <1>1, <2>1, CommitIs DEF Views
    <2>3. CASE Judged(t) \/ Consumed(t)
      BY Zenon, <2>2, <2>3 DEF Judged, Consumed, Approvals, TerminalStates
    <2>4. CASE Required(t)
      BY Zenon, <1>1, <2>2, <2>4 DEF Required, IInv, Agrees
    <2> QED
      BY <2>2, <2>3, <2>4 DEF Executed
  <1> QED
    BY Invariance, <1>1, PTL DEF Spec, ApprovalMovesForward

=============================================================================

------------------------------ MODULE Revocation ------------------------------
(***************************************************************************)
(* Delegation revocations: the durable table, its LISTEN/NOTIFY channel,   *)
(* the in-memory cache of every PDP replica, and the delegated checks that *)
(* consult it.                                                             *)
(*   - RevokeDelegation persists a record, then applies it to the replica  *)
(*     that served the call (grpc_revoke.go, storage/revocation.go);       *)
(*   - a RevocationSyncer per replica listens, loads the unexpired rows,   *)
(*     then applies notifications (revocation_sync.go);                    *)
(*   - CheckAccess reads the ready flag, looks the grant up, drops an      *)
(*     expired record, and verifies the proof's window (delegation.go).    *)
(*                                                                         *)
(* A grant is a (tenant, grant) key.  Of a record only the expiry matters  *)
(* to the lookup, so a record is its expiry and 0 is "no record".  The     *)
(* clock counts seconds and is shared by all processes.                    *)
(***************************************************************************)
EXTENDS Naturals, Sequences, FiniteSets

CONSTANTS
  Replicas,    \* PDP processes
  Revokers,     \* those that are sent RevokeDelegation calls
  Checkers,     \* those that are sent delegated CheckAccess calls
  Grants,      \* (tenant, grant) keys
  TTL,         \* MaxDelegationTTL
  Skew,        \* delegationClockSkew
  MaxTime,     \* bound on the clock
  MaxRevokes,  \* bound on RevokeDelegation calls
  MaxFaults    \* bound on lost connections, failed statements and crashes

ASSUME RevocationAssumption ==
  /\ Revokers \subseteq Replicas
  /\ Checkers \subseteq Replicas
  /\ TTL \in Nat \ {0}
  /\ Skew \in Nat
  /\ MaxTime \in Nat
  /\ MaxRevokes \in Nat
  /\ MaxFaults \in Nat

None == 0

(* The goroutines that call ApplyRevocation in one process: the syncer's and *)
(* the handler of a RevokeDelegation call.                                   *)
Appliers == {"syncer", "handler"}

VARIABLES
  clock,
  window,   \* grant -> its validity in Odoo, which every proof for it carries
  row,      \* delegation_revocations
  conn,     \* the listening connection: "none", "live", or "dead" unnoticed
  queue,    \* notifications sent on it and not yet read
  syncer,   \* where RevocationSyncer.run stands; "down" while no process runs
  snap,     \* records of the snapshot still to be applied
  cache,    \* revocationMap
  ready,    \* revocationReady
  serving,  \* the first snapshot is in and the gRPC server is started
  call,     \* the RevokeDelegation call in progress
  work,     \* the record an applier is merging into the map
  check,    \* the delegated CheckAccess in progress
  revokes,
  faults

vars == <<clock, window, row, conn, queue, syncer, snap, cache, ready, serving,
          call, work, check, revokes, faults>>

dbVars == <<clock, window, row, revokes>>
linkVars == <<conn, queue, syncer, snap, ready, serving>>

(* seen is what the applier loaded from the map before it swaps.             *)
Idle == [step |-> "idle"]
Merging(g, e) == [step |-> "load", grant |-> g, expires |-> e]

(* action_activate and validateStructure: a proof's window is not empty and  *)
(* not longer than the TTL.  It need not have begun.                         *)
Windows ==
  {w \in [from : 0 .. MaxTime, until : 0 .. MaxTime] :
     w.from < w.until /\ w.until - w.from <= TTL}

(* The table outlives the processes: it may hold revocations requested at    *)
(* any time up to now.                                                       *)
Init ==
  /\ clock = 0
  /\ window \in [Grants -> Windows]
  /\ row \in [Grants -> None .. TTL]
  /\ conn = [r \in Replicas |-> "none"]
  /\ queue = [r \in Replicas |-> <<>>]
  /\ syncer = [r \in Replicas |-> "down"]
  /\ snap = [r \in Replicas |-> {}]
  /\ cache = [r \in Replicas |-> [g \in Grants |-> None]]
  /\ ready = [r \in Replicas |-> FALSE]
  /\ serving = [r \in Replicas |-> FALSE]
  /\ call = [r \in Replicas |-> Idle]
  /\ work = [r \in Replicas |-> [a \in Appliers |-> Idle]]
  /\ check = [r \in Replicas |-> Idle]
  /\ revokes = 0
  /\ faults = 0

Larger(a, b) == IF a >= b THEN a ELSE b

Fault == faults < MaxFaults /\ faults' = faults + 1

Goto(r, label) == syncer' = [syncer EXCEPT ![r] = label]

SetRevocationReady(r, b) == ready' = [ready EXCEPT ![r] = b]

Tick ==
  /\ clock < MaxTime
  /\ clock' = clock + 1
  /\ UNCHANGED <<window, row, linkVars, cache, call, work, check, revokes, faults>>

-----------------------------------------------------------------------------
(* ApplyRevocation: a record that is no longer in force is refused, others   *)
(* are merged by a load and a compare-and-swap that starts over when the     *)
(* entry changed in between.                                                 *)

InForce(e) == e > clock

ApplyLoad(r, a) ==
  /\ work[r][a].step = "load"
  /\ work' = [work EXCEPT ![r][a] =
       [step |-> "swap", grant |-> @.grant, expires |-> @.expires,
        seen |-> cache[r][@.grant]]]
  /\ UNCHANGED <<dbVars, linkVars, cache, call, check, faults>>

(* Mutant of Swapped: a plain Store of the record that was merged.           *)
Stored(r, a) == TRUE

Swapped(r, a) == cache[r][work[r][a].grant] = work[r][a].seen

ApplySwap(r, a) ==
  LET w == work[r][a] IN
  /\ w.step = "swap"
  /\ IF Swapped(r, a)
     THEN /\ cache' = [cache EXCEPT ![r][w.grant] = Larger(w.seen, w.expires)]
          /\ work' = [work EXCEPT ![r][a] = Idle]
     ELSE /\ work' = [work EXCEPT ![r][a] = Merging(w.grant, w.expires)]
          /\ UNCHANGED cache
  /\ UNCHANGED <<dbVars, linkVars, call, check, faults>>

-----------------------------------------------------------------------------
(* RevokeDelegation.  The expiry is computed from the clock before the       *)
(* record is written, so two calls may write in the other order.             *)

Expiry == clock + TTL

RevokeDelegation(r, g) ==
  /\ r \in Revokers
  /\ serving[r]
  /\ call[r].step = "idle"
  /\ revokes < MaxRevokes
  /\ revokes' = revokes + 1
  /\ call' = [call EXCEPT ![r] = [step |-> "persist", grant |-> g, expires |-> Expiry]]
  /\ UNCHANGED <<clock, window, row, linkVars, cache, work, check, faults>>

(* Mutant of Listening: the channel is joined only after the snapshot.       *)
ListeningLate == {r \in Replicas : conn[r] = "live" /\ syncer[r] = "watch"}

(* The sessions that have executed LISTEN receive what commits from then on. *)
Listening == {r \in Replicas : conn[r] = "live"}

(* INSERT ... ON CONFLICT keeps the later expiry; the merged row is the      *)
(* payload that pg_notify publishes with the commit.                         *)
PersistRevocation(g, e) ==
  LET merged == Larger(row[g], e) IN
  /\ row' = [row EXCEPT ![g] = merged]
  /\ queue' = [r \in Replicas |->
       IF r \in Listening
       THEN Append(queue[r], [grant |-> g, expires |-> merged])
       ELSE queue[r]]

Persist(r) ==
  LET c == call[r] IN
  /\ c.step = "persist"
  /\ PersistRevocation(c.grant, c.expires)
  /\ call' = [call EXCEPT ![r] =
       [step |-> "apply", grant |-> c.grant, expires |-> row'[c.grant]]]
  /\ UNCHANGED <<clock, window, conn, syncer, snap, cache, ready, serving, work,
                 check, revokes, faults>>

(* The statement fails, or it commits and only its answer is lost; either    *)
(* way the caller gets Unavailable and this replica applies nothing.         *)
PersistFails(r) ==
  LET c == call[r] IN
  /\ c.step = "persist"
  /\ Fault
  /\ \/ UNCHANGED <<row, queue>>
     \/ PersistRevocation(c.grant, c.expires)
  /\ call' = [call EXCEPT ![r] = Idle]
  /\ UNCHANGED <<clock, window, conn, syncer, snap, cache, ready, serving, work,
                 check, revokes>>

(* The handler merges the persisted record into its own map; if it expired   *)
(* in the meantime ApplyRevocation is false and the call fails.              *)
HandlerApplies(r) ==
  LET c == call[r] IN
  /\ c.step = "apply"
  /\ IF InForce(c.expires)
     THEN /\ work' = [work EXCEPT ![r]["handler"] = Merging(c.grant, c.expires)]
          /\ call' = [call EXCEPT ![r] =
               [step |-> "answer", grant |-> c.grant, expires |-> c.expires]]
     ELSE /\ call' = [call EXCEPT ![r] = Idle]
          /\ UNCHANGED work
  /\ UNCHANGED <<dbVars, linkVars, cache, check, faults>>

Answer(r) ==
  /\ call[r].step = "answer"
  /\ work[r]["handler"].step = "idle"
  /\ call' = [call EXCEPT ![r] = Idle]
  /\ UNCHANGED <<dbVars, linkVars, cache, work, check, faults>>

-----------------------------------------------------------------------------
(* RevocationSyncer.run and WatchRevocations.                                *)

(* A new process has an empty map and is not ready; its gRPC server starts   *)
(* only once Start has seen the first snapshot.                              *)
Start(r) ==
  /\ syncer[r] = "down"
  /\ Goto(r, "connect")
  /\ SetRevocationReady(r, FALSE)
  /\ UNCHANGED <<dbVars, conn, queue, snap, serving, cache, call, work, check, faults>>

Listen(r) ==
  /\ syncer[r] = "connect"
  /\ conn' = [conn EXCEPT ![r] = "live"]
  /\ queue' = [queue EXCEPT ![r] = <<>>]
  /\ SetRevocationReady(r, FALSE)
  /\ Goto(r, "load")
  /\ UNCHANGED <<dbVars, snap, serving, cache, call, work, check, faults>>

LoadSnapshot(r) ==
  /\ syncer[r] = "load"
  /\ conn[r] = "live"
  /\ snap' = [snap EXCEPT ![r] =
       {[grant |-> g, expires |-> row[g]] : g \in {h \in Grants : InForce(row[h])}}]
  /\ Goto(r, "install")
  /\ UNCHANGED <<dbVars, conn, queue, ready, serving, cache, call, work, check, faults>>

SyncerFree(r) == work[r]["syncer"].step = "idle"

Hand(r, m) ==
  work' = IF InForce(m.expires)
          THEN [work EXCEPT ![r]["syncer"] = Merging(m.grant, m.expires)]
          ELSE work

InstallNext(r) ==
  /\ syncer[r] = "install"
  /\ SyncerFree(r)
  /\ \E m \in snap[r] :
       /\ Hand(r, m)
       /\ snap' = [snap EXCEPT ![r] = @ \ {m}]
  /\ UNCHANGED <<dbVars, conn, queue, syncer, ready, serving, cache, call, check, faults>>

(* onSnapshot ends: the replica is ready, and Start returns if it waits.     *)
Installed(r) ==
  /\ syncer[r] = "install"
  /\ SyncerFree(r)
  /\ snap[r] = {}
  /\ SetRevocationReady(r, TRUE)
  /\ serving' = [serving EXCEPT ![r] = TRUE]
  /\ Goto(r, "watch")
  /\ UNCHANGED <<dbVars, conn, queue, snap, cache, call, work, check, faults>>

ReceiveNotification(r) ==
  /\ syncer[r] = "watch"
  /\ SyncerFree(r)
  /\ queue[r] # <<>>
  /\ Hand(r, Head(queue[r]))
  /\ queue' = [queue EXCEPT ![r] = Tail(@)]
  /\ UNCHANGED <<dbVars, conn, syncer, snap, ready, serving, cache, call, check, faults>>

(* The session ends on the server's side: nothing more is sent, and what was *)
(* under way may be cut anywhere.  WaitForNotification is not told yet.      *)
LoseConnection(r) ==
  /\ conn[r] = "live"
  /\ Fault
  /\ conn' = [conn EXCEPT ![r] = "dead"]
  /\ \E n \in 0 .. Len(queue[r]) : queue' = [queue EXCEPT ![r] = SubSeq(@, 1, n)]
  /\ UNCHANGED <<dbVars, syncer, snap, ready, serving, cache, call, work, check>>

(* Mutant of WatchFails: the broken watch is retried without reconnecting.   *)
WatchFailsForGood(r) ==
  /\ conn[r] = "dead"
  /\ syncer[r] \in {"load", "watch"}
  /\ SyncerFree(r)
  /\ serving[r]
  /\ conn' = [conn EXCEPT ![r] = "none"]
  /\ queue' = [queue EXCEPT ![r] = <<>>]
  /\ SetRevocationReady(r, FALSE)
  /\ Goto(r, "load")
  /\ UNCHANGED <<dbVars, snap, serving, cache, call, work, check, faults>>

(* Mutant of WatchFails: only the queries notice that the session is gone.   *)
WatchIdles(r) ==
  /\ syncer[r] # "watch"
  /\ WatchFailsForGood(r)

(* The broken session is noticed: not ready any more, reconnect in a second. *)
WatchFails(r) ==
  /\ conn[r] = "dead"
  /\ syncer[r] \in {"load", "watch"}
  /\ SyncerFree(r)
  /\ serving[r]
  /\ conn' = [conn EXCEPT ![r] = "none"]
  /\ queue' = [queue EXCEPT ![r] = <<>>]
  /\ SetRevocationReady(r, FALSE)
  /\ Goto(r, "connect")
  /\ UNCHANGED <<dbVars, snap, serving, cache, call, work, check, faults>>

Down(r) ==
  /\ Goto(r, "down")
  /\ conn' = [conn EXCEPT ![r] = "none"]
  /\ queue' = [queue EXCEPT ![r] = <<>>]
  /\ snap' = [snap EXCEPT ![r] = {}]
  /\ cache' = [cache EXCEPT ![r] = [g \in Grants |-> None]]
  /\ SetRevocationReady(r, FALSE)
  /\ serving' = [serving EXCEPT ![r] = FALSE]
  /\ call' = [call EXCEPT ![r] = Idle]
  /\ work' = [work EXCEPT ![r] = [a \in Appliers |-> Idle]]
  /\ check' = [check EXCEPT ![r] = Idle]
  /\ UNCHANGED dbVars

(* Before the first snapshot an error, or five seconds, ends the process.    *)
StartFails(r) ==
  /\ conn[r] = "dead"
  /\ ~serving[r]
  /\ Down(r)
  /\ UNCHANGED faults

(* The process is killed; a stop at any point looks the same to the others.  *)
Crash(r) ==
  /\ syncer[r] # "down"
  /\ Fault
  /\ Down(r)

-----------------------------------------------------------------------------
(* A delegated CheckAccess: ready flag, lookup, removal of an expired        *)
(* record, proof window.  settled is the row that this replica had fully     *)
(* received when the check began, None otherwise; it is a history value.     *)

UnderWay(r, g) ==
  \/ \E i \in 1 .. Len(queue[r]) : queue[r][i].grant = g
  \/ \E m \in snap[r] : m.grant = g
  \/ work[r]["syncer"].step # "idle" /\ work[r]["syncer"].grant = g

Settled(r, g) == IF conn[r] = "live" /\ ~UnderWay(r, g) THEN row[g] ELSE None

CheckReady(r, g) ==
  /\ r \in Checkers
  /\ serving[r]
  /\ check[r].step = "idle"
  /\ ready[r]
  /\ check' = [check EXCEPT ![r] =
       [step |-> "lookup", grant |-> g, settled |-> Settled(r, g)]]
  /\ UNCHANGED <<dbVars, linkVars, cache, call, work, faults>>

At(c, step) == [step |-> step, grant |-> c.grant, settled |-> c.settled]

(* IsRevoked: a record in force answers DENY at once.                        *)
Lookup(r) ==
  LET c == check[r]
      e == cache[r][c.grant] IN
  /\ c.step = "lookup"
  /\ check' = [check EXCEPT ![r] =
       IF e = None THEN At(c, "proof")
       ELSE IF InForce(e) THEN Idle
       ELSE [step |-> "delete", grant |-> c.grant, settled |-> c.settled, seen |-> e]]
  /\ UNCHANGED <<dbVars, linkVars, cache, call, work, faults>>

Unchanged(r) == cache[r][check[r].grant] = check[r].seen

DeleteExpired(r) ==
  LET c == check[r] IN
  /\ c.step = "delete"
  /\ cache' = IF Unchanged(r) THEN [cache EXCEPT ![r][c.grant] = None] ELSE cache
  /\ check' = [check EXCEPT ![r] = At(c, "proof")]
  /\ UNCHANGED <<dbVars, linkVars, call, work, faults>>

(* Mutant of ProofActive: a proof is active from its start on.               *)
ProofBegun(g) == window[g].from <= clock + Skew

(* validateAt of both proof versions.                                        *)
ProofActive(g) == window[g].from <= clock + Skew /\ clock <= window[g].until

VerifyProof(r) ==
  LET c == check[r] IN
  /\ c.step = "proof"
  /\ check' = [check EXCEPT ![r] = IF ProofActive(c.grant) THEN At(c, "accepted") ELSE Idle]
  /\ UNCHANGED <<dbVars, linkVars, cache, call, work, faults>>

(* The policies decide on the accepted delegation and the call returns.      *)
Decide(r) ==
  /\ check[r].step = "accepted"
  /\ check' = [check EXCEPT ![r] = Idle]
  /\ UNCHANGED <<dbVars, linkVars, cache, call, work, faults>>

-----------------------------------------------------------------------------
Apply(r) == \E a \in Appliers : ApplyLoad(r, a) \/ ApplySwap(r, a)

Revoking(r) ==
  \/ \E g \in Grants : RevokeDelegation(r, g)
  \/ Persist(r)
  \/ PersistFails(r)
  \/ HandlerApplies(r)
  \/ Answer(r)

Syncing(r) ==
  \/ Start(r)
  \/ Listen(r)
  \/ LoadSnapshot(r)
  \/ InstallNext(r)
  \/ Installed(r)
  \/ ReceiveNotification(r)
  \/ WatchFails(r)
  \/ StartFails(r)

Checking(r) ==
  \/ \E g \in Grants : CheckReady(r, g)
  \/ Lookup(r)
  \/ DeleteExpired(r)
  \/ VerifyProof(r)
  \/ Decide(r)

Next ==
  \/ Tick
  \/ \E r \in Replicas :
       Apply(r) \/ Revoking(r) \/ Syncing(r) \/ Checking(r)
         \/ LoseConnection(r) \/ Crash(r)

(* Goroutines that can run do run, the server's connection loss is noticed,  *)
(* and a process that is down is started again.                              *)
Fairness ==
  \A r \in Replicas :
    /\ WF_vars(Syncing(r))
    /\ \A a \in Appliers : WF_vars(ApplyLoad(r, a) \/ ApplySwap(r, a))

Spec == Init /\ [][Next]_vars
FairSpec == Spec /\ Fairness

-----------------------------------------------------------------------------

(* WatchRevocations listens before it loads: on a ready replica whose        *)
(* session is alive, every row in force is in the map or still on its way    *)
(* there.  No commit falls between the snapshot and the notifications.       *)
NoLostRevocation ==
  \A r \in Replicas, g \in Grants :
    ready[r] /\ conn[r] = "live" /\ InForce(row[g]) =>
      \/ cache[r][g] >= row[g]
      \/ UnderWay(r, g)

(* ApplyRevocation, IsRevoked and duplicate or reordered events, run by      *)
(* several goroutines at once, never remove or shorten a record in force     *)
(* while the process lives.                                                  *)
RevocationsOnlyGrow ==
  [][\A r \in Replicas, g \in Grants :
       syncer'[r] # "down" /\ InForce(cache[r][g]) => cache'[r][g] >= cache[r][g]]_vars

(* Once a replica has received a revocation that was requested after the     *)
(* grant's validity began, no check it starts later accepts the delegation:  *)
(* until the record expires it denies, and by then the proof has expired.    *)
RevokedStaysDenied ==
  \A r \in Replicas :
    LET c == check[r] IN
    c.step = "accepted" /\ c.settled # None => c.settled - TTL <= window[c.grant].from

(* A committed revocation reaches every replica, or the replica refuses      *)
(* delegated checks, or the record is past its expiry.                       *)
RevocationReachesReplicas ==
  \A r \in Replicas, g \in Grants :
    InForce(row[g]) ~> (cache[r][g] >= row[g] \/ ~ready[r] \/ ~InForce(row[g]))

(* A replica whose watch broke reconnects and becomes ready again.           *)
ReplicasRecover == \A r \in Replicas : []<>ready[r]
=============================================================================

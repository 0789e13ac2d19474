-------------------------- MODULE RevocationProofs --------------------------
(***************************************************************************)
(* NoLostRevocation, RevocationsOnlyGrow and RevokedStaysDenied for any    *)
(* replicas, grants, clock, number of calls and number of faults.  The     *)
(* inductive invariant follows a revocation from its row to the map, and a *)
(* check from what had arrived when it began to what it accepts.           *)
(***************************************************************************)
EXTENDS Revocation, TLAPS

Messages == [grant : Grants, expires : Nat]

Calls == {Idle} \cup [step : {"persist", "apply", "answer"}, grant : Grants, expires : Nat]

Loading == [step : {"load"}, grant : Grants, expires : Nat]
Swapping == [step : {"swap"}, grant : Grants, expires : Nat, seen : Nat]
Works == {Idle} \cup Loading \cup Swapping

Deleting == [step : {"delete"}, grant : Grants, settled : Nat, seen : Nat]
Passing == [step : {"lookup", "proof", "accepted"}, grant : Grants, settled : Nat]
Checks == {Idle} \cup Deleting \cup Passing

DatabaseTypes ==
  /\ clock \in Nat
  /\ window \in [Grants -> Windows]
  /\ row \in [Grants -> Nat]

LinkTypes ==
  /\ conn \in [Replicas -> {"none", "live", "dead"}]
  /\ queue \in [Replicas -> Seq(Messages)]
  /\ syncer \in [Replicas -> {"down", "connect", "load", "install", "watch"}]
  /\ snap \in [Replicas -> SUBSET Messages]
  /\ ready \in [Replicas -> BOOLEAN]
  /\ serving \in [Replicas -> BOOLEAN]

ProcessTypes ==
  /\ cache \in [Replicas -> [Grants -> Nat]]
  /\ call \in [Replicas -> Calls]
  /\ work \in [Replicas -> [Appliers -> Works]]
  /\ check \in [Replicas -> Checks]

Types == DatabaseTypes /\ LinkTypes /\ ProcessTypes

(* Only the watch loop, after the snapshot, keeps a replica ready.          *)
ReadyWatches == \A r \in Replicas : ready[r] => syncer[r] = "watch"

(* A record of g that is at least as late as its row is in the map of r, in *)
(* the hands of its syncer, or waits to be read.                            *)
InHand(r, g) ==
  LET w == work[r]["syncer"] IN w.step # "idle" /\ w.grant = g /\ w.expires >= row[g]
InSnapshot(r, g) == \E m \in snap[r] : m.grant = g /\ m.expires >= row[g]
InQueue(r, g) ==
  \E i \in 1 .. Len(queue[r]) : queue[r][i].grant = g /\ queue[r][i].expires >= row[g]
Carried(r, g) ==
  cache[r][g] >= row[g] \/ InHand(r, g) \/ InSnapshot(r, g) \/ InQueue(r, g)

(* From the moment a live session has loaded its snapshot, every row in     *)
(* force is carried.                                                        *)
Following(r) == conn[r] = "live" /\ syncer[r] \in {"install", "watch"}
NoneMissed ==
  \A r \in Replicas, g \in Grants : Following(r) /\ InForce(row[g]) => Carried(r, g)

(* A check that has not looked yet will find what was settled if it is in   *)
(* force; one that went on went on because it no longer was.                *)
Consistent(c, held) ==
  /\ c.step = "lookup" /\ InForce(c.settled) => held[c.grant] >= c.settled
  /\ c.step \in {"delete", "proof", "accepted"} => ~InForce(c.settled)
  /\ c.step = "delete" => ~InForce(c.seen)
  /\ c.step = "accepted" => c.settled <= window[c.grant].until
ChecksConsistent == \A r \in Replicas : Consistent(check[r], cache[r])

IInv == Types /\ ReadyWatches /\ NoneMissed /\ ChecksConsistent

-----------------------------------------------------------------------------

(* A record's place tells which fields it has.                              *)
LEMMA Shapes ==
  /\ \A w \in Works : /\ w.step = "load" => w \in Loading
                      /\ w.step = "swap" => w \in Swapping
                      /\ w.step # "idle" => w.grant \in Grants /\ w.expires \in Nat
  /\ \A c \in Calls : c.step # "idle" => c.grant \in Grants /\ c.expires \in Nat
  /\ \A c \in Checks : /\ c.step = "delete" => c \in Deleting
                       /\ c.step # "idle" => c.grant \in Grants /\ c.settled \in Nat
  BY DEF Works, Loading, Swapping, Calls, Checks, Deleting, Passing, Idle

(* Initially no process runs; the table may hold earlier revocations.       *)
LEMMA InitInv == Init => IInv
  <1> SUFFICES ASSUME Init PROVE IInv
    BY Zenon
  <1> USE DEF Init
  <1>1. Types
    BY DEF Types, DatabaseTypes, LinkTypes, ProcessTypes, None, Calls, Works, Checks
  <1>2. ReadyWatches
    BY Zenon DEF ReadyWatches
  <1>3. NoneMissed
    BY Zenon DEF NoneMissed, Following
  <1>4. ChecksConsistent
    BY Zenon DEF ChecksConsistent, Consistent, Idle
  <1> QED
    BY Zenon, <1>1, <1>2, <1>3, <1>4 DEF IInv

-----------------------------------------------------------------------------
(* Types.                                                                   *)

(* The merged expiry is one of the two.                                     *)
LEMMA LargerIs ==
  ASSUME NEW a \in Nat, NEW b \in Nat
  PROVE  Larger(a, b) \in Nat /\ Larger(a, b) >= a /\ Larger(a, b) >= b
  BY DEF Larger

(* What PersistRevocation leaves in the table and in the queues.            *)
LEMMA PersistTypes ==
  ASSUME Types, NEW g \in Grants, NEW e \in Nat, PersistRevocation(g, e)
  PROVE  row' \in [Grants -> Nat] /\ queue' \in [Replicas -> Seq(Messages)]
  <1>1. Larger(row[g], e) \in Nat
    BY Zenon, LargerIs DEF Types, DatabaseTypes
  <1>2. row' \in [Grants -> Nat]
    BY Zenon, <1>1 DEF PersistRevocation, Types, DatabaseTypes
  <1>3. [grant |-> g, expires |-> Larger(row[g], e)] \in Messages
    BY Zenon, <1>1 DEF Messages
  <1>4. ASSUME NEW r \in Replicas
        PROVE  (IF r \in Listening
                THEN Append(queue[r], [grant |-> g, expires |-> Larger(row[g], e)])
                ELSE queue[r]) \in Seq(Messages)
    BY <1>3 DEF Types, LinkTypes
  <1> QED
    BY Zenon, <1>2, <1>4 DEF PersistRevocation

(* ApplyRevocation keeps the types.                                         *)
LEMMA ApplyTypes ==
  ASSUME Types, NEW r \in Replicas, NEW a \in Appliers, ApplyLoad(r, a) \/ ApplySwap(r, a)
  PROVE  Types'
  <1> DEFINE w == work[r][a]
  <1>0. w \in Works
    BY Zenon DEF Types, ProcessTypes
  <1>1. CASE ApplyLoad(r, a)
    <2>1. w \in Loading
      BY Zenon, <1>0, <1>1, Shapes DEF ApplyLoad
    <2>2. [step |-> "swap", grant |-> w.grant, expires |-> w.expires,
           seen |-> cache[r][w.grant]] \in Works
      BY <2>1 DEF Loading, Works, Swapping, Types, ProcessTypes
    <2>3. work' \in [Replicas -> [Appliers -> Works]]
      BY Zenon, <1>1, <2>2 DEF ApplyLoad, Types, ProcessTypes
    <2> QED
      BY Zenon, <1>1, <2>3
         DEF ApplyLoad, Types, DatabaseTypes, LinkTypes, ProcessTypes, dbVars, linkVars
  <1>2. CASE ApplySwap(r, a)
    <2>1. w \in Swapping
      BY Zenon, <1>0, <1>2, Shapes DEF ApplySwap
    <2>2. Idle \in Works /\ Merging(w.grant, w.expires) \in Works
      BY Zenon, <2>1 DEF Works, Loading, Swapping, Merging
    <2>3. Larger(w.seen, w.expires) \in Nat
      BY Zenon, <2>1, LargerIs DEF Swapping
    <2>4. work' \in [Replicas -> [Appliers -> Works]]
      <3>1. PICK v \in Works : work' = [work EXCEPT ![r][a] = v]
        BY Zenon, <1>2, <2>2 DEF ApplySwap
      <3> QED
        BY Zenon, <3>1 DEF Types, ProcessTypes
    <2>5. cache' \in [Replicas -> [Grants -> Nat]]
      BY <1>2, <2>3 DEF ApplySwap, Types, ProcessTypes
    <2> QED
      BY Zenon, <1>2, <2>4, <2>5
      DEF ApplySwap, Types, DatabaseTypes, LinkTypes, ProcessTypes, dbVars, linkVars
  <1> QED
    BY Zenon, <1>1, <1>2

(* RevokeDelegation keeps the types.                                        *)
LEMMA RevokingTypes ==
  ASSUME Types, NEW r \in Replicas, Revoking(r)
  PROVE  Types'
  <1> DEFINE c == call[r]
  <1> USE DEF Types, DatabaseTypes, LinkTypes, ProcessTypes, dbVars, linkVars
  <1>0. c \in Calls /\ (c.step # "idle" => c.grant \in Grants /\ c.expires \in Nat)
    BY Zenon, Shapes
  <1>1. ASSUME NEW g \in Grants, RevokeDelegation(r, g) PROVE Types'
    <2>1. [step |-> "persist", grant |-> g, expires |-> Expiry] \in Calls
      BY RevocationAssumption DEF Calls, Expiry
    <2> QED
      BY Zenon, <1>1, <2>1 DEF RevokeDelegation
  <1>2. CASE Persist(r)
    <2>1. PersistRevocation(c.grant, c.expires) /\ c.grant \in Grants /\ c.expires \in Nat
      BY Zenon, <1>0, <1>2 DEF Persist
    <2>2. row' \in [Grants -> Nat] /\ queue' \in [Replicas -> Seq(Messages)]
      BY Zenon, <2>1, PersistTypes
    <2>3. [step |-> "apply", grant |-> c.grant, expires |-> row'[c.grant]] \in Calls
      BY Zenon, <2>1, <2>2 DEF Calls
    <2> QED
      BY Zenon, <1>2, <2>2, <2>3 DEF Persist
  <1>3. CASE PersistFails(r)
    <2>1. c.grant \in Grants /\ c.expires \in Nat
      BY Zenon, <1>0, <1>3 DEF PersistFails
    <2>2. row' \in [Grants -> Nat] /\ queue' \in [Replicas -> Seq(Messages)]
      BY Zenon, <1>3, <2>1, PersistTypes DEF PersistFails
    <2> QED
      BY Zenon, <1>3, <2>2 DEF PersistFails, Calls
  <1>4. CASE HandlerApplies(r)
    <2>1. c.grant \in Grants /\ c.expires \in Nat
      BY Zenon, <1>0, <1>4 DEF HandlerApplies
    <2>2. Merging(c.grant, c.expires) \in Works
      BY Zenon, <2>1 DEF Works, Loading, Merging
    <2>3. [step |-> "answer", grant |-> c.grant, expires |-> c.expires] \in Calls
          /\ Idle \in Calls
      BY Zenon, <2>1 DEF Calls
    <2>4. call' \in [Replicas -> Calls]
      BY Zenon, <1>4, <2>3 DEF HandlerApplies
    <2>5. work' \in [Replicas -> [Appliers -> Works]]
      <3>1. CASE InForce(c.expires)
        <4>1. work' = [work EXCEPT ![r]["handler"] = Merging(c.grant, c.expires)]
          BY Zenon, <1>4, <3>1 DEF HandlerApplies
        <4> QED
          BY Zenon, <2>2, <4>1 DEF Appliers
      <3>2. CASE ~InForce(c.expires)
        BY Zenon, <1>4, <3>2 DEF HandlerApplies
      <3> QED
        BY Zenon, <3>1, <3>2
    <2> QED
      BY Zenon, <1>4, <2>4, <2>5 DEF HandlerApplies
  <1>5. CASE Answer(r)
    BY Zenon, <1>5 DEF Answer, Calls
  <1> QED
    BY Zenon, <1>1, <1>2, <1>3, <1>4, <1>5 DEF Revoking

(* A record handed to the syncer's goroutine is a record.                   *)
LEMMA HandTypes ==
  ASSUME Types, NEW r \in Replicas, NEW m \in Messages, Hand(r, m)
  PROVE  work' \in [Replicas -> [Appliers -> Works]]
  <1>1. Merging(m.grant, m.expires) \in Works
    BY Zenon DEF Messages, Works, Loading, Merging
  <1> QED
    BY Zenon, <1>1 DEF Hand, Types, ProcessTypes, Appliers

(* The end of a process keeps the types.                                    *)
LEMMA DownTypes ==
  ASSUME Types, NEW r \in Replicas, Down(r)
  PROVE  Types'
  <1>1. Idle \in Calls /\ Idle \in Works /\ Idle \in Checks /\ <<>> \in Seq(Messages)
    BY DEF Calls, Works, Checks
  <1>2. [g \in Grants |-> None] \in [Grants -> Nat]
        /\ [a \in Appliers |-> Idle] \in [Appliers -> Works]
    BY Zenon, <1>1 DEF None
  <1> QED
    BY Zenon, <1>1, <1>2 DEF Down, Goto, SetRevocationReady, Types, DatabaseTypes, LinkTypes,
                      ProcessTypes, dbVars

(* RevocationSyncer keeps the types.                                        *)
LEMMA SyncingTypes ==
  ASSUME Types, NEW r \in Replicas, Syncing(r) \/ LoseConnection(r)
  PROVE  Types'
  <1> USE DEF Types, DatabaseTypes, LinkTypes, ProcessTypes, dbVars
  <1>1. CASE Start(r)
    BY Zenon, <1>1 DEF Start, Goto, SetRevocationReady
  <1>2. CASE Listen(r)
    BY <1>2 DEF Listen, Goto, SetRevocationReady
  <1>3. CASE LoadSnapshot(r)
    <2>1. {[grant |-> g, expires |-> row[g]] : g \in {h \in Grants : InForce(row[h])}}
            \in SUBSET Messages
      BY DEF Messages
    <2> QED
      BY Zenon, <1>3, <2>1 DEF LoadSnapshot, Goto
  <1>4. CASE InstallNext(r)
    <2>1. PICK m \in snap[r] : Hand(r, m) /\ snap' = [snap EXCEPT ![r] = @ \ {m}]
      BY Zenon, <1>4 DEF InstallNext
    <2>2. work' \in [Replicas -> [Appliers -> Works]]
      BY Zenon, <2>1, HandTypes
    <2> QED
      BY Zenon, <1>4, <2>1, <2>2 DEF InstallNext
  <1>5. CASE Installed(r)
    BY Zenon, <1>5 DEF Installed, Goto, SetRevocationReady
  <1>6. CASE ReceiveNotification(r)
    <2>1. queue[r] \in Seq(Messages) /\ queue[r] # <<>>
      BY Zenon, <1>6 DEF ReceiveNotification
    <2>2. Head(queue[r]) \in Messages /\ Tail(queue[r]) \in Seq(Messages)
      BY <2>1
    <2>3. work' \in [Replicas -> [Appliers -> Works]]
      BY Zenon, <1>6, <2>2, HandTypes DEF ReceiveNotification
    <2> QED
      BY Zenon, <1>6, <2>2, <2>3 DEF ReceiveNotification
  <1>7. CASE WatchFails(r)
    BY <1>7 DEF WatchFails, Goto, SetRevocationReady
  <1>8. CASE StartFails(r)
    BY Zenon, <1>8, DownTypes DEF StartFails
  <1>9. CASE LoseConnection(r)
    <2>1. PICK n \in 0 .. Len(queue[r]) : queue' = [queue EXCEPT ![r] = SubSeq(@, 1, n)]
      BY Zenon, <1>9 DEF LoseConnection
    <2>2. queue[r] \in Seq(Messages) /\ SubSeq(queue[r], 1, n) \in Seq(Messages)
      OBVIOUS
    <2> QED
      BY Zenon, <1>9, <2>1, <2>2 DEF LoseConnection
  <1> QED
    BY Zenon, <1>1, <1>2, <1>3, <1>4, <1>5, <1>6, <1>7, <1>8, <1>9 DEF Syncing

(* Delegated checks keep the types.                                         *)
LEMMA CheckingTypes ==
  ASSUME Types, NEW r \in Replicas, Checking(r)
  PROVE  Types'
  <1> DEFINE c == check[r]
  <1>0. /\ c \in Checks
        /\ c.step # "idle" => c.grant \in Grants /\ c.settled \in Nat
    BY Zenon, Shapes DEF Types, ProcessTypes
  <1>1. Idle \in Checks
    BY Zenon DEF Checks
  <1>2. \A step \in {"lookup", "proof", "accepted"} : c.step # "idle" => At(c, step) \in Checks
    BY Zenon, <1>0 DEF Checks, Passing, At
  <1>3. ASSUME NEW g \in Grants, CheckReady(r, g)
        PROVE  (\E v \in Checks : check' = [check EXCEPT ![r] = v]) /\ cache' = cache
    <2>1. Settled(r, g) \in Nat
      BY Zenon DEF Settled, None, Types, DatabaseTypes
    <2>2. [step |-> "lookup", grant |-> g, settled |-> Settled(r, g)] \in Checks
      BY Zenon, <2>1 DEF Checks, Passing
    <2> QED
      BY Zenon, <1>3, <2>2 DEF CheckReady
  <1>4. ASSUME Lookup(r)
        PROVE  (\E v \in Checks : check' = [check EXCEPT ![r] = v]) /\ cache' = cache
    <2>1. c.step = "lookup" /\ c.grant \in Grants /\ c.settled \in Nat
      BY Zenon, <1>0, <1>4 DEF Lookup
    <2>2. [step |-> "delete", grant |-> c.grant, settled |-> c.settled,
           seen |-> cache[r][c.grant]] \in Checks
      BY Zenon, <2>1 DEF Checks, Deleting, Types, ProcessTypes
    <2> QED
      BY Zenon, <1>1, <1>2, <1>4, <2>1, <2>2 DEF Lookup
  <1>5. ASSUME DeleteExpired(r)
        PROVE  /\ \E v \in Checks : check' = [check EXCEPT ![r] = v]
               /\ cache' \in [Replicas -> [Grants -> Nat]]
    <2>1. c.step = "delete" /\ c.grant \in Grants
      BY Zenon, <1>0, <1>5 DEF DeleteExpired
    <2>2. cache' \in [Replicas -> [Grants -> Nat]]
      BY Zenon, <1>5, <2>1 DEF DeleteExpired, None, Types, ProcessTypes
    <2> QED
      BY Zenon, <1>2, <1>5, <2>1, <2>2 DEF DeleteExpired
  <1>6. ASSUME VerifyProof(r) \/ Decide(r)
        PROVE  (\E v \in Checks : check' = [check EXCEPT ![r] = v]) /\ cache' = cache
    BY Zenon, <1>1, <1>2, <1>6 DEF VerifyProof, Decide
  <1>7. PICK v \in Checks : check' = [check EXCEPT ![r] = v]
    BY Zenon, <1>3, <1>4, <1>5, <1>6 DEF Checking
  <1>8. cache' \in [Replicas -> [Grants -> Nat]]
    BY Zenon, <1>3, <1>4, <1>5, <1>6 DEF Checking, Types, ProcessTypes
  <1>9. UNCHANGED <<dbVars, linkVars, call, work>>
    BY Zenon DEF Checking, CheckReady, Lookup, DeleteExpired, VerifyProof, Decide
  <1> QED
    BY Zenon, <1>7, <1>8, <1>9 DEF Types, DatabaseTypes, LinkTypes, ProcessTypes, dbVars, linkVars

(* Every step keeps the types.                                              *)
LEMMA TypesKept ==
  ASSUME Types, [Next]_vars
  PROVE  Types'
  <1>1. CASE UNCHANGED vars
    BY Zenon, <1>1 DEF vars, Types, DatabaseTypes, LinkTypes, ProcessTypes
  <1>2. CASE Tick
    BY <1>2 DEF Tick, Types, DatabaseTypes, LinkTypes, ProcessTypes, linkVars
  <1>3. ASSUME NEW r \in Replicas, Crash(r) PROVE Types'
    BY Zenon, <1>3, DownTypes DEF Crash
  <1> QED
    BY Zenon, <1>1, <1>2, <1>3, ApplyTypes, RevokingTypes, SyncingTypes, CheckingTypes
       DEF Next, Apply

-----------------------------------------------------------------------------
(* The map and the checks.                                                  *)

(* Time passes, windows stay, and who changes a map and a check.            *)
LEMMA Steps ==
  ASSUME Types, [Next]_vars, NEW r \in Replicas
  PROVE  /\ clock' >= clock
         /\ window' = window
         /\ \/ Down(r)
            \/ Checking(r)
            \/ check'[r] = check[r] /\ cache'[r] = cache[r]
            \/ check'[r] = check[r] /\ \E a \in Appliers : ApplySwap(r, a)
  <1> USE DEF dbVars, linkVars, Types, DatabaseTypes, ProcessTypes
  <1>1. CASE UNCHANGED vars
    BY <1>1 DEF vars
  <1>2. CASE Tick
    BY <1>2 DEF Tick
  <1>3. ASSUME NEW q \in Replicas, NEW a \in Appliers, ApplyLoad(q, a)
        PROVE  UNCHANGED <<clock, window, check, cache>>
    BY Zenon, <1>3 DEF ApplyLoad
  <1>4. ASSUME NEW q \in Replicas, NEW a \in Appliers, ApplySwap(q, a)
        PROVE  UNCHANGED <<clock, window, check>> /\ (q # r => cache'[r] = cache[r])
    BY Zenon, <1>4 DEF ApplySwap
  <1>5. ASSUME NEW q \in Replicas, Revoking(q)
        PROVE  UNCHANGED <<clock, window, check, cache>>
    BY Zenon, <1>5 DEF Revoking, RevokeDelegation, Persist, PersistFails, HandlerApplies, Answer
  <1>6. ASSUME NEW q \in Replicas, Down(q)
        PROVE  /\ UNCHANGED <<clock, window>>
               /\ q # r => check'[r] = check[r] /\ cache'[r] = cache[r]
    BY Zenon, <1>6 DEF Down
  <1>7. ASSUME NEW q \in Replicas, Syncing(q) \/ LoseConnection(q)
        PROVE  Down(q) \/ UNCHANGED <<clock, window, check, cache>>
    BY Zenon, <1>7 DEF Syncing, Start, Listen, LoadSnapshot, InstallNext, Installed,
                ReceiveNotification, WatchFails, StartFails, LoseConnection
  <1>8. ASSUME NEW q \in Replicas, Checking(q)
        PROVE  /\ UNCHANGED <<clock, window>>
               /\ q # r => check'[r] = check[r] /\ cache'[r] = cache[r]
    BY Zenon, <1>8 DEF Checking, CheckReady, Lookup, DeleteExpired, VerifyProof, Decide
  <1>9. ASSUME NEW q \in Replicas, Crash(q) PROVE Down(q)
    BY Zenon, <1>9 DEF Crash
  <1> QED
    BY <1>1, <1>2, <1>3, <1>4, <1>5, <1>6, <1>7, <1>8, <1>9 DEF Next, Apply

(* ApplySwap and DeleteExpired never lower an entry in force: the swap adds *)
(* to what it finds, and what is deleted had expired when it was read.      *)
LEMMA EntriesGrow ==
  ASSUME Types, ChecksConsistent, [Next]_vars, NEW r \in Replicas, NEW g \in Grants,
         ~Down(r), InForce(cache[r][g])
  PROVE  cache'[r][g] >= cache[r][g]
  <1>0. cache[r][g] \in Nat /\ clock \in Nat /\ cache'[r][g] \in Nat
    BY Zenon, TypesKept DEF Types, DatabaseTypes, ProcessTypes
  <1>1. ASSUME NEW a \in Appliers, ApplySwap(r, a)
        PROVE  cache'[r][g] >= cache[r][g]
    <2> DEFINE w == work[r][a]
    <2>1. w \in Swapping
      BY <1>1, Shapes DEF ApplySwap, Types, ProcessTypes
    <2>2. Larger(w.seen, w.expires) >= w.seen
      BY Zenon, <2>1, LargerIs DEF Swapping
    <2>3. CASE Swapped(r, a) /\ w.grant = g
      BY <1>0, <1>1, <2>2, <2>3 DEF ApplySwap, Swapped, Types, ProcessTypes
    <2>4. CASE ~(Swapped(r, a) /\ w.grant = g)
      BY <1>0, <1>1, <2>4 DEF ApplySwap, Types, ProcessTypes
    <2> QED
      BY Zenon, <2>3, <2>4
  <1>2. ASSUME Checking(r)
        PROVE  cache'[r][g] >= cache[r][g]
    <2>1. CASE DeleteExpired(r)
      <3>1. check[r].step = "delete" /\ ~InForce(check[r].seen)
        BY Zenon, <2>1 DEF DeleteExpired, ChecksConsistent, Consistent
      <3>2. check[r].grant = g => ~Unchanged(r)
        BY Zenon, <3>1 DEF Unchanged
      <3> QED
        BY <1>0, <2>1, <3>2 DEF DeleteExpired, Types, ProcessTypes
    <2>2. CASE ~DeleteExpired(r)
      BY <1>0, <1>2, <2>2 DEF Checking, CheckReady, Lookup, VerifyProof, Decide
    <2> QED
      BY Zenon, <2>1, <2>2
  <1> QED
    BY <1>0, <1>1, <1>2, Steps

(* A check stays consistent: what it has to find is still there, and what   *)
(* had expired has expired.                                                 *)
LEMMA ChecksKept ==
  ASSUME IInv, [Next]_vars
  PROVE  ChecksConsistent'
  <1> SUFFICES ASSUME NEW r \in Replicas PROVE Consistent(check[r], cache[r])'
    BY Zenon DEF ChecksConsistent
  <1> DEFINE c == check[r]
  <1>0. /\ Types /\ Types' /\ ChecksConsistent /\ Consistent(c, cache[r])
        /\ clock \in Nat /\ clock' \in Nat /\ clock' >= clock /\ window' = window
        /\ c \in Checks
        /\ c.step # "idle" => c.grant \in Grants /\ c.settled \in Nat
    BY Zenon, TypesKept, Steps, Shapes
       DEF IInv, ChecksConsistent, Types, DatabaseTypes, ProcessTypes
  <1>1. CASE Down(r)
    BY Zenon, <1>0, <1>1 DEF Down, Consistent, Idle, Types, ProcessTypes
  <1>2. CASE check'[r] = check[r] /\ ~Down(r)
    <2>1. c.step = "lookup" /\ InForce(c.settled)' => cache'[r][c.grant] >= c.settled
      <3> SUFFICES ASSUME c.step = "lookup", InForce(c.settled)'
                   PROVE  cache'[r][c.grant] >= c.settled
        BY Zenon
      <3>0. c.grant \in Grants /\ c.settled \in Nat
        BY Zenon, <1>0
      <3>1. InForce(c.settled) /\ cache[r][c.grant] >= c.settled
        BY <1>0, <1>2, <3>0 DEF InForce, Consistent
      <3>2. cache[r][c.grant] \in Nat /\ cache'[r][c.grant] \in Nat
        BY Zenon, <1>0, <3>0 DEF Types, ProcessTypes
      <3>3. InForce(cache[r][c.grant])
        BY <1>0, <3>0, <3>1, <3>2 DEF InForce
      <3>4. cache'[r][c.grant] >= cache[r][c.grant]
        BY Zenon, <1>0, <1>2, <3>0, <3>3, EntriesGrow
      <3> QED
        BY <3>0, <3>1, <3>2, <3>4
    <2>2. c.step = "delete" => c.seen \in Nat
      BY Zenon, <1>0, Shapes DEF Deleting
    <2> QED
      BY <1>0, <1>2, <2>1, <2>2 DEF Consistent, InForce
  <1>3. ASSUME NEW g \in Grants, CheckReady(r, g)
        PROVE  Consistent(check[r], cache[r])'
    <2> DEFINE n == [step |-> "lookup", grant |-> g, settled |-> Settled(r, g)]
    <2>1. check'[r] = n /\ cache' = cache /\ clock' = clock
      BY Zenon, <1>0, <1>3 DEF CheckReady, Types, ProcessTypes, dbVars
    <2>2. row[g] \in Nat /\ cache[r][g] \in Nat
      BY Zenon, <1>0 DEF Types, DatabaseTypes, ProcessTypes
    <2>3. InForce(Settled(r, g)) => cache[r][g] >= Settled(r, g)
      <3>1. CASE conn[r] = "live" /\ ~UnderWay(r, g)
        <4>1. Following(r) /\ Settled(r, g) = row[g]
          BY Zenon, <1>3, <3>1 DEF CheckReady, IInv, ReadyWatches, Following, Settled
        <4>2. ~InHand(r, g) /\ ~InSnapshot(r, g) /\ ~InQueue(r, g)
          BY Zenon, <3>1 DEF UnderWay, InHand, InSnapshot, InQueue
        <4> QED
          BY Zenon, <4>1, <4>2 DEF IInv, NoneMissed, Carried
      <3>2. CASE ~(conn[r] = "live" /\ ~UnderWay(r, g))
        BY <1>0, <3>2 DEF Settled, None, InForce
      <3> QED
        BY Zenon, <3>1, <3>2
    <2> QED
      BY <2>1, <2>3 DEF Consistent, InForce
  <1>4. CASE Lookup(r)
    <2>0. c.step = "lookup" /\ c.grant \in Grants /\ c.settled \in Nat
      BY Zenon, <1>0, <1>4 DEF Lookup
    <2>1. cache[r][c.grant] \in Nat /\ cache' = cache /\ clock' = clock
      BY <1>0, <1>4, <2>0 DEF Lookup, Types, ProcessTypes, dbVars
    <2>2. CASE InForce(cache[r][c.grant])
      <3>1. check'[r] = Idle
        BY <1>0, <1>4, <2>2 DEF Lookup, Types, ProcessTypes, None, InForce, DatabaseTypes
      <3> QED
        BY <3>1 DEF Consistent, Idle
    <2>3. CASE ~InForce(cache[r][c.grant])
      <3>1. ~InForce(c.settled)
        BY <1>0, <2>0, <2>1, <2>3 DEF Consistent, InForce
      <3>2. \/ check'[r] = At(c, "proof")
            \/ check'[r] = [step |-> "delete", grant |-> c.grant, settled |-> c.settled,
                            seen |-> cache[r][c.grant]]
        BY Zenon, <1>0, <1>4, <2>3 DEF Lookup, Types, ProcessTypes
      <3> QED
        BY <2>1, <2>3, <3>1, <3>2 DEF Consistent, InForce, At
    <2> QED
      BY Zenon, <2>2, <2>3
  <1>5. CASE DeleteExpired(r)
    <2>1. check'[r] = At(c, "proof") /\ clock' = clock /\ ~InForce(c.settled)
      BY Zenon, <1>0, <1>5 DEF DeleteExpired, Types, ProcessTypes, dbVars, Consistent
    <2> QED
      BY <2>1 DEF Consistent, InForce, At
  <1>6. CASE VerifyProof(r)
    <2>1. c.step = "proof" /\ ~InForce(c.settled) /\ clock' = clock /\ c.grant \in Grants
          /\ c.settled \in Nat
      BY Zenon, <1>0, <1>6 DEF VerifyProof, dbVars, Consistent
    <2>2. window[c.grant].until \in Nat
      BY <1>0, <2>1, RevocationAssumption DEF Types, DatabaseTypes, Windows
    <2>3. CASE ProofActive(c.grant)
      <3>1. check'[r] = At(c, "accepted") /\ c.settled <= window[c.grant].until
        BY <1>0, <1>6, <2>1, <2>2, <2>3
        DEF VerifyProof, ProofActive, InForce, Types, ProcessTypes
      <3> QED
        BY <1>0, <2>1, <3>1 DEF Consistent, InForce, At
    <2>4. CASE ~ProofActive(c.grant)
      BY Zenon, <1>0, <1>6, <2>4 DEF VerifyProof, Consistent, Idle, Types, ProcessTypes
    <2> QED
      BY Zenon, <2>3, <2>4
  <1>7. CASE Decide(r)
    BY Zenon, <1>0, <1>7 DEF Decide, Consistent, Idle, Types, ProcessTypes
  <1> QED
    BY Zenon, <1>0, <1>1, <1>2, <1>3, <1>4, <1>5, <1>6, <1>7, Steps DEF Checking

-----------------------------------------------------------------------------
(* The way from the table to the map.                                       *)

(* A replica is ready only while its watch loop runs.                       *)
LEMMA ReadyKept ==
  ASSUME Types, ReadyWatches, [Next]_vars
  PROVE  ReadyWatches'
  <1> SUFFICES ASSUME NEW r \in Replicas, ready'[r] PROVE syncer'[r] = "watch"
    BY Zenon DEF ReadyWatches
  <1> USE DEF Types, LinkTypes, linkVars, Goto, SetRevocationReady
  <1>1. CASE UNCHANGED <<ready, syncer>>
    BY Zenon, <1>1 DEF ReadyWatches
  <1>2. ASSUME NEW q \in Replicas, Down(q) PROVE syncer'[r] = "watch"
    BY Zenon, <1>2 DEF Down, ReadyWatches
  <1>3. ASSUME NEW q \in Replicas, Syncing(q), ~StartFails(q) PROVE syncer'[r] = "watch"
    BY Zenon, <1>3 DEF Syncing, Start, Listen, LoadSnapshot, InstallNext, Installed,
                ReceiveNotification, WatchFails, ReadyWatches
  <1>4. ASSUME NEW q \in Replicas, Revoking(q) PROVE UNCHANGED <<ready, syncer>>
    BY Zenon, <1>4 DEF Revoking, RevokeDelegation, Persist, PersistFails, HandlerApplies, Answer
  <1>5. ASSUME NEW q \in Replicas, Checking(q) PROVE UNCHANGED <<ready, syncer>>
    BY Zenon, <1>5 DEF Checking, CheckReady, Lookup, DeleteExpired, VerifyProof, Decide
  <1>6. ASSUME NEW q \in Replicas, NEW a \in Appliers, ApplyLoad(q, a) \/ ApplySwap(q, a)
        PROVE  UNCHANGED <<ready, syncer>>
    BY Zenon, <1>6 DEF ApplyLoad, ApplySwap
  <1>7. ASSUME NEW q \in Replicas, LoseConnection(q) PROVE UNCHANGED <<ready, syncer>>
    BY Zenon, <1>7 DEF LoseConnection
  <1>8. ASSUME NEW q \in Replicas, StartFails(q) \/ Crash(q) PROVE Down(q)
    BY Zenon, <1>8 DEF StartFails, Crash
  <1>9. Tick \/ UNCHANGED vars => UNCHANGED <<ready, syncer>>
    BY Zenon DEF Tick, vars
  <1> QED
    BY Zenon, <1>1, <1>2, <1>3, <1>4, <1>5, <1>6, <1>7, <1>8, <1>9 DEF Next, Apply

(* A carried record stays carried when no carrier loses it.                 *)
LEMMA StillCarried ==
  ASSUME NEW r \in Replicas, NEW g \in Grants, Carried(r, g), row' = row,
         cache[r][g] >= row[g] => cache'[r][g] >= row[g],
         InHand(r, g) => InHand(r, g)' \/ cache'[r][g] >= row[g],
         snap'[r] = snap[r], queue'[r] = queue[r]
  PROVE  Carried(r, g)'
  BY Zenon DEF Carried, InSnapshot, InQueue

(* An applier that loads keeps its record; one that swaps puts it into the  *)
(* map, or starts over with it.                                             *)
LEMMA ApplyCarries ==
  ASSUME Types, NEW q \in Replicas, NEW a \in Appliers, ApplyLoad(q, a) \/ ApplySwap(q, a),
         NEW r \in Replicas, NEW g \in Grants, Carried(r, g)
  PROVE  Carried(r, g)'
  <1> DEFINE w == work[q][a]
  <1>0. /\ row' = row /\ snap'[r] = snap[r] /\ queue'[r] = queue[r]
        /\ cache[r][g] \in Nat /\ row[g] \in Nat /\ w \in Works
    BY DEF ApplyLoad, ApplySwap, dbVars, linkVars, Types, DatabaseTypes, ProcessTypes
  <1>1. CASE ApplyLoad(q, a)
    <2>1. cache' = cache
      BY Zenon, <1>1 DEF ApplyLoad
    <2>2. InHand(r, g) => InHand(r, g)'
      BY <1>0, <1>1 DEF InHand, ApplyLoad, Types, ProcessTypes
    <2> QED
      BY Zenon, <1>0, <2>1, <2>2, StillCarried
  <1>2. CASE ApplySwap(q, a)
    <2>1. w \in Swapping
      BY Zenon, <1>0, <1>2, Shapes DEF ApplySwap
    <2>2. /\ Larger(w.seen, w.expires) \in Nat
          /\ Larger(w.seen, w.expires) >= w.seen
          /\ Larger(w.seen, w.expires) >= w.expires
          /\ w.expires \in Nat /\ w.seen \in Nat /\ w.grant \in Grants
      BY Zenon, <2>1, LargerIs DEF Swapping
    <2>3. CASE Swapped(q, a)
      <3>1. /\ cache' = [cache EXCEPT ![q][w.grant] = Larger(w.seen, w.expires)]
            /\ work' = [work EXCEPT ![q][a] = Idle]
            /\ cache[q][w.grant] = w.seen
        BY Zenon, <1>2, <2>3 DEF ApplySwap, Swapped
      <3>2. cache[r][g] >= row[g] => cache'[r][g] >= row[g]
        BY <1>0, <2>2, <3>1 DEF Types, ProcessTypes
      <3>3. InHand(r, g) => InHand(r, g)' \/ cache'[r][g] >= row[g]
        <4>1. CASE q = r /\ a = "syncer"
          BY <1>0, <2>2, <3>1, <4>1 DEF InHand, Types, ProcessTypes
        <4>2. CASE ~(q = r /\ a = "syncer")
          <5>1. work'[r]["syncer"] = work[r]["syncer"]
            BY Zenon, <3>1, <4>2 DEF Types, ProcessTypes, Appliers
          <5> QED
            BY <1>0, <5>1 DEF InHand
        <4> QED
          BY Zenon, <4>1, <4>2
      <3> QED
        BY Zenon, <1>0, <3>2, <3>3, StillCarried
    <2>4. CASE ~Swapped(q, a)
      <3>1. cache' = cache /\ work' = [work EXCEPT ![q][a] = Merging(w.grant, w.expires)]
        BY Zenon, <1>2, <2>4 DEF ApplySwap
      <3>2. InHand(r, g) => InHand(r, g)'
        BY <1>0, <3>1 DEF InHand, Merging, Types, ProcessTypes
      <3> QED
        BY Zenon, <1>0, <3>1, <3>2, StillCarried
    <2> QED
      BY Zenon, <2>3, <2>4
  <1> QED
    BY Zenon, <1>1, <1>2

(* A commit puts the merged row at the end of every listener's queue.       *)
LEMMA PersistCarries ==
  ASSUME Types, NEW h \in Grants, NEW e \in Nat, PersistRevocation(h, e),
         NEW r \in Replicas, NEW g \in Grants, conn[r] = "live",
         UNCHANGED <<clock, cache, work, snap>>,
         InForce(row[g]) => Carried(r, g), InForce(row[g])'
  PROVE  Carried(r, g)'
  <1> DEFINE m == [grant |-> h, expires |-> Larger(row[h], e)]
  <1>1. /\ queue[r] \in Seq(Messages)
        /\ queue'[r] = Append(queue[r], m)
        /\ Len(queue'[r]) = Len(queue[r]) + 1
        /\ Len(queue[r]) \in Nat
        /\ \A i \in 1 .. Len(queue[r]) : queue'[r][i] = queue[r][i]
        /\ queue'[r][Len(queue[r]) + 1] = m
    BY DEF PersistRevocation, Listening, Types, LinkTypes
  <1>2. CASE g = h
    <2>1. row'[g] = m.expires /\ row'[g] \in Nat
      BY Zenon, <1>2, LargerIs DEF PersistRevocation, Types, DatabaseTypes
    <2>2. InQueue(r, g)'
      BY <1>1, <1>2, <2>1 DEF InQueue
    <2> QED
      BY Zenon, <2>2 DEF Carried
  <1>3. CASE g # h
    <2>1. row'[g] = row[g]
      BY Zenon, <1>3 DEF PersistRevocation, Types, DatabaseTypes
    <2>2. Carried(r, g)
      BY Zenon, <2>1 DEF InForce
    <2>3. InQueue(r, g) => InQueue(r, g)'
      BY <1>1, <2>1 DEF InQueue
    <2>4. (InHand(r, g) => InHand(r, g)') /\ (InSnapshot(r, g) => InSnapshot(r, g)')
      BY Zenon, <2>1 DEF InHand, InSnapshot
    <2> QED
      BY Zenon, <2>1, <2>2, <2>3, <2>4 DEF Carried
  <1> QED
    BY Zenon, <1>2, <1>3

(* A record in force that a free syncer takes up is in its hand afterwards. *)
LEMMA HandHolds ==
  ASSUME Types, NEW r \in Replicas, NEW m \in Messages, Hand(r, m), row' = row,
         NEW g \in Grants, InForce(row[g]), m.grant = g, m.expires >= row[g]
  PROVE  InHand(r, g)'
  <1>1. InForce(m.expires)
    BY DEF InForce, Types, DatabaseTypes, Messages
  <1>2. work'[r]["syncer"] = Merging(m.grant, m.expires)
    BY Zenon, <1>1 DEF Hand, Types, ProcessTypes, Appliers
  <1> QED
    BY <1>2 DEF InHand, Merging

(* The syncer of q loses no record of r: it takes one up only when its hand *)
(* is empty, and drops only what has expired.                               *)
LEMMA SyncingCarries ==
  ASSUME Types, NEW q \in Replicas, Syncing(q), ~StartFails(q),
         NEW r \in Replicas, NEW g \in Grants, Following(r)', InForce(row[g]),
         Following(r) => Carried(r, g)
  PROVE  Carried(r, g)'
  <1> USE DEF Types, LinkTypes, dbVars, Goto
  <1>0. row' = row /\ cache' = cache /\ row[g] \in Nat
    BY Zenon DEF Syncing, Start, Listen, LoadSnapshot, InstallNext, Installed,
           ReceiveNotification, WatchFails, DatabaseTypes
  <1>1. CASE q # r
    <2>1. /\ Following(r) /\ snap'[r] = snap[r] /\ queue'[r] = queue[r]
          /\ work'[r] = work[r]
      BY Zenon, <1>1 DEF Syncing, Start, Listen, LoadSnapshot, InstallNext, Installed,
                  ReceiveNotification, WatchFails, Following, Hand, ProcessTypes
    <2>2. InHand(r, g) => InHand(r, g)'
      BY <1>0, <2>1 DEF InHand
    <2> QED
      BY Zenon, <1>0, <2>1, <2>2, StillCarried
  <1>2. CASE q = r /\ (Start(q) \/ Listen(q) \/ WatchFails(q))
    BY Zenon, <1>2 DEF Start, Listen, WatchFails, Following
  <1>3. CASE q = r /\ LoadSnapshot(q)
    <2>1. snap'[r] = {[grant |-> h, expires |-> row[h]] : h \in {k \in Grants : InForce(row[k])}}
      BY Zenon, <1>3 DEF LoadSnapshot
    <2>2. PICK m \in snap'[r] : m = [grant |-> g, expires |-> row[g]]
      BY Zenon, <2>1
    <2>3. m.grant = g /\ m.expires >= row'[g]
      BY <1>0, <2>2
    <2>4. InSnapshot(r, g)'
      BY Zenon, <2>3 DEF InSnapshot
    <2> QED
      BY Zenon, <2>4 DEF Carried
  <1>4. CASE q = r /\ Installed(q)
    <2>1. Following(r) /\ UNCHANGED <<snap, queue, work>>
      BY Zenon, <1>4 DEF Installed, Following
    <2>2. InHand(r, g) => InHand(r, g)'
      BY Zenon, <1>0, <2>1 DEF InHand
    <2> QED
      BY Zenon, <1>0, <2>1, <2>2, StillCarried
  <1>5. CASE q = r /\ InstallNext(q)
    <2>0. Following(r) /\ UNCHANGED queue /\ ~InHand(r, g)
      BY Zenon, <1>5 DEF InstallNext, Following, SyncerFree, InHand
    <2>1. PICK m \in snap[r] : Hand(r, m) /\ snap'[r] = snap[r] \ {m}
      BY Zenon, <1>5 DEF InstallNext
    <2>2. CASE m.grant = g /\ m.expires >= row[g]
      BY Zenon, <1>0, <2>1, <2>2, HandHolds DEF Carried
    <2>3. CASE ~(m.grant = g /\ m.expires >= row[g])
      <3>1. InSnapshot(r, g) => InSnapshot(r, g)'
        BY Zenon, <1>0, <2>1, <2>3 DEF InSnapshot
      <3>2. InQueue(r, g) => InQueue(r, g)'
        BY Zenon, <1>0, <2>0 DEF InQueue
      <3> QED
        BY Zenon, <1>0, <2>0, <3>1, <3>2 DEF Carried
    <2> QED
      BY Zenon, <2>2, <2>3
  <1>6. CASE q = r /\ ReceiveNotification(q)
    <2> DEFINE m == Head(queue[r])
    <2>0. Following(r) /\ UNCHANGED snap /\ ~InHand(r, g)
      BY Zenon, <1>6 DEF ReceiveNotification, Following, SyncerFree, InHand
    <2>1. /\ Hand(r, m) /\ m \in Messages /\ m = queue[r][1]
          /\ queue[r] \in Seq(Messages) /\ queue[r] # <<>>
          /\ queue'[r] = Tail(queue[r])
      BY <1>6 DEF ReceiveNotification
    <2>2. CASE m.grant = g /\ m.expires >= row[g]
      BY Zenon, <1>0, <2>1, <2>2, HandHolds DEF Carried
    <2>3. CASE ~(m.grant = g /\ m.expires >= row[g])
      <3>1. InSnapshot(r, g) => InSnapshot(r, g)'
        BY Zenon, <1>0, <2>0 DEF InSnapshot
      <3>2. InQueue(r, g) => InQueue(r, g)'
        <4> SUFFICES ASSUME InQueue(r, g) PROVE InQueue(r, g)'
          BY Zenon
        <4>1. PICK i \in 1 .. Len(queue[r]) :
                queue[r][i].grant = g /\ queue[r][i].expires >= row[g]
          BY Zenon DEF InQueue
        <4>2. i # 1
          BY Zenon, <2>1, <2>3, <4>1
        <4>3. i - 1 \in 1 .. Len(queue'[r]) /\ queue'[r][i - 1] = queue[r][i]
          BY <2>1, <4>1, <4>2
        <4> QED
          BY Zenon, <1>0, <4>1, <4>3 DEF InQueue
      <3> QED
        BY Zenon, <1>0, <2>0, <3>1, <3>2 DEF Carried
    <2> QED
      BY Zenon, <2>2, <2>3
  <1> QED
    BY Zenon, <1>1, <1>2, <1>3, <1>4, <1>5, <1>6 DEF Syncing

(* No step loses a row in force.                                            *)
LEMMA MissedKept ==
  ASSUME IInv, [Next]_vars
  PROVE  NoneMissed'
  <1> SUFFICES ASSUME NEW r \in Replicas, NEW g \in Grants, Following(r)', InForce(row[g])'
               PROVE  Carried(r, g)'
    BY Zenon DEF NoneMissed
  <1>0. /\ Types /\ Types' /\ ChecksConsistent
        /\ Following(r) /\ InForce(row[g]) => Carried(r, g)
        /\ row[g] \in Nat /\ clock \in Nat /\ clock' \in Nat /\ clock' >= clock
    BY Zenon, TypesKept, Steps DEF IInv, NoneMissed, Types, DatabaseTypes
  <1> USE DEF linkVars, dbVars
  <1>a. row' = row => InForce(row[g])
    BY <1>0 DEF InForce
  <1>b. UNCHANGED <<conn, syncer>> => Following(r)
    BY Zenon DEF Following
  <1>1. CASE Tick \/ UNCHANGED vars
    <2>1. UNCHANGED <<row, linkVars, work, cache>>
      BY Zenon, <1>1 DEF Tick, vars
    <2>2. InHand(r, g) => InHand(r, g)'
      BY Zenon, <2>1 DEF InHand
    <2> QED
      BY Zenon, <1>0, <1>a, <1>b, <2>1, <2>2, StillCarried
  <1>2. ASSUME NEW q \in Replicas, NEW a \in Appliers, ApplyLoad(q, a) \/ ApplySwap(q, a)
        PROVE  Carried(r, g)'
    <2>1. UNCHANGED <<row, conn, syncer>>
      BY Zenon, <1>2 DEF ApplyLoad, ApplySwap
    <2> QED
      BY Zenon, <1>0, <1>2, <1>a, <1>b, <2>1, ApplyCarries
  <1>3. ASSUME NEW q \in Replicas, Revoking(q) PROVE Carried(r, g)'
    <2> DEFINE c == call[q]
    <2>0. /\ Following(r) /\ UNCHANGED <<clock, snap, cache>>
          /\ work'[r]["syncer"] = work[r]["syncer"]
      BY <1>0, <1>3, <1>b DEF Revoking, RevokeDelegation, Persist, PersistFails, HandlerApplies,
                        Answer, Types, ProcessTypes, Appliers
    <2>1. CASE UNCHANGED <<row, queue>>
      <3>1. InHand(r, g) => InHand(r, g)'
        BY <2>0, <2>1 DEF InHand
      <3> QED
        BY Zenon, <1>0, <1>a, <2>0, <2>1, <3>1, StillCarried
    <2>2. CASE c.step = "persist" /\ PersistRevocation(c.grant, c.expires) /\ UNCHANGED work
      <3>1. c.grant \in Grants /\ c.expires \in Nat
        BY Zenon, <1>0, <2>2, Shapes DEF Types, ProcessTypes
      <3> QED
        BY Zenon, <1>0, <2>0, <2>2, <3>1, PersistCarries DEF Following
    <2> QED
      BY Zenon, <1>3, <2>1, <2>2 DEF Revoking, RevokeDelegation, Persist, PersistFails,
                              HandlerApplies, Answer
  <1>4. ASSUME NEW q \in Replicas, Syncing(q), ~StartFails(q) PROVE Carried(r, g)'
    <2>1. row' = row
      BY Zenon, <1>4 DEF Syncing, Start, Listen, LoadSnapshot, InstallNext, Installed,
                  ReceiveNotification, WatchFails
    <2> QED
      BY Zenon, <1>0, <1>4, <1>a, <2>1, SyncingCarries
  <1>5. ASSUME NEW q \in Replicas, Down(q) PROVE Carried(r, g)'
    <2>1. q # r
      BY Zenon, <1>0, <1>5 DEF Down, Following, Types, LinkTypes
    <2>2. /\ Following(r) /\ row' = row /\ snap'[r] = snap[r] /\ queue'[r] = queue[r]
          /\ work'[r] = work[r] /\ cache'[r] = cache[r]
      BY Zenon, <1>0, <1>5, <2>1 DEF Down, Goto, Following, Types, LinkTypes, ProcessTypes
    <2>3. InHand(r, g) => InHand(r, g)'
      BY <2>2 DEF InHand
    <2> QED
      BY Zenon, <1>0, <1>a, <2>2, <2>3, StillCarried
  <1>6. ASSUME NEW q \in Replicas, LoseConnection(q) PROVE Carried(r, g)'
    <2>1. q # r
      BY Zenon, <1>0, <1>6 DEF LoseConnection, Following, Types, LinkTypes
    <2>2. /\ Following(r) /\ row' = row /\ queue'[r] = queue[r]
          /\ UNCHANGED <<snap, work, cache>>
      BY Zenon, <1>0, <1>6, <2>1 DEF LoseConnection, Following, Types, LinkTypes
    <2>3. InHand(r, g) => InHand(r, g)'
      BY Zenon, <2>2 DEF InHand
    <2> QED
      BY Zenon, <1>0, <1>a, <2>2, <2>3, StillCarried
  <1>7. ASSUME NEW q \in Replicas, Checking(q) PROVE Carried(r, g)'
    <2>1. UNCHANGED <<row, linkVars, work>> /\ ~Down(r)
      BY Zenon, <1>0, <1>7 DEF Checking, CheckReady, Lookup, DeleteExpired, VerifyProof, Decide,
                        Down, Following, Types, LinkTypes
    <2>2. InHand(r, g) => InHand(r, g)'
      BY Zenon, <2>1 DEF InHand
    <2>3. cache[r][g] >= row[g] => cache'[r][g] >= row[g]
      <3> SUFFICES ASSUME cache[r][g] >= row[g] PROVE cache'[r][g] >= row[g]
        BY Zenon
      <3>1. cache[r][g] \in Nat /\ cache'[r][g] \in Nat
        BY Zenon, <1>0 DEF Types, ProcessTypes
      <3>2. InForce(cache[r][g])
        BY <1>0, <1>a, <2>1, <3>1 DEF InForce
      <3>3. cache'[r][g] >= cache[r][g]
        BY Zenon, <1>0, <2>1, <3>2, EntriesGrow
      <3> QED
        BY <1>0, <3>1, <3>3
    <2> QED
      BY Zenon, <1>0, <1>a, <1>b, <2>1, <2>2, <2>3, StillCarried
  <1>8. ASSUME NEW q \in Replicas, StartFails(q) \/ Crash(q) PROVE Down(q)
    BY Zenon, <1>8 DEF StartFails, Crash
  <1> QED
    BY Zenon, <1>1, <1>2, <1>3, <1>4, <1>5, <1>6, <1>7, <1>8 DEF Next, Apply

-----------------------------------------------------------------------------

(* The invariant is inductive.                                              *)
LEMMA Invariance == Spec => []IInv
  <1>1. IInv /\ [Next]_vars => IInv'
    BY Zenon, TypesKept, ReadyKept, MissedKept, ChecksKept DEF IInv
  <1> QED
    BY InitInv, <1>1, PTL DEF Spec

(* WatchRevocations listens before it loads, and the syncer gives every     *)
(* record to ApplyRevocation before it takes the next, so no row in force   *)
(* is missing from a ready replica whose session lives.                     *)
THEOREM NothingLost == Spec => []NoLostRevocation
  <1>1. IInv => NoLostRevocation
    <2> SUFFICES ASSUME IInv, NEW r \in Replicas, NEW g \in Grants,
                        ready[r], conn[r] = "live", InForce(row[g])
                 PROVE  cache[r][g] >= row[g] \/ UnderWay(r, g)
      BY Zenon DEF NoLostRevocation
    <2>1. Carried(r, g)
      BY Zenon DEF IInv, ReadyWatches, NoneMissed, Following
    <2> QED
      BY Zenon, <2>1 DEF Carried, InHand, InSnapshot, InQueue, UnderWay
  <1> QED
    BY Invariance, <1>1, PTL

(* The compare-and-swap of ApplyRevocation and the conditional deletion of  *)
(* IsRevoked never lower an entry in force, whatever runs beside them.      *)
THEOREM EntriesOnlyGrow == Spec => RevocationsOnlyGrow
  <1>1. IInv /\ [Next]_vars =>
          [\A r \in Replicas, g \in Grants :
             syncer'[r] # "down" /\ InForce(cache[r][g]) => cache'[r][g] >= cache[r][g]]_vars
    <2> SUFFICES ASSUME IInv, [Next]_vars, NEW r \in Replicas, NEW g \in Grants,
                        syncer'[r] # "down", InForce(cache[r][g])
                 PROVE  cache'[r][g] >= cache[r][g]
      BY Zenon
    <2>1. ~Down(r)
      BY Zenon DEF Down, Goto, IInv, Types, LinkTypes
    <2> QED
      BY Zenon, <2>1, EntriesGrow DEF IInv
  <1> QED
    BY Invariance, <1>1, PTL DEF Spec, RevocationsOnlyGrow

(* A check that began after the replica had received a revocation requested *)
(* after the grant's validity began is not accepted: IsRevoked finds the    *)
(* record until it expires, and by then the proof's window is over.         *)
THEOREM NeverAcceptedAgain == Spec => []RevokedStaysDenied
  <1>1. IInv => RevokedStaysDenied
    <2> SUFFICES ASSUME IInv, NEW r \in Replicas, check[r].step = "accepted"
                 PROVE  check[r].settled - TTL <= window[check[r].grant].from
      BY Zenon DEF RevokedStaysDenied
    <2>1. check[r].grant \in Grants /\ check[r].settled \in Nat
      BY Zenon, Shapes DEF IInv, Types, ProcessTypes
    <2>2. check[r].settled <= window[check[r].grant].until
      BY Zenon DEF IInv, ChecksConsistent, Consistent
    <2>3. /\ window[check[r].grant].from \in Nat
          /\ window[check[r].grant].until \in Nat
          /\ window[check[r].grant].until - window[check[r].grant].from <= TTL
      BY <2>1, RevocationAssumption DEF IInv, Types, DatabaseTypes, Windows
    <2> QED
      BY <2>1, <2>2, <2>3, RevocationAssumption
  <1> QED
    BY Invariance, <1>1, PTL

=============================================================================

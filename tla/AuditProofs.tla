----------------------------- MODULE AuditProofs -----------------------------
(***************************************************************************)
(* The audit logger, for any entries, tenants, capacities, quotas, faults  *)
(* and damaged files, with or without spill directory and archive: no      *)
(* entry vanishes, the counters account for every call of Log, and no      *)
(* entry is stored twice.                                                  *)
(***************************************************************************)
EXTENDS Audit, FiniteSetTheorems, TLAPS

Batches == Seq(Entries)
Files == [entries : Batches, intact : BOOLEAN]
Workers == [at : {"down", "select", "flush", "replay", "remove", "exited"},
            then : {"select", "flush", "clear"},
            phase : {"serving", "draining", "leaving"},
            count : Nat]

Types ==
  /\ call \in [Entries -> {"new", "spilling", "returned", "past", "lost"}]
  /\ queue \in Batches
  /\ batch \in Batches
  /\ spill \in Seq(Files)
  /\ database \in [Entries -> Nat]
  /\ worker \in Workers
  /\ stop \in {"running", "locking", "waiting", "stopped"}

InDatabase(e) == database[e] > 0

(* A batch is emptied after a replay, and a spill file removed, only once   *)
(* their entries are in the database.                                       *)
Delivered ==
  /\ MutexHeld /\ worker.then = "clear" => \A e \in Range(batch) : InDatabase(e)
  /\ worker.at = "remove" => spill # <<>> /\ \A e \in Range(spill[1].entries) : InDatabase(e)

(* Nothing enters the queue once the worker drains it, and the worker       *)
(* leaves nothing behind.                                                   *)
Drained ==
  /\ worker.phase # "serving" => Stopped
  /\ worker.phase = "leaving" => queue = <<>>
  /\ worker.at = "exited" => worker.phase = "leaving" /\ batch = <<>>
  /\ worker.at = "down" => queue = <<>> /\ batch = <<>>
  /\ stop = "stopped" => worker.at = "exited"

IInv == Types /\ Delivered /\ Drained /\ NothingVanishes

-----------------------------------------------------------------------------
(* Sequences, the database and the spill files.                             *)

(* What append leaves in a queue or a batch.                                *)
LEMMA RangeAppend ==
  ASSUME NEW S, NEW s \in Seq(S), NEW e \in S
  PROVE  Append(s, e) \in Seq(S) /\ Range(Append(s, e)) = Range(s) \cup {e}
  <1>1. Append(s, e) \in Seq(S) /\ Len(Append(s, e)) = Len(s) + 1 /\ Len(s) \in Nat
    OBVIOUS
  <1>2. DOMAIN s = 1 .. Len(s) /\ DOMAIN Append(s, e) = 1 .. (Len(s) + 1)
    OBVIOUS
  <1>3. \A i \in 1 .. Len(s) : Append(s, e)[i] = s[i]
    OBVIOUS
  <1>4. Append(s, e)[Len(s) + 1] = e
    OBVIOUS
  <1>5. 1 .. (Len(s) + 1) = (1 .. Len(s)) \cup {Len(s) + 1}
    BY <1>1
  <1>6. \A x : x \in Range(Append(s, e)) <=> x \in Range(s) \/ x = e
    BY <1>1, <1>2, <1>3, <1>4, <1>5 DEF Range
  <1> QED
    BY Zenon, <1>1, <1>6

(* What the worker takes from the queue, and replay from the directory.     *)
LEMMA RangeTail ==
  ASSUME NEW S, NEW s \in Seq(S), s # <<>>
  PROVE  /\ Head(s) = s[1] /\ s[1] \in S /\ Tail(s) \in Seq(S)
         /\ Range(s) = {s[1]} \cup Range(Tail(s))
  <1>1. Len(s) \in Nat /\ Len(s) > 0 /\ Tail(s) \in Seq(S) /\ Len(Tail(s)) = Len(s) - 1
    OBVIOUS
  <1>2. DOMAIN s = 1 .. Len(s) /\ DOMAIN Tail(s) = 1 .. (Len(s) - 1)
    BY <1>1
  <1>3. \A i \in 1 .. (Len(s) - 1) : Tail(s)[i] = s[i + 1] /\ i + 1 \in 1 .. Len(s)
    BY <1>1
  <1>4. \A i \in 1 .. Len(s) : i = 1 \/ (i - 1 \in 1 .. (Len(s) - 1) /\ s[i] = Tail(s)[i - 1])
    BY <1>1
  <1>5. 1 \in 1 .. Len(s) /\ Head(s) = s[1] /\ s[1] \in S
    BY <1>1
  <1>6. Range(Tail(s)) \subseteq Range(s)
    BY Zenon, <1>2, <1>3 DEF Range
  <1>7. \A x \in Range(s) : x = s[1] \/ x \in Range(Tail(s))
    <2> TAKE x \in Range(s)
    <2>1. PICK i \in 1 .. Len(s) : x = s[i]
      BY Zenon, <1>2 DEF Range
    <2>2. CASE i - 1 \in DOMAIN Tail(s) /\ x = Tail(s)[i - 1]
      BY Zenon, <2>2 DEF Range
    <2> QED
      BY Zenon, <1>2, <1>4, <2>1, <2>2
  <1>8. s[1] \in Range(s)
    BY Zenon, <1>2, <1>5 DEF Range
  <1> QED
    BY Zenon, <1>1, <1>5, <1>6, <1>7, <1>8

(* ON CONFLICT DO NOTHING: the batch is stored and no row is lost.          *)
LEMMA MergedIs ==
  ASSUME database \in [Entries -> Nat], NEW b \in Batches, database' = Merged(b)
  PROVE  /\ database' \in [Entries -> Nat]
         /\ \A e \in Entries : InDatabase(e) => InDatabase(e)'
         /\ \A e \in Range(b) : InDatabase(e)'
  <1>1. Range(b) \subseteq Entries
    BY DEF Range, Batches
  <1> QED
    BY <1>1 DEF Merged, InDatabase

(* A failed write loses no row either.                                      *)
LEMMA FailedIs ==
  ASSUME database \in [Entries -> Nat], NEW b \in Batches, InsertFails(b)
  PROVE  /\ database' \in [Entries -> Nat]
         /\ \A e \in Entries : InDatabase(e) => InDatabase(e)'
  <1>1. CASE database' = database
    BY <1>1 DEF InDatabase
  <1>2. CASE database' = Merged(b)
    BY Zenon, <1>2, MergedIs
  <1> QED
    BY Zenon, <1>1, <1>2 DEF InsertFails, store

(* The entries of the files in a directory.                                 *)
LEMMA EntriesIn ==
  ASSUME NEW files, NEW e
  PROVE  e \in UNION {Range(files[i].entries) : i \in DOMAIN files}
           <=> \E f \in Range(files) : e \in Range(f.entries)
  <1>1. \A f : f \in Range(files) <=> \E i \in DOMAIN files : f = files[i]
    BY Zenon DEF Range
  <1> QED
    BY Zenon, <1>1

(* What is handed to the spill store is in a file or counted as dropped.    *)
LEMMA SpillIs ==
  ASSUME spill \in Seq(Files), NEW b \in Batches, NEW n, SpillOrDrop(b, n)
  PROVE  /\ spill' \in Seq(Files)
         /\ Retained \subseteq Retained' /\ dropped \subseteq dropped'
         /\ Range(b) \subseteq Retained' \cup dropped'
  <1> DEFINE file == [entries |-> b, intact |-> TRUE]
  <1>1. CASE spill' = Append(spill, file) /\ dropped' = dropped
    <2>1. file \in Files /\ file.entries = b
      BY Zenon DEF Files
    <2>2. spill' \in Seq(Files) /\ Range(spill') = Range(spill) \cup {file}
      BY Zenon, <1>1, <2>1, RangeAppend
    <2>3. \A e : e \in Retained <=> \E f \in Range(spill) : e \in Range(f.entries)
      BY Zenon, EntriesIn DEF Retained
    <2>4. \A e : e \in Retained' <=> \E f \in Range(spill') : e \in Range(f.entries)
      BY Zenon, EntriesIn DEF Retained
    <2> QED
      BY Zenon, <1>1, <2>1, <2>2, <2>3, <2>4
  <1>2. CASE dropped' = dropped \cup Range(b) /\ spill' = spill
    BY Zenon, <1>2 DEF Retained
  <1> QED
    BY Zenon, <1>1, <1>2 DEF SpillOrDrop

-----------------------------------------------------------------------------
(* Every step keeps the invariant.                                          *)

(* Initially no call was made.                                              *)
LEMMA InitInv == Init => IInv
  <1> SUFFICES ASSUME Init PROVE IInv
    BY Zenon
  <1> USE DEF Init, Started, Down
  <1>1. <<>> \in Seq(Files) /\ <<>> \in Batches
    BY DEF Batches
  <1>2. Types
    BY <1>1 DEF Types, Workers
  <1>3. Delivered /\ Drained
    BY DEF Delivered, Drained, MutexHeld
  <1>4. NothingVanishes
    BY Zenon DEF NothingVanishes
  <1> QED
    BY Zenon, <1>2, <1>3, <1>4 DEF IInv

(* A call of Log ends with its entry queued, spilled or dropped.            *)
LEMMA LogKept ==
  ASSUME IInv, NEW e \in Entries, Log(e)
  PROVE  IInv'
  <1> USE DEF IInv, Types
  <1>1. CASE SealFails(e)
    <2>1. Types'
      BY Zenon, <1>1 DEF SealFails, disk, store
    <2>2. Delivered' /\ Drained'
      BY Zenon, <1>1 DEF SealFails, disk, store, Delivered, Drained, MutexHeld, InDatabase, Stopped
    <2>3. \A x \in Entries : call'[x] \in {"returned", "past"} => x = e \/ call[x] \in {"returned", "past"}
      BY <1>1 DEF SealFails
    <2>4. NothingVanishes'
      BY Zenon, <1>1, <2>3 DEF SealFails, disk, store, NothingVanishes, Retained
    <2> QED
      BY Zenon, <2>1, <2>2, <2>4
  <1>2. CASE enqueue(e)
    <2>1. /\ call' \in [Entries -> {"new", "spilling", "returned", "past", "lost"}]
          /\ \A x \in Entries : call'[x] \in {"returned", "past"} =>
                  call[x] \in {"returned", "past"} \/ (x = e /\ call'[e] = "returned")
      BY <1>2 DEF enqueue
    <2>2. /\ queue' \in Batches /\ Range(queue) \subseteq Range(queue')
          /\ dropped \subseteq dropped'
          /\ call'[e] = "returned" => e \in Range(queue') \cup dropped'
      <3>1. CASE Stopped /\ dropped' = dropped \cup {e} /\ queue' = queue
        BY Zenon, <3>1
      <3>2. CASE queue' = Append(queue, e) /\ dropped' = dropped
        <4>0. queue \in Seq(Entries)
          BY Zenon DEF Batches
        <4>1. queue' \in Seq(Entries) /\ Range(queue') = Range(queue) \cup {e}
          BY <3>2, <4>0, RangeAppend
        <4> QED
          BY Zenon, <3>2, <4>1 DEF Batches
      <3>3. CASE queue' = queue /\ dropped' = dropped /\ call' = [call EXCEPT ![e] = "spilling"]
        <4>1. call'[e] = "spilling"
          BY <3>3
        <4> QED
          BY Zenon, <3>3, <4>1
      <3> QED
        BY Zenon, <1>2, <3>1, <3>2, <3>3 DEF enqueue
    <2>3. Types'
      BY Zenon, <1>2, <2>1, <2>2 DEF enqueue, disk, store
    <2>4. Stopped \/ worker.at = "down" => queue' = queue
      BY Zenon, <1>2 DEF enqueue
    <2>5. Delivered' /\ Drained'
      BY Zenon, <1>2, <2>4 DEF enqueue, disk, store, Delivered, Drained, MutexHeld, InDatabase, Stopped
    <2>6. Retained' = Retained /\ batch' = batch /\ database' = database
      BY Zenon, <1>2 DEF enqueue, disk, store, Retained
    <2>7. \A x \in Entries : call'[x] \in {"returned", "past"} => x \in Range(queue') \cup dropped'
                                 \/ x \in Range(batch) \cup Retained \/ database[x] > 0
      BY Zenon, <2>1, <2>2 DEF NothingVanishes
    <2>8. NothingVanishes'
      BY Zenon, <2>6, <2>7 DEF NothingVanishes
    <2> QED
      BY Zenon, <2>3, <2>5, <2>8
  <1>3. CASE SpillEntry(e)
    <2>1. <<e>> \in Batches /\ e \in Range(<<e>>)
      BY DEF Batches, Range
    <2>2. /\ spill' \in Seq(Files) /\ Retained \subseteq Retained' /\ dropped \subseteq dropped'
          /\ e \in Retained' \cup dropped'
      BY Zenon, <1>3, <2>1, SpillIs DEF SpillEntry
    <2>3. /\ call' \in [Entries -> {"new", "spilling", "returned", "past", "lost"}]
          /\ \A x \in Entries : call'[x] \in {"returned", "past"} => x = e \/ call[x] \in {"returned", "past"}
      BY <1>3 DEF SpillEntry
    <2>4. Types'
      BY Zenon, <1>3, <2>2, <2>3 DEF SpillEntry, store
    <2>5. Delivered' /\ Drained'
      BY Zenon, <1>3 DEF SpillEntry, store, Delivered, Drained, MutexHeld, InDatabase, Stopped
    <2>6. NothingVanishes'
      BY Zenon, <1>3, <2>2, <2>3 DEF SpillEntry, store, NothingVanishes
    <2> QED
      BY Zenon, <2>4, <2>5, <2>6
  <1> QED
    BY Zenon, <1>1, <1>2, <1>3 DEF Log

(* flush empties its batch only once it is in the database, spilled or      *)
(* dropped.                                                                 *)
LEMMA FlushKept ==
  ASSUME IInv, flush
  PROVE  IInv'
  <1> USE DEF IInv, Types
  <1>0. \/ AfterFlush = "exited" /\ worker.phase = "leaving"
        \/ AfterFlush = "select" /\ worker.phase # "leaving"
    BY Zenon DEF AfterFlush
  <1>1. /\ worker' \in Workers /\ worker'.phase = worker.phase /\ worker.at = "flush"
        /\ call' = call /\ queue' = queue /\ stop' = stop
    BY Zenon, <1>0 DEF flush, Workers
  <1>2. CASE batch = <<>> /\ worker' = [worker EXCEPT !.at = AfterFlush]
             /\ UNCHANGED <<batch, spill, store, stats, dropped, faults>>
    <2>1. worker'.at = AfterFlush /\ ~MutexHeld'
      BY <1>0, <1>2 DEF Workers, MutexHeld
    <2> QED
      BY Zenon, <1>0, <1>1, <1>2, <2>1 DEF store, Delivered, Drained, MutexHeld, Stopped, NothingVanishes, Retained
  <1>3. CASE /\ batch # <<>> /\ InsertSucceeds(batch)
             /\ worker' = [worker EXCEPT !.at = "replay", !.then = "clear"]
             /\ UNCHANGED <<batch, spill, dropped, faults>>
    <2>1. worker'.at = "replay"
      BY <1>3 DEF Workers
    <2>2. /\ database' \in [Entries -> Nat]
          /\ \A e \in Entries : InDatabase(e) => InDatabase(e)'
          /\ \A e \in Range(batch) : InDatabase(e)'
      BY Zenon, <1>3, MergedIs DEF InsertSucceeds
    <2>3. Delivered' /\ Drained'
      BY Zenon, <1>1, <1>3, <2>1, <2>2 DEF Delivered, Drained, Stopped
    <2>4. NothingVanishes'
      BY Zenon, <1>1, <1>3, <2>2 DEF NothingVanishes, Retained, InDatabase
    <2> QED
      BY Zenon, <1>1, <1>3, <2>2, <2>3, <2>4
  <1>4. CASE /\ batch # <<>> /\ InsertFails(batch) /\ SpillOrDrop(batch, 1) /\ batch' = <<>>
             /\ worker' = [worker EXCEPT !.at = AfterFlush]
    <2>1. worker'.at = AfterFlush /\ ~MutexHeld' /\ batch' \in Batches
      BY <1>0, <1>4 DEF Workers, MutexHeld, Batches
    <2>2. /\ database' \in [Entries -> Nat]
          /\ \A e \in Entries : InDatabase(e) => InDatabase(e)'
      BY Zenon, <1>4, FailedIs
    <2>3. /\ spill' \in Seq(Files)
          /\ Retained \subseteq Retained' /\ dropped \subseteq dropped'
          /\ Range(batch) \subseteq Retained' \cup dropped'
      BY Zenon, <1>4, SpillIs
    <2>4. Delivered' /\ Drained'
      BY Zenon, <1>0, <1>1, <1>4, <2>1 DEF Delivered, Drained, Stopped, MutexHeld
    <2>5. NothingVanishes'
      BY Zenon, <1>1, <2>2, <2>3 DEF NothingVanishes, InDatabase
    <2> QED
      BY Zenon, <1>1, <2>1, <2>2, <2>3, <2>4, <2>5
  <1> QED
    BY Zenon, <1>2, <1>3, <1>4, flush DEF flush

(* replay returns to its caller; a batch it empties is in the database.     *)
LEMMA ReturnKept ==
  ASSUME IInv, MutexHeld, ReplayReturns, call' = call, queue' = queue, stop' = stop,
         spill' = spill, dropped' = dropped, database' \in [Entries -> Nat],
         \A e \in Entries : InDatabase(e) => InDatabase(e)'
  PROVE  IInv'
  <1> USE DEF IInv, Types
  <1>0. /\ \/ AfterFlush = "exited" /\ worker.phase = "leaving"
           \/ AfterFlush = "select" /\ worker.phase # "leaving"
        /\ worker.at # "down"
    BY Zenon DEF AfterFlush, MutexHeld
  <1>1. worker' \in Workers /\ worker'.phase = worker.phase
        /\ worker'.at = IF worker.then = "clear" THEN AfterFlush ELSE worker.then
    BY Zenon, <1>0 DEF ReplayReturns, Workers
  <1>2. worker.then \in {"select", "flush", "clear"}
    BY Zenon DEF Workers
  <1>3. /\ batch' \in Batches /\ Range(batch') \subseteq Range(batch)
        /\ worker.then = "clear" => batch' = <<>> /\ worker'.at = AfterFlush
        /\ worker.then # "clear" => batch' = batch /\ worker'.at = worker.then
    BY <1>1 DEF ReplayReturns, Batches, Range
  <1>4. ~MutexHeld' /\ worker'.at # "down" /\ (worker'.at = "exited" => worker.phase = "leaving" /\ batch' = <<>>)
    BY Zenon, <1>0, <1>2, <1>3 DEF MutexHeld
  <1>5. stop # "stopped"
    BY Zenon DEF Drained, MutexHeld
  <1>6. Delivered' /\ Drained'
    BY Zenon, <1>1, <1>4, <1>5 DEF Delivered, Drained, Stopped, MutexHeld
  <1>7. \A e \in Range(batch) : e \in Range(batch') \/ InDatabase(e)
    BY Zenon, <1>3 DEF Delivered
  <1>8. NothingVanishes'
    BY Zenon, <1>7 DEF NothingVanishes, Retained, InDatabase
  <1> QED
    BY Zenon, <1>1, <1>3, <1>6, <1>8

(* Replay removes a file only after its entries were inserted.              *)
LEMMA ReplayKept ==
  ASSUME IInv, Replay
  PROVE  IInv'
  <1> USE DEF IInv, Types
  <1>0. spill # <<>> => spill[1].entries \in Batches
    <2>1. \A f \in Files : f.entries \in Batches
      BY Zenon DEF Files
    <2>2. spill # <<>> => spill[1] \in Files
      BY Zenon, RangeTail
    <2> QED
      BY Zenon, <2>1, <2>2
  <1>1. CASE ReplayDone
    BY Zenon, <1>1, ReturnKept DEF ReplayDone, disk, store, MutexHeld, InDatabase
  <1>2. CASE ReplayInsert
    <2>1. worker' \in Workers /\ worker' = [worker EXCEPT !.at = "remove"]
          /\ worker'.at = "remove" /\ worker'.then = worker.then /\ worker'.phase = worker.phase
      BY Zenon, <1>2 DEF ReplayInsert, Workers
    <2>2. /\ database' \in [Entries -> Nat]
          /\ \A e \in Entries : InDatabase(e) => InDatabase(e)'
          /\ \A e \in Range(spill[1].entries) : InDatabase(e)'
      BY Zenon, <1>0, <1>2, MergedIs DEF ReplayInsert, InsertSucceeds
    <2>3. Range(batch) \subseteq Entries
      BY DEF Range, Batches
    <2>4. Delivered' /\ Drained'
      BY Zenon, <1>2, <2>1, <2>2, <2>3
         DEF ReplayInsert, memory, disk, Delivered, Drained, Stopped, MutexHeld
    <2>5. NothingVanishes'
      BY Zenon, <1>2, <2>2 DEF ReplayInsert, memory, disk, NothingVanishes, Retained, InDatabase
    <2> QED
      BY Zenon, <1>2, <2>1, <2>2, <2>4, <2>5 DEF ReplayInsert, memory, disk
  <1>3. CASE ReplayRemove
    <2>0. spill # <<>> /\ \A e \in Range(spill[1].entries) : InDatabase(e)
      BY Zenon, <1>3 DEF ReplayRemove, Delivered
    <2>1. Len(spill[1].entries) \in Nat
      BY <1>0, <2>0 DEF Batches
    <2>2. worker' \in Workers /\ worker'.at = "replay" /\ worker'.then = worker.then
          /\ worker'.phase = worker.phase
      <3> DEFINE n == worker.count + Len(spill[1].entries)
      <3>1. n \in Nat
        BY <2>1 DEF Workers
      <3>2. worker' = [worker EXCEPT !.at = "replay", !.count = n]
        BY Zenon, <1>3 DEF ReplayRemove
      <3> HIDE DEF n
      <3> QED
        BY Zenon, <3>1, <3>2 DEF Workers
    <2>3. spill' \in Seq(Files) /\ Range(spill) = {spill[1]} \cup Range(spill')
      BY Zenon, <1>3, <2>0, RangeTail DEF ReplayRemove
    <2>4. \A e : e \in Retained => e \in Retained' \/ e \in Range(spill[1].entries)
      <3>1. \A e : e \in Retained <=> \E f \in Range(spill) : e \in Range(f.entries)
        BY Zenon, EntriesIn DEF Retained
      <3>2. \A e : e \in Retained' <=> \E f \in Range(spill') : e \in Range(f.entries)
        BY Zenon, EntriesIn DEF Retained
      <3> QED
        BY Zenon, <2>3, <3>1, <3>2
    <2>5. Delivered' /\ Drained'
      BY Zenon, <1>3, <2>2 DEF ReplayRemove, memory, store, Delivered, Drained, Stopped, MutexHeld, InDatabase
    <2>6. NothingVanishes'
      BY Zenon, <1>3, <2>0, <2>4 DEF ReplayRemove, memory, store, NothingVanishes, InDatabase
    <2> QED
      BY Zenon, <1>3, <2>2, <2>3, <2>5, <2>6 DEF ReplayRemove, memory, store
  <1>4. CASE ReplayFails
    <2>1. MutexHeld /\ UNCHANGED <<call, queue, disk, dropped, stop>> /\ ReplayReturns
      BY Zenon, <1>4 DEF ReplayFails, MutexHeld
    <2>2. /\ database' \in [Entries -> Nat]
          /\ \A e \in Entries : InDatabase(e) => InDatabase(e)'
      <3>1. CASE UNCHANGED store
        BY Zenon, <3>1 DEF store, InDatabase
      <3>2. CASE spill # <<>> /\ InsertFails(spill[1].entries)
        BY Zenon, <1>0, <3>2, FailedIs
      <3> QED
        BY Zenon, <1>4, <3>1, <3>2 DEF ReplayFails, store
    <2> QED
      BY Zenon, <2>1, <2>2, ReturnKept DEF disk
  <1> QED
    BY Zenon, <1>1, <1>2, <1>3, <1>4 DEF Replay

(* The other steps of the worker.                                           *)
LEMMA WorkerKept ==
  ASSUME IInv, Take \/ Tick \/ Cancelled
  PROVE  IInv'
  <1> USE DEF IInv, Types
  <1>1. CASE Take
    <2>1. queue \in Seq(Entries) /\ batch \in Seq(Entries) /\ queue # <<>>
      BY Zenon, <1>1 DEF Take, Batches
    <2>2. /\ Head(queue) \in Entries /\ queue' \in Seq(Entries)
          /\ Range(queue) = {Head(queue)} \cup Range(queue')
      <3>1. queue' = Tail(queue)
        BY Zenon, <1>1 DEF Take
      <3>2. /\ Head(queue) = queue[1] /\ queue[1] \in Entries /\ Tail(queue) \in Seq(Entries)
            /\ Range(queue) = {queue[1]} \cup Range(Tail(queue))
        BY <2>1, RangeTail
      <3> QED
        BY Zenon, <3>1, <3>2
    <2>3. batch' \in Seq(Entries) /\ Range(batch') = Range(batch) \cup {Head(queue)}
      BY <1>1, <2>1, <2>2, RangeAppend DEF Take
    <2>4. worker' \in Workers /\ worker'.at \in {"select", "flush"} /\ worker'.phase = worker.phase
          /\ ~MutexHeld'
      BY Zenon, <1>1 DEF Take, Workers, MutexHeld
    <2>5. worker.phase # "leaving" /\ stop # "stopped"
      BY Zenon, <1>1 DEF Take, Drained
    <2>6. Delivered' /\ Drained'
      BY Zenon, <1>1, <2>4, <2>5 DEF Take, Delivered, Drained, Stopped, MutexHeld
    <2>7. NothingVanishes'
      BY Zenon, <1>1, <2>2, <2>3 DEF Take, disk, store, NothingVanishes, Retained
    <2> QED
      BY Zenon, <1>1, <2>2, <2>3, <2>4, <2>6, <2>7 DEF Take, disk, store, Batches
  <1>2. CASE Tick \/ Cancelled
    <2>1. UNCHANGED <<memory, disk, store, dropped, stop>> /\ worker.at = "select"
      BY Zenon, <1>2 DEF Tick, Cancelled
    <2>2. worker' \in Workers
      BY Zenon, <1>2 DEF Tick, Cancelled, Workers
    <2>3. \/ worker'.at = "replay" /\ worker'.then = "flush" /\ worker'.phase = "serving"
          \/ worker'.at = "select" /\ worker'.phase = "draining" /\ Stopped
          \/ worker'.at = "flush" /\ worker'.phase = "leaving" /\ queue = <<>> /\ worker.phase = "draining"
      BY Zenon, <1>2 DEF Tick, Cancelled, Workers
    <2>4. Delivered' /\ Drained'
      BY Zenon, <2>1, <2>3 DEF memory, Delivered, Drained, Stopped, MutexHeld
    <2>5. NothingVanishes'
      BY Zenon, <2>1 DEF memory, disk, store, NothingVanishes, Retained
    <2> QED
      BY Zenon, <2>1, <2>2, <2>4, <2>5 DEF memory, disk, store
  <1> QED
    BY Zenon, <1>1, <1>2

(* Stop, the end of the process, its restart and damage to a file.          *)
LEMMA ProcessKept ==
  ASSUME IInv, Stop \/ Exit \/ Crash \/ Start \/ Corrupt
  PROVE  IInv'
  <1> USE DEF IInv, Types
  <1>1. CASE Stop
    <2>1. /\ UNCHANGED <<memory, disk, store, worker, dropped>>
          /\ \/ stop = "running" /\ stop' = "locking"
             \/ stop = "locking" /\ stop' = "waiting"
             \/ stop = "waiting" /\ stop' = "stopped" /\ worker.at = "exited"
      BY Zenon, <1>1 DEF Stop, StopBegins, StopLocked, StopReturns
    <2>2. Delivered' /\ Drained'
      BY Zenon, <2>1 DEF memory, disk, store, Delivered, Drained, Stopped, MutexHeld, InDatabase
    <2>3. NothingVanishes'
      BY Zenon, <2>1 DEF memory, disk, store, NothingVanishes, Retained
    <2> QED
      BY Zenon, <2>1, <2>2, <2>3 DEF memory, disk, store
  <1>2. CASE Exit \/ Crash
    <2>1. /\ call' \in [Entries -> {"new", "spilling", "returned", "past", "lost"}]
          /\ \A e \in Entries : call'[e] \in {"returned", "past"} =>
                                call[e] \in {"returned", "past"} /\ (Exit \/ e \notin InMemory)
      <3>1. CASE Exit
        BY <3>1 DEF Exit
      <3>2. CASE Crash
        BY <3>2 DEF Crash
      <3> QED
        BY Zenon, <1>2, <3>1, <3>2
    <2>2. Ends
      BY Zenon, <1>2 DEF Exit, Crash
    <2>3. /\ queue' = <<>> /\ batch' = <<>> /\ <<>> \in Batches /\ worker' \in Workers
          /\ worker'.at = "down" /\ worker'.phase = "serving" /\ stop' = "running"
      BY <2>2 DEF Ends, Down, Workers, Batches
    <2>4. Delivered' /\ Drained'
      BY Zenon, <2>3 DEF Delivered, Drained, MutexHeld
    <2>5. \A e \in Range(queue) \cup Range(batch) : e \in InMemory \/ InDatabase(e)
      BY Zenon DEF InMemory, Delivered
    <2>6. ASSUME Exit PROVE Range(queue) \cup Range(batch) = {}
      <3>1. queue = <<>> /\ batch = <<>>
        BY Zenon, <2>6 DEF Exit, Drained
      <3> QED
        BY <3>1 DEF Range
    <2>7. NothingVanishes'
      BY Zenon, <2>1, <2>2, <2>5, <2>6 DEF Ends, disk, store, NothingVanishes, Retained, InDatabase
    <2> QED
      BY Zenon, <2>1, <2>2, <2>3, <2>4, <2>7 DEF Ends, disk, store
  <1>3. CASE Start
    <2>1. worker' \in Workers /\ worker'.at = "replay" /\ worker'.then = "select" /\ worker'.phase = "serving"
      BY <1>3 DEF Start, Started, Down, Workers
    <2>2. Delivered' /\ Drained'
      BY Zenon, <1>3, <2>1 DEF Start, memory, Delivered, Drained, MutexHeld
    <2>3. NothingVanishes'
      BY Zenon, <1>3 DEF Start, memory, disk, store, NothingVanishes, Retained
    <2> QED
      BY Zenon, <1>3, <2>1, <2>2, <2>3 DEF Start, memory, disk, store
  <1>4. CASE Corrupt
    <2>1. UNCHANGED <<memory, store, worker, dropped, stop>>
      BY Zenon, <1>4 DEF Corrupt
    <2>2. PICK i \in DOMAIN spill : spill' = [spill EXCEPT ![i].intact = FALSE]
      BY Zenon, <1>4 DEF Corrupt
    <2>3. /\ spill' \in Seq(Files) /\ DOMAIN spill' = DOMAIN spill
          /\ \A j \in DOMAIN spill : spill'[j].entries = spill[j].entries
          /\ spill # <<>> => spill' # <<>> /\ 1 \in DOMAIN spill
      <3> DEFINE file == [spill[i] EXCEPT !.intact = FALSE]
      <3>1. spill[i] \in Files /\ DOMAIN spill = 1 .. Len(spill) /\ Len(spill) \in Nat
        OBVIOUS
      <3>2. file \in Files /\ file.entries = spill[i].entries
        BY Zenon, <3>1 DEF Files
      <3>3. spill' = [spill EXCEPT ![i] = file]
        BY Zenon, <2>2
      <3> HIDE DEF file
      <3>4. spill' \in Seq(Files) /\ Len(spill') = Len(spill)
        BY <3>1, <3>2, <3>3
      <3>5. DOMAIN spill' = DOMAIN spill /\ \A j \in DOMAIN spill : spill'[j] = IF j = i THEN file ELSE spill[j]
        BY Zenon, <3>3
      <3>6. i \in 1 .. Len(spill) => 1 \in 1 .. Len(spill) /\ spill' # <<>>
        BY <3>1, <3>4
      <3> QED
        BY Zenon, <3>1, <3>2, <3>4, <3>5, <3>6
    <2>4. Retained' = Retained
      <3>1. {Range(spill'[j].entries) : j \in DOMAIN spill'} = {Range(spill[j].entries) : j \in DOMAIN spill}
        BY Zenon, <2>3
      <3> QED
        BY Zenon, <3>1 DEF Retained
    <2>5. Delivered' /\ Drained'
      BY Zenon, <2>1, <2>3 DEF memory, store, Delivered, Drained, Stopped, MutexHeld, InDatabase
    <2>6. NothingVanishes'
      BY Zenon, <2>1, <2>4 DEF memory, store, NothingVanishes
    <2> QED
      BY Zenon, <2>1, <2>3, <2>5, <2>6 DEF memory, store
  <1> QED
    BY Zenon, <1>1, <1>2, <1>3, <1>4

(* The invariant holds throughout.                                          *)
LEMMA Invariance == Spec => []IInv
  <1>1. ASSUME IInv, [Next]_vars PROVE IInv'
    <2>1. CASE UNCHANGED vars
      BY Zenon, <1>1, <2>1 DEF vars, IInv, Types, Delivered, Drained, MutexHeld, Stopped,
                               InDatabase, NothingVanishes, Retained
    <2> QED
      BY Zenon, <1>1, <2>1, LogKept, FlushKept, ReplayKept, WorkerKept, ProcessKept
         DEF Next, runBatchWorker
  <1> QED
    BY InitInv, <1>1, PTL DEF Spec

(* No entry whose call of Log returned is forgotten by the queue, a flush,  *)
(* a replay, a shutdown or a restart: it is kept, stored or counted.        *)
THEOREM NoEntryVanishes == Spec => []NothingVanishes
  <1>1. IInv => NothingVanishes
    BY Zenon DEF IInv
  <1> QED
    BY Invariance, <1>1, PTL

-----------------------------------------------------------------------------
(* The counters.                                                            *)

Counters == [written : Nat, spilled : Nat, replayed : Nat]

Buffered == Range(queue) \cup Range(batch)

Counted == dropped \cap Returned

(* An entry is in memory once, because of a call that returned, and not     *)
(* counted as dropped.                                                      *)
InOnePlace ==
  /\ Buffered \subseteq Returned
  /\ Buffered \cap dropped = {}
  /\ Range(queue) \cap Range(batch) = {}
  /\ IsInjective(queue)
  /\ IsInjective(batch)

(* A call that has not returned has not been counted, none waits for the    *)
(* spill store once Stop has the lock, and a new process counts from zero.  *)
CallsOpen ==
  /\ \A e \in Entries : call[e] \in {"new", "spilling"} => e \notin dropped
  /\ Stopped \/ worker.at = "down" => Unlocked
  /\ worker.at = "down" => Returned = {} /\ stats = NoStats

Balance ==
  Cardinality(Returned) =
    stats.written + stats.spilled + Cardinality(Counted) + Cardinality(InMemory)

CInv ==
  /\ stats \in Counters
  /\ IsFiniteSet(Returned)
  /\ InOnePlace
  /\ CallsOpen
  /\ Balance

-----------------------------------------------------------------------------
(* Counting.                                                                *)

(* One more element.                                                        *)
LEMMA OneMore ==
  ASSUME NEW S, IsFiniteSet(S), NEW e, e \notin S
  PROVE  /\ IsFiniteSet(S \cup {e})
         /\ Cardinality(S) \in Nat
         /\ Cardinality(S \cup {e}) = Cardinality(S) + 1
  BY FS_AddElement, FS_CardinalityType

(* Two sets without common elements.                                        *)
LEMMA BothSets ==
  ASSUME NEW S, IsFiniteSet(S), NEW T, IsFiniteSet(T), S \cap T = {}
  PROVE  /\ Cardinality(S) \in Nat /\ Cardinality(T) \in Nat
         /\ Cardinality(S \cup T) = Cardinality(S) + Cardinality(T)
  <1>1. Cardinality(S \cap T) = 0
    BY FS_EmptySet
  <1>2. Cardinality(S \cup T) = Cardinality(S) + Cardinality(T) - Cardinality(S \cap T)
    BY Zenon, FS_Union
  <1>3. Cardinality(S) \in Nat /\ Cardinality(T) \in Nat
    BY Zenon, FS_CardinalityType
  <1> QED
    BY <1>1, <1>2, <1>3

(* A queue or a batch without repetitions has as many entries as places.    *)
LEMMA Distinct ==
  ASSUME NEW S, NEW s \in Seq(S), IsInjective(s)
  PROVE  IsFiniteSet(Range(s)) /\ Cardinality(Range(s)) = Len(s) /\ Len(s) \in Nat
  <1>1. Len(s) \in Nat /\ DOMAIN s = 1 .. Len(s) /\ s \in [1 .. Len(s) -> S]
    OBVIOUS
  <1>2. IsFiniteSet(1 .. Len(s)) /\ Cardinality(1 .. Len(s)) = Len(s)
    BY <1>1, FS_Interval
  <1>3. s \in [1 .. Len(s) -> Range(s)] /\ \A x \in Range(s) : \E i \in 1 .. Len(s) : s[i] = x
    BY <1>1 DEF Range
  <1>4. s \in Surjection(1 .. Len(s), Range(s))
    BY Zenon, <1>3 DEF Surjection
  <1>5. s \in Injection(1 .. Len(s), Range(s))
    BY Zenon, <1>1, <1>3 DEF Injection, IsInjective
  <1> QED
    BY Zenon, <1>1, <1>2, <1>4, <1>5, FS_Surjection

(* Taking the head of a queue without repetitions.                          *)
LEMMA DistinctTail ==
  ASSUME NEW S, NEW s \in Seq(S), s # <<>>, IsInjective(s)
  PROVE  IsInjective(Tail(s)) /\ s[1] \notin Range(Tail(s))
  <1>1. Len(s) \in Nat /\ Len(s) > 0 /\ DOMAIN s = 1 .. Len(s) /\ DOMAIN Tail(s) = 1 .. (Len(s) - 1)
    OBVIOUS
  <1>2. \A i \in DOMAIN Tail(s) : /\ Tail(s)[i] = s[i + 1] /\ i + 1 \in DOMAIN s
                                 /\ 1 \in DOMAIN s /\ i + 1 # 1 /\ i \in Nat
    BY <1>1
  <1>3. \A i, j \in DOMAIN s : s[i] = s[j] => i = j
    BY Zenon DEF IsInjective
  <1>4. ASSUME NEW i \in DOMAIN Tail(s), NEW j \in DOMAIN Tail(s), Tail(s)[i] = Tail(s)[j] PROVE i = j
    <2>1. i + 1 = j + 1
      BY Zenon, <1>2, <1>3, <1>4
    <2> QED
      BY <1>2, <2>1
  <1>5. \A i \in DOMAIN Tail(s) : Tail(s)[i] # s[1]
    BY Zenon, <1>2, <1>3
  <1> QED
    BY Zenon, <1>4, <1>5 DEF IsInjective, Range

(* Appending a new entry.                                                   *)
LEMMA DistinctAppend ==
  ASSUME NEW S, NEW s \in Seq(S), NEW e \in S, e \notin Range(s), IsInjective(s)
  PROVE  IsInjective(Append(s, e))
  <1>1. /\ Len(s) \in Nat /\ DOMAIN s = 1 .. Len(s)
        /\ DOMAIN Append(s, e) = (1 .. Len(s)) \cup {Len(s) + 1}
    OBVIOUS
  <1>2. (\A i \in 1 .. Len(s) : Append(s, e)[i] = s[i]) /\ Append(s, e)[Len(s) + 1] = e
    OBVIOUS
  <1>3. \A i \in 1 .. Len(s) : s[i] # e
    BY Zenon, <1>1 DEF Range
  <1>4. \A i, j \in 1 .. Len(s) : s[i] = s[j] => i = j
    BY Zenon, <1>1 DEF IsInjective
  <1> QED
    BY Zenon, <1>1, <1>2, <1>3, <1>4 DEF IsInjective

(* The empty queue or batch.                                                *)
LEMMA NoneIn == Range(<<>>) = {} /\ IsInjective(<<>>)
  BY DEF Range, IsInjective

-----------------------------------------------------------------------------
(* Every step keeps the balance.                                            *)

(* The sets that are counted are finite.                                    *)
LEMMA CountedSets ==
  ASSUME IInv, CInv
  PROVE  /\ IsFiniteSet(Counted) /\ Cardinality(Counted) \in Nat
         /\ IsFiniteSet(InMemory) /\ Cardinality(InMemory) \in Nat
         /\ Cardinality(Returned) \in Nat /\ InMemory \subseteq Buffered
  <1>1. InMemory \subseteq Buffered /\ Buffered \subseteq Returned /\ Counted \subseteq Returned
    BY Zenon DEF InMemory, Buffered, Counted, CInv, InOnePlace
  <1>2. InMemory \in SUBSET Returned /\ Counted \in SUBSET Returned /\ IsFiniteSet(Returned)
    BY Zenon, <1>1 DEF CInv
  <1>3. IsFiniteSet(InMemory) /\ IsFiniteSet(Counted)
    BY Zenon, <1>2, FS_Subset
  <1> QED
    BY Zenon, <1>1, <1>2, <1>3, FS_CardinalityType

(* A call of Log that returns.                                              *)
LEMMA OneReturns ==
  ASSUME IInv, CInv, NEW e \in Entries, call[e] \in {"new", "spilling"},
         call' = [call EXCEPT ![e] = "returned"]
  PROVE  /\ e \notin Returned /\ e \notin dropped /\ Returned' = Returned \cup {e}
         /\ IsFiniteSet(Returned') /\ Cardinality(Returned') = Cardinality(Returned) + 1
         /\ \A x \in Entries : call'[x] \in {"new", "spilling"} => call[x] \in {"new", "spilling"} /\ x # e
         /\ Unlocked => Unlocked'
  <1>1. call \in [Entries -> {"new", "spilling", "returned", "past", "lost"}]
    BY Zenon DEF IInv, Types
  <1>2. \A x \in Entries : call'[x] = IF x = e THEN "returned" ELSE call[x]
    BY Zenon, <1>1
  <1>3. e \notin Returned /\ Returned' = Returned \cup {e}
    BY <1>2 DEF Returned
  <1>4. IsFiniteSet(Returned') /\ Cardinality(Returned') = Cardinality(Returned) + 1
    BY Zenon, <1>3, OneMore DEF CInv
  <1>5. /\ \A x \in Entries : call'[x] \in {"new", "spilling"} => call[x] \in {"new", "spilling"} /\ x # e
        /\ Unlocked => Unlocked'
    BY <1>2 DEF Unlocked
  <1> QED
    BY Zenon, <1>3, <1>4, <1>5 DEF CInv, CallsOpen

(* ... with its entry counted as dropped.                                   *)
LEMMA ReturnsDropped ==
  ASSUME IInv, CInv, NEW e \in Entries, call[e] \in {"new", "spilling"}, worker.at # "down",
         call' = [call EXCEPT ![e] = "returned"], dropped' = dropped \cup {e},
         UNCHANGED <<queue, batch, worker, stats, stop>>
  PROVE  CInv'
  <1>1. /\ e \notin Returned /\ e \notin dropped /\ Returned' = Returned \cup {e}
        /\ IsFiniteSet(Returned') /\ Cardinality(Returned') = Cardinality(Returned) + 1
        /\ \A x \in Entries : call'[x] \in {"new", "spilling"} => call[x] \in {"new", "spilling"} /\ x # e
        /\ Unlocked => Unlocked'
    BY Zenon, OneReturns
  <1>2. Counted' = Counted \cup {e} /\ e \notin Counted
    BY Zenon, <1>1 DEF Counted
  <1>3. Cardinality(Counted') = Cardinality(Counted) + 1
    BY Zenon, <1>2, CountedSets, OneMore
  <1>4. InMemory' = InMemory /\ Buffered' = Buffered
    BY Zenon DEF InMemory, Buffered, MutexHeld
  <1>5. Balance'
    BY <1>1, <1>3, <1>4, CountedSets DEF CInv, Balance, Counters
  <1>6. InOnePlace'
    BY Zenon, <1>1, <1>4 DEF CInv, InOnePlace
  <1>7. CallsOpen'
    BY Zenon, <1>1 DEF CInv, CallsOpen, Stopped
  <1> QED
    BY Zenon, <1>1, <1>5, <1>6, <1>7 DEF CInv

(* ... with its entry in the queue.                                         *)
LEMMA ReturnsQueued ==
  ASSUME IInv, CInv, NEW e \in Entries, call[e] \in {"new", "spilling"}, worker.at # "down",
         call' = [call EXCEPT ![e] = "returned"], queue' = Append(queue, e),
         UNCHANGED <<dropped, batch, worker, stats, stop>>
  PROVE  CInv'
  <1>1. /\ e \notin Returned /\ e \notin dropped /\ Returned' = Returned \cup {e}
        /\ IsFiniteSet(Returned') /\ Cardinality(Returned') = Cardinality(Returned) + 1
        /\ \A x \in Entries : call'[x] \in {"new", "spilling"} => call[x] \in {"new", "spilling"} /\ x # e
        /\ Unlocked => Unlocked'
    BY Zenon, OneReturns
  <1>2. queue \in Seq(Entries) /\ e \notin Buffered /\ IsInjective(queue)
    BY Zenon, <1>1 DEF CInv, InOnePlace, IInv, Types, Batches
  <1>3. Range(queue') = Range(queue) \cup {e} /\ IsInjective(queue')
    <2>1. Range(Append(queue, e)) = Range(queue) \cup {e}
      BY <1>2, RangeAppend
    <2>2. e \notin Range(queue)
      BY Zenon, <1>2 DEF Buffered
    <2>3. IsInjective(Append(queue, e))
      BY <1>2, <2>2, DistinctAppend
    <2> QED
      BY Zenon, <2>1, <2>3
  <1>4. InMemory' = InMemory \cup {e} /\ Buffered' = Buffered \cup {e} /\ e \notin InMemory
    BY Zenon, <1>2, <1>3, CountedSets DEF InMemory, Buffered, MutexHeld
  <1>5. Cardinality(InMemory') = Cardinality(InMemory) + 1
    BY Zenon, <1>4, CountedSets, OneMore
  <1>6. Counted' = Counted
    BY Zenon, <1>1 DEF Counted
  <1>7. Balance'
    BY <1>1, <1>5, <1>6, CountedSets DEF CInv, Balance, Counters
  <1>8. InOnePlace'
    <2>1. Buffered' \subseteq Returned' /\ Buffered' \cap dropped' = {}
      BY <1>1, <1>4 DEF CInv, InOnePlace
    <2>2. Range(queue') \cap Range(batch') = {}
      BY <1>2, <1>3 DEF CInv, InOnePlace, Buffered
    <2> QED
      BY Zenon, <1>3, <2>1, <2>2 DEF CInv, InOnePlace
  <1>9. CallsOpen'
    BY Zenon, <1>1 DEF CInv, CallsOpen, Stopped
  <1> QED
    BY Zenon, <1>1, <1>7, <1>8, <1>9 DEF CInv

(* ... with its entry in a spill file.                                      *)
LEMMA ReturnsSpilled ==
  ASSUME IInv, CInv, NEW e \in Entries, call[e] \in {"new", "spilling"}, worker.at # "down",
         call' = [call EXCEPT ![e] = "returned"],
         stats' = [stats EXCEPT !.spilled = @ + 1],
         UNCHANGED <<dropped, queue, batch, worker, stop>>
  PROVE  CInv'
  <1>1. /\ e \notin Returned /\ e \notin dropped /\ Returned' = Returned \cup {e}
        /\ IsFiniteSet(Returned') /\ Cardinality(Returned') = Cardinality(Returned) + 1
        /\ \A x \in Entries : call'[x] \in {"new", "spilling"} => call[x] \in {"new", "spilling"} /\ x # e
        /\ Unlocked => Unlocked'
    BY Zenon, OneReturns
  <1>2. stats' \in Counters /\ stats'.written = stats.written /\ stats'.spilled = stats.spilled + 1
        /\ stats.written \in Nat /\ stats.spilled \in Nat
    BY DEF CInv, Counters
  <1>3. InMemory' = InMemory /\ Buffered' = Buffered /\ Counted' = Counted
    BY Zenon, <1>1 DEF InMemory, Buffered, MutexHeld, Counted
  <1>4. Balance'
    BY <1>1, <1>2, <1>3, CountedSets DEF CInv, Balance
  <1>5. InOnePlace'
    BY Zenon, <1>1, <1>3 DEF CInv, InOnePlace
  <1>6. CallsOpen'
    BY Zenon, <1>1 DEF CInv, CallsOpen, Stopped
  <1> QED
    BY Zenon, <1>1, <1>2, <1>4, <1>5, <1>6 DEF CInv

(* A call of Log.                                                           *)
LEMMA LogCounted ==
  ASSUME IInv, CInv, NEW e \in Entries, Log(e)
  PROVE  CInv'
  <1>1. CASE SealFails(e)
    BY Zenon, <1>1, ReturnsDropped DEF SealFails
  <1>2. CASE enqueue(e)
    <2>1. worker.at # "down" /\ call[e] = "new" /\ UNCHANGED <<batch, worker, stats, stop>>
      BY Zenon, <1>2 DEF enqueue
    <2>2. CASE dropped' = dropped \cup {e} /\ call' = [call EXCEPT ![e] = "returned"] /\ queue' = queue
      BY Zenon, <2>1, <2>2, ReturnsDropped
    <2>3. CASE queue' = Append(queue, e) /\ call' = [call EXCEPT ![e] = "returned"] /\ dropped' = dropped
      BY Zenon, <2>1, <2>3, ReturnsQueued
    <2>4. CASE call' = [call EXCEPT ![e] = "spilling"] /\ queue' = queue /\ dropped' = dropped /\ ~Stopped
      <3>1. call \in [Entries -> {"new", "spilling", "returned", "past", "lost"}]
        BY Zenon DEF IInv, Types
      <3>2. \A x \in Entries : call'[x] = IF x = e THEN "spilling" ELSE call[x]
        BY Zenon, <2>4, <3>1
      <3>3. Returned' = Returned
        BY <2>1, <3>2 DEF Returned
      <3>4. \A x \in Entries : call'[x] \in {"new", "spilling"} => call[x] \in {"new", "spilling"}
        BY <2>1, <3>2
      <3>5. InMemory' = InMemory /\ Buffered' = Buffered /\ Counted' = Counted
        BY Zenon, <2>1, <2>4, <3>3 DEF InMemory, Buffered, MutexHeld, Counted
      <3>6. Balance' /\ InOnePlace'
        BY Zenon, <2>1, <2>4, <3>3, <3>5 DEF CInv, Balance, InOnePlace
      <3>7. CallsOpen'
        BY Zenon, <2>1, <2>4, <3>4 DEF CInv, CallsOpen, Stopped
      <3> QED
        BY Zenon, <2>1, <3>3, <3>6, <3>7 DEF CInv
    <2> QED
      BY Zenon, <1>2, <2>2, <2>3, <2>4 DEF enqueue
  <1>3. CASE SpillEntry(e)
    <2>1. /\ call[e] = "spilling" /\ call' = [call EXCEPT ![e] = "returned"]
          /\ UNCHANGED <<queue, batch, worker, stop>> /\ SpillOrDrop(<<e>>, 0)
      BY Zenon, <1>3 DEF SpillEntry
    <2>2. worker.at # "down"
      BY Zenon, <2>1 DEF CInv, CallsOpen, Unlocked
    <2>3. Len(<<e>>) = 1 /\ Range(<<e>>) = {e}
      BY DEF Range
    <2>4. CASE stats' = [stats EXCEPT !.spilled = @ + Len(<<e>>)] /\ dropped' = dropped
      BY Zenon, <2>1, <2>2, <2>3, <2>4, ReturnsSpilled
    <2>5. CASE dropped' = dropped \cup Range(<<e>>) /\ stats' = stats
      BY Zenon, <2>1, <2>2, <2>3, <2>5, ReturnsDropped
    <2> QED
      BY Zenon, <2>1, <2>4, <2>5 DEF SpillOrDrop
  <1> QED
    BY Zenon, <1>1, <1>2, <1>3 DEF Log

(* A step that moves entries in memory only.                                *)
LEMMA NothingCounted ==
  ASSUME CInv, call' = call, dropped' = dropped,
         Buffered' \subseteq Buffered, InMemory' = InMemory,
         Range(queue') \cap Range(batch') = {}, IsInjective(queue'), IsInjective(batch'),
         stats' \in Counters, stats'.written = stats.written, stats'.spilled = stats.spilled,
         worker.at # "down", worker'.at # "down", Stopped' => Stopped \/ Unlocked
  PROVE  CInv'
  <1>1. Returned' = Returned /\ Counted' = Counted /\ (Unlocked => Unlocked')
    BY Zenon DEF Returned, Counted, Unlocked
  <1>2. Balance'
    BY Zenon, <1>1 DEF CInv, Balance
  <1>3. InOnePlace'
    BY Zenon, <1>1 DEF CInv, InOnePlace
  <1>4. CallsOpen'
    BY Zenon, <1>1 DEF CInv, CallsOpen
  <1> QED
    BY Zenon, <1>1, <1>2, <1>3, <1>4 DEF CInv

(* A flush counts its batch once, as written, spilled or dropped.           *)
LEMMA FlushCounted ==
  ASSUME IInv, IInv', CInv, flush
  PROVE  CInv'
  <1>1. /\ worker.at = "flush" /\ call' = call /\ queue' = queue /\ stop' = stop /\ ~MutexHeld
        /\ worker'.at # "down"
    <2>1. AfterFlush # "down"
      BY Zenon DEF AfterFlush
    <2> QED
      BY Zenon, <2>1 DEF flush, MutexHeld, IInv, Types, Workers
  <1>2. queue \in Seq(Entries) /\ batch \in Seq(Entries)
    BY Zenon DEF IInv, Types, Batches
  <1>3. /\ IsFiniteSet(Range(batch)) /\ Cardinality(Range(batch)) = Len(batch) /\ Len(batch) \in Nat
        /\ IsFiniteSet(Range(queue)) /\ Cardinality(Range(queue)) = Len(queue) /\ Len(queue) \in Nat
    BY Zenon, <1>2, Distinct DEF CInv, InOnePlace
  <1>4. InMemory = Range(queue) \cup Range(batch)
    BY Zenon, <1>1 DEF InMemory
  <1>5. Cardinality(InMemory) = Cardinality(Range(queue)) + Len(batch)
    BY Zenon, <1>3, <1>4, BothSets DEF CInv, InOnePlace
  <1>6. /\ Returned' = Returned /\ (Unlocked => Unlocked')
        /\ Cardinality(Returned') = Cardinality(Returned)
    BY Zenon, <1>1 DEF Returned, Unlocked
  <1>7. CASE batch = <<>> /\ batch' = batch /\ stats' = stats /\ dropped' = dropped
             /\ worker' = [worker EXCEPT !.at = AfterFlush]
    <2>1. InMemory' = InMemory /\ Buffered' = Buffered
      BY Zenon, <1>1, <1>4, <1>7, NoneIn DEF InMemory, Buffered
    <2> QED
      BY Zenon, <1>1, <1>7, <2>1, NothingCounted DEF CInv, InOnePlace, Stopped
  <1>8. CASE /\ stats' = [stats EXCEPT !.written = @ + Len(batch)] /\ dropped' = dropped /\ batch' = batch
             /\ worker' = [worker EXCEPT !.at = "replay", !.then = "clear"]
    <2>1. worker'.at = "replay" /\ worker'.then = "clear"
      BY <1>8 DEF IInv, Types, Workers
    <2>2. /\ InMemory' = Range(queue) /\ Buffered' = Buffered
          /\ Cardinality(InMemory') = Cardinality(Range(queue))
      BY Zenon, <1>1, <1>8, <2>1 DEF InMemory, Buffered, MutexHeld
    <2>3. stats' \in Counters /\ stats'.written = stats.written + Len(batch) /\ stats'.spilled = stats.spilled
          /\ stats.written \in Nat /\ stats.spilled \in Nat
      BY <1>3, <1>8 DEF CInv, Counters
    <2>4. Cardinality(Counted') = Cardinality(Counted) /\ Cardinality(Counted) \in Nat
      BY Zenon, <1>6, <1>8, CountedSets DEF Counted
    <2>5. Balance'
      <3>1. Balance
        BY Zenon DEF CInv
      <3>2. Cardinality(Range(queue)) \in Nat
        BY Zenon, <1>3
      <3>3. Cardinality(Returned) =
              stats.written + stats.spilled + Cardinality(Counted) + (Cardinality(Range(queue)) + Len(batch))
        BY Zenon, <1>5, <3>1 DEF Balance
      <3>4. Cardinality(Returned) =
              (stats.written + Len(batch)) + stats.spilled + Cardinality(Counted) + Cardinality(Range(queue))
        <4>1. /\ stats.written \in Nat /\ stats.spilled \in Nat /\ Cardinality(Counted) \in Nat
              /\ Len(batch) \in Nat
          BY Zenon, <1>3, <2>3, <2>4
        <4>2. stats.written + stats.spilled + Cardinality(Counted) + (Cardinality(Range(queue)) + Len(batch))
              = (stats.written + Len(batch)) + stats.spilled + Cardinality(Counted) + Cardinality(Range(queue))
          <5> DEFINE w == stats.written  s == stats.spilled  d == Cardinality(Counted)
                     q == Cardinality(Range(queue))  n == Len(batch)
          <5>1. w \in Nat /\ s \in Nat /\ d \in Nat /\ q \in Nat /\ n \in Nat
            BY Zenon, <3>2, <4>1
          <5> HIDE DEF w, s, d, q, n
          <5>2. w + s + d + (q + n) = (w + n) + s + d + q
            BY <5>1
          <5> QED
            BY Zenon, <5>2 DEF w, s, d, q, n
        <4> QED
          BY Zenon, <3>3, <4>2
      <3> QED
        BY Zenon, <1>6, <2>2, <2>3, <2>4, <3>4 DEF Balance
    <2>6. InOnePlace' /\ CallsOpen'
      BY Zenon, <1>1, <1>6, <1>8, <2>2 DEF CInv, InOnePlace, CallsOpen, Stopped
    <2> QED
      BY Zenon, <1>6, <2>3, <2>5, <2>6 DEF CInv
  <1>9. CASE /\ batch' = <<>> /\ SpillOrDrop(batch, 1) /\ worker' = [worker EXCEPT !.at = AfterFlush]
    <2>1. /\ InMemory' = Range(queue) /\ Buffered' = Range(queue)
          /\ Cardinality(InMemory') = Cardinality(Range(queue))
      BY Zenon, <1>1, <1>9, NoneIn DEF InMemory, Buffered
    <2>2. CASE stats' = [stats EXCEPT !.spilled = @ + Len(batch)] /\ dropped' = dropped
      <3>1. stats' \in Counters /\ stats'.written = stats.written /\ stats'.spilled = stats.spilled + Len(batch)
            /\ stats.written \in Nat /\ stats.spilled \in Nat
        BY <1>3, <2>2 DEF CInv, Counters
      <3>2. Cardinality(Counted') = Cardinality(Counted) /\ Cardinality(Counted) \in Nat
        BY Zenon, <1>6, <2>2, CountedSets DEF Counted
      <3>3. Balance'
        <4>1. Balance
          BY Zenon DEF CInv
        <4>2. Cardinality(Range(queue)) \in Nat
          BY Zenon, <1>3
        <4>3. Cardinality(Returned) =
                stats.written + stats.spilled + Cardinality(Counted) + (Cardinality(Range(queue)) + Len(batch))
          BY Zenon, <1>5, <4>1 DEF Balance
        <4>4. Cardinality(Returned) =
                stats.written + (stats.spilled + Len(batch)) + Cardinality(Counted) + Cardinality(Range(queue))
          <5>1. /\ stats.written \in Nat /\ stats.spilled \in Nat /\ Cardinality(Counted) \in Nat
                /\ Len(batch) \in Nat
            BY Zenon, <1>3, <3>1, <3>2
          <5>2. stats.written + stats.spilled + Cardinality(Counted) + (Cardinality(Range(queue)) + Len(batch))
                = stats.written + (stats.spilled + Len(batch)) + Cardinality(Counted) + Cardinality(Range(queue))
            <6> DEFINE w == stats.written  s == stats.spilled  d == Cardinality(Counted)
                       q == Cardinality(Range(queue))  n == Len(batch)
            <6>1. w \in Nat /\ s \in Nat /\ d \in Nat /\ q \in Nat /\ n \in Nat
              BY Zenon, <4>2, <5>1
            <6> HIDE DEF w, s, d, q, n
            <6>2. w + s + d + (q + n) = w + (s + n) + d + q
              BY <6>1
            <6> QED
              BY Zenon, <6>2 DEF w, s, d, q, n
          <5> QED
            BY Zenon, <4>3, <5>2
        <4> QED
          BY Zenon, <1>6, <2>1, <3>1, <3>2, <4>4 DEF Balance
      <3>4. InOnePlace' /\ CallsOpen'
        BY Zenon, <1>1, <1>6, <1>9, <2>1, <2>2, NoneIn DEF CInv, InOnePlace, CallsOpen, Stopped, Buffered
      <3> QED
        BY Zenon, <1>6, <3>1, <3>3, <3>4 DEF CInv
    <2>3. CASE stats' = stats /\ dropped' = dropped \cup Range(batch)
      <3>1. Counted' = Counted \cup Range(batch) /\ Counted \cap Range(batch) = {}
        BY Zenon, <1>6, <2>3 DEF Counted, CInv, InOnePlace, Buffered
      <3>2. Cardinality(Counted') = Cardinality(Counted) + Len(batch) /\ Cardinality(Counted) \in Nat
        BY Zenon, <1>3, <3>1, CountedSets, BothSets
      <3>3. stats.written \in Nat /\ stats.spilled \in Nat
        BY Zenon DEF CInv, Counters
      <3>4. Balance'
        <4>1. Balance
          BY Zenon DEF CInv
        <4> QED
          BY <1>3, <1>5, <1>6, <2>1, <2>3, <3>2, <3>3, <4>1 DEF Balance
      <3>5. InOnePlace'
        BY Zenon, <1>1, <1>6, <1>9, <2>1, <2>3, NoneIn DEF CInv, InOnePlace, Buffered
      <3>6. \A e \in Range(batch) : call[e] = "returned"
        BY Zenon DEF CInv, InOnePlace, Buffered, Returned
      <3>7. CallsOpen'
        BY Zenon, <1>1, <1>6, <2>3, <3>6 DEF CInv, CallsOpen, Stopped
      <3> QED
        BY Zenon, <1>6, <2>3, <3>4, <3>5, <3>7 DEF CInv
    <2> QED
      BY Zenon, <1>9, <2>2, <2>3 DEF SpillOrDrop
  <1> QED
    BY Zenon, <1>7, <1>8, <1>9, flush DEF flush

(* Taking from the queue, the ticker, the end of the context and a replay   *)
(* count nothing a second time.                                             *)
LEMMA WorkerCounted ==
  ASSUME IInv, IInv', CInv, Take \/ Tick \/ Cancelled \/ Replay
  PROVE  CInv'
  <1>0. /\ Range(queue) \cap Range(batch) = {} /\ IsInjective(queue) /\ IsInjective(batch)
        /\ stats \in Counters /\ worker \in Workers
    BY Zenon DEF CInv, InOnePlace, IInv, Types
  <1>1. CASE Take
    <2>1. queue \in Seq(Entries) /\ batch \in Seq(Entries) /\ queue # <<>>
      BY Zenon, <1>1 DEF Take, IInv, Types, Batches
    <2>2. /\ Head(queue) \in Entries /\ Range(queue) = {Head(queue)} \cup Range(queue')
          /\ IsInjective(queue') /\ Head(queue) \notin Range(queue')
      <3>1. queue' = Tail(queue)
        BY Zenon, <1>1 DEF Take
      <3>2. /\ Head(queue) = queue[1] /\ queue[1] \in Entries
            /\ Range(queue) = {queue[1]} \cup Range(Tail(queue))
            /\ IsInjective(Tail(queue)) /\ queue[1] \notin Range(Tail(queue))
        BY <1>0, <2>1, RangeTail, DistinctTail
      <3> QED
        BY Zenon, <3>1, <3>2
    <2>3. Range(batch') = Range(batch) \cup {Head(queue)} /\ IsInjective(batch')
      <3>1. batch' = Append(batch, Head(queue)) /\ Head(queue) \notin Range(batch)
        BY Zenon, <1>0, <1>1, <2>2 DEF Take
      <3> QED
        BY <1>0, <2>1, <2>2, <3>1, RangeAppend, DistinctAppend
    <2>4. worker.at = "select" /\ worker'.at \in {"select", "flush"}
      BY <1>0, <1>1 DEF Take, Workers
    <2>5. Buffered' = Buffered /\ InMemory' = InMemory
      BY Zenon, <2>2, <2>3, <2>4 DEF Buffered, InMemory, MutexHeld
    <2> QED
      BY Zenon, <1>0, <1>1, <2>2, <2>3, <2>4, <2>5, NothingCounted DEF Take, Stopped
  <1>2. CASE Tick \/ Cancelled
    <2>1. /\ UNCHANGED <<memory, stats, dropped, stop>> /\ worker.at = "select"
      BY Zenon, <1>2 DEF Tick, Cancelled
    <2>2. \/ worker'.at = "replay" /\ worker'.then = "flush"
          \/ worker'.at \in {"select", "flush"}
      BY Zenon, <1>0, <1>2 DEF Tick, Cancelled, Workers
    <2>3. Buffered' = Buffered /\ InMemory' = InMemory
      BY Zenon, <2>1, <2>2 DEF memory, Buffered, InMemory, MutexHeld
    <2> QED
      BY Zenon, <1>0, <2>1, <2>2, <2>3, NothingCounted DEF memory, Stopped
  <1>3. CASE ReplayInsert \/ ReplayRemove
    <2>1. UNCHANGED <<memory, stats, dropped, stop>> /\ MutexHeld
      BY Zenon, <1>3 DEF ReplayInsert, ReplayRemove, MutexHeld
    <2>2. worker'.at \in {"replay", "remove"} /\ worker'.then = worker.then
      BY Zenon, <1>0, <1>3 DEF ReplayInsert, ReplayRemove, Workers
    <2>3. Buffered' = Buffered /\ InMemory' = InMemory
      BY Zenon, <2>1, <2>2 DEF memory, Buffered, InMemory, MutexHeld
    <2> QED
      BY Zenon, <1>0, <2>1, <2>2, <2>3, NothingCounted DEF memory, Stopped, MutexHeld
  <1>4. CASE ReplayDone \/ ReplayFails
    <2>1. UNCHANGED <<call, queue, dropped, stop>> /\ MutexHeld /\ ReplayReturns
      BY Zenon, <1>4 DEF ReplayDone, ReplayFails, MutexHeld
    <2>2. stats' \in Counters /\ stats'.written = stats.written /\ stats'.spilled = stats.spilled
      <3> DEFINE n == stats.replayed + worker.count
      <3>1. n \in Nat
        BY <1>0 DEF Counters, Workers
      <3>2. stats' = stats \/ stats' = [stats EXCEPT !.replayed = n]
        BY Zenon, <1>4 DEF ReplayDone, ReplayFails
      <3> HIDE DEF n
      <3> QED
        BY <1>0, <3>1, <3>2 DEF Counters
    <2>3. AfterFlush \in {"exited", "select"} /\ worker.then \in {"select", "flush", "clear"}
      BY Zenon, <1>0 DEF AfterFlush, Workers
    <2>4. worker'.at \notin {"down", "replay", "remove"}
      BY <1>0, <2>1, <2>3 DEF ReplayReturns, Workers
    <2>5. CASE worker.then = "clear" /\ batch' = <<>>
      <3>1. Buffered' \subseteq Buffered /\ InMemory' = InMemory
        BY Zenon, <2>1, <2>4, <2>5, NoneIn DEF Buffered, InMemory, MutexHeld
      <3> QED
        BY Zenon, <1>0, <2>1, <2>2, <2>4, <2>5, <3>1, NoneIn, NothingCounted DEF Stopped, MutexHeld
    <2>6. CASE worker.then # "clear" /\ batch' = batch
      <3>1. Buffered' \subseteq Buffered /\ InMemory' = InMemory
        BY Zenon, <2>1, <2>4, <2>6 DEF Buffered, InMemory, MutexHeld
      <3> QED
        BY Zenon, <1>0, <2>1, <2>2, <2>4, <2>6, <3>1, NothingCounted DEF Stopped, MutexHeld
    <2> QED
      BY Zenon, <2>1, <2>5, <2>6 DEF ReplayReturns
  <1> QED
    BY Zenon, <1>1, <1>2, <1>3, <1>4 DEF Replay

(* Stop, the end of the process, its restart and damage to a file.          *)
LEMMA ProcessCounted ==
  ASSUME IInv, IInv', CInv, Stop \/ Exit \/ Crash \/ Start \/ Corrupt
  PROVE  CInv'
  <1>0. /\ Range(queue) \cap Range(batch) = {} /\ IsInjective(queue) /\ IsInjective(batch)
        /\ stats \in Counters /\ worker \in Workers
    BY Zenon DEF CInv, InOnePlace, IInv, Types
  <1>1. CASE Stop
    <2>1. /\ UNCHANGED <<memory, worker, stats, dropped>>
          /\ Stopped' => Stopped \/ Unlocked
      BY Zenon, <1>1 DEF Stop, StopBegins, StopLocked, StopReturns, Stopped
    <2>2. worker.at # "down" \/ (worker.at = "down" /\ UNCHANGED <<memory, worker, stats, dropped>>)
      BY Zenon, <2>1
    <2>3. Returned' = Returned /\ Counted' = Counted /\ Buffered' = Buffered /\ InMemory' = InMemory
          /\ (Unlocked => Unlocked')
      BY Zenon, <2>1 DEF memory, Returned, Counted, Buffered, InMemory, MutexHeld, Unlocked
    <2>4. Balance' /\ InOnePlace' /\ CallsOpen'
      BY Zenon, <2>1, <2>3 DEF memory, CInv, Balance, InOnePlace, CallsOpen
    <2> QED
      BY Zenon, <2>1, <2>3, <2>4 DEF CInv
  <1>2. CASE Exit \/ Crash
    <2>1. \A e \in Entries : /\ call'[e] # "returned"
                             /\ call'[e] # "spilling"
                             /\ call'[e] = "new" => call[e] = "new"
      <3>1. \A e \in Entries : call[e] \in {"new", "spilling", "returned", "past", "lost"}
        BY Zenon DEF IInv, Types
      <3>2. CASE Exit
        <4>1. Unlocked
          BY Zenon, <3>2 DEF Exit, Stopped, CInv, CallsOpen
        <4> QED
          BY <3>1, <3>2, <4>1 DEF Exit, Unlocked
      <3>3. CASE Crash
        BY <3>1, <3>3 DEF Crash
      <3> QED
        BY Zenon, <1>2, <3>2, <3>3
    <2>2. Ends
      BY Zenon, <1>2 DEF Exit, Crash
    <2>3. Returned' = {} /\ Unlocked' /\ Counted' = {}
      <3>1. Unlocked'
        BY Zenon, <2>1 DEF Unlocked
      <3>2. \A e : e \notin Returned'
        BY Zenon, <2>1 DEF Returned
      <3>3. Returned' = {}
        BY <3>2
      <3> QED
        BY <3>1, <3>3 DEF Counted
    <2>4. stats' \in Counters /\ stats'.written = 0 /\ stats'.spilled = 0
      BY <2>2 DEF Ends, NoStats, Counters
    <2>5. Buffered' = {} /\ InMemory' = {} /\ Range(queue') = {} /\ IsInjective(queue') /\ IsInjective(batch')
      BY Zenon, <2>2, NoneIn DEF Ends, Buffered, InMemory
    <2>6. Cardinality(Returned') = 0 /\ Cardinality(Counted') = 0 /\ Cardinality(InMemory') = 0
          /\ IsFiniteSet(Returned')
      BY Zenon, <2>3, <2>5, FS_EmptySet
    <2>7. Balance'
      BY <2>4, <2>6 DEF Balance
    <2>8. InOnePlace'
      BY Zenon, <2>5 DEF InOnePlace
    <2>9. CallsOpen'
      <3>1. \A e \in Entries : call'[e] \in {"new", "spilling"} => e \notin dropped'
        <4>1. dropped' = dropped /\ \A e \in Entries : call[e] = "new" => e \notin dropped
          BY Zenon, <2>2 DEF Ends, CallsOpen, CInv
        <4> QED
          BY <2>1, <4>1
      <3> QED
        BY Zenon, <2>2, <2>3, <3>1 DEF Ends, CallsOpen
    <2> QED
      BY Zenon, <2>4, <2>6, <2>7, <2>8, <2>9 DEF CInv
  <1>3. CASE Start
    <2>1. worker.at = "down" /\ UNCHANGED <<memory, stats, dropped, stop>> /\ worker'.at = "replay"
      BY <1>3 DEF Start, Started, Down
    <2>2. queue = <<>> /\ batch = <<>>
      BY Zenon, <2>1 DEF IInv, Drained
    <2>3. Returned' = Returned /\ Counted' = Counted /\ Buffered' = Buffered /\ InMemory' = InMemory
          /\ (Unlocked => Unlocked')
      BY Zenon, <2>1, <2>2, NoneIn DEF memory, Returned, Counted, Buffered, InMemory, Unlocked
    <2>4. Balance' /\ InOnePlace' /\ CallsOpen'
      BY Zenon, <2>1, <2>3 DEF memory, CInv, Balance, InOnePlace, CallsOpen
    <2> QED
      BY Zenon, <2>1, <2>3, <2>4 DEF CInv
  <1>4. CASE Corrupt
    BY Zenon, <1>4 DEF Corrupt, memory, CInv, Balance, InOnePlace, CallsOpen, Returned, Counted, Buffered,
                       InMemory, MutexHeld, Unlocked, Stopped
  <1> QED
    BY Zenon, <1>1, <1>2, <1>3, <1>4

(* Initially nothing was called and nothing counted.                        *)
LEMMA InitCounted == Init => CInv
  <1> SUFFICES ASSUME Init PROVE CInv
    BY Zenon
  <1>1. Returned = {} /\ Counted = {}
    BY DEF Init, Returned, Counted
  <1>2. stats \in Counters /\ stats.written = 0 /\ stats.spilled = 0
    BY DEF Init, NoStats, Counters
  <1>3. Buffered = {} /\ InMemory = {} /\ Range(queue) = {} /\ IsInjective(queue) /\ IsInjective(batch)
    BY Zenon, NoneIn DEF Init, Buffered, InMemory
  <1>4. Cardinality(Returned) = 0 /\ Cardinality(Counted) = 0 /\ Cardinality(InMemory) = 0
        /\ IsFiniteSet(Returned)
    BY Zenon, <1>1, <1>3, FS_EmptySet
  <1>5. Balance
    BY <1>2, <1>4 DEF Balance
  <1>6. CallsOpen
    BY DEF Init, CallsOpen, Stopped, Started, Down
  <1> QED
    BY Zenon, <1>2, <1>3, <1>4, <1>5, <1>6 DEF CInv, InOnePlace

(* The counters' invariant holds throughout.                                *)
LEMMA CountedInv == Spec => []CInv
  <1>1. ASSUME IInv, IInv', CInv, [Next]_vars PROVE CInv'
    <2>1. CASE UNCHANGED vars
      BY Zenon, <1>1, <2>1 DEF vars, CInv, Balance, InOnePlace, CallsOpen, Returned, Counted, Buffered,
                               InMemory, MutexHeld, Unlocked, Stopped
    <2> QED
      BY Zenon, <1>1, <2>1, LogCounted, FlushCounted, WorkerCounted, ProcessCounted
         DEF Next, runBatchWorker
  <1> QED
    BY Invariance, InitCounted, <1>1, PTL DEF Spec

(* Written, spilled, dropped and in memory add up to the calls that have    *)
(* returned, at every instant of every process.                             *)
THEOREM CountersAdd == Spec => []CountersBalance
  <1>1. CInv => CountersBalance
    BY Zenon DEF CInv, Balance, Counted, CountersBalance
  <1> QED
    BY CountedInv, <1>1, PTL

-----------------------------------------------------------------------------
(* The database and the archive.                                            *)

Archived == UNION {Range(s) : s \in archive}

Overlap(s, t) == Range(s) \cap Range(t) # {}

(* Segments with a common entry are the same object.                        *)
OneObject(objects) == \A s, t \in objects : Overlap(s, t) => s = t

(* No entry is in two files.                                                *)
Apart(files) == \A i, j \in DOMAIN files : Overlap(files[i].entries, files[j].entries) => i = j

(* What the archive has of a file is what a replay of the file puts there.  *)
Resumable(objects, files) ==
  \A s \in objects, i \in DOMAIN files : Overlap(s, files[i].entries) => s \in Segments(files[i].entries)

SInv ==
  /\ \A e \in Entries : database[e] \in {0, 1}
  /\ \A e \in Entries : call[e] \in {"new", "spilling"} => e \notin Retained \cup Archived
  /\ InMemory \cap (Retained \cup Archived) = {}
  /\ OneObject(archive)
  /\ Apart(spill)
  /\ Resumable(archive, spill)
-----------------------------------------------------------------------------
(* Segments.                                                                *)

(* The segments of a batch divide it.                                       *)
LEMMA SegmentsDivide ==
  ASSUME NEW b
  PROVE  /\ \A s \in Segments(b) : Range(s) \subseteq Range(b)
         /\ OneObject(Segments(b))
  <1>1. \A t, x : x \in Range(Segment(b, t)) => x \in Range(b) /\ TenantOf[x] = t
    <2> TAKE t, x
    <2> HAVE x \in Range(Segment(b, t))
    <2> DEFINE own == {i \in DOMAIN b : TenantOf[b[i]] = t}
               Place(i) == Cardinality({j \in own : j <= i})
               At(k) == CHOOSE i \in own : Place(i) = k
               places == {Place(i) : i \in own}
    <2>1. Segment(b, t) = [k \in places |-> b[At(k)]]
      BY Zenon DEF Segment
    <2>2. \A k \in places : \E i \in own : Place(i) = k
      BY Zenon
    <2> HIDE DEF own, Place
    <2>3. \A k \in places : At(k) \in own
      BY Zenon, <2>2
    <2> HIDE DEF At, places
    <2>4. PICK k \in places : x = b[At(k)]
      BY Zenon, <2>1 DEF Range
    <2>5. At(k) \in own
      BY Zenon, <2>3
    <2> QED
      BY Zenon, <2>4, <2>5 DEF own, Range
  <1>2. \A s \in Segments(b) : \E t : s = Segment(b, t)
    BY Zenon DEF Segments
  <1>3. ASSUME NEW s \in Segments(b), NEW u \in Segments(b), Overlap(s, u) PROVE s = u
    <2>1. PICK x : x \in Range(s) /\ x \in Range(u)
      BY <1>3 DEF Overlap
    <2>2. PICK t : s = Segment(b, t)
      BY Zenon, <1>2
    <2>3. PICK v : u = Segment(b, v)
      BY Zenon, <1>2
    <2>4. TenantOf[x] = t
      BY <1>1, <2>1, <2>2
    <2>5. TenantOf[x] = v
      BY <1>1, <2>1, <2>3
    <2> QED
      BY Zenon, <2>2, <2>3, <2>4, <2>5
  <1> QED
    BY Zenon, <1>1, <1>2, <1>3 DEF OneObject

(* Only segments of the batch are put.                                      *)
LEMMA Puts ==
  ASSUME NEW b \in Batches, InsertSucceeds(b) \/ InsertFails(b)
  PROVE  \E new \in SUBSET Segments(b) : archive' = archive \cup new
  <1>1. \A t : FirstSegments(b, t) \in SUBSET Segments(b)
    BY Zenon DEF FirstSegments, Segments
  <1>2. CASE archive' = archive
    <2>1. archive' = archive \cup {} /\ {} \in SUBSET Segments(b)
      BY <1>2
    <2> QED
      BY Zenon, <2>1
  <1>3. CASE archive' = archive \cup Segments(b)
    BY Zenon, <1>3
  <1>4. CASE \E t : archive' = archive \cup FirstSegments(b, t)
    BY Zenon, <1>1, <1>4
  <1> QED
    BY Zenon, <1>2, <1>3, <1>4 DEF InsertSucceeds, InsertFails, store

(* Every row is inserted once.                                              *)
LEMMA OneRow ==
  ASSUME \A e \in Entries : database[e] \in {0, 1}, NEW b, InsertSucceeds(b) \/ InsertFails(b)
  PROVE  \A e \in Entries : database'[e] \in {0, 1}
  <1>1. CASE database' = database
    BY Zenon, <1>1
  <1>2. CASE database' = Merged(b)
    BY Zenon, <1>2 DEF Merged
  <1> QED
    BY Zenon, <1>1, <1>2 DEF InsertSucceeds, InsertFails, store

(* More segments of a batch, which the archive and the files know only as   *)
(* that batch.                                                              *)
LEMMA ArchiveMore ==
  ASSUME NEW objects, NEW files, OneObject(objects), Resumable(objects, files),
         NEW b, NEW new \in SUBSET Segments(b),
         \A s \in objects : Overlap(s, b) => s \in Segments(b),
         \A i \in DOMAIN files : Overlap(files[i].entries, b) => files[i].entries = b
  PROVE  /\ OneObject(objects \cup new)
         /\ Resumable(objects \cup new, files)
         /\ \A s \in objects \cup new : Overlap(s, b) => s \in Segments(b)
  <1>1. \A s \in new : \A t : Overlap(s, t) \/ Overlap(t, s) => Overlap(t, b)
    BY SegmentsDivide DEF Overlap
  <1>2. \A s, t : Overlap(s, t) => Overlap(t, s)
    BY DEF Overlap
  <1>3. \A s \in objects \cup new : Overlap(s, b) => s \in Segments(b)
    BY Zenon
  <1>4. OneObject(objects \cup new)
    BY Zenon, <1>1, <1>2, <1>3, SegmentsDivide DEF OneObject
  <1>5. Resumable(objects \cup new, files)
    <2> SUFFICES ASSUME NEW s \in new, NEW i \in DOMAIN files, Overlap(s, files[i].entries)
                 PROVE  s \in Segments(files[i].entries)
      BY Zenon DEF Resumable
    <2> QED
      BY Zenon, <1>1
  <1> QED
    BY Zenon, <1>3, <1>4, <1>5

(* One more file, with entries that no other file has.                      *)
LEMMA FileMore ==
  ASSUME NEW objects, NEW files \in Seq(Files), NEW f \in Files, Apart(files), Resumable(objects, files),
         \A s \in objects : Overlap(s, f.entries) => s \in Segments(f.entries),
         \A i \in DOMAIN files : ~Overlap(files[i].entries, f.entries)
  PROVE  Apart(Append(files, f)) /\ Resumable(objects, Append(files, f))
  <1> DEFINE n == Len(files) + 1  g == Append(files, f)
  <1>1. /\ DOMAIN g = DOMAIN files \cup {n}
        /\ g[n] = f
        /\ \A i \in DOMAIN files : g[i] = files[i]
    OBVIOUS
  <1> HIDE DEF n, g
  <1>2. \A s, t : Overlap(s, t) => Overlap(t, s)
    BY DEF Overlap
  <1>3. Apart(g)
    BY Zenon, <1>1, <1>2 DEF Apart
  <1>4. Resumable(objects, g)
    BY Zenon, <1>1 DEF Resumable
  <1> QED
    BY Zenon, <1>3, <1>4 DEF g

(* The oldest file removed.                                                 *)
LEMMA FileLess ==
  ASSUME NEW objects, NEW files \in Seq(Files), files # <<>>, Apart(files), Resumable(objects, files)
  PROVE  Apart(Tail(files)) /\ Resumable(objects, Tail(files))
  <1> DEFINE g == Tail(files)
  <1>1. /\ \A i \in DOMAIN g : i + 1 \in DOMAIN files /\ g[i] = files[i + 1]
        /\ \A i, j \in DOMAIN g : i + 1 = j + 1 => i = j
    OBVIOUS
  <1> HIDE DEF g
  <1>2. Apart(g)
    BY Zenon, <1>1 DEF Apart
  <1>3. Resumable(objects, g)
    BY Zenon, <1>1 DEF Resumable
  <1> QED
    BY Zenon, <1>2, <1>3 DEF g

-----------------------------------------------------------------------------
(* Every step keeps the invariant.                                          *)

(* Membership in files and objects.                                         *)
LEMMA InFiles ==
  /\ \A e : e \in Retained <=> \E i \in DOMAIN spill : e \in Range(spill[i].entries)
  /\ \A e : e \in Retained' <=> \E i \in DOMAIN spill' : e \in Range(spill'[i].entries)
  /\ \A e : e \in Archived <=> \E s \in archive : e \in Range(s)
  /\ \A e : e \in Archived' <=> \E s \in archive' : e \in Range(s)
  BY Zenon DEF Retained, Archived

(* Steps that change neither database, archive nor the entries of a file.   *)
LEMMA Bystander ==
  ASSUME SInv, UNCHANGED store, DOMAIN spill' = DOMAIN spill,
         \A i \in DOMAIN spill : spill'[i].entries = spill[i].entries,
         \A e \in Entries : call'[e] \in {"new", "spilling"} => call[e] \in {"new", "spilling"},
         \A e \in InMemory' : e \in InMemory \/ (e \in Entries /\ call[e] = "new")
  PROVE  SInv'
  <1>1. database' = database /\ archive' = archive
    BY Zenon DEF store
  <1>2. \A e : (e \in Retained' => e \in Retained) /\ (e \in Archived' => e \in Archived)
    BY Zenon, <1>1, InFiles
  <1>3. \A e \in Entries : call[e] = "new" => e \notin Retained \cup Archived
    BY Zenon DEF SInv
  <1>4. InMemory' \cap (Retained' \cup Archived') = {}
    <2>1. \A e \in InMemory : e \notin Retained \cup Archived
      BY DEF SInv
    <2> QED
      BY <1>2, <1>3, <2>1
  <1>5. Apart(spill') /\ Resumable(archive', spill') /\ OneObject(archive')
    BY Zenon, <1>1 DEF SInv, Apart, Resumable
  <1>6. \A e \in Entries : call'[e] \in {"new", "spilling"} => e \notin Retained' \cup Archived'
    BY Zenon, <1>2 DEF SInv
  <1> QED
    BY Zenon, <1>1, <1>4, <1>5, <1>6 DEF SInv

(* What WriteBatch does to the directory.                                   *)
LEMMA Spills ==
  ASSUME NEW b, NEW n, SpillOrDrop(b, n)
  PROVE  spill' = spill \/ spill' = Append(spill, [entries |-> b, intact |-> TRUE])
  BY Zenon DEF SpillOrDrop

(* A batch that is nowhere else is written, or its write fails.             *)
LEMMA Written ==
  ASSUME SInv, NEW b \in Batches, InsertSucceeds(b) \/ InsertFails(b),
         \A s \in archive : Overlap(s, b) => s \in Segments(b),
         \A i \in DOMAIN spill : Overlap(spill[i].entries, b) => spill[i].entries = b
  PROVE  /\ \A e \in Entries : database'[e] \in {0, 1}
         /\ OneObject(archive') /\ Resumable(archive', spill)
         /\ \A s \in archive' : Overlap(s, b) => s \in Segments(b)
         /\ \A e \in Archived' : e \in Archived \/ e \in Range(b)
  <1>1. PICK new \in SUBSET Segments(b) : archive' = archive \cup new
    BY Zenon, Puts
  <1>2. /\ OneObject(archive \cup new) /\ Resumable(archive \cup new, spill)
        /\ \A s \in archive \cup new : Overlap(s, b) => s \in Segments(b)
    BY Zenon, ArchiveMore DEF SInv
  <1>3. \A e \in Entries : database'[e] \in {0, 1}
    BY Zenon, OneRow DEF SInv
  <1>4. \A e \in Archived' : e \in Archived \/ e \in Range(b)
    BY Zenon, <1>1, InFiles, SegmentsDivide
  <1> QED
    BY Zenon, <1>1, <1>2, <1>3, <1>4

(* A batch that no file has and the archive knows as this batch is spilled. *)
LEMMA Spilled ==
  ASSUME spill \in Seq(Files), Apart(spill), NEW objects, Resumable(objects, spill),
         NEW b \in Batches, NEW n, SpillOrDrop(b, n),
         \A s \in objects : Overlap(s, b) => s \in Segments(b),
         \A e \in Range(b) : e \notin Retained
  PROVE  /\ Apart(spill') /\ Resumable(objects, spill')
         /\ \A e \in Retained' : e \in Retained \/ e \in Range(b)
  <1>1. CASE spill' = spill
    BY Zenon, <1>1, InFiles
  <1>2. CASE spill' = Append(spill, [entries |-> b, intact |-> TRUE])
    <2> DEFINE f == [entries |-> b, intact |-> TRUE]
    <2>1. f \in Files /\ f.entries = b
      BY Zenon DEF Files
    <2>2. \A i \in DOMAIN spill : ~Overlap(spill[i].entries, f.entries)
      BY <2>1, InFiles DEF Overlap
    <2>3. spill' = Append(spill, f)
      BY Zenon, <1>2
    <2> HIDE DEF f
    <2>4. Apart(spill') /\ Resumable(objects, spill')
      BY Zenon, <2>1, <2>2, <2>3, FileMore
    <2>5. \A e : e \in Retained' => e \in Retained \/ e \in Range(b)
      <3>1. Range(spill') = Range(spill) \cup {f}
        BY <2>1, <2>3, RangeAppend
      <3>2. \A e : e \in Retained <=> \E g \in Range(spill) : e \in Range(g.entries)
        BY Zenon, EntriesIn DEF Retained
      <3>3. \A e : e \in Retained' <=> \E g \in Range(spill') : e \in Range(g.entries)
        BY Zenon, EntriesIn DEF Retained
      <3> QED
        BY Zenon, <2>1, <3>1, <3>2, <3>3
    <2> QED
      BY Zenon, <2>4, <2>5
  <1> QED
    BY Zenon, <1>1, <1>2, Spills

(* Log: a call that returns puts its entry into the queue or into a file.   *)
LEMMA LogStored ==
  ASSUME IInv, CInv, SInv, NEW e \in Entries, Log(e)
  PROVE  SInv'
  <1>0. \A d \in Entries : call[d] \in {"new", "spilling", "returned", "past", "lost"}
    BY Zenon DEF IInv, Types
  <1>1. CASE SealFails(e) \/ enqueue(e)
    <2>1. /\ UNCHANGED store /\ spill' = spill /\ worker' = worker /\ batch' = batch /\ call[e] = "new"
          /\ queue' = queue \/ queue' = Append(queue, e)
          /\ \E c : call' = [call EXCEPT ![e] = c]
      BY Zenon, <1>1 DEF SealFails, enqueue, disk
    <2>2. \A d \in Range(queue') : d \in Range(queue) \/ d = e
      <3>1. queue \in Seq(Entries)
        BY Zenon DEF IInv, Types, Batches
      <3>2. Range(Append(queue, e)) = Range(queue) \cup {e}
        BY <3>1, RangeAppend
      <3> QED
        BY Zenon, <2>1, <3>2
    <2>3. \A d \in InMemory' : d \in InMemory \/ (d \in Entries /\ call[d] = "new")
      <3>1. CASE worker.then = "clear" /\ MutexHeld
        BY Zenon, <2>1, <2>2, <3>1 DEF InMemory, MutexHeld
      <3>2. CASE ~(worker.then = "clear" /\ MutexHeld)
        BY Zenon, <2>1, <2>2, <3>2 DEF InMemory, MutexHeld
      <3> QED
        BY Zenon, <3>1, <3>2
    <2>4. \A d \in Entries : call'[d] \in {"new", "spilling"} => call[d] \in {"new", "spilling"}
      BY <2>1 DEF IInv, Types
    <2> QED
      BY Zenon, <2>1, <2>3, <2>4, Bystander
  <1>2. CASE SpillEntry(e)
    <2>1. /\ call[e] = "spilling" /\ call' = [call EXCEPT ![e] = "returned"] /\ SpillOrDrop(<<e>>, 0)
          /\ queue' = queue /\ batch' = batch /\ worker' = worker /\ UNCHANGED store
      BY Zenon, <1>2 DEF SpillEntry
    <2>2. <<e>> \in Batches /\ Range(<<e>>) = {e}
      BY DEF Batches, Range
    <2>3. e \notin Retained \cup Archived
      BY Zenon, <2>1 DEF SInv
    <2>4. \A s \in archive : ~Overlap(s, <<e>>)
      BY <2>2, <2>3, InFiles DEF Overlap
    <2>5. /\ Apart(spill') /\ Resumable(archive, spill')
          /\ \A d \in Retained' : d \in Retained \/ d \in Range(<<e>>)
      BY Zenon, <2>1, <2>2, <2>3, <2>4, Spilled DEF SInv, IInv, Types
    <2>6. InMemory' = InMemory /\ archive' = archive /\ database' = database /\ Archived' = Archived
      BY Zenon, <2>1 DEF InMemory, MutexHeld, store, Archived
    <2>7. e \notin InMemory
      BY Zenon, <2>1 DEF InMemory, CInv, InOnePlace, Buffered, Returned
    <2>8. call'[e] = "returned" /\ \A d \in Entries : d # e => call'[d] = call[d]
      BY <2>1 DEF IInv, Types
    <2>9. \A d \in Entries : call'[d] \in {"new", "spilling"} => d \notin Retained' \cup Archived'
      BY Zenon, <2>2, <2>5, <2>6, <2>8 DEF SInv
    <2>10. InMemory' \cap (Retained' \cup Archived') = {}
      BY <2>2, <2>5, <2>6, <2>7 DEF SInv
    <2> QED
      BY Zenon, <2>5, <2>6, <2>9, <2>10 DEF SInv
  <1> QED
    BY Zenon, <1>1, <1>2 DEF Log

(* flush: the batch goes to the database and the archive, or to a file.     *)
LEMMA FlushStored ==
  ASSUME IInv, IInv', CInv, SInv, flush
  PROVE  SInv'
  <1>1. /\ worker.at = "flush" /\ ~MutexHeld /\ call' = call /\ queue' = queue
        /\ InMemory = Range(queue) \cup Range(batch)
    BY Zenon DEF flush, MutexHeld, InMemory
  <1>2. CASE UNCHANGED <<batch, spill, store>>
    <2>1. InMemory' \subseteq InMemory
      BY Zenon, <1>1, <1>2 DEF InMemory
    <2> QED
      BY Zenon, <1>1, <1>2, <2>1, Bystander
  <1>3. CASE /\ InsertSucceeds(batch) \/ InsertFails(batch)
             /\ \/ spill' = spill /\ batch' = batch /\ worker'.at = "replay" /\ worker'.then = "clear"
                \/ SpillOrDrop(batch, 1) /\ batch' = <<>>
    <2>1. batch \in Batches /\ spill \in Seq(Files)
      BY Zenon DEF IInv, Types
    <2>2. \A e \in Range(batch) : e \notin Retained /\ e \notin Archived
      BY <1>1 DEF SInv
    <2>3. /\ \A s \in archive : ~Overlap(s, batch)
          /\ \A i \in DOMAIN spill : ~Overlap(spill[i].entries, batch)
      BY <2>2, InFiles DEF Overlap
    <2>4. /\ \A e \in Entries : database'[e] \in {0, 1}
          /\ OneObject(archive') /\ Resumable(archive', spill)
          /\ \A s \in archive' : Overlap(s, batch) => s \in Segments(batch)
          /\ \A e \in Archived' : e \in Archived \/ e \in Range(batch)
      BY Zenon, <1>3, <2>1, <2>3, Written
    <2>5. /\ Apart(spill') /\ Resumable(archive', spill')
          /\ \A e \in Retained' : e \in Retained \/ e \in Range(batch)
      <3>1. CASE spill' = spill
        BY Zenon, <2>4, <3>1, InFiles DEF SInv
      <3>2. CASE SpillOrDrop(batch, 1)
        BY Zenon, <2>1, <2>2, <2>4, <3>2, Spilled DEF SInv
      <3> QED
        BY Zenon, <1>3, <3>1, <3>2
    <2>6. InMemory' = Range(queue)
      BY Zenon, <1>1, <1>3, NoneIn DEF InMemory, MutexHeld
    <2>7. InMemory' \cap (Retained' \cup Archived') = {}
      <3>1. \A e \in Range(queue) : e \notin Retained /\ e \notin Archived /\ e \notin Range(batch)
        BY <1>1 DEF SInv, CInv, InOnePlace
      <3> QED
        BY <2>4, <2>5, <2>6, <3>1
    <2>8. \A e \in Range(batch) : call[e] = "returned"
      BY Zenon DEF CInv, InOnePlace, Buffered, Returned
    <2>9. \A e \in Entries : call'[e] \in {"new", "spilling"} => e \notin Retained' \cup Archived'
      BY Zenon, <1>1, <2>4, <2>5, <2>8 DEF SInv
    <2> QED
      BY Zenon, <2>4, <2>5, <2>7, <2>9 DEF SInv
  <1>4. worker' = [worker EXCEPT !.at = "replay", !.then = "clear"]
        => worker'.at = "replay" /\ worker'.then = "clear"
    BY DEF IInv, Types, Workers
  <1> QED
    BY Zenon, <1>2, <1>3, <1>4 DEF flush

(* replay: the oldest file is written again, and removed once it is.        *)
LEMMA ReplayStored ==
  ASSUME IInv, IInv', CInv, SInv, Replay
  PROVE  SInv'
  <1>1. spill \in Seq(Files) /\ call' = call /\ queue' = queue
    BY Zenon DEF IInv, Types, Replay, ReplayDone, ReplayInsert, ReplayRemove, ReplayFails, memory
  <1>2. InMemory' = InMemory
    <2>1. MutexHeld
      BY Zenon DEF Replay, ReplayDone, ReplayInsert, ReplayRemove, ReplayFails, MutexHeld
    <2>2. CASE ReplayReturns
      <3>1. /\ worker.then \in {"select", "flush", "clear"} /\ AfterFlush \in {"exited", "select"}
            /\ worker'.at = IF worker.then = "clear" THEN AfterFlush ELSE worker.then
        BY <2>2 DEF IInv, Types, Workers, AfterFlush, ReplayReturns
      <3>2. ~MutexHeld'
        BY Zenon, <3>1 DEF MutexHeld
      <3>3. CASE worker.then = "clear"
        BY Zenon, <1>1, <2>1, <2>2, <3>2, <3>3, NoneIn DEF InMemory, ReplayReturns
      <3>4. CASE worker.then # "clear"
        BY Zenon, <1>1, <2>1, <2>2, <3>2, <3>4 DEF InMemory, ReplayReturns
      <3> QED
        BY Zenon, <3>3, <3>4
    <2>3. CASE worker'.then = worker.then /\ MutexHeld' /\ batch' = batch
      BY Zenon, <1>1, <2>1, <2>3 DEF InMemory
    <2>4. CASE ReplayInsert \/ ReplayRemove
      <3>1. worker'.then = worker.then /\ worker'.at \in {"replay", "remove"} /\ batch' = batch
        BY Zenon, <2>4 DEF IInv, Types, Workers, ReplayInsert, ReplayRemove, memory
      <3> QED
        BY Zenon, <2>3, <3>1 DEF MutexHeld
    <2> QED
      BY Zenon, <2>2, <2>4 DEF Replay, ReplayDone, ReplayFails
  <1>3. CASE UNCHANGED store /\ spill' = spill
    BY Zenon, <1>1, <1>2, <1>3, Bystander
  <1>4. CASE ReplayRemove
    <2>1. spill # <<>> /\ spill' = Tail(spill) /\ UNCHANGED store
      BY Zenon, <1>4 DEF ReplayRemove, IInv, Delivered
    <2>2. database' = database /\ archive' = archive
      BY Zenon, <2>1 DEF store
    <2>3. Apart(spill') /\ Resumable(archive', spill')
      BY Zenon, <1>1, <2>1, <2>2, FileLess DEF SInv
    <2>4. Range(spill) = {spill[1]} \cup Range(spill')
      BY Zenon, <1>1, <2>1, RangeTail
    <2>5. \A e : e \in Retained' => e \in Retained
      <3>1. \A e : e \in Retained <=> \E f \in Range(spill) : e \in Range(f.entries)
        BY Zenon, EntriesIn DEF Retained
      <3>2. \A e : e \in Retained' <=> \E f \in Range(spill') : e \in Range(f.entries)
        BY Zenon, EntriesIn DEF Retained
      <3> QED
        BY Zenon, <2>4, <3>1, <3>2
    <2>6. Archived' = Archived
      BY Zenon, <2>2 DEF Archived
    <2>7. InMemory' \cap (Retained' \cup Archived') = {}
      BY <1>2, <2>5, <2>6 DEF SInv
    <2>8. \A e \in Entries : call'[e] \in {"new", "spilling"} => e \notin Retained' \cup Archived'
      BY Zenon, <1>1, <2>5, <2>6 DEF SInv
    <2> QED
      BY Zenon, <2>2, <2>3, <2>7, <2>8 DEF SInv
  <1>5. CASE /\ spill # <<>> /\ spill' = spill
             /\ InsertSucceeds(spill[1].entries) \/ InsertFails(spill[1].entries)
    <2> DEFINE b == spill[1].entries
    <2>1. 1 \in DOMAIN spill /\ spill[1] \in Files
      BY <1>1, <1>5
    <2>2. b \in Batches
      BY <2>1 DEF Files
    <2>3. \A s \in archive : Overlap(s, b) => s \in Segments(b)
      BY Zenon, <2>1 DEF SInv, Resumable
    <2>4. \A i \in DOMAIN spill : Overlap(spill[i].entries, b) => spill[i].entries = b
      BY Zenon, <2>1 DEF SInv, Apart
    <2>5. /\ \A e \in Entries : database'[e] \in {0, 1}
          /\ OneObject(archive') /\ Resumable(archive', spill)
          /\ \A e \in Archived' : e \in Archived \/ e \in Range(b)
      BY Zenon, <1>5, <2>2, <2>3, <2>4, Written
    <2>6. Retained' = Retained /\ \A e \in Range(b) : e \in Retained
      BY Zenon, <1>5, <2>1, InFiles DEF Retained
    <2>7. InMemory' \cap (Retained' \cup Archived') = {}
      BY <1>2, <2>5, <2>6 DEF SInv
    <2>8. \A e \in Entries : call'[e] \in {"new", "spilling"} => e \notin Retained' \cup Archived'
      BY Zenon, <1>1, <2>5, <2>6 DEF SInv
    <2> QED
      BY Zenon, <1>5, <2>5, <2>7, <2>8 DEF SInv
  <1> QED
    BY Zenon, <1>3, <1>4, <1>5 DEF Replay, ReplayDone, ReplayInsert, ReplayFails, disk, store

(* The other steps move entries in memory or forget them.                   *)
LEMMA OtherStored ==
  ASSUME IInv, CInv, SInv, Take \/ Tick \/ Cancelled \/ Stop \/ Exit \/ Crash \/ Start \/ Corrupt
  PROVE  SInv'
  <1>1. UNCHANGED store
    BY Zenon DEF Take, Tick, Cancelled, Stop, StopBegins, StopLocked, StopReturns, Exit, Crash, Ends, Start, Corrupt
  <1>2. DOMAIN spill' = DOMAIN spill /\ \A i \in DOMAIN spill : spill'[i].entries = spill[i].entries
    <2>1. CASE spill' = spill
      BY Zenon, <2>1
    <2>2. CASE Corrupt
      <3>1. PICK i \in DOMAIN spill : spill' = [spill EXCEPT ![i].intact = FALSE]
        BY Zenon, <2>2 DEF Corrupt
      <3>2. \A j \in DOMAIN spill : spill[j] \in Files
        BY DEF IInv, Types
      <3> QED
        BY <3>1, <3>2 DEF Files
    <2> QED
      BY Zenon, <2>1, <2>2
         DEF Take, Tick, Cancelled, Stop, StopBegins, StopLocked, StopReturns, Exit, Crash, Ends, Start, disk
  <1>3. \A e \in Entries : call'[e] \in {"new", "spilling"} => call[e] \in {"new", "spilling"}
    <2>1. CASE call' = call
      BY Zenon, <2>1
    <2>2. CASE Exit \/ Crash
      <3>1. \A e \in Entries : call'[e] \in {"lost", "past", call[e]}
        BY Zenon, <2>2 DEF Exit, Crash
      <3> QED
        BY <3>1
    <2> QED
      BY Zenon, <2>1, <2>2
         DEF Take, Tick, Cancelled, Stop, StopBegins, StopLocked, StopReturns, Start, Corrupt, memory
  <1>4. \A e \in InMemory' : e \in InMemory
    <2>1. CASE Take
      <3>1. queue \in Seq(Entries) /\ batch \in Seq(Entries) /\ queue # <<>> /\ ~MutexHeld
        BY Zenon, <2>1 DEF Take, IInv, Types, Batches, MutexHeld
      <3>2. Range(queue) = {Head(queue)} \cup Range(queue') /\ Head(queue) \in Entries
        BY Zenon, <2>1, <3>1, RangeTail DEF Take
      <3>3. Range(batch') = Range(batch) \cup {Head(queue)}
        BY <2>1, <3>1, <3>2, RangeAppend DEF Take
      <3>4. \A e \in InMemory' : e \in Range(queue') \/ e \in Range(batch')
        BY Zenon DEF InMemory
      <3>5. InMemory = Range(queue) \cup Range(batch)
        BY Zenon, <3>1 DEF InMemory
      <3> QED
        BY Zenon, <3>2, <3>3, <3>4, <3>5
    <2>2. CASE Tick \/ Cancelled
      <3>1. InMemory = Range(queue) \cup Range(batch) /\ queue' = queue /\ batch' = batch
        BY Zenon, <2>2 DEF Tick, Cancelled, InMemory, MutexHeld, memory
      <3> QED
        BY Zenon, <3>1 DEF InMemory
    <2>3. CASE Stop \/ Corrupt
      BY Zenon, <2>3 DEF Stop, StopBegins, StopLocked, StopReturns, Corrupt, InMemory, MutexHeld, memory
    <2>4. CASE queue' = <<>> /\ batch' = <<>>
      BY Zenon, <2>4, NoneIn DEF InMemory
    <2>5. CASE Start
      BY Zenon, <2>4, <2>5 DEF Start, memory, IInv, Drained
    <2> QED
      BY Zenon, <2>1, <2>2, <2>3, <2>4, <2>5 DEF Exit, Crash, Ends
  <1> QED
    BY Zenon, <1>1, <1>2, <1>3, <1>4, Bystander

(* A failed or repeated delivery stores no entry twice: one row per audit   *)
(* ID and one immutable object, over replays, crashes and restarts.         *)
THEOREM EntryStoredOnce == Spec => []StoredOnce
  <1>1. Init => SInv
    <2> SUFFICES ASSUME Init PROVE SInv
      BY Zenon
    <2>1. \A e \in Entries : database[e] \in {0, 1}
      BY DEF Init
    <2>2. DOMAIN spill = {} /\ archive = {}
      BY DEF Init
    <2>3. InMemory = {}
      BY Zenon, NoneIn DEF Init, InMemory
    <2>4. Retained = {} /\ Archived = {}
      BY Zenon, <2>2, InFiles
    <2> QED
      BY Zenon, <2>1, <2>2, <2>3, <2>4 DEF SInv, OneObject, Apart, Resumable
  <1>2. ASSUME IInv, IInv', CInv, SInv, [Next]_vars PROVE SInv'
    <2>1. CASE UNCHANGED vars
      BY Zenon, <1>2, <2>1, Bystander DEF vars, store, InMemory, MutexHeld
    <2> QED
      BY Zenon, <1>2, <2>1, LogStored, FlushStored, ReplayStored, OtherStored DEF Next, runBatchWorker
  <1>3. SInv => StoredOnce
    <2> SUFFICES ASSUME SInv PROVE StoredOnce
      BY Zenon
    <2>1. \A e \in Entries : database[e] <= 1
      BY DEF SInv
    <2> QED
      BY Zenon, <2>1 DEF SInv, OneObject, Overlap, StoredOnce
  <1> QED
    BY Invariance, CountedInv, <1>1, <1>2, <1>3, PTL DEF Spec

=============================================================================

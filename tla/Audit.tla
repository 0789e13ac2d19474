-------------------------------- MODULE Audit --------------------------------
(***************************************************************************)
(* The batch audit logger (internal/audit): request goroutines hand sealed *)
(* entries to a bounded queue, one worker writes them in batches to        *)
(* PostgreSQL and, when configured, to an immutable archive; what cannot   *)
(* be queued or written goes to encrypted spill files under a quota, which *)
(* the worker replays at start, on every tick and after every good write.  *)
(*                                                                         *)
(* An entry is its audit ID; sealing and verifying are reduced to whether  *)
(* they succeed.  A spill file is the batch it holds, its size the number  *)
(* of entries, and the files are kept in name order, which is the order of *)
(* writing.  An archive segment is the sequence of entries its key is a    *)
(* hash of.                                                                *)
(* Tenants are numbers in the order archiveSegments sorts them.            *)
(***************************************************************************)
EXTENDS Naturals, Sequences, FiniteSets, Functions

CONSTANTS
  Entries,        \* one per call of Log
  TenantOf,       \* the tenant of every entry
  QueueCapacity,
  BatchSize,
  Spilling,       \* a spill directory is configured
  SpillMax,       \* its quota
  Archiving,      \* the writer is an ArchivingBatchWriter
  MaxFaults,      \* bound on failed writes, failed files and crashes
  MaxCorrupt      \* bound on spill files damaged on disk

ASSUME AuditAssumption ==
  /\ QueueCapacity \in Nat \ {0}
  /\ BatchSize \in 1..QueueCapacity
  /\ SpillMax \in Nat
  /\ TenantOf \in [Entries -> Nat]
  /\ {Spilling, Archiving} \subseteq BOOLEAN
  /\ {MaxFaults, MaxCorrupt} \subseteq Nat

VARIABLES
  call,      \* where every call of Log is; "past" when it returned in an earlier process
  queue,
  batch,     \* the worker's slice
  spill,     \* the *.auditspill files
  database,  \* rows of decision_audit_logs per audit ID
  archive,   \* objects of the bucket
  worker,    \* the worker: its place, where replay returns to, its phase, replay's count
  stats,     \* the counters Written, Spilled and Replayed
  dropped,   \* the entries counted as dropped
  stop,      \* the call of Stop
  faults,
  corrupted

vars == <<call, queue, batch, spill, database, archive, worker, stats, dropped, stop, faults, corrupted>>
memory == <<call, queue, batch>>
disk == <<spill, corrupted>>
store == <<database, archive>>

Down == [at |-> "down", then |-> "select", phase |-> "serving", count |-> 0]

Started == [Down EXCEPT !.at = "replay"]

NoStats == [written |-> 0, spilled |-> 0, replayed |-> 0]

Init ==
  /\ call = [e \in Entries |-> "new"]
  /\ queue = <<>>
  /\ batch = <<>>
  /\ spill = <<>>
  /\ database = [e \in Entries |-> 0]
  /\ archive = {}
  /\ worker = Started
  /\ stats = NoStats
  /\ dropped = {}
  /\ stop = "running"
  /\ faults = 0
  /\ corrupted = 0

Faults(n) == faults + n <= MaxFaults /\ faults' = faults + n

-----------------------------------------------------------------------------
\* The database and the archive.

\* A mutant: rows inserted without the conflict clause.
Inserted(b) == [e \in Entries |-> IF e \in Range(b) THEN database[e] + 1 ELSE database[e]]

\* Rows merged from the staging table, ON CONFLICT (audit_id) DO NOTHING.
Merged(b) == [e \in Entries |-> IF e \in Range(b) /\ database[e] = 0 THEN 1 ELSE database[e]]

\* The entries of one tenant in the order of the batch, which is what the key hashes.
Segment(b, t) ==
  LET own == {i \in DOMAIN b : TenantOf[b[i]] = t}
      Place(i) == Cardinality({j \in own : j <= i})
  IN  [k \in {Place(i) : i \in own} |-> b[CHOOSE i \in own : Place(i) = k]]

\* One segment per tenant of the batch.
Segments(b) == {Segment(b, TenantOf[e]) : e \in Range(b)}

\* The segments put before the one that fails.
FirstSegments(b, t) == {Segment(b, TenantOf[e]) : e \in {d \in Range(b) : TenantOf[d] <= t}}

InsertSucceeds(b) ==
  /\ database' = Merged(b)
  /\ archive' = IF Archiving THEN archive \cup Segments(b) ELSE archive

\* The transaction fails, its acknowledgement is lost, or the archive fails part way.
InsertFails(b) ==
  \/ UNCHANGED store
  \/ /\ ~Archiving
     /\ database' = Merged(b)
     /\ UNCHANGED archive
  \/ /\ Archiving
     /\ database' = Merged(b)
     /\ \E t \in {0} \cup {TenantOf[e] : e \in Range(b)} : archive' = archive \cup FirstSegments(b, t)

-----------------------------------------------------------------------------
\* Spill files.

Size(files) == FoldFunction(LAMBDA file, sum : sum + Len(file.entries), 0, files)

Refused(b) == Size(spill) + Len(b) > SpillMax

\* A mutant: what cannot be spilled is forgotten.
SpillOrForget(b, n) ==
  \/ /\ Spilling
     /\ ~Refused(b)
     /\ spill' = Append(spill, [entries |-> b, intact |-> TRUE])
     /\ stats' = [stats EXCEPT !.spilled = @ + Len(b)]
     /\ Faults(n)
     /\ UNCHANGED dropped
  \/ /\ Refused(b)
     /\ Faults(n)
     /\ UNCHANGED <<spill, stats, dropped>>

\* WriteBatch and the counting around it; n faults came before.
SpillOrDrop(b, n) ==
  \/ /\ Spilling
     /\ ~Refused(b)
     /\ spill' = Append(spill, [entries |-> b, intact |-> TRUE])
     /\ stats' = [stats EXCEPT !.spilled = @ + Len(b)]
     /\ Faults(n)
     /\ UNCHANGED dropped
  \/ /\ ~Spilling \/ Refused(b)
     /\ dropped' = dropped \cup Range(b)
     /\ Faults(n)
     /\ UNCHANGED <<spill, stats>>
  \/ /\ Spilling
     /\ dropped' = dropped \cup Range(b)
     /\ Faults(n + 1)
     /\ UNCHANGED <<spill, stats>>

\* A file is damaged on disk.
Corrupt ==
  /\ corrupted < MaxCorrupt
  /\ \E i \in DOMAIN spill :
       /\ spill[i].intact
       /\ spill' = [spill EXCEPT ![i].intact = FALSE]
  /\ corrupted' = corrupted + 1
  /\ UNCHANGED <<memory, store, worker, stats, dropped, stop, faults>>

-----------------------------------------------------------------------------
\* Log and enqueue, on the goroutine of a request.

SealFails(e) ==
  /\ worker.at # "down"
  /\ call[e] = "new"
  /\ Faults(1)
  /\ dropped' = dropped \cup {e}
  /\ call' = [call EXCEPT ![e] = "returned"]
  /\ UNCHANGED <<queue, batch, disk, store, worker, stats, stop>>

\* A mutant: the flag is never set.
NeverStopped == FALSE

\* Stop has set the flag that enqueue reads.
Stopped == stop \in {"waiting", "stopped"}

\* A Stop that waits for the write lock keeps new readers out.
enqueue(e) ==
  /\ worker.at # "down"
  /\ call[e] = "new"
  /\ stop # "locking"
  /\ \/ /\ Stopped
        /\ dropped' = dropped \cup {e}
        /\ call' = [call EXCEPT ![e] = "returned"]
        /\ UNCHANGED queue
     \/ /\ ~Stopped
        /\ Len(queue) < QueueCapacity
        /\ queue' = Append(queue, e)
        /\ call' = [call EXCEPT ![e] = "returned"]
        /\ UNCHANGED dropped
     \/ /\ ~Stopped
        /\ Len(queue) = QueueCapacity
        /\ call' = [call EXCEPT ![e] = "spilling"]
        /\ UNCHANGED <<queue, dropped>>
  /\ UNCHANGED <<batch, disk, store, worker, stats, stop, faults>>

\* Replay holds the spill store's mutex throughout.
MutexHeld == worker.at \in {"replay", "remove"}

\* The full queue's entry is spilled once the mutex is free.
SpillEntry(e) ==
  /\ call[e] = "spilling"
  /\ ~MutexHeld
  /\ SpillOrDrop(<<e>>, 0)
  /\ call' = [call EXCEPT ![e] = "returned"]
  /\ UNCHANGED <<queue, batch, corrupted, store, worker, stop>>

-----------------------------------------------------------------------------
\* The worker.

AfterFlush == IF worker.phase = "leaving" THEN "exited" ELSE "select"

Take ==
  /\ worker.at = "select"
  /\ queue # <<>>
  /\ batch' = Append(batch, Head(queue))
  /\ queue' = Tail(queue)
  /\ worker' = [worker EXCEPT !.at = IF Len(batch') = BatchSize THEN "flush" ELSE "select"]
  /\ UNCHANGED <<call, disk, store, stats, dropped, stop, faults>>

\* A mutant: the ticker flushes without replaying.
TickFlushes ==
  /\ worker.at = "select"
  /\ worker.phase = "serving"
  /\ worker' = [worker EXCEPT !.at = "flush"]
  /\ UNCHANGED <<memory, disk, store, stats, dropped, stop, faults>>

Tick ==
  /\ worker.at = "select"
  /\ worker.phase = "serving"
  /\ worker' = [worker EXCEPT !.at = "replay", !.then = "flush"]
  /\ UNCHANGED <<memory, disk, store, stats, dropped, stop, faults>>

\* The context is cancelled: the queue is drained, then the rest of the batch flushed.
Cancelled ==
  /\ worker.at = "select"
  /\ \/ /\ worker.phase = "serving"
        /\ Stopped
        /\ worker' = [worker EXCEPT !.phase = "draining"]
     \/ /\ worker.phase = "draining"
        /\ queue = <<>>
        /\ worker' = [worker EXCEPT !.phase = "leaving", !.at = "flush"]
  /\ UNCHANGED <<memory, disk, store, stats, dropped, stop, faults>>

flush ==
  /\ worker.at = "flush"
  /\ \/ /\ batch = <<>>
        /\ worker' = [worker EXCEPT !.at = AfterFlush]
        /\ UNCHANGED <<batch, spill, store, stats, dropped, faults>>
     \/ /\ batch # <<>>
        /\ InsertSucceeds(batch)
        /\ stats' = [stats EXCEPT !.written = @ + Len(batch)]
        /\ worker' = [worker EXCEPT !.at = "replay", !.then = "clear"]
        /\ UNCHANGED <<batch, spill, dropped, faults>>
     \/ /\ batch # <<>>
        /\ InsertFails(batch)
        /\ SpillOrDrop(batch, 1)
        /\ batch' = <<>>
        /\ worker' = [worker EXCEPT !.at = AfterFlush]
  /\ UNCHANGED <<call, queue, corrupted, stop>>

\* A mutant: a batch that was written is kept.
ReplayReturnsFull ==
  /\ worker' = [worker EXCEPT !.at = IF worker.then = "clear" THEN AfterFlush ELSE worker.then, !.count = 0]
  /\ UNCHANGED batch

\* replay returns to its caller; a flush that called it then empties the batch.
ReplayReturns ==
  /\ worker' = [worker EXCEPT !.at = IF worker.then = "clear" THEN AfterFlush ELSE worker.then, !.count = 0]
  /\ batch' = IF worker.then = "clear" THEN <<>> ELSE batch

ReplayDone ==
  /\ worker.at = "replay"
  /\ spill = <<>>
  /\ stats' = [stats EXCEPT !.replayed = @ + worker.count]
  /\ ReplayReturns
  /\ UNCHANGED <<call, queue, disk, store, dropped, stop, faults>>

\* The oldest file is verified and its entries inserted.
ReplayInsert ==
  /\ worker.at = "replay"
  /\ spill # <<>>
  /\ spill[1].intact
  /\ InsertSucceeds(spill[1].entries)
  /\ worker' = [worker EXCEPT !.at = "remove"]
  /\ UNCHANGED <<memory, disk, stats, dropped, stop, faults>>

ReplayRemove ==
  /\ worker.at = "remove"
  /\ spill' = Tail(spill)
  /\ worker' = [worker EXCEPT !.at = "replay", !.count = @ + Len(spill[1].entries)]
  /\ UNCHANGED <<memory, corrupted, store, stats, dropped, stop, faults>>

\* The first file that cannot be verified, inserted or removed ends the replay.
ReplayFails ==
  /\ \/ /\ worker.at = "replay"
        /\ spill # <<>>
        /\ ~spill[1].intact
        /\ UNCHANGED <<store, faults>>
     \/ /\ worker.at = "replay"
        /\ spill # <<>>
        /\ spill[1].intact
        /\ InsertFails(spill[1].entries)
        /\ Faults(1)
     \/ /\ worker.at = "remove"
        /\ Faults(1)
        /\ UNCHANGED store
  /\ ReplayReturns
  /\ UNCHANGED <<call, queue, disk, stats, dropped, stop>>

-----------------------------------------------------------------------------
\* Stop, the end of the process and its restart.

StopBegins ==
  /\ worker.at # "down"
  /\ stop = "running"
  /\ stop' = "locking"
  /\ UNCHANGED <<memory, disk, store, worker, stats, dropped, faults>>

\* The write lock is free when no enqueue holds its read lock.
Unlocked == \A e \in Entries : call[e] # "spilling"

StopLocked ==
  /\ stop = "locking"
  /\ Unlocked
  /\ stop' = "waiting"
  /\ UNCHANGED <<memory, disk, store, worker, stats, dropped, faults>>

StopReturns ==
  /\ stop = "waiting"
  /\ worker.at = "exited"
  /\ stop' = "stopped"
  /\ UNCHANGED <<memory, disk, store, worker, stats, dropped, faults>>

InMemory == Range(queue) \cup (IF worker.then = "clear" /\ MutexHeld THEN {} ELSE Range(batch))

\* The process ends: what it held in memory is gone.
Ends ==
  /\ queue' = <<>>
  /\ batch' = <<>>
  /\ worker' = Down
  /\ stats' = NoStats
  /\ stop' = "running"
  /\ UNCHANGED <<disk, store, dropped>>

Exit ==
  /\ stop = "stopped"
  /\ call' = [e \in Entries |-> IF call[e] = "returned" THEN "past" ELSE call[e]]
  /\ Ends
  /\ UNCHANGED faults

Crash ==
  /\ worker.at # "down"
  /\ Faults(1)
  /\ call' = [e \in Entries |-> IF call[e] = "spilling" \/ e \in InMemory THEN "lost" ELSE
                                IF call[e] = "returned" THEN "past" ELSE call[e]]
  /\ Ends

Start ==
  /\ worker.at = "down"
  /\ worker' = Started
  /\ UNCHANGED <<memory, disk, store, stats, dropped, stop, faults>>

-----------------------------------------------------------------------------
Replay == ReplayDone \/ ReplayInsert \/ ReplayRemove \/ ReplayFails

runBatchWorker == Take \/ Tick \/ Cancelled \/ flush \/ Replay

Log(e) == SealFails(e) \/ enqueue(e) \/ SpillEntry(e)

Stop == StopBegins \/ StopLocked \/ StopReturns

Next ==
  \/ \E e \in Entries : Log(e)
  \/ runBatchWorker
  \/ Stop
  \/ Exit
  \/ Crash
  \/ Start
  \/ Corrupt

Spec == Init /\ [][Next]_vars

\* The worker runs, its select is random among the ready cases, a waiter gets the
\* mutex in turn, the orchestrator restarts the process, and no fault lasts.
Fairness ==
  /\ WF_vars(runBatchWorker)
  /\ SF_vars(Cancelled)
  /\ \A e \in Entries : SF_vars(SpillEntry(e))
  /\ WF_vars(StopLocked)
  /\ WF_vars(StopReturns)
  /\ WF_vars(Exit)
  /\ WF_vars(Start)

LiveSpec == Spec /\ Fairness

-----------------------------------------------------------------------------
\* Properties.

Retained == UNION {Range(spill[i].entries) : i \in DOMAIN spill}

Returned == {e \in Entries : call[e] = "returned"}

\* No entry whose Log call returned disappears: unless a crash took it from memory,
\* it is queued, in the worker's batch, in a spill file, in the database, or was
\* counted as dropped, through overflow, failed writes, shutdown and restart.
NothingVanishes ==
  \A e \in Entries : call[e] \in {"returned", "past"} =>
    e \in Range(queue) \cup Range(batch) \cup Retained \cup dropped \/ database[e] > 0

\* The counters operators alert on account for every call: those that returned in
\* this process are the ones written, spilled, dropped or still in memory, each
\* counted once, whatever the worker and the requests are doing.
CountersBalance ==
  worker.at # "down" =>
    Cardinality(Returned) =
      stats.written + stats.spilled + Cardinality(dropped \cap Returned)
      + Cardinality(InMemory)

\* A failed or repeated delivery never stores an entry twice: one row per audit ID,
\* and the segment of a replayed batch is the one its first attempt put, so that
\* an entry is in at most one immutable object.
StoredOnce ==
  /\ \A e \in Entries : database[e] <= 1
  /\ \A s, t \in archive : Range(s) \cap Range(t) # {} => s = t

\* Under the worker's fairness every spilled entry reaches the database, over failed
\* writes, crashes and restarts, unless a damaged file stops the replay.
SpillIsDelivered ==
  \A e \in Entries : e \in Retained ~> database[e] > 0 \/ \E i \in DOMAIN spill : ~spill[i].intact

\* Every call of Stop ends, whoever holds the locks, unless the process crashes.
StopEnds == stop = "locking" ~> stop \in {"stopped", "running"}

=============================================================================

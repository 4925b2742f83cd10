------------------------------- MODULE EventLog -------------------------------
(***************************************************************************)
(* The event log of an organisation (db/jobs.rs), the outbox relay that     *)
(* writes to it beside the jobs (jobs/mod.rs), and the stream that tails    *)
(* the events of one job (routes/events.rs).                                *)
(*                                                                          *)
(* A transition of a job appends an event and an outbox row in its own      *)
(* transaction.  A relay takes a batch of rows, carries out each of them in *)
(* a savepoint, and commits what worked.  Nothing is seen by others before  *)
(* the commit, and a number is given out when an event is appended.         *)
(***************************************************************************)
EXTENDS Naturals, FiniteSets, FiniteSetsExt, Sequences, SequencesExt

CONSTANTS Jobs,
          Watched,   \* the job whose stream is open
          Relays,
          Nobody,
          Steps,     \* events of a job, the last of which is terminal
          Limit      \* rows of a relay's batch

\* Assumed by the module that instantiates this one.
EventLogAssumption ==
    /\ Watched \in Jobs /\ {Steps, Limit} \subseteq Nat \ {0}
    /\ Jobs \cap Relays = {} /\ Nobody \notin Jobs \cup Relays

Rows == Jobs \X (1..Steps)

VARIABLES
    status,     \* the transitions each job has made
    writer,     \* the number of the event that the open transaction of a job has appended
    log,        \* event_log
    created,    \* outbox_events, in the order of created_at
    published,  \* the rows with a published_at
    made,       \* the rows whose job was enqueued
    seqLock,    \* the advisory lock under which numbers are given out
    relay,      \* the transaction of each relay
    tail        \* the stream of the watched job

vars == <<status, writer, log, created, published, made, seqLock, relay, tail>>

NoRow == <<Nobody, 0>>
NoBatch == [step |-> "idle", todo |-> {}, row |-> NoRow, held |-> {}, wrote |-> {}, made |-> {},
            marked |-> {}]
NewTail == [step |-> "reads", cursor |-> 0, terminal |-> FALSE, found |-> {}, seen |-> {}]

Init ==
    /\ status = [j \in Jobs |-> 0] /\ writer = [j \in Jobs |-> 0]
    /\ log = {} /\ created = <<>> /\ published = {} /\ made = {}
    /\ seqLock = Nobody
    /\ relay = [r \in Relays |-> NoBatch]
    /\ tail = NewTail

-----------------------------------------------------------------------------
(* Numbers *)

\* The event of the transition that a job is in, and what is not committed yet.
JobEntry(j) == [no |-> writer[j], kind |-> "job", row |-> <<j, status[j] + 1>>]

InJobs == {JobEntry(j) : j \in {k \in Jobs : writer[k] # 0}}
InRelays == UNION {relay[r].wrote : r \in Relays}
Appended == log \cup InJobs \cup InRelays

\* Mutant: numbers come from a sequence, and nobody waits for the lock.
AnyoneNumbers(p) == TRUE
\* lock_event_log_sequence
MayNumber(p) == seqLock \in {Nobody, p}

\* next_event_sequence.  Under the lock nothing else is in flight.
NextNo == 1 + Max({0} \cup {e.no : e \in Appended})

-----------------------------------------------------------------------------
(* A transition of a job: complete, fail, cancel, reclaim. *)

\* append_event_and_outbox
AppendTransition(j) ==
    /\ writer[j] = 0 /\ status[j] < Steps /\ MayNumber(j)
    /\ seqLock' = j
    /\ writer' = [writer EXCEPT ![j] = NextNo]
    /\ created' = Append(created, <<j, status[j] + 1>>)
    /\ UNCHANGED <<status, log, published, made, relay, tail>>

Release(p) == seqLock' = IF seqLock = p THEN Nobody ELSE seqLock

CommitTransition(j) ==
    /\ writer[j] # 0
    /\ status' = [status EXCEPT ![j] = @ + 1] /\ log' = log \cup {JobEntry(j)}
    /\ writer' = [writer EXCEPT ![j] = 0] /\ Release(j)
    /\ UNCHANGED <<created, published, made, relay, tail>>

RollBackTransition(j) ==
    /\ writer[j] # 0
    /\ created' = Remove(created, JobEntry(j).row)
    /\ writer' = [writer EXCEPT ![j] = 0] /\ Release(j)
    /\ UNCHANGED <<status, log, published, made, relay, tail>>

-----------------------------------------------------------------------------
(* The relay *)

Committed(row) == row[2] <= status[row[1]]
Locked == UNION {relay[r].held : r \in Relays}
Free == {row \in Rows : Committed(row)} \ (published \cup Locked)

\* ORDER BY created_at
Older(a, b) == \E i, k \in DOMAIN created : i < k /\ created[i] = a /\ created[k] = b
OldestFree == {row \in Free : Cardinality({a \in Free : Older(a, row)}) < Limit}

\* claim_unpublished_outbox: the oldest rows, those another relay holds skipped.
Claim(r) ==
    /\ relay[r].step = "idle" /\ Free # {}
    /\ relay' = [relay EXCEPT ![r] =
                   [NoBatch EXCEPT !.step = "takes", !.todo = OldestFree, !.held = OldestFree]]
    /\ UNCHANGED <<status, writer, log, created, published, made, seqLock, tail>>

\* The sink enqueues the job that the row asks for, once (its idempotency key).
Enqueue(r, row) ==
    /\ relay[r].step = "takes" /\ \A a \in relay[r].todo : ~Older(a, row)
    /\ relay' = [relay EXCEPT ![r].step = "appends", ![r].row = row, ![r].made = @ \cup {row}]
    /\ UNCHANGED <<status, writer, log, created, published, made, seqLock, tail>>

PublishedEntry(row) == {e \in log : e.kind = "published" /\ e.row = row}

\* append_outbox_published, which finds what was logged before.
AppendPublished(r) ==
    /\ relay[r].step = "appends"
    /\ IF PublishedEntry(relay[r].row) # {}
         THEN relay' = [relay EXCEPT ![r].step = "marks"] /\ UNCHANGED seqLock
         ELSE /\ MayNumber(r) /\ seqLock' = r
              /\ relay' = [relay EXCEPT ![r].step = "marks",
                    ![r].wrote = @ \cup {[no |-> NextNo, kind |-> "published", row |-> relay[r].row]}]
    /\ UNCHANGED <<status, writer, log, created, published, made, tail>>

\* mark_outbox_published, and the savepoint is released.
Mark(r) ==
    /\ relay[r].step = "marks"
    /\ relay' = [relay EXCEPT ![r].step = "takes", ![r].todo = @ \ {relay[r].row},
                              ![r].marked = @ \cup {relay[r].row}]
    /\ UNCHANGED <<status, writer, log, created, published, made, seqLock, tail>>

\* Mutant: an error is logged, and its savepoint kept.
KeepsEffects(r) == relay[r]
\* ROLLBACK TO SAVEPOINT
Undone(r) ==
    [relay[r] EXCEPT !.made = @ \ {relay[r].row}, !.wrote = {e \in @ : e.row # relay[r].row}]

\* A row that cannot be published stays for a later pass.
Skip(r) ==
    /\ relay[r].step \in {"appends", "marks"}
    /\ relay' = [relay EXCEPT ![r] = [Undone(r) EXCEPT !.step = "takes", !.todo = @ \ {relay[r].row}]]
    \* The lock goes with the savepoint it was taken in.
    /\ IF Undone(r).wrote = {} THEN Release(r) ELSE UNCHANGED seqLock
    /\ UNCHANGED <<status, writer, log, created, published, made, tail>>

CommitBatch(r) ==
    /\ relay[r].step = "takes" /\ relay[r].todo = {}
    /\ log' = log \cup relay[r].wrote /\ made' = made \cup relay[r].made
    /\ published' = published \cup relay[r].marked
    /\ relay' = [relay EXCEPT ![r] = NoBatch] /\ Release(r)
    /\ UNCHANGED <<status, writer, created, tail>>

CrashRelay(r) ==
    /\ relay[r].step # "idle"
    /\ relay' = [relay EXCEPT ![r] = NoBatch] /\ Release(r)
    /\ UNCHANGED <<status, writer, log, created, published, made, tail>>

-----------------------------------------------------------------------------
(* The stream of a job's events *)

\* authorize_and_pull_one_job_event: the state of the job, and then its next event.
ReadStatus ==
    /\ tail.step = "reads"
    /\ tail' = [tail EXCEPT !.step = "lists", !.terminal = status[Watched] = Steps]
    /\ UNCHANGED <<status, writer, log, created, published, made, seqLock, relay>>

\* list_events_after
Following(cursor) ==
    LET later == {e \in log : e.row[1] = Watched /\ e.no > cursor}
    IN  {e \in later : \A f \in later : e.no <= f.no}

List ==
    /\ tail.step = "lists"
    /\ tail' = [tail EXCEPT !.step = "acts", !.found = Following(tail.cursor)]
    /\ UNCHANGED <<status, writer, log, created, published, made, seqLock, relay>>

\* What the pull returned.
Terminal == tail.terminal

Deliver(e) ==
    /\ tail.step = "acts"
    /\ tail' = [tail EXCEPT !.step = "reads", !.cursor = e.no, !.found = {}, !.seen = @ \cup {e}]
    /\ UNCHANGED <<status, writer, log, created, published, made, seqLock, relay>>

\* "snapshot_complete", or another poll.
NothingNew ==
    /\ tail.step = "acts" /\ tail.found = {}
    /\ tail' = [tail EXCEPT !.step = IF Terminal THEN "complete" ELSE "reads"]
    /\ UNCHANGED <<status, writer, log, created, published, made, seqLock, relay>>

\* A time-out, an error, a client that went away: it comes back with its Last-Event-ID.
Reconnect ==
    /\ tail.step \in {"lists", "acts", "complete"}
    /\ tail' = [tail EXCEPT !.step = "reads", !.terminal = FALSE, !.found = {}]
    /\ UNCHANGED <<status, writer, log, created, published, made, seqLock, relay>>

Next ==
    \/ \E j \in Jobs : AppendTransition(j) \/ CommitTransition(j) \/ RollBackTransition(j)
    \/ \E r \in Relays :
        \/ Claim(r) \/ (\E row \in relay[r].todo : Enqueue(r, row)) \/ AppendPublished(r) \/ Mark(r) \/ Skip(r)
        \/ CommitBatch(r) \/ CrashRelay(r)
    \/ ReadStatus \/ List \/ (\E e \in tail.found : Deliver(e)) \/ NothingNew \/ Reconnect

Spec == Init /\ [][Next]_vars

-----------------------------------------------------------------------------
(* Properties *)

\* A cursor passes over no event: whatever commits later has a larger number, though
\* relays and jobs append side by side and roll back (lock_event_log_sequence,
\* resolve_last_event_id).
NoEventSkipped ==
    \A e \in log : e.row[1] = Watched /\ e.no <= tail.cursor => e \in tail.seen

\* A stream that says snapshot_complete has shown every event of the job's own, the
\* terminal one included, though the job ended while it was read (job_events).
CompleteIsComplete ==
    tail.step = "complete" =>
        \A k \in 1..Steps : \E e \in tail.seen : e.kind = "job" /\ e.row = <<Watched, k>>

\* What a client of the stream is shown: both of the above, for every cursor (job_events).
TailsMissNothing == NoEventSkipped /\ CompleteIsComplete

\* A row is published with its effects and never twice, whatever rows fail beside it in
\* the batch and whoever relays at the same time (relay_outbox_with_sink).
PublishedOnce ==
    \A row \in Rows :
        /\ row \in published <=> row \in made
        /\ Cardinality(PublishedEntry(row)) = IF row \in published THEN 1 ELSE 0

=============================================================================

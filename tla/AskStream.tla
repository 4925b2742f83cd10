------------------------------ MODULE AskStream ------------------------------
(***************************************************************************)
(* One durable answer stream: the session row and its numbered events, the  *)
(* producer that asks the provider and appends, the tails that deliver to   *)
(* one client over SSE and let it resume, the recovery and purge sweeps,    *)
(* and the backup lock that the writers have to respect.                    *)
(*                                                                          *)
(* An append reads the session under the advisory locks of the session and  *)
(* of the refresh family and writes later in the same transaction: these    *)
(* are two steps here, because the sweeps take neither lock.                *)
(***************************************************************************)
EXTENDS Naturals, Sequences, FiniteSets

CONSTANTS MaxEvents,      \* max_events of the session
          MaxBytes,       \* max_bytes, in units of the smallest payload
          Disturbances    \* bound: revocations, expiries, resumptions, backups and
                          \* crashes, for each way of answering that is explored

Modes == DOMAIN Disturbances

ASSUME BoundsAssumption ==
    /\ MaxEvents \in Nat /\ MaxEvents > 1
    /\ MaxBytes \in Nat /\ MaxBytes > 0
    /\ Modes \subseteq {"stream", "buffered", "assistant", "extractive"}
    /\ \A m \in Modes : Disturbances[m] \in Nat

VARIABLES row,        \* ask_stream_sessions: status, reason, bytes, expired, lease
          events,     \* ask_stream_events, in the order of sequence_no
          txn,        \* the append transaction in progress
          prod,       \* the producer task
          ledger,     \* the reservation of tokens in the quota ledger
          cancelled,  \* the StreamCancel the producer shares with the first tail
          tail,       \* the delivery tasks: 1 of the POST, 2 of a resumption
          chan,       \* the channel of each tail, and what waits to be sent
          client,     \* what the client has received
          auth,       \* claims of the POST, refresh family, cited documents
          backup,     \* the exclusive backup lock, the fence, the shared guards
          budget      \* disturbances left

vars == <<row, events, txn, prod, ledger, cancelled, tail, chan, client, auth, backup, budget>>

Disturb == budget > 0 /\ budget' = budget - 1
Tails == {1, 2}
NoTxn == [by |-> "nobody", kind |-> "", size |-> 0, seq |-> 0, why |-> ""]
TailNames == <<"tail1", "tail2">>
Content == {"started", "token", "epilogue"}
High == Len(events)

Init ==
    /\ row = [status |-> "none", reason |-> "", bytes |-> 0, expired |-> FALSE, lease |-> "none"]
    /\ events = <<>>
    /\ txn = NoTxn
    /\ \E m \in Modes :
          /\ prod = [at |-> "idle", mode |-> m, why |-> "", attempt |-> 0, usage |-> FALSE, fallback |-> FALSE]
          /\ budget = Disturbances[m]
    /\ ledger = "none"
    /\ cancelled = FALSE
    /\ tail = [t \in Tails |-> [at |-> "off", after |-> 0, why |-> ""]]
    /\ chan = [t \in Tails |-> <<>>]
    /\ client = [on |-> 0, cursor |-> 0, got |-> {}]
    /\ auth = [claims |-> TRUE, family |-> TRUE, cited |-> TRUE]
    /\ backup = [locked |-> FALSE, fence |-> FALSE, guards |-> {}]

-----------------------------------------------------------------------------
(* The write gate.  A guard is the shared side of the backup lock.          *)

GateOpen == ~backup.locked /\ ~backup.fence
Unguarded(g) == backup
Guarded(g) == [backup EXCEPT !.guards = @ \cup {g}]
Released(g) == [backup EXCEPT !.guards = @ \ {g}]

-----------------------------------------------------------------------------
(* The append transaction.                                                  *)

LocksFree == txn.by = "nobody"

FamilyAlone == IF auth.family THEN "ok" ELSE "session_revoked"

FenceRefusal ==
    CASE ~auth.family -> "session_revoked"
      [] ~auth.cited -> "citation_revoked"
      [] OTHER -> "ok"

AnySize(kind, size) == High + (IF kind = "closed" THEN 0 ELSE 1) < MaxEvents

HasRoom(kind, size) ==
    /\ High + (IF kind = "closed" THEN 0 ELSE 1) < MaxEvents
    /\ row.bytes + size <= MaxBytes

RowRefusal(kind, size) ==
    CASE row.status # "open" -> "stream_error"
      [] row.expired -> "session_expired"
      [] ~HasRoom(kind, size) -> "stream_error"
      [] OTHER -> "ok"

FirstRefusal(a, b) == IF a # "ok" THEN a ELSE b

(* The unique key on the sequence number and the foreign key on the session *)
(* decide whether the row that was read may still be extended.              *)
WhileKept == row.status # "purged"
StillFits == row.status # "purged" /\ txn.seq = High + 1

Appended == Append(events, txn.kind)

RowAfterAppend ==
    IF txn.kind # "closed" THEN [row EXCEPT !.bytes = @ + txn.size, !.lease = "live"]
    ELSE [row EXCEPT !.bytes = @ + txn.size, !.lease = "none", !.reason = txn.why,
                     !.status = IF txn.why = "completed" THEN "closed" ELSE "error"]

BeginTxn(by, kind, size, why) ==
    txn' = [by |-> by, kind |-> kind, size |-> size, seq |-> High + 1, why |-> why]

-----------------------------------------------------------------------------
(* start_ask_stream: reserve tokens, create the session, start the tasks.   *)

Ended(p, at) == [p EXCEPT !.at = at, !.mode = "", !.why = "", !.attempt = 0, !.usage = FALSE, !.fallback = FALSE]

Calls(m) == m # "extractive"

ReserveTokens ==
    /\ prod.at = "idle" /\ GateOpen
    /\ \/ Calls(prod.mode) /\ ledger' = "reserved" /\ prod' = [prod EXCEPT !.at = "prepared"]
       \/ Calls(prod.mode) /\ UNCHANGED ledger /\ prod' = Ended(prod, "done")
       \/ ~Calls(prod.mode) /\ UNCHANGED ledger /\ prod' = [prod EXCEPT !.at = "prepared"]
    /\ backup' = IF prod'.at = "prepared" THEN Guarded("request") ELSE backup
    /\ UNCHANGED <<row, events, txn, cancelled, tail, chan, client, auth, budget>>

(* The audit record is written after the producer was spawned: when that    *)
(* fails the client gets an error and no stream, and the producer works on. *)
CreateSession ==
    /\ prod.at = "prepared"
    /\ row' = [row EXCEPT !.status = "open", !.lease = "live"]
    /\ prod' = [prod EXCEPT !.at = "start"]
    /\ \E audited \in BOOLEAN :
          /\ tail' = [tail EXCEPT ![1].at = IF audited THEN "loop" ELSE "done"]
          /\ client' = [client EXCEPT !.on = IF audited THEN 1 ELSE 0]
    /\ backup' = Released("request")
    /\ UNCHANGED <<events, txn, ledger, cancelled, chan, auth, budget>>

CreateSessionFails ==
    /\ prod.at = "prepared"
    /\ prod' = Ended(prod, "done")
    /\ ledger' = IF ledger = "reserved" THEN "refunded" ELSE ledger
    /\ backup' = Released("request")
    /\ UNCHANGED <<row, events, txn, cancelled, tail, chan, client, auth, budget>>

-----------------------------------------------------------------------------
(* run_producer.                                                            *)

Emits == [start |-> "started", token |-> "token", keepalive |-> "token", emitting |-> "token", finish |-> "epilogue"]

(* Where an append that failed sends the producer: whatever is left of the  *)
(* reservation is settled first, then the stream is closed with the reason. *)
AfterFailure(p, reason) ==
    IF p.at = "keepalive" THEN [p EXCEPT !.at = "provider"]
    ELSE [p EXCEPT !.at = IF p.at \in {"start", "token"} THEN "settle" ELSE "close", !.why = reason]

(* Losing a token cancels the first tail too; the other events do not.      *)
CancelsTail(p) == p.at \in {"token", "emitting"}

AppendBegin ==
    /\ prod.at \in DOMAIN Emits /\ LocksFree
    /\ auth.claims /\ GateOpen
    /\ \E size \in IF prod.at \in {"token", "emitting"} THEN {1, 2} ELSE {1} :
          /\ FirstRefusal(FenceRefusal, RowRefusal(Emits[prod.at], size)) = "ok"
          /\ BeginTxn("producer", Emits[prod.at], size, "")
    /\ backup' = Guarded("producer")
    /\ UNCHANGED <<row, events, prod, ledger, cancelled, tail, chan, client, auth, budget>>

AppendRefused ==
    /\ prod.at \in DOMAIN Emits /\ txn.by # "producer"
    /\ \E size \in IF prod.at \in {"token", "emitting"} THEN {1, 2} ELSE {1} :
          LET reason == CASE ~auth.claims -> "token_expired"
                          [] ~GateOpen -> "ops_fence_active"
                          [] OTHER -> FirstRefusal(FenceRefusal, RowRefusal(Emits[prod.at], size))
          IN /\ reason # "ok"
             /\ reason \notin {"token_expired", "ops_fence_active"} => LocksFree
             /\ prod' = AfterFailure(prod, reason)
             /\ cancelled' = (cancelled \/ CancelsTail(prod))
    /\ UNCHANGED <<row, events, txn, ledger, tail, chan, client, auth, backup, budget>>

(* Tokens, warnings and citations follow one another: how many there are is *)
(* data, what may come after which is not.                                  *)
NextAfterAppend(p) ==
    CASE p.at = "start" -> {IF Calls(p.mode) THEN "provider" ELSE "settle"}
      [] p.at \in {"token", "keepalive"} -> {"provider"}
      [] p.at = "emitting" -> {"emit", "finish"}
      [] p.at = "finish" -> {"finish", "close"}

AppendCommit ==
    /\ txn.by = "producer" /\ txn.kind # "closed" /\ StillFits
    /\ events' = Appended
    /\ row' = RowAfterAppend
    /\ \E next \in NextAfterAppend(prod) :
          prod' = [prod EXCEPT !.at = next, !.why = IF next = "close" THEN "completed" ELSE @]
    /\ txn' = NoTxn
    /\ backup' = Released("producer")
    /\ UNCHANGED <<ledger, cancelled, tail, chan, client, auth, budget>>

AppendAborts ==
    /\ txn.by = "producer" /\ txn.kind # "closed" /\ ~StillFits
    /\ prod' = AfterFailure(prod, "stream_error")
    /\ cancelled' = (cancelled \/ CancelsTail(prod))
    /\ txn' = NoTxn
    /\ backup' = Released("producer")
    /\ UNCHANGED <<row, events, ledger, tail, chan, client, auth, budget>>

(* The provider streams tokens; one that arrives after a cancellation ends   *)
(* the stream.                                                               *)
TokenUnbilled ==
    /\ prod.at = "provider" /\ prod.mode = "stream"
    /\ prod' = [prod EXCEPT !.at = IF cancelled THEN "settle" ELSE "token",
                            !.why = IF cancelled THEN "cancelled" ELSE @]
    /\ UNCHANGED <<row, events, txn, ledger, cancelled, tail, chan, client, auth, backup, budget>>

TokenArrives ==
    /\ prod.at = "provider" /\ prod.mode = "stream"
    /\ prod' = [prod EXCEPT !.usage = TRUE,
                            !.at = IF cancelled THEN "settle" ELSE "token",
                            !.why = IF cancelled THEN "cancelled" ELSE @]
    /\ UNCHANGED <<row, events, txn, ledger, cancelled, tail, chan, client, auth, backup, budget>>

StreamEnds ==
    /\ prod.at = "provider" /\ prod.mode = "stream"
    /\ \E broken \in BOOLEAN :
          prod' = [prod EXCEPT !.at = "settle", !.usage = TRUE, !.fallback = broken]
    /\ UNCHANGED <<row, events, txn, ledger, cancelled, tail, chan, client, auth, backup, budget>>

(* A call that fails: a timeout has reached the provider, another error may  *)
(* not have.  Only a buffered answer is asked for again, at most twice, and  *)
(* after a timeout only on the first attempt.                                *)
MaxRetries == 2
Retryable(timeout) ==
    /\ prod.mode = "buffered" /\ prod.attempt < MaxRetries /\ ~cancelled
    /\ ~timeout \/ prod.attempt = 0

CallFails ==
    /\ prod.at = "provider" /\ (prod.mode = "stream" => ~prod.usage)
    /\ \E timeout \in BOOLEAN :
          prod' = [prod EXCEPT !.usage = timeout /\ ~Retryable(timeout),
                               !.attempt = IF Retryable(timeout) THEN @ + 1 ELSE @,
                               !.at = IF Retryable(timeout) THEN "provider" ELSE "settle",
                               !.fallback = ~Retryable(timeout)]
    /\ UNCHANGED <<row, events, txn, ledger, cancelled, tail, chan, client, auth, backup, budget>>

CallReturns ==
    /\ prod.at = "provider" /\ prod.mode \in {"buffered", "assistant"}
    /\ prod' = [prod EXCEPT !.at = "settle", !.usage = TRUE]
    /\ UNCHANGED <<row, events, txn, ledger, cancelled, tail, chan, client, auth, backup, budget>>

(* Every twenty seconds of a buffered call an empty token is appended, and   *)
(* a failure of that append is ignored.                                      *)
KeepAlive ==
    /\ prod.at = "provider" /\ prod.mode = "buffered"
    /\ prod' = [prod EXCEPT !.at = "keepalive"]
    /\ UNCHANGED <<row, events, txn, ledger, cancelled, tail, chan, client, auth, backup, budget>>

(* settle_lease: usage is committed, a call that never left is refunded; a   *)
(* failure leaves the reservation to the sweeper.  No guard is taken.        *)
Streamed == \E i \in 1..High : events[i] = "token"
AfterSettle(p) ==
    IF p.why # "" THEN "close"
    ELSE IF p.mode = "stream" /\ Streamed /\ ~p.fallback THEN "finish" ELSE "emit"

Settle ==
    /\ prod.at = "settle"
    /\ prod' = [prod EXCEPT !.at = AfterSettle(prod)]
    /\ \/ ledger = "reserved" /\ ledger' = IF prod.usage THEN "finalized" ELSE "refunded"
       \/ UNCHANGED ledger
    /\ UNCHANGED <<row, events, txn, cancelled, tail, chan, client, auth, backup, budget>>

(* The loop over the tokens of a finished answer looks at the flag first.    *)
EmitNext ==
    /\ prod.at = "emit"
    /\ prod' = IF cancelled THEN [prod EXCEPT !.at = "close", !.why = "cancelled"]
               ELSE [prod EXCEPT !.at = "emitting"]
    /\ UNCHANGED <<row, events, txn, ledger, cancelled, tail, chan, client, auth, backup, budget>>

(* close: without the guard it gives up, and whoever comes next has to end   *)
(* the stream; a session that is closed already is left as it is.            *)
CanClose == row.status = "open" /\ ~row.expired /\ HasRoom("closed", 1)

CloseBegin ==
    /\ prod.at = "close" /\ LocksFree /\ GateOpen /\ CanClose
    /\ BeginTxn("producer", "closed", 1, prod.why)
    /\ backup' = Guarded("producer")
    /\ UNCHANGED <<row, events, prod, ledger, cancelled, tail, chan, client, auth, budget>>

CloseGivesUp ==
    /\ prod.at = "close" /\ txn.by # "producer"
    /\ ~GateOpen \/ (LocksFree /\ ~CanClose)
    /\ prod' = Ended(prod, "done")
    /\ UNCHANGED <<row, events, txn, ledger, cancelled, tail, chan, client, auth, backup, budget>>

CloseCommit ==
    /\ txn.by = "producer" /\ txn.kind = "closed"
    /\ IF StillFits THEN events' = Appended /\ row' = RowAfterAppend ELSE UNCHANGED <<events, row>>
    /\ prod' = Ended(prod, "done")
    /\ txn' = NoTxn
    /\ backup' = Released("producer")
    /\ UNCHANGED <<ledger, cancelled, tail, chan, client, auth, budget>>

-----------------------------------------------------------------------------
(* live_tail_ask_session.                                                    *)

Cancels(t) == cancelled' = (cancelled \/ t = 1)
Goes(t, at) == tail' = [tail EXCEPT ![t].at = at]
Closes(t, why) == tail' = [tail EXCEPT ![t].at = "closing", ![t].why = why]
TailEnds(t) == tail' = [tail EXCEPT ![t] = [at |-> "done", after |-> 0, why |-> ""]]

(* What a tail has put into its channel and the task waits to put there; a   *)
(* frame for a client that has left goes nowhere.                            *)
Sends(t, id, kind) ==
    chan' = IF client.on = t THEN [chan EXCEPT ![t] = Append(@, [id |-> id, kind |-> kind])] ELSE chan

(* The checks at the top of the loop: only the first tail has the flag, and  *)
(* claims that may run out.  The channel is reserved after the checks, which *)
(* may therefore be stale: TailReserves does not ask again.                  *)
TailStops(t) ==
    /\ tail[t].at = "loop" /\ t = 1
    /\ \/ cancelled /\ Closes(t, "cancelled")
       \/ ~cancelled /\ ~auth.claims /\ Closes(t, "token_expired")
    /\ UNCHANGED <<row, events, txn, prod, ledger, cancelled, chan, client, auth, backup, budget>>

TailReserves(t) ==
    /\ tail[t].at = "loop" /\ client.on = t /\ chan[t] = <<>>
    /\ Goes(t, "pulling")
    /\ UNCHANGED <<row, events, txn, prod, ledger, cancelled, chan, client, auth, backup, budget>>

(* The client has gone, or has not drained the channel for five seconds.     *)
TailLosesClient(t) ==
    /\ tail[t].at = "loop"
    /\ \/ /\ client.on = t /\ chan[t] = <<>>
          /\ client' = [client EXCEPT !.on = 0] /\ UNCHANGED chan
       \/ client.on # t /\ UNCHANGED <<client, chan>>
       \/ client.on = t /\ chan[t] # <<>> /\ Sends(t, 0, "closed") /\ UNCHANGED client
    /\ TailEnds(t) /\ Cancels(t)
    /\ UNCHANGED <<row, events, txn, prod, ledger, auth, backup, budget>>

(* One transaction: the fence, the session, the next event.                  *)
Readable == FenceRefusal = "ok" /\ row.status # "purged"

PullRefused(t) ==
    /\ tail[t].at = "pulling" /\ LocksFree /\ ~Readable
    /\ Closes(t, FirstRefusal(FenceRefusal, "stream_error"))
    /\ Cancels(t)
    /\ UNCHANGED <<row, events, txn, prod, ledger, chan, client, auth, backup, budget>>

PullEvent(t) ==
    /\ tail[t].at = "pulling" /\ LocksFree /\ Readable
    /\ LET next == tail[t].after + 1
       IN \/ row.expired /\ Closes(t, "session_expired") /\ UNCHANGED chan
          \/ /\ ~row.expired /\ next > High
             /\ IF row.status = "open" THEN Goes(t, "loop") ELSE TailEnds(t)
             /\ UNCHANGED chan
          \/ /\ ~row.expired /\ next <= High
             /\ Sends(t, next, events[next])
             /\ IF events[next] = "closed" THEN TailEnds(t)
                ELSE tail' = [tail EXCEPT ![t].after = next, ![t].at = "loop"]
    /\ UNCHANGED <<row, events, txn, prod, ledger, cancelled, client, auth, backup, budget>>

(* Two seconds without the locks, or sixty without news: a control frame.    *)
TailTimesOut(t) ==
    /\ tail[t].at = "pulling"
    /\ ~LocksFree \/ (Readable /\ tail[t].after = High /\ row.status = "open")
    /\ TailEnds(t) /\ Sends(t, 0, "closed")
    /\ UNCHANGED <<row, events, txn, prod, ledger, cancelled, client, auth, backup, budget>>

(* durable_or_control_close.  The terminal event is written without a guard. *)
Revalidates(t) == auth.family /\ (t = 1 => auth.claims)

TailCloseBegin(t) ==
    /\ tail[t].at = "closing" /\ LocksFree /\ Revalidates(t) /\ CanClose
    /\ BeginTxn(TailNames[t], "closed", 1, tail[t].why)
    /\ Goes(t, "committing")
    /\ UNCHANGED <<row, events, prod, ledger, cancelled, chan, client, auth, backup, budget>>

(* A durable end carries its number, a control frame none.                   *)
TailCloseCommit(t) ==
    /\ tail[t].at = "committing"
    /\ IF StillFits THEN events' = Appended /\ row' = RowAfterAppend /\ Sends(t, txn.seq, "closed")
       ELSE UNCHANGED <<events, row>> /\ Sends(t, 0, "closed")
    /\ TailEnds(t)
    /\ txn' = NoTxn
    /\ UNCHANGED <<prod, ledger, cancelled, client, auth, backup, budget>>

(* An existing terminal is sent when it gives the same reason.               *)
SameReason(t) == row.status \in {"closed", "error"} /\ row.reason = tail[t].why

TailCloseFallback(t) ==
    /\ tail[t].at = "closing"
    /\ ~Revalidates(t) \/ (LocksFree /\ ~CanClose)
    /\ Sends(t, IF Revalidates(t) /\ SameReason(t) THEN High ELSE 0, "closed")
    /\ TailEnds(t)
    /\ UNCHANGED <<row, events, txn, prod, ledger, cancelled, client, auth, backup, budget>>

-----------------------------------------------------------------------------
(* The client: it keeps the id of the last frame, and comes back with it.    *)

Receive ==
    /\ client.on # 0 /\ chan[client.on] # <<>>
    /\ LET frame == Head(chan[client.on])
       IN client' = [client EXCEPT !.cursor = IF frame.id > 0 THEN frame.id ELSE @,
                                   !.got = IF frame.kind \in Content THEN @ \cup {frame.id} ELSE @]
    /\ chan' = [chan EXCEPT ![client.on] = Tail(@)]
    /\ UNCHANGED <<row, events, txn, prod, ledger, cancelled, tail, auth, backup, budget>>

(* resolve_last_event_id: the cursor of the client, within the stream.       *)
FromTheStart == 0
ResumesAfter == client.cursor

(* ask_stream_route with a session id: a cursor beyond the stream, a session *)
(* that is gone and a principal who lost access are refused.  What was under *)
(* way on the connection it had is lost.                                     *)
Resume ==
    /\ Disturb /\ tail[2].at \in {"off", "done"} /\ tail[1].at # "off"
    /\ row.status \in {"open", "closed", "error"} /\ client.cursor <= High
    /\ auth.family /\ auth.cited /\ GateOpen
    /\ tail' = [tail EXCEPT ![2] = [at |-> "loop", after |-> ResumesAfter, why |-> ""]]
    /\ client' = [client EXCEPT !.on = 2]
    /\ chan' = [t \in Tails |-> <<>>]
    /\ UNCHANGED <<row, events, txn, prod, ledger, cancelled, auth, backup>>

-----------------------------------------------------------------------------
(* Time, other users, the sweeps, the backup, and the death of the process.  *)

ClaimsExpire ==
    /\ Disturb /\ auth.claims /\ prod.at # "idle"
    /\ auth' = [auth EXCEPT !.claims = FALSE]
    /\ UNCHANGED <<row, events, txn, prod, ledger, cancelled, tail, chan, client, backup>>

(* Logout and deletion wait for the locks of an append in progress.          *)
Revoke ==
    /\ Disturb /\ LocksFree /\ prod.at # "idle"
    /\ \/ auth.family /\ auth' = [auth EXCEPT !.family = FALSE]
       \/ auth.cited /\ auth' = [auth EXCEPT !.cited = FALSE]
    /\ UNCHANGED <<row, events, txn, prod, ledger, cancelled, tail, chan, client, backup>>

SessionExpires ==
    /\ Disturb /\ row.status \notin {"none", "purged"} /\ ~row.expired
    /\ row' = [row EXCEPT !.expired = TRUE]
    /\ UNCHANGED <<events, txn, prod, ledger, cancelled, tail, chan, client, auth, backup>>

LeaseLapses ==
    /\ row.status = "open" /\ row.lease = "live"
    /\ row' = [row EXCEPT !.lease = "lapsed"]
    /\ UNCHANGED <<events, txn, prod, ledger, cancelled, tail, chan, client, auth, backup, budget>>

HasTerminal == \E i \in 1..High : events[i] = "closed"

(* markhand_recover_stale_ask_stream_producers: no advisory lock, no limit   *)
(* on events or bytes.                                                       *)
AbandonedWithRoom == row.status = "open" /\ row.lease = "lapsed" /\ HasRoom("closed", 1)
Abandoned == row.status = "open" /\ row.lease = "lapsed"

Recover ==
    /\ Abandoned /\ GateOpen
    /\ events' = IF HasTerminal THEN events ELSE Append(events, "closed")
    /\ row' = [row EXCEPT !.status = "error", !.reason = "producer_lost", !.lease = "none"]
    /\ UNCHANGED <<txn, prod, ledger, cancelled, tail, chan, client, auth, backup, budget>>

Purge ==
    /\ row.status \in {"open", "closed", "error"} /\ row.expired /\ GateOpen
    /\ row' = [row EXCEPT !.status = "purged", !.lease = "none"]
    /\ events' = <<>>
    /\ UNCHANGED <<txn, prod, ledger, cancelled, tail, chan, client, auth, backup, budget>>

ReservationExpires ==
    /\ Disturb /\ ledger = "reserved" /\ GateOpen
    /\ ledger' = "expired"
    /\ UNCHANGED <<row, events, txn, prod, cancelled, tail, chan, client, auth, backup>>

(* The backup takes the exclusive lock, sets the fence, captures and lets go *)
(* of the lock; an operator clears the fence.                                *)
BackupStarts ==
    /\ Disturb /\ ~backup.locked /\ backup.guards = {}
    /\ backup' = [backup EXCEPT !.locked = TRUE, !.fence = TRUE]
    /\ UNCHANGED <<row, events, txn, prod, ledger, cancelled, tail, chan, client, auth>>

BackupEnds ==
    /\ backup.locked
    /\ backup' = [backup EXCEPT !.locked = FALSE]
    /\ UNCHANGED <<row, events, txn, prod, ledger, cancelled, tail, chan, client, auth, budget>>

ClearFence ==
    /\ backup.fence /\ ~backup.locked
    /\ backup' = [backup EXCEPT !.fence = FALSE]
    /\ UNCHANGED <<row, events, txn, prod, ledger, cancelled, tail, chan, client, auth, budget>>

Crash ==
    /\ Disturb /\ prod.at # "idle"
    /\ prod' = Ended(prod, "dead")
    /\ tail' = [t \in Tails |-> [tail[t] EXCEPT !.at = IF @ = "off" THEN "off" ELSE "done"]]
    /\ chan' = [t \in Tails |-> <<>>]
    /\ client' = [client EXCEPT !.on = 0]
    /\ txn' = NoTxn
    /\ backup' = [backup EXCEPT !.guards = {}]
    /\ UNCHANGED <<row, events, ledger, cancelled, auth>>

-----------------------------------------------------------------------------
Producer == ReserveTokens \/ CreateSession \/ CreateSessionFails
            \/ AppendBegin \/ AppendRefused \/ AppendCommit \/ AppendAborts
            \/ TokenArrives \/ StreamEnds \/ CallFails \/ CallReturns \/ KeepAlive
            \/ Settle \/ EmitNext \/ CloseBegin \/ CloseGivesUp \/ CloseCommit

Delivery(t) == TailStops(t) \/ TailReserves(t) \/ TailLosesClient(t) \/ PullRefused(t) \/ PullEvent(t)
               \/ TailTimesOut(t) \/ TailCloseBegin(t) \/ TailCloseCommit(t) \/ TailCloseFallback(t)

Client == Receive \/ Resume

Others == ClaimsExpire \/ Revoke \/ SessionExpires \/ LeaseLapses \/ Recover \/ Purge \/ ReservationExpires
          \/ BackupStarts \/ BackupEnds \/ ClearFence \/ Crash

Next == Producer \/ (\E t \in Tails : Delivery(t)) \/ Client \/ Others

(* Time passes, the sweep comes round every thirty seconds, a transaction    *)
(* that holds the locks ends.  Nothing is assumed of clients or operators.   *)
Fairness == /\ WF_vars(LeaseLapses) /\ WF_vars(Recover)
            /\ WF_vars(AppendCommit) /\ WF_vars(AppendAborts) /\ WF_vars(CloseCommit)
            /\ \A t \in Tails : WF_vars(TailCloseCommit(t))

Spec == Init /\ [][Next]_vars
FairSpec == Spec /\ Fairness

-----------------------------------------------------------------------------
TypeOK ==
    /\ row.status \in {"none", "open", "closed", "error", "purged"}
    /\ row.bytes \in 0..MaxBytes /\ row.expired \in BOOLEAN /\ row.lease \in {"none", "live", "lapsed"}
    /\ events \in Seq(Content \cup {"closed"})
    /\ ledger \in {"none", "reserved", "finalized", "refunded", "expired"}
    /\ \A t \in Tails : Len(chan[t]) <= 2
    /\ backup.guards \subseteq {"request", "producer"}

(* One end: a stream has at most one stream.closed, nothing follows it, and  *)
(* the session is open exactly as long as it is missing, whichever of the    *)
(* producer, a tail and the recovery sweep writes it; an open stream has an  *)
(* event left for it.                                                        *)
OneTerminal ==
    /\ \A i \in 1..High : events[i] = "closed" => i = High
    /\ row.status = "open" => ~HasTerminal
    /\ row.status \in {"closed", "error"} => HasTerminal
    /\ row.status = "open" => High < MaxEvents

(* The client gets the content in order, once and without a gap, across lost *)
(* connections and resumptions (live_tail_ask_session reads one event per    *)
(* transaction; the cursor of a resumption is the id of the last frame).     *)
ContentInOrder ==
    /\ client.got = 1..Cardinality(client.got)
    /\ client.on # 0 => \A i \in 1..Len(chan[client.on]) :
                           chan[client.on][i].kind \in Content => chan[client.on][i].id \notin client.got

(* Content is stored only while the session family is live and the cited     *)
(* documents are visible (append_event_authorized fences both), and what is  *)
(* stored is never changed.                                                  *)
NoContentAfterRevoke ==
    [][(~auth.family \/ ~auth.cited) /\ events' # <<>>
         => /\ High <= Len(events')
            /\ \A i \in 1..Len(events') : IF i <= High THEN events'[i] = events[i] ELSE events'[i] \notin Content]_vars

(* An answer of which a token was streamed is not given back: the producer   *)
(* notes the usage before it appends what arrived.                           *)
StreamedIsBilled ==
    [][prod.mode = "stream" /\ Streamed /\ prod.at = "settle" => (ledger' = "refunded" => ledger = "refunded")]_vars

(* While a backup captures, the stored streams stay as they are, but for the *)
(* closing transaction of a tail, which takes no guard.                      *)
StreamsPauseForBackup ==
    [][backup.locked => events' = events \/ \E t \in Tails : tail[t].at = "committing"]_vars

(* Every stream ends, be it that its producer died or that it is full: then  *)
(* the recovery sweep ends it, unless a fence stops the sweep.               *)
EveryStreamEnds == row.status = "open" ~> (row.status # "open" \/ backup.fence)
=============================================================================

---------------------------- MODULE AskStreamProofs ----------------------------
(***************************************************************************)
(* Proofs about AskStream for every limit on events and bytes and any       *)
(* number of disturbances.  What a step does to the stored stream           *)
(* (StreamMove) carries most of the argument; the rest says what is on the  *)
(* way to the client and who may write.                                     *)
(***************************************************************************)
EXTENDS AskStream, FiniteSetTheorems, SequenceTheorems, TLAPS

-----------------------------------------------------------------------------
(* Types.                                                                  *)

Reasons == {"", "ok", "completed", "cancelled", "stream_error", "session_expired", "session_revoked",
            "citation_revoked", "token_expired", "ops_fence_active", "producer_lost"}
Kinds == Content \cup {"closed"}
Fresh == {"idle", "prepared"}
Emitting == {"start", "token", "keepalive", "emitting", "finish"}

ProdRecs == [at : Fresh \cup Emitting \cup {"provider", "settle", "emit", "close", "done", "dead"},
             mode : {"", "stream", "buffered", "assistant", "extractive"}, why : Reasons,
             attempt : Nat, usage : BOOLEAN, fallback : BOOLEAN]
RowRecs  == [status : {"none", "open", "closed", "error", "purged"}, reason : Reasons,
             bytes : Nat, expired : BOOLEAN, lease : {"none", "live", "lapsed"}]
TxnRecs  == [by : {"producer", "tail1", "tail2"}, kind : Kinds, size : {1, 2}, seq : Nat, why : Reasons]
Running  == {"loop", "pulling", "closing", "committing"}
TailRecs == [at : Running \cup {"off", "done"}, after : Nat, why : Reasons]
Frames   == [id : Nat, kind : Kinds]

Types ==
    /\ row \in RowRecs
    /\ events \in Seq(Kinds)
    /\ txn \in TxnRecs \cup {NoTxn}
    /\ prod \in ProdRecs
    /\ tail \in [Tails -> TailRecs]
    /\ chan \in [Tails -> Seq(Frames)]
    /\ client \in [on : Tails \cup {0}, cursor : Nat, got : SUBSET Nat]
    /\ auth \in [claims : BOOLEAN, family : BOOLEAN, cited : BOOLEAN]
    /\ backup \in [locked : BOOLEAN, fence : BOOLEAN, guards : SUBSET {"request", "producer"}]

-----------------------------------------------------------------------------
(* The inductive invariant.                                                *)

\* Before the session is created there is nothing.
FreshInv ==
    /\ row.status = "none" => events = <<>>
    /\ prod.at \in Fresh =>
         /\ row.status = "none"
         /\ \A t \in Tails : tail[t].at = "off" /\ tail[t].after = 0 /\ chan[t] = <<>>
         /\ client = [on |-> 0, cursor |-> 0, got |-> {}]

\* Who has the locks: a producer at the step the event is of, or a tail that
\* is committing its end.
TxnOwner ==
    /\ txn.by = "producer" => \/ txn.kind = "closed" /\ prod.at = "close"
                              \/ prod.at \in Emitting /\ txn.kind = Emits[prod.at]
    /\ \A t \in Tails : (tail[t].at = "committing") <=> (txn.by = TailNames[t])
    /\ \A t \in Tails : txn.by = TailNames[t] => txn.kind = "closed"

\* What the transaction read still holds, or the commit will find out.
TxnInv ==
    txn.by # "nobody" =>
        \/ row.status = "purged"
        \/ row.status \in {"closed", "error"} /\ txn.seq <= High
        \/ /\ row.status = "open" /\ txn.seq = High + 1
           /\ txn.kind # "closed" => High + 1 < MaxEvents

\* The id of the last event of a stream that has ended.
AtEnd(i) == \/ row.status = "purged"
            \/ row.status \in {"closed", "error"} /\ i = High

\* A frame that ends the delivery.
Final(frame) == frame.kind = "closed" /\ (frame.id = 0 \/ AtEnd(frame.id))
\* The frame of the content after the first n.
Follows(frame, n) == frame.kind \in Content /\ frame.id = n + 1

\* The tail the client listens to, when the client has the first n events:
\* what is on the way, and where the tail goes on.
Delivering(t, n) ==
    \/ /\ chan[t] = <<>>
       /\ tail[t].at \in Running => tail[t].after = n \/ AtEnd(tail[t].after)
    \/ /\ Len(chan[t]) = 1 /\ Follows(chan[t][1], n)
       /\ tail[t].at \in Running => tail[t].after = n + 1 /\ tail[t].at # "pulling"
    \/ /\ Len(chan[t]) = 1 /\ Final(chan[t][1])
       /\ tail[t].at \notin Running
    \/ /\ Len(chan[t]) = 2 /\ Follows(chan[t][1], n) /\ Final(chan[t][2])
       /\ tail[t].at \notin Running

ClientInv ==
    \E n \in Nat :
        /\ client.got = 1..n
        /\ client.cursor = n \/ AtEnd(client.cursor)
        /\ client.on # 0 => Delivering(client.on, n)

\* Whoever writes holds the shared side of the backup lock, but for a tail.
GuardInv ==
    /\ backup.guards # {} => ~backup.locked
    /\ txn.by = "producer" => "producer" \in backup.guards

\* Content in the making was authorized, and nobody was revoked since.
FenceInv ==
    txn.by = "producer" /\ txn.kind # "closed" => auth.family /\ auth.cited

\* The producer of a streamed answer notes the usage before the first token.
UsageInv ==
    /\ prod.mode = "stream" /\ prod.at \in {"start", "provider", "token", "settle"}
         => (Streamed \/ prod.at = "token" => prod.usage)
    /\ prod.at = "keepalive" => prod.mode = "buffered"

IInv == Types /\ FreshInv /\ TxnOwner /\ TxnInv /\ OneTerminal /\ ClientInv /\ GuardInv /\ FenceInv /\ UsageInv

-----------------------------------------------------------------------------
(* The producer's record.                                                  *)

ProdSteps == Fresh \cup Emitting \cup {"provider", "settle", "emit", "close", "done", "dead"}

\* Ended, wherever it was.
LEMMA EndedType ==
  ASSUME NEW r \in ProdRecs, NEW a \in ProdSteps
  PROVE  Ended(r, a) \in ProdRecs /\ Ended(r, a).at = a /\ Ended(r, a).mode = ""
<1>1. ASSUME NEW m \in {""}, NEW w \in Reasons, NEW n \in Nat, NEW u \in BOOLEAN, NEW f \in BOOLEAN
      PROVE  /\ [r EXCEPT !.at = a, !.mode = m, !.why = w, !.attempt = n, !.usage = u, !.fallback = f]
                  \in ProdRecs
             /\ [r EXCEPT !.at = a, !.mode = m, !.why = w, !.attempt = n, !.usage = u, !.fallback = f].at = a
             /\ [r EXCEPT !.at = a, !.mode = m, !.why = w, !.attempt = n, !.usage = u, !.fallback = f].mode = m
  BY DEF ProdRecs, ProdSteps
<1>2. "" \in Reasons /\ FALSE \in BOOLEAN /\ 0 \in Nat
  BY DEF Reasons
<1> QED BY <1>1, <1>2 DEF Ended

LEMMA AtType ==
  ASSUME NEW r \in ProdRecs, NEW a \in ProdSteps
  PROVE  /\ [r EXCEPT !.at = a] \in ProdRecs
         /\ [r EXCEPT !.at = a].at = a
         /\ [r EXCEPT !.at = a].mode = r.mode /\ [r EXCEPT !.at = a].usage = r.usage
BY DEF ProdRecs, ProdSteps

LEMMA AtWhyType ==
  ASSUME NEW r \in ProdRecs, NEW a \in ProdSteps, NEW w \in Reasons
  PROVE  /\ [r EXCEPT !.at = a, !.why = w] \in ProdRecs
         /\ [r EXCEPT !.at = a, !.why = w].at = a
         /\ [r EXCEPT !.at = a, !.why = w].mode = r.mode
         /\ [r EXCEPT !.at = a, !.why = w].usage = r.usage
BY DEF ProdRecs, ProdSteps

LEMMA FailureType ==
  ASSUME NEW r \in ProdRecs, NEW w \in Reasons, r.at \in Emitting
  PROVE  /\ AfterFailure(r, w) \in ProdRecs
         /\ AfterFailure(r, w).mode = r.mode /\ AfterFailure(r, w).usage = r.usage
         /\ AfterFailure(r, w).at = IF r.at = "keepalive" THEN "provider"
                                    ELSE IF r.at \in {"start", "token"} THEN "settle" ELSE "close"
<1> DEFINE a == IF r.at \in {"start", "token"} THEN "settle" ELSE "close"
<1>1. a \in ProdSteps /\ "provider" \in ProdSteps
  BY DEF ProdSteps
<1>2. [r EXCEPT !.at = "provider"] \in ProdRecs /\ [r EXCEPT !.at = "provider"].at = "provider"
      /\ [r EXCEPT !.at = "provider"].mode = r.mode /\ [r EXCEPT !.at = "provider"].usage = r.usage
  BY <1>1, AtType
<1>3. AfterFailure(r, w) = IF r.at = "keepalive" THEN [r EXCEPT !.at = "provider"]
                           ELSE [r EXCEPT !.at = a, !.why = w]
  BY DEF AfterFailure
<1> HIDE DEF a
<1>4. [r EXCEPT !.at = a, !.why = w] \in ProdRecs /\ [r EXCEPT !.at = a, !.why = w].at = a
      /\ [r EXCEPT !.at = a, !.why = w].mode = r.mode /\ [r EXCEPT !.at = a, !.why = w].usage = r.usage
  BY <1>1, AtWhyType, ZenonT(60)
<1> QED BY <1>2, <1>3, <1>4 DEF a

LEMMA AllType ==
  ASSUME NEW r \in ProdRecs, NEW a \in ProdSteps, NEW w \in Reasons, NEW u \in BOOLEAN, NEW f \in BOOLEAN,
         NEW n \in Nat
  PROVE  /\ [r EXCEPT !.usage = u, !.at = a, !.why = w] \in ProdRecs
         /\ [r EXCEPT !.usage = u, !.at = a, !.why = w].at = a
         /\ [r EXCEPT !.usage = u, !.at = a, !.why = w].mode = r.mode
         /\ [r EXCEPT !.usage = u, !.at = a, !.why = w].usage = u
         /\ [r EXCEPT !.at = a, !.usage = u, !.fallback = f] \in ProdRecs
         /\ [r EXCEPT !.at = a, !.usage = u, !.fallback = f].at = a
         /\ [r EXCEPT !.at = a, !.usage = u, !.fallback = f].mode = r.mode
         /\ [r EXCEPT !.at = a, !.usage = u, !.fallback = f].usage = u
         /\ [r EXCEPT !.at = a, !.usage = u] \in ProdRecs
         /\ [r EXCEPT !.at = a, !.usage = u].at = a
         /\ [r EXCEPT !.at = a, !.usage = u].mode = r.mode
         /\ [r EXCEPT !.at = a, !.usage = u].usage = u
         /\ [r EXCEPT !.usage = u, !.attempt = n, !.at = a, !.fallback = f] \in ProdRecs
         /\ [r EXCEPT !.usage = u, !.attempt = n, !.at = a, !.fallback = f].at = a
         /\ [r EXCEPT !.usage = u, !.attempt = n, !.at = a, !.fallback = f].mode = r.mode
         /\ [r EXCEPT !.usage = u, !.attempt = n, !.at = a, !.fallback = f].usage = u
BY DEF ProdRecs, ProdSteps

-----------------------------------------------------------------------------
(* What a step does to the stored stream.                                  *)

StreamMove ==
    \/ row'.status = row.status /\ events' = events
    \/ row.status = "none" /\ row'.status = "open" /\ events' = events
    \/ /\ row.status = "open" /\ row'.status = "open"
       /\ AppendCommit /\ txn.kind \in Content /\ High + 1 < MaxEvents
       /\ events' = Append(events, txn.kind)
    \/ row.status = "open" /\ row'.status \in {"closed", "error"} /\ events' = Append(events, "closed")
    \/ row'.status = "purged" /\ events' = <<>>

\* An append leaves the session open, an end does not.
LEMMA RowAppends ==
  ASSUME row \in RowRecs, txn \in TxnRecs
  PROVE  /\ RowAfterAppend \in RowRecs
         /\ txn.kind # "closed" => RowAfterAppend.status = row.status
         /\ txn.kind = "closed" => RowAfterAppend.status \in {"closed", "error"}
<1>1. ASSUME NEW n \in Nat, NEW l \in {"none", "live"}, NEW w \in Reasons, NEW s \in {"closed", "error"}
      PROVE  /\ [row EXCEPT !.bytes = n, !.lease = l] \in RowRecs
             /\ [row EXCEPT !.bytes = n, !.lease = l].status = row.status
             /\ [row EXCEPT !.bytes = n, !.lease = l, !.reason = w, !.status = s] \in RowRecs
             /\ [row EXCEPT !.bytes = n, !.lease = l, !.reason = w, !.status = s].status = s
  BY DEF RowRecs
<1>2. row.bytes + txn.size \in Nat /\ txn.why \in Reasons
  BY DEF RowRecs, TxnRecs
<1> DEFINE st == IF txn.why = "completed" THEN "closed" ELSE "error"
<1>3. st \in {"closed", "error"}
  OBVIOUS
<1>4. RowAfterAppend = IF txn.kind # "closed" THEN [row EXCEPT !.bytes = row.bytes + txn.size, !.lease = "live"]
                       ELSE [row EXCEPT !.bytes = row.bytes + txn.size, !.lease = "none", !.reason = txn.why,
                                        !.status = st]
  BY DEF RowAfterAppend
<1> DEFINE n == row.bytes + txn.size
<1>5. n \in Nat
  BY <1>2
<1>6. RowAfterAppend = IF txn.kind # "closed" THEN [row EXCEPT !.bytes = n, !.lease = "live"]
                       ELSE [row EXCEPT !.bytes = n, !.lease = "none", !.reason = txn.why, !.status = st]
  BY <1>4
<1> HIDE DEF st, n
<1>7. CASE txn.kind # "closed"
  BY <1>1, <1>2, <1>3, <1>5, <1>6, <1>7
<1>8. CASE txn.kind = "closed"
  <2> DEFINE l == "none"
  <2>1. l \in {"none", "live"} /\ RowAfterAppend =
          [row EXCEPT !.bytes = n, !.lease = l, !.reason = txn.why, !.status = st]
    BY <1>6, <1>8
  <2> DEFINE w == txn.why
  <2>2. w \in Reasons
    BY <1>2
  <2>3. RowAfterAppend = [row EXCEPT !.bytes = n, !.lease = l, !.reason = w, !.status = st]
    BY <2>1
  <2> HIDE DEF l, w
  <2>4. /\ [row EXCEPT !.bytes = n, !.lease = l, !.reason = w, !.status = st] \in RowRecs
        /\ [row EXCEPT !.bytes = n, !.lease = l, !.reason = w, !.status = st].status = st
    BY <1>1, <1>3, <1>5, <2>1, <2>2, ZenonT(60)
  <2> QED BY <1>3, <1>8, <2>3, <2>4
<1> QED BY <1>7, <1>8

LEMMA StatusTypes ==
  ASSUME row \in RowRecs
  PROVE  /\ [row EXCEPT !.status = "open", !.lease = "live"] \in RowRecs
         /\ [row EXCEPT !.status = "open", !.lease = "live"].status = "open"
         /\ [row EXCEPT !.expired = TRUE] \in RowRecs /\ [row EXCEPT !.expired = TRUE].status = row.status
         /\ [row EXCEPT !.lease = "lapsed"] \in RowRecs /\ [row EXCEPT !.lease = "lapsed"].status = row.status
         /\ [row EXCEPT !.status = "error", !.reason = "producer_lost", !.lease = "none"] \in RowRecs
         /\ [row EXCEPT !.status = "error", !.reason = "producer_lost", !.lease = "none"].status = "error"
         /\ [row EXCEPT !.status = "purged", !.lease = "none"] \in RowRecs
         /\ [row EXCEPT !.status = "purged", !.lease = "none"].status = "purged"
BY DEF RowRecs, Reasons

LEMMA HeldTxn ==
  ASSUME Types, txn.by # "nobody"
  PROVE  txn \in TxnRecs /\ (txn.kind # "closed" => txn.kind \in Content)
<1>1. NoTxn.by = "nobody"
  BY DEF NoTxn
<1>2. txn \in TxnRecs
  BY <1>1 DEF Types
<1> QED BY <1>2 DEF TxnRecs, Kinds

\* A commit that still fits finds the session open.
LEMMA FitsOpen ==
  ASSUME Types, TxnInv, txn.by # "nobody", StillFits
  PROVE  row.status = "open" /\ (txn.kind # "closed" => High + 1 < MaxEvents)
<1>1. txn.seq \in Nat /\ High \in Nat
  BY HeldTxn DEF Types, TxnRecs, High
<1> QED BY <1>1 DEF StillFits, TxnInv

LEMMA StreamStep ==
  ASSUME Types, FreshInv, TxnOwner, TxnInv, OneTerminal, [Next]_vars
  PROVE  StreamMove /\ row' \in RowRecs /\ events' \in Seq(Kinds)
<1> USE DEF StreamMove
<1> DEFINE Goal == StreamMove /\ row' \in RowRecs /\ events' \in Seq(Kinds)
<1> SUFFICES Goal
  OBVIOUS
<1>0. row \in RowRecs /\ events \in Seq(Kinds)
  BY DEF Types
<1>k. \A k \in Kinds : Append(events, k) \in Seq(Kinds)
  BY <1>0
<1>c. "closed" \in Kinds /\ Content \subseteq Kinds
  BY DEF Kinds
<1>n. row' = row /\ events' = events => Goal
  BY <1>0
<1>1. CASE CreateSession
  BY <1>0, <1>1, StatusTypes DEF CreateSession, FreshInv, Fresh
<1>2. CASE AppendCommit
  <2>1. txn.by # "nobody" /\ StillFits /\ txn.kind # "closed" /\ events' = Appended /\ row' = RowAfterAppend
    BY <1>2 DEF AppendCommit
  <2>2. txn \in TxnRecs /\ txn.kind \in Content /\ row.status = "open" /\ High + 1 < MaxEvents
    BY <2>1, HeldTxn, FitsOpen
  <2>3. row' \in RowRecs /\ row'.status = "open"
    BY <1>0, <2>1, <2>2, RowAppends
  <2> QED BY <1>2, <1>k, <1>c, <2>1, <2>2, <2>3 DEF Appended
<1>3. ASSUME txn.by # "nobody", txn.kind = "closed", StillFits, events' = Appended, row' = RowAfterAppend
      PROVE  Goal
  <2>1. txn \in TxnRecs /\ row.status = "open"
    BY <1>3, HeldTxn, FitsOpen
  <2>2. row' \in RowRecs /\ row'.status \in {"closed", "error"}
    BY <1>0, <1>3, <2>1, RowAppends
  <2> QED BY <1>3, <1>k, <1>c, <2>1, <2>2 DEF Appended
<1>4. CASE CloseCommit
  BY <1>3, <1>4, <1>n DEF CloseCommit
<1>5. ASSUME NEW t \in Tails, TailCloseCommit(t) PROVE Goal
  <2>1. txn.by = TailNames[t] /\ txn.kind = "closed"
    BY <1>5 DEF TailCloseCommit, TxnOwner
  <2>2. txn.by # "nobody"
    BY <2>1 DEF Tails, TailNames
  <2> QED BY <1>3, <1>5, <1>n, <2>1, <2>2 DEF TailCloseCommit
<1>6. CASE Recover
  <2>1. row.status = "open" /\ ~ HasTerminal
    BY <1>6 DEF Recover, Abandoned, OneTerminal
  <2> QED BY <1>0, <1>6, <1>k, <1>c, <2>1, StatusTypes DEF Recover
<1>7. CASE Purge
  BY <1>0, <1>7, StatusTypes DEF Purge
<1>8. CASE SessionExpires \/ LeaseLapses
  BY <1>0, <1>8, StatusTypes DEF SessionExpires, LeaseLapses
<1>9. CASE ReserveTokens \/ CreateSessionFails \/ AppendBegin \/ AppendRefused \/ AppendAborts
           \/ TokenArrives \/ StreamEnds \/ CallFails \/ CallReturns \/ KeepAlive
           \/ Settle \/ EmitNext \/ CloseBegin \/ CloseGivesUp
  BY <1>9, <1>n DEF ReserveTokens, CreateSessionFails, AppendBegin, AppendRefused, AppendAborts,
     TokenArrives, StreamEnds, CallFails, CallReturns, KeepAlive, Settle, EmitNext, CloseBegin, CloseGivesUp
<1>10. ASSUME NEW t \in Tails, Delivery(t), ~ TailCloseCommit(t) PROVE row' = row /\ events' = events
  BY <1>10 DEF Delivery, TailStops, TailReserves, TailLosesClient, PullRefused, PullEvent, TailTimesOut,
     TailCloseBegin, TailCloseFallback
<1>11. CASE Client \/ ClaimsExpire \/ Revoke \/ ReservationExpires \/ BackupStarts \/ BackupEnds
            \/ ClearFence \/ Crash \/ UNCHANGED vars
  BY <1>11, <1>n DEF Client, Receive, Resume, ClaimsExpire, Revoke, ReservationExpires, BackupStarts,
     BackupEnds, ClearFence, Crash, vars
<1> HIDE DEF Goal
<1> QED
  BY <1>1, <1>2, <1>4, <1>5, <1>6, <1>7, <1>8, <1>9, <1>10, <1>11, <1>n DEF Next, Producer, Others

LEMMA OneTerminalStep ==
  ASSUME Types, FreshInv, OneTerminal, StreamMove
  PROVE  OneTerminal'
<1>0. events \in Seq(Kinds) /\ High \in Nat /\ MaxEvents \in Nat /\ MaxEvents > 1 /\ row \in RowRecs
  BY BoundsAssumption DEF BoundsAssumption, Types, High
<1>1. CASE row'.status = row.status /\ events' = events
  BY <1>1 DEF OneTerminal, HasTerminal, High
<1>2. CASE row.status = "none" /\ row'.status = "open" /\ events' = events
  <2>1. events = <<>> /\ High = 0
    BY <1>2 DEF FreshInv, High
  <2> QED BY <1>0, <1>2, <2>1 DEF OneTerminal, HasTerminal, High
<1>3. ASSUME NEW k \in Kinds, row.status = "open", events' = Append(events, k),
             IF k = "closed" THEN row'.status \in {"closed", "error"}
                             ELSE row'.status = "open" /\ High + 1 < MaxEvents
      PROVE  OneTerminal'
  <2>1. /\ High' = High + 1 /\ events'[High + 1] = k
        /\ \A i \in 1..High : events'[i] = events[i] /\ events[i] # "closed"
    BY <1>0, <1>3 DEF High, OneTerminal, HasTerminal
  <2>2. \A i \in 1..High' : events'[i] = "closed" => i = High' /\ k = "closed"
    BY <1>0, <2>1
  <2>3. k = "closed" => HasTerminal'
    BY <1>0, <2>1 DEF HasTerminal
  <2> QED BY <1>0, <1>3, <2>1, <2>2, <2>3 DEF OneTerminal, HasTerminal
<1>4. CASE row'.status = "purged" /\ events' = <<>>
  BY <1>4 DEF OneTerminal, HasTerminal, High
<1> QED BY <1>1, <1>2, <1>3, <1>4 DEF StreamMove, Content, Kinds

\* Once a stream has ended its last number stays the last.
LEMMA AtEndStays ==
  ASSUME StreamMove, NEW i, AtEnd(i)
  PROVE  AtEnd(i)'
BY DEF StreamMove, AtEnd, High

-----------------------------------------------------------------------------
(* The producer and the append transaction.                                *)

LEMMA EmitsKinds ==
  /\ DOMAIN Emits = Emitting
  /\ Emits["start"] = "started" /\ Emits["token"] = "token" /\ Emits["keepalive"] = "token"
  /\ Emits["emitting"] = "token" /\ Emits["finish"] = "epilogue"
  /\ \A s \in Emitting : Emits[s] \in Content
BY DEF Emits, Emitting, Content

\* A transaction that begins finds the session open and takes the next number.
Begins ==
    /\ txn.by = "nobody" /\ row' = row /\ events' = events /\ prod' = prod /\ auth' = auth
    /\ row.status = "open" /\ txn'.seq = High + 1
    /\ txn'.kind # "closed" => High + 1 < MaxEvents
    /\ \/ /\ txn'.by = "producer" /\ tail' = tail /\ backup' = Guarded("producer")
          /\ \/ txn'.kind = "closed" /\ prod.at = "close"
             \/ prod.at \in Emitting /\ txn'.kind = Emits[prod.at] /\ auth.family /\ auth.cited
       \/ \E t \in Tails : TailCloseBegin(t) /\ txn'.by = TailNames[t] /\ txn'.kind = "closed"
                           /\ backup' = backup

LEMMA TxnStep ==
  ASSUME Types, [Next]_vars
  PROVE  /\ txn' \in TxnRecs \cup {NoTxn}
         /\ \/ txn' = txn
            \/ txn' = NoTxn
            \/ Begins
<1> DEFINE Goal == /\ txn' \in TxnRecs \cup {NoTxn}
                   /\ txn' = txn \/ txn' = NoTxn \/ Begins
<1> SUFFICES Goal
  OBVIOUS
<1>0. /\ txn \in TxnRecs \cup {NoTxn} /\ events \in Seq(Kinds) /\ High \in Nat
      /\ prod \in ProdRecs /\ prod.why \in Reasons
      /\ \A t \in Tails : tail[t].why \in Reasons
  <2>1. /\ txn \in TxnRecs \cup {NoTxn} /\ events \in Seq(Kinds) /\ prod \in ProdRecs
        /\ tail \in [Tails -> TailRecs]
    BY DEF Types
  <2>2. High \in Nat
    BY <2>1 DEF High
  <2>3. prod.why \in Reasons
    BY <2>1 DEF ProdRecs
  <2>4. \A t \in Tails : tail[t].why \in Reasons
    BY <2>1 DEF TailRecs
  <2> QED BY <2>1, <2>2, <2>3, <2>4
<1>n. txn' = txn \/ txn' = NoTxn => Goal
  BY <1>0
<1>1. CASE AppendBegin
  <2>1. /\ prod.at \in Emitting /\ txn.by = "nobody"
        /\ UNCHANGED <<row, events, prod, tail, auth>> /\ backup' = Guarded("producer")
    BY <1>1, EmitsKinds DEF AppendBegin, LocksFree
  <2>2. PICK size \in {1, 2} : /\ FirstRefusal(FenceRefusal, RowRefusal(Emits[prod.at], size)) = "ok"
                               /\ BeginTxn("producer", Emits[prod.at], size, "")
    BY <1>1 DEF AppendBegin
  <2>3. Emits[prod.at] \in Content
    BY <2>1, EmitsKinds
  <2>4. FenceRefusal = "ok" /\ RowRefusal(Emits[prod.at], size) = "ok"
    BY <2>2 DEF FirstRefusal
  <2>5. auth.family /\ auth.cited
    BY <2>4 DEF FenceRefusal
  <2>6. row.status = "open" /\ HasRoom(Emits[prod.at], size)
    BY <2>4 DEF RowRefusal
  <2>7. High + 1 < MaxEvents
    BY <2>3, <2>6 DEF HasRoom, Content
  <2>8. txn' = [by |-> "producer", kind |-> Emits[prod.at], size |-> size, seq |-> High + 1, why |-> ""]
    BY <2>2 DEF BeginTxn
  <2>9. txn' \in TxnRecs
    <3>1. High + 1 \in Nat /\ Emits[prod.at] \in Kinds /\ "" \in Reasons
      <4>1. High + 1 \in Nat
        BY <1>0
      <4>2. Emits[prod.at] \in Kinds
        BY <2>3 DEF Kinds
      <4> QED BY <4>1, <4>2 DEF Reasons
    <3> QED BY <2>8, <3>1 DEF TxnRecs
  <2> QED BY <2>1, <2>5, <2>6, <2>7, <2>8, <2>9 DEF Begins
<1>2. CASE CloseBegin
  <2>1. /\ prod.at = "close" /\ txn.by = "nobody" /\ row.status = "open"
        /\ UNCHANGED <<row, events, prod, tail, auth>> /\ backup' = Guarded("producer")
        /\ txn' = [by |-> "producer", kind |-> "closed", size |-> 1, seq |-> High + 1, why |-> prod.why]
    BY <1>2 DEF CloseBegin, LocksFree, CanClose, BeginTxn
  <2>2. txn' \in TxnRecs
    BY <1>0, <2>1 DEF TxnRecs, Kinds
  <2> QED BY <2>1, <2>2 DEF Begins
<1>3. ASSUME NEW t \in Tails, TailCloseBegin(t) PROVE Goal
  <2>1. /\ txn.by = "nobody" /\ row.status = "open"
        /\ UNCHANGED <<row, events, prod, auth, backup>>
        /\ txn' = [by |-> TailNames[t], kind |-> "closed", size |-> 1, seq |-> High + 1, why |-> tail[t].why]
    BY <1>3 DEF TailCloseBegin, LocksFree, CanClose, BeginTxn
  <2>2. txn' \in TxnRecs
    BY <1>0, <2>1 DEF TxnRecs, Kinds, Tails, TailNames
  <2> QED BY <1>3, <2>1, <2>2 DEF Begins
<1>4. CASE AppendCommit \/ AppendAborts \/ CloseCommit \/ Crash
  BY <1>4, <1>n DEF AppendCommit, AppendAborts, CloseCommit, Crash
<1>5. CASE ReserveTokens \/ CreateSession \/ CreateSessionFails \/ AppendRefused
           \/ TokenArrives \/ StreamEnds \/ CallFails \/ CallReturns \/ KeepAlive
           \/ Settle \/ EmitNext \/ CloseGivesUp
  BY <1>5, <1>n DEF ReserveTokens, CreateSession, CreateSessionFails, AppendRefused,
     TokenArrives, StreamEnds, CallFails, CallReturns, KeepAlive, Settle, EmitNext, CloseGivesUp
<1>6. ASSUME NEW t \in Tails, Delivery(t), ~ TailCloseBegin(t) PROVE txn' = txn \/ txn' = NoTxn
  BY <1>6 DEF Delivery, TailStops, TailReserves, TailLosesClient, PullRefused, PullEvent, TailTimesOut,
     TailCloseCommit, TailCloseFallback
<1>7. CASE Client \/ ClaimsExpire \/ Revoke \/ SessionExpires \/ LeaseLapses \/ Recover \/ Purge
           \/ ReservationExpires \/ BackupStarts \/ BackupEnds \/ ClearFence \/ UNCHANGED vars
  BY <1>7, <1>n DEF Client, Receive, Resume, ClaimsExpire, Revoke, SessionExpires, LeaseLapses, Recover,
     Purge, ReservationExpires, BackupStarts, BackupEnds, ClearFence, vars
<1> HIDE DEF Goal
<1> QED BY <1>1, <1>2, <1>3, <1>4, <1>5, <1>6, <1>7, <1>n DEF Next, Producer, Others

\* The transaction keeps its place, is overtaken by an end, or is over.
LEMMA TxnInvStep ==
  ASSUME Types, TxnInv, StreamMove, [Next]_vars
  PROVE  TxnInv'
<1>0. NoTxn.by = "nobody" /\ High \in Nat
  <2>1. NoTxn.by = "nobody"
    BY DEF NoTxn
  <2> QED BY <2>1 DEF Types, High
<1>1. CASE txn' = NoTxn
  BY <1>0, <1>1 DEF TxnInv
<1>2. CASE Begins
  BY <1>2 DEF Begins, TxnInv, High
<1>3. CASE txn' = txn /\ txn.by # "nobody"
  <2>1. ~ AppendCommit
    BY <1>0, <1>3 DEF AppendCommit
  <2>2. txn.seq \in Nat
    BY <1>3, HeldTxn DEF TxnRecs
  <2>3. \A k \in Kinds : Len(Append(events, k)) = High + 1
    BY DEF Types, High
  <2>4. "closed" \in Kinds
    BY DEF Kinds
  <2> QED BY <1>0, <1>3, <2>1, <2>2, <2>3, <2>4 DEF StreamMove, TxnInv, High
<1> QED BY <1>1, <1>2, <1>3, TxnStep DEF TxnInv

LEMMA ProdStep ==
  ASSUME Types, FreshInv, TxnOwner, TxnInv, UsageInv, StreamMove, [Next]_vars
  PROVE  /\ prod' \in ProdRecs
         /\ prod'.at \in Fresh => prod' = prod \/ prod.at = "idle"
         /\ UsageInv'
         /\ txn.by = "producer" /\ txn' = txn => prod' = prod
<1> DEFINE Early == {"start", "provider", "token", "settle"}
           Goal == /\ prod' \in ProdRecs
                   /\ prod'.at \in Fresh => prod' = prod \/ prod.at = "idle"
                   /\ UsageInv'
                   /\ txn.by = "producer" /\ txn' = txn => prod' = prod
<1> SUFFICES Goal
  OBVIOUS
<1>r. prod \in ProdRecs
  BY DEF Types
<1>e. NoTxn.by = "nobody"
  BY DEF NoTxn
<1>0. prod \in ProdRecs /\ txn \in TxnRecs \cup {NoTxn} /\ NoTxn.by = "nobody" /\ events \in Seq(Kinds)
  BY <1>e DEF Types
\* Who asks for the provider's answer holds no lock.
<1>p. prod.at \notin Emitting \cup {"close"} => txn.by # "producer"
  BY DEF TxnOwner
<1>s. events' = events => (Streamed' <=> Streamed)
  BY DEF Streamed, High
<1>t. ASSUME prod' = prod, Streamed' => Streamed PROVE Goal
  BY <1>0, <1>t DEF UsageInv
<1>h. ASSUME prod' \in ProdRecs, prod'.at \notin Fresh, txn.by # "producer" \/ txn' = NoTxn,
             prod'.at \notin Early \cup {"keepalive"}
      PROVE  Goal
  BY <1>0, <1>h DEF UsageInv
<1>u. ASSUME prod' \in ProdRecs, prod'.at \in Early, txn.by # "producer" \/ txn' = NoTxn,
             prod'.mode = "stream" => (Streamed' \/ prod'.at = "token" => prod'.usage)
      PROVE  Goal
  BY <1>0, <1>u DEF UsageInv, Fresh
<1>1. CASE ReserveTokens
  <2>0. "prepared" \in ProdSteps /\ "done" \in ProdSteps
    BY DEF ProdSteps, Fresh
  <2>1. prod'.at \in {"prepared", "done"} /\ prod' \in ProdRecs
    <3>1. prod' = [prod EXCEPT !.at = "prepared"] \/ prod' = Ended(prod, "done")
      BY <1>1 DEF ReserveTokens
    <3>2. [prod EXCEPT !.at = "prepared"] \in ProdRecs /\ [prod EXCEPT !.at = "prepared"].at = "prepared"
      BY <1>r, <2>0, AtType
    <3>3. Ended(prod, "done") \in ProdRecs /\ Ended(prod, "done").at = "done"
      BY <1>r, <2>0, EndedType
    <3> QED BY <3>1, <3>2, <3>3
  <2>2. prod.at = "idle"
    BY <1>1 DEF ReserveTokens
  <2> QED BY <1>p, <2>1, <2>2 DEF UsageInv, Emitting
<1>2. CASE CreateSession
  <2>1. prod' \in ProdRecs /\ prod'.at = "start"
    BY <1>0, <1>2, AtType DEF CreateSession, ProdSteps, Emitting
  <2>2. ~ Streamed'
    BY <1>2 DEF CreateSession, FreshInv, Fresh, Streamed, High
  <2>3. prod.at = "prepared"
    BY <1>2 DEF CreateSession
  <2> QED BY <1>p, <1>u, <2>1, <2>2, <2>3 DEF Emitting
<1>3. CASE CreateSessionFails
  <2>1. "done" \in ProdSteps /\ "prepared" \notin Emitting \cup {"close"} /\ "done" \notin Fresh
    BY DEF ProdSteps, Emitting, Fresh
  <2>2. prod' = Ended(prod, "done") /\ prod.at = "prepared"
    BY <1>3 DEF CreateSessionFails
  <2>3. prod' \in ProdRecs /\ prod'.at = "done"
    BY <1>r, <2>1, <2>2, EndedType
  <2> QED BY <1>h, <1>p, <2>1, <2>2, <2>3
<1>4. CASE AppendBegin \/ CloseBegin
  BY <1>4, <1>s, <1>t DEF AppendBegin, CloseBegin
<1>5. CASE AppendRefused \/ AppendAborts
  <2>1. /\ events' = events /\ prod.at \in Emitting /\ (txn.by # "producer" \/ txn' = NoTxn)
        /\ \E w \in Reasons : prod' = AfterFailure(prod, w)
    <3>1. CASE AppendRefused
      <4>1. PICK size \in {1, 2} : prod' = AfterFailure(prod,
              CASE ~auth.claims -> "token_expired"
                [] ~GateOpen -> "ops_fence_active"
                [] OTHER -> FirstRefusal(FenceRefusal, RowRefusal(Emits[prod.at], size)))
        BY <3>1 DEF AppendRefused
      <4>2. FirstRefusal(FenceRefusal, RowRefusal(Emits[prod.at], size)) \in Reasons
        BY DEF FirstRefusal, FenceRefusal, RowRefusal, Reasons
      <4> QED BY <3>1, <4>1, <4>2, EmitsKinds DEF AppendRefused, Reasons
    <3>2. CASE AppendAborts
      <4>1. prod.at \in Emitting
        BY <3>2, EmitsKinds DEF AppendAborts, TxnOwner
      <4> QED BY <3>2, <4>1 DEF AppendAborts, Reasons
    <3> QED BY <1>5, <3>1, <3>2
  <2>2. /\ prod' \in ProdRecs /\ prod'.mode = prod.mode /\ prod'.usage = prod.usage
        /\ prod'.at = IF prod.at = "keepalive" THEN "provider"
                      ELSE IF prod.at \in {"start", "token"} THEN "settle" ELSE "close"
    BY <1>0, <2>1, FailureType
  <2>3. CASE prod.at = "keepalive"
    BY <1>u, <2>1, <2>2, <2>3 DEF UsageInv
  <2>4. CASE prod.at \in {"start", "token"}
    BY <1>s, <1>u, <2>1, <2>2, <2>4 DEF UsageInv
  <2>5. CASE prod.at \notin {"keepalive", "start", "token"}
    BY <1>h, <2>1, <2>2, <2>5 DEF Fresh
  <2> QED BY <2>3, <2>4, <2>5
<1>6. CASE AppendCommit
  <2>1. /\ txn.by = "producer" /\ txn.kind # "closed" /\ txn' = NoTxn /\ events' = Append(events, txn.kind)
        /\ prod.at \in Emitting /\ txn.kind = Emits[prod.at]
    BY <1>6 DEF AppendCommit, Appended, TxnOwner
  <2>2. PICK next \in NextAfterAppend(prod) :
          prod' = [prod EXCEPT !.at = next, !.why = IF next = "close" THEN "completed" ELSE @]
    BY <1>6 DEF AppendCommit
  <2>3. /\ prod.at = "start" => next \in {"provider", "settle"}
        /\ prod.at \in {"token", "keepalive"} => next = "provider"
        /\ prod.at = "emitting" => next \in {"emit", "finish"}
        /\ prod.at = "finish" => next \in {"finish", "close"}
    BY <2>2 DEF NextAfterAppend
  <2>4. next \in ProdSteps /\ next \notin Fresh /\ next # "keepalive"
    BY <2>1, <2>3 DEF ProdSteps, Emitting, Fresh
  <2> DEFINE w == IF next = "close" THEN "completed" ELSE prod.why
  <2>5. w \in Reasons
    BY <1>0 DEF ProdRecs, Reasons
  <2>6. prod' = [prod EXCEPT !.at = next, !.why = w]
    BY <2>2
  <2> HIDE DEF w
  <2>7. prod' \in ProdRecs /\ prod'.at = next /\ prod'.mode = prod.mode /\ prod'.usage = prod.usage
    BY <1>r, <2>4, <2>5, <2>6 DEF ProdRecs, ProdSteps
  <2>8. Streamed' => Streamed \/ txn.kind = "token"
    BY <1>0, <2>1 DEF Streamed, High
  <2>9. CASE next \notin Early
    BY <1>h, <2>1, <2>4, <2>7, <2>9
  <2>10. CASE next \in Early
    <3>1. prod.at \in {"start", "token", "keepalive"}
      BY <2>1, <2>3, <2>10 DEF Emitting
    <3>2. prod.at = "start" => txn.kind # "token"
      BY <2>1, EmitsKinds
    <3>3. next # "token"
      BY <2>3, <3>1
    <3> QED BY <1>u, <2>1, <2>7, <2>8, <2>10, <3>1, <3>2, <3>3 DEF UsageInv
  <2> QED BY <2>9, <2>10
<1>7. CASE TokenArrives
  <2> DEFINE a == IF cancelled THEN "settle" ELSE "token"
             w == IF cancelled THEN "cancelled" ELSE prod.why
  <2>1. a \in ProdSteps /\ a \in Early /\ w \in Reasons /\ TRUE \in BOOLEAN
    BY <1>0 DEF ProdSteps, Emitting, ProdRecs, Reasons
  <2>2. prod' = [prod EXCEPT !.usage = TRUE, !.at = a, !.why = w] /\ prod.at = "provider"
    BY <1>7 DEF TokenArrives
  <2> HIDE DEF a, w
  <2>3. prod' \in ProdRecs /\ prod'.at = a /\ prod'.usage = TRUE
    BY <1>r, <2>1, <2>2 DEF ProdRecs, ProdSteps
  <2> QED BY <1>p, <1>u, <2>1, <2>2, <2>3 DEF Emitting
<1>8. CASE StreamEnds
  <2>1. PICK broken \in BOOLEAN : prod' = [prod EXCEPT !.at = "settle", !.usage = TRUE, !.fallback = broken]
    BY <1>8 DEF StreamEnds
  <2>2. prod' \in ProdRecs /\ prod'.at = "settle" /\ prod'.usage = TRUE
    BY <1>r, <2>1 DEF ProdRecs
  <2>3. prod.at = "provider"
    BY <1>8 DEF StreamEnds
  <2> QED BY <1>p, <1>u, <2>2, <2>3 DEF Emitting
<1>9. CASE CallFails
  <2>1. prod.at = "provider" /\ (prod.mode = "stream" => ~ prod.usage) /\ events' = events
    BY <1>9 DEF CallFails
  <2>2. PICK timeout \in BOOLEAN :
          prod' = [prod EXCEPT !.usage = timeout /\ ~Retryable(timeout),
                               !.attempt = IF Retryable(timeout) THEN @ + 1 ELSE @,
                               !.at = IF Retryable(timeout) THEN "provider" ELSE "settle",
                               !.fallback = ~Retryable(timeout)]
    BY <1>9 DEF CallFails
  <2> DEFINE u == timeout /\ ~Retryable(timeout)
             n == IF Retryable(timeout) THEN prod.attempt + 1 ELSE prod.attempt
             a == IF Retryable(timeout) THEN "provider" ELSE "settle"
             f == ~Retryable(timeout)
  <2>3. u \in BOOLEAN /\ f \in BOOLEAN
    OBVIOUS
  <2>4. n \in Nat /\ a \in ProdSteps /\ a \in Early /\ a # "token"
    <3>1. prod.attempt \in Nat
      BY <1>r DEF ProdRecs
    <3> QED BY <3>1 DEF ProdSteps
  <2>5. prod' = [prod EXCEPT !.usage = u, !.attempt = n, !.at = a, !.fallback = f]
    BY <2>2
  <2> HIDE DEF u, n, a, f
  <2>6. prod' \in ProdRecs /\ prod'.at = a /\ prod'.mode = prod.mode
    BY <1>r, <2>3, <2>4, <2>5 DEF ProdRecs, ProdSteps
  <2>7. prod.mode = "stream" => ~ Streamed
    BY <2>1 DEF UsageInv
  <2> QED BY <1>p, <1>s, <1>u, <2>1, <2>4, <2>6, <2>7 DEF Emitting
<1>10. CASE CallReturns
  <2>1. prod' = [prod EXCEPT !.at = "settle", !.usage = TRUE] /\ prod.at = "provider"
    BY <1>10 DEF CallReturns
  <2>2. prod' \in ProdRecs /\ prod'.at = "settle" /\ prod'.usage = TRUE
    BY <1>r, <2>1 DEF ProdRecs
  <2> QED BY <1>p, <1>u, <2>1, <2>2 DEF Emitting
<1>11. CASE KeepAlive
  <2>1. prod.at = "provider" /\ prod.mode = "buffered" /\ prod' = [prod EXCEPT !.at = "keepalive"]
    BY <1>11 DEF KeepAlive
  <2>2. prod' \in ProdRecs /\ prod'.at = "keepalive" /\ prod'.mode = "buffered"
    BY <1>0, <2>1, AtType DEF ProdSteps, Emitting
  <2> QED BY <1>p, <2>1, <2>2 DEF UsageInv, Fresh, Emitting
<1>12. CASE Settle
  <2> DEFINE a == AfterSettle(prod)
  <2>1. a \in {"close", "finish", "emit"}
    BY DEF AfterSettle
  <2>2. prod' = [prod EXCEPT !.at = a] /\ prod.at = "settle"
    BY <1>12 DEF Settle
  <2> HIDE DEF a
  <2>3. prod' \in ProdRecs /\ prod'.at = a
    BY <1>0, <2>1, <2>2, AtType DEF ProdSteps, Emitting
  <2> QED BY <1>p, <1>h, <2>1, <2>2, <2>3 DEF Emitting, Fresh
<1>13. CASE EmitNext
  <2>1. prod.at = "emit" /\ \/ prod' = [prod EXCEPT !.at = "close", !.why = "cancelled"]
                            \/ prod' = [prod EXCEPT !.at = "emitting"]
    BY <1>13 DEF EmitNext
  <2>2. prod' \in ProdRecs /\ prod'.at \in {"close", "emitting"}
    <3>1. "close" \in ProdSteps /\ "emitting" \in ProdSteps /\ "cancelled" \in Reasons
      BY DEF ProdSteps, Emitting, Reasons
    <3>2. /\ [prod EXCEPT !.at = "close", !.why = "cancelled"] \in ProdRecs
          /\ [prod EXCEPT !.at = "close", !.why = "cancelled"].at = "close"
      BY <1>r, <3>1, AtWhyType
    <3>3. [prod EXCEPT !.at = "emitting"] \in ProdRecs /\ [prod EXCEPT !.at = "emitting"].at = "emitting"
      BY <1>r, <3>1, AtType
    <3> QED BY <2>1, <3>2, <3>3
  <2> QED BY <1>p, <1>h, <2>1, <2>2 DEF Emitting, Fresh
<1>14. CASE CloseGivesUp \/ CloseCommit
  <2>1. prod' \in ProdRecs /\ prod'.at = "done"
    BY <1>0, <1>14, EndedType, ZenonT(60) DEF CloseGivesUp, CloseCommit, ProdSteps
  <2> QED BY <1>h, <1>14, <2>1 DEF CloseGivesUp, CloseCommit, Fresh
<1>15. CASE Crash
  <2>1. prod' \in ProdRecs /\ prod'.at = "dead"
    BY <1>0, <1>15, EndedType DEF Crash, ProdSteps
  <2> QED BY <1>h, <1>15, <2>1 DEF Crash, Fresh
<1>16. ASSUME ~ Producer, ~ Crash PROVE prod' = prod /\ ~ AppendCommit
  BY <1>16 DEF Next, Producer, Delivery, TailStops, TailReserves, TailLosesClient, PullRefused, PullEvent,
     TailTimesOut, TailCloseBegin, TailCloseCommit, TailCloseFallback, Client, Receive, Resume,
     Others, ClaimsExpire, Revoke, SessionExpires, LeaseLapses, Recover, Purge, ReservationExpires,
     BackupStarts, BackupEnds, ClearFence, vars
<1>17. CASE ~ Producer /\ ~ Crash
  <2>1. Streamed' => Streamed
    BY <1>0, <1>16, <1>17 DEF StreamMove, Streamed, High, Kinds
  <2> QED BY <1>16, <1>17, <1>t, <2>1
<1> HIDE DEF Goal
<1> QED BY <1>1, <1>2, <1>3, <1>4, <1>5, <1>6, <1>7, <1>8, <1>9, <1>10, <1>11, <1>12, <1>13, <1>14,
           <1>15, <1>17 DEF Producer

-----------------------------------------------------------------------------
(* The deliveries and the client.                                          *)

LEMMA TailShapes ==
  ASSUME tail \in [Tails -> TailRecs], NEW t \in Tails, NEW a \in Running \cup {"off", "done"},
         NEW w \in Reasons, NEW n \in Nat
  PROVE  /\ Goes(t, a) => /\ tail' \in [Tails -> TailRecs]
                          /\ tail'[t].at = a /\ tail'[t].after = tail[t].after
                          /\ \A u \in Tails \ {t} : tail'[u] = tail[u]
         /\ Closes(t, w) => /\ tail' \in [Tails -> TailRecs]
                            /\ tail'[t].at = "closing" /\ tail'[t].after = tail[t].after
                            /\ \A u \in Tails \ {t} : tail'[u] = tail[u]
         /\ TailEnds(t) => /\ tail' \in [Tails -> TailRecs]
                           /\ tail'[t].at = "done"
                           /\ \A u \in Tails \ {t} : tail'[u] = tail[u]
         /\ tail' = [tail EXCEPT ![t].after = n, ![t].at = "loop"] =>
                           /\ tail' \in [Tails -> TailRecs]
                           /\ tail'[t].at = "loop" /\ tail'[t].after = n
                           /\ \A u \in Tails \ {t} : tail'[u] = tail[u]
<1>0. tail[t] \in TailRecs
  OBVIOUS
<1>1. ASSUME Goes(t, a)
      PROVE  /\ tail' \in [Tails -> TailRecs]
             /\ tail'[t].at = a /\ tail'[t].after = tail[t].after
             /\ \A u \in Tails \ {t} : tail'[u] = tail[u]
  <2>1. tail' = [tail EXCEPT ![t] = [tail[t] EXCEPT !.at = a]]
    BY <1>1 DEF Goes
  <2>2. /\ [tail[t] EXCEPT !.at = a] \in TailRecs /\ [tail[t] EXCEPT !.at = a].at = a
        /\ [tail[t] EXCEPT !.at = a].after = tail[t].after
    BY <1>0 DEF TailRecs
  <2> QED BY <2>1, <2>2
<1>2. ASSUME Closes(t, w)
      PROVE  /\ tail' \in [Tails -> TailRecs]
             /\ tail'[t].at = "closing" /\ tail'[t].after = tail[t].after
             /\ \A u \in Tails \ {t} : tail'[u] = tail[u]
  <2> DEFINE r == [[tail[t] EXCEPT !.at = "closing"] EXCEPT !.why = w]
  <2>1. tail' = [tail EXCEPT ![t] = r]
    BY <1>2 DEF Closes
  <2>2. [tail[t] EXCEPT !.at = "closing"] \in TailRecs
    BY <1>0 DEF TailRecs, Running
  <2>3. r \in TailRecs /\ r.at = "closing" /\ r.after = tail[t].after
    BY <1>0, <2>2 DEF TailRecs
  <2> HIDE DEF r
  <2> QED BY <2>1, <2>3
<1>3. ASSUME TailEnds(t)
      PROVE  /\ tail' \in [Tails -> TailRecs]
             /\ tail'[t].at = "done"
             /\ \A u \in Tails \ {t} : tail'[u] = tail[u]
  <2>1. [at |-> "done", after |-> 0, why |-> ""] \in TailRecs
    BY DEF TailRecs, Reasons
  <2> QED BY <1>3, <2>1 DEF TailEnds
<1>4. ASSUME tail' = [tail EXCEPT ![t].after = n, ![t].at = "loop"]
      PROVE  /\ tail' \in [Tails -> TailRecs]
             /\ tail'[t].at = "loop" /\ tail'[t].after = n
             /\ \A u \in Tails \ {t} : tail'[u] = tail[u]
  <2> DEFINE r == [[tail[t] EXCEPT !.after = n] EXCEPT !.at = "loop"]
  <2>1. tail' = [tail EXCEPT ![t] = r]
    BY <1>4
  <2>2. [tail[t] EXCEPT !.after = n] \in TailRecs
    BY <1>0 DEF TailRecs
  <2>3. r \in TailRecs /\ r.at = "loop" /\ r.after = n
    BY <1>0, <2>2 DEF TailRecs, Running
  <2> HIDE DEF r
  <2> QED BY <2>1, <2>3
<1> QED BY <1>1, <1>2, <1>3, <1>4

\* What a tail sends reaches the channel of the client that listens to it.
LEMMA Sending ==
  ASSUME chan \in [Tails -> Seq(Frames)], NEW t \in Tails, NEW id \in Nat, NEW k \in Kinds, Sends(t, id, k)
  PROVE  /\ chan' \in [Tails -> Seq(Frames)]
         /\ client.on = t => chan'[t] = Append(chan[t], [id |-> id, kind |-> k])
         /\ \A u \in Tails \ {t} : chan'[u] = chan[u]
<1>1. [id |-> id, kind |-> k] \in Frames
  BY DEF Frames
<1>2. Append(chan[t], [id |-> id, kind |-> k]) \in Seq(Frames)
  BY <1>1
<1> QED BY <1>2 DEF Sends

\* Nothing new for the client, who may leave.
LEMMA DeliveringStays ==
  ASSUME StreamMove, NEW t \in Tails, NEW n \in Nat, Delivering(t, n), chan'[t] = chan[t],
         tail'[t].at \in Running =>
            tail[t].at \in Running /\ tail'[t].after = tail[t].after
            /\ (tail'[t].at = "pulling" => chan[t] = <<>>)
  PROVE  Delivering(t, n)'
<1>1. \A f : Final(f) => Final(f)'
  BY AtEndStays DEF Final
<1>2. \A i : AtEnd(i) => AtEnd(i)'
  BY AtEndStays
<1>3. CASE chan[t] = <<>>
  BY <1>2, <1>3 DEF Delivering
<1>4. CASE chan[t] # <<>>
  BY <1>1, <1>4 DEF Delivering, Follows
<1> QED BY <1>3, <1>4

\* The last frame of a delivery.
LEMMA DeliveringEnds ==
  ASSUME StreamMove, NEW t \in Tails, NEW n \in Nat, NEW id \in Nat, Delivering(t, n),
         chan[t] \in Seq(Frames), tail[t].at \in Running,
         chan'[t] = Append(chan[t], [id |-> id, kind |-> "closed"]), id = 0 \/ AtEnd(id)',
         tail'[t].at \notin Running
  PROVE  Delivering(t, n)'
<1> DEFINE f == [id |-> id, kind |-> "closed"]
<1>1. Final(f)'
  BY DEF Final
<1>2. f.kind = "closed" /\ f \in Frames
  BY DEF Frames, Kinds
<1>3. chan'[t] = Append(chan[t], f)
  OBVIOUS
<1> HIDE DEF f
<1>4. CASE chan[t] = <<>>
  <2>1. Len(chan'[t]) = 1 /\ chan'[t][1] = f
    BY <1>2, <1>3, <1>4
  <2> QED BY <1>1, <2>1 DEF Delivering
<1>5. CASE Len(chan[t]) = 1 /\ Follows(chan[t][1], n)
  <2>1. Len(chan'[t]) = 2 /\ chan'[t][1] = chan[t][1] /\ chan'[t][2] = f
    BY <1>2, <1>3, <1>5
  <2> QED BY <1>1, <1>5, <2>1 DEF Delivering, Follows
<1> QED BY <1>4, <1>5 DEF Delivering

\* The next event goes out.
LEMMA DeliveringContent ==
  ASSUME NEW t \in Tails, NEW n \in Nat, NEW k \in Content, chan[t] = <<>>,
         chan'[t] = Append(chan[t], [id |-> n + 1, kind |-> k]),
         tail'[t].at = "loop", tail'[t].after = n + 1
  PROVE  Delivering(t, n)'
<1> DEFINE f == [id |-> n + 1, kind |-> k]
<1>1. f.kind = k /\ f.id = n + 1
  OBVIOUS
<1>2. chan'[t] = Append(chan[t], f)
  OBVIOUS
<1> HIDE DEF f
<1>3. Len(chan'[t]) = 1 /\ chan'[t][1] = f
  BY <1>2
<1> QED BY <1>1, <1>3 DEF Delivering, Follows

\* The step of one tail, as the client and the locks see it.
LEMMA DeliveryStep ==
  ASSUME Types, FreshInv, TxnOwner, TxnInv, OneTerminal, StreamMove, NEW t \in Tails, Delivery(t)
  PROVE  /\ tail' \in [Tails -> TailRecs] /\ chan' \in [Tails -> Seq(Frames)]
         /\ \A u \in Tails \ {t} : tail'[u] = tail[u] /\ chan'[u] = chan[u]
         /\ client' = client \/ client' = [client EXCEPT !.on = 0]
         /\ tail'[t].at = "committing" => TailCloseBegin(t)
         /\ tail[t].at = "committing" => TailCloseCommit(t)
         /\ tail[t].at \in Running
         /\ \A n \in Nat : client.on = t /\ client'.on = t /\ Delivering(t, n) => Delivering(t, n)'
<1> DEFINE Kept == \A n \in Nat : client.on = t /\ client'.on = t /\ Delivering(t, n) => Delivering(t, n)'
           Chans == chan' \in [Tails -> Seq(Frames)] /\ \A u \in Tails \ {t} : chan'[u] = chan[u]
           Shape == tail' \in [Tails -> TailRecs] /\ \A u \in Tails \ {t} : tail'[u] = tail[u]
           Goal == /\ Shape /\ Chans
                   /\ client' = client \/ client' = [client EXCEPT !.on = 0]
                   /\ tail'[t].at = "committing" => TailCloseBegin(t)
                   /\ tail[t].at = "committing" => TailCloseCommit(t)
                   /\ tail[t].at \in Running
                   /\ Kept
<1> SUFFICES Goal
  OBVIOUS
<1>0. /\ tail \in [Tails -> TailRecs] /\ chan \in [Tails -> Seq(Frames)] /\ events \in Seq(Kinds)
      /\ tail[t].after \in Nat /\ tail[t].why \in Reasons /\ High \in Nat
  <2>1. tail \in [Tails -> TailRecs] /\ chan \in [Tails -> Seq(Frames)] /\ events \in Seq(Kinds)
    BY DEF Types
  <2>2. tail[t] \in TailRecs
    BY <2>1
  <2> QED BY <2>1, <2>2 DEF TailRecs, High
<1>c. chan' = chan => Chans
  BY <1>0
\* A step after which the tail goes on, or stops, and sends nothing.
<1>k. ASSUME chan' = chan, tail'[t].at \in Running =>
                tail[t].at \in Running /\ tail'[t].after = tail[t].after
                /\ (tail'[t].at = "pulling" => chan[t] = <<>>)
      PROVE  Kept
  BY <1>k, DeliveringStays
\* A step after which nothing follows.
<1>e. ASSUME NEW id \in Nat, Sends(t, id, "closed"), id = 0 \/ AtEnd(id)',
             tail[t].at \in Running, tail'[t].at \notin Running
      PROVE  Kept /\ Chans
  <2>1. "closed" \in Kinds /\ chan[t] \in Seq(Frames)
    BY <1>0 DEF Kinds
  <2>2. Chans /\ (client.on = t => chan'[t] = Append(chan[t], [id |-> id, kind |-> "closed"]))
    BY <1>0, <1>e, <2>1, Sending
  <2> QED BY <1>e, <2>1, <2>2, DeliveringEnds
<1>d. "done" \in Running \cup {"off", "done"} /\ "done" \notin Running /\ "off" \notin Running
      /\ "" \in Reasons /\ 0 \in Nat /\ "loop" \in Running /\ "closing" \in Running
      /\ "pulling" \in Running /\ "committing" \in Running
  BY DEF Running, Reasons
<1>T. TailEnds(t) => Shape /\ tail'[t].at = "done"
  BY <1>0, <1>d, TailShapes
<1>1. CASE TailStops(t)
  <2>1. Closes(t, "cancelled") \/ Closes(t, "token_expired")
    BY <1>1 DEF TailStops
  <2>2. "cancelled" \in Reasons /\ "token_expired" \in Reasons
    BY DEF Reasons
  <2>3. Shape /\ tail'[t].at = "closing" /\ tail'[t].after = tail[t].after
    BY <1>0, <1>d, <2>1, <2>2, TailShapes
  <2> QED BY <1>1, <1>c, <1>d, <1>k, <2>3 DEF TailStops
<1>2. CASE TailReserves(t)
  <2>1. Shape /\ tail'[t].at = "pulling" /\ tail'[t].after = tail[t].after
    BY <1>0, <1>2, <1>d, TailShapes DEF TailReserves
  <2> QED BY <1>2, <1>c, <1>d, <1>k, <2>1 DEF TailReserves
<1>3. CASE TailLosesClient(t)
  <2>1. Shape /\ tail'[t].at = "done"
    BY <1>3, <1>T DEF TailLosesClient
  <2>2. CASE UNCHANGED chan
    BY <1>3, <1>c, <1>d, <1>k, <2>1, <2>2 DEF TailLosesClient
  <2>3. CASE Sends(t, 0, "closed")
    BY <1>3, <1>e, <1>d, <2>1, <2>3 DEF TailLosesClient
  <2> QED BY <1>3, <2>2, <2>3 DEF TailLosesClient
<1>4. CASE PullRefused(t)
  <2>1. FirstRefusal(FenceRefusal, "stream_error") \in Reasons
    BY DEF FirstRefusal, FenceRefusal, Reasons
  <2>2. Shape /\ tail'[t].at = "closing" /\ tail'[t].after = tail[t].after
    BY <1>0, <1>4, <1>d, <2>1, TailShapes DEF PullRefused
  <2> QED BY <1>4, <1>c, <1>d, <1>k, <2>2 DEF PullRefused
<1>5. CASE PullEvent(t)
  <2> DEFINE next == tail[t].after + 1
  <2>0. /\ tail[t].at = "pulling" /\ client' = client /\ row' = row /\ events' = events
        /\ row.status # "purged" /\ next \in Nat
    BY <1>0, <1>5 DEF PullEvent, Readable
  <2>1. CASE Closes(t, "session_expired") /\ UNCHANGED chan
    <3>1. "session_expired" \in Reasons
      BY DEF Reasons
    <3>2. Shape /\ tail'[t].at = "closing" /\ tail'[t].after = tail[t].after
      BY <1>0, <1>d, <2>1, <3>1, TailShapes
    <3> QED BY <1>c, <1>d, <1>k, <2>0, <2>1, <3>2
  <2>2. CASE (Goes(t, "loop") \/ TailEnds(t)) /\ UNCHANGED chan
    <3>1. /\ Shape
          /\ \/ tail'[t].at = "loop" /\ tail'[t].after = tail[t].after
             \/ tail'[t].at = "done"
      BY <1>0, <1>d, <1>T, <2>2, TailShapes
    <3> QED BY <1>c, <1>d, <1>k, <2>0, <2>2, <3>1
  <2>3. CASE next <= High /\ Sends(t, next, events[next]) /\ events[next] = "closed" /\ TailEnds(t)
    <3>1. Shape /\ tail'[t].at = "done"
      BY <1>T, <2>3
    <3>2. HasTerminal /\ next = High
      BY <1>0, <2>0, <2>3 DEF HasTerminal, OneTerminal
    <3>3. row.status \in {"closed", "error"}
      <4>1. row.status # "none"
        BY <1>0, <2>0, <2>3 DEF FreshInv, High
      <4>2. row.status # "open"
        BY <3>2 DEF OneTerminal
      <4>3. row.status \in {"none", "open", "closed", "error", "purged"}
        BY DEF Types, RowRecs
      <4> QED BY <2>0, <4>1, <4>2, <4>3
    <3>4. PICK i \in Nat : i = next
      BY <2>0
    <3>5. AtEnd(i)'
      BY <2>0, <3>2, <3>3, <3>4 DEF AtEnd, High
    <3>6. Sends(t, i, "closed") /\ tail'[t].at \notin Running
      BY <1>d, <2>3, <3>1, <3>4
    <3> QED BY <1>d, <1>e, <2>0, <3>1, <3>5, <3>6
  <2>4. CASE /\ next <= High /\ Sends(t, next, events[next]) /\ events[next] # "closed"
             /\ tail' = [tail EXCEPT ![t].after = next, ![t].at = "loop"]
    <3>1. Shape /\ tail'[t].at = "loop" /\ tail'[t].after = next
      BY <1>0, <1>d, <2>0, <2>4, TailShapes
    <3>2. events[next] \in Content
      BY <1>0, <2>0, <2>4 DEF Kinds, High
    <3>3. events[next] \in Kinds
      BY <3>2 DEF Kinds
    <3>4. Chans /\ (client.on = t => chan'[t] = Append(chan[t], [id |-> next, kind |-> events[next]]))
      BY <1>0, <2>0, <2>4, <3>3, Sending
    <3>5. ASSUME NEW n \in Nat, client.on = t, Delivering(t, n) PROVE Delivering(t, n)'
      <4>1. chan[t] = <<>> /\ (tail[t].after = n \/ AtEnd(tail[t].after))
        BY <1>d, <2>0, <3>5 DEF Delivering
      <4>2. ~ AtEnd(tail[t].after)
        BY <1>0, <2>0, <2>4 DEF AtEnd
      <4>3. tail[t].after = n
        BY <4>1, <4>2
      <4>4. PICK k \in Content : k = events[next]
        BY <3>2
      <4>5. chan'[t] = Append(chan[t], [id |-> n + 1, kind |-> k]) /\ tail'[t].at = "loop" /\ tail'[t].after = n + 1
        BY <3>1, <3>4, <3>5, <4>3, <4>4
      <4> HIDE DEF next
      <4> QED BY <4>1, <4>5, DeliveringContent
    <3> QED BY <1>d, <2>0, <3>1, <3>4, <3>5
  <2> QED BY <1>5, <2>1, <2>2, <2>3, <2>4 DEF PullEvent
<1>6. CASE TailTimesOut(t)
  <2>1. Shape /\ tail'[t].at = "done"
    BY <1>6, <1>T DEF TailTimesOut
  <2> QED BY <1>6, <1>d, <1>e, <2>1 DEF TailTimesOut
<1>7. CASE TailCloseBegin(t)
  <2>1. Shape /\ tail'[t].at = "committing" /\ tail'[t].after = tail[t].after
    BY <1>0, <1>7, <1>d, TailShapes DEF TailCloseBegin
  <2> QED BY <1>7, <1>c, <1>d, <1>k, <2>1 DEF TailCloseBegin
<1>8. CASE TailCloseCommit(t)
  <2>1. Shape /\ tail'[t].at = "done" /\ client' = client /\ tail[t].at = "committing"
    BY <1>8, <1>T DEF TailCloseCommit
  <2>2. CASE StillFits /\ events' = Appended /\ row' = RowAfterAppend /\ Sends(t, txn.seq, "closed")
    <3>1. txn.by = TailNames[t] /\ txn.kind = "closed"
      BY <2>1 DEF TxnOwner
    <3>2. txn.by # "nobody"
      BY <3>1 DEF Tails, TailNames
    <3>3. txn \in TxnRecs /\ row \in RowRecs
      BY <3>2, HeldTxn DEF Types
    <3>4. row'.status \in {"closed", "error"}
      BY <2>2, <3>1, <3>3, RowAppends
    <3>5. "closed" \in Kinds
      BY DEF Kinds
    <3>6. High' = High + 1 /\ txn.seq = High + 1
      BY <1>0, <2>2, <3>1, <3>5 DEF StillFits, Appended, High
    <3>7. PICK i \in Nat : i = txn.seq
      BY <1>0, <3>6
    <3>8. AtEnd(i)'
      BY <3>4, <3>6, <3>7 DEF AtEnd
    <3>9. Sends(t, i, "closed") /\ tail'[t].at \notin Running
      BY <1>d, <2>1, <2>2, <3>7
    <3>10. Kept /\ Chans
      BY <1>d, <1>e, <2>1, <3>8, <3>9
    <3> QED BY <1>8, <1>d, <2>1, <3>10
  <2>3. CASE Sends(t, 0, "closed")
    BY <1>d, <1>e, <1>8, <2>1, <2>3
  <2> QED BY <1>8, <2>2, <2>3 DEF TailCloseCommit
<1>9. CASE TailCloseFallback(t)
  <2>1. Shape /\ tail'[t].at = "done" /\ client' = client /\ tail[t].at = "closing"
    BY <1>9, <1>T DEF TailCloseFallback
  <2> DEFINE id == IF Revalidates(t) /\ SameReason(t) THEN High ELSE 0
  <2>2. id \in Nat /\ Sends(t, id, "closed")
    BY <1>0, <1>9 DEF TailCloseFallback
  <2>3. id = 0 \/ AtEnd(id)
    BY DEF SameReason, AtEnd
  <2> HIDE DEF id
  <2>4. PICK i \in Nat : i = id
    BY <2>2
  <2>5. Sends(t, i, "closed") /\ (i = 0 \/ AtEnd(i)) /\ tail'[t].at \notin Running
    BY <1>d, <2>1, <2>2, <2>3, <2>4
  <2>6. i = 0 \/ AtEnd(i)'
    BY <2>5, AtEndStays
  <2>7. Kept /\ Chans
    BY <1>d, <1>e, <2>1, <2>5, <2>6
  <2> QED BY <1>d, <2>1, <2>7
<1> HIDE DEF Goal
<1> QED BY <1>1, <1>2, <1>3, <1>4, <1>5, <1>6, <1>7, <1>8, <1>9 DEF Delivery

LEMMA TailOfShort ==
  ASSUME NEW s \in Seq(Frames)
  PROVE  (Len(s) = 1 => Tail(s) = <<>>) /\ (Len(s) = 2 => Len(Tail(s)) = 1 /\ Tail(s)[1] = s[2])
<1>1. CASE Len(s) = 1
  <2>1. ASSUME s = <<>> PROVE FALSE
    <3>1. Len(<<>>) = 0
      BY EmptySeq
    <3> QED BY <1>1, <2>1, <3>1
  <2>2. Tail(s) \in Seq(Frames) /\ Len(Tail(s)) = Len(s) - 1
    BY <2>1, HeadTailProperties
  <2>3. Len(Tail(s)) = 0
    BY <1>1, <2>2
  <2>4. Tail(s) = <<>>
    BY <2>2, <2>3, EmptySeq, Zenon
  <2> QED BY <1>1, <2>4
<1>2. CASE Len(s) = 2
  BY <1>2
<1> QED BY <1>1, <1>2

\* What the client has after a step, by the names of the values.
LEMMA ClientFrom ==
  ASSUME NEW m \in Nat, NEW d \in Nat, NEW o \in Tails \cup {0},
         client'.got = 1..m, client'.cursor = d, d = m \/ AtEnd(d)',
         client'.on = o, o \in Tails => Delivering(o, m)'
  PROVE  ClientInv'
<1>1. (client.cursor = m)' \/ AtEnd(client.cursor)'
  BY DEF AtEnd
<1>2. ASSUME client'.on # 0 PROVE Delivering(client.on, m)'
  BY <1>2 DEF Delivering, Final, Follows, AtEnd
<1> QED BY <1>1, <1>2 DEF ClientInv

\* Whatever happens, the client has the first so many events and the way to
\* the rest.
LEMMA ClientInvStep ==
  ASSUME Types, FreshInv, TxnOwner, TxnInv, OneTerminal, ClientInv, StreamMove, [Next]_vars
  PROVE  ClientInv'
<1>0. /\ tail \in [Tails -> TailRecs] /\ chan \in [Tails -> Seq(Frames)] /\ events \in Seq(Kinds)
      /\ client \in [on : Tails \cup {0}, cursor : Nat, got : SUBSET Nat] /\ 0 \notin Tails
  BY DEF Types, Tails
<1>1. PICK n \in Nat : /\ client.got = 1..n
                       /\ client.cursor = n \/ AtEnd(client.cursor)
                       /\ client.on # 0 => Delivering(client.on, n)
  BY DEF ClientInv
<1>2. PICK c \in Nat : c = client.cursor
  BY <1>0
<1>3. c = n \/ AtEnd(c)'
  BY <1>1, <1>2, AtEndStays
\* It is enough that the client keeps what it has.
<1>k. ASSUME client'.got = client.got, client'.cursor = client.cursor,
             \A t \in Tails : client'.on = t => Delivering(t, n)', client'.on \in Tails \cup {0}
      PROVE  ClientInv'
  <2>1. client'.got = 1..n /\ client'.cursor = c
    BY <1>1, <1>2, <1>k
  <2>2. PICK o \in Tails \cup {0} : o = client'.on
    BY <1>k
  <2>3. o \in Tails => Delivering(o, n)'
    BY <1>k, <2>2
  <2> QED BY <1>3, <2>1, <2>2, <2>3, ClientFrom
<1>s. ASSUME NEW t \in Tails, client.on = t, tail'[t] = tail[t], chan'[t] = chan[t] PROVE Delivering(t, n)'
  <2>1. Delivering(t, n)
    BY <1>0, <1>1, <1>s
  <2>2. tail[t].at = "pulling" => chan[t] = <<>>
    BY <2>1 DEF Delivering, Running
  <2> QED BY <1>s, <2>1, <2>2, DeliveringStays
<1>4. CASE UNCHANGED <<tail, chan, client>>
  BY <1>0, <1>k, <1>s, <1>4
<1>5. ASSUME NEW t \in Tails, Delivery(t) PROVE ClientInv'
  <2>1. /\ \A u \in Tails \ {t} : tail'[u] = tail[u] /\ chan'[u] = chan[u]
        /\ client' = client \/ client' = [client EXCEPT !.on = 0]
        /\ client.on = t /\ client'.on = t /\ Delivering(t, n) => Delivering(t, n)'
    BY <1>5, DeliveryStep
  <2>2. CASE client' = [client EXCEPT !.on = 0]
    <3>1. client'.got = client.got /\ client'.cursor = client.cursor /\ client'.on = 0
      BY <1>0, <2>2
    <3> QED BY <1>0, <1>k, <3>1
  <2>3. CASE client' = client
    <3>1. ASSUME NEW u \in Tails, client'.on = u PROVE Delivering(u, n)'
      <4>1. CASE u = t
        BY <1>0, <1>1, <2>1, <2>3, <3>1, <4>1
      <4>2. CASE u # t
        BY <1>s, <2>1, <2>3, <3>1, <4>2
      <4> QED BY <4>1, <4>2
    <3> QED BY <1>0, <1>k, <2>3, <3>1
  <2> QED BY <2>1, <2>2, <2>3
<1>6. CASE CreateSession
  <2>1. /\ client = [on |-> 0, cursor |-> 0, got |-> {}]
        /\ tail[1].after = 0 /\ chan[1] = <<>>
    BY <1>6 DEF CreateSession, FreshInv, Fresh, Tails
  <2>2. PICK a \in {"loop", "done"}, o \in {0, 1} :
           tail' = [tail EXCEPT ![1].at = a] /\ client' = [client EXCEPT !.on = o] /\ chan' = chan
    BY <1>6 DEF CreateSession
  <2>3. client'.got = {} /\ client'.cursor = 0 /\ client'.on = o
    BY <2>1, <2>2
  <2>4. 1 \in Tails /\ a \in Running \cup {"off", "done"}
    BY DEF Tails, Running
  <2>5. tail'[1].after = 0 /\ chan'[1] = <<>>
    <3>1. Goes(1, a)
      BY <2>2 DEF Goes
    <3>2. "" \in Reasons /\ 0 \in Nat
      BY DEF Reasons
    <3> QED BY <1>0, <2>1, <2>2, <2>4, <3>1, <3>2, TailShapes
  <2>6. Delivering(1, 0)'
    BY <2>5 DEF Delivering
  <2>7. 0 \in Nat /\ 1..0 = {}
    OBVIOUS
  <2>8. o \in Tails \cup {0} /\ (o \in Tails => Delivering(o, 0)')
    BY <1>0, <2>6 DEF Tails
  <2>9. client'.got = 1..0 /\ client'.cursor = 0
    BY <2>3, <2>7
  <2> QED BY <2>3, <2>7, <2>8, <2>9, ClientFrom
<1>7. CASE Receive
  <2> DEFINE t == client.on
             frame == Head(chan[t])
  <2>0. t \in Tails /\ chan[t] # <<>> /\ chan[t] \in Seq(Frames)
    BY <1>0, <1>7 DEF Receive
  <2>1. /\ client' = [client EXCEPT !.cursor = IF frame.id > 0 THEN frame.id ELSE @,
                                    !.got = IF frame.kind \in Content THEN @ \cup {frame.id} ELSE @]
        /\ chan' = [chan EXCEPT ![t] = Tail(@)] /\ UNCHANGED <<row, events, tail>>
    BY <1>7 DEF Receive
  <2>2. /\ client'.cursor = IF frame.id > 0 THEN frame.id ELSE c
        /\ client'.got = IF frame.kind \in Content THEN (1..n) \cup {frame.id} ELSE 1..n
        /\ client'.on = t /\ chan'[t] = Tail(chan[t]) /\ tail' = tail
    BY <1>0, <1>1, <1>2, <2>0, <2>1
  <2>3. frame = chan[t][1] /\ frame \in Frames
    BY <2>0
  <2>4. PICK i \in Nat : i = frame.id
    BY <2>3 DEF Frames
  <2>d. Delivering(t, n)
    BY <1>0, <1>1, <2>0
  <2>e. \A f : Final(f) => Final(f)'
    BY AtEndStays DEF Final
  <2>f. "closed" \notin Content
    BY DEF Content
  <2>t. PICK tt \in Tails : tt = t
    BY <2>0
  <2>r. chan'[tt] = Tail(chan[tt]) /\ tail'[tt] = tail[tt] /\ Delivering(tt, n) /\ chan[tt] \in Seq(Frames)
    BY <2>0, <2>2, <2>d, <2>t
  <2>o. tt \in Tails \cup {0} /\ client'.on = tt
    BY <2>2, <2>t
  <2> HIDE DEF t, frame
  <2>5. CASE Follows(frame, n)
    <3>1. i = n + 1 /\ client'.got = (1..n) \cup {n + 1} /\ client'.cursor = n + 1
      BY <2>2, <2>4, <2>5 DEF Follows
    <3>2. client'.got = 1..(n + 1)
      BY <3>1
    <3>3. Delivering(tt, n + 1)'
      <4>1. CASE Len(chan[tt]) = 1 /\ (tail[tt].at \in Running => tail[tt].after = n + 1)
        <5>1. chan'[tt] = <<>>
          BY <2>r, <4>1, TailOfShort
        <5> QED BY <2>r, <4>1, <5>1 DEF Delivering
      <4>2. CASE Len(chan[tt]) = 2 /\ Final(chan[tt][2]) /\ tail[tt].at \notin Running
        <5>1. Len(chan'[tt]) = 1 /\ chan'[tt][1] = chan[tt][2]
          BY <2>r, <4>2, TailOfShort
        <5>2. PICK f : f = chan[tt][2]
          OBVIOUS
        <5>3. Final(f)'
          BY <2>e, <4>2, <5>2
        <5>4. Final(chan[tt][1])'
          BY <5>1, <5>2, <5>3 DEF Final, AtEnd
        <5> QED BY <2>r, <4>2, <5>1, <5>4 DEF Delivering
      <4>3. chan[tt][1].kind # "closed"
        BY <2>3, <2>5, <2>f, <2>t DEF Follows
      <4> QED BY <2>0, <2>r, <2>t, <4>1, <4>2, <4>3 DEF Delivering, Final
    <3>4. PICK m \in Nat : m = n + 1
      OBVIOUS
    <3>5. Delivering(tt, m)'
      BY <3>3, <3>4 DEF Delivering, Follows
    <3> QED BY <2>o, <3>1, <3>2, <3>4, <3>5, ClientFrom
  <2>6. CASE Final(frame)
    <3>1. client'.got = 1..n /\ (i = 0 \/ AtEnd(i)) /\ client'.cursor = IF i > 0 THEN i ELSE c
      BY <2>2, <2>4, <2>6, <2>f DEF Final
    <3>2. (i = 0 \/ AtEnd(i)') /\ client'.on = tt
      BY <2>2, <2>t, <3>1, AtEndStays
    <3>3. PICK d \in Nat : d = client'.cursor
      BY <3>1
    <3>9. d = n \/ AtEnd(d)'
      <4>1. CASE i > 0
        <5>1. d = i /\ i # 0
          BY <3>1, <3>3, <4>1
        <5> QED BY <3>2, <5>1
      <4>2. CASE ~ (i > 0)
        <5>1. d = c
          BY <3>1, <3>3, <4>2
        <5> QED BY <1>3, <5>1
      <4> QED BY <4>1, <4>2
    <3>4. chan[tt][1].kind = "closed"
      BY <2>3, <2>6, <2>t DEF Final
    <3>5. Len(chan[tt]) = 1 /\ tail[tt].at \notin Running
      BY <2>0, <2>f, <2>r, <2>t, <3>4 DEF Delivering, Follows
    <3>6. chan'[tt] = <<>>
      BY <2>r, <3>5, TailOfShort
    <3>7. Delivering(tt, n)'
      BY <2>r, <3>5, <3>6 DEF Delivering
    <3> QED BY <2>o, <3>1, <3>3, <3>7, <3>9, ClientFrom
  <2> QED BY <2>0, <2>3, <2>5, <2>6, <2>r, <2>t DEF Delivering
<1>8. CASE Resume
  <2>1. /\ tail' = [tail EXCEPT ![2] = [at |-> "loop", after |-> c, why |-> ""]]
        /\ client' = [client EXCEPT !.on = 2] /\ chan' = [t \in Tails |-> <<>>]
    BY <1>2, <1>8 DEF Resume, ResumesAfter
  <2>2. /\ client'.got = client.got /\ client'.cursor = client.cursor /\ client'.on = 2
        /\ tail'[2].after = c /\ chan'[2] = <<>> /\ 2 \in Tails
    BY <1>0, <2>1 DEF Tails
  <2>3. (tail[2].after = n)' \/ AtEnd(tail[2].after)'
    BY <1>3, <2>2 DEF AtEnd
  <2>4. Delivering(2, n)'
    BY <2>2, <2>3 DEF Delivering
  <2> QED BY <1>k, <2>2, <2>4
<1>9. CASE Crash
  <2>1. client'.got = client.got /\ client'.cursor = client.cursor /\ client'.on = 0
    BY <1>0, <1>9 DEF Crash
  <2> QED BY <1>0, <1>k, <2>1
<1> QED
  BY <1>4, <1>5, <1>6, <1>7, <1>8, <1>9
  DEF Next, Producer, Client, Others, vars, ReserveTokens, CreateSessionFails, AppendBegin, AppendRefused,
      AppendCommit, AppendAborts, TokenArrives, StreamEnds, CallFails, CallReturns, KeepAlive, Settle, EmitNext,
      CloseBegin, CloseGivesUp, CloseCommit, ClaimsExpire, Revoke, SessionExpires, LeaseLapses, Recover, Purge,
      ReservationExpires, BackupStarts, BackupEnds, ClearFence

-----------------------------------------------------------------------------
(* The other variables.                                                    *)

ClientRecs == [on : Tails \cup {0}, cursor : Nat, got : SUBSET Nat]

\* Outside the deliveries a tail only starts, restarts or dies.
LEMMA TailsElsewhere ==
  ASSUME Types, FreshInv, [Next]_vars, \A t \in Tails : ~ Delivery(t)
  PROVE  /\ tail' \in [Tails -> TailRecs] /\ chan' \in [Tails -> Seq(Frames)] /\ client' \in ClientRecs
         /\ \A t \in Tails : tail'[t].at = "committing" => tail'[t] = tail[t]
         /\ \A t \in Tails : tail[t].at = "committing" => tail'[t] = tail[t] \/ Crash
<1> DEFINE Goal == /\ tail' \in [Tails -> TailRecs] /\ chan' \in [Tails -> Seq(Frames)] /\ client' \in ClientRecs
                   /\ \A t \in Tails : tail'[t].at = "committing" => tail'[t] = tail[t]
                   /\ \A t \in Tails : tail[t].at = "committing" => tail'[t] = tail[t] \/ Crash
<1> SUFFICES Goal
  OBVIOUS
<1>0. /\ tail \in [Tails -> TailRecs] /\ chan \in [Tails -> Seq(Frames)] /\ client \in ClientRecs
      /\ "" \in Reasons /\ 0 \in Nat /\ 1 \in Tails /\ 2 \in Tails
      /\ "loop" \in Running \cup {"off", "done"} /\ "done" \in Running \cup {"off", "done"}
      /\ "off" \in Running \cup {"off", "done"}
  BY DEF Types, ClientRecs, Reasons, Tails, Running
<1>e. [t \in Tails |-> <<>>] \in [Tails -> Seq(Frames)]
  OBVIOUS
<1>1. CASE UNCHANGED <<tail, chan, client>>
  BY <1>0, <1>1
<1>2. CASE CreateSession
  <2>1. PICK a \in {"loop", "done"}, o \in {0, 1} :
           tail' = [tail EXCEPT ![1].at = a] /\ client' = [client EXCEPT !.on = o] /\ chan' = chan
    BY <1>2 DEF CreateSession
  <2>2. a \in Running \cup {"off", "done"} /\ o \in Tails \cup {0} /\ a # "committing"
    BY <1>0 DEF Tails
  <2>3. Goes(1, a)
    BY <2>1 DEF Goes
  <2>4. /\ tail' \in [Tails -> TailRecs] /\ tail'[1].at = a
        /\ \A u \in Tails \ {1} : tail'[u] = tail[u]
    BY <1>0, <2>2, <2>3, TailShapes
  <2>5. client' \in ClientRecs
    BY <1>0, <2>1, <2>2 DEF ClientRecs
  <2>6. tail[1].at = "off"
    BY <1>0, <1>2 DEF CreateSession, FreshInv, Fresh
  <2> QED BY <1>0, <2>1, <2>2, <2>4, <2>5, <2>6
<1>3. CASE Receive
  <2> DEFINE t == client.on
             frame == Head(chan[t])
  <2>0. t \in Tails /\ chan[t] # <<>> /\ chan[t] \in Seq(Frames)
    BY <1>0, <1>3 DEF Receive, ClientRecs
  <2>1. /\ client' = [client EXCEPT !.cursor = IF frame.id > 0 THEN frame.id ELSE @,
                                    !.got = IF frame.kind \in Content THEN @ \cup {frame.id} ELSE @]
        /\ chan' = [chan EXCEPT ![t] = Tail(@)] /\ tail' = tail
    BY <1>3 DEF Receive
  <2>2. frame \in Frames /\ Tail(chan[t]) \in Seq(Frames)
    BY <2>0, HeadTailProperties
  <2>3. frame.id \in Nat
    BY <2>2 DEF Frames
  <2> HIDE DEF frame
  <2> DEFINE cur == IF frame.id > 0 THEN frame.id ELSE client.cursor
             got == IF frame.kind \in Content THEN client.got \cup {frame.id} ELSE client.got
  <2>4. cur \in Nat /\ got \in SUBSET Nat
    BY <1>0, <2>3 DEF ClientRecs
  <2>5. client' = [client EXCEPT !.cursor = cur, !.got = got]
    BY <1>0, <2>1 DEF ClientRecs
  <2> HIDE DEF cur, got
  <2>6. client' \in ClientRecs
    BY <1>0, <2>4, <2>5 DEF ClientRecs
  <2> QED BY <1>0, <2>0, <2>1, <2>2, <2>6
<1>4. CASE Resume
  <2> DEFINE r == [at |-> "loop", after |-> client.cursor, why |-> ""]
  <2>1. /\ tail' = [tail EXCEPT ![2] = r] /\ tail[2].at \in {"off", "done"}
        /\ client' = [client EXCEPT !.on = 2] /\ chan' = [t \in Tails |-> <<>>]
    BY <1>4 DEF Resume, ResumesAfter
  <2>2. r \in TailRecs /\ r.at = "loop"
    BY <1>0 DEF TailRecs, ClientRecs
  <2>3. client' \in ClientRecs
    BY <1>0, <2>1 DEF ClientRecs
  <2> HIDE DEF r
  <2> QED BY <1>0, <1>e, <2>1, <2>2, <2>3
<1>5. CASE Crash
  <2>1. /\ tail' = [t \in Tails |-> [tail[t] EXCEPT !.at = IF @ = "off" THEN "off" ELSE "done"]]
        /\ client' = [client EXCEPT !.on = 0] /\ chan' = [t \in Tails |-> <<>>]
    BY <1>5 DEF Crash
  <2>2. ASSUME NEW t \in Tails PROVE tail'[t] \in TailRecs /\ tail'[t].at # "committing"
    <3>1. PICK a \in {"off", "done"} : tail'[t] = [tail[t] EXCEPT !.at = a]
      BY <2>1
    <3>2. tail[t] \in TailRecs /\ a \in Running \cup {"off", "done"}
      BY <1>0
    <3>3. [tail[t] EXCEPT !.at = a] \in TailRecs /\ [tail[t] EXCEPT !.at = a].at = a
      BY <3>2 DEF TailRecs
    <3> QED BY <3>1, <3>3
  <2>3. tail' \in [Tails -> TailRecs]
    BY <2>1, <2>2
  <2>4. client' \in ClientRecs
    BY <1>0, <2>1 DEF ClientRecs
  <2> QED BY <1>5, <1>e, <2>1, <2>2, <2>3, <2>4
<1> HIDE DEF Goal
<1> QED
  BY <1>1, <1>2, <1>3, <1>4, <1>5
  DEF Next, Producer, Client, Others, vars, ReserveTokens, CreateSessionFails, AppendBegin, AppendRefused,
      AppendCommit, AppendAborts, TokenArrives, StreamEnds, CallFails, CallReturns, KeepAlive, Settle, EmitNext,
      CloseBegin, CloseGivesUp, CloseCommit, ClaimsExpire, Revoke, SessionExpires, LeaseLapses, Recover, Purge,
      ReservationExpires, BackupStarts, BackupEnds, ClearFence

\* A tail that commits its end has the transaction until it is over.
LEMMA TailStep ==
  ASSUME Types, FreshInv, TxnOwner, TxnInv, OneTerminal, StreamMove, [Next]_vars
  PROVE  /\ tail' \in [Tails -> TailRecs] /\ chan' \in [Tails -> Seq(Frames)] /\ client' \in ClientRecs
         /\ \A t \in Tails : tail'[t].at = "committing" =>
                TailCloseBegin(t) \/ (tail[t].at = "committing" /\ ~ TailCloseCommit(t) /\ ~ Crash)
         /\ \A t \in Tails : tail[t].at = "committing" =>
                tail'[t].at = "committing" \/ TailCloseCommit(t) \/ Crash
<1>0. client \in ClientRecs
  BY DEF Types, ClientRecs
<1>c. Crash => \A t \in Tails : tail'[t].at # "committing"
  <2>1. ASSUME Crash, NEW t \in Tails PROVE tail'[t].at # "committing"
    <3>1. PICK a \in {"off", "done"} : tail'[t] = [tail[t] EXCEPT !.at = a]
      BY <2>1 DEF Crash
    <3>2. tail[t] \in TailRecs
      BY DEF Types
    <3>3. [tail[t] EXCEPT !.at = a].at = a
      BY <3>2 DEF TailRecs
    <3> QED BY <3>1, <3>3
  <2> QED BY <2>1
<1>e. ASSUME NEW t \in Tails, TailCloseCommit(t) PROVE tail'[t].at # "committing"
  <2>1. tail' = [tail EXCEPT ![t] = [at |-> "done", after |-> 0, why |-> ""]] /\ tail \in [Tails -> TailRecs]
    BY <1>e DEF TailCloseCommit, TailEnds, Types
  <2> QED BY <2>1
<1>1. CASE \A t \in Tails : ~ Delivery(t)
  BY <1>1, <1>c, <1>e, TailsElsewhere
<1>2. ASSUME NEW t \in Tails, Delivery(t)
      PROVE  /\ tail' \in [Tails -> TailRecs] /\ chan' \in [Tails -> Seq(Frames)] /\ client' \in ClientRecs
             /\ \A u \in Tails \ {t} : tail'[u] = tail[u]
             /\ tail'[t].at = "committing" => TailCloseBegin(t)
             /\ tail[t].at = "committing" => TailCloseCommit(t)
  <2>1. client' = client \/ client' = [client EXCEPT !.on = 0]
    BY <1>2, DeliveryStep
  <2>2. client' \in ClientRecs
    BY <1>0, <2>1 DEF ClientRecs
  <2> QED BY <1>2, <2>2, DeliveryStep
<1> QED BY <1>1, <1>2, <1>c, <1>e

LEMMA TxnOwnerStep ==
  ASSUME Types, FreshInv, TxnOwner, TxnInv, OneTerminal, UsageInv, StreamMove, [Next]_vars
  PROVE  TxnOwner'
<1>0. /\ NoTxn.by = "nobody" /\ TailNames[1] = "tail1" /\ TailNames[2] = "tail2" /\ Tails = {1, 2}
  <2>1. NoTxn.by = "nobody"
    BY DEF NoTxn
  <2> QED BY <2>1 DEF TailNames, Tails
<1>n. \A t \in Tails : /\ TailNames[t] # "nobody" /\ TailNames[t] # "producer"
                       /\ \A u \in Tails : TailNames[u] = TailNames[t] => u = t
  BY <1>0
<1>b. ASSUME NEW t \in Tails, TailCloseBegin(t) PROVE txn.by = "nobody" /\ txn'.by = TailNames[t]
  BY <1>b DEF TailCloseBegin, LocksFree, BeginTxn
<1>e. ASSUME NEW t \in Tails, TailCloseCommit(t) PROVE txn' = NoTxn
  BY <1>e DEF TailCloseCommit
<1>c. Crash => txn' = NoTxn
  BY DEF Crash
<1>1. CASE txn' = txn
  <2>1. txn.by = "producer" => prod' = prod
    BY <1>1, ProdStep
  <2>2. ASSUME NEW t \in Tails PROVE (tail'[t].at = "committing") <=> (tail[t].at = "committing")
    <3>1. tail[t].at = "committing" => txn.by = TailNames[t]
      BY DEF TxnOwner
    <3>2. ~ TailCloseBegin(t)
      BY <1>0, <1>1, <1>b, <1>n
    <3>3. tail[t].at = "committing" => ~ TailCloseCommit(t) /\ ~ Crash
      BY <1>0, <1>1, <1>c, <1>e, <1>n, <3>1
    <3> QED BY <3>2, <3>3, TailStep
  <2> QED BY <1>1, <2>1, <2>2 DEF TxnOwner
<1>2. CASE txn' = NoTxn /\ txn # NoTxn
  <2>1. ASSUME NEW t \in Tails PROVE tail'[t].at # "committing"
    <3>1. ~ TailCloseBegin(t)
      BY <1>0, <1>2, <1>b, <1>n
    <3>2. ASSUME tail[t].at = "committing", ~ TailCloseCommit(t), ~ Crash PROVE FALSE
      <4>1. txn.by = TailNames[t]
        BY <3>2 DEF TxnOwner
      <4>2. ~ AppendCommit /\ ~ AppendAborts /\ ~ CloseCommit
        BY <1>n, <4>1 DEF AppendCommit, AppendAborts, CloseCommit
      <4>3. ASSUME NEW u \in Tails, TailCloseCommit(u) PROVE FALSE
        BY <1>n, <3>2, <4>1, <4>3 DEF TailCloseCommit, TxnOwner
      <4>4. ASSUME AppendBegin \/ CloseBegin \/ \E u \in Tails : TailCloseBegin(u) PROVE FALSE
        BY <1>n, <4>1, <4>4 DEF AppendBegin, CloseBegin, TailCloseBegin, LocksFree
      <4>5. txn' = txn
        BY <3>2, <4>2, <4>3, <4>4
        DEF Next, Producer, Client, Others, vars, ReserveTokens, CreateSession, CreateSessionFails, AppendRefused,
            TokenArrives, StreamEnds, CallFails, CallReturns, KeepAlive, Settle, EmitNext, Receive, Resume,
            CloseGivesUp, ClaimsExpire, Revoke, SessionExpires, LeaseLapses, Recover, Purge,
            ReservationExpires, BackupStarts, BackupEnds, ClearFence, Delivery, TailStops, TailReserves,
            TailLosesClient, PullRefused, PullEvent, TailTimesOut, TailCloseFallback
      <4> QED BY <1>2, <4>5
    <3> QED BY <3>1, <3>2, TailStep
  <2> QED BY <1>0, <1>2, <1>n, <2>1 DEF TxnOwner
<1>3. CASE Begins
  <2>0. txn.by = "nobody" /\ prod' = prod /\ \A t \in Tails : tail[t].at # "committing"
    BY <1>3, <1>n DEF Begins, TxnOwner
  <2>1. CASE txn'.by = "producer" /\ tail' = tail
    <3>0. \/ txn'.kind = "closed" /\ prod.at = "close"
          \/ prod.at \in Emitting /\ txn'.kind = Emits[prod.at]
      <4>1. ~ \E t \in Tails : txn'.by = TailNames[t]
        BY <1>n, <2>1
      <4> QED BY <1>3, <4>1 DEF Begins
    <3>1. \/ txn'.kind = "closed" /\ prod'.at = "close"
          \/ prod'.at \in Emitting /\ txn'.kind = Emits[prod'.at]
      BY <2>0, <3>0
    <3> QED BY <1>n, <2>0, <2>1, <3>1 DEF TxnOwner
  <2>2. ASSUME NEW t \in Tails, TailCloseBegin(t), txn'.by = TailNames[t], txn'.kind = "closed" PROVE TxnOwner'
    <3>1. tail'[t].at = "committing"
      <4>1. tail' = [tail EXCEPT ![t].at = "committing"] /\ tail \in [Tails -> TailRecs]
        BY <2>2 DEF TailCloseBegin, Goes, Types
      <4>2. Goes(t, "committing") /\ "committing" \in Running \cup {"off", "done"} /\ "" \in Reasons /\ 0 \in Nat
        BY <2>2 DEF TailCloseBegin, Running, Reasons
      <4> QED BY <4>1, <4>2, TailShapes
    <3>2. \A u \in Tails \ {t} : tail'[u].at # "committing"
      <4>1. ASSUME NEW u \in Tails \ {t}, tail'[u].at = "committing" PROVE FALSE
        <5>1. TailCloseBegin(u)
          BY <2>0, <4>1, TailStep
        <5> QED BY <1>b, <1>n, <2>2, <4>1, <5>1
      <4> QED BY <4>1
    <3> QED BY <1>n, <2>2, <3>1, <3>2 DEF TxnOwner
  <2> QED BY <1>3, <2>1, <2>2 DEF Begins
<1> QED BY <1>1, <1>2, <1>3, TxnStep

LEMMA FreshInvStep ==
  ASSUME Types, FreshInv, TxnOwner, TxnInv, OneTerminal, UsageInv, StreamMove, [Next]_vars
  PROVE  FreshInv'
<1>1. row'.status = "none" => events' = <<>>
  BY DEF StreamMove, FreshInv
<1>2. ASSUME prod'.at \in Fresh
      PROVE  row'.status = "none" /\ UNCHANGED <<tail, chan, client>> /\ prod.at \in Fresh
  <2>1. prod.at \in Fresh
    BY <1>2, ProdStep DEF Fresh
  <2>2. /\ row.status = "none" /\ client.on = 0
        /\ \A t \in Tails : tail[t].at = "off"
    BY <2>1 DEF FreshInv
  <2>3. ASSUME NEW t \in Tails, Delivery(t) PROVE FALSE
    <3>1. tail[t].at \in Running
      BY <2>3, DeliveryStep
    <3> QED BY <2>2, <3>1 DEF Running
  <2>4. ~ CreateSession /\ ~ Crash
    <3>1. ASSUME CreateSession PROVE FALSE
      <4>1. prod' = [prod EXCEPT !.at = "start"] /\ prod \in ProdRecs /\ "start" \in ProdSteps
        BY <3>1 DEF CreateSession, Types, ProdSteps, Emitting
      <4>2. prod'.at = "start"
        BY <4>1, AtType
      <4> QED BY <1>2, <4>2 DEF Fresh
    <3>2. ASSUME Crash PROVE FALSE
      <4>1. prod' = Ended(prod, "dead") /\ prod \in ProdRecs /\ "dead" \in ProdSteps
        BY <3>2 DEF Crash, Types, ProdSteps
      <4>2. prod'.at = "dead"
        BY <4>1, EndedType
      <4> QED BY <1>2, <4>2 DEF Fresh
    <3> QED BY <3>1, <3>2
  <2>5. ~ Receive /\ ~ Resume
    BY <2>2 DEF Receive, Resume, Tails
  <2>6. ~ AppendCommit /\ ~ CloseCommit
    <3>1. txn.by # "producer"
      BY <2>1 DEF TxnOwner, Fresh, Emitting
    <3> QED BY <3>1 DEF AppendCommit, CloseCommit
  <2>7. UNCHANGED <<tail, chan, client, row>>
    BY <2>2, <2>3, <2>4, <2>5, <2>6
    DEF Next, Producer, Client, Others, vars, ReserveTokens, CreateSessionFails, AppendBegin, AppendRefused,
      AppendAborts, TokenArrives, StreamEnds, CallFails, CallReturns, KeepAlive, Settle, EmitNext,
      CloseBegin, CloseGivesUp, ClaimsExpire, Revoke, SessionExpires, LeaseLapses, Recover, Abandoned, Purge,
      ReservationExpires, BackupStarts, BackupEnds, ClearFence
  <2> QED BY <2>1, <2>2, <2>7
<1> QED BY <1>1, <1>2 DEF FreshInv

BackupRecs == [locked : BOOLEAN, fence : BOOLEAN, guards : SUBSET {"request", "producer"}]
AuthRecs == [claims : BOOLEAN, family : BOOLEAN, cited : BOOLEAN]

\* The guards: taken where the gate is open, given back at the end.
LEMMA GuardInvStep ==
  ASSUME Types, GuardInv, TxnOwner, [Next]_vars
  PROVE  GuardInv' /\ backup' \in BackupRecs
<1> DEFINE Goal == GuardInv' /\ backup' \in BackupRecs
<1> SUFFICES Goal
  OBVIOUS
<1>0. backup \in BackupRecs /\ NoTxn.by = "nobody"
  <2>1. NoTxn.by = "nobody"
    BY DEF NoTxn
  <2> QED BY <2>1 DEF Types, BackupRecs
<1>g. ASSUME NEW g \in {"request", "producer"}, GateOpen, backup' = Guarded(g)
      PROVE  /\ backup' \in BackupRecs /\ ~ backup'.locked /\ g \in backup'.guards
             /\ backup.guards \subseteq backup'.guards
  BY <1>0, <1>g DEF GateOpen, Guarded, BackupRecs
<1>r. ASSUME NEW g \in {"request", "producer"}, backup' = Released(g)
      PROVE  /\ backup' \in BackupRecs /\ backup'.locked = backup.locked
             /\ backup'.guards = backup.guards \ {g}
  BY <1>0, <1>r DEF Released, BackupRecs
<1>u. CASE backup' = backup /\ txn'.by # "producer"
  BY <1>0, <1>u DEF GuardInv
<1>v. CASE backup' = backup /\ txn' = txn
  BY <1>0, <1>v DEF GuardInv
<1>1. CASE ReserveTokens
  <2>1. txn' = txn /\ GateOpen /\ (backup' = Guarded("request") \/ backup' = backup)
    BY <1>1 DEF ReserveTokens
  <2> QED BY <1>g, <1>v, <2>1 DEF GuardInv
<1>2. CASE CreateSession \/ CreateSessionFails
  <2>1. txn' = txn /\ backup' = Released("request")
    BY <1>2 DEF CreateSession, CreateSessionFails
  <2> QED BY <1>r, <2>1 DEF GuardInv
<1>3. CASE AppendBegin \/ CloseBegin
  <2>1. GateOpen /\ backup' = Guarded("producer")
    BY <1>3 DEF AppendBegin, CloseBegin
  <2> QED BY <1>g, <2>1 DEF GuardInv
<1>4. CASE AppendCommit \/ AppendAborts \/ CloseCommit
  <2>1. txn' = NoTxn /\ backup' = Released("producer")
    BY <1>4 DEF AppendCommit, AppendAborts, CloseCommit
  <2> QED BY <1>0, <1>r, <2>1 DEF GuardInv
<1>5. CASE BackupStarts
  <2>1. txn' = txn /\ backup' = [backup EXCEPT !.locked = TRUE, !.fence = TRUE] /\ backup.guards = {}
    BY <1>5 DEF BackupStarts
  <2>2. backup' \in BackupRecs /\ backup'.guards = {}
    BY <1>0, <2>1 DEF BackupRecs
  <2> QED BY <2>1, <2>2 DEF GuardInv
<1>6. CASE BackupEnds
  <2>1. txn' = txn /\ backup' = [backup EXCEPT !.locked = FALSE]
    BY <1>6 DEF BackupEnds
  <2>2. backup' \in BackupRecs /\ backup'.guards = backup.guards /\ ~ backup'.locked
    BY <1>0, <2>1 DEF BackupRecs
  <2> QED BY <2>1, <2>2 DEF GuardInv
<1>7. CASE ClearFence
  <2>1. txn' = txn /\ backup' = [backup EXCEPT !.fence = FALSE]
    BY <1>7 DEF ClearFence
  <2>2. backup' \in BackupRecs /\ backup'.guards = backup.guards /\ backup'.locked = backup.locked
    BY <1>0, <2>1 DEF BackupRecs
  <2> QED BY <2>1, <2>2 DEF GuardInv
<1>8. CASE Crash
  <2>1. txn' = NoTxn /\ backup' = [backup EXCEPT !.guards = {}]
    BY <1>8 DEF Crash
  <2>2. backup' \in BackupRecs /\ backup'.guards = {}
    BY <1>0, <2>1 DEF BackupRecs
  <2> QED BY <1>0, <2>1, <2>2 DEF GuardInv
<1>9. ASSUME NEW t \in Tails, Delivery(t) PROVE Goal
  <2>1. backup' = backup
    BY <1>9 DEF Delivery, TailStops, TailReserves, TailLosesClient, PullRefused, PullEvent, TailTimesOut,
       TailCloseBegin, TailCloseCommit, TailCloseFallback
  <2>2. CASE TailCloseBegin(t)
    BY <1>u, <2>1, <2>2 DEF TailCloseBegin, BeginTxn, Tails, TailNames
  <2>3. CASE TailCloseCommit(t)
    BY <1>0, <1>u, <2>1, <2>3 DEF TailCloseCommit
  <2>4. CASE ~ TailCloseBegin(t) /\ ~ TailCloseCommit(t)
    <3>1. txn' = txn
      BY <1>9, <2>4 DEF Delivery, TailStops, TailReserves, TailLosesClient, PullRefused, PullEvent, TailTimesOut,
         TailCloseFallback
    <3> HIDE DEF Goal
    <3> QED BY <1>v, <2>1, <3>1
  <2> QED BY <2>2, <2>3, <2>4
<1> HIDE DEF Goal
<1> QED
  BY <1>v, <1>1, <1>2, <1>3, <1>4, <1>5, <1>6, <1>7, <1>8, <1>9
  DEF Next, Producer, Client, Others, vars, AppendRefused, TokenArrives, StreamEnds, CallFails, CallReturns,
      KeepAlive, Settle, EmitNext, CloseGivesUp, Receive, Resume, ClaimsExpire, Revoke, SessionExpires,
      LeaseLapses, Recover, Purge, ReservationExpires

\* The fence: whoever appends holds the locks that a revocation needs.
LEMMA FenceInvStep ==
  ASSUME Types, FenceInv, [Next]_vars
  PROVE  FenceInv' /\ auth' \in AuthRecs
<1>0. auth \in AuthRecs /\ NoTxn.by = "nobody"
  <2>1. NoTxn.by = "nobody"
    BY DEF NoTxn
  <2> QED BY <2>1 DEF Types, AuthRecs
<1>1. /\ auth' \in AuthRecs
      /\ txn.by # "nobody" => auth'.family = auth.family /\ auth'.cited = auth.cited
  <2>1. CASE ClaimsExpire
    BY <1>0, <2>1 DEF ClaimsExpire, AuthRecs
  <2>2. CASE Revoke
    BY <1>0, <2>2 DEF Revoke, LocksFree, AuthRecs
  <2>3. CASE ~ ClaimsExpire /\ ~ Revoke
    <3>1. auth' = auth
      BY <2>3
      DEF Next, Producer, Client, Others, vars, ReserveTokens, CreateSession, CreateSessionFails, AppendBegin,
          AppendRefused, AppendCommit, AppendAborts, TokenArrives, StreamEnds, CallFails, CallReturns, KeepAlive,
          Settle, EmitNext, CloseBegin, CloseGivesUp, CloseCommit, Receive, Resume, SessionExpires, LeaseLapses,
          Recover, Purge, ReservationExpires, BackupStarts, BackupEnds, ClearFence, Crash, Delivery, TailStops,
          TailReserves, TailLosesClient, PullRefused, PullEvent, TailTimesOut, TailCloseBegin, TailCloseCommit,
          TailCloseFallback
    <3> QED BY <1>0, <3>1
  <2> QED BY <2>1, <2>2, <2>3
<1>2. CASE txn' = txn \/ txn' = NoTxn
  BY <1>0, <1>1, <1>2 DEF FenceInv
<1>3. CASE Begins
  <2>1. txn'.by = "producer" /\ txn'.kind # "closed" => auth.family /\ auth.cited
    BY <1>3 DEF Begins
  <2>2. auth' = auth
    BY <1>3 DEF Begins
  <2> QED BY <1>1, <2>1, <2>2 DEF FenceInv
<1> QED BY <1>1, <1>2, <1>3, TxnStep

-----------------------------------------------------------------------------
(* The invariant.                                                          *)

LEMMA InitHolds == Init => IInv
<1> SUFFICES ASSUME Init PROVE IInv
  OBVIOUS
<1>0. PICK m \in Modes :
         prod = [at |-> "idle", mode |-> m, why |-> "", attempt |-> 0, usage |-> FALSE, fallback |-> FALSE]
  BY DEF Init
<1>r. row.status = "none" /\ events = <<>>
  BY DEF Init
<1>t. tail = [t \in Tails |-> [at |-> "off", after |-> 0, why |-> ""]] /\ chan = [t \in Tails |-> <<>>]
  BY DEF Init
<1>c. client = [on |-> 0, cursor |-> 0, got |-> {}]
  BY DEF Init
<1>p. prod.at = "idle"
  BY <1>0
<1>1. Types
  <2>1. prod \in ProdRecs
    <3>1. m \in {"", "stream", "buffered", "assistant", "extractive"}
      BY BoundsAssumption DEF BoundsAssumption
    <3>2. "" \in Reasons /\ "idle" \in Fresh
      BY DEF Reasons, Fresh
    <3> QED BY <1>0, <3>1, <3>2 DEF ProdRecs
  <2>2. row \in RowRecs
    BY DEF Init, RowRecs, Reasons
  <2>3. [at |-> "off", after |-> 0, why |-> ""] \in TailRecs
    BY DEF TailRecs, Reasons
  <2>4. tail \in [Tails -> TailRecs] /\ chan \in [Tails -> Seq(Frames)] /\ events \in Seq(Kinds)
    <3>1. tail \in [Tails -> TailRecs]
      BY <1>t, <2>3
    <3>2. chan \in [Tails -> Seq(Frames)]
      <4>1. <<>> \in Seq(Frames)
        OBVIOUS
      <4> QED BY <1>t, <4>1
    <3>3. events \in Seq(Kinds)
      BY <1>r
    <3> QED BY <3>1, <3>2, <3>3
  <2>5. client \in [on : Tails \cup {0}, cursor : Nat, got : SUBSET Nat]
    BY DEF Init
  <2>6. auth \in [claims : BOOLEAN, family : BOOLEAN, cited : BOOLEAN]
    BY DEF Init
  <2>7. backup \in [locked : BOOLEAN, fence : BOOLEAN, guards : SUBSET {"request", "producer"}]
    BY DEF Init
  <2>8. txn = NoTxn
    BY DEF Init
  <2> QED BY <2>1, <2>2, <2>4, <2>5, <2>6, <2>7, <2>8 DEF Types
<1>2. FreshInv
  BY DEF Init, FreshInv
<1>3. txn.by = "nobody"
  BY DEF Init, NoTxn
<1>4. TxnOwner
  <2>1. \A t \in Tails : tail[t].at = "off"
    BY <1>t
  <2> QED BY <1>3, <2>1 DEF TxnOwner, Tails, TailNames
<1>5. TxnInv /\ GuardInv /\ FenceInv
  BY <1>3 DEF Init, TxnInv, GuardInv, FenceInv
<1>6. OneTerminal
  <2>1. row.status # "open" /\ row.status \notin {"closed", "error"} /\ High = 0
    BY <1>r DEF High
  <2> QED BY <2>1 DEF OneTerminal
<1>7. ClientInv
  <2>1. client.got = {} /\ client.cursor = 0 /\ client.on = 0
    BY <1>c
  <2>2. client.got = 1..0 /\ 0 \in Nat
    BY <2>1
  <2> QED BY <2>1, <2>2 DEF ClientInv
<1>8. UsageInv
  BY <1>p DEF UsageInv
<1> QED BY <1>1, <1>2, <1>4, <1>5, <1>6, <1>7, <1>8 DEF IInv

LEMMA StepHolds == IInv /\ [Next]_vars => IInv'
<1> SUFFICES ASSUME IInv, [Next]_vars PROVE IInv'
  OBVIOUS
<1>0. Types /\ FreshInv /\ TxnOwner /\ TxnInv /\ OneTerminal /\ ClientInv /\ GuardInv /\ FenceInv /\ UsageInv
  BY DEF IInv
<1>1. StreamMove /\ row' \in RowRecs /\ events' \in Seq(Kinds)
  BY <1>0, StreamStep
<1>2. Types'
  <2>1. txn' \in TxnRecs \cup {NoTxn} /\ prod' \in ProdRecs
    BY <1>0, <1>1, TxnStep, ProdStep
  <2>2. tail' \in [Tails -> TailRecs] /\ chan' \in [Tails -> Seq(Frames)] /\ client' \in ClientRecs
    BY <1>0, <1>1, TailStep
  <2>3. backup' \in BackupRecs /\ auth' \in AuthRecs
    BY <1>0, GuardInvStep, FenceInvStep
  <2> QED BY <1>1, <2>1, <2>2, <2>3 DEF Types, ClientRecs, BackupRecs, AuthRecs
<1>3. FreshInv' /\ TxnOwner' /\ TxnInv'
  BY <1>0, <1>1, FreshInvStep, TxnOwnerStep, TxnInvStep
<1>4. OneTerminal' /\ ClientInv'
  BY <1>0, <1>1, OneTerminalStep, ClientInvStep
<1>5. GuardInv' /\ FenceInv' /\ UsageInv'
  BY <1>0, <1>1, GuardInvStep, FenceInvStep, ProdStep
<1> QED BY <1>2, <1>3, <1>4, <1>5 DEF IInv

-----------------------------------------------------------------------------
(* The theorems.                                                           *)

\* The invariant of the answer stream holds throughout, for every limit on
\* events and bytes and any number of disturbances: what the producer, the
\* tails, the sweeps, the client and the backup know of one another.
THEOREM InductiveInvariant == Spec => []IInv
<1>1. Init => IInv
  BY InitHolds
<1>2. IInv /\ [Next]_vars => IInv'
  BY StepHolds
<1> QED BY <1>1, <1>2, PTL DEF Spec

\* One end: a stream has at most one stream.closed and nothing after it, the
\* session is open exactly as long as it is missing, and an open stream has an
\* event left for it, whoever of the producer, a tail and the recovery sweep
\* comes first.
THEOREM OneEnd == Spec => []OneTerminal
<1>1. IInv => OneTerminal
  BY DEF IInv
<1> QED BY <1>1, InductiveInvariant, PTL

LEMMA OrderHolds ==
  ASSUME Types, ClientInv
  PROVE  ContentInOrder
<1>1. PICK n \in Nat : /\ client.got = 1..n
                       /\ client.on # 0 => Delivering(client.on, n)
  BY DEF ClientInv
<1>2. Cardinality(client.got) = n
  <2>1. Cardinality(1..n) = IF 1 > n THEN 0 ELSE n - 1 + 1
    BY FS_Interval
  <2> QED BY <1>1, <2>1
<1>3. ASSUME client.on # 0, NEW i \in 1..Len(chan[client.on]), chan[client.on][i].kind \in Content
      PROVE  chan[client.on][i].id \notin client.got
  <2>1. PICK t \in Tails : t = client.on
    BY <1>3 DEF Types
  <2>2. chan[t] \in Seq(Frames) /\ Delivering(t, n) /\ i \in 1..Len(chan[t]) /\ chan[t][i].kind \in Content
    BY <1>1, <1>3, <2>1 DEF Types
  <2>3. "closed" \notin Content
    BY DEF Content
  <2>4. Follows(chan[t][i], n)
    <3>1. Len(chan[t]) = 0 => i \notin 1..Len(chan[t])
      BY <2>2
    <3>2. chan[t] = <<>> => Len(chan[t]) = 0
      OBVIOUS
    <3>3. CASE Len(chan[t]) = 1
      BY <2>2, <2>3, <3>3 DEF Delivering, Final
    <3>4. CASE Len(chan[t]) = 2
      BY <2>2, <2>3, <3>4 DEF Delivering, Final
    <3> QED BY <2>2, <3>1, <3>2, <3>3, <3>4 DEF Delivering
  <2>5. chan[t][i].id = n + 1
    BY <2>4 DEF Follows
  <2> QED BY <1>1, <2>1, <2>5
<1> QED BY <1>1, <1>2, <1>3 DEF ContentInOrder

\* The client gets the content in order, once and without a gap, across every
\* lost connection and resumption.
THEOREM NothingTwiceNothingMissing == Spec => []ContentInOrder
<1>1. IInv => ContentInOrder
  BY OrderHolds DEF IInv
<1> QED BY <1>1, InductiveInvariant, PTL

\* While a backup captures, the stored streams stay as they are, but for the
\* closing transaction of a tail: the producer's transactions hold the shared
\* side of the lock, and the sweeps look at it.
THEOREM BackupsSeeAStillStream == Spec => StreamsPauseForBackup
<1> DEFINE Pauses == backup.locked => events' = events \/ \E t \in Tails : tail[t].at = "committing"
<1>1. ASSUME IInv, [Next]_vars PROVE Pauses
  <2>0. backup.locked => txn.by # "producer" /\ ~ GateOpen
    BY <1>1 DEF IInv, GuardInv, GateOpen
  <2>1. CASE AppendCommit \/ CloseCommit
    BY <2>0, <2>1 DEF AppendCommit, CloseCommit
  <2>2. CASE Recover \/ Purge
    BY <2>0, <2>2 DEF Recover, Purge
  <2>3. ASSUME NEW t \in Tails, TailCloseCommit(t) PROVE Pauses
    BY <2>3 DEF TailCloseCommit
  <2>4. ASSUME NEW t \in Tails, Delivery(t), ~ TailCloseCommit(t) PROVE events' = events
    BY <2>4 DEF Delivery, TailStops, TailReserves, TailLosesClient, PullRefused, PullEvent, TailTimesOut,
       TailCloseBegin, TailCloseFallback
  <2> QED
    BY <1>1, <2>1, <2>2, <2>3, <2>4
    DEF Next, Producer, Client, Others, vars, ReserveTokens, CreateSession, CreateSessionFails, AppendBegin,
        AppendRefused, AppendAborts, TokenArrives, StreamEnds, CallFails, CallReturns, KeepAlive, Settle, EmitNext,
        CloseBegin, CloseGivesUp, Receive, Resume, ClaimsExpire, Revoke, SessionExpires, LeaseLapses,
        ReservationExpires, BackupStarts, BackupEnds, ClearFence, Crash
<1>2. IInv /\ [Next]_vars => [Pauses]_vars
  BY <1>1
<1> QED BY <1>2, InductiveInvariant, PTL DEF Spec, StreamsPauseForBackup

\* Content is stored only while the session family is live and the cited
\* documents are visible, and what is stored is never changed.
THEOREM RevokedMeansNoMore == Spec => NoContentAfterRevoke
<1> DEFINE Silent == (~auth.family \/ ~auth.cited) /\ events' # <<>>
                       => /\ High <= Len(events')
                          /\ \A i \in 1..Len(events') :
                               IF i <= High THEN events'[i] = events[i] ELSE events'[i] \notin Content
<1>1. ASSUME IInv, [Next]_vars PROVE Silent
  <2>0. StreamMove /\ FenceInv /\ events \in Seq(Kinds) /\ "closed" \notin Content
    <3>1. StreamMove
      BY <1>1, StreamStep DEF IInv
    <3>2. "closed" \notin Content
      BY DEF Content
    <3> QED BY <1>1, <3>1, <3>2 DEF IInv, Types
  <2>1. CASE events' = events
    BY <2>0, <2>1 DEF High
  <2>2. CASE events' = Append(events, "closed")
    <3>1. "closed" \in Kinds
      BY DEF Kinds
    <3>2. /\ Len(events') = High + 1 /\ High \in Nat /\ events'[High + 1] = "closed"
          /\ \A i \in 1..High : events'[i] = events[i]
      BY <2>0, <2>2, <3>1 DEF High
    <3> QED BY <2>0, <3>2
  <2>3. CASE AppendCommit /\ txn.kind \in Content
    BY <2>0, <2>3 DEF AppendCommit, FenceInv
  <2> QED BY <2>0, <2>1, <2>2, <2>3 DEF StreamMove
<1>2. IInv /\ [Next]_vars => [Silent]_vars
  BY <1>1
<1> QED BY <1>2, InductiveInvariant, PTL DEF Spec, NoContentAfterRevoke

\* An answer of which a token was streamed is not given back: the usage is
\* noted before the token is appended, whatever happens in between.
THEOREM StreamedAnswersAreBilled == Spec => StreamedIsBilled
<1> DEFINE Billed == prod.mode = "stream" /\ Streamed /\ prod.at = "settle" =>
                        (ledger' = "refunded" => ledger = "refunded")
<1>1. ASSUME IInv, [Next]_vars, prod.mode = "stream", Streamed, prod.at = "settle", ledger' = "refunded"
      PROVE  ledger = "refunded"
  <2>1. prod.usage
    BY <1>1 DEF IInv, UsageInv
  <2>2. CASE Settle
    BY <1>1, <2>1, <2>2 DEF Settle
  <2>3. CASE ReserveTokens \/ CreateSessionFails \/ ReservationExpires
    BY <1>1, <2>3 DEF ReserveTokens, CreateSessionFails, ReservationExpires
  <2>4. CASE UNCHANGED ledger
    BY <1>1, <2>4
  <2>5. ASSUME NEW t \in Tails, Delivery(t) PROVE UNCHANGED ledger
    BY <2>5 DEF Delivery, TailStops, TailReserves, TailLosesClient, PullRefused, PullEvent, TailTimesOut,
       TailCloseBegin, TailCloseCommit, TailCloseFallback
  <2> QED
    BY <1>1, <2>2, <2>3, <2>4, <2>5
    DEF Next, Producer, Client, Others, vars, CreateSession, AppendBegin, AppendCommit,
        AppendRefused, AppendAborts, TokenArrives, StreamEnds, CallFails, CallReturns, KeepAlive, EmitNext,
        CloseBegin, CloseGivesUp, CloseCommit, Receive, Resume, ClaimsExpire, Revoke, SessionExpires, LeaseLapses,
        Recover, Purge, BackupStarts, BackupEnds, ClearFence, Crash
<1>2. IInv /\ [Next]_vars => [Billed]_vars
  BY <1>1
<1> QED BY <1>2, InductiveInvariant, PTL DEF Spec, StreamedIsBilled

-----------------------------------------------------------------------------
(* Sizes.                                                                  *)

\* An append that was begun has its bytes reserved: nobody else adds any.
\* A channel holds a frame and the end.
SizesInv ==
    /\ row.bytes <= MaxBytes
    /\ txn.by # "nobody" => row.bytes + txn.size <= MaxBytes
    /\ ledger \in {"none", "reserved", "finalized", "refunded", "expired"}
    /\ \A t \in Tails : Len(chan[t]) <= 2

LEMMA SizesStep ==
  ASSUME IInv, SizesInv, [Next]_vars
  PROVE  SizesInv'
<1>0. /\ Types /\ FreshInv /\ TxnOwner /\ TxnInv /\ OneTerminal /\ StreamMove /\ ClientInv' /\ Types'
      /\ row \in RowRecs /\ txn \in TxnRecs \cup {NoTxn} /\ MaxBytes \in Nat /\ NoTxn.by = "nobody"
  <2>1. IInv'
    BY StepHolds
  <2>2. Types /\ FreshInv /\ TxnOwner /\ TxnInv /\ OneTerminal
    BY DEF IInv
  <2>3. StreamMove
    BY <2>2, StreamStep
  <2>4. NoTxn.by = "nobody"
    BY DEF NoTxn
  <2>5. MaxBytes \in Nat
    BY BoundsAssumption DEF BoundsAssumption
  <2>6. ClientInv' /\ Types'
    BY <2>1 DEF IInv
  <2>7. row \in RowRecs /\ txn \in TxnRecs \cup {NoTxn}
    BY <2>2 DEF Types
  <2> QED BY <2>2, <2>3, <2>4, <2>5, <2>6, <2>7
\* The bytes grow by what was reserved, when the transaction ends.
<1>1. row'.bytes = row.bytes \/ (txn.by # "nobody" /\ txn' = NoTxn /\ row'.bytes = row.bytes + txn.size)
  <2>1. ASSUME row' = RowAfterAppend, txn' = NoTxn, txn.by # "nobody"
        PROVE  row'.bytes = row.bytes + txn.size
    <3>1. txn \in TxnRecs
      BY <1>0, <2>1
    <3>2. txn.size \in Nat /\ row.bytes \in Nat
      BY <1>0, <3>1 DEF TxnRecs, RowRecs
    <3>3. CASE txn.kind # "closed"
      <4>1. row' = [row EXCEPT !.bytes = @ + txn.size, !.lease = "live"]
        BY <2>1, <3>3 DEF RowAfterAppend
      <4> QED BY <1>0, <4>1 DEF RowRecs
    <3>4. CASE txn.kind = "closed"
      <4>1. PICK s : row' = [row EXCEPT !.bytes = @ + txn.size, !.lease = "none", !.reason = txn.why, !.status = s]
        BY <2>1, <3>4 DEF RowAfterAppend
      <4> QED BY <1>0, <4>1 DEF RowRecs
    <3> QED BY <3>3, <3>4
  <2>2. CASE AppendCommit \/ CloseCommit
    <3>1. txn.by # "nobody" /\ txn' = NoTxn /\ (row' = RowAfterAppend \/ row' = row)
      BY <2>2 DEF AppendCommit, CloseCommit
    <3> QED BY <2>1, <3>1
  <2>3. ASSUME NEW t \in Tails, TailCloseCommit(t)
        PROVE  row' = row \/ (txn.by # "nobody" /\ txn' = NoTxn /\ row'.bytes = row.bytes + txn.size)
    <3>1. txn.by = TailNames[t]
      BY <1>0, <2>3 DEF TailCloseCommit, TxnOwner
    <3>2. txn.by # "nobody"
      BY <3>1 DEF Tails, TailNames
    <3> QED BY <2>1, <2>3, <3>2 DEF TailCloseCommit
  <2>4. CASE CreateSession \/ Recover \/ Purge \/ SessionExpires \/ LeaseLapses
    BY <1>0, <2>4 DEF CreateSession, Recover, Purge, SessionExpires, LeaseLapses, RowRecs
  <2>5. ASSUME NEW t \in Tails, Delivery(t), ~ TailCloseCommit(t) PROVE row' = row
    BY <2>5 DEF Delivery, TailStops, TailReserves, TailLosesClient, PullRefused, PullEvent, TailTimesOut,
       TailCloseBegin, TailCloseFallback
  <2> QED
    BY <2>2, <2>3, <2>4, <2>5
    DEF Next, Producer, Client, Others, vars, ReserveTokens, CreateSessionFails, AppendBegin,
        AppendRefused, AppendAborts, TokenArrives, StreamEnds, CallFails, CallReturns, KeepAlive, Settle, EmitNext,
        CloseBegin, CloseGivesUp, Receive, Resume, ClaimsExpire, Revoke, ReservationExpires, BackupStarts,
        BackupEnds, ClearFence, Crash
<1>2. row'.bytes <= MaxBytes
  BY <1>0, <1>1 DEF SizesInv
<1>3. txn'.by # "nobody" => row'.bytes + txn'.size <= MaxBytes
  <2>1. CASE txn' = txn
    BY <1>0, <1>1, <2>1 DEF SizesInv
  <2>2. CASE txn' = NoTxn
    BY <1>0, <2>2
  <2>3. CASE Begins
    <3>1. row' = row
      BY <2>3 DEF Begins
    <3>2. row.bytes + txn'.size <= MaxBytes
      <4>1. CASE AppendBegin
        <5>1. PICK size \in {1, 2} : /\ RowRefusal(Emits[prod.at], size) = "ok"
                                     /\ BeginTxn("producer", Emits[prod.at], size, "")
          BY <4>1 DEF AppendBegin, FirstRefusal
        <5>2. HasRoom(Emits[prod.at], size)
          BY <5>1 DEF RowRefusal
        <5> QED BY <5>1, <5>2 DEF HasRoom, BeginTxn
      <4>2. CASE CloseBegin
        BY <4>2 DEF CloseBegin, CanClose, HasRoom, BeginTxn
      <4>3. ASSUME NEW t \in Tails, TailCloseBegin(t) PROVE row.bytes + txn'.size <= MaxBytes
        BY <4>3 DEF TailCloseBegin, CanClose, HasRoom, BeginTxn
      <4>4. AppendBegin \/ CloseBegin \/ \E t \in Tails : TailCloseBegin(t)
        <5>1. txn' # txn /\ txn' # NoTxn
          BY <1>0, <2>3 DEF Begins, Tails, TailNames
        <5> QED
          BY <5>1
          DEF Next, Producer, Client, Others, vars, ReserveTokens, CreateSession, CreateSessionFails,
              AppendRefused, AppendCommit, AppendAborts, TokenArrives, StreamEnds, CallFails, CallReturns, KeepAlive,
              Settle, EmitNext, CloseGivesUp, CloseCommit, Receive, Resume, ClaimsExpire, Revoke, SessionExpires,
              LeaseLapses, Recover, Purge, ReservationExpires, BackupStarts, BackupEnds, ClearFence, Crash, Delivery,
              TailStops, TailReserves, TailLosesClient, PullRefused, PullEvent, TailTimesOut, TailCloseCommit,
              TailCloseFallback
      <4> QED BY <4>1, <4>2, <4>3, <4>4
    <3> QED BY <3>1, <3>2
  <2> QED BY <1>0, <2>1, <2>2, <2>3, TxnStep
<1>4. ledger' \in {"none", "reserved", "finalized", "refunded", "expired"}
  <2>1. CASE ReserveTokens \/ CreateSessionFails \/ Settle \/ ReservationExpires
    BY <2>1 DEF SizesInv, ReserveTokens, CreateSessionFails, Settle, ReservationExpires
  <2>2. CASE UNCHANGED ledger
    BY <2>2 DEF SizesInv
  <2>3. ASSUME NEW t \in Tails, Delivery(t) PROVE UNCHANGED ledger
    BY <2>3 DEF Delivery, TailStops, TailReserves, TailLosesClient, PullRefused, PullEvent, TailTimesOut,
       TailCloseBegin, TailCloseCommit, TailCloseFallback
  <2> QED
    BY <2>1, <2>2, <2>3
    DEF Next, Producer, Client, Others, vars, CreateSession, AppendBegin, AppendCommit,
        AppendRefused, AppendAborts, TokenArrives, StreamEnds, CallFails, CallReturns, KeepAlive, EmitNext,
        CloseBegin, CloseGivesUp, CloseCommit, Receive, Resume, ClaimsExpire, Revoke, SessionExpires, LeaseLapses,
        Recover, Purge, BackupStarts, BackupEnds, ClearFence, Crash
\* A channel grows only for the client that listens.
<1>5. ASSUME NEW t \in Tails PROVE Len(chan'[t]) <= 2
  <2>1. CASE client'.on = t
    <3>1. PICK n \in Nat : Delivering(t, n)'
      <4>1. \E n \in Nat : Delivering(client.on, n)'
        BY <1>0, <2>1 DEF ClientInv, Tails
      <4> QED BY <2>1, <4>1 DEF Delivering, Final, Follows, AtEnd
    <3>2. chan'[t] = <<>> \/ Len(chan'[t]) = 1 \/ Len(chan'[t]) = 2
      BY <3>1 DEF Delivering
    <3>3. Len(<<>>) = 0
      BY EmptySeq
    <3>4. chan'[t] \in Seq(Frames)
      BY <1>0 DEF Types
    <3>5. PICK m \in Nat : m = Len(chan'[t])
      BY <3>4
    <3>6. chan'[t] = <<>> => m = 0
      BY <3>3, <3>5, Zenon
    <3>7. m = 0 \/ m = 1 \/ m = 2
      BY <3>2, <3>5, <3>6, Zenon
    <3>8. m <= 2
      BY <3>7
    <3> QED BY <3>5, <3>8, Zenon
  <2>2. CASE client'.on # t
    <3>0. chan \in [Tails -> Seq(Frames)] /\ Len(chan[t]) <= 2 /\ client \in ClientRecs
      BY <1>0 DEF Types, ClientRecs, SizesInv
    <3>1. chan'[t] = chan[t] \/ chan'[t] = <<>>
      <4>1. CASE Receive
        BY <2>2, <3>0, <4>1 DEF Receive, ClientRecs
      <4>2. CASE Resume \/ Crash
        BY <4>2 DEF Resume, Crash
      <4>3. ASSUME NEW u \in Tails, Delivery(u) PROVE chan'[t] = chan[t]
        <5>1. CASE u # t
          BY <1>0, <4>3, <5>1, DeliveryStep
        <5>2. CASE u = t
          <6>1. ASSUME NEW id, NEW k, Sends(t, id, k), client' = client PROVE chan' = chan
            BY <2>2, <6>1 DEF Sends
          <6> QED
            BY <2>2, <4>3, <5>2, <6>1
            DEF Delivery, TailStops, TailReserves, TailLosesClient, PullRefused, PullEvent, TailTimesOut,
                TailCloseBegin, TailCloseCommit, TailCloseFallback
        <5> QED BY <5>1, <5>2
      <4> QED
        BY <4>1, <4>2, <4>3
        DEF Next, Producer, Client, Others, vars, ReserveTokens, CreateSession, CreateSessionFails, AppendBegin,
            AppendRefused, AppendCommit, AppendAborts, TokenArrives, StreamEnds, CallFails, CallReturns, KeepAlive,
            Settle, EmitNext, CloseBegin, CloseGivesUp, CloseCommit, ClaimsExpire, Revoke, SessionExpires,
            LeaseLapses, Recover, Purge, ReservationExpires, BackupStarts, BackupEnds, ClearFence
    <3>2. Len(<<>>) = 0
      BY EmptySeq
    <3> QED BY <3>0, <3>1, <3>2
  <2> QED BY <2>1, <2>2
<1> QED BY <1>2, <1>3, <1>4, <1>5 DEF SizesInv

\* Every value stays in its range; in particular the stored bytes stay within
\* the limit of the session, and a tail is never more than an end ahead of a
\* frame that the client has not read.
THEOREM TypeCorrect == Spec => []TypeOK
<1>1. Init => SizesInv
  <2>1. ASSUME Init PROVE SizesInv
    <3>1. row.bytes = 0 /\ txn.by = "nobody" /\ ledger = "none"
      BY <2>1 DEF Init, NoTxn
    <3>2. chan = [t \in Tails |-> <<>>]
      BY <2>1 DEF Init
    <3>3. Len(<<>>) = 0
      BY EmptySeq
    <3>4. 0 <= MaxBytes
      BY BoundsAssumption DEF BoundsAssumption
    <3> QED BY <3>1, <3>2, <3>3, <3>4 DEF SizesInv
  <2> QED BY <2>1
<1>2. IInv /\ SizesInv /\ [Next]_vars => SizesInv'
  BY SizesStep
<1>3. IInv /\ SizesInv => TypeOK
  <2>1. ASSUME IInv, SizesInv PROVE TypeOK
    <3>1. row \in RowRecs /\ events \in Seq(Kinds)
      BY <2>1 DEF IInv, Types
    <3>2. backup \in [locked : BOOLEAN, fence : BOOLEAN, guards : SUBSET {"request", "producer"}]
      BY <2>1 DEF IInv, Types
    <3>3. row.bytes \in 0..MaxBytes
      BY <2>1, <3>1, BoundsAssumption DEF SizesInv, RowRecs, BoundsAssumption
    <3> QED BY <2>1, <3>1, <3>2, <3>3 DEF SizesInv, TypeOK, RowRecs, Kinds
  <2> QED BY <2>1
<1> QED BY <1>1, <1>2, <1>3, InductiveInvariant, PTL DEF Spec
=============================================================================

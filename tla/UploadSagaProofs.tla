--------------------------- MODULE UploadSagaProofs ---------------------------
(***************************************************************************)
(* What holds of an upload whatever requests and reconcilers meet at it    *)
(* (IInv), and what holds if only one of them is at work at a time         *)
(* (SerialInv).                                                            *)
(***************************************************************************)
EXTENDS UploadSaga, FiniteSetTheorems, TLAPS

OpRows == [state : {"absent"} \cup Open \cup Halted \cup Ended, attempt : 0..MaxAttempt]
Quotas == [Attempts -> {"none", "reserved", "refunded", "expired", "finalized"}]
ActorRows == [step : Steps, deletes : BOOLEAN, key : 0..MaxAttempt]

LEMMA CardType == Cardinality(Requests) \in Nat /\ MaxAttempt \in Nat /\ MaxAttempt >= 1
  BY Assumption, FS_CardinalityType DEF Assumption, MaxAttempt

\* Requests that took an attempt are requests.
LEMMA TakenType ==
  /\ IsFiniteSet(Taken)
  /\ Cardinality(Taken) \in Nat
  /\ Cardinality(Taken) =< Cardinality(Requests)
<1>1. IsFiniteSet(Requests) /\ Taken \subseteq Requests
  BY Assumption DEF Assumption, Taken
<1> QED BY <1>1, FS_Subset, FS_CardinalityType

-----------------------------------------------------------------------------
(* With any overlap.                                                       *)

LEMMA InitIInv == Init => IInv
<1> SUFFICES ASSUME Init PROVE IInv
  OBVIOUS
<1>1. TypeOK
  <2>1. op \in OpRows /\ quota \in Quotas
    BY CardType DEF Init, OpRows, Quotas, Open
  <2>2. Rested \in ActorRows
    BY CardType DEF ActorRows, Rested, Steps, Taking
  <2>3. actor \in [Actors -> ActorRows]
    BY <2>2 DEF Init
  <2> QED BY <2>1, <2>3 DEF Init, TypeOK, OpRows, Quotas, ActorRows
<1>2. Taken = {}
  BY DEF Init, Taken, Rested, Actors
<1>3. Cardinality(Taken) = 0
  BY <1>2, FS_EmptySet
<1>4. KeyInv
  BY <1>3 DEF Init, KeyInv, Rested, Taking
<1>5. ChargedOnce /\ SuccessIsFinal
  BY DEF Init, ChargedOnce, SuccessIsFinal
<1> QED BY <1>1, <1>4, <1>5 DEF IInv

\* A step that leaves every key as it is leaves the count of attempts.
LEMMA KeysKept ==
  ASSUME \A r \in Requests : actor'[r].key = actor[r].key
  PROVE  Taken' = Taken
  BY DEF Taken

\* What a step does to the actor that takes it: the key stays, and an
\* attempt that was not taken yet is not used.
Moved(a, s, d) ==
  /\ actor' = [actor EXCEPT ![a] = [step |-> s, key |-> actor[a].key, deletes |-> d]]
  /\ s # "idle"
  /\ s = "attempt" => actor[a].step = "idle"
  /\ s \notin {"attempt", "done"} => actor[a].step \notin Taking \cup {"done"}

LEMMA GotoMoves ==
  ASSUME TypeOK, NEW a \in Actors, NEW s \in Steps, Goto(a, s), s # "idle",
         s = "attempt" => actor[a].step = "idle",
         s \notin {"attempt", "done"} => actor[a].step \notin Taking \cup {"done"}
  PROVE  Moved(a, s, actor[a].deletes)
<1>1. actor[a] \in ActorRows /\ actor \in [Actors -> ActorRows]
  BY DEF TypeOK, ActorRows
<1>2. [actor[a] EXCEPT !.step = s]
        = [step |-> s, key |-> actor[a].key, deletes |-> actor[a].deletes]
  BY <1>1 DEF ActorRows
<1> QED BY <1>1, <1>2 DEF Goto, Moved

LEMMA CompensatingMoves ==
  ASSUME TypeOK, NEW a \in Actors, NEW d \in BOOLEAN, Compensating(a, d),
         actor[a].step \notin Taking \cup {"done"}
  PROVE  Moved(a, "claim", d)
<1> QED BY DEF Compensating, Moved

\* A move of that kind keeps the types and the keys.
LEMMA MoveKeeps ==
  ASSUME IInv, NEW a \in Actors, NEW s \in Steps, NEW d \in BOOLEAN, Moved(a, s, d),
         op' \in OpRows, quota' \in Quotas, object' \in BOOLEAN, told' \subseteq Requests,
         \/ op'.attempt = op.attempt /\ op.state # "absent" /\ op'.state # "absent"
         \/ op.state = "absent" /\ op'.state = "started" /\ op'.attempt = 1
  PROVE  TypeOK' /\ KeyInv'
<1>1. [step |-> s, key |-> actor[a].key, deletes |-> d] \in ActorRows
  BY DEF IInv, TypeOK, ActorRows
<1>2. TypeOK'
  BY <1>1 DEF IInv, TypeOK, Moved, OpRows, Quotas, ActorRows
<1>3. \A b \in Actors : actor'[b].key = actor[b].key
  BY DEF IInv, TypeOK, Moved
<1>4. Taken' = Taken
  BY <1>3, KeysKept DEF Actors
<1>5. \A b \in Actors : b # a => actor'[b] = actor[b]
  BY DEF IInv, TypeOK, Moved
<1>6. actor'[a].step = s /\ actor'[a].key = actor[a].key
  BY DEF IInv, TypeOK, Moved
<1>7. /\ actor'[a].step \in Taking => actor'[a].key = 0
      /\ actor'[a].step \notin Taking \cup {"done"} => actor'[a].key >= 1
  BY <1>6 DEF IInv, KeyInv, Moved, Taking
<1>8. op'.attempt =< Cardinality(Taken') + 1
  BY <1>4, TakenType DEF IInv, KeyInv
<1>9. IF op'.state = "absent" THEN op'.attempt = 0 ELSE op'.attempt >= 1
  BY DEF IInv, KeyInv
<1> QED BY <1>2, <1>5, <1>7, <1>8, <1>9 DEF IInv, KeyInv

\* A request takes its attempt.
LEMMA AttemptStep ==
  ASSUME IInv, NEW r \in Requests, TakeAttempt(r)
  PROVE  TypeOK' /\ KeyInv'
<1> DEFINE k == NextAttempt(op.state, op.attempt)
<1>1. CASE op' = op /\ Goto(r, "done")
  <2>1. r \in Actors /\ TypeOK /\ op.state # "absent"
    BY DEF IInv, KeyInv, TakeAttempt, Actors
  <2>2. Moved(r, "done", actor[r].deletes)
    BY <1>1, <2>1, GotoMoves DEF Steps
  <2>3. actor[r].deletes \in BOOLEAN /\ "done" \in Steps
    BY <2>1 DEF TypeOK, Steps
  <2> QED BY <1>1, <2>1, <2>2, <2>3, MoveKeeps
          DEF TakeAttempt, TypeOK, OpRows, Quotas
<1>2. CASE /\ op.state \in {"started", "failed", "refunded", "reserved"}
           /\ op' = [state |-> "reserved", attempt |-> k]
           /\ actor' = [actor EXCEPT ![r].step = "quota", ![r].key = k]
  <2>1. /\ actor[r].step = "attempt" /\ actor[r].key = 0 /\ r \in Actors
        /\ op.attempt \in Nat /\ op.attempt >= 1
        /\ op.attempt =< Cardinality(Taken) + 1
    BY <1>2 DEF IInv, TypeOK, KeyInv, TakeAttempt, Taking, Actors
  <2>2. k \in Nat /\ k >= 1 /\ k =< Cardinality(Taken) + 2
    BY <2>1, TakenType DEF NextAttempt
  <2>3. Taken' = Taken \cup {r} /\ r \notin Taken
    <3>1. \A q \in Requests : q \in Actors
      BY DEF Actors
    <3>2. \A q \in Requests : q # r => actor'[q].key = actor[q].key
      BY <1>2, <3>1 DEF IInv, TypeOK
    <3>3. actor'[r].key = k /\ k # 0
      BY <1>2, <2>1, <2>2 DEF IInv, TypeOK
    <3> QED BY <2>1, <3>2, <3>3 DEF Taken
  <2>4. Cardinality(Taken') = Cardinality(Taken) + 1
    BY <2>3, TakenType, FS_AddElement
  <2>5. Taken' \subseteq Requests /\ Cardinality(Taken') =< Cardinality(Requests)
    <3>1. Taken' \subseteq Requests
      BY <2>3 DEF Taken
    <3> QED BY <3>1, Assumption, FS_Subset DEF Assumption
  <2>6. k \in 1..MaxAttempt
    BY <2>2, <2>4, <2>5, CardType, TakenType DEF MaxAttempt
  <2>7. TypeOK'
    BY <1>2, <2>1, <2>6, CardType
       DEF IInv, TypeOK, TakeAttempt, Steps, Putting, Open
  <2>8. KeyInv'
    <3>1. \A a \in Actors : a # r => actor'[a] = actor[a]
      BY <1>2 DEF IInv, TypeOK
    <3>2. actor'[r].step = "quota" /\ actor'[r].key = k
      BY <1>2, <2>1 DEF IInv, TypeOK
    <3>3. op'.state = "reserved" /\ op'.attempt = k
      BY <1>2
    <3>4. op'.attempt =< Cardinality(Taken') + 1
      BY <2>2, <2>4, <3>3, TakenType
    <3> QED BY <2>2, <3>1, <3>2, <3>3, <3>4 DEF IInv, KeyInv, Taking
  <2> QED BY <2>7, <2>8
<1> QED BY <1>1, <1>2 DEF TakeAttempt

\* Every other step of a request.
LEMMA RequestTypes ==
  ASSUME IInv, NEW r \in Requests, RequestStep(r), ~TakeAttempt(r)
  PROVE  TypeOK' /\ KeyInv'
<1>r. r \in Actors /\ TypeOK /\ actor[r] \in ActorRows
  BY DEF Actors, IInv, TypeOK, ActorRows
<1> DEFINE Effect == \E s \in Steps, d \in BOOLEAN : Moved(r, s, d)
<1>1. Effect
  <2> USE <1>r DEF Steps, Taking, Putting, Undoing
  <2>1. CASE Begin(r)
    BY <2>1, GotoMoves DEF Begin, MayStart, ActorRows
  <2>2. CASE Reserve(r)
    BY <2>2, GotoMoves, CompensatingMoves DEF Reserve, ActorRows
  <2>3. CASE FailOperation(r) \/ BeginPut(r) \/ Put(r) \/ MarkStored(r) \/ Replay(r)
    BY <2>3, GotoMoves
       DEF FailOperation, BeginPut, Put, MarkStored, Replay, ActorRows
  <2>4. CASE PutFails(r) \/ CommitFails(r)
    BY <2>4, CompensatingMoves DEF PutFails, CommitFails, ActorRows
  <2>5. CASE Commit(r)
    BY <2>5, GotoMoves, CompensatingMoves DEF Commit, ActorRows
  <2> QED BY <2>1, <2>2, <2>3, <2>4, <2>5 DEF RequestStep
<1>2. /\ op' \in OpRows
      /\ \/ op'.attempt = op.attempt /\ op.state # "absent" /\ op'.state # "absent"
         \/ op.state = "absent" /\ op'.state = "started" /\ op'.attempt = 1
  <2> USE CardType DEF OpRows, IInv, TypeOK, Open, Halted, Ended
  <2>1. CASE Begin(r)
    BY <2>1 DEF Begin
  <2>2. actor[r].step # "idle" => op.state # "absent"
    BY <1>r DEF KeyInv
  <2>3. CASE FailOperation(r)
    BY <2>2, <2>3 DEF FailOperation
  <2>4. CASE BeginPut(r) \/ MarkStored(r) \/ Commit(r)
    BY <2>2, <2>4 DEF BeginPut, MarkStored, Commit, MayCommit
  <2> QED BY <2>1, <2>2, <2>3, <2>4
          DEF RequestStep, Reserve, Put, PutFails, Replay, CommitFails
<1>3. quota' \in Quotas
  BY DEF RequestStep, Begin, Reserve, FailOperation, BeginPut, Put, PutFails,
         MarkStored, Commit, Replay, CommitFails, IInv, TypeOK, Quotas
<1>4. object' \in BOOLEAN /\ told' \subseteq Requests
  BY DEF RequestStep, Begin, Reserve, FailOperation, BeginPut, Put, PutFails,
         MarkStored, Commit, Replay, CommitFails, IInv, TypeOK
<1> QED BY <1>r, <1>1, <1>2, <1>3, <1>4, MoveKeeps

\* A step of a compensation, or the end of an actor.
LEMMA CompensationTypes ==
  ASSUME IInv, NEW a \in Actors, CompensationStep(a)
  PROVE  TypeOK' /\ KeyInv'
<1>a. TypeOK /\ actor[a] \in ActorRows
  BY DEF IInv, TypeOK, ActorRows
<1> DEFINE Effect == \E s \in Steps, d \in BOOLEAN : Moved(a, s, d)
<1>1. Effect
  <2> USE <1>a DEF Steps, Taking, Putting, Undoing
  <2>1. CASE Claim(a) \/ Refund(a) \/ DeleteObject(a)
    BY <2>1, GotoMoves DEF Claim, Refund, DeleteObject, ActorRows
  <2>2. CASE Park(a) \/ Close(a) \/ Stop(a)
    BY <2>2, GotoMoves DEF Park, Close, Stop, ActorRows
  <2> QED BY <2>1, <2>2 DEF CompensationStep
<1>2. /\ op' \in OpRows
      /\ op'.attempt = op.attempt /\ op.state # "absent" /\ op'.state # "absent"
  <2> USE CardType DEF OpRows, IInv, TypeOK, Open, Halted, Ended
  <2>1. actor[a].step # "idle" => op.state # "absent"
    BY DEF KeyInv
  <2> QED BY <2>1 DEF CompensationStep, Claim, Refund, DeleteObject, Park, Close,
                      Closed, Stop
<1>3. quota' \in Quotas
  BY DEF CompensationStep, Claim, Refund, DeleteObject, Park, Close, Stop,
         IInv, TypeOK, Quotas
<1>4. object' \in BOOLEAN /\ told' \subseteq Requests
  BY DEF CompensationStep, Claim, Refund, DeleteObject, Park, Close, Stop,
         IInv, TypeOK
<1> QED BY <1>1, <1>2, <1>3, <1>4, MoveKeeps

\* A reconciler takes the key of the attempt it found: it is no request, so
\* the count of attempts stays.
LEMMA ClaimStaleTypes ==
  ASSUME IInv, NEW c \in Reconcilers, ClaimStale(c)
  PROVE  TypeOK' /\ KeyInv'
<1> DEFINE row == [step |-> "claim", key |-> op.attempt, deletes |-> TRUE]
<1>1. /\ op.state # "absent" /\ op'.state # "absent" /\ op'.attempt = op.attempt
      /\ op' \in OpRows /\ op.attempt >= 1
  BY CardType DEF ClaimStale, IInv, TypeOK, KeyInv, OpRows, Open, Halted, Ended
<1>2. row \in ActorRows
  BY DEF IInv, TypeOK, ActorRows, Steps
<1>3. TypeOK'
  BY <1>1, <1>2 DEF IInv, TypeOK, ClaimStale, OpRows, ActorRows
<1>4. /\ actor'[c] = row
      /\ \A b \in Actors : b # c => actor'[b] = actor[b]
  BY DEF IInv, TypeOK, ClaimStale, Actors
<1>5. \A r \in Requests : r \in Actors /\ r # c
  BY Assumption DEF Assumption, Actors
<1>6. Taken' = Taken
  BY <1>4, <1>5, KeysKept
<1> QED BY <1>1, <1>3, <1>4, <1>6 DEF IInv, KeyInv, Taking

LEMMA ExpireTypes ==
  ASSUME IInv, NEW k \in Attempts, Expire(k)
  PROVE  TypeOK' /\ KeyInv'
<1>1. TypeOK'
  BY DEF IInv, TypeOK, Expire
<1>2. Taken' = Taken
  BY KeysKept DEF Expire
<1> QED BY <1>1, <1>2 DEF IInv, KeyInv, Expire

\* Registration is the one step that finalizes a reservation and completes
\* the operation.
LEMMA CommitCharges ==
  ASSUME IInv, NEW r \in Requests, Commit(r)
  PROVE  ChargedOnce' /\ SuccessIsFinal'
<1>1. actor[r].key \in Attempts
  BY CardType DEF Commit, IInv, TypeOK, KeyInv, Taking, Actors, Attempts
<1>2. /\ \A k \in Attempts : quota[k] # "finalized"
      /\ quota' = [quota EXCEPT ![actor[r].key] = "finalized"]
      /\ op'.state = "completed"
  BY DEF Commit, MayCommit, IInv, TypeOK, ChargedOnce
<1> QED BY <1>1, <1>2 DEF IInv, TypeOK, ChargedOnce, SuccessIsFinal

\* Every other step leaves both as they are, and tells a request of success
\* only where the operation is completed.
LEMMA OutcomeKept ==
  ASSUME IInv,
         op'.state = "completed" <=> op.state = "completed",
         \A k \in Attempts : quota'[k] = "finalized" <=> quota[k] = "finalized",
         told' = told \/ op.state = "completed"
  PROVE  ChargedOnce' /\ SuccessIsFinal'
<1>1. ChargedOnce'
  <2>1. CASE op.state = "completed"
    BY <2>1 DEF IInv, ChargedOnce
  <2>2. CASE op.state # "completed"
    BY <2>2 DEF IInv, ChargedOnce
  <2> QED BY <2>1, <2>2
<1>2. SuccessIsFinal'
  BY DEF IInv, SuccessIsFinal
<1> QED BY <1>1, <1>2

LEMMA OutcomeStep ==
  ASSUME IInv, [Next]_vars
  PROVE  ChargedOnce' /\ SuccessIsFinal'
<1>1. CASE \E r \in Requests : Commit(r)
  BY <1>1, CommitCharges
<1>2. CASE UNCHANGED vars
  BY <1>2, OutcomeKept DEF vars
<1>3. CASE \E r \in Requests : RequestStep(r) /\ ~Commit(r)
  <2>1. op'.state = "completed" <=> op.state = "completed"
    <3>1. PICK r \in Requests : RequestStep(r) /\ ~Commit(r)
      BY <1>3
    <3> USE DEF IInv, TypeOK
    <3>2. CASE Begin(r) \/ TakeAttempt(r)
      BY <3>2 DEF Begin, TakeAttempt
    <3>3. CASE FailOperation(r) \/ BeginPut(r) \/ MarkStored(r)
      BY <3>3 DEF FailOperation, BeginPut, MarkStored
    <3> QED BY <3>1, <3>2, <3>3
            DEF RequestStep, Reserve, Put, PutFails, Replay, CommitFails
  <2>2. \A k \in Attempts : quota'[k] = "finalized" <=> quota[k] = "finalized"
    BY <1>3 DEF RequestStep, Begin, TakeAttempt, Reserve, FailOperation, BeginPut,
                Put, PutFails, MarkStored, Replay, CommitFails, IInv, TypeOK
  <2>3. told' = told \/ op.state = "completed"
    BY <1>3 DEF RequestStep, Begin, TakeAttempt, Reserve, FailOperation, BeginPut,
                Put, PutFails, MarkStored, Replay, CommitFails
  <2> QED BY <2>1, <2>2, <2>3, OutcomeKept
<1>4. CASE \E c \in Reconcilers : ClaimStale(c)
  <2>1. op'.state = "completed" <=> op.state = "completed"
    BY <1>4 DEF ClaimStale, Open, Halted, IInv, TypeOK
  <2> QED BY <1>4, <2>1, OutcomeKept DEF ClaimStale
<1>5. CASE \E a \in Actors : CompensationStep(a)
  <2>1. op'.state = "completed" <=> op.state = "completed"
    BY <1>5 DEF CompensationStep, Claim, Refund, DeleteObject, Park, Close, Closed,
                Stop, IInv, TypeOK, Halted
  <2>2. \A k \in Attempts : quota'[k] = "finalized" <=> quota[k] = "finalized"
    BY <1>5 DEF CompensationStep, Claim, Refund, DeleteObject, Park, Close, Stop,
                IInv, TypeOK
  <2>3. told' = told
    BY <1>5 DEF CompensationStep, Claim, Refund, DeleteObject, Park, Close, Stop
  <2> QED BY <2>1, <2>2, <2>3, OutcomeKept
<1>6. CASE \E k \in Attempts : Expire(k)
  <2>1. \A k \in Attempts : quota'[k] = "finalized" <=> quota[k] = "finalized"
    BY <1>6 DEF Expire, IInv, TypeOK
  <2> QED BY <1>6, <2>1, OutcomeKept DEF Expire
<1> QED BY <1>1, <1>2, <1>3, <1>4, <1>5, <1>6 DEF Next

LEMMA StepIInv == IInv /\ [Next]_vars => IInv'
<1> SUFFICES ASSUME IInv, [Next]_vars PROVE IInv'
  OBVIOUS
<1>1. TypeOK' /\ KeyInv'
  <2>1. CASE UNCHANGED vars
    <3>1. Taken' = Taken
      BY <2>1 DEF vars, Taken
    <3> QED BY <2>1, <3>1 DEF vars, IInv, TypeOK, KeyInv
  <2>2. CASE \E r \in Requests : RequestStep(r)
    BY <2>2, AttemptStep, RequestTypes
  <2>3. CASE \E c \in Reconcilers : ClaimStale(c)
    BY <2>3, ClaimStaleTypes
  <2>4. CASE \E a \in Actors : CompensationStep(a)
    BY <2>4, CompensationTypes
  <2>5. CASE \E k \in Attempts : Expire(k)
    BY <2>5, ExpireTypes
  <2> QED BY <2>1, <2>2, <2>3, <2>4, <2>5 DEF Next
<1> QED BY <1>1, OutcomeStep DEF IInv

\* Whatever meets at an upload: its quota is charged once if it completes and
\* never otherwise, and nobody takes back a success that was reported.
THEOREM UploadInvariant == Spec => []IInv
<1> QED BY InitIInv, StepIInv, PTL DEF Spec

\* Attempts, and so reservation keys, stay below the number of requests.
THEOREM UploadTypes == Spec => []TypeOK
<1>1. IInv => TypeOK
  BY DEF IInv
<1> QED BY <1>1, UploadInvariant, PTL

\* commit_registration_and_finalize charges the quota in the transaction that
\* completes the operation, and nothing charges it again.
THEOREM QuotaIsChargedOnce == Spec => []ChargedOnce
<1>1. IInv => ChargedOnce
  BY DEF IInv
<1> QED BY <1>1, UploadInvariant, PTL

\* No compensation, failure or retry takes a completed operation back.
THEOREM CompletionIsFinal == Spec => []SuccessIsFinal
<1>1. IInv => SuccessIsFinal
  BY DEF IInv
<1> QED BY <1>1, UploadInvariant, PTL

-----------------------------------------------------------------------------
(* Without overlap.                                                        *)

Alone(a) == \A b \in Actors : b # a => actor[b].step \in {"idle", "done"}

\* Whoever is at work, or may start, is alone.
LEMMA WorkerIsAlone ==
  ASSUME SerialInv, ~Overlap, NEW a \in Actors, AtWork(a) \/ MayStart(a)
  PROVE  Alone(a)
  BY DEF SerialInv, OneAtWork, AtWork, MayStart, Alone

\* So a step has to account for its own actor only.
LEMMA AloneSuffices ==
  ASSUME NEW a \in Actors, Alone(a),
         \A b \in Actors : b # a => actor'[b] = actor[b],
         StepOK(a)', HolderOK(a)', ReserveOK(a)',
         ObjectInv', FreshInv', CompletedHasObject'
  PROVE  SerialInv'
<1>1. \A b \in Actors : b # a => actor'[b].step \in {"idle", "done"}
  BY DEF Alone
<1>2. OneAtWork'
  BY <1>1 DEF OneAtWork, AtWork
<1>3. \A b \in Actors : b # a => StepOK(b)' /\ HolderOK(b)' /\ ReserveOK(b)'
  BY <1>1 DEF StepOK, HolderOK, ReserveOK, Undoing
<1>4. ActorInv'
  BY <1>3 DEF ActorInv
<1> QED BY <1>2, <1>4 DEF SerialInv

LEMMA InitSerialInv == Init => SerialInv
  BY DEF Init, SerialInv, OneAtWork, AtWork, ActorInv, StepOK, HolderOK, ReserveOK,
         ObjectInv, NoObject, FreshInv, CompletedHasObject, Rested, Undoing

\* What Goto leaves of the actor's row.
LEMMA GotoRow ==
  ASSUME actor \in [Actors -> ActorRows], NEW a \in Actors, NEW s, Goto(a, s)
  PROVE  /\ actor'[a].step = s
         /\ actor'[a].key = actor[a].key
         /\ actor'[a].deletes = actor[a].deletes
  BY DEF Goto, ActorRows

LEMMA SerialRequest ==
  ASSUME IInv, SerialInv, ~Overlap, NEW r \in Requests, RequestStep(r)
  PROVE  SerialInv'
<1>1. /\ r \in Actors /\ actor \in [Actors -> ActorRows] /\ op \in OpRows
      /\ quota \in Quotas
  BY DEF Actors, IInv, TypeOK, ActorRows, OpRows, Quotas
<1>2. Alone(r)
  BY <1>1, WorkerIsAlone
     DEF RequestStep, Begin, TakeAttempt, Reserve, FailOperation, BeginPut, Put,
         PutFails, MarkStored, Commit, Replay, CommitFails, AtWork
<1>3. \A b \in Actors : b # r => actor'[b] = actor[b]
  BY <1>1
     DEF RequestStep, Begin, TakeAttempt, Reserve, FailOperation, BeginPut, Put,
         PutFails, MarkStored, Commit, Replay, CommitFails, Goto, Compensating
<1>4. StepOK(r) /\ HolderOK(r) /\ ReserveOK(r) /\ ObjectInv /\ FreshInv /\ CompletedHasObject
  BY <1>1 DEF SerialInv, ActorInv
<1> DEFINE Accounted == /\ StepOK(r)' /\ HolderOK(r)' /\ ReserveOK(r)'
                        /\ ObjectInv' /\ FreshInv' /\ CompletedHasObject'
<1>5. SUFFICES Accounted
  BY <1>1, <1>2, <1>3, AloneSuffices
<1> USE <1>1, <1>4, CardType
        DEF OpRows, Quotas, ActorRows, StepOK, HolderOK, ReserveOK, ObjectInv,
            NoObject, FreshInv, CompletedHasObject, Goto, Undoing, Halted, Attempts
<1>6. CASE Begin(r)
  BY <1>6, SMTT(30) DEF Begin, MayStart, IInv, KeyInv
<1>7. CASE TakeAttempt(r)
  <2>1. /\ actor[r].step = "attempt" /\ op.state \in {"started", "failed", "refunded"}
        /\ NoObject /\ UNCHANGED <<quota, object>>
        /\ op.attempt \in Nat /\ op.attempt >= 1
    BY <1>7 DEF TakeAttempt, IInv, KeyInv
  <2>2. /\ op' = [state |-> "reserved", attempt |-> NextAttempt(op.state, op.attempt)]
        /\ actor'[r].step = "quota" /\ actor'[r].key = op'.attempt
    BY <1>7, <2>1 DEF TakeAttempt
  <2>3. /\ op'.state = "reserved" /\ op'.attempt \in Attempts
        /\ op'.attempt >= op.attempt /\ quota[op'.attempt] = "none"
    <3>1. TypeOK'
      BY AttemptStep, <1>7
    <3>2. op'.attempt \in Nat /\ op'.attempt =< MaxAttempt /\ op'.attempt >= op.attempt
      BY <2>1, <2>2, <3>1 DEF TypeOK, NextAttempt
    <3>3. op.state # "started" => op'.attempt > op.attempt
      BY <2>1, <2>2 DEF NextAttempt
    <3>4. op.state = "started" => op'.attempt = op.attempt
      BY <2>1, <2>2 DEF NextAttempt
    <3> QED BY <2>1, <2>2, <3>2, <3>3, <3>4
  <2> QED BY <2>1, <2>2, <2>3
<1>8. CASE Reserve(r)
  BY <1>8 DEF Reserve, Compensating
<1>9. CASE FailOperation(r)
  BY <1>9, GotoRow DEF FailOperation
<1>10. CASE BeginPut(r)
  BY <1>10, GotoRow DEF BeginPut
<1>14. CASE Put(r)
  BY <1>14, GotoRow DEF Put
<1>15. CASE PutFails(r)
  <2>1. /\ op' = op /\ quota' = quota /\ op.state = "putting"
        /\ object' = object \/ object' = FALSE \/ OrphanPuts
        /\ NoObject
    BY <1>15 DEF PutFails
  <2>2. NoObject'
    BY <2>1
  <2>3. actor'[r].step = "claim" /\ actor'[r].deletes = FALSE
    BY <1>15 DEF PutFails, Compensating
  <2> QED BY <2>1, <2>2, <2>3
<1>11. CASE MarkStored(r)
  BY <1>11 DEF MarkStored
<1>12. CASE Commit(r)
  BY <1>12 DEF Commit, MayCommit, Compensating
<1>13. CASE Replay(r) \/ CommitFails(r)
  BY <1>13 DEF Replay, CommitFails, Compensating
<1> QED BY <1>6, <1>7, <1>8, <1>9, <1>10, <1>11, <1>12, <1>13,
           <1>14, <1>15 DEF RequestStep

LEMMA SerialCompensation ==
  ASSUME IInv, SerialInv, ~Overlap, NEW a \in Actors, CompensationStep(a)
  PROVE  SerialInv'
<1>1. actor \in [Actors -> ActorRows] /\ op \in OpRows /\ quota \in Quotas
  BY DEF IInv, TypeOK, ActorRows, OpRows, Quotas
<1>2. Alone(a)
  BY WorkerIsAlone
     DEF CompensationStep, Claim, Refund, DeleteObject, Park, Close, Stop, AtWork
<1>3. \A b \in Actors : b # a => actor'[b] = actor[b]
  BY <1>1
     DEF CompensationStep, Claim, Refund, DeleteObject, Park, Close, Stop, Goto
<1>4. StepOK(a) /\ HolderOK(a) /\ ReserveOK(a) /\ ObjectInv /\ FreshInv /\ CompletedHasObject
  BY DEF SerialInv, ActorInv
<1> DEFINE Accounted == /\ StepOK(a)' /\ HolderOK(a)' /\ ReserveOK(a)'
                        /\ ObjectInv' /\ FreshInv' /\ CompletedHasObject'
<1>5. SUFFICES Accounted
  BY <1>2, <1>3, AloneSuffices
<1> USE <1>1, <1>4, CardType
        DEF OpRows, Quotas, ActorRows, StepOK, HolderOK, ReserveOK, ObjectInv,
            NoObject, FreshInv, CompletedHasObject, Goto, Undoing, Halted, Attempts
<1>6. CASE Claim(a)
  BY <1>6 DEF Claim
<1>7. CASE Refund(a)
  <2>1. /\ op' = op /\ object' = object /\ actor[a].step = "refund"
        /\ \A k \in Attempts : quota[k] = "none" => quota'[k] = "none"
    BY <1>7 DEF Refund
  <2>2. /\ actor'[a].step = IF actor[a].deletes THEN "delete" ELSE "close"
        /\ actor'[a].deletes = actor[a].deletes
    BY <1>7, GotoRow DEF Refund
  <2>3. actor'[a].step # "quota"
    BY <2>2
  <2>4. FreshInv'
    BY <2>1 DEF IInv, KeyInv
  <2> QED BY <2>1, <2>2, <2>3, <2>4
<1>8. CASE DeleteObject(a)
  <2>1. /\ op' = op /\ quota' = quota /\ actor[a].step = "delete" /\ actor[a].deletes
        /\ op.state \in {"object_stored", "completed"} \cup Halted
        /\ op.state # "completed"
    BY <1>8 DEF DeleteObject
  <2>2. \/ object' = FALSE /\ actor'[a].step = "close"
        \/ object' = object /\ actor'[a].step = "park"
    BY <1>8, GotoRow DEF DeleteObject
  <2>3. actor'[a].deletes = actor[a].deletes
    BY <1>8, GotoRow DEF DeleteObject
  <2> QED BY <2>1, <2>2, <2>3
<1>9. CASE Park(a)
  BY <1>9 DEF Park
<1>10. CASE Close(a)
  BY <1>10 DEF Close, Closed
<1>11. CASE Stop(a)
  BY <1>11 DEF Stop
<1> QED BY <1>6, <1>7, <1>8, <1>9, <1>10, <1>11 DEF CompensationStep

LEMMA SerialClaimStale ==
  ASSUME IInv, SerialInv, ~Overlap, NEW c \in Reconcilers, ClaimStale(c)
  PROVE  SerialInv'
<1>1. /\ c \in Actors /\ actor \in [Actors -> ActorRows] /\ op \in OpRows
      /\ quota \in Quotas
  BY DEF Actors, IInv, TypeOK, ActorRows, OpRows, Quotas
<1>2. Alone(c)
  BY <1>1, WorkerIsAlone DEF ClaimStale
<1>3. /\ \A b \in Actors : b # c => actor'[b] = actor[b]
      /\ actor'[c] = [step |-> "claim", key |-> op.attempt, deletes |-> TRUE]
  BY <1>1 DEF ClaimStale
<1>4. /\ op'.state \in Halted /\ op'.attempt = op.attempt
      /\ quota' = quota /\ object' = object
  BY <1>1 DEF ClaimStale, Halted, OpRows
<1>5. StepOK(c)' /\ HolderOK(c)' /\ ReserveOK(c)'
  BY <1>3, <1>4 DEF StepOK, HolderOK, ReserveOK, Undoing, Halted
<1>6. ObjectInv' /\ FreshInv' /\ CompletedHasObject'
  BY <1>4 DEF SerialInv, ObjectInv, FreshInv, CompletedHasObject, Halted
<1> QED BY <1>1, <1>2, <1>3, <1>5, <1>6, AloneSuffices

LEMMA SerialExpire ==
  ASSUME IInv, SerialInv, NEW k \in Attempts, Expire(k)
  PROVE  SerialInv'
<1>1. /\ op' = op /\ object' = object /\ actor' = actor
      /\ \A i \in Attempts : quota[i] = "none" => quota'[i] = "none"
  BY DEF Expire, IInv, TypeOK
<1>2. FreshInv'
  BY <1>1 DEF SerialInv, FreshInv, Expire, IInv, TypeOK
<1>3. ActorInv'
  BY <1>1 DEF SerialInv, ActorInv, StepOK, HolderOK, ReserveOK, NoObject,
              Expire, IInv, TypeOK
<1> QED BY <1>1, <1>2, <1>3
        DEF SerialInv, OneAtWork, AtWork, ObjectInv, NoObject, CompletedHasObject

\* If requests with one key never overlap with one another or with a
\* compensation, the object is accounted for at every step.
THEOREM SerialInvariant == ASSUME ~Overlap PROVE Spec => []SerialInv
<1>1. IInv /\ SerialInv /\ [Next]_vars => SerialInv'
  <2> SUFFICES ASSUME IInv, SerialInv, [Next]_vars PROVE SerialInv'
    OBVIOUS
  <2>1. CASE UNCHANGED vars
    BY <2>1 DEF vars, SerialInv, OneAtWork, AtWork, ActorInv, StepOK, HolderOK,
                ReserveOK, ObjectInv, NoObject, FreshInv, CompletedHasObject
  <2> QED BY <2>1, SerialRequest, SerialCompensation, SerialClaimStale, SerialExpire
          DEF Next
<1> QED BY <1>1, InitSerialInv, UploadInvariant, PTL DEF Spec

\* compensate_op and the failed put delete the object of an operation that
\* can no longer complete; only overlap lets it complete after all.
THEOREM SerialUploadsKeepTheirObject == ASSUME ~Overlap PROVE Spec => []CompletedHasObject
<1>1. SerialInv => CompletedHasObject
  BY DEF SerialInv
<1> QED BY <1>1, SerialInvariant, PTL

\* Unless a failed put leaves its object behind, an upload that ended without
\* success left nothing in MinIO.
THEOREM SerialRefundsLeaveNoObject ==
  ASSUME ~Overlap, ~OrphanPuts PROVE Spec => []RefundedLeavesNoObject
<1>1. SerialInv => RefundedLeavesNoObject
  BY DEF SerialInv, ObjectInv, NoObject, RefundedLeavesNoObject, Halted
<1> QED BY <1>1, SerialInvariant, PTL

\* transition_reserved counts the attempt up before it reserves.
THEOREM SerialRetriesReserveAfresh == ASSUME ~Overlap PROVE Spec => []RetryReservesAfresh
<1>1. SerialInv => RetryReservesAfresh
  BY DEF SerialInv, ActorInv, ReserveOK, RetryReservesAfresh, Actors
<1> QED BY <1>1, SerialInvariant, PTL
=============================================================================

-------------------------- MODULE DocumentsProofs --------------------------
(***************************************************************************)
(* Proofs about what carries a document from its upload to the index and    *)
(* what surrounds it, as MCDocuments composes them: the turns of any        *)
(* number of organisations at a worker, conversion for every number of      *)
(* attempts, the index generations of any number of documents and plans,    *)
(* the event log for any number of jobs, relays and reconnects, the         *)
(* versions of a document, and the quota ledgers of uploads and of answers. *)
(***************************************************************************)
EXTENDS MCDocuments, FiniteSetTheorems, TLAPS

(***************************************************************************)
(* The turns of organisations.                                              *)
(***************************************************************************)


(* The position asked is an organisation, and lies offset ahead of the       *)
(* cursor.                                                                   *)
LEMMA AskedIs ==
    ASSUME TypeOK, Running
    PROVE Asked \in Orgs /\ Ahead(Asked) = offset
BY OrgCountAssumption DEF TypeOK, Running, Asked, Mod, Orgs, Ahead

LEMMA AheadIs ==
    ASSUME TypeOK, NEW o \in Orgs
    PROVE Ahead(o) \in 0..OrgCount - 1
BY OrgCountAssumption DEF TypeOK, Orgs, Ahead

(* Once the cursor is past the organisation asked, those the cycle had not   *)
(* reached are nearer to it, and those it had asked come after all others.   *)
LEMMA PastIs ==
    ASSUME TypeOK, Running, NEW o \in Orgs, cursor' = PastOf(Asked)
    PROVE /\ cursor' \in Orgs
          /\ Ahead(o)' \in 0..OrgCount - 1
          /\ Ahead(o) > offset => Ahead(o)' = Ahead(o) - offset - 1
          /\ Ahead(o) < offset => Ahead(o)' = Ahead(o) + OrgCount - offset - 1
<1>1. /\ OrgCount \in Nat \ {0} /\ cursor \in 0..OrgCount - 1
      /\ offset \in 0..OrgCount - 1 /\ o \in 0..OrgCount - 1
  BY OrgCountAssumption DEF TypeOK, Running, Orgs
<1>2. cursor' = IF cursor + offset + 1 < OrgCount THEN cursor + offset + 1
                                                  ELSE cursor + offset + 1 - OrgCount
  BY <1>1 DEF PastOf, Asked, Mod
<1>3. cursor' \in Orgs BY <1>1, <1>2 DEF Orgs
<1> QED BY <1>1, <1>2, <1>3 DEF Ahead, Orgs

THEOREM InitIInv == Init => IInv
BY OrgCountAssumption DEF Init, IInv, TypeOK, Orgs, Running

(* A turn of the organisation asked: it starts anew, the others that wait    *)
(* have waited one turn more and are at least one position nearer.           *)
LEMMA TurnKeeps ==
    ASSUME IInv, Running, Turn(Asked)
    PROVE IInv'
<1>1. TypeOK /\ Asked \in Orgs /\ Ahead(Asked) = offset BY AskedIs DEF IInv
<1>2. \A o \in Orgs : waited'[o] = IF o # Asked /\ o \in ready THEN waited[o] + 1 ELSE 0
  BY DEF Turn
<1>3. cursor' = PastOf(Asked) BY DEF Turn
<1>4. ready' \subseteq ready /\ ready' \subseteq Orgs BY <1>1 DEF Turn, TypeOK
<1>5. TypeOK'
  <2>1. waited' \in [Orgs -> Nat] BY <1>1 DEF Turn, TypeOK
  <2>2. offset' = OrgCount BY DEF Turn
  <2>3. cursor' \in Orgs BY <1>1, <1>3, PastIs
  <2> QED BY <1>4, <2>1, <2>2, <2>3, OrgCountAssumption DEF TypeOK, Orgs
<1>6. \A o \in Orgs \ ready' : waited'[o] = 0
  <2> SUFFICES ASSUME NEW o \in Orgs \ ready' PROVE waited'[o] = 0 OBVIOUS
  <2>1. o \notin ready \/ o = Asked BY DEF Turn
  <2> QED BY <1>2, <2>1
<1>7. \A o \in ready' : waited'[o] + Ahead(o)' <= OrgCount - 1
  <2> SUFFICES ASSUME NEW o \in ready' PROVE waited'[o] + Ahead(o)' <= OrgCount - 1
    OBVIOUS
  <2>1. o \in Orgs /\ o \in ready /\ waited[o] \in Nat BY <1>1, <1>4 DEF TypeOK
  <2>2. /\ Ahead(o)' \in 0..OrgCount - 1
        /\ Ahead(o) > offset => Ahead(o)' = Ahead(o) - offset - 1
        /\ Ahead(o) < offset => Ahead(o)' = Ahead(o) + OrgCount - offset - 1
    BY <1>1, <1>3, <2>1, PastIs
  <2>3. Ahead(o) \in 0..OrgCount - 1 BY <1>1, <2>1, AheadIs
  <2>4. offset \in 0..OrgCount - 1
    BY <1>1, OrgCountAssumption DEF TypeOK, Running, Orgs
  <2>5. CASE o = Asked
    BY <2>5, <1>2, <2>1, <2>2, OrgCountAssumption
  <2>6. CASE o # Asked /\ Ahead(o) > offset
    <3>1. waited[o] + Ahead(o) <= OrgCount - 1 BY <2>1 DEF IInv
    <3>2. waited'[o] = waited[o] + 1 BY <1>2, <2>1, <2>6
    <3> QED BY <3>1, <3>2, <2>1, <2>2, <2>3, <2>4, <2>6, OrgCountAssumption
  <2>7. CASE o # Asked /\ Ahead(o) < offset
    <3>1. waited[o] = 0 BY <2>1, <2>7 DEF IInv
    <3>2. waited'[o] = 1 BY <1>2, <2>1, <2>7, <3>1
    <3> QED BY <3>2, <2>2, <2>3, <2>4, <2>7, OrgCountAssumption
  <2>8. CASE o # Asked /\ Ahead(o) = offset
    <3>1. o = Asked
      BY <1>1, <2>1, <2>8, OrgCountAssumption DEF TypeOK, Orgs, Ahead
    <3> QED BY <3>1, <2>8
  <2> QED BY <2>3, <2>4, <2>5, <2>6, <2>7, <2>8
<1>8. ~Running' BY OrgCountAssumption DEF Turn, Running
<1> QED BY <1>5, <1>6, <1>7, <1>8 DEF IInv

LEMMA NextKeeps == IInv /\ [Next]_vars => IInv'
<1> SUFFICES ASSUME IInv, [Next]_vars PROVE IInv' OBVIOUS
<1>1. TypeOK BY DEF IInv
<1>2. ASSUME NEW o \in Orgs, Arrive(o) PROVE IInv'
  <2>1. TypeOK' BY <1>1, <1>2 DEF Arrive, TypeOK
  <2>2. waited[o] = 0 BY <1>2 DEF Arrive, IInv
  <2>3. ready' = ready \cup {o} /\ waited' = waited BY <1>2 DEF Arrive
  <2>4. \A p : Ahead(p)' = Ahead(p) BY <1>2 DEF Arrive, Ahead
  <2>5. Ahead(o) \in 0..OrgCount - 1 BY <1>1, AheadIs
  <2>6. \A p \in ready' : waited'[p] + Ahead(p)' <= OrgCount - 1
    BY <2>2, <2>3, <2>4, <2>5, OrgCountAssumption DEF IInv
  <2> QED BY <1>2, <2>1, <2>2, <2>3, <2>4, <2>6 DEF Arrive, IInv, Running
<1>3. ASSUME NEW o \in Orgs, Leave(o) PROVE IInv'
  <2>1. TypeOK' BY <1>1, <1>3 DEF Leave, TypeOK
  <2>2. \A p \in Orgs : waited'[p] = IF p = o THEN 0 ELSE waited[p]
    BY <1>1, <1>3 DEF Leave, TypeOK
  <2>3. \A p \in ready' : p \in ready /\ p # o /\ p \in Orgs
    BY <1>1, <1>3 DEF Leave, TypeOK
  <2> QED BY <1>3, <2>1, <2>2, <2>3 DEF Leave, IInv, Ahead, Running
<1>4. ASSUME BeginCycle PROVE IInv'
  <2>1. TypeOK' BY <1>1, <1>4, OrgCountAssumption DEF BeginCycle, TypeOK
  <2>2. \A o \in ready : o \in Orgs /\ ~(Ahead(o) < 0)
    BY <1>1, AheadIs, OrgCountAssumption DEF TypeOK
  <2> QED BY <1>4, <2>1, <2>2 DEF BeginCycle, IInv, Ahead, Running
<1>5. ASSUME Idle PROVE IInv'
  <2>1. TypeOK' BY <1>1, <1>5, OrgCountAssumption DEF Idle, Running, TypeOK
  <2>2. ASSUME NEW o \in ready, Ahead(o) < offset + 1 PROVE waited[o] = 0
    <3>1. o # Asked /\ Running /\ o \in Orgs BY <1>1, <1>5 DEF Idle, TypeOK
    <3>2. Ahead(o) # offset
      BY <1>1, <3>1, OrgCountAssumption DEF TypeOK, Orgs, Ahead, Asked, Mod, Running
    <3>3. Ahead(o) < offset
      BY <2>2, <3>1, <3>2, <1>1, AheadIs, OrgCountAssumption DEF TypeOK
    <3> QED BY <3>1, <3>3 DEF IInv
  <2> QED BY <1>5, <2>1, <2>2 DEF Idle, IInv, Ahead
<1>6. ASSUME Serve PROVE IInv' BY <1>6, TurnKeeps DEF Serve
<1>7. ASSUME Fail PROVE IInv' BY <1>7, TurnKeeps DEF Fail
<1>8. ASSUME Panic PROVE IInv'
  <2>1. TypeOK' BY <1>1, <1>8, OrgCountAssumption DEF Panic, TypeOK
  <2> QED BY <1>8, <2>1, OrgCountAssumption DEF Panic, IInv, Ahead, Running
<1>9. CASE UNCHANGED vars
  BY <1>9 DEF vars, IInv, TypeOK, Ahead, Running
<1> QED BY <1>2, <1>3, <1>4, <1>5, <1>6, <1>7, <1>8, <1>9 DEF Next

(* A process that serves OrgCount organisations asks one with a job before   *)
(* the others had OrgCount - 1 turns, for any number of them.                *)
THEOREM OrgsTakeTurns == Spec => []FairTurns
<1>1. IInv => FairTurns
  <2> SUFFICES ASSUME IInv, NEW o \in ready PROVE waited[o] <= OrgCount - 1
    BY DEF FairTurns
  <2>1. o \in Orgs /\ waited[o] \in Nat BY DEF IInv, TypeOK
  <2>2. Ahead(o) \in 0..OrgCount - 1 BY <2>1, AheadIs DEF IInv
  <2>3. waited[o] + Ahead(o) <= OrgCount - 1 BY DEF IInv
  <2> QED BY <2>1, <2>2, <2>3, OrgCountAssumption
<1> QED BY <1>1, InitIInv, NextKeeps, PTL DEF Spec

(***************************************************************************)
(* Conversion and promotion.                                                *)
(***************************************************************************)


Keys == C!Attempts \cup {C!None}
JobRecs == [status : {"pending", "leased", "succeeded", "dead_letter", "cancelled"},
            attempts : 0..MaxAttempts, staged : SUBSET C!Attempts]

ConvTypes ==
    /\ job \in JobRecs
    /\ at \in [C!Attempts -> C!Phases]
    /\ seen \in [C!Attempts -> SUBSET C!Attempts]
    /\ todo \in [Keys -> SUBSET C!Attempts]
    /\ doomed \in [Keys -> Keys]
    /\ reservation \in [C!Attempts -> {"none", "reserved", "finalized", "refunded", "expired"}]
    /\ committed \in Keys /\ txn \in Keys
    /\ cleaner \in [status : {"none", "pending", "sweeping", "done", "dead_letter"}, attempts : Nat]

\* A promotion under way is of the attempt that owns the job, whatever that
\* attempt believes, and its object is there.
PromotionInv ==
    txn # C!None => /\ committed = C!None /\ C!Owns(txn) /\ txn \in objects
                    /\ at[txn] \in {"promote", "report", "gone"}

\* A promoted version belongs to the last attempt; the job has ended with it.
PromotedInv ==
    committed # C!None => /\ job.status = "succeeded" /\ job.attempts = committed
                          /\ committed \in objects
                          /\ at[committed] \in {"report", "gone"}

\* Keys are staged in the order of the attempts, before they are written.
StagedInv ==
    /\ objects \cup flying \subseteq job.staged
    /\ \A k \in job.staged : k <= job.attempts

\* An attempt deletes keys of earlier attempts, and its own only once it has
\* nothing left that it may promote.
AttemptInv(n) ==
    /\ at[n] # "unborn" => n <= job.attempts
    /\ at[n] = "put" => n \in job.staged
    /\ \A k \in seen[n] : k <= n
    /\ at[n] \in {"unborn", "convert", "clean"} => n \notin seen[n]
    /\ todo[n] \subseteq seen[n] /\ doomed[n] \in todo[n] \cup {C!None}
    /\ at[n] \notin {"clean", "undo"} => todo[n] = {} /\ doomed[n] = C!None
    /\ at[n] \in {"staged", "promote"} /\ C!Owns(n) => n \in objects

\* The clean-up job deletes what was not committed when the conversion had ended.
CleanerInv ==
    /\ cleaner.status = "sweeping" => C!Terminal
    /\ doomed[C!Cleaner] # C!None => C!Terminal /\ doomed[C!Cleaner] # committed

ConvInv ==
    /\ ConvTypes /\ PromotionInv /\ PromotedInv /\ StagedInv /\ CleanerInv
    /\ \A n \in C!Attempts : AttemptInv(n)
    /\ C!ChargedForWhatIsKept

LEMMA Bounds == MaxAttempts \in Nat \ {0} /\ MaxCleanups \in Nat \ {0} /\ C!None \notin C!Attempts
  BY InstancesAssumption DEF C!BoundsAssumption, C!None, C!Attempts

LEMMA Phased ==
    ASSUME ConvTypes, NEW n \in C!Attempts, NEW phase \in C!Phases, C!Goto(n, phase)
    PROVE  /\ at' \in [C!Attempts -> C!Phases] /\ at'[n] = phase
           /\ \A m \in C!Attempts \ {n} : at'[m] = at[m]
  BY DEF ConvTypes, C!Goto

LEMMA Swept ==
    ASSUME ConvTypes, NEW a \in Keys, NEW keep \in SUBSET C!Attempts, C!Sweeps(a, keep)
    PROVE  /\ todo' \in [Keys -> SUBSET C!Attempts] /\ doomed' \in [Keys -> Keys]
           /\ todo'[a] = keep /\ doomed'[a] = C!None
           /\ \A b \in Keys \ {a} : todo'[b] = todo[b] /\ doomed'[b] = doomed[b]
  BY DEF ConvTypes, C!Sweeps, Keys

\* What a deleter has chosen is nobody's to promote any more, and not promoted.
LEMMA DoomedIsFree ==
    ASSUME ConvInv, NEW a \in Keys, doomed[a] # C!None
    PROVE  /\ doomed[a] # txn /\ doomed[a] # committed
           /\ \A n \in C!Attempts : at[n] \in {"staged", "promote"} /\ C!Owns(n) => n # doomed[a]
<1>1. CASE a = C!Cleaner
  <2>1. C!Terminal /\ doomed[a] # committed
    BY <1>1 DEF ConvInv, CleanerInv
  <2>2. \A n \in C!Attempts : ~C!Owns(n)
    BY <2>1 DEF C!Terminal, C!Owns
  <2>3. txn = C!None
    BY <2>1 DEF ConvInv, PromotionInv, C!Terminal, C!Owns
  <2> QED BY <2>1, <2>2, <2>3
<1>2. CASE a \in C!Attempts
  <2> DEFINE k == doomed[a]
  <2>1. AttemptInv(a) /\ k \in seen[a] /\ k \in todo[a] /\ k <= a /\ a <= job.attempts /\ at[a] \in {"clean", "undo"}
    <3>1. AttemptInv(a) /\ k \in todo[a]
      BY <1>2 DEF ConvInv, AttemptInv
    <3> QED BY <3>1 DEF AttemptInv
  <2>2. k \in Nat /\ a \in Nat /\ job.attempts \in Nat
    BY <2>1, <1>2, Bounds DEF ConvInv, ConvTypes, C!Attempts, JobRecs
  <2>3. CASE k = a
    <3>1. at[a] = "undo"
      BY <2>1, <2>3 DEF AttemptInv
    <3> QED BY <2>3, <3>1, <1>2, Bounds DEF ConvInv, PromotionInv, PromotedInv
  <2>4. CASE k # a
    <3>1. k # job.attempts
      BY <2>1, <2>2, <2>4
    <3>2. k # C!None
      OBVIOUS
    <3> QED BY <3>1, <3>2 DEF ConvInv, PromotionInv, PromotedInv, C!Owns
  <2> QED BY <2>3, <2>4
<1> QED BY <1>1, <1>2 DEF Keys, C!None, C!Cleaner

\* An attempt that did nothing itself keeps what it may rely on.
LEMMA AttemptRests ==
    ASSUME ConvInv, NEW m \in C!Attempts,
           at'[m] = at[m], seen'[m] = seen[m], todo'[m] = todo[m], doomed'[m] = doomed[m],
           job.attempts <= job'.attempts, job'.attempts \in Nat, job.staged \subseteq job'.staged,
           C!Owns(m)' => C!Owns(m),
           at[m] \in {"staged", "promote"} /\ C!Owns(m) /\ m \in objects => m \in objects'
    PROVE  AttemptInv(m)'
<1>1. AttemptInv(m) /\ m \in Nat /\ job.attempts \in Nat
  BY Bounds DEF ConvInv, ConvTypes, JobRecs, C!Attempts
<1> QED BY <1>1 DEF AttemptInv

\* A step that promotes nothing keeps the invariant if it deletes only what a
\* deleter has chosen, and leaves the attempts as they may be.
LEMMA ConvMove ==
    ASSUME ConvInv, ConvTypes', UNCHANGED <<committed, txn>>,
           \A m \in C!Attempts : AttemptInv(m)',
           StagedInv', CleanerInv', C!ChargedForWhatIsKept',
           \A k \in objects \ objects' : \E a \in Keys : doomed[a] = k /\ k # C!None,
           txn # C!None => C!Owns(txn)' /\ at'[txn] \in {"promote", "report", "gone"},
           committed # C!None => UNCHANGED <<job>> /\ at'[committed] \in {"report", "gone"}
    PROVE  ConvInv'
<1>1. \A k \in objects \ objects' : k # txn /\ k # committed
  BY DoomedIsFree
<1>2. PromotionInv'
  BY <1>1 DEF ConvInv, PromotionInv
<1>3. PromotedInv'
  BY <1>1 DEF ConvInv, PromotedInv
<1> QED BY <1>2, <1>3 DEF ConvInv

\* The same for a step of one attempt.
LEMMA AttemptMove ==
    ASSUME ConvInv, NEW n \in C!Attempts, ConvTypes', UNCHANGED <<committed, txn, job>>,
           \A m \in C!Attempts \ {n} : at'[m] = at[m] /\ seen'[m] = seen[m] /\ todo'[m] = todo[m] /\ doomed'[m] = doomed[m],
           doomed'[C!Cleaner] = doomed[C!Cleaner], cleaner'.status = "sweeping" => cleaner.status = "sweeping",
           AttemptInv(n)', C!ChargedForWhatIsKept',
           objects' \cup flying' \subseteq job.staged,
           \A k \in objects \ objects' : \E a \in Keys : doomed[a] = k /\ k # C!None,
           txn = n => at'[n] \in {"promote", "report", "gone"},
           committed = n => at'[n] \in {"report", "gone"}
    PROVE  ConvInv'
<1>1. ASSUME NEW m \in C!Attempts, m # n PROVE AttemptInv(m)'
  <2>1. at[m] \in {"staged", "promote"} /\ C!Owns(m) /\ m \in objects => m \in objects'
    BY DoomedIsFree
  <2>2. job.attempts <= job'.attempts /\ job'.attempts \in Nat
    BY Bounds DEF ConvInv, ConvTypes, JobRecs
  <2>3. C!Owns(m)' => C!Owns(m)
    BY DEF C!Owns
  <2> QED BY <1>1, <2>1, <2>2, <2>3, AttemptRests
<1>2. StagedInv'
  BY DEF ConvInv, StagedInv
<1>3. CleanerInv'
  BY DEF ConvInv, CleanerInv, C!Terminal
<1>4. txn # C!None => C!Owns(txn)' /\ at'[txn] \in {"promote", "report", "gone"}
  <2>1. txn # C!None => txn \in C!Attempts
    BY DEF ConvInv, ConvTypes, Keys
  <2> QED BY <2>1 DEF ConvInv, PromotionInv, C!Owns
<1>5. committed # C!None => at'[committed] \in {"report", "gone"}
  <2>1. committed # C!None => committed \in C!Attempts
    BY DEF ConvInv, ConvTypes, Keys
  <2> QED BY <2>1 DEF ConvInv, PromotedInv
<1> QED BY <1>1, <1>2, <1>3, <1>4, <1>5, ConvMove

LEMMA NotPromoting ==
    ASSUME ConvInv, NEW n \in C!Attempts, at[n] \notin {"promote", "report", "gone"}
    PROVE  txn # n /\ committed # n
  BY Bounds DEF ConvInv, PromotionInv, PromotedInv

LEMMA ChargedStays ==
    ASSUME ConvInv, UNCHANGED <<reservation, committed>> PROVE C!ChargedForWhatIsKept'
  BY DEF ConvInv, C!ChargedForWhatIsKept

LEMMA LookUpStep == ASSUME ConvInv, NEW a \in Keys, C!LookUp(a) PROVE ConvInv'
<1>1. /\ UNCHANGED <<job, at, seen, deferred, objects, flying, reservation, committed, txn, deleted, cleaner>>
      /\ C!Sweeping(a) /\ doomed[a] = C!None
  BY DEF C!LookUp
<1>2. PICK k \in todo[a] :
        IF committed = k
          THEN todo' = [todo EXCEPT ![a] = @ \ {k}] /\ UNCHANGED doomed
          ELSE doomed' = [doomed EXCEPT ![a] = k] /\ UNCHANGED todo
  BY DEF C!LookUp
<1>3. ConvTypes /\ k \in C!Attempts /\ k # C!None
  BY Bounds DEF ConvInv, ConvTypes
<1>4. /\ ConvTypes'
      /\ todo'[a] \in {todo[a], todo[a] \ {k}}
      /\ \/ doomed'[a] = C!None
         \/ doomed'[a] = k /\ committed # k /\ todo'[a] = todo[a]
      /\ \A b \in Keys \ {a} : todo'[b] = todo[b] /\ doomed'[b] = doomed[b]
  <2>1. CASE committed = k
    BY <1>1, <1>2, <1>3, <2>1 DEF ConvTypes
  <2>2. CASE committed # k
    BY <1>1, <1>2, <1>3, <2>2 DEF ConvTypes, Keys
  <2> QED BY <2>1, <2>2
<1>5. CASE a = C!Cleaner
  <2>1. \A m \in C!Attempts : AttemptInv(m)'
    <3>1. ASSUME NEW m \in C!Attempts PROVE todo'[m] = todo[m] /\ doomed'[m] = doomed[m]
      BY <1>4, <1>5, Bounds DEF Keys, C!Cleaner, C!None
    <3> QED BY <1>1, <3>1 DEF ConvInv, AttemptInv, C!Owns
  <2>2. CleanerInv'
    <3>1. C!Terminal
      BY <1>1, <1>5 DEF ConvInv, CleanerInv, C!Sweeping
    <3> QED BY <1>1, <1>4, <1>5, <3>1 DEF CleanerInv, C!Terminal
  <2>3. PromotionInv' /\ PromotedInv' /\ StagedInv'
    BY <1>1 DEF ConvInv, PromotionInv, PromotedInv, StagedInv, C!Owns
  <2> QED BY <1>1, <1>4, <2>1, <2>2, <2>3, ChargedStays DEF ConvInv
<1>6. CASE a \in C!Attempts
  <2>1. at[a] \in {"clean", "undo"} /\ a # C!Cleaner
    BY <1>1, <1>6, Bounds DEF C!Sweeping, C!Cleaner, C!None
  <2>2. AttemptInv(a)'
    <3>1. AttemptInv(a)
      BY <1>6 DEF ConvInv
    <3> QED BY <1>1, <1>2, <1>4, <2>1, <3>1 DEF AttemptInv, C!Owns
  <2>3. doomed'[C!Cleaner] = doomed[C!Cleaner]
    BY <1>4, <2>1 DEF Keys, C!Cleaner, C!None
  <2>4. objects' \cup flying' \subseteq job.staged /\ objects \ objects' = {}
    BY <1>1 DEF ConvInv, StagedInv
  <2>5. \A m \in C!Attempts \ {a} : todo'[m] = todo[m] /\ doomed'[m] = doomed[m]
    BY <1>4 DEF Keys
  <2>6. txn # a /\ committed # a
    BY <1>6, <2>1, NotPromoting
  <2> QED BY <1>1, <1>4, <1>6, <2>2, <2>3, <2>4, <2>5, <2>6, ChargedStays, AttemptMove
<1> QED BY <1>5, <1>6 DEF Keys, C!None, C!Cleaner

LEMMA DeleteKeyStep == ASSUME ConvInv, NEW a \in Keys, C!DeleteKey(a) PROVE ConvInv'
<1>1. /\ UNCHANGED <<job, at, seen, deferred, flying, reservation, committed, txn, deleted, cleaner>>
      /\ C!Sweeping(a) /\ doomed[a] # C!None /\ objects' = objects \ {doomed[a]}
      /\ C!Sweeps(a, todo[a] \ {doomed[a]})
  BY DEF C!DeleteKey
<1>2. ConvTypes /\ todo[a] \ {doomed[a]} \in SUBSET C!Attempts
  BY DEF ConvInv, ConvTypes
<1>3. /\ todo'[a] = todo[a] \ {doomed[a]} /\ doomed'[a] = C!None
      /\ todo' \in [Keys -> SUBSET C!Attempts] /\ doomed' \in [Keys -> Keys]
      /\ \A b \in Keys \ {a} : todo'[b] = todo[b] /\ doomed'[b] = doomed[b]
  BY <1>1, <1>2, Swept
<1>4. ConvTypes'
  BY <1>1, <1>2, <1>3 DEF ConvTypes
<1>5. /\ \A k \in objects \ objects' : k = doomed[a]
      /\ objects' \cup flying' \subseteq job.staged
  BY <1>1 DEF ConvInv, StagedInv
<1>6. CASE a = C!Cleaner
  <2>1. ASSUME NEW m \in C!Attempts PROVE AttemptInv(m)'
    <3>1. todo'[m] = todo[m] /\ doomed'[m] = doomed[m]
      BY <1>3, <1>6, Bounds DEF Keys, C!Cleaner, C!None
    <3>2. at[m] \in {"staged", "promote"} /\ C!Owns(m) /\ m \in objects => m \in objects'
      BY <1>1, DoomedIsFree
    <3>3. job.attempts <= job'.attempts /\ job'.attempts \in Nat
      BY <1>1, <1>2, Bounds DEF ConvTypes, JobRecs
    <3>4. C!Owns(m)' => C!Owns(m)
      BY <1>1 DEF C!Owns
    <3> QED BY <1>1, <3>1, <3>2, <3>3, <3>4, AttemptRests
  <2>2. CleanerInv' /\ StagedInv'
    BY <1>1, <1>3, <1>5, <1>6 DEF ConvInv, CleanerInv, StagedInv, C!Terminal
  <2>3. txn # C!None => C!Owns(txn)' /\ at'[txn] \in {"promote", "report", "gone"}
    BY <1>1 DEF ConvInv, PromotionInv, C!Owns
  <2>4. committed # C!None => at'[committed] \in {"report", "gone"}
    BY <1>1 DEF ConvInv, PromotedInv
  <2> QED BY <1>1, <1>4, <1>5, <2>1, <2>2, <2>3, <2>4, ChargedStays, ConvMove
<1>7. CASE a \in C!Attempts
  <2>1. at[a] \in {"clean", "undo"} /\ a # C!Cleaner
    BY <1>1, <1>7, Bounds DEF C!Sweeping, C!Cleaner, C!None
  <2>2. AttemptInv(a)'
    <3>1. AttemptInv(a)
      BY <1>7 DEF ConvInv
    <3> QED BY <1>1, <1>3, <2>1, <3>1 DEF AttemptInv, C!Owns
  <2>3. doomed'[C!Cleaner] = doomed[C!Cleaner]
    BY <1>3, <2>1 DEF Keys, C!Cleaner, C!None
  <2>4. \A m \in C!Attempts \ {a} : todo'[m] = todo[m] /\ doomed'[m] = doomed[m]
    BY <1>3 DEF Keys
  <2>5. txn # a /\ committed # a
    BY <1>7, <2>1, NotPromoting
  <2> QED BY <1>1, <1>4, <1>5, <1>7, <2>2, <2>3, <2>4, <2>5, ChargedStays, AttemptMove
<1> QED BY <1>6, <1>7 DEF Keys, C!None, C!Cleaner

\* How an attempt goes from one phase to another, without an object of its own
\* to answer for; a sweep takes what it has seen.
LEMMA PhaseMove ==
    ASSUME ConvInv, NEW n \in C!Attempts, NEW phase \in C!Phases, C!Goto(n, phase),
           UNCHANGED <<job, committed, txn>>, C!ChargedForWhatIsKept',
           reservation' \in [C!Attempts -> {"none", "reserved", "finalized", "refunded", "expired"}],
           cleaner' \in [status : {"none", "pending", "sweeping", "done", "dead_letter"}, attempts : Nat],
           cleaner'.status = "sweeping" => cleaner.status = "sweeping",
           \/ UNCHANGED <<todo, doomed>> /\ (phase \in {"clean", "undo"} \/ at[n] \notin {"clean", "undo"} \/ todo[n] = {})
           \/ C!Sweeps(n, {})
           \/ C!Sweeps(n, seen[n]) /\ phase \in {"clean", "undo"},
           phase \notin {"unborn", "put", "staged", "promote"}, at[n] # "unborn",
           seen' \in [C!Attempts -> SUBSET C!Attempts], seen[n] \subseteq seen'[n],
           \A k \in seen'[n] : k <= n, phase \in {"convert", "clean"} => at[n] \in {"convert", "clean"} /\ seen' = seen,
           \A m \in C!Attempts \ {n} : seen'[m] = seen[m],
           objects' \cup flying' \subseteq job.staged,
           \A k \in objects \ objects' : k = doomed[n] /\ k # C!None,
           txn = n => phase \in {"promote", "report", "gone"},
           committed = n => phase \in {"report", "gone"}
    PROVE  ConvInv'
<1>1. ConvTypes /\ AttemptInv(n) /\ n \in Keys
  BY DEF ConvInv, Keys
<1>2. /\ at' \in [C!Attempts -> C!Phases] /\ at'[n] = phase
      /\ \A m \in C!Attempts \ {n} : at'[m] = at[m]
  BY <1>1, Phased
<1>3. /\ todo' \in [Keys -> SUBSET C!Attempts] /\ doomed' \in [Keys -> Keys]
      /\ \A b \in Keys \ {n} : todo'[b] = todo[b] /\ doomed'[b] = doomed[b]
      /\ \/ todo'[n] = todo[n] /\ doomed'[n] = doomed[n]
            /\ (phase \in {"clean", "undo"} \/ at[n] \notin {"clean", "undo"} \/ todo[n] = {})
         \/ todo'[n] = {} /\ doomed'[n] = C!None
         \/ todo'[n] = seen[n] /\ doomed'[n] = C!None /\ phase \in {"clean", "undo"}
  <2>1. CASE UNCHANGED <<todo, doomed>> /\ (phase \in {"clean", "undo"} \/ at[n] \notin {"clean", "undo"} \/ todo[n] = {})
    BY <2>1, <1>1 DEF ConvTypes
  <2>2. CASE C!Sweeps(n, {})
    BY <2>2, <1>1, Swept
  <2>3. CASE C!Sweeps(n, seen[n]) /\ phase \in {"clean", "undo"}
    <3>1. seen[n] \in SUBSET C!Attempts
      BY <1>1 DEF ConvTypes
    <3> QED BY <2>3, <3>1, <1>1, Swept
  <2> QED BY <2>1, <2>2, <2>3
<1>4. ConvTypes'
  BY <1>1, <1>2, <1>3 DEF ConvTypes
<1>5. AttemptInv(n)'
  <2>1. todo'[n] \subseteq seen'[n] /\ doomed'[n] \in todo'[n] \cup {C!None}
    BY <1>1, <1>3 DEF AttemptInv
  <2>2. phase \notin {"clean", "undo"} => todo'[n] = {} /\ doomed'[n] = C!None
    BY <1>1, <1>3 DEF AttemptInv
  <2>3. phase \in {"convert", "clean"} => n \notin seen'[n]
    BY <1>1 DEF AttemptInv
  <2> QED BY <1>1, <1>2, <2>1, <2>2, <2>3 DEF AttemptInv
<1>6. \A m \in C!Attempts \ {n} : todo'[m] = todo[m] /\ doomed'[m] = doomed[m]
  BY <1>3 DEF Keys
<1>7. doomed'[C!Cleaner] = doomed[C!Cleaner]
  BY <1>3, Bounds DEF Keys, C!Cleaner, C!None
<1> QED BY <1>1, <1>2, <1>4, <1>5, <1>6, <1>7, AttemptMove

\* The usual case: nothing is seen, reserved or reported on the way.
LEMMA PhaseStep ==
    ASSUME ConvInv, NEW n \in C!Attempts, NEW phase \in C!Phases, C!Goto(n, phase),
           UNCHANGED <<job, committed, txn, reservation, cleaner, seen>>,
           \/ UNCHANGED <<todo, doomed>> /\ (phase \in {"clean", "undo"} \/ at[n] \notin {"clean", "undo"} \/ todo[n] = {})
           \/ C!Sweeps(n, {})
           \/ C!Sweeps(n, seen[n]) /\ phase \in {"clean", "undo"},
           phase \notin {"unborn", "put", "staged", "promote"}, at[n] # "unborn",
           phase \in {"convert", "clean"} => at[n] \in {"convert", "clean"},
           objects' \cup flying' \subseteq job.staged,
           \A k \in objects \ objects' : k = doomed[n] /\ k # C!None,
           txn = n => phase \in {"promote", "report", "gone"},
           committed = n => phase \in {"report", "gone"}
    PROVE  ConvInv'
<1>1. C!ChargedForWhatIsKept'
  BY ChargedStays
<1>2. /\ reservation' \in [C!Attempts -> {"none", "reserved", "finalized", "refunded", "expired"}]
      /\ cleaner' \in [status : {"none", "pending", "sweeping", "done", "dead_letter"}, attempts : Nat]
      /\ seen' \in [C!Attempts -> SUBSET C!Attempts]
  BY DEF ConvInv, ConvTypes
<1>3. \A k \in seen'[n] : k <= n
  BY DEF ConvInv, AttemptInv
<1> QED BY <1>1, <1>2, <1>3, PhaseMove

LEMMA SameObjects ==
    ASSUME ConvInv, UNCHANGED <<objects, flying>>
    PROVE  objects' \cup flying' \subseteq job.staged /\ objects \ objects' = {}
  BY DEF ConvInv, StagedInv

\* An attempt that gives up before its promotion.
LEMMA GivesUpStep ==
    ASSUME ConvInv, NEW n \in C!Attempts, C!GivesUp(n), at[n] \in {"intend", "put", "staged"},
           UNCHANGED <<job, committed, txn, reservation, cleaner, seen>>,
           objects \subseteq objects', objects' \cup flying' \subseteq job.staged
    PROVE  ConvInv'
<1>1. txn # n /\ committed # n
  BY NotPromoting
<1>2. CASE C!Goto(n, "report") /\ UNCHANGED <<todo, doomed>>
  BY <1>1, <1>2, PhaseStep DEF C!Phases
<1>3. CASE C!Goto(n, "undo") /\ C!Sweeps(n, seen[n])
  BY <1>1, <1>3, PhaseStep DEF C!Phases
<1> QED BY <1>2, <1>3 DEF C!GivesUp

LEMMA ConvertStep == ASSUME ConvInv, NEW n \in C!Attempts, C!Convert(n) PROVE ConvInv'
<1>1. /\ at[n] = "convert"
      /\ UNCHANGED <<job, seen, deferred, objects, flying, reservation, committed, txn, deleted, cleaner>>
  BY DEF C!Convert
<1>2. /\ txn # n /\ committed # n
      /\ objects' \cup flying' \subseteq job.staged /\ objects \ objects' = {}
  BY <1>1, NotPromoting, SameObjects
<1>3. CASE C!Goto(n, "clean") /\ C!Sweeps(n, seen[n])
  BY <1>1, <1>2, <1>3, PhaseStep DEF C!Phases
<1>4. CASE C!Goto(n, "fail") /\ UNCHANGED <<todo, doomed>>
  BY <1>1, <1>2, <1>4, PhaseStep DEF C!Phases
<1>5. CASE C!Goto(n, "gone") /\ UNCHANGED <<todo, doomed>>
  BY <1>1, <1>2, <1>5, PhaseStep DEF C!Phases
<1> QED BY <1>3, <1>4, <1>5 DEF C!Convert

LEMMA SweepFailsStep == ASSUME ConvInv, NEW n \in C!Attempts, C!SweepFails(n) PROVE ConvInv'
<1>1. /\ UNCHANGED <<job, seen, flying, reservation, committed, txn, deleted, cleaner>>
      /\ C!Sweeping(n) /\ objects' \in {objects, objects \ {doomed[n]}} /\ C!Sweeps(n, {})
      /\ C!Goto(n, "reportfail") \/ UNCHANGED at
  BY DEF C!SweepFails
<1>2. /\ at[n] \in {"clean", "undo"}
  BY <1>1, Bounds DEF C!Sweeping, C!Cleaner, C!None
<1>3. txn # n /\ committed # n
  BY <1>2, NotPromoting
<1>4. objects' \cup flying' \subseteq job.staged /\ \A k \in objects \ objects' : k = doomed[n] /\ k # C!None
  <2>1. objects \subseteq C!Attempts
    BY DEF ConvInv, StagedInv, ConvTypes, JobRecs
  <2> QED BY <1>1, <2>1, Bounds DEF ConvInv, StagedInv
<1>5. CASE C!Goto(n, "reportfail")
  BY <1>1, <1>2, <1>3, <1>4, <1>5, PhaseStep DEF C!Phases
<1>6. CASE UNCHANGED at
  <2>1. C!Goto(n, at[n]) /\ at[n] \in C!Phases
    BY <1>6 DEF ConvInv, ConvTypes, C!Goto
  <2> QED BY <1>1, <1>2, <1>3, <1>4, <2>1, PhaseStep
<1> QED BY <1>1, <1>5, <1>6

LEMMA CleanedStep == ASSUME ConvInv, NEW n \in C!Attempts, C!Cleaned(n) PROVE ConvInv'
<1>1. /\ at[n] = "clean" /\ todo[n] = {} /\ C!Goto(n, "reserve")
      /\ UNCHANGED <<job, seen, todo, doomed, deferred, objects, flying, reservation, committed, txn, deleted, cleaner>>
  BY DEF C!Cleaned
<1> QED BY <1>1, NotPromoting, SameObjects, PhaseStep DEF C!Phases

LEMMA ReserveStep == ASSUME ConvInv, NEW n \in C!Attempts, C!Reserve(n) PROVE ConvInv'
<1>1. /\ at[n] = "reserve"
      /\ UNCHANGED <<job, seen, todo, doomed, deferred, objects, flying, committed, txn, deleted, cleaner>>
      /\ reservation' = [reservation EXCEPT ![n] = "reserved"] \/ UNCHANGED reservation
      /\ C!Goto(n, "intend") \/ C!Goto(n, "fail")
  BY DEF C!Reserve
<1>2. txn # n /\ committed # n /\ objects' \cup flying' \subseteq job.staged /\ objects \ objects' = {}
  BY <1>1, NotPromoting, SameObjects
<1>3. /\ C!ChargedForWhatIsKept'
      /\ reservation' \in [C!Attempts -> {"none", "reserved", "finalized", "refunded", "expired"}]
  BY <1>1, <1>2 DEF ConvInv, ConvTypes, C!ChargedForWhatIsKept
<1>4. /\ cleaner' \in [status : {"none", "pending", "sweeping", "done", "dead_letter"}, attempts : Nat]
      /\ seen' \in [C!Attempts -> SUBSET C!Attempts] /\ \A k \in seen'[n] : k <= n
  BY <1>1 DEF ConvInv, ConvTypes, AttemptInv
<1>5. CASE C!Goto(n, "intend")
  BY <1>1, <1>2, <1>3, <1>4, <1>5, PhaseMove DEF C!Phases
<1>6. CASE C!Goto(n, "fail")
  BY <1>1, <1>2, <1>3, <1>4, <1>6, PhaseMove DEF C!Phases
<1> QED BY <1>1, <1>5, <1>6

LEMMA IntendStep == ASSUME ConvInv, NEW n \in C!Attempts, C!Intend(n) PROVE ConvInv'
<1>1. /\ at[n] = "intend" /\ UNCHANGED <<deferred, objects, flying, reservation, committed, txn, deleted, cleaner>>
  BY DEF C!Intend
<1>2. /\ ConvTypes /\ AttemptInv(n) /\ txn # n /\ committed # n
      /\ objects' \cup flying' \subseteq job.staged /\ objects \subseteq objects'
  BY <1>1, NotPromoting, SameObjects DEF ConvInv
<1>3. CASE C!GivesUp(n) /\ UNCHANGED <<job, seen>>
  BY <1>1, <1>2, <1>3, GivesUpStep
<1>4. CASE /\ C!Fenced(n) /\ job' = [job EXCEPT !.staged = @ \cup {n}]
           /\ \/ seen' = [seen EXCEPT ![n] = @ \cup {n}] /\ C!Goto(n, "put") /\ UNCHANGED <<todo, doomed>>
              \/ C!GivesUp(n) /\ UNCHANGED seen
  <2>1. /\ job \in JobRecs /\ job' \in JobRecs /\ job'.status = job.status /\ job'.attempts = job.attempts
        /\ job'.staged = job.staged \cup {n}
    BY <1>2, <1>4 DEF ConvTypes, JobRecs
  <2>2. txn = C!None /\ job.status = "leased" /\ job.attempts = n /\ committed = C!None
    BY <1>4 DEF C!Fenced, C!Owns, ConvInv, PromotedInv
  <2>3. n \in Nat /\ n \in Keys /\ n # C!Cleaner
    BY Bounds DEF C!Attempts, Keys, C!Cleaner, C!None
  <2>4. /\ C!Goto(n, "put") \/ C!Goto(n, "undo")
        /\ seen' = [seen EXCEPT ![n] = @ \cup {n}] \/ UNCHANGED seen
    BY <1>4, <2>2 DEF C!GivesUp, C!Owns
  <2>5. \A m \in C!Attempts \ {n} : at'[m] = at[m] /\ seen'[m] = seen[m]
    BY <1>2, <2>4 DEF C!Goto, ConvTypes
  <2>6. /\ todo' \in [Keys -> SUBSET C!Attempts] /\ doomed' \in [Keys -> Keys]
        /\ \A b \in Keys \ {n} : todo'[b] = todo[b] /\ doomed'[b] = doomed[b]
        /\ \/ todo'[n] = {} /\ doomed'[n] = C!None
           \/ todo'[n] = seen[n] /\ doomed'[n] = C!None /\ C!Goto(n, "undo")
    <3>1. CASE UNCHANGED <<todo, doomed>>
      BY <1>1, <1>2, <3>1 DEF ConvTypes, AttemptInv
    <3>2. CASE C!Goto(n, "undo") /\ C!Sweeps(n, seen[n])
      <4>1. seen[n] \in SUBSET C!Attempts
        BY <1>2 DEF ConvTypes
      <4> QED BY <1>2, <2>3, <3>2, <4>1, Swept
    <3> QED BY <1>4, <2>2, <3>1, <3>2 DEF C!GivesUp, C!Owns
  <2>7. /\ seen' \in [C!Attempts -> SUBSET C!Attempts] /\ seen[n] \subseteq seen'[n] /\ seen'[n] \subseteq seen[n] \cup {n}
    BY <1>2, <2>4 DEF ConvTypes
  <2>8. at' \in [C!Attempts -> C!Phases] /\ at'[n] \in {"put", "undo"}
    BY <1>2, <2>4, Phased DEF C!Phases
  <2>9. ConvTypes'
    BY <1>1, <1>2, <2>1, <2>6, <2>7, <2>8 DEF ConvTypes
  <2>10. AttemptInv(n)'
    <3>1. at'[n] = "put" => todo'[n] = {}
      BY <1>2, <2>6, <2>8, Phased DEF C!Phases
    <3>2. todo'[n] \subseteq seen'[n] /\ doomed'[n] = C!None
      BY <2>6, <2>7
    <3>3. \A k \in seen'[n] : k <= n
      BY <1>2, <2>3, <2>7 DEF AttemptInv
    <3>4. n <= job'.attempts
      BY <2>1, <2>2, <2>3
    <3> QED BY <2>1, <2>8, <3>1, <3>2, <3>3, <3>4 DEF AttemptInv
  <2>11. ASSUME NEW m \in C!Attempts, m # n PROVE AttemptInv(m)'
    <3>1. job.attempts <= job'.attempts /\ job'.attempts \in Nat /\ job.staged \subseteq job'.staged
      BY <2>1, <2>2, <2>3
    <3>2. C!Owns(m)' => C!Owns(m)
      BY <2>1 DEF C!Owns
    <3>3. todo'[m] = todo[m] /\ doomed'[m] = doomed[m]
      BY <2>6, <2>11 DEF Keys
    <3> QED BY <1>1, <2>5, <2>11, <3>1, <3>2, <3>3, AttemptRests
  <2>12. StagedInv' /\ CleanerInv'
    <3>1. \A k \in job'.staged : k <= job'.attempts
      BY <2>1, <2>2, <2>3 DEF ConvInv, StagedInv
    <3>2. doomed'[C!Cleaner] = doomed[C!Cleaner]
      BY <2>3, <2>6 DEF Keys, C!Cleaner, C!None
    <3> QED BY <1>1, <1>2, <2>1, <3>1, <3>2 DEF ConvInv, StagedInv, CleanerInv, C!Terminal
  <2> QED BY <1>1, <2>2, <2>9, <2>10, <2>11, <2>12, ChargedStays, ConvMove
<1> QED BY <1>3, <1>4 DEF C!Intend

LEMMA PutStep == ASSUME ConvInv, NEW n \in C!Attempts, C!Put(n) PROVE ConvInv'
<1>1. /\ at[n] = "put"
      /\ UNCHANGED <<job, seen, deferred, reservation, committed, txn, deleted, cleaner>>
  BY DEF C!Put
<1>2. /\ ConvTypes /\ AttemptInv(n) /\ txn # n /\ committed # n /\ n \in job.staged
      /\ objects \cup flying \subseteq job.staged /\ todo[n] = {} /\ doomed[n] = C!None
  BY <1>1, NotPromoting DEF ConvInv, AttemptInv, StagedInv
<1>3. CASE objects' = objects \cup {n} /\ UNCHANGED flying /\ C!Goto(n, "staged") /\ UNCHANGED <<todo, doomed>>
  <2>1. /\ at' \in [C!Attempts -> C!Phases] /\ at'[n] = "staged"
        /\ \A m \in C!Attempts \ {n} : at'[m] = at[m]
    BY <1>2, <1>3, Phased DEF C!Phases
  <2>2. ConvTypes'
    BY <1>1, <1>2, <1>3, <2>1 DEF ConvTypes
  <2>3. AttemptInv(n)'
    BY <1>1, <1>2, <1>3, <2>1 DEF AttemptInv
  <2>4. objects' \cup flying' \subseteq job.staged /\ objects \ objects' = {}
    BY <1>2, <1>3
  <2> QED BY <1>1, <1>2, <1>3, <2>1, <2>2, <2>3, <2>4, ChargedStays, AttemptMove
<1>4. CASE objects' = objects \cup {n} /\ UNCHANGED flying /\ C!GivesUp(n)
  BY <1>1, <1>2, <1>4, GivesUpStep
<1>5. CASE flying' \in {flying, flying \cup {n}} /\ UNCHANGED objects /\ C!GivesUp(n)
  BY <1>1, <1>2, <1>5, GivesUpStep
<1> QED BY <1>3, <1>4, <1>5 DEF C!Put

LEMMA LatePutStep == ASSUME ConvInv, NEW k \in C!Attempts, C!LatePut(k) PROVE ConvInv'
<1>1. /\ k \in flying /\ flying' = flying \ {k} /\ objects' = objects \cup {k}
      /\ UNCHANGED <<job, at, seen, todo, doomed, deferred, reservation, committed, txn, deleted, cleaner>>
  BY DEF C!LatePut
<1>2. ConvTypes' /\ CleanerInv' /\ StagedInv'
  BY <1>1 DEF ConvInv, ConvTypes, CleanerInv, StagedInv, C!Terminal
<1>3. \A m \in C!Attempts : AttemptInv(m)'
  BY <1>1 DEF ConvInv, AttemptInv, C!Owns
<1>4. PromotionInv' /\ PromotedInv'
  BY <1>1 DEF ConvInv, PromotionInv, PromotedInv, C!Owns
<1> QED BY <1>1, <1>2, <1>3, <1>4, ChargedStays DEF ConvInv

LEMMA StagedStep == ASSUME ConvInv, NEW n \in C!Attempts, C!Staged(n) PROVE ConvInv'
<1>1. /\ at[n] = "staged"
      /\ UNCHANGED <<job, seen, deferred, objects, flying, reservation, committed, txn, deleted, cleaner>>
  BY DEF C!Staged
<1>2. /\ ConvTypes /\ AttemptInv(n) /\ txn # n /\ committed # n
      /\ objects' \cup flying' \subseteq job.staged /\ objects \ objects' = {} /\ objects \subseteq objects'
  BY <1>1, NotPromoting, SameObjects DEF ConvInv
<1>3. CASE C!Fenced(n) /\ C!Goto(n, "promote") /\ UNCHANGED <<todo, doomed>>
  <2>1. /\ at' \in [C!Attempts -> C!Phases] /\ at'[n] = "promote"
        /\ \A m \in C!Attempts \ {n} : at'[m] = at[m]
    BY <1>2, <1>3, Phased DEF C!Phases
  <2>2. ConvTypes'
    BY <1>1, <1>2, <1>3, <2>1 DEF ConvTypes
  <2>3. AttemptInv(n)'
    BY <1>1, <1>2, <1>3, <2>1 DEF AttemptInv, C!Owns
  <2> QED BY <1>1, <1>2, <1>3, <2>1, <2>2, <2>3, ChargedStays, AttemptMove
<1>4. CASE C!Goto(n, "report") /\ UNCHANGED <<todo, doomed>>
  BY <1>1, <1>2, <1>4, PhaseStep DEF C!Phases
<1>5. CASE C!GivesUp(n)
  BY <1>1, <1>2, <1>5, GivesUpStep
<1> QED BY <1>3, <1>4, <1>5 DEF C!Staged

LEMMA BeginPromotionStep == ASSUME ConvInv, NEW n \in C!Attempts, C!BeginPromotion(n) PROVE ConvInv'
<1>1. /\ at[n] = "promote" /\ C!Fenced(n) /\ committed = C!None /\ txn' = n
      /\ UNCHANGED <<job, at, seen, todo, doomed, deferred, objects, flying, reservation, committed, deleted, cleaner>>
  BY DEF C!BeginPromotion, C!Accepted
<1>2. C!Owns(n) /\ n \in objects
  BY <1>1 DEF ConvInv, AttemptInv, C!Fenced
<1>3. PromotionInv' /\ PromotedInv'
  BY <1>1, <1>2 DEF PromotionInv, PromotedInv, C!Owns
<1>4. ConvTypes' /\ CleanerInv' /\ StagedInv'
  BY <1>1 DEF ConvInv, ConvTypes, CleanerInv, StagedInv, C!Terminal, Keys
<1>5. \A m \in C!Attempts : AttemptInv(m)'
  BY <1>1 DEF ConvInv, AttemptInv, C!Owns
<1> QED BY <1>1, <1>3, <1>4, <1>5, ChargedStays DEF ConvInv

LEMMA PromotionRefusedStep == ASSUME ConvInv, NEW n \in C!Attempts, C!PromotionRefused(n) PROVE ConvInv'
<1>1. /\ at[n] = "promote" /\ txn = C!None
      /\ UNCHANGED <<job, seen, deferred, objects, flying, reservation, committed, txn, deleted, cleaner>>
  BY DEF C!PromotionRefused
<1>2. /\ txn # n /\ committed # n /\ objects' \cup flying' \subseteq job.staged /\ objects \ objects' = {}
  BY <1>1, SameObjects, Bounds DEF ConvInv, PromotedInv
<1>3. CASE C!Goto(n, "undo") /\ C!Sweeps(n, seen[n])
  BY <1>1, <1>2, <1>3, PhaseStep DEF C!Phases
<1>4. CASE C!Goto(n, "report") /\ UNCHANGED <<todo, doomed>>
  BY <1>1, <1>2, <1>4, PhaseStep DEF C!Phases
<1> QED BY <1>3, <1>4 DEF C!PromotionRefused

LEMMA DropPromotionStep == ASSUME ConvInv, NEW n \in C!Attempts, C!DropPromotion(n) PROVE ConvInv'
<1>1. /\ at[n] = "promote" /\ C!Goto(n, "report") /\ UNCHANGED <<todo, doomed>>
      /\ UNCHANGED <<job, seen, deferred, objects, flying, reservation, committed, txn, deleted, cleaner>>
  BY DEF C!DropPromotion, C!AfterLostPromotion
<1> QED BY <1>1, SameObjects, PhaseStep DEF C!Phases

LEMMA CommitPromotionStep == ASSUME ConvInv, C!CommitPromotion PROVE ConvInv'
<1>0. PICK n \in C!Attempts : n = txn
  BY DEF C!CommitPromotion, ConvInv, ConvTypes, Keys
<1>1. /\ n # C!None /\ txn' = C!None /\ committed' = n
      /\ job' = [job EXCEPT !.status = "succeeded"]
      /\ reservation' = [reservation EXCEPT ![n] = "finalized"]
      /\ UNCHANGED <<seen, todo, doomed, deferred, objects, flying, deleted, cleaner>>
      /\ \/ at[n] = "promote" /\ (C!Goto(n, "gone") \/ C!Goto(n, "report"))
         \/ at[n] # "promote" /\ UNCHANGED at
  BY <1>0 DEF C!CommitPromotion
<1>2. /\ ConvTypes /\ n \in C!Attempts /\ committed = C!None /\ C!Owns(n) /\ n \in objects
      /\ at[n] \in {"promote", "report", "gone"}
  BY <1>0, <1>1 DEF ConvInv, ConvTypes, Keys, PromotionInv
<1>3. /\ at' \in [C!Attempts -> C!Phases] /\ at'[n] \in {"report", "gone"}
      /\ \A m \in C!Attempts \ {n} : at'[m] = at[m]
  <2>1. CASE at[n] = "promote"
    BY <1>1, <1>2, <2>1, Phased DEF C!Phases
  <2>2. CASE at[n] # "promote"
    BY <1>1, <1>2, <2>2 DEF ConvTypes
  <2> QED BY <2>1, <2>2
<1>4. /\ job' \in JobRecs /\ job'.status = "succeeded" /\ job'.attempts = job.attempts /\ job'.staged = job.staged
      /\ job.attempts = n /\ job.status = "leased"
  BY <1>1, <1>2 DEF ConvTypes, JobRecs, C!Owns
<1>5. ConvTypes'
  BY <1>1, <1>2, <1>3, <1>4 DEF ConvTypes, Keys
<1>6. PromotionInv' /\ PromotedInv'
  BY <1>0, <1>1, <1>2, <1>3, <1>4 DEF PromotionInv, PromotedInv
<1>7. StagedInv' /\ CleanerInv'
  BY <1>1, <1>2, <1>4 DEF ConvInv, StagedInv, CleanerInv, C!Terminal
<1>8. C!ChargedForWhatIsKept'
  <2>1. \A m \in C!Attempts : reservation[m] # "finalized"
    BY <1>2, Bounds DEF ConvInv, C!ChargedForWhatIsKept
  <2> QED BY <1>1, <1>2, <2>1 DEF ConvTypes, C!ChargedForWhatIsKept
<1>9. ASSUME NEW m \in C!Attempts PROVE AttemptInv(m)'
  <2>1. AttemptInv(m) /\ ~C!Owns(m)'
    BY <1>4 DEF ConvInv, C!Owns
  <2>2. CASE m = n
    BY <1>1, <1>2, <1>3, <1>4, <2>1, <2>2 DEF AttemptInv
  <2>3. CASE m # n
    BY <1>1, <1>3, <1>4, <2>1, <2>3 DEF AttemptInv
  <2> QED BY <2>2, <2>3
<1> QED BY <1>5, <1>6, <1>7, <1>8, <1>9 DEF ConvInv

LEMMA RollBackStep == ASSUME ConvInv, C!RollBack PROVE ConvInv'
<1>0. PICK n \in C!Attempts : n = txn
  BY DEF C!RollBack, ConvInv, ConvTypes, Keys
<1>1. /\ n # C!None /\ txn' = C!None
      /\ UNCHANGED <<job, seen, deferred, objects, flying, reservation, committed, deleted, cleaner>>
      /\ \/ at[n] = "promote" /\ C!Goto(n, "report") /\ UNCHANGED <<todo, doomed>>
         \/ at[n] = "promote" /\ C!Goto(n, "undo") /\ C!Sweeps(n, seen[n])
         \/ UNCHANGED <<at, todo, doomed>>
  BY <1>0 DEF C!RollBack, C!AfterLostPromotion
<1>2. /\ ConvTypes /\ n \in C!Attempts /\ n \in Keys /\ committed = C!None /\ AttemptInv(n)
      /\ seen[n] \in SUBSET C!Attempts
  BY <1>0, <1>1 DEF ConvInv, ConvTypes, Keys, PromotionInv
<1>3. /\ at' \in [C!Attempts -> C!Phases]
      /\ \A m \in C!Attempts \ {n} : at'[m] = at[m]
      /\ todo' \in [Keys -> SUBSET C!Attempts] /\ doomed' \in [Keys -> Keys]
      /\ \A b \in Keys \ {n} : todo'[b] = todo[b] /\ doomed'[b] = doomed[b]
      /\ \/ at'[n] = "report" /\ at[n] = "promote" /\ todo'[n] = todo[n] /\ doomed'[n] = doomed[n]
         \/ at'[n] = "undo" /\ todo'[n] = seen[n] /\ doomed'[n] = C!None /\ at[n] = "promote"
         \/ at'[n] = at[n] /\ todo'[n] = todo[n] /\ doomed'[n] = doomed[n]
  <2>1. CASE at[n] = "promote" /\ C!Goto(n, "report") /\ UNCHANGED <<todo, doomed>>
    <3>1. todo' \in [Keys -> SUBSET C!Attempts] /\ doomed' \in [Keys -> Keys]
      BY <1>2, <2>1 DEF ConvTypes
    <3> QED BY <1>2, <2>1, <3>1, Phased DEF C!Phases
  <2>2. CASE at[n] = "promote" /\ C!Goto(n, "undo") /\ C!Sweeps(n, seen[n])
    BY <1>2, <2>2, Phased, Swept DEF C!Phases
  <2>3. CASE UNCHANGED <<at, todo, doomed>>
    BY <1>2, <2>3 DEF ConvTypes
  <2> QED BY <1>1, <2>1, <2>2, <2>3
<1>4. ConvTypes'
  BY <1>1, <1>2, <1>3, Bounds DEF ConvTypes, Keys
<1>5. AttemptInv(n)'
  <2>1. C!Owns(n)' => C!Owns(n)
    BY <1>1 DEF C!Owns
  <2> QED BY <1>1, <1>2, <1>3, <2>1 DEF AttemptInv
<1>6. ASSUME NEW m \in C!Attempts, m # n PROVE AttemptInv(m)'
  <2>1. todo'[m] = todo[m] /\ doomed'[m] = doomed[m] /\ AttemptInv(m)
    BY <1>3, <1>6 DEF Keys, ConvInv
  <2> QED BY <1>1, <1>3, <1>6, <2>1 DEF AttemptInv, C!Owns
<1>7. doomed'[C!Cleaner] = doomed[C!Cleaner]
  BY <1>2, <1>3, Bounds DEF Keys, C!Cleaner, C!None
<1>8. PromotionInv' /\ PromotedInv' /\ StagedInv' /\ CleanerInv'
  BY <1>1, <1>2, <1>7 DEF ConvInv, PromotionInv, PromotedInv, StagedInv, CleanerInv, C!Terminal
<1> QED BY <1>1, <1>4, <1>5, <1>6, <1>8, ChargedStays DEF ConvInv

LEMMA Refunds ==
    ASSUME ConvInv, NEW keep \in SUBSET Nat, reservation' = C!Refund(keep), UNCHANGED committed
    PROVE  /\ C!ChargedForWhatIsKept'
           /\ reservation' \in [C!Attempts -> {"none", "reserved", "finalized", "refunded", "expired"}]
  BY DEF ConvInv, ConvTypes, C!Refund, C!Refundable, C!ChargedForWhatIsKept

LEMMA UndoneStep == ASSUME ConvInv, NEW n \in C!Attempts, C!Undone(n) PROVE ConvInv'
<1>1. /\ at[n] = "undo" /\ todo[n] = {}
      /\ UNCHANGED <<job, seen, todo, doomed, deferred, objects, flying, committed, txn, deleted, cleaner>>
      /\ reservation' = C!Refund({n}) \/ UNCHANGED reservation
      /\ C!Goto(n, "reportfail") \/ C!Goto(n, "fail")
  BY DEF C!Undone
<1>2. txn # n /\ committed # n /\ objects' \cup flying' \subseteq job.staged /\ objects \ objects' = {}
  BY <1>1, NotPromoting, SameObjects
<1>3. /\ C!ChargedForWhatIsKept'
      /\ reservation' \in [C!Attempts -> {"none", "reserved", "finalized", "refunded", "expired"}]
  <2>1. CASE reservation' = C!Refund({n})
    <3>1. {n} \in SUBSET Nat
      BY Bounds DEF C!Attempts
    <3> QED BY <1>1, <2>1, <3>1, Refunds
  <2>2. CASE UNCHANGED reservation
    BY <1>1, <2>2, ChargedStays DEF ConvInv, ConvTypes
  <2> QED BY <1>1, <2>1, <2>2
<1>4. /\ cleaner' \in [status : {"none", "pending", "sweeping", "done", "dead_letter"}, attempts : Nat]
      /\ seen' \in [C!Attempts -> SUBSET C!Attempts] /\ \A k \in seen'[n] : k <= n
  BY <1>1 DEF ConvInv, ConvTypes, AttemptInv
<1>5. CASE C!Goto(n, "reportfail")
  BY <1>1, <1>2, <1>3, <1>4, <1>5, PhaseMove DEF C!Phases
<1>6. CASE C!Goto(n, "fail")
  BY <1>1, <1>2, <1>3, <1>4, <1>6, PhaseMove DEF C!Phases
<1> QED BY <1>1, <1>5, <1>6

LEMMA ReportStep == ASSUME ConvInv, NEW n \in C!Attempts, C!Report(n) PROVE ConvInv'
<1>1. /\ at[n] \in {"report", "reportfail"}
      /\ UNCHANGED <<job, seen, todo, doomed, deferred, objects, flying, reservation, committed, txn, deleted>>
      /\ cleaner' = [cleaner EXCEPT !.status = "pending"] \/ cleaner' = cleaner
      /\ C!Goto(n, IF at[n] = "report" THEN "gone" ELSE "fail")
  BY DEF C!Report
<1>2. /\ objects' \cup flying' \subseteq job.staged /\ objects \ objects' = {} /\ C!ChargedForWhatIsKept'
      /\ at[n] = "reportfail" => txn # n /\ committed # n
  BY <1>1, NotPromoting, SameObjects, ChargedStays
<1>3. /\ cleaner' \in [status : {"none", "pending", "sweeping", "done", "dead_letter"}, attempts : Nat]
      /\ cleaner'.status = "sweeping" => cleaner.status = "sweeping"
  BY <1>1 DEF ConvInv, ConvTypes
<1>4. /\ reservation' \in [C!Attempts -> {"none", "reserved", "finalized", "refunded", "expired"}]
      /\ seen' \in [C!Attempts -> SUBSET C!Attempts] /\ \A k \in seen'[n] : k <= n
  BY <1>1 DEF ConvInv, ConvTypes, AttemptInv
<1>5. CASE at[n] = "report"
  BY <1>1, <1>2, <1>3, <1>4, <1>5, PhaseMove DEF C!Phases
<1>6. CASE at[n] = "reportfail"
  BY <1>1, <1>2, <1>3, <1>4, <1>6, PhaseMove DEF C!Phases
<1> QED BY <1>1, <1>5, <1>6

LEMMA CrashStep == ASSUME ConvInv, NEW n \in C!Attempts, C!Crash(n) PROVE ConvInv'
<1>1. /\ at[n] # "unborn" /\ C!Goto(n, "gone") /\ C!Sweeps(n, {})
      /\ flying' \in {flying, IF at[n] = "put" THEN flying \cup {n} ELSE flying}
      /\ objects' \in {objects, objects \ {doomed[n]}}
      /\ UNCHANGED <<job, seen, deferred, reservation, committed, txn, deleted, cleaner>>
  BY DEF C!Crash, C!Busy
<1>2. objects \cup flying \subseteq job.staged /\ objects \subseteq C!Attempts /\ (at[n] = "put" => n \in job.staged)
  BY DEF ConvInv, StagedInv, AttemptInv, ConvTypes, JobRecs
<1>3. objects' \cup flying' \subseteq job.staged /\ \A k \in objects \ objects' : k = doomed[n] /\ k # C!None
  BY <1>1, <1>2, Bounds
<1> QED BY <1>1, <1>3, PhaseStep DEF C!Phases

LEMMA ReservationExpiresStep == ASSUME ConvInv, NEW n \in C!Attempts, C!ReservationExpires(n) PROVE ConvInv'
<1>1. /\ reservation[n] = "reserved" /\ reservation' = [reservation EXCEPT ![n] = "expired"]
      /\ UNCHANGED <<job, at, seen, todo, doomed, deferred, objects, flying, committed, txn, deleted, cleaner>>
  BY DEF C!ReservationExpires
<1>2. ConvTypes' /\ CleanerInv' /\ StagedInv' /\ PromotionInv' /\ PromotedInv'
  BY <1>1 DEF ConvInv, ConvTypes, CleanerInv, StagedInv, PromotionInv, PromotedInv, C!Terminal, C!Owns
<1>3. \A m \in C!Attempts : AttemptInv(m)'
  BY <1>1 DEF ConvInv, AttemptInv, C!Owns
<1>4. C!ChargedForWhatIsKept'
  BY <1>1 DEF ConvInv, ConvTypes, C!ChargedForWhatIsKept
<1> QED BY <1>2, <1>3, <1>4 DEF ConvInv

\* A job that ends or is to be tried again without a promotion.
LEMMA JobEnds ==
    ASSUME ConvInv, txn = C!None, job.status \in {"pending", "leased"},
           NEW s \in {"pending", "dead_letter", "cancelled"}, job' = [job EXCEPT !.status = s],
           UNCHANGED <<seen, todo, doomed, objects, flying, reservation, committed, txn, cleaner>>,
           at' \in [C!Attempts -> C!Phases],
           \A m \in C!Attempts : at'[m] = at[m] \/ (at[m] = "fail" /\ at'[m] = "gone")
    PROVE  ConvInv'
<1>1. /\ ConvTypes /\ job' \in JobRecs /\ job'.status = s /\ job'.attempts = job.attempts /\ job'.staged = job.staged
      /\ committed = C!None /\ cleaner.status # "sweeping" /\ doomed[C!Cleaner] = C!None
  BY DEF ConvInv, ConvTypes, JobRecs, PromotedInv, CleanerInv, C!Terminal
<1>2. ConvTypes'
  BY <1>1 DEF ConvTypes
<1>3. PromotionInv' /\ PromotedInv' /\ StagedInv' /\ CleanerInv'
  BY <1>1 DEF ConvInv, PromotionInv, PromotedInv, StagedInv, CleanerInv
<1>4. ASSUME NEW m \in C!Attempts PROVE AttemptInv(m)'
  <2>1. AttemptInv(m) /\ ~C!Owns(m)'
    BY <1>1 DEF ConvInv, C!Owns
  <2> QED BY <1>1, <2>1 DEF AttemptInv
<1> QED BY <1>2, <1>3, <1>4, ChargedStays DEF ConvInv

LEMMA JobStep ==
    ASSUME ConvInv, C!Claim \/ C!LeaseExpires \/ C!CancelJob \/ C!DeleteDocument
    PROVE  ConvInv'
<1>0. ConvTypes /\ job \in JobRecs /\ at \in [C!Attempts -> C!Phases]
  BY DEF ConvInv, ConvTypes
<1>1. CASE C!Claim
  <2> DEFINE n == job.attempts + 1
             j == [[job EXCEPT !.status = "leased"] EXCEPT !.attempts = n]
  <2>1. /\ txn = C!None /\ job.status = "pending" /\ n \in C!Attempts
        /\ job' = j /\ seen' = [seen EXCEPT ![n] = job.staged] /\ C!Goto(n, "convert")
        /\ UNCHANGED <<todo, doomed, deferred, objects, flying, reservation, committed, txn, deleted, cleaner>>
    BY <1>1, <1>0 DEF C!Claim, JobRecs
  <2>2. /\ j \in JobRecs /\ j.status = "leased" /\ j.attempts = n /\ j.staged = job.staged
    <3>1. n \in 0..MaxAttempts
      BY <2>1, Bounds DEF C!Attempts
    <3> HIDE DEF n
    <3> QED BY <1>0, <3>1 DEF JobRecs
  <2>3. PICK k \in C!Attempts : k = n
    BY <2>1
  <2> HIDE DEF j
  <2>4. job.attempts \in Nat /\ k = job.attempts + 1 /\ k \in Nat
    BY <1>0, <2>1, <2>3, Bounds DEF JobRecs, C!Attempts
  <2> HIDE DEF n
  <2>5. at' \in [C!Attempts -> C!Phases] /\ at'[k] = "convert" /\ \A m \in C!Attempts \ {k} : at'[m] = at[m]
    BY <1>0, <2>1, <2>3, Phased DEF C!Phases
  <2>6. /\ job' \in JobRecs /\ job'.status = "leased" /\ job'.attempts = k /\ job'.staged = job.staged
        /\ seen' = [seen EXCEPT ![k] = job.staged] /\ job.staged \in SUBSET C!Attempts
    BY <1>0, <2>1, <2>2, <2>3 DEF JobRecs
  <2>7. /\ committed = C!None /\ cleaner.status # "sweeping" /\ doomed[C!Cleaner] = C!None
    BY <2>1 DEF ConvInv, PromotedInv, CleanerInv, C!Terminal
  <2>8. ConvTypes'
    BY <1>0, <2>1, <2>5, <2>6 DEF ConvTypes
  <2>9. PromotionInv' /\ PromotedInv' /\ CleanerInv'
    BY <2>1, <2>7 DEF PromotionInv, PromotedInv, CleanerInv
  <2>10. \A i \in job.staged : i <= job.attempts /\ i \in Nat
    BY <1>0, Bounds DEF ConvInv, StagedInv, JobRecs, C!Attempts
  <2>11. StagedInv'
    BY <2>1, <2>4, <2>6, <2>10 DEF ConvInv, StagedInv
  <2>12. AttemptInv(k)'
    <3>1. at[k] = "unborn" /\ AttemptInv(k)
      BY <2>4 DEF ConvInv, AttemptInv
    <3>2. todo[k] = {} /\ doomed[k] = C!None
      BY <3>1 DEF AttemptInv
    <3>3. seen'[k] = job.staged
      BY <1>0, <2>6 DEF ConvTypes
    <3>4. k \notin job.staged /\ (\A i \in job.staged : i <= k) /\ k <= k
      BY <2>4, <2>10
    <3> QED BY <2>1, <2>5, <2>6, <3>2, <3>3, <3>4 DEF AttemptInv
  <2>13. ASSUME NEW m \in C!Attempts, m # k PROVE AttemptInv(m)'
    <3>1. AttemptInv(m) /\ ~C!Owns(m)' /\ m \in Nat
      BY <2>6, <2>13, Bounds DEF ConvInv, C!Owns, C!Attempts
    <3>2. seen'[m] = seen[m] /\ at'[m] = at[m]
      BY <1>0, <2>5, <2>6, <2>13 DEF ConvTypes
    <3> QED BY <2>1, <2>4, <2>6, <3>1, <3>2 DEF AttemptInv
  <2> QED BY <2>1, <2>8, <2>9, <2>11, <2>12, <2>13, ChargedStays DEF ConvInv
<1>2. CASE C!LeaseExpires
  <2>1. PICK s \in {"pending", "dead_letter", "cancelled"} : job' = [job EXCEPT !.status = s]
    BY <1>2 DEF C!LeaseExpires, C!Retried
  <2>2. txn = C!None /\ job.status = "leased" /\ UNCHANGED <<at, seen, todo, doomed, objects, flying, reservation, committed, txn, cleaner>>
    BY <1>2 DEF C!LeaseExpires
  <2> QED BY <1>0, <2>1, <2>2, JobEnds
<1>3. CASE C!CancelJob
  <2>1. /\ txn = C!None /\ job.status \in {"pending", "leased"} /\ job' = [job EXCEPT !.status = "cancelled"]
        /\ UNCHANGED <<at, seen, todo, doomed, objects, flying, reservation, committed, txn, cleaner>>
    BY <1>3 DEF C!CancelJob
  <2> QED BY <1>0, <2>1, JobEnds
<1>4. CASE C!DeleteDocument
  <2>1. UNCHANGED <<job, at, seen, todo, doomed, objects, flying, reservation, committed, txn, cleaner>>
    BY <1>4 DEF C!DeleteDocument
  <2>2. \A m \in C!Attempts : AttemptInv(m)'
    BY <2>1 DEF ConvInv, AttemptInv, C!Owns
  <2> QED BY <2>1, <2>2, ChargedStays DEF ConvInv, ConvTypes, PromotionInv, PromotedInv, StagedInv, CleanerInv, C!Terminal, C!Owns
<1> QED BY <1>1, <1>2, <1>3, <1>4

LEMMA FailStep == ASSUME ConvInv, NEW n \in C!Attempts, C!Fail(n) PROVE ConvInv'
<1>1. /\ at[n] = "fail" /\ C!Goto(n, "gone") /\ ((C!Fenced(n) /\ job' = C!Retried) \/ UNCHANGED job)
      /\ UNCHANGED <<seen, todo, doomed, deferred, objects, flying, reservation, committed, txn, deleted, cleaner>>
  BY DEF C!Fail
<1>2. CASE UNCHANGED job
  BY <1>1, <1>2, NotPromoting, SameObjects, PhaseStep DEF C!Phases
<1>3. CASE C!Fenced(n) /\ job' = C!Retried
  <2>1. PICK s \in {"pending", "dead_letter", "cancelled"} : job' = [job EXCEPT !.status = s]
    BY <1>3 DEF C!Retried
  <2>2. at' \in [C!Attempts -> C!Phases] /\ at'[n] = "gone" /\ \A m \in C!Attempts \ {n} : at'[m] = at[m]
    BY <1>1, Phased DEF C!Phases, ConvInv
  <2>3. txn = C!None /\ job.status = "leased"
    BY <1>3 DEF C!Fenced, C!Owns
  <2> QED BY <1>1, <2>1, <2>2, <2>3, JobEnds
<1> QED BY <1>1, <1>2, <1>3 DEF C!Fail

LEMMA CleanerStep ==
    ASSUME ConvInv, C!CleanerStarts \/ C!CleanerFinishes \/ C!CleanerFails \/ C!CollectDeadLetter
    PROVE  ConvInv'
<1> DEFINE States == {"none", "pending", "sweeping", "done", "dead_letter"}
<1>0. /\ ConvTypes /\ C!Cleaner \in Keys /\ job.staged \in SUBSET C!Attempts /\ objects \subseteq job.staged
      /\ \A m \in C!Attempts : m \in Keys /\ m # C!Cleaner
      /\ job.attempts \in Nat /\ job.attempts <= job.attempts
  BY Bounds DEF ConvInv, ConvTypes, JobRecs, Keys, C!Cleaner, C!None, StagedInv
<1>1. CASE C!CleanerStarts
  <2>1. /\ UNCHANGED <<job, at, seen, deferred, objects, flying, reservation, committed, txn, deleted>>
        /\ cleaner.status = "pending"
    BY <1>1 DEF C!CleanerStarts
  <2>2. PICK s \in {"pending", "sweeping", "dead_letter"}, a \in Nat :
          /\ cleaner' = [[cleaner EXCEPT !.attempts = a] EXCEPT !.status = s]
          /\ s = "sweeping" => C!Terminal
          /\ \/ C!Terminal /\ C!Sweeps(C!Cleaner, job.staged)
             \/ UNCHANGED <<todo, doomed>>
    <3> DEFINE claimed == [cleaner EXCEPT !.attempts = @ + 1]
    <3>1. cleaner.attempts + 1 \in Nat /\ claimed = [cleaner EXCEPT !.attempts = cleaner.attempts + 1]
      BY <1>0 DEF ConvTypes
    <3>2. CASE C!Terminal
      BY <1>1, <3>1, <3>2 DEF C!CleanerStarts
    <3>3. CASE ~C!Terminal
      <4>1. /\ cleaner' = [claimed EXCEPT !.status = IF claimed.attempts < MaxCleanups THEN "pending" ELSE "dead_letter"]
            /\ UNCHANGED <<todo, doomed>>
        BY <1>1, <3>3 DEF C!CleanerStarts
      <4> HIDE DEF claimed
      <4> QED BY <3>1, <4>1
    <3> QED BY <3>2, <3>3
  <2>3. cleaner' \in [status : States, attempts : Nat] /\ cleaner'.status = s
    BY <1>0, <2>2 DEF ConvTypes
  <2>4. /\ todo' \in [Keys -> SUBSET C!Attempts] /\ doomed' \in [Keys -> Keys]
        /\ \A m \in C!Attempts : todo'[m] = todo[m] /\ doomed'[m] = doomed[m]
        /\ doomed'[C!Cleaner] \in {doomed[C!Cleaner], C!None}
    <3>1. CASE C!Sweeps(C!Cleaner, job.staged)
      BY <1>0, <3>1, Swept
    <3>2. CASE UNCHANGED <<todo, doomed>>
      BY <1>0, <3>2 DEF ConvTypes
    <3> QED BY <2>2, <3>1, <3>2
  <2>5. ConvTypes'
    BY <1>0, <2>1, <2>3, <2>4 DEF ConvTypes
  <2>6. \A m \in C!Attempts : AttemptInv(m)'
    BY <2>1, <2>4 DEF ConvInv, AttemptInv, C!Owns
  <2>7. CleanerInv'
    BY <2>1, <2>2, <2>3, <2>4 DEF ConvInv, CleanerInv, C!Terminal
  <2>8. PromotionInv' /\ PromotedInv' /\ StagedInv'
    BY <2>1 DEF ConvInv, PromotionInv, PromotedInv, StagedInv, C!Owns
  <2> QED BY <2>1, <2>5, <2>6, <2>7, <2>8, ChargedStays DEF ConvInv
<1>2. ASSUME NEW keep \in SUBSET Nat, reservation' = C!Refund(keep),
             NEW s \in States \ {"sweeping"}, cleaner' = [cleaner EXCEPT !.status = s],
             C!Sweeps(C!Cleaner, {}) \/ UNCHANGED <<todo, doomed>>,
             objects' \in {objects, objects \ {doomed[C!Cleaner]}},
             UNCHANGED <<job, at, seen, deferred, flying, committed, txn, deleted>>
      PROVE  ConvInv'
  <2>1. cleaner' \in [status : States, attempts : Nat] /\ cleaner'.status # "sweeping"
    BY <1>0, <1>2 DEF ConvTypes
  <2>2. /\ todo' \in [Keys -> SUBSET C!Attempts] /\ doomed' \in [Keys -> Keys]
        /\ \A m \in C!Attempts : todo'[m] = todo[m] /\ doomed'[m] = doomed[m]
        /\ doomed'[C!Cleaner] \in {doomed[C!Cleaner], C!None}
    <3>1. CASE C!Sweeps(C!Cleaner, {})
      BY <1>0, <3>1, Swept
    <3>2. CASE UNCHANGED <<todo, doomed>>
      BY <1>0, <3>2 DEF ConvTypes
    <3> QED BY <1>2, <3>1, <3>2
  <2>3. /\ C!ChargedForWhatIsKept'
        /\ reservation' \in [C!Attempts -> {"none", "reserved", "finalized", "refunded", "expired"}]
    BY <1>2, Refunds
  <2>4. ConvTypes'
    BY <1>0, <1>2, <2>1, <2>2, <2>3 DEF ConvTypes
  <2>5. \A k \in objects \ objects' : k = doomed[C!Cleaner] /\ k # C!None
    BY <1>0, <1>2, Bounds
  <2>6. ASSUME NEW m \in C!Attempts PROVE AttemptInv(m)'
    <3>1. at[m] \in {"staged", "promote"} /\ C!Owns(m) /\ m \in objects => m \in objects'
      BY <1>0, <2>5, DoomedIsFree
    <3>2. C!Owns(m)' => C!Owns(m)
      BY <1>2 DEF C!Owns
    <3> QED BY <1>0, <1>2, <2>2, <3>1, <3>2, AttemptRests
  <2>7. CleanerInv' /\ StagedInv'
    BY <1>0, <1>2, <2>1, <2>2 DEF ConvInv, CleanerInv, StagedInv, C!Terminal
  <2>8. /\ txn # C!None => C!Owns(txn)' /\ at'[txn] \in {"promote", "report", "gone"}
        /\ committed # C!None => UNCHANGED job /\ at'[committed] \in {"report", "gone"}
    BY <1>2 DEF ConvInv, PromotionInv, PromotedInv, C!Owns
  <2> QED BY <1>0, <1>2, <2>3, <2>4, <2>5, <2>6, <2>7, <2>8, ConvMove
<1>3. \A keep \in SUBSET (1..job.attempts) : keep \in SUBSET Nat
  BY <1>0
<1>4. CASE C!CleanerFinishes
  <2>1. 1..job.attempts \in SUBSET Nat
    BY <1>0
  <2> QED BY <1>2, <1>4, <2>1 DEF C!CleanerFinishes
<1>5. CASE C!CleanerFails
  <2>1. PICK s \in {"pending", "dead_letter"} : cleaner' = [cleaner EXCEPT !.status = s]
    BY <1>5 DEF C!CleanerFails, C!CleanerRetries
  <2>2. PICK keep \in SUBSET Nat : reservation' = C!Refund(keep)
    BY <1>3, <1>5 DEF C!CleanerFails
  <2>3. /\ C!Sweeps(C!Cleaner, {}) /\ objects' \in {objects, objects \ {doomed[C!Cleaner]}}
        /\ UNCHANGED <<job, at, seen, deferred, flying, committed, txn, deleted>>
    BY <1>5 DEF C!CleanerFails
  <2> QED BY <1>2, <2>1, <2>2, <2>3
<1>6. CASE C!CollectDeadLetter
  <2>1. /\ job.status = "dead_letter" /\ objects' \subseteq objects
        /\ UNCHANGED <<job, at, seen, todo, doomed, flying, reservation, committed, txn, deleted, cleaner>>
    BY <1>6 DEF C!CollectDeadLetter
  <2>2. committed = C!None /\ txn = C!None /\ \A m \in C!Attempts : ~C!Owns(m)
    BY <2>1 DEF ConvInv, PromotionInv, PromotedInv, C!Owns
  <2>3. ConvTypes' /\ CleanerInv' /\ StagedInv' /\ PromotionInv' /\ PromotedInv'
    BY <2>1, <2>2 DEF ConvInv, ConvTypes, CleanerInv, StagedInv, PromotionInv, PromotedInv, C!Terminal
  <2>4. \A m \in C!Attempts : AttemptInv(m)'
    BY <2>1, <2>2 DEF ConvInv, AttemptInv, C!Owns
  <2> QED BY <2>1, <2>3, <2>4, ChargedStays DEF ConvInv
<1> QED BY <1>1, <1>4, <1>5, <1>6

LEMMA ConvInit == MCInit => ConvInv
<1> SUFFICES ASSUME C!Init PROVE ConvInv
  BY DEF MCInit
<1>1. ConvTypes
  BY Bounds DEF C!Init, ConvTypes, JobRecs, C!Phases, Keys, C!Cleaner, C!None
<1>2. \A n \in C!Attempts : AttemptInv(n)
  BY Bounds DEF C!Init, AttemptInv, C!Cleaner, C!None
<1>3. PromotionInv /\ PromotedInv /\ StagedInv /\ CleanerInv
  BY Bounds DEF C!Init, PromotionInv, PromotedInv, StagedInv, CleanerInv, C!Cleaner, C!None
<1>4. C!ChargedForWhatIsKept
  BY Bounds DEF C!Init, C!ChargedForWhatIsKept
<1> QED BY <1>1, <1>2, <1>3, <1>4 DEF ConvInv

LEMMA ConvStep == ConvInv /\ [MCNext]_<<part, vars, cvars, ivars, qvars, evars, vvars>> => ConvInv'
<1> SUFFICES ASSUME ConvInv, [MCNext]_<<part, vars, cvars, ivars, qvars, evars, vvars>> PROVE ConvInv'
  OBVIOUS
<1>1. CASE UNCHANGED cvars
  BY <1>1 DEF cvars, ConvInv, ConvTypes, PromotionInv, PromotedInv, StagedInv, CleanerInv, AttemptInv,
     C!ChargedForWhatIsKept, C!Owns, C!Terminal
<1>2. CASE C!Next
  <2>1. CASE C!Claim \/ C!LeaseExpires \/ C!CancelJob \/ C!DeleteDocument
    BY <2>1, JobStep
  <2>2. CASE C!CommitPromotion \/ C!RollBack
    BY <2>2, CommitPromotionStep, RollBackStep
  <2>3. CASE C!CleanerStarts \/ C!CleanerFinishes \/ C!CleanerFails \/ C!CollectDeadLetter
    BY <2>3, CleanerStep
  <2>4. ASSUME NEW a \in C!Attempts \cup {C!Cleaner}, C!LookUp(a) \/ C!DeleteKey(a) PROVE ConvInv'
    BY <2>4, LookUpStep, DeleteKeyStep DEF Keys, C!Cleaner, C!None
  <2>5. ASSUME NEW n \in C!Attempts,
               \/ C!Convert(n) \/ C!SweepFails(n) \/ C!Cleaned(n) \/ C!Reserve(n) \/ C!Intend(n)
               \/ C!Put(n) \/ C!LatePut(n) \/ C!Staged(n) \/ C!BeginPromotion(n) \/ C!PromotionRefused(n)
               \/ C!DropPromotion(n) \/ C!Undone(n) \/ C!Report(n) \/ C!Fail(n) \/ C!Crash(n)
               \/ C!ReservationExpires(n)
        PROVE  ConvInv'
    BY <2>5, ConvertStep, SweepFailsStep, CleanedStep, ReserveStep, IntendStep, PutStep, LatePutStep, StagedStep,
       BeginPromotionStep, PromotionRefusedStep, DropPromotionStep, UndoneStep, ReportStep, FailStep, CrashStep,
       ReservationExpiresStep
  <2> QED BY <1>2, <2>1, <2>2, <2>3, <2>4, <2>5 DEF C!Next
<1> QED BY <1>1, <1>2 DEF MCNext

LEMMA ConvHolds == MCSpec => []ConvInv
  BY ConvInit, ConvStep, PTL DEF MCSpec

\* No attempt, clean-up or collection deletes the Markdown of a promoted version,
\* for any number of attempts that run on without their lease.
THEOREM PromotedMarkdownExists == MCSpec => []CommittedMarkdownExists
<1>1. ConvInv => CommittedMarkdownExists
  BY DEF ConvInv, PromotedInv, CommittedMarkdownExists, C!CommittedMarkdownExists
<1> QED BY <1>1, ConvHolds, PTL

\* The storage quota is charged for the promoted attempt and for no other.
THEOREM OnlyTheKeptIsCharged == MCSpec => []ChargedForWhatIsKept
<1>1. ConvInv => ChargedForWhatIsKept
  BY DEF ConvInv, ChargedForWhatIsKept
<1> QED BY <1>1, ConvHolds, PTL

\* Whatever an attempt leaves in the storage is named in the checkpoint.
THEOREM LeftoversAreFound == MCSpec => []LeftoversAreRecorded
<1>1. ConvInv => LeftoversAreRecorded
  BY DEF ConvInv, StagedInv, LeftoversAreRecorded, C!LeftoversAreRecorded
<1> QED BY <1>1, ConvHolds, PTL


(***************************************************************************)
(* The index generations of a collection.                                   *)
(***************************************************************************)

GenTypes ==
    /\ plan \in I!Gens /\ events \in SUBSET Docs
    /\ doc \in [Docs -> {"absent", "converted", "indexing", "indexed", "failed", "deleted"}]
    /\ gen \in [I!Gens -> {"none", "building", "shadow", "active", "draining"}]
    /\ idx \in [Docs -> [I!Gens -> {"none", "pending", "enters", "persists", "finishes",
                                    "done", "replayed", "failed"}]]
    /\ batch \in [Docs -> [I!Gens -> {"none", "pending", "done", "failed"}]]
    /\ row \in [Docs -> [I!Gens -> {"none", "pending", "indexing", "backfilled", "failed"}]]
    /\ finish \in [I!Finishes -> {"none", "open", "alone", "completing", "shadows", "leaves"}]

\* One transaction at a time holds the row of a document, and one at a time the lock
\* under which the rows of a generation are counted.
Counting == {"completing", "shadows", "leaves"}

FinishLocks ==
    \A d, e \in Docs, g, h \in I!Gens, k, l \in I!Kinds :
        /\ d = e /\ finish[<<d, g, k>>] # "none" /\ finish[<<e, h, l>>] # "none" => g = h /\ k = l
        /\ g = h /\ finish[<<d, g, k>>] \in Counting /\ finish[<<e, h, l>>] \in Counting
             => d = e /\ k = l

\* The document of an open transaction is there, its job is still to be finished, and
\* what the transaction saw of the other jobs is so.
JobIsOpen(d, g, k) ==
    /\ doc[d] \notin {"absent", "deleted"}
    /\ IF k = "index" THEN idx[d][g] = "finishes" ELSE batch[d][g] = "pending"
    /\ finish[<<d, g, k>>] = "alone" => ~I!OthersDone(d, g, k)
    /\ finish[<<d, g, k>>] \in Counting => I!OthersDone(d, g, k)

OpenJobs ==
    \A d \in Docs, g \in I!Gens, k \in I!Kinds : finish[<<d, g, k>>] # "none" => JobIsOpen(d, g, k)

\* A job, a batch and a row follow one another, and the state of the document.
CellOf(d, g) ==
    /\ idx[d][g] # "none" => gen[g] # "none" /\ doc[d] # "absent"
    /\ row[d][g] # "none" => gen[g] # "none"
    /\ batch[d][g] # "none" => idx[d][g] # "none"
    /\ idx[d][g] \in {"finishes", "done"} => batch[d][g] # "none"
    /\ doc[d] = "converted" => idx[d][g] \in {"none", "pending", "enters"} /\ batch[d][g] = "none"
    /\ doc[d] = "indexing" => idx[d][g] # "failed" /\ batch[d][g] # "failed"
    /\ row[d][g] = "backfilled" => batch[d][g] = "done" /\ idx[d][g] \in {"done", "replayed"}

CellInv == \A d \in Docs, g \in I!Gens : CellOf(d, g)

\* A promoted document is asked to be indexed, or has been.
AskedInv ==
    \A d \in Docs :
        /\ d \in events => doc[d] # "absent"
        /\ doc[d] # "absent" /\ d \notin events => \E g \in I!Gens : idx[d][g] # "none"

Earlier(g) == \E h \in I!Gens : h < g /\ gen[h] # "none"
Later(d, g) == \E h \in I!Gens : g < h /\ row[d][h] = "backfilled"

\* The order in which generations come and go.
GenInv ==
    /\ \A g \in I!Gens : gen[g] # "none" => g <= plan /\ \E h \in I!Gens : gen[h] = "active"
    /\ \A g, h \in I!Gens : gen[g] = "active" /\ gen[h] = "active" => g = h
    /\ \A g \in I!Gens :
        /\ gen[g] \in {"building", "shadow"} => Earlier(g)
        /\ gen[g] = "draining" => g < plan \/ Earlier(g)

\* A document that is older than a generation: it has to be brought into it.
Old(e, h) == doc[e] # "deleted" /\ \E g \in I!Gens : g < h /\ idx[e][g] # "none"

\* Whoever spreads a generation spreads it to every old document, and none is missing
\* when it becomes shadow.
SeedInv ==
    \A d, e \in Docs, h \in I!Gens : Old(e, h) /\ row[d][h] # "none" => row[e][h] # "none"

CoveredInv ==
    \A e \in Docs, g \in I!Gens : gen[g] = "shadow" /\ Old(e, g) => row[e][g] = "backfilled"

\* What the transaction decided that counted the rows.
Decided(d, g, k) ==
    /\ finish[<<d, g, k>>] = "shadows" =>
         /\ gen[g] = "building"
         /\ \A e \in Docs : Old(e, g) =>
              row[e][g] = "backfilled" \/ (e = d /\ row[d][g] \in {"pending", "indexing"})
    /\ finish[<<d, g, k>>] = "leaves" =>
         \/ gen[g] # "building"
         \/ \E e \in Docs \ {d} : row[e][g] \in {"pending", "indexing", "failed"}
         \/ row[d][g] = "failed"
         \/ row[d][g] = "none" /\ \A e \in Docs : row[e][g] # "backfilled"

DecidedInv == \A d \in Docs, g \in I!Gens, k \in I!Kinds : Decided(d, g, k)

CompletionInv ==
    \A g \in I!Gens :
        gen[g] = "building" /\ (\E d \in Docs : row[d][g] = "backfilled") =>
            \E d \in Docs : row[d][g] \in {"pending", "indexing", "failed"}

\* A job that is through in a generation which cannot make its document Indexed: the
\* generation is beside an older one, or a later one has the document.
Overtaken(d, g) == Later(d, g) \/ Earlier(g)

StrandInv ==
    \A d \in Docs, g \in I!Gens :
        /\ gen[g] = "draining" /\ idx[d][g] # "none" /\ doc[d] # "deleted" => Overtaken(d, g)
        /\ doc[d] = "indexing" /\ idx[d][g] = "done" /\ batch[d][g] = "done" => Overtaken(d, g)

\* An indexed document is in every generation that may be cut over to, but those older
\* than the one it was indexed in.
Served(d, g) == gen[g] \in {"active", "draining"} /\ batch[d][g] = "done"

VisibleInv ==
    \A d \in Docs : doc[d] = "indexed" =>
        /\ \E g \in I!Gens : Served(d, g)
        /\ \A h \in I!Gens : gen[h] \in {"shadow", "active"} =>
              batch[d][h] = "done" \/ \E g \in I!Gens : h < g /\ Served(d, g)

IndexInv ==
    /\ GenTypes /\ FinishLocks /\ OpenJobs /\ CellInv /\ AskedInv /\ GenInv /\ SeedInv /\ CoveredInv
    /\ DecidedInv /\ CompletionInv /\ StrandInv /\ VisibleInv

\* What the steps do to the cells of a document and a generation.
SameCell(e, h) ==
    idx'[e][h] = idx[e][h] /\ batch'[e][h] = batch[e][h] /\ row'[e][h] = row[e][h]
Elsewhere(d, g) == \A e \in Docs, h \in I!Gens : e # d \/ h # g => SameCell(e, h)
OtherDocs(d) == \A e \in Docs \ {d} : doc'[e] = doc[e]
OtherFinishes(d, g, k) ==
    \A e \in Docs, h \in I!Gens, l \in I!Kinds :
        <<e, h, l>> # <<d, g, k>> => finish'[<<e, h, l>>] = finish[<<e, h, l>>]
Quiet(d) == \A g \in I!Gens, k \in I!Kinds : finish[<<d, g, k>>] = "none"

PublishMove(d) ==
    /\ d \in events /\ events' = events \ {d} /\ UNCHANGED <<plan, doc, batch, row, finish>>
    /\ \A h \in I!Gens : gen'[h] = IF h = plan /\ gen[h] = "none" THEN I!NewState ELSE gen[h]
    /\ \A e \in Docs, h \in I!Gens :
        idx'[e][h] = IF e = d /\ h = plan /\ idx[e][h] = "none" THEN "pending" ELSE idx[e][h]

CutMove(g) ==
    /\ gen[g] = "shadow" /\ UNCHANGED <<plan, doc, events, idx, batch, row, finish>>
    /\ \A h \in I!Gens : gen'[h] = IF h = g THEN "active"
                                   ELSE IF gen[h] = "active" THEN "draining" ELSE gen[h]

Seeded(e, g) == gen[g] = "building" /\ doc[e] \notin {"absent", "deleted"}

BeginMove(d, g) ==
    /\ idx[d][g] = "pending" /\ g = plan /\ gen[g] \in {"building", "shadow", "active"}
    /\ doc[d] # "deleted" /\ UNCHANGED <<plan, doc, events, gen, batch, finish>>
    /\ \A e \in Docs, h \in I!Gens : h # g => SameCell(e, h)
    /\ idx'[d][g] = IF doc[d] \in {"indexing", "indexed"} THEN "persists" ELSE "enters"
    /\ \A e \in Docs \ {d} :
        idx'[e][g] = IF Seeded(e, g) /\ idx[e][g] = "none" THEN "pending" ELSE idx[e][g]
    /\ \A e \in Docs :
        row'[e][g] = IF Seeded(e, g) /\ row[e][g] = "none" THEN "pending" ELSE row[e][g]

WorkMove(d, g) ==
    /\ UNCHANGED <<plan, events, gen, finish>> /\ Elsewhere(d, g) /\ OtherDocs(d)
    /\ \/ /\ idx[d][g] \in {"enters", "persists"} /\ idx'[d][g] = "replayed" /\ batch[d][g] = "done"
          /\ UNCHANGED <<doc, batch, row>>
       \/ /\ idx[d][g] = "enters" /\ idx'[d][g] = "persists" /\ Quiet(d) /\ UNCHANGED <<batch, row>>
          /\ doc[d] = "converted" /\ doc'[d] = "indexing"
       \/ /\ idx[d][g] = "persists" /\ idx'[d][g] = "finishes" /\ Quiet(d) /\ UNCHANGED doc
          /\ doc[d] # "deleted"
          /\ batch'[d][g] = IF batch[d][g] = "none" THEN "pending" ELSE batch[d][g]
          /\ row'[d][g] = IF row[d][g] = "pending" THEN "indexing" ELSE row[d][g]
       \/ /\ I!LiveIndex(d, g) /\ finish[<<d, g, "index">>] = "none" /\ idx'[d][g] = "pending"
          /\ UNCHANGED <<doc, batch, row>>

FailMove(d) ==
    /\ UNCHANGED <<plan, events, gen, finish>> /\ Quiet(d) /\ OtherDocs(d)
    /\ \A e \in Docs \ {d}, h \in I!Gens : SameCell(e, h)
    /\ \A h \in I!Gens :
        /\ idx'[d][h] = idx[d][h] \/ (I!LiveIndex(d, h) /\ idx'[d][h] = "failed")
        /\ batch'[d][h] = batch[d][h] \/ (batch[d][h] = "pending" /\ batch'[d][h] = "failed")
        /\ row'[d][h] = row[d][h] \/ (row[d][h] \in {"pending", "indexing"} /\ row'[d][h] = "failed")
    /\ \/ doc[d] # "absent" /\ doc'[d] = "deleted"
       \/ doc'[d] = IF doc[d] \in {"converted", "indexing"} THEN "failed" ELSE doc[d]

\* A finishing transaction looks, decides or goes away.
LookMove(d, g, k) ==
    /\ UNCHANGED <<plan, doc, events, gen, idx, batch, row>> /\ OtherFinishes(d, g, k)
    /\ LET s == finish[<<d, g, k>>]
           t == finish'[<<d, g, k>>]
       IN  \/ /\ s = "none" /\ t = "open" /\ Quiet(d) /\ doc[d] # "deleted"
              /\ IF k = "index" THEN idx[d][g] = "finishes" ELSE batch[d][g] = "pending"
           \/ s = "open" /\ t = "alone" /\ ~I!OthersDone(d, g, k)
           \/ /\ s = "open" /\ t = "completing" /\ I!OthersDone(d, g, k)
              /\ \A e \in Docs, l \in I!Kinds : finish[<<e, g, l>>] \notin Counting
           \/ s = "completing" /\ t = "shadows" /\ gen[g] = "building" /\ I!SeesComplete(d, g)
           \/ s = "completing" /\ t = "leaves" /\ ~(gen[g] = "building" /\ I!SeesComplete(d, g))
           \/ s # "none" /\ t = "none"

OwnMove(d, g, k) ==
    /\ finish'[<<d, g, k>>] = "none" /\ OtherFinishes(d, g, k) /\ UNCHANGED <<plan, events>>
    /\ OtherDocs(d) /\ Elsewhere(d, g)
    /\ idx'[d][g] = IF k = "index" THEN "done" ELSE idx[d][g]
    /\ batch'[d][g] = IF k = "index" THEN batch[d][g] ELSE "done"

AloneMove(d, g, k) ==
    finish[<<d, g, k>>] = "alone" /\ OwnMove(d, g, k) /\ UNCHANGED <<doc, gen, row>>

BothMove(d, g, k) ==
    /\ finish[<<d, g, k>>] \in {"shadows", "leaves"} /\ OwnMove(d, g, k)
    /\ row'[d][g] = IF row[d][g] \in {"pending", "indexing"} THEN "backfilled" ELSE row[d][g]
    /\ \A h \in I!Gens :
        gen'[h] = IF h = g /\ finish[<<d, g, k>>] = "shadows" THEN "shadow" ELSE gen[h]
    /\ doc'[d] = IF doc[d] = "indexing" /\ gen[g] = "active" THEN "indexed" ELSE doc[d]

DeployMove ==
    plan' = plan + 1 /\ plan' \in I!Gens /\ UNCHANGED <<doc, events, gen, idx, batch, row, finish>>

PromoteMove(d) ==
    /\ doc[d] = "absent" /\ doc'[d] = "converted" /\ OtherDocs(d) /\ events' = events \cup {d}
    /\ UNCHANGED <<plan, gen, idx, batch, row, finish>>

IndexMove ==
    \/ DeployMove
    \/ \E g \in I!Gens : CutMove(g)
    \/ \E d \in Docs : PromoteMove(d) \/ PublishMove(d) \/ FailMove(d)
    \/ \E d \in Docs, g \in I!Gens : BeginMove(d, g) \/ WorkMove(d, g)
    \/ \E d \in Docs, g \in I!Gens, k \in I!Kinds :
        LookMove(d, g, k) \/ AloneMove(d, g, k) \/ BothMove(d, g, k)

\* What each move leaves alone.
LEMMA Frames ==
  /\ DeployMove => UNCHANGED <<doc, gen, idx, batch, row>>
  /\ \A g \in I!Gens : CutMove(g) => UNCHANGED <<doc, idx, batch, row>>
  /\ \A d \in Docs : PromoteMove(d) => UNCHANGED <<gen, idx, batch, row>>
  /\ \A d \in Docs : PublishMove(d) => UNCHANGED <<doc, batch, row>>
  /\ \A d \in Docs : FailMove(d) => UNCHANGED gen
  /\ \A d \in Docs, g \in I!Gens : BeginMove(d, g) => UNCHANGED <<doc, gen, batch>>
  /\ \A d \in Docs, g \in I!Gens : WorkMove(d, g) => UNCHANGED gen
  /\ \A d \in Docs, g \in I!Gens, k \in I!Kinds :
       /\ LookMove(d, g, k) => UNCHANGED <<doc, gen, idx, batch, row>>
       /\ AloneMove(d, g, k) => UNCHANGED <<doc, gen, row>>
<1>1. DeployMove => UNCHANGED <<doc, gen, idx, batch, row>>
  BY DEF DeployMove
<1>2. \A g \in I!Gens : CutMove(g) => UNCHANGED <<doc, idx, batch, row>>
  BY DEF CutMove
<1>3. \A d \in Docs : PromoteMove(d) => UNCHANGED <<gen, idx, batch, row>>
  BY DEF PromoteMove
<1>4. \A d \in Docs : PublishMove(d) => UNCHANGED <<doc, batch, row>>
  BY DEF PublishMove
<1>5. \A d \in Docs : FailMove(d) => UNCHANGED gen
  BY DEF FailMove
<1>6. \A d \in Docs, g \in I!Gens : BeginMove(d, g) => UNCHANGED <<doc, gen, batch>>
  BY DEF BeginMove
<1>7. \A d \in Docs, g \in I!Gens : WorkMove(d, g) => UNCHANGED gen
  BY DEF WorkMove
<1>8. \A d \in Docs, g \in I!Gens, k \in I!Kinds :
        LookMove(d, g, k) => UNCHANGED <<doc, gen, idx, batch, row>>
  BY DEF LookMove
<1>9. \A d \in Docs, g \in I!Gens, k \in I!Kinds : AloneMove(d, g, k) => UNCHANGED <<doc, gen, row>>
  BY DEF AloneMove
<1> QED BY <1>1, <1>2, <1>3, <1>4, <1>5, <1>6, <1>7, <1>8, <1>9

LEMMA GensAre ==
  /\ I!Gens \subseteq Nat \ {0}
  /\ \A g \in I!Gens : g + 1 \in Nat
  /\ \A g \in I!Gens : g < LastPlan => g + 1 \in I!Gens
BY InstancesAssumption DEF I!PlanAssumption, I!Gens

\* One cell of a function of documents and generations is set.
LEMMA CellSet ==
  ASSUME NEW S, NEW f \in [Docs -> [I!Gens -> S]], NEW d \in Docs, NEW g \in I!Gens, NEW x \in S
  PROVE  /\ [f EXCEPT ![d][g] = x] \in [Docs -> [I!Gens -> S]]
         /\ \A e \in Docs, h \in I!Gens :
              [f EXCEPT ![d][g] = x][e][h] = IF e = d /\ h = g THEN x ELSE f[e][h]
OBVIOUS

LEMMA FreeDocIsQuiet ==
  /\ \A d \in Docs : I!DocFree(d) => Quiet(d)
  /\ \A g \in I!Gens : I!GenFree(g) =>
       \A e \in Docs, l \in I!Kinds : finish[<<e, g, l>>] \notin Counting
<1>1. \A e \in Docs, h \in I!Gens, l \in I!Kinds :
        <<e, h, l>> \in I!Finishes /\ <<e, h, l>>[1] = e /\ <<e, h, l>>[2] = h
  BY DEF I!Finishes
<1>2. ASSUME NEW d \in Docs, I!DocFree(d) PROVE Quiet(d)
  BY <1>1, <1>2 DEF I!DocFree, Quiet
<1>3. ASSUME NEW g \in I!Gens, I!GenFree(g), NEW e \in Docs, NEW l \in I!Kinds
      PROVE  finish[<<e, g, l>>] \notin Counting
  <2>1. finish[<<e, g, l>>] \in {"none", "open", "alone"}
    BY <1>1, <1>3 DEF I!GenFree
  <2> QED BY <2>1 DEF Counting
<1> QED BY <1>2, <1>3

LEMMA DeployMoves == ASSUME GenTypes, I!Deploy PROVE GenTypes' /\ IndexMove
BY GensAre DEF GenTypes, I!Deploy, IndexMove, DeployMove

LEMMA PromoteMoves == ASSUME GenTypes, NEW d \in Docs, I!Promote(d) PROVE GenTypes' /\ IndexMove
<1>1. GenTypes'
  BY DEF GenTypes, I!Promote
<1>2. PromoteMove(d)
  BY DEF GenTypes, I!Promote, PromoteMove, OtherDocs
<1> QED BY <1>1, <1>2 DEF IndexMove

LEMMA PublishMoves == ASSUME GenTypes, NEW d \in Docs, I!Publish(d) PROVE GenTypes' /\ IndexMove
<1>1. plan \in I!Gens /\ I!NewState \in {"building", "active"}
  BY DEF GenTypes, I!NewState
<1>2. PICK x \in {"none", "building", "shadow", "active", "draining"} :
        x = IF gen[plan] = "none" THEN I!NewState ELSE gen[plan]
  BY <1>1 DEF GenTypes
<1>3. PICK y \in {"none", "pending", "enters", "persists", "finishes", "done", "replayed", "failed"} :
        y = IF idx[d][plan] = "none" THEN "pending" ELSE idx[d][plan]
  BY <1>1 DEF GenTypes
<1>4. gen' = [gen EXCEPT ![plan] = x] /\ idx' = [idx EXCEPT ![d][plan] = y]
  BY <1>2, <1>3 DEF I!Publish
<1>5. d \in events /\ events' = events \ {d} /\ UNCHANGED <<plan, doc, batch, row, finish>>
  BY DEF I!Publish
<1>6. /\ idx' \in [Docs -> [I!Gens -> {"none", "pending", "enters", "persists", "finishes",
                                       "done", "replayed", "failed"}]]
      /\ \A e \in Docs, h \in I!Gens : idx'[e][h] = IF e = d /\ h = plan THEN y ELSE idx[e][h]
  BY <1>1, <1>4, CellSet DEF GenTypes
<1>7. /\ gen' \in [I!Gens -> {"none", "building", "shadow", "active", "draining"}]
      /\ \A h \in I!Gens : gen'[h] = IF h = plan /\ gen[h] = "none" THEN I!NewState ELSE gen[h]
  BY <1>1, <1>2, <1>4 DEF GenTypes
<1>8. GenTypes'
  BY <1>5, <1>6, <1>7 DEF GenTypes
<1>9. PublishMove(d)
  BY <1>3, <1>5, <1>6, <1>7 DEF PublishMove
<1> QED BY <1>8, <1>9 DEF IndexMove

LEMMA CutOverMoves == ASSUME GenTypes, NEW g \in I!Gens, I!CutOver(g) PROVE GenTypes' /\ IndexMove
<1>1. GenTypes'
  BY DEF GenTypes, I!CutOver
<1>2. CutMove(g)
  BY DEF GenTypes, I!CutOver, CutMove
<1> QED BY <1>1, <1>2 DEF IndexMove

LEMMA BeginMoves == ASSUME GenTypes, NEW d \in Docs, NEW g \in I!Gens, I!Begin(d, g) PROVE GenTypes' /\ IndexMove
<1> DEFINE seeds == IF gen[g] = "building" THEN I!SeededBy(d) ELSE {}
           step == IF doc[d] \in {"indexing", "indexed"} THEN "persists" ELSE "enters"
           Started(e) == IF e = d THEN step
                         ELSE IF e \in seeds /\ idx[e][g] = "none" THEN "pending" ELSE idx[e][g]
           Spread(e) == IF e \in seeds /\ row[e][g] = "none" THEN "pending" ELSE row[e][g]
<1>1. /\ idx[d][g] = "pending" /\ g = plan /\ gen[g] \in {"building", "shadow", "active"}
      /\ doc[d] # "deleted" /\ UNCHANGED <<plan, doc, events, gen, batch, finish>>
      /\ idx' = [e \in Docs |-> [idx[e] EXCEPT ![g] = Started(e)]]
      /\ row' = [e \in Docs |-> [row[e] EXCEPT ![g] = Spread(e)]]
  BY DEF I!Begin
<1>2. \A e \in Docs : e \in seeds <=> Seeded(e, g)
  BY DEF I!SeededBy, Seeded
<1>3. \A e \in Docs : /\ Started(e) = IF e = d THEN step
                                      ELSE IF Seeded(e, g) /\ idx[e][g] = "none" THEN "pending" ELSE idx[e][g]
                      /\ Spread(e) = IF Seeded(e, g) /\ row[e][g] = "none" THEN "pending" ELSE row[e][g]
  BY <1>2
<1>4. \A e \in Docs : /\ Started(e) \in {"none", "pending", "enters", "persists", "finishes",
                                         "done", "replayed", "failed"}
                      /\ Spread(e) \in {"none", "pending", "indexing", "backfilled", "failed"}
  BY <1>3 DEF GenTypes
<1> HIDE DEF Started, Spread
<1>5. \A e \in Docs, h \in I!Gens : /\ idx'[e][h] = IF h = g THEN Started(e) ELSE idx[e][h]
                                    /\ row'[e][h] = IF h = g THEN Spread(e) ELSE row[e][h]
  BY <1>1 DEF GenTypes
<1>6. GenTypes'
  BY <1>1, <1>4 DEF GenTypes
<1>7. BeginMove(d, g)
  BY <1>1, <1>3, <1>5 DEF BeginMove, SameCell
<1> QED BY <1>6, <1>7 DEF IndexMove

LEMMA OneMoved ==
  ASSUME GenTypes, NEW d \in Docs, NEW g \in I!Gens,
         NEW x \in {"none", "pending", "enters", "persists", "finishes", "done", "replayed", "failed"},
         I!Moved(d, g, x)
  PROVE  /\ idx' \in [Docs -> [I!Gens -> {"none", "pending", "enters", "persists", "finishes",
                                          "done", "replayed", "failed"}]]
         /\ \A e \in Docs, h \in I!Gens : idx'[e][h] = IF e = d /\ h = g THEN x ELSE idx[e][h]
BY CellSet DEF GenTypes, I!Moved

LEMMA WorkMoves ==
  ASSUME GenTypes, NEW d \in Docs, NEW g \in I!Gens,
         I!Replay(d, g) \/ I!Enter(d, g) \/ I!Persist(d, g) \/ I!IndexRetried(d, g)
  PROVE  GenTypes' /\ IndexMove
<1>1. CASE I!Replay(d, g)
  <2>1. I!Moved(d, g, "replayed") /\ UNCHANGED <<plan, doc, events, gen, batch, row, finish>>
    BY <1>1 DEF I!Replay
  <2>2. GenTypes'
    BY <2>1, OneMoved DEF GenTypes
  <2>3. WorkMove(d, g)
    BY <1>1, <2>1, OneMoved DEF I!Replay, WorkMove, Elsewhere, SameCell, OtherDocs
  <2> QED BY <2>2, <2>3 DEF IndexMove
<1>2. CASE I!Enter(d, g)
  <2>1. /\ I!Moved(d, g, "persists") /\ UNCHANGED <<plan, events, gen, batch, row, finish>>
        /\ doc[d] = "converted" /\ doc' = [doc EXCEPT ![d] = "indexing"] /\ Quiet(d) /\ idx[d][g] = "enters"
    BY <1>2, FreeDocIsQuiet DEF I!Enter
  <2>2. GenTypes'
    BY <2>1, OneMoved DEF GenTypes
  <2>3. OtherDocs(d) /\ doc'[d] = "indexing"
    BY <2>1 DEF GenTypes, OtherDocs
  <2>4. Elsewhere(d, g) /\ idx'[d][g] = "persists"
    BY <2>1, OneMoved DEF Elsewhere, SameCell
  <2> QED BY <2>1, <2>2, <2>3, <2>4 DEF IndexMove, WorkMove
<1>3. CASE I!Persist(d, g)
  <2>1. PICK x \in {"none", "pending", "done", "failed"} :
          x = IF batch[d][g] = "none" THEN "pending" ELSE batch[d][g]
    BY DEF GenTypes
  <2>2. PICK y \in {"none", "pending", "indexing", "backfilled", "failed"} :
          y = IF row[d][g] = "pending" THEN "indexing" ELSE row[d][g]
    BY DEF GenTypes
  <2>3. /\ I!Moved(d, g, "finishes") /\ UNCHANGED <<plan, doc, events, gen, finish>>
        /\ doc[d] # "deleted" /\ Quiet(d) /\ idx[d][g] = "persists"
        /\ batch' = [batch EXCEPT ![d][g] = x] /\ row' = [row EXCEPT ![d][g] = y]
    BY <1>3, <2>1, <2>2, FreeDocIsQuiet DEF I!Persist
  <2>4. /\ batch' \in [Docs -> [I!Gens -> {"none", "pending", "done", "failed"}]]
        /\ \A e \in Docs, h \in I!Gens : batch'[e][h] = IF e = d /\ h = g THEN x ELSE batch[e][h]
    BY <2>3, CellSet DEF GenTypes
  <2>5. /\ row' \in [Docs -> [I!Gens -> {"none", "pending", "indexing", "backfilled", "failed"}]]
        /\ \A e \in Docs, h \in I!Gens : row'[e][h] = IF e = d /\ h = g THEN y ELSE row[e][h]
    BY <2>3, CellSet DEF GenTypes
  <2>6. GenTypes'
    BY <2>3, <2>4, <2>5, OneMoved DEF GenTypes
  <2>7. Elsewhere(d, g) /\ idx'[d][g] = "finishes" /\ batch'[d][g] = x /\ row'[d][g] = y
    BY <2>3, <2>4, <2>5, OneMoved DEF Elsewhere, SameCell
  <2>8. OtherDocs(d)
    BY <2>3 DEF OtherDocs
  <2> QED BY <2>1, <2>2, <2>3, <2>6, <2>7, <2>8 DEF IndexMove, WorkMove
<1>4. CASE I!IndexRetried(d, g)
  <2>1. I!Moved(d, g, "pending") /\ UNCHANGED <<plan, doc, events, gen, batch, row, finish>>
    BY <1>4 DEF I!IndexRetried
  <2>2. GenTypes'
    BY <2>1, OneMoved DEF GenTypes
  <2>3. WorkMove(d, g)
    BY <1>4, <2>1, OneMoved DEF I!IndexRetried, WorkMove, Elsewhere, SameCell, OtherDocs
  <2> QED BY <2>2, <2>3 DEF IndexMove
<1> QED BY <1>1, <1>2, <1>3, <1>4

LEMMA CompensatedMoves ==
  ASSUME GenTypes, NEW d \in Docs, NEW gs, I!Compensated(d, gs)
  PROVE  /\ row' \in [Docs -> [I!Gens -> {"none", "pending", "indexing", "backfilled", "failed"}]]
         /\ doc' \in [Docs -> {"absent", "converted", "indexing", "indexed", "failed", "deleted"}]
         /\ OtherDocs(d) /\ \A e \in Docs \ {d} : row'[e] = row[e]
         /\ \A h \in I!Gens :
             row'[d][h] = row[d][h] \/ (row[d][h] \in {"pending", "indexing"} /\ row'[d][h] = "failed")
         /\ doc'[d] = IF doc[d] \in {"converted", "indexing"} THEN "failed" ELSE doc[d]
<1> DEFINE new == [g \in I!Gens |-> IF g \in gs /\ row[d][g] \in {"pending", "indexing"}
                                    THEN "failed" ELSE row[d][g]]
<1>1. row' = [row EXCEPT ![d] = new]
  BY DEF I!Compensated
<1>2. new \in [I!Gens -> {"none", "pending", "indexing", "backfilled", "failed"}]
  BY DEF GenTypes
<1>3. \A h \in I!Gens :
        new[h] = row[d][h] \/ (row[d][h] \in {"pending", "indexing"} /\ new[h] = "failed")
  OBVIOUS
<1> HIDE DEF new
<1>4. doc' = [doc EXCEPT ![d] = IF doc[d] \in {"converted", "indexing"} THEN "failed" ELSE doc[d]]
  BY DEF I!Compensated
<1>5. /\ doc' \in [Docs -> {"absent", "converted", "indexing", "indexed", "failed", "deleted"}]
      /\ OtherDocs(d) /\ doc'[d] = IF doc[d] \in {"converted", "indexing"} THEN "failed" ELSE doc[d]
  BY <1>4 DEF GenTypes, OtherDocs
<1> QED BY <1>1, <1>2, <1>3, <1>5 DEF GenTypes

LEMMA FailMoves ==
  ASSUME GenTypes, NEW d \in Docs, NEW g \in I!Gens,
         I!IndexDies(d, g) \/ I!EmbeddingDies(d, g) \/ I!CancelIndex(d, g)
  PROVE  GenTypes' /\ IndexMove
<1>1. I!Compensated(d, {g}) /\ Quiet(d) /\ UNCHANGED <<plan, events, gen, finish>>
  BY FreeDocIsQuiet DEF I!IndexDies, I!EmbeddingDies, I!CancelIndex
<1>2. /\ idx' \in [Docs -> [I!Gens -> {"none", "pending", "enters", "persists", "finishes",
                                       "done", "replayed", "failed"}]]
      /\ batch' \in [Docs -> [I!Gens -> {"none", "pending", "done", "failed"}]]
      /\ \A e \in Docs, h \in I!Gens :
           /\ e # d => idx'[e][h] = idx[e][h] /\ batch'[e][h] = batch[e][h]
           /\ idx'[e][h] = idx[e][h] \/ (I!LiveIndex(e, h) /\ idx'[e][h] = "failed")
           /\ batch'[e][h] = batch[e][h] \/ (batch[e][h] = "pending" /\ batch'[e][h] = "failed")
  <2>1. CASE I!IndexDies(d, g)
    <3>1. I!LiveIndex(d, g) /\ I!Moved(d, g, "failed") /\ batch' = batch
      BY <2>1 DEF I!IndexDies
    <3> QED BY <3>1, OneMoved DEF GenTypes
  <2>2. CASE I!EmbeddingDies(d, g)
    <3>1. batch[d][g] = "pending" /\ batch' = [batch EXCEPT ![d][g] = "failed"] /\ idx' = idx
      BY <2>2 DEF I!EmbeddingDies, I!LiveBatch
    <3>2. /\ batch' \in [Docs -> [I!Gens -> {"none", "pending", "done", "failed"}]]
          /\ \A e \in Docs, h \in I!Gens : batch'[e][h] = IF e = d /\ h = g THEN "failed" ELSE batch[e][h]
      BY <3>1, CellSet DEF GenTypes
    <3> QED BY <3>1, <3>2 DEF GenTypes
  <2>3. CASE I!CancelIndex(d, g)
    <3>1. PICK x \in {"none", "pending", "done", "failed"} :
            x = IF batch[d][g] = "pending" THEN "failed" ELSE batch[d][g]
      BY DEF GenTypes
    <3>2. I!LiveIndex(d, g) /\ I!Moved(d, g, "failed") /\ batch' = [batch EXCEPT ![d][g] = x]
      BY <2>3, <3>1 DEF I!CancelIndex
    <3>3. /\ batch' \in [Docs -> [I!Gens -> {"none", "pending", "done", "failed"}]]
          /\ \A e \in Docs, h \in I!Gens : batch'[e][h] = IF e = d /\ h = g THEN x ELSE batch[e][h]
      BY <3>2, CellSet DEF GenTypes
    <3> QED BY <3>1, <3>2, <3>3, OneMoved
  <2> QED BY <2>1, <2>2, <2>3
<1>3. GenTypes'
  BY <1>1, <1>2, CompensatedMoves DEF GenTypes
<1>4. FailMove(d)
  BY <1>1, <1>2, CompensatedMoves DEF FailMove, SameCell
<1> QED BY <1>3, <1>4 DEF IndexMove

LEMMA DeleteMoves == ASSUME GenTypes, NEW d \in Docs, I!Delete(d) PROVE GenTypes' /\ IndexMove
<1> DEFINE cancelled == {g \in I!Gens : I!LiveIndex(d, g) \/ I!LiveBatch(d, g)}
           jobs == [g \in I!Gens |-> IF I!LiveIndex(d, g) THEN "failed" ELSE idx[d][g]]
           batches == [g \in I!Gens |-> IF I!LiveBatch(d, g) THEN "failed" ELSE batch[d][g]]
           rows == [g \in I!Gens |-> IF g \in cancelled /\ row[d][g] \in {"pending", "indexing"}
                                     THEN "failed" ELSE row[d][g]]
<1>1. /\ Quiet(d) /\ doc[d] # "absent" /\ UNCHANGED <<plan, events, gen, finish>>
      /\ doc' = [doc EXCEPT ![d] = "deleted"] /\ idx' = [idx EXCEPT ![d] = jobs]
      /\ batch' = [batch EXCEPT ![d] = batches] /\ row' = [row EXCEPT ![d] = rows]
  BY FreeDocIsQuiet DEF I!Delete
<1>2. /\ jobs \in [I!Gens -> {"none", "pending", "enters", "persists", "finishes",
                              "done", "replayed", "failed"}]
      /\ \A h \in I!Gens : jobs[h] = idx[d][h] \/ (I!LiveIndex(d, h) /\ jobs[h] = "failed")
  BY DEF GenTypes
<1>3. /\ batches \in [I!Gens -> {"none", "pending", "done", "failed"}]
      /\ \A h \in I!Gens : batches[h] = batch[d][h] \/ (batch[d][h] = "pending" /\ batches[h] = "failed")
  BY DEF GenTypes, I!LiveBatch
<1>4. /\ rows \in [I!Gens -> {"none", "pending", "indexing", "backfilled", "failed"}]
      /\ \A h \in I!Gens :
           rows[h] = row[d][h] \/ (row[d][h] \in {"pending", "indexing"} /\ rows[h] = "failed")
  BY DEF GenTypes
<1> HIDE DEF jobs, batches, rows
<1>5. GenTypes'
  BY <1>1, <1>2, <1>3, <1>4 DEF GenTypes
<1>6. /\ doc'[d] = "deleted" /\ OtherDocs(d) /\ idx'[d] = jobs /\ batch'[d] = batches /\ row'[d] = rows
      /\ \A e \in Docs \ {d}, h \in I!Gens : SameCell(e, h)
  BY <1>1 DEF GenTypes, OtherDocs, SameCell
<1>7. FailMove(d)
  BY <1>1, <1>2, <1>3, <1>4, <1>6 DEF FailMove
<1> QED BY <1>5, <1>7 DEF IndexMove

LEMMA FinishIs ==
  ASSUME GenTypes, NEW d \in Docs, NEW g \in I!Gens, NEW k \in I!Kinds,
         NEW x \in {"none", "open", "alone", "completing", "shadows", "leaves"},
         finish' = [finish EXCEPT ![<<d, g, k>>] = x]
  PROVE  /\ finish' \in [I!Finishes -> {"none", "open", "alone", "completing", "shadows", "leaves"}]
         /\ finish'[<<d, g, k>>] = x /\ OtherFinishes(d, g, k)
<1>1. finish \in [I!Finishes -> {"none", "open", "alone", "completing", "shadows", "leaves"}]
  BY DEF GenTypes
<1>2. /\ finish' \in [I!Finishes -> {"none", "open", "alone", "completing", "shadows", "leaves"}]
      /\ \A e \in Docs, h \in I!Gens, l \in I!Kinds :
           finish'[<<e, h, l>>] = IF <<e, h, l>> = <<d, g, k>> THEN x ELSE finish[<<e, h, l>>]
  BY <1>1 DEF I!Finishes
<1> QED BY <1>2 DEF OtherFinishes

LEMMA LookMoves ==
  ASSUME GenTypes, NEW d \in Docs, NEW g \in I!Gens, NEW k \in I!Kinds,
         \/ I!OpenFinish(d, g, k) \/ I!SeeOthers(d, g, k) \/ I!CompleteGeneration(d, g, k)
         \/ I!DecideShadow(d, g, k) \/ I!FinishAborts(d, g, k)
  PROVE  GenTypes' /\ IndexMove
<1>1. UNCHANGED <<plan, doc, events, gen, idx, batch, row>>
  BY DEF I!OpenFinish, I!SeeOthers, I!CompleteGeneration, I!DecideShadow, I!FinishAborts
<1>2. PICK x \in {"none", "open", "alone", "completing", "shadows", "leaves"} :
        finish' = [finish EXCEPT ![<<d, g, k>>] = x]
  BY Zenon DEF I!OpenFinish, I!SeeOthers, I!CompleteGeneration, I!DecideShadow, I!FinishAborts
<1>3. /\ finish' \in [I!Finishes -> {"none", "open", "alone", "completing", "shadows", "leaves"}]
      /\ finish'[<<d, g, k>>] = x /\ OtherFinishes(d, g, k)
  <2>1. finish \in [I!Finishes -> {"none", "open", "alone", "completing", "shadows", "leaves"}]
    BY DEF GenTypes
  <2>2. /\ finish' \in [I!Finishes -> {"none", "open", "alone", "completing", "shadows", "leaves"}]
        /\ \A e \in Docs, h \in I!Gens, l \in I!Kinds :
             finish'[<<e, h, l>>] = IF <<e, h, l>> = <<d, g, k>> THEN x ELSE finish[<<e, h, l>>]
    BY <1>2, <2>1 DEF I!Finishes
  <2> QED BY <2>2 DEF OtherFinishes
<1>4. GenTypes'
  BY <1>1, <1>3 DEF GenTypes
<1>0. \A y : finish' = [finish EXCEPT ![<<d, g, k>>] = y] => finish'[<<d, g, k>>] = y
  <2>1. <<d, g, k>> \in I!Finishes
    BY DEF I!Finishes
  <2> QED BY <2>1 DEF GenTypes
<1>5. CASE I!OpenFinish(d, g, k)
  <2>1. /\ finish[<<d, g, k>>] = "none" /\ Quiet(d) /\ doc[d] # "deleted"
        /\ finish'[<<d, g, k>>] = "open"
    BY <1>5, <1>0, FreeDocIsQuiet DEF I!OpenFinish
  <2>2. IF k = "index" THEN idx[d][g] = "finishes" ELSE batch[d][g] = "pending"
    BY <1>5 DEF I!OpenFinish, I!LiveBatch
  <2>3. LookMove(d, g, k)
    BY <1>1, <1>3, <2>1, <2>2 DEF LookMove
  <2> QED BY <1>4, <2>3 DEF IndexMove
<1>6. CASE I!SeeOthers(d, g, k)
  <2>1. finish[<<d, g, k>>] = "open" /\ finish'[<<d, g, k>>] = "alone" /\ ~I!OthersDone(d, g, k)
    BY <1>6, <1>0 DEF I!SeeOthers
  <2>3. LookMove(d, g, k)
    BY <1>1, <1>3, <2>1 DEF LookMove
  <2> QED BY <1>4, <2>3 DEF IndexMove
<1>7. CASE I!CompleteGeneration(d, g, k)
  <2>1. /\ finish[<<d, g, k>>] = "open" /\ finish'[<<d, g, k>>] = "completing" /\ I!OthersDone(d, g, k)
        /\ \A e \in Docs, l \in I!Kinds : finish[<<e, g, l>>] \notin Counting
    BY <1>7, <1>0, FreeDocIsQuiet DEF I!CompleteGeneration
  <2>3. LookMove(d, g, k)
    BY <1>1, <1>3, <2>1 DEF LookMove
  <2> QED BY <1>4, <2>3 DEF IndexMove
<1>8. CASE I!DecideShadow(d, g, k)
  <2>1. finish[<<d, g, k>>] = "completing"
    BY <1>8 DEF I!DecideShadow
  <2>2. finish'[<<d, g, k>>] = IF gen[g] = "building" /\ I!SeesComplete(d, g) THEN "shadows" ELSE "leaves"
    BY <1>8, <1>0 DEF I!DecideShadow
  <2>3. LookMove(d, g, k)
    BY <1>1, <1>3, <2>1, <2>2 DEF LookMove
  <2> QED BY <1>4, <2>3 DEF IndexMove
<1>9. CASE I!FinishAborts(d, g, k)
  <2>1. finish[<<d, g, k>>] # "none" /\ finish'[<<d, g, k>>] = "none"
    BY <1>9, <1>0 DEF I!FinishAborts
  <2>3. LookMove(d, g, k)
    BY <1>1, <1>3, <2>1 DEF LookMove
  <2> QED BY <1>4, <2>3 DEF IndexMove
<1> QED BY <1>5, <1>6, <1>7, <1>8, <1>9

LEMMA OwnJobMoves ==
  ASSUME GenTypes, NEW d \in Docs, NEW g \in I!Gens, NEW k \in I!Kinds, I!OwnJob(d, g, k)
  PROVE  /\ idx' \in [Docs -> [I!Gens -> {"none", "pending", "enters", "persists", "finishes",
                                          "done", "replayed", "failed"}]]
         /\ batch' \in [Docs -> [I!Gens -> {"none", "pending", "done", "failed"}]]
         /\ idx'[d][g] = IF k = "index" THEN "done" ELSE idx[d][g]
         /\ batch'[d][g] = IF k = "index" THEN batch[d][g] ELSE "done"
         /\ \A e \in Docs, h \in I!Gens :
              e # d \/ h # g => idx'[e][h] = idx[e][h] /\ batch'[e][h] = batch[e][h]
<1>1. CASE k = "index"
  BY <1>1, OneMoved DEF GenTypes, I!OwnJob
<1>2. CASE k # "index"
  <2>1. batch' = [batch EXCEPT ![d][g] = "done"] /\ idx' = idx
    BY <1>2 DEF I!OwnJob
  <2>2. /\ batch' \in [Docs -> [I!Gens -> {"none", "pending", "done", "failed"}]]
        /\ \A e \in Docs, h \in I!Gens : batch'[e][h] = IF e = d /\ h = g THEN "done" ELSE batch[e][h]
    BY <2>1, CellSet DEF GenTypes
  <2> QED BY <1>2, <2>1, <2>2 DEF GenTypes
<1> QED BY <1>1, <1>2

LEMMA AloneMoves ==
  ASSUME GenTypes, NEW d \in Docs, NEW g \in I!Gens, NEW k \in I!Kinds, I!FinishAlone(d, g, k)
  PROVE  GenTypes' /\ IndexMove
<1>1. /\ finish[<<d, g, k>>] = "alone" /\ I!OwnJob(d, g, k) /\ UNCHANGED <<plan, doc, events, gen, row>>
      /\ finish' = [finish EXCEPT ![<<d, g, k>>] = "none"]
  BY DEF I!FinishAlone
<1>2. /\ finish' \in [I!Finishes -> {"none", "open", "alone", "completing", "shadows", "leaves"}]
      /\ finish'[<<d, g, k>>] = "none" /\ OtherFinishes(d, g, k)
  BY <1>1, FinishIs
<1>3. GenTypes'
  BY <1>1, <1>2, OwnJobMoves DEF GenTypes
<1>4. Elsewhere(d, g)
  BY <1>1, OwnJobMoves DEF Elsewhere, SameCell
<1>5. OwnMove(d, g, k)
  BY <1>1, <1>2, <1>4, OwnJobMoves DEF OwnMove, OtherDocs
<1> QED BY <1>1, <1>3, <1>5 DEF IndexMove, AloneMove

LEMMA BothMoves ==
  ASSUME GenTypes, NEW d \in Docs, NEW g \in I!Gens, NEW k \in I!Kinds, I!FinishBoth(d, g, k)
  PROVE  GenTypes' /\ IndexMove
<1>1. PICK x \in {"none", "pending", "indexing", "backfilled", "failed"} :
        x = IF row[d][g] \in {"pending", "indexing"} THEN "backfilled" ELSE row[d][g]
  BY DEF GenTypes
<1>2. PICK y \in {"none", "building", "shadow", "active", "draining"} :
        y = IF finish[<<d, g, k>>] = "shadows" THEN "shadow" ELSE gen[g]
  BY DEF GenTypes
<1>3. PICK z \in {"absent", "converted", "indexing", "indexed", "failed", "deleted"} :
        z = IF doc[d] = "indexing" /\ gen[g] = "active" THEN "indexed" ELSE doc[d]
  BY DEF GenTypes
<1>4. /\ finish[<<d, g, k>>] \in {"shadows", "leaves"} /\ I!OwnJob(d, g, k) /\ UNCHANGED <<plan, events>>
      /\ row' = [row EXCEPT ![d][g] = x] /\ gen' = [gen EXCEPT ![g] = y]
      /\ doc' = [doc EXCEPT ![d] = z] /\ finish' = [finish EXCEPT ![<<d, g, k>>] = "none"]
  BY <1>1, <1>2, <1>3 DEF I!FinishBoth, I!Backfilled
<1>5. /\ finish' \in [I!Finishes -> {"none", "open", "alone", "completing", "shadows", "leaves"}]
      /\ finish'[<<d, g, k>>] = "none" /\ OtherFinishes(d, g, k)
  BY <1>4, FinishIs
<1>6. /\ row' \in [Docs -> [I!Gens -> {"none", "pending", "indexing", "backfilled", "failed"}]]
      /\ \A e \in Docs, h \in I!Gens : row'[e][h] = IF e = d /\ h = g THEN x ELSE row[e][h]
  BY <1>4, CellSet DEF GenTypes
<1>7. GenTypes'
  BY <1>4, <1>5, <1>6, OwnJobMoves DEF GenTypes
<1>8. Elsewhere(d, g)
  BY <1>4, <1>6, OwnJobMoves DEF Elsewhere, SameCell
<1>9. OtherDocs(d) /\ doc'[d] = z /\ \A h \in I!Gens : gen'[h] = IF h = g THEN y ELSE gen[h]
  BY <1>4 DEF GenTypes, OtherDocs
<1>10. OwnMove(d, g, k)
  BY <1>4, <1>5, <1>8, <1>9, OwnJobMoves DEF OwnMove
<1>11. BothMove(d, g, k)
  BY <1>1, <1>2, <1>3, <1>4, <1>6, <1>9, <1>10 DEF BothMove
<1> QED BY <1>7, <1>11 DEF IndexMove

LEMMA IndexMoves == ASSUME GenTypes, I!Next PROVE GenTypes' /\ IndexMove
BY DeployMoves, PromoteMoves, PublishMoves, CutOverMoves, BeginMoves, WorkMoves, FailMoves, DeleteMoves,
   LookMoves, AloneMoves, BothMoves DEF I!Next

\* What has come stays: generations, jobs, and what is through.
Stays(e, h) ==
    /\ plan' \in Nat /\ plan \in Nat /\ plan <= plan'
    /\ gen[h] # "none" => gen'[h] # "none"
    /\ gen[h] \in {"active", "draining"} => gen'[h] \in {"active", "draining"}
    /\ idx[e][h] # "none" => idx'[e][h] # "none"
    /\ batch[e][h] = "done" => batch'[e][h] = "done"
    /\ row[e][h] # "none" => row'[e][h] # "none"
    /\ row[e][h] = "backfilled" => row'[e][h] = "backfilled"
    /\ doc[e] # "absent" => doc'[e] # "absent"
    /\ doc[e] = "deleted" => doc'[e] = "deleted"

LEMMA Grows ==
  ASSUME GenTypes, GenTypes', DecidedInv, IndexMove, NEW e \in Docs, NEW h \in I!Gens
  PROVE  Stays(e, h)
<1>0. plan' \in Nat /\ plan \in Nat
  BY GensAre DEF GenTypes
<1>1. CASE DeployMove
  BY <1>0, <1>1 DEF DeployMove, Stays
<1>2. ASSUME NEW g \in I!Gens, CutMove(g) PROVE Stays(e, h)
  BY <1>0, <1>2 DEF CutMove, Stays
<1>3. ASSUME NEW d \in Docs, PromoteMove(d) PROVE Stays(e, h)
  BY <1>0, <1>3 DEF PromoteMove, OtherDocs, Stays
<1>4. ASSUME NEW d \in Docs, PublishMove(d) PROVE Stays(e, h)
  BY <1>0, <1>4 DEF PublishMove, Stays, I!NewState
<1>5. ASSUME NEW d \in Docs, FailMove(d) PROVE Stays(e, h)
  BY <1>0, <1>5 DEF FailMove, OtherDocs, SameCell, Stays
<1>6. ASSUME NEW d \in Docs, NEW g \in I!Gens, BeginMove(d, g) PROVE Stays(e, h)
  BY <1>0, <1>6 DEF BeginMove, SameCell, Stays
<1>7. ASSUME NEW d \in Docs, NEW g \in I!Gens, WorkMove(d, g) PROVE Stays(e, h)
  BY <1>0, <1>7 DEF WorkMove, Elsewhere, OtherDocs, SameCell, Stays
<1>8. ASSUME NEW d \in Docs, NEW g \in I!Gens, NEW k \in I!Kinds, LookMove(d, g, k) PROVE Stays(e, h)
  BY <1>0, <1>8 DEF LookMove, Stays
<1>9. ASSUME NEW d \in Docs, NEW g \in I!Gens, NEW k \in I!Kinds, AloneMove(d, g, k) PROVE Stays(e, h)
  BY <1>0, <1>9 DEF AloneMove, OwnMove, Elsewhere, OtherDocs, SameCell, Stays
<1>10. ASSUME NEW d \in Docs, NEW g \in I!Gens, NEW k \in I!Kinds, BothMove(d, g, k) PROVE Stays(e, h)
  <2>1. finish[<<d, g, k>>] = "shadows" => gen[g] \notin {"active", "draining"}
    BY DEF DecidedInv, Decided
  <2> QED BY <1>0, <1>10, <2>1 DEF BothMove, OwnMove, Elsewhere, OtherDocs, SameCell, Stays
<1> QED BY <1>1, <1>2, <1>3, <1>4, <1>5, <1>6, <1>7, <1>8, <1>9, <1>10 DEF IndexMove

LEMMA OwnFinish ==
  ASSUME FinishLocks, NEW d \in Docs, NEW g \in I!Gens, NEW k \in I!Kinds, finish[<<d, g, k>>] # "none",
         OtherFinishes(d, g, k), NEW h \in I!Gens, NEW l \in I!Kinds,
         finish'[<<d, g, k>>] = "none" \/ <<g, k>> # <<h, l>>
  PROVE  finish'[<<d, h, l>>] = "none"
<1>1. CASE <<g, k>> = <<h, l>>
  BY <1>1
<1>2. CASE <<g, k>> # <<h, l>>
  <2>1. finish'[<<d, h, l>>] = finish[<<d, h, l>>]
    BY <1>2 DEF OtherFinishes
  <2>2. finish[<<d, h, l>>] = "none"
    BY <1>2 DEF FinishLocks
  <2> QED BY <2>1, <2>2
<1> QED BY <1>1, <1>2

LEMMA FinishLocksStep == ASSUME FinishLocks, IndexMove PROVE FinishLocks'
<1>1. CASE finish' = finish
  <2> SUFFICES ASSUME NEW d \in Docs, NEW e \in Docs, NEW g \in I!Gens, NEW h \in I!Gens,
                      NEW k \in I!Kinds, NEW l \in I!Kinds
               PROVE  /\ d = e /\ finish'[<<d, g, k>>] # "none" /\ finish'[<<e, h, l>>] # "none"
                           => g = h /\ k = l
                      /\ g = h /\ finish'[<<d, g, k>>] \in Counting /\ finish'[<<e, h, l>>] \in Counting
                           => d = e /\ k = l
    BY DEF FinishLocks
  <2> QED BY <1>1 DEF FinishLocks
<1>2. ASSUME NEW d \in Docs, NEW g \in I!Gens, NEW k \in I!Kinds, OtherFinishes(d, g, k),
             \/ finish'[<<d, g, k>>] = "none"
             \/ finish[<<d, g, k>>] = "none" /\ finish'[<<d, g, k>>] = "open" /\ Quiet(d)
             \/ finish[<<d, g, k>>] # "none" /\ finish'[<<d, g, k>>] = "alone"
             \/ /\ finish[<<d, g, k>>] # "none" /\ finish'[<<d, g, k>>] = "completing"
                /\ \A e \in Docs, l \in I!Kinds : finish[<<e, g, l>>] \notin Counting
             \/ finish[<<d, g, k>>] = "completing" /\ finish'[<<d, g, k>>] \in {"shadows", "leaves"}
      PROVE  FinishLocks'
  <2> SUFFICES ASSUME NEW a \in Docs, NEW b \in Docs, NEW p \in I!Gens, NEW q \in I!Gens,
                      NEW m \in I!Kinds, NEW n \in I!Kinds
               PROVE  /\ a = b /\ finish'[<<a, p, m>>] # "none" /\ finish'[<<b, q, n>>] # "none"
                           => p = q /\ m = n
                      /\ p = q /\ finish'[<<a, p, m>>] \in Counting /\ finish'[<<b, q, n>>] \in Counting
                           => a = b /\ m = n
    BY DEF FinishLocks
  <2>1. /\ <<a, p, m>> # <<d, g, k>> => finish'[<<a, p, m>>] = finish[<<a, p, m>>]
        /\ <<b, q, n>> # <<d, g, k>> => finish'[<<b, q, n>>] = finish[<<b, q, n>>]
    BY <1>2 DEF OtherFinishes
  <2>2. CASE <<a, p, m>> # <<d, g, k>> /\ <<b, q, n>> # <<d, g, k>>
    BY <2>1, <2>2 DEF FinishLocks
  <2>3. CASE <<a, p, m>> = <<d, g, k>> /\ <<b, q, n>> = <<d, g, k>>
    BY <2>3
  <2>4. CASE <<a, p, m>> = <<d, g, k>> /\ <<b, q, n>> # <<d, g, k>>
    <3>1. finish[<<b, q, n>>] # "none" /\ b = d => finish'[<<d, g, k>>] = "none"
      BY <1>2, <2>4 DEF FinishLocks, Quiet
    <3>2. finish[<<b, q, n>>] \in Counting /\ q = g => finish'[<<d, g, k>>] \notin Counting
      BY <1>2, <2>4 DEF FinishLocks, Counting
    <3> QED BY <2>1, <2>4, <3>1, <3>2
  <2>5. CASE <<a, p, m>> # <<d, g, k>> /\ <<b, q, n>> = <<d, g, k>>
    <3>1. finish[<<a, p, m>>] # "none" /\ a = d => finish'[<<d, g, k>>] = "none"
      BY <1>2, <2>5 DEF FinishLocks, Quiet
    <3>2. finish[<<a, p, m>>] \in Counting /\ p = g => finish'[<<d, g, k>>] \notin Counting
      BY <1>2, <2>5 DEF FinishLocks, Counting
    <3> QED BY <2>1, <2>5, <3>1, <3>2
  <2> QED BY <2>2, <2>3, <2>4, <2>5
<1>3. ASSUME NEW d \in Docs, NEW g \in I!Gens, NEW k \in I!Kinds,
             LookMove(d, g, k) \/ AloneMove(d, g, k) \/ BothMove(d, g, k)
      PROVE  FinishLocks'
  <2>1. CASE LookMove(d, g, k)
    BY <1>2, <2>1 DEF LookMove
  <2>2. CASE AloneMove(d, g, k) \/ BothMove(d, g, k)
    BY <1>2, <2>2 DEF AloneMove, BothMove, OwnMove
  <2> QED BY <1>3, <2>1, <2>2
<1> QED BY <1>1, <1>3 DEF IndexMove, DeployMove, CutMove, PromoteMove, PublishMove, FailMove, BeginMove, WorkMove

LEMMA OpenJobsStep ==
  ASSUME GenTypes, GenTypes', FinishLocks, OpenJobs, CellInv, IndexMove PROVE OpenJobs'
<1> SUFFICES ASSUME NEW a \in Docs, NEW p \in I!Gens, NEW m \in I!Kinds, finish'[<<a, p, m>>] # "none"
             PROVE  JobIsOpen(a, p, m)'
  BY DEF OpenJobs
<1>0. finish[<<a, p, m>>] # "none" => JobIsOpen(a, p, m)
  BY DEF OpenJobs
<1>c. CellOf(a, p)
  BY DEF CellInv
<1>1. CASE DeployMove
  BY <1>0, <1>1 DEF DeployMove, JobIsOpen, I!OthersDone
<1>2. ASSUME NEW g \in I!Gens, CutMove(g) PROVE JobIsOpen(a, p, m)'
  BY <1>0, <1>2 DEF CutMove, JobIsOpen, I!OthersDone
<1>3. ASSUME NEW d \in Docs, PromoteMove(d) PROVE JobIsOpen(a, p, m)'
  BY <1>0, <1>3 DEF PromoteMove, OtherDocs, JobIsOpen, I!OthersDone
<1>4. ASSUME NEW d \in Docs, PublishMove(d) PROVE JobIsOpen(a, p, m)'
  BY <1>0, <1>c, <1>4 DEF PublishMove, JobIsOpen, I!OthersDone, CellOf
<1>5. ASSUME NEW d \in Docs, FailMove(d) PROVE JobIsOpen(a, p, m)'
  <2>1. a # d
    BY <1>5 DEF FailMove, Quiet
  <2> QED BY <1>0, <1>5, <2>1 DEF FailMove, OtherDocs, SameCell, JobIsOpen, I!OthersDone
<1>6. ASSUME NEW d \in Docs, NEW g \in I!Gens, BeginMove(d, g) PROVE JobIsOpen(a, p, m)'
  <2>1. CASE p # g
    BY <1>0, <1>6, <2>1 DEF BeginMove, SameCell, JobIsOpen, I!OthersDone
  <2>2. CASE p = g /\ a # d
    BY <1>0, <1>c, <1>6, <2>2 DEF BeginMove, JobIsOpen, I!OthersDone, CellOf
  <2>3. CASE p = g /\ a = d
    BY <1>0, <1>c, <1>6, <2>3 DEF BeginMove, JobIsOpen, I!OthersDone, CellOf
  <2> QED BY <2>1, <2>2, <2>3
<1>7. ASSUME NEW d \in Docs, NEW g \in I!Gens, WorkMove(d, g) PROVE JobIsOpen(a, p, m)'
  <2>1. CASE a # d \/ p # g
    <3>1. a = d => doc'[a] = doc[a]
      BY <1>7 DEF WorkMove, Quiet
    <3> QED BY <1>0, <1>7, <2>1, <3>1 DEF WorkMove, Elsewhere, OtherDocs, SameCell, JobIsOpen, I!OthersDone
  <2>2. CASE a = d /\ p = g
    <3>1. idx[d][g] \in {"enters", "persists"} /\ batch[d][g] = "done" => FALSE
      BY <1>0, <1>7, <2>2 DEF WorkMove, JobIsOpen
    <3>2. I!LiveIndex(d, g) /\ finish[<<d, g, "index">>] = "none" => m # "index"
      BY <1>7, <2>2 DEF WorkMove
    <3>3. /\ doc' = doc /\ batch' = batch /\ idx'[d][g] = "pending" /\ m # "index" /\ finish' = finish
          /\ I!LiveIndex(d, g)
      BY <1>7, <2>2, <3>1, <3>2 DEF WorkMove, Quiet
    <3> QED BY <1>0, <2>2, <3>3 DEF JobIsOpen, I!OthersDone, I!LiveIndex, Counting
  <2> QED BY <2>1, <2>2
<1>8. ASSUME NEW d \in Docs, NEW g \in I!Gens, NEW k \in I!Kinds, LookMove(d, g, k) PROVE JobIsOpen(a, p, m)'
  <2>1. CASE <<a, p, m>> # <<d, g, k>>
    BY <1>0, <1>8, <2>1 DEF LookMove, OtherFinishes, JobIsOpen, I!OthersDone
  <2>2. CASE <<a, p, m>> = <<d, g, k>>
    BY <1>0, <1>c, <1>8, <2>2 DEF LookMove, JobIsOpen, I!OthersDone, CellOf, Counting
  <2> QED BY <2>1, <2>2
<1>9. ASSUME NEW d \in Docs, NEW g \in I!Gens, NEW k \in I!Kinds, AloneMove(d, g, k) \/ BothMove(d, g, k)
      PROVE  JobIsOpen(a, p, m)'
  <2>1. OwnMove(d, g, k) /\ finish[<<d, g, k>>] # "none"
    BY <1>9 DEF AloneMove, BothMove
  <2>2. a # d
    BY <2>1, OwnFinish DEF OwnMove
  <2> QED BY <1>0, <2>1, <2>2 DEF OwnMove, OtherFinishes, OtherDocs, Elsewhere, SameCell, JobIsOpen, I!OthersDone
<1> QED BY <1>1, <1>2, <1>3, <1>4, <1>5, <1>6, <1>7, <1>8, <1>9 DEF IndexMove

LEMMA CellStep ==
  ASSUME GenTypes, GenTypes', FinishLocks, OpenJobs, DecidedInv, CellInv, AskedInv, IndexMove PROVE CellInv'
<1> SUFFICES ASSUME NEW a \in Docs, NEW p \in I!Gens PROVE CellOf(a, p)'
  BY DEF CellInv
<1>c. CellOf(a, p)
  BY DEF CellInv
<1>s. Stays(a, p)
  BY Grows
<1>1. CASE DeployMove
  BY <1>c, <1>1 DEF DeployMove, CellOf
<1>2. ASSUME NEW g \in I!Gens, CutMove(g) PROVE CellOf(a, p)'
  BY <1>c, <1>s, <1>2 DEF CutMove, CellOf, Stays
<1>3. ASSUME NEW d \in Docs, PromoteMove(d) PROVE CellOf(a, p)'
  BY <1>c, <1>3 DEF PromoteMove, OtherDocs, CellOf
<1>4. ASSUME NEW d \in Docs, PublishMove(d) PROVE CellOf(a, p)'
  <2>1. doc[d] # "absent"
    BY <1>4 DEF AskedInv, PublishMove
  <2>2. gen'[plan] # "none" /\ plan \in I!Gens
    BY <1>4 DEF PublishMove, I!NewState, GenTypes
  <2> QED BY <1>c, <1>s, <1>4, <2>1, <2>2 DEF PublishMove, CellOf, Stays
<1>5. ASSUME NEW d \in Docs, FailMove(d) PROVE CellOf(a, p)'
  <2>1. CASE a # d
    BY <1>c, <1>5, <2>1 DEF FailMove, OtherDocs, SameCell, CellOf
  <2>2. CASE a = d
    <3>1. doc'[a] \notin {"converted", "indexing"}
      BY <1>5, <2>2 DEF FailMove
    <3> QED BY <1>c, <1>s, <1>5, <2>2, <3>1 DEF FailMove, CellOf, Stays, I!LiveIndex
  <2> QED BY <2>1, <2>2
<1>6. ASSUME NEW d \in Docs, NEW g \in I!Gens, BeginMove(d, g) PROVE CellOf(a, p)'
  <2>1. CASE p # g
    BY <1>c, <1>6, <2>1 DEF BeginMove, SameCell, CellOf
  <2>2. CASE p = g
    <3>1. idx'[a][p] # idx[a][p] =>
            /\ idx[a][p] \in {"none", "pending"} /\ idx'[a][p] \in {"pending", "enters", "persists"}
            /\ doc[a] # "absent" /\ (doc[a] = "converted" => idx'[a][p] # "persists")
      BY <1>c, <1>6, <2>2 DEF BeginMove, Seeded, CellOf
    <3>2. row'[a][p] = row[a][p] \/ row'[a][p] = "pending"
      BY <1>6, <2>2 DEF BeginMove
    <3> QED BY <1>c, <1>s, <1>6, <2>2, <3>1, <3>2 DEF BeginMove, CellOf, Stays
  <2> QED BY <2>1, <2>2
<1>7. ASSUME NEW d \in Docs, NEW g \in I!Gens, WorkMove(d, g) PROVE CellOf(a, p)'
  <2>1. CASE a # d
    BY <1>c, <1>7, <2>1 DEF WorkMove, Elsewhere, OtherDocs, SameCell, CellOf
  <2>2. CASE a = d /\ p # g
    <3>1. doc'[a] = doc[a] \/ (doc[a] = "converted" /\ doc'[a] = "indexing")
      BY <1>7, <2>2 DEF WorkMove
    <3> QED BY <1>c, <1>7, <2>2, <3>1 DEF WorkMove, Elsewhere, SameCell, CellOf
  <2>3. CASE a = d /\ p = g
    BY <1>c, <1>7, <2>3 DEF WorkMove, CellOf, I!LiveIndex
  <2> QED BY <2>1, <2>2, <2>3
<1>8. ASSUME NEW d \in Docs, NEW g \in I!Gens, NEW k \in I!Kinds, LookMove(d, g, k) PROVE CellOf(a, p)'
  BY <1>c, <1>8 DEF LookMove, CellOf
<1>9. ASSUME NEW d \in Docs, NEW g \in I!Gens, NEW k \in I!Kinds, AloneMove(d, g, k) PROVE CellOf(a, p)'
  <2>1. JobIsOpen(d, g, k)
    BY <1>9 DEF OpenJobs, AloneMove
  <2>2. CASE a # d \/ p # g
    BY <1>c, <1>9, <2>2 DEF AloneMove, OwnMove, Elsewhere, SameCell, CellOf
  <2>3. CASE a = d /\ p = g
    BY <1>c, <1>9, <2>1, <2>3 DEF AloneMove, OwnMove, JobIsOpen, CellOf
  <2> QED BY <2>2, <2>3
<1>10. ASSUME NEW d \in Docs, NEW g \in I!Gens, NEW k \in I!Kinds, BothMove(d, g, k) PROVE CellOf(a, p)'
  <2>1. JobIsOpen(d, g, k) /\ I!OthersDone(d, g, k)
    BY <1>10 DEF OpenJobs, BothMove, JobIsOpen, Counting
  <2>2. doc'[a] = doc[a] \/ (doc[a] = "indexing" /\ doc'[a] = "indexed")
    BY <1>10 DEF BothMove, OwnMove, OtherDocs
  <2>3. CASE a # d \/ p # g
    BY <1>c, <1>s, <1>10, <2>2, <2>3 DEF BothMove, OwnMove, Elsewhere, SameCell, CellOf, Stays
  <2>4. CASE a = d /\ p = g
    <3>1. /\ batch'[d][g] = "done" /\ idx'[d][g] \in {"done", "replayed"}
          /\ doc[d] \notin {"absent", "converted"} /\ gen[g] # "none"
      BY <1>c, <1>10, <2>1, <2>4 DEF BothMove, OwnMove, JobIsOpen, I!OthersDone, CellOf
    <3> QED BY <1>c, <1>s, <2>2, <2>4, <3>1 DEF CellOf, Stays
  <2> QED BY <2>3, <2>4
<1> QED BY <1>1, <1>2, <1>3, <1>4, <1>5, <1>6, <1>7, <1>8, <1>9, <1>10 DEF IndexMove

\* Which steps bring something about.
LEMMA NoneStays ==
  ASSUME GenTypes, GenTypes', OpenJobs, CellInv, IndexMove, NEW e \in Docs, NEW h \in I!Gens, idx[e][h] = "none", h # plan
  PROVE  idx'[e][h] = "none"
<1>1. ASSUME NEW d \in Docs, NEW g \in I!Gens, BeginMove(d, g) PROVE idx'[e][h] = "none"
  BY <1>1 DEF BeginMove, SameCell
<1>2. ASSUME NEW d \in Docs, NEW g \in I!Gens, WorkMove(d, g) PROVE idx'[e][h] = "none"
  BY <1>2 DEF WorkMove, Elsewhere, SameCell, I!LiveIndex
<1>3. ASSUME NEW d \in Docs, NEW g \in I!Gens, NEW k \in I!Kinds, AloneMove(d, g, k) \/ BothMove(d, g, k)
      PROVE  idx'[e][h] = "none"
  <2>1. OwnMove(d, g, k) /\ JobIsOpen(d, g, k)
    BY <1>3 DEF AloneMove, BothMove, OpenJobs
  <2> QED BY <2>1 DEF OwnMove, Elsewhere, SameCell, JobIsOpen
<1>4. ASSUME NEW d \in Docs, FailMove(d) PROVE idx'[e][h] = "none"
  BY <1>4 DEF FailMove, SameCell, I!LiveIndex
<1>5. ASSUME NEW d \in Docs, PublishMove(d) PROVE idx'[e][h] = "none"
  BY <1>5 DEF PublishMove
<1>6. ASSUME \/ DeployMove
             \/ \E g \in I!Gens : CutMove(g)
             \/ \E d \in Docs : PromoteMove(d)
             \/ \E d \in Docs, g \in I!Gens, k \in I!Kinds : LookMove(d, g, k)
      PROVE  idx'[e][h] = "none"
  BY <1>6, Frames
<1> QED BY <1>1, <1>2, <1>3, <1>4, <1>5, <1>6 DEF IndexMove

LEMMA RowComes ==
  ASSUME IndexMove, NEW e \in Docs, NEW h \in I!Gens, row[e][h] = "none", row'[e][h] # "none"
  PROVE  \E b \in Docs : BeginMove(b, h)
<1>1. ASSUME NEW d \in Docs, NEW g \in I!Gens, BeginMove(d, g) PROVE \E b \in Docs : BeginMove(b, h)
  BY <1>1 DEF BeginMove, SameCell
<1>2. ASSUME NEW d \in Docs, NEW g \in I!Gens, WorkMove(d, g) PROVE FALSE
  BY <1>2 DEF WorkMove, Elsewhere, SameCell
<1>3. ASSUME NEW d \in Docs, NEW g \in I!Gens, NEW k \in I!Kinds, AloneMove(d, g, k) \/ BothMove(d, g, k)
      PROVE  FALSE
  BY <1>3 DEF AloneMove, BothMove, OwnMove, Elsewhere, SameCell
<1>4. ASSUME NEW d \in Docs, FailMove(d) PROVE FALSE
  BY <1>4 DEF FailMove, SameCell
<1>5. ASSUME \/ DeployMove
             \/ \E g \in I!Gens : CutMove(g)
             \/ \E d \in Docs : PromoteMove(d)
             \/ \E d \in Docs : PublishMove(d)
             \/ \E d \in Docs, g \in I!Gens, k \in I!Kinds : LookMove(d, g, k)
      PROVE  FALSE
  BY <1>5 DEF DeployMove, CutMove, PromoteMove, PublishMove, LookMove
<1> QED BY <1>1, <1>2, <1>3, <1>4, <1>5 DEF IndexMove

LEMMA RowChanges ==
  ASSUME IndexMove, NEW e \in Docs, NEW h \in I!Gens
  PROVE  /\ row[e][h] # "backfilled" /\ row'[e][h] = "backfilled" => \E l \in I!Kinds : BothMove(e, h, l)
         /\ row[e][h] \in {"pending", "indexing", "failed"} /\ row'[e][h] \notin {"pending", "indexing", "failed"}
              => \E l \in I!Kinds : BothMove(e, h, l)
<1> DEFINE P == row'[e][h] = row[e][h] \/ (row[e][h] \in {"none", "pending", "indexing"}
                                           /\ row'[e][h] \in {"pending", "indexing", "failed"})
<1>1. ASSUME NEW d \in Docs, NEW g \in I!Gens, BeginMove(d, g) PROVE P
  BY <1>1 DEF BeginMove, SameCell
<1>2. ASSUME NEW d \in Docs, NEW g \in I!Gens, WorkMove(d, g) PROVE P
  BY <1>2 DEF WorkMove, Elsewhere, SameCell
<1>3. ASSUME NEW d \in Docs, NEW g \in I!Gens, NEW k \in I!Kinds, AloneMove(d, g, k) PROVE P
  BY <1>3 DEF AloneMove
<1>4. ASSUME NEW d \in Docs, FailMove(d) PROVE P
  BY <1>4 DEF FailMove, SameCell
<1>5. ASSUME NEW d \in Docs, NEW g \in I!Gens, NEW k \in I!Kinds, BothMove(d, g, k)
      PROVE  P \/ \E l \in I!Kinds : BothMove(e, h, l)
  <2>1. CASE e # d \/ h # g
    BY <1>5, <2>1 DEF BothMove, OwnMove, Elsewhere, SameCell
  <2>2. CASE e = d /\ h = g
    BY <1>5, <2>2
  <2> QED BY <2>1, <2>2
<1>6. ASSUME \/ DeployMove
             \/ \E g \in I!Gens : CutMove(g)
             \/ \E d \in Docs : PromoteMove(d)
             \/ \E d \in Docs : PublishMove(d)
             \/ \E d \in Docs, g \in I!Gens, k \in I!Kinds : LookMove(d, g, k)
      PROVE  P
  BY <1>6, Frames
<1>7. P \/ \E l \in I!Kinds : BothMove(e, h, l)
  BY <1>1, <1>2, <1>3, <1>4, <1>5, <1>6 DEF IndexMove
<1> QED BY <1>7

LEMMA DoneComes ==
  ASSUME IndexMove, NEW e \in Docs, NEW h \in I!Gens,
         (idx[e][h] # "done" /\ idx'[e][h] = "done") \/ (batch[e][h] # "done" /\ batch'[e][h] = "done")
  PROVE  \E l \in I!Kinds : AloneMove(e, h, l) \/ BothMove(e, h, l)
<1>1. ASSUME NEW d \in Docs, NEW g \in I!Gens, BeginMove(d, g) PROVE FALSE
  BY <1>1 DEF BeginMove, SameCell
<1>2. ASSUME NEW d \in Docs, NEW g \in I!Gens, WorkMove(d, g) PROVE FALSE
  BY <1>2 DEF WorkMove, Elsewhere, SameCell
<1>3. ASSUME NEW d \in Docs, NEW g \in I!Gens, NEW k \in I!Kinds, AloneMove(d, g, k) \/ BothMove(d, g, k)
      PROVE  \E l \in I!Kinds : AloneMove(e, h, l) \/ BothMove(e, h, l)
  <2>1. e = d /\ h = g
    BY <1>3 DEF AloneMove, BothMove, OwnMove, Elsewhere, SameCell
  <2> QED BY <1>3, <2>1
<1>4. ASSUME NEW d \in Docs, FailMove(d) PROVE FALSE
  BY <1>4 DEF FailMove, SameCell
<1>5. ASSUME NEW d \in Docs, PublishMove(d) PROVE FALSE
  BY <1>5 DEF PublishMove
<1>6. ASSUME \/ DeployMove
             \/ \E g \in I!Gens : CutMove(g)
             \/ \E d \in Docs : PromoteMove(d)
             \/ \E d \in Docs, g \in I!Gens, k \in I!Kinds : LookMove(d, g, k)
      PROVE  FALSE
  BY <1>6, Frames
<1> QED BY <1>1, <1>2, <1>3, <1>4, <1>5, <1>6 DEF IndexMove

LEMMA GenChanges ==
  ASSUME GenTypes, IndexMove, NEW h \in I!Gens
  PROVE  \/ gen'[h] = gen[h]
         \/ /\ gen[h] = "none" /\ h = plan /\ gen'[h] = I!NewState /\ \E d \in Docs : PublishMove(d)
         \/ \E d \in Docs, k \in I!Kinds :
              /\ BothMove(d, h, k) /\ finish[<<d, h, k>>] = "shadows" /\ gen'[h] = "shadow"
         \/ \E g \in I!Gens : CutMove(g) /\ (h = g \/ gen[h] = "active")
<1>1. ASSUME NEW g \in I!Gens, CutMove(g)
      PROVE  gen'[h] = gen[h] \/ \E f \in I!Gens : CutMove(f) /\ (h = f \/ gen[h] = "active")
  BY <1>1 DEF CutMove
<1>2. ASSUME NEW d \in Docs, NEW g \in I!Gens, NEW k \in I!Kinds, BothMove(d, g, k)
      PROVE  \/ gen'[h] = gen[h]
             \/ \E e \in Docs, l \in I!Kinds :
                  /\ BothMove(e, h, l) /\ finish[<<e, h, l>>] = "shadows" /\ gen'[h] = "shadow"
  <2>1. CASE h = g /\ finish[<<d, g, k>>] = "shadows"
    <3>1. gen'[h] = "shadow"
      BY <1>2, <2>1 DEF BothMove
    <3> QED BY <1>2, <2>1, <3>1
  <2>2. CASE ~(h = g /\ finish[<<d, g, k>>] = "shadows")
    BY <1>2, <2>2 DEF BothMove
  <2> QED BY <2>1, <2>2
<1>3. ASSUME NEW d \in Docs, PublishMove(d)
      PROVE  \/ gen'[h] = gen[h]
             \/ /\ gen[h] = "none" /\ h = plan /\ gen'[h] = I!NewState /\ \E e \in Docs : PublishMove(e)
  <2>1. gen'[h] = IF h = plan /\ gen[h] = "none" THEN I!NewState ELSE gen[h]
    BY <1>3 DEF PublishMove
  <2> QED BY <1>3, <2>1
<1>4. ASSUME \/ DeployMove
             \/ \E d \in Docs : FailMove(d)
             \/ \E d \in Docs : PromoteMove(d)
             \/ \E d \in Docs, g \in I!Gens : BeginMove(d, g)
             \/ \E d \in Docs, g \in I!Gens : WorkMove(d, g)
             \/ \E d \in Docs, g \in I!Gens, k \in I!Kinds : LookMove(d, g, k)
             \/ \E d \in Docs, g \in I!Gens, k \in I!Kinds : AloneMove(d, g, k)
      PROVE  gen'[h] = gen[h]
  BY <1>4, Frames
<1> QED BY <1>1, <1>2, <1>3, <1>4 DEF IndexMove

LEMMA AskedStep ==
  ASSUME GenTypes, GenTypes', DecidedInv, AskedInv, IndexMove PROVE AskedInv'
<1> SUFFICES ASSUME NEW a \in Docs
             PROVE  /\ a \in events' => doc'[a] # "absent"
                    /\ doc'[a] # "absent" /\ a \notin events' => \E g \in I!Gens : idx'[a][g] # "none"
  BY DEF AskedInv
<1>0. \A g \in I!Gens : Stays(a, g)
  BY Grows
<1>1. (\E g \in I!Gens : idx[a][g] # "none") => \E g \in I!Gens : idx'[a][g] # "none"
  BY <1>0 DEF Stays
<1>2. doc[a] # "absent" => doc'[a] # "absent"
  <2>1. plan \in I!Gens
    BY DEF GenTypes
  <2> QED BY <1>0, <2>1 DEF Stays
<1>3. ASSUME NEW d \in Docs, PromoteMove(d)
      PROVE  /\ a \in events' => doc'[a] # "absent"
             /\ doc'[a] # "absent" /\ a \notin events' => doc[a] # "absent" /\ a \notin events
  BY <1>3 DEF PromoteMove, OtherDocs, AskedInv
<1>4. ASSUME NEW d \in Docs, PublishMove(d)
      PROVE  /\ a \in events' => a \in events
             /\ doc'[a] # "absent" /\ a \notin events' =>
                  \/ doc[a] # "absent" /\ a \notin events
                  \/ \E g \in I!Gens : idx'[a][g] # "none"
  <2>1. plan \in I!Gens /\ idx'[d][plan] # "none"
    BY <1>4 DEF PublishMove, GenTypes
  <2> QED BY <1>4, <2>1 DEF PublishMove
<1> DEFINE Same == events' = events /\ (doc[a] = "absent" => doc'[a] = "absent")
<1>5. ASSUME NEW d \in Docs, FailMove(d) PROVE Same
  BY <1>5 DEF FailMove, OtherDocs
<1>6. ASSUME NEW d \in Docs, NEW g \in I!Gens, WorkMove(d, g) PROVE Same
  BY <1>6 DEF WorkMove, OtherDocs
<1>7. ASSUME NEW d \in Docs, NEW g \in I!Gens, NEW k \in I!Kinds, BothMove(d, g, k) PROVE Same
  BY <1>7 DEF BothMove, OwnMove, OtherDocs
<1>8. ASSUME NEW d \in Docs, NEW g \in I!Gens, NEW k \in I!Kinds, LookMove(d, g, k) \/ AloneMove(d, g, k) PROVE Same
  BY <1>8 DEF AloneMove, LookMove, OwnMove
<1>9. Same \/ (\E d \in Docs : PromoteMove(d) \/ PublishMove(d))
  BY <1>5, <1>6, <1>7, <1>8 DEF IndexMove, DeployMove, CutMove, BeginMove
<1>10. /\ a \in events => doc[a] # "absent"
       /\ doc[a] # "absent" /\ a \notin events => \E g \in I!Gens : idx[a][g] # "none"
  BY DEF AskedInv
<1> QED BY <1>1, <1>2, <1>3, <1>4, <1>9, <1>10

LEMMA GenStep ==
  ASSUME GenTypes, GenTypes', DecidedInv, GenInv, IndexMove PROVE GenInv'
<1>0. /\ I!Gens \subseteq Nat /\ plan \in I!Gens /\ plan' \in Nat /\ plan <= plan'
      /\ \A h \in I!Gens : gen[h] # "none" => gen'[h] # "none"
  <2>1. plan \in I!Gens /\ plan' \in I!Gens
    BY DEF GenTypes
  <2>2. CASE Docs = {}
    <3>1. DeployMove \/ \E g \in I!Gens : CutMove(g)
      BY <2>2 DEF IndexMove
    <3>2. plan' = plan \/ plan' = plan + 1
      BY <3>1 DEF DeployMove, CutMove
    <3>3. \A h \in I!Gens : gen[h] # "none" => gen'[h] # "none"
      BY <3>1 DEF DeployMove, CutMove
    <3> QED BY <2>1, <3>2, <3>3, GensAre
  <2>3. ASSUME NEW e \in Docs
        PROVE  plan <= plan' /\ \A h \in I!Gens : gen[h] # "none" => gen'[h] # "none"
    <3>1. \A h \in I!Gens : Stays(e, h)
      BY Grows
    <3> QED BY <2>1, <3>1 DEF Stays
  <2> QED BY <2>1, <2>2, <2>3, GensAre
<1>1. \A g \in I!Gens : Earlier(g) => Earlier(g)'
  BY <1>0 DEF Earlier
<1>2. ASSUME \A h \in I!Gens :
               /\ gen'[h] = "active" <=> gen[h] = "active"
               /\ gen'[h] # "none" => gen[h] # "none"
               /\ gen'[h] = "draining" => gen[h] = "draining"
               /\ gen'[h] \in {"building", "shadow"} => gen[h] \in {"building", "shadow"}
      PROVE  GenInv'
  <2>1. \A g \in I!Gens : gen'[g] # "none" => g <= plan' /\ \E h \in I!Gens : gen'[h] = "active"
    BY <1>0, <1>2 DEF GenInv
  <2>2. \A g, h \in I!Gens : gen'[g] = "active" /\ gen'[h] = "active" => g = h
    BY <1>2 DEF GenInv
  <2>3. \A g \in I!Gens : /\ gen'[g] \in {"building", "shadow"} => Earlier(g)'
                          /\ gen'[g] = "draining" => g < plan' \/ Earlier(g)'
    BY <1>0, <1>1, <1>2 DEF GenInv
  <2> QED BY <2>1, <2>2, <2>3 DEF GenInv
<1>3. ASSUME NEW d \in Docs, PublishMove(d) PROVE GenInv'
  <2>1. plan' = plan /\ \A h \in I!Gens : gen'[h] = IF h = plan /\ gen[h] = "none" THEN I!NewState ELSE gen[h]
    BY <1>3 DEF PublishMove
  <2>2. CASE gen[plan] # "none"
    BY <1>2, <2>1, <2>2
  <2>3. CASE gen[plan] = "none" /\ \E h \in I!Gens : gen[h] = "active"
    <3>1. I!NewState = "building"
      BY <2>3 DEF I!NewState
    <3>2. PICK h \in I!Gens : gen[h] = "active"
      BY <2>3
    <3>3. h < plan
      BY <1>0, <2>3, <3>2 DEF GenInv
    <3>4. Earlier(plan)'
      BY <1>0, <2>1, <3>2, <3>3 DEF Earlier
    <3>5. \A g \in I!Gens : gen'[g] # "none" => g <= plan' /\ \E f \in I!Gens : gen'[f] = "active"
      BY <1>0, <2>1, <2>3, <3>2, <3>3 DEF GenInv
    <3>6. \A f, g \in I!Gens : gen'[g] = "active" /\ gen'[f] = "active" => g = f
      BY <2>1, <3>1 DEF GenInv
    <3>7. \A g \in I!Gens : /\ gen'[g] \in {"building", "shadow"} => Earlier(g)'
                            /\ gen'[g] = "draining" => g < plan' \/ Earlier(g)'
      BY <1>1, <2>1, <3>1, <3>4 DEF GenInv
    <3> QED BY <3>5, <3>6, <3>7 DEF GenInv
  <2>4. CASE gen[plan] = "none" /\ ~\E h \in I!Gens : gen[h] = "active"
    <3>1. I!NewState = "active" /\ \A h \in I!Gens : gen[h] = "none"
      BY <2>4 DEF I!NewState, GenInv
    <3>2. \A h \in I!Gens : gen'[h] = IF h = plan THEN "active" ELSE "none"
      BY <2>1, <3>1
    <3>3. \A g \in I!Gens : gen'[g] # "none" => g <= plan' /\ \E h \in I!Gens : gen'[h] = "active"
      BY <1>0, <3>2
    <3> QED BY <3>2, <3>3 DEF GenInv
  <2> QED BY <2>2, <2>3, <2>4
<1>4. ASSUME NEW g \in I!Gens, CutMove(g) PROVE GenInv'
  <2>1. /\ gen[g] = "shadow" /\ plan' = plan
        /\ \A h \in I!Gens : gen'[h] = IF h = g THEN "active"
                                       ELSE IF gen[h] = "active" THEN "draining" ELSE gen[h]
    BY <1>4 DEF CutMove
  <2>2. \A f \in I!Gens : gen'[f] # "none" => f <= plan' /\ \E h \in I!Gens : gen'[h] = "active"
    BY <2>1 DEF GenInv
  <2>3. \A f, h \in I!Gens : gen'[f] = "active" /\ gen'[h] = "active" => f = h
    BY <2>1
  <2>4. ASSUME NEW h \in I!Gens, h # g, gen[h] = "active" PROVE h < plan' \/ Earlier(h)'
    <3>1. g <= plan /\ h <= plan
      BY <2>1, <2>4 DEF GenInv
    <3>2. CASE h < g
      BY <1>0, <2>1, <3>1, <3>2
    <3>3. CASE g < h
      BY <2>1, <3>3 DEF Earlier
    <3> QED BY <1>0, <2>4, <3>2, <3>3
  <2>5. \A h \in I!Gens : /\ gen'[h] \in {"building", "shadow"} => Earlier(h)'
                          /\ gen'[h] = "draining" => h < plan' \/ Earlier(h)'
    BY <1>1, <2>1, <2>4 DEF GenInv
  <2> QED BY <2>2, <2>3, <2>5 DEF GenInv
<1>5. ASSUME NEW d \in Docs, NEW g \in I!Gens, NEW k \in I!Kinds, BothMove(d, g, k) PROVE GenInv'
  <2>1. finish[<<d, g, k>>] = "shadows" => gen[g] = "building"
    BY DEF DecidedInv, Decided
  <2> QED BY <1>2, <1>5, <2>1 DEF BothMove
<1>6. ASSUME gen' = gen PROVE GenInv'
  BY <1>2, <1>6
<1>7. ASSUME \/ DeployMove
             \/ \E d \in Docs : PromoteMove(d) \/ FailMove(d)
             \/ \E d \in Docs, g \in I!Gens : BeginMove(d, g) \/ WorkMove(d, g)
             \/ \E d \in Docs, g \in I!Gens, k \in I!Kinds : LookMove(d, g, k) \/ AloneMove(d, g, k)
      PROVE  gen' = gen
  BY <1>7, Frames
<1> QED BY <1>3, <1>4, <1>5, <1>6, <1>7 DEF IndexMove

\* Nothing becomes older than a generation that is there.
LEMMA OldStays ==
  ASSUME GenTypes, GenTypes', OpenJobs, DecidedInv, CellInv, GenInv, IndexMove,
         NEW e \in Docs, NEW h \in I!Gens, gen[h] # "none"
  PROVE  /\ Old(e, h)' => Old(e, h)
         /\ Old(e, h) /\ doc'[e] # "deleted" => Old(e, h)'
<1>1. \A g \in I!Gens : Stays(e, g)
  BY Grows
<1>2. h <= plan /\ I!Gens \subseteq Nat /\ plan \in Nat
  BY GensAre DEF GenInv, GenTypes
<1>3. \A g \in I!Gens : g < h => g # plan
  BY <1>2
<1>4. \A g \in I!Gens : g < h /\ idx'[e][g] # "none" => idx[e][g] # "none"
  BY <1>3, NoneStays
<1>5. doc'[e] # "deleted" => doc[e] # "deleted"
  BY <1>1 DEF Stays
<1>6. \A g \in I!Gens : idx[e][g] # "none" => idx'[e][g] # "none"
  BY <1>1 DEF Stays
<1> QED BY <1>4, <1>5, <1>6 DEF Old

LEMMA SeedStep ==
  ASSUME GenTypes, GenTypes', OpenJobs, DecidedInv, CellInv, GenInv, SeedInv, IndexMove PROVE SeedInv'
<1> SUFFICES ASSUME NEW d \in Docs, NEW e \in Docs, NEW h \in I!Gens, Old(e, h)', row'[d][h] # "none"
             PROVE  row'[e][h] # "none"
  BY DEF SeedInv
<1>1. CASE row[d][h] # "none"
  <2>1. gen[h] # "none"
    BY <1>1 DEF CellInv, CellOf
  <2>2. Old(e, h)
    BY <2>1, OldStays
  <2>3. row[e][h] # "none"
    BY <1>1, <2>2 DEF SeedInv
  <2> QED BY <2>3, Grows DEF Stays
<1>2. CASE row[d][h] = "none"
  <2>1. PICK b \in Docs : BeginMove(b, h)
    BY <1>2, RowComes
  <2>2. gen[h] = "building"
    BY <1>2, <2>1 DEF BeginMove, Seeded
  <2>3. Old(e, h)
    BY <2>2, OldStays
  <2>4. doc[e] \notin {"absent", "deleted"}
    BY <2>3 DEF Old, CellInv, CellOf
  <2> QED BY <2>1, <2>2, <2>4 DEF BeginMove, Seeded
<1> QED BY <1>1, <1>2

LEMMA CoveredStep ==
  ASSUME GenTypes, GenTypes', OpenJobs, DecidedInv, CellInv, GenInv, CoveredInv, IndexMove PROVE CoveredInv'
<1> SUFFICES ASSUME NEW e \in Docs, NEW g \in I!Gens, gen'[g] = "shadow", Old(e, g)'
             PROVE  row'[e][g] = "backfilled"
  BY DEF CoveredInv
<1>1. CASE gen[g] = "shadow"
  <2>1. Old(e, g)
    BY <1>1, OldStays
  <2>2. row[e][g] = "backfilled"
    BY <1>1, <2>1 DEF CoveredInv
  <2> QED BY <2>2, Grows DEF Stays
<1>2. CASE gen[g] # "shadow"
  <2>1. PICK d \in Docs, k \in I!Kinds : BothMove(d, g, k) /\ finish[<<d, g, k>>] = "shadows"
    BY <1>2, GenChanges DEF I!NewState, CutMove
  <2>2. /\ gen[g] = "building"
        /\ Old(e, g) => row[e][g] = "backfilled" \/ (e = d /\ row[d][g] \in {"pending", "indexing"})
    BY <2>1 DEF DecidedInv, Decided
  <2>3. Old(e, g)
    BY <2>2, OldStays
  <2>4. CASE row[e][g] = "backfilled"
    BY <2>4, Grows DEF Stays
  <2>5. CASE e = d /\ row[d][g] \in {"pending", "indexing"}
    BY <2>1, <2>5 DEF BothMove
  <2> QED BY <2>2, <2>3, <2>4, <2>5
<1> QED BY <1>1, <1>2

\* While its transaction is open, nobody else touches the row of a document.
LEMMA RowRests ==
  ASSUME FinishLocks, IndexMove, NEW d \in Docs, NEW g \in I!Gens, NEW k \in I!Kinds,
         finish[<<d, g, k>>] # "none", finish'[<<d, g, k>>] # "none", row[d][g] # "none"
  PROVE  row'[d][g] = row[d][g]
<1>1. ASSUME NEW b \in Docs, NEW h \in I!Gens, BeginMove(b, h) PROVE row'[d][g] = row[d][g]
  BY <1>1 DEF BeginMove, SameCell
<1>2. ASSUME NEW b \in Docs, NEW h \in I!Gens, WorkMove(b, h) PROVE row'[d][g] = row[d][g]
  <2>1. CASE b # d
    BY <1>2, <2>1 DEF WorkMove, Elsewhere, SameCell
  <2>2. CASE b = d
    BY <1>2, <2>2 DEF WorkMove, Elsewhere, SameCell, Quiet
  <2> QED BY <2>1, <2>2
<1>3. ASSUME NEW b \in Docs, FailMove(b) PROVE row'[d][g] = row[d][g]
  <2>1. b # d
    BY <1>3 DEF FailMove, Quiet
  <2> QED BY <1>3, <2>1 DEF FailMove, SameCell
<1>4. ASSUME NEW b \in Docs, NEW h \in I!Gens, NEW l \in I!Kinds, AloneMove(b, h, l) PROVE row'[d][g] = row[d][g]
  BY <1>4 DEF AloneMove
<1>5. ASSUME NEW b \in Docs, NEW h \in I!Gens, NEW l \in I!Kinds, BothMove(b, h, l) PROVE row'[d][g] = row[d][g]
  <2>1. b # d
    BY <1>5, OwnFinish DEF BothMove, OwnMove
  <2> QED BY <1>5, <2>1 DEF BothMove, OwnMove, Elsewhere, SameCell
<1>6. ASSUME \/ DeployMove
             \/ \E h \in I!Gens : CutMove(h)
             \/ \E b \in Docs : PromoteMove(b) \/ PublishMove(b)
             \/ \E b \in Docs, h \in I!Gens, l \in I!Kinds : LookMove(b, h, l)
      PROVE  row'[d][g] = row[d][g]
  BY <1>6, Frames
<1> QED BY <1>1, <1>2, <1>3, <1>4, <1>5, <1>6 DEF IndexMove

\* A decision is taken from what is there.
LEMMA DecidesRight ==
  ASSUME GenTypes, SeedInv, NEW d \in Docs, NEW g \in I!Gens, NEW k \in I!Kinds, LookMove(d, g, k)
  PROVE  Decided(d, g, k)' \/ finish'[<<d, g, k>>] = finish[<<d, g, k>>]
<1>0. UNCHANGED <<plan, doc, events, gen, idx, batch, row>>
  BY DEF LookMove
<1> DEFINE Sees(e) == IF e = d THEN I!Backfilled(row[e][g]) ELSE row[e][g]
<1>1. I!SeesComplete(d, g) <=> /\ \A e \in Docs : Sees(e) \in {"none", "backfilled"}
                               /\ \E e \in Docs : Sees(e) = "backfilled"
  BY DEF I!SeesComplete
<1>2. \A e \in Docs : /\ e # d => Sees(e) = row[e][g]
                      /\ e = d => Sees(e) = IF row[d][g] \in {"pending", "indexing"} THEN "backfilled"
                                            ELSE row[d][g]
  BY DEF I!Backfilled
<1>3. \A e \in Docs : row[e][g] \in {"none", "pending", "indexing", "backfilled", "failed"}
  BY DEF GenTypes
<1> HIDE DEF Sees
<1>4. CASE finish'[<<d, g, k>>] = "shadows" /\ gen[g] = "building" /\ I!SeesComplete(d, g)
  <2>1. PICK s \in Docs : row[s][g] # "none"
    BY <1>1, <1>2, <1>4
  <2>2. ASSUME NEW e \in Docs, Old(e, g)
        PROVE  row[e][g] = "backfilled" \/ (e = d /\ row[d][g] \in {"pending", "indexing"})
    <3>1. row[e][g] # "none"
      BY <2>1, <2>2 DEF SeedInv
    <3> QED BY <1>1, <1>2, <1>3, <1>4, <3>1
  <2> QED BY <1>0, <1>4, <2>2 DEF Decided, Old
<1>5. CASE finish'[<<d, g, k>>] = "leaves" /\ ~(gen[g] = "building" /\ I!SeesComplete(d, g))
  <2>1. CASE gen[g] # "building"
    BY <1>0, <1>5, <2>1 DEF Decided
  <2>2. CASE \E e \in Docs : Sees(e) \notin {"none", "backfilled"}
    <3>1. PICK e \in Docs : Sees(e) \notin {"none", "backfilled"}
      BY <2>2
    <3>2. CASE e # d
      <4>1. row[e][g] \in {"pending", "indexing", "failed"}
        BY <1>2, <1>3, <3>1, <3>2
      <4> QED BY <1>0, <1>5, <3>2, <4>1 DEF Decided
    <3>3. CASE e = d
      <4>1. row[d][g] = "failed"
        BY <1>2, <1>3, <3>1, <3>3
      <4> QED BY <1>0, <1>5, <4>1 DEF Decided
    <3> QED BY <3>2, <3>3
  <2>3. CASE \A e \in Docs : Sees(e) # "backfilled"
    <3>1. /\ row[d][g] \in {"none", "failed"}
          /\ \A e \in Docs : row[e][g] # "backfilled"
      BY <1>2, <1>3, <2>3
    <3> QED BY <1>0, <1>5, <3>1 DEF Decided
  <2> QED BY <1>1, <1>5, <2>1, <2>2, <2>3
<1>6. CASE finish'[<<d, g, k>>] \notin {"shadows", "leaves"}
  BY <1>6 DEF Decided
<1> QED BY <1>4, <1>5, <1>6 DEF LookMove

LEMMA DecidedStep ==
  ASSUME GenTypes, GenTypes', FinishLocks, OpenJobs, CellInv, GenInv, SeedInv, DecidedInv, IndexMove
  PROVE  DecidedInv'
<1> SUFFICES ASSUME NEW d \in Docs, NEW g \in I!Gens, NEW k \in I!Kinds PROVE Decided(d, g, k)'
  BY DEF DecidedInv
<1>1. CASE finish'[<<d, g, k>>] \notin {"shadows", "leaves"}
  BY <1>1 DEF Decided
<1>2. CASE LookMove(d, g, k) /\ finish'[<<d, g, k>>] # finish[<<d, g, k>>]
  BY <1>2, DecidesRight
<1>3. CASE finish'[<<d, g, k>>] = finish[<<d, g, k>>] /\ finish[<<d, g, k>>] \in {"shadows", "leaves"}
  <2>0. /\ JobIsOpen(d, g, k) /\ I!OthersDone(d, g, k) /\ Decided(d, g, k) /\ gen[g] # "none"
    BY <1>3 DEF OpenJobs, JobIsOpen, Counting, DecidedInv, CellInv, CellOf
  <2>1. ASSUME NEW e \in Docs, NEW l \in I!Kinds PROVE ~BothMove(e, g, l)
    <3>1. CASE e = d
      BY <1>3, <3>1, OwnFinish DEF BothMove, OwnMove
    <3>2. CASE e # d
      BY <1>3, <3>2 DEF BothMove, FinishLocks, Counting
    <3> QED BY <3>1, <3>2
  <2>2. /\ row[d][g] # "none" => row'[d][g] = row[d][g]
        /\ \A e \in Docs : row'[e][g] = "backfilled" <=> row[e][g] = "backfilled"
        /\ \A e \in Docs : row[e][g] \in {"pending", "indexing", "failed"} =>
                           row'[e][g] \in {"pending", "indexing", "failed"}
    <3>1. row[d][g] # "none" => row'[d][g] = row[d][g]
      BY <1>3, RowRests
    <3>2. \A e \in Docs : row'[e][g] = "backfilled" => row[e][g] = "backfilled"
      BY <2>1, RowChanges
    <3>3. \A e \in Docs : row[e][g] = "backfilled" => row'[e][g] = "backfilled"
      BY Grows DEF Stays
    <3>4. \A e \in Docs : row[e][g] \in {"pending", "indexing", "failed"} =>
                          row'[e][g] \in {"pending", "indexing", "failed"}
      BY <2>1, RowChanges
    <3> QED BY <3>1, <3>2, <3>3, <3>4
  <2>3. /\ gen[g] = "building" => gen'[g] = "building"
        /\ gen[g] # "building" => gen'[g] # "building"
    <3>1. gen'[g] = gen[g] \/ \E f \in I!Gens : CutMove(f) /\ (g = f \/ gen[g] = "active")
      BY <2>0, <2>1, GenChanges
    <3> QED BY <3>1 DEF CutMove
  <2>4. CASE finish[<<d, g, k>>] = "shadows"
    <3>1. gen'[g] = "building"
      BY <2>0, <2>3, <2>4 DEF Decided
    <3>2. ASSUME NEW e \in Docs, Old(e, g)'
          PROVE  row'[e][g] = "backfilled" \/ (e = d /\ row'[d][g] \in {"pending", "indexing"})
      <4>1. Old(e, g)
        BY <2>0, <3>2, OldStays
      <4>2. row[e][g] = "backfilled" \/ (e = d /\ row[d][g] \in {"pending", "indexing"})
        BY <2>0, <2>4, <4>1 DEF Decided
      <4> QED BY <2>2, <4>2
    <3> QED BY <1>3, <2>4, <3>1, <3>2 DEF Decided
  <2>5. CASE finish[<<d, g, k>>] = "leaves"
    <3>1. CASE gen[g] # "building"
      BY <1>3, <2>3, <2>5, <3>1 DEF Decided
    <3>2. CASE \E e \in Docs \ {d} : row[e][g] \in {"pending", "indexing", "failed"}
      BY <1>3, <2>2, <2>5, <3>2 DEF Decided
    <3>3. CASE row[d][g] = "failed"
      BY <1>3, <2>2, <2>5, <3>3 DEF Decided
    <3>4. CASE /\ row[d][g] = "none" /\ \A e \in Docs : row[e][g] # "backfilled"
               /\ row'[d][g] = "none"
      BY <1>3, <2>2, <2>5, <3>4 DEF Decided
    <3>5. CASE /\ row[d][g] = "none" /\ \A e \in Docs : row[e][g] # "backfilled"
               /\ row'[d][g] # "none"
      <4>1. PICK b \in Docs : BeginMove(b, g)
        BY <3>5, RowComes
      <4>2. gen[g] = "building" /\ idx[b][g] = "pending"
        BY <3>5, <4>1 DEF BeginMove, Seeded
      <4>3. b # d
        BY <2>0, <4>2 DEF JobIsOpen, I!OthersDone
      <4>4. doc[b] \notin {"absent", "deleted"}
        BY <4>1, <4>2 DEF BeginMove, CellInv, CellOf
      <4>5. row'[b][g] \in {"pending", "indexing", "failed"}
        <5>1. row[b][g] \in {"none", "pending", "indexing", "failed"}
          BY <3>5 DEF GenTypes
        <5> QED BY <4>1, <4>2, <4>4, <5>1 DEF BeginMove, Seeded
      <4> QED BY <1>3, <2>5, <4>3, <4>5 DEF Decided
    <3> QED BY <2>0, <2>5, <3>1, <3>2, <3>3, <3>4, <3>5 DEF Decided
  <2> QED BY <1>3, <2>4, <2>5
<1>4. \/ LookMove(d, g, k) \/ finish'[<<d, g, k>>] = finish[<<d, g, k>>] \/ finish'[<<d, g, k>>] = "none"
  <2>1. ASSUME NEW b \in Docs, NEW h \in I!Gens, NEW l \in I!Kinds, LookMove(b, h, l)
        PROVE  LookMove(d, g, k) \/ finish'[<<d, g, k>>] = finish[<<d, g, k>>]
    <3>1. CASE <<b, h, l>> = <<d, g, k>>
      BY <2>1, <3>1
    <3>2. CASE <<b, h, l>> # <<d, g, k>>
      BY <2>1, <3>2 DEF LookMove, OtherFinishes
    <3> QED BY <3>1, <3>2
  <2>2. ASSUME NEW b \in Docs, NEW h \in I!Gens, NEW l \in I!Kinds, AloneMove(b, h, l) \/ BothMove(b, h, l)
        PROVE  finish'[<<d, g, k>>] = finish[<<d, g, k>>] \/ finish'[<<d, g, k>>] = "none"
    <3>1. finish'[<<b, h, l>>] = "none" /\ OtherFinishes(b, h, l)
      BY <2>2 DEF AloneMove, BothMove, OwnMove
    <3>2. CASE <<b, h, l>> = <<d, g, k>>
      BY <3>1, <3>2
    <3>3. CASE <<b, h, l>> # <<d, g, k>>
      BY <3>1, <3>3 DEF OtherFinishes
    <3> QED BY <3>2, <3>3
  <2>3. ASSUME \/ DeployMove
               \/ \E h \in I!Gens : CutMove(h)
               \/ \E b \in Docs : PromoteMove(b) \/ PublishMove(b) \/ FailMove(b)
               \/ \E b \in Docs, h \in I!Gens : BeginMove(b, h) \/ WorkMove(b, h)
        PROVE  finish'[<<d, g, k>>] = finish[<<d, g, k>>]
    BY <2>3 DEF DeployMove, CutMove, PromoteMove, PublishMove, FailMove, BeginMove, WorkMove
  <2> QED BY <2>1, <2>2, <2>3 DEF IndexMove
<1> QED BY <1>1, <1>2, <1>3, <1>4

LEMMA CompletionStep ==
  ASSUME GenTypes, GenTypes', FinishLocks, OpenJobs, CellInv, DecidedInv, CompletionInv, IndexMove
  PROVE  CompletionInv'
<1> SUFFICES ASSUME NEW g \in I!Gens, NEW d \in Docs, gen'[g] = "building", row'[d][g] = "backfilled"
             PROVE  \E e \in Docs : row'[e][g] \in {"pending", "indexing", "failed"}
  BY DEF CompletionInv
<1>1. CASE \E e \in Docs, l \in I!Kinds : BothMove(e, g, l)
  <2>1. PICK e \in Docs, l \in I!Kinds : BothMove(e, g, l)
    BY <1>1
  <2>2. finish[<<e, g, l>>] = "leaves" /\ gen[g] = "building"
    BY <2>1 DEF BothMove
  <2>3. \A b \in Docs : b # e => row'[b][g] = row[b][g]
    BY <2>1 DEF BothMove, OwnMove, Elsewhere, SameCell
  <2>4. \/ \E b \in Docs \ {e} : row[b][g] \in {"pending", "indexing", "failed"}
        \/ row[e][g] = "failed"
        \/ row[e][g] = "none" /\ \A b \in Docs : row[b][g] # "backfilled"
    BY <2>2 DEF DecidedInv, Decided
  <2>5. row[e][g] \in {"none", "failed"} => row'[e][g] = row[e][g]
    BY <2>1 DEF BothMove
  <2> QED BY <2>3, <2>4, <2>5
<1>2. CASE ~\E e \in Docs, l \in I!Kinds : BothMove(e, g, l)
  <2>1. row[d][g] = "backfilled"
    BY <1>2, RowChanges
  <2>2. gen[g] = "building"
    <3>1. gen[g] # "none"
      BY <2>1 DEF CellInv, CellOf
    <3> QED BY <3>1, GenChanges DEF CutMove
  <2>3. PICK e \in Docs : row[e][g] \in {"pending", "indexing", "failed"}
    BY <2>1, <2>2 DEF CompletionInv
  <2>4. row'[e][g] \in {"pending", "indexing", "failed"}
    BY <1>2, <2>3, RowChanges
  <2> QED BY <2>4
<1> QED BY <1>1, <1>2

LEMMA OvertakenStays ==
  ASSUME GenTypes, GenTypes', DecidedInv, IndexMove, NEW d \in Docs, NEW g \in I!Gens, Overtaken(d, g)
  PROVE  Overtaken(d, g)'
<1>1. \A h \in I!Gens : Stays(d, h)
  BY Grows
<1> QED BY <1>1 DEF Overtaken, Earlier, Later, Stays

LEMMA DrainStep ==
  ASSUME GenTypes, GenTypes', OpenJobs, CellInv, GenInv, CoveredInv, DecidedInv, StrandInv, IndexMove,
         NEW d \in Docs, NEW g \in I!Gens, gen'[g] = "draining", idx'[d][g] # "none", doc'[d] # "deleted"
  PROVE  Overtaken(d, g)'
<1>1. doc[d] # "deleted" /\ I!Gens \subseteq Nat /\ plan \in I!Gens
  BY Grows, GensAre DEF Stays, GenTypes
<1>2. CASE gen[g] = "draining" /\ idx[d][g] # "none"
  BY <1>1, <1>2, OvertakenStays DEF StrandInv
<1>3. CASE gen[g] = "draining" /\ idx[d][g] = "none"
  <2>1. g = plan
    BY <1>3, NoneStays
  <2>2. Overtaken(d, g)
    BY <1>1, <1>3, <2>1 DEF GenInv, Overtaken
  <2> QED BY <2>2, OvertakenStays
<1>4. CASE gen[g] # "draining"
  <2>1. PICK h \in I!Gens : CutMove(h) /\ (g = h \/ gen[g] = "active")
    BY <1>4, GenChanges DEF I!NewState
  <2>2. h # g /\ gen[h] = "shadow" /\ UNCHANGED <<idx, row, doc>>
    BY <2>1 DEF CutMove
  <2>3. CASE h < g
    <3>1. Overtaken(d, g)
      BY <2>2, <2>3 DEF Overtaken, Earlier
    <3> QED BY <3>1, OvertakenStays
  <2>4. CASE g < h
    <3>1. Old(d, h)
      BY <1>1, <2>2, <2>4 DEF Old
    <3>2. Overtaken(d, g)
      BY <2>2, <2>4, <3>1 DEF CoveredInv, Overtaken, Later
    <3> QED BY <3>2, OvertakenStays
  <2> QED BY <1>1, <2>2, <2>3, <2>4
<1> QED BY <1>2, <1>3, <1>4

LEMMA ThroughStep ==
  ASSUME GenTypes, GenTypes', OpenJobs, CellInv, CellInv', GenInv, DecidedInv, StrandInv, IndexMove,
         NEW d \in Docs, NEW g \in I!Gens, doc'[d] = "indexing", idx'[d][g] = "done", batch'[d][g] = "done"
  PROVE  Overtaken(d, g)'
<1>1. CASE idx[d][g] = "done" /\ batch[d][g] = "done"
  <2>1. doc[d] # "converted" /\ doc[d] # "absent"
    BY <1>1 DEF CellInv, CellOf
  <2>2. doc[d] = "indexing"
    <3>1. ASSUME NEW b \in Docs, PromoteMove(b) PROVE doc[d] = "indexing"
      BY <2>1, <3>1 DEF PromoteMove, OtherDocs
    <3>2. ASSUME NEW b \in Docs, FailMove(b) PROVE doc[d] = "indexing"
      BY <2>1, <3>2 DEF FailMove, OtherDocs
    <3>3. ASSUME NEW b \in Docs, NEW h \in I!Gens, WorkMove(b, h) PROVE doc[d] = "indexing"
      BY <2>1, <3>3 DEF WorkMove, OtherDocs
    <3>4. ASSUME NEW b \in Docs, NEW h \in I!Gens, NEW l \in I!Kinds, BothMove(b, h, l) PROVE doc[d] = "indexing"
      BY <2>1, <3>4 DEF BothMove, OwnMove, OtherDocs
    <3>5. ASSUME \/ DeployMove
                 \/ \E h \in I!Gens : CutMove(h)
                 \/ \E b \in Docs : PublishMove(b)
                 \/ \E b \in Docs, h \in I!Gens : BeginMove(b, h)
                 \/ \E b \in Docs, h \in I!Gens, l \in I!Kinds : LookMove(b, h, l) \/ AloneMove(b, h, l)
          PROVE  doc[d] = "indexing"
      BY <2>1, <3>5, Frames
    <3> QED BY <3>1, <3>2, <3>3, <3>4, <3>5 DEF IndexMove
  <2> QED BY <1>1, <2>2, OvertakenStays DEF StrandInv
<1>2. CASE idx[d][g] # "done" \/ batch[d][g] # "done"
  <2>1. PICK k \in I!Kinds : AloneMove(d, g, k) \/ BothMove(d, g, k)
    BY <1>2, DoneComes
  <2>2. JobIsOpen(d, g, k) /\ gen[g] # "none" /\ idx[d][g] # "none"
    BY <2>1 DEF AloneMove, BothMove, OpenJobs, JobIsOpen, CellInv, CellOf
  <2>3. ~AloneMove(d, g, k)
    BY <2>2 DEF AloneMove, OwnMove, JobIsOpen, I!OthersDone
  <2>4. gen[g] # "active" /\ doc[d] = "indexing"
    BY <2>1, <2>3 DEF BothMove
  <2>5. Overtaken(d, g)
    <3>1. gen[g] \in {"building", "shadow", "draining"}
      BY <2>2, <2>4 DEF GenTypes
    <3> QED BY <2>2, <2>4, <3>1 DEF StrandInv, GenInv, Overtaken
  <2> QED BY <2>5, OvertakenStays
<1> QED BY <1>1, <1>2

LEMMA StrandStep ==
  ASSUME GenTypes, GenTypes', OpenJobs, CellInv, CellInv', GenInv, CoveredInv, DecidedInv, StrandInv, IndexMove
  PROVE  StrandInv'
BY DrainStep, ThroughStep DEF StrandInv

\* A document that becomes indexed does so in the active generation.
LEMMA IndexedComes ==
  ASSUME GenTypes, OpenJobs, DecidedInv, IndexMove, NEW d \in Docs, doc[d] # "indexed", doc'[d] = "indexed"
  PROVE  \E g \in I!Gens, k \in I!Kinds : BothMove(d, g, k) /\ gen[g] = "active" /\ doc[d] = "indexing"
<1>1. ASSUME NEW b \in Docs, PromoteMove(b) \/ FailMove(b) PROVE FALSE
  BY <1>1 DEF PromoteMove, FailMove, OtherDocs
<1>2. ASSUME NEW b \in Docs, NEW h \in I!Gens, WorkMove(b, h) PROVE FALSE
  BY <1>2 DEF WorkMove, OtherDocs
<1>3. ASSUME NEW b \in Docs, NEW h \in I!Gens, NEW l \in I!Kinds, BothMove(b, h, l)
      PROVE  \E g \in I!Gens, k \in I!Kinds : BothMove(d, g, k) /\ gen[g] = "active" /\ doc[d] = "indexing"
  <2>1. b = d
    BY <1>3 DEF BothMove, OwnMove, OtherDocs
  <2>2. gen[h] = "active" /\ doc[d] = "indexing"
    BY <1>3, <2>1 DEF BothMove
  <2> QED BY <1>3, <2>1, <2>2
<1>4. ASSUME \/ DeployMove
             \/ \E h \in I!Gens : CutMove(h)
             \/ \E b \in Docs : PublishMove(b)
             \/ \E b \in Docs, h \in I!Gens : BeginMove(b, h)
             \/ \E b \in Docs, h \in I!Gens, l \in I!Kinds : LookMove(b, h, l) \/ AloneMove(b, h, l)
      PROVE  FALSE
  BY <1>4, Frames
<1> QED BY <1>1, <1>2, <1>3, <1>4 DEF IndexMove

LEMMA VisibleStep ==
  ASSUME GenTypes, GenTypes', FinishLocks, OpenJobs, CellInv, CellInv', GenInv, SeedInv, CoveredInv, CoveredInv',
         DecidedInv, VisibleInv, IndexMove
  PROVE  VisibleInv'
<1> SUFFICES ASSUME NEW d \in Docs, doc'[d] = "indexed"
             PROVE  /\ \E g \in I!Gens : Served(d, g)'
                    /\ \A h \in I!Gens : gen'[h] \in {"shadow", "active"} =>
                          batch'[d][h] = "done" \/ \E g \in I!Gens : h < g /\ Served(d, g)'
  BY DEF VisibleInv
<1>0. /\ \A h \in I!Gens : Stays(d, h) /\ (Served(d, h) => Served(d, h)')
      /\ I!Gens \subseteq Nat
  BY Grows, GensAre DEF Stays, Served
<1>1. CASE doc[d] = "indexed"
  <2>1. PICK g \in I!Gens : Served(d, g)
    BY <1>1 DEF VisibleInv
  <2>2. idx[d][g] # "none" /\ gen[g] # "none" /\ gen[g] # "building"
    BY <2>1 DEF Served, CellInv, CellOf
  <2>3. ASSUME NEW h \in I!Gens, gen'[h] \in {"shadow", "active"}
        PROVE  batch'[d][h] = "done" \/ \E f \in I!Gens : h < f /\ Served(d, f)'
    <3>1. CASE gen[h] \in {"shadow", "active"}
      <4>1. batch[d][h] = "done" \/ \E f \in I!Gens : h < f /\ Served(d, f)
        BY <1>1, <3>1 DEF VisibleInv
      <4> QED BY <1>0, <4>1 DEF Stays
    <3>2. CASE gen[h] \notin {"shadow", "active"}
      <4>1. gen[h] # "none" \/ gen'[h] # "active"
        <5>1. \E f \in I!Gens : gen[f] = "active"
          BY <2>2 DEF GenInv
        <5>2. I!NewState = "building"
          BY <5>1 DEF I!NewState
        <5> QED BY <2>3, <5>2, GenChanges DEF CutMove
      <4>2. PICK b \in Docs, k \in I!Kinds :
              BothMove(b, h, k) /\ finish[<<b, h, k>>] = "shadows" /\ gen'[h] = "shadow"
        <5>1. \E f \in I!Gens : gen[f] = "active"
          BY <2>2 DEF GenInv
        <5>2. I!NewState = "building"
          BY <5>1 DEF I!NewState
        <5> QED BY <2>3, <3>2, <5>2, GenChanges DEF CutMove
      <4>3. gen[h] = "building"
        BY <4>2 DEF DecidedInv, Decided
      <4>4. CASE h < g
        BY <1>0, <2>1, <4>4
      <4>5. CASE g < h
        <5>1. Old(d, h)'
          <6>1. idx'[d][g] # "none" /\ doc'[d] # "deleted"
            BY <1>0, <2>2 DEF Stays
          <6> QED BY <4>5, <6>1 DEF Old
        <5>2. row'[d][h] = "backfilled"
          BY <4>2, <5>1 DEF CoveredInv
        <5> QED BY <5>2 DEF CellInv, CellOf
      <4>6. g # h
        BY <2>2, <4>3
      <4> QED BY <1>0, <4>4, <4>5, <4>6
    <3> QED BY <3>1, <3>2
  <2> QED BY <1>0, <2>1, <2>3
<1>2. CASE doc[d] # "indexed"
  <2>1. PICK g \in I!Gens, k \in I!Kinds : BothMove(d, g, k) /\ gen[g] = "active" /\ doc[d] = "indexing"
    BY <1>2, IndexedComes
  <2>2. /\ JobIsOpen(d, g, k) /\ I!OthersDone(d, g, k) /\ finish[<<d, g, k>>] = "leaves"
    BY <2>1 DEF BothMove, OpenJobs, JobIsOpen, Counting, DecidedInv, Decided
  <2>3. batch'[d][g] = "done" /\ idx[d][g] # "none"
    BY <2>1, <2>2 DEF BothMove, OwnMove, JobIsOpen, I!OthersDone, CellInv, CellOf
  <2>4. \A h \in I!Gens : gen'[h] = gen[h]
    BY <2>1, <2>2 DEF BothMove
  <2>5. Served(d, g)'
    BY <2>1, <2>3, <2>4 DEF Served
  <2>6. ASSUME NEW h \in I!Gens, gen'[h] \in {"shadow", "active"}
        PROVE  batch'[d][h] = "done" \/ \E f \in I!Gens : h < f /\ Served(d, f)'
    <3>1. CASE h = g
      BY <2>3, <3>1
    <3>2. CASE h < g
      BY <2>5, <3>2
    <3>3. CASE g < h
      <4>1. gen[h] = "shadow"
        BY <1>0, <2>1, <2>4, <2>6, <3>3 DEF GenInv
      <4>2. Old(d, h)
        BY <2>1, <2>3, <3>3 DEF Old
      <4>3. batch[d][h] = "done"
        BY <4>1, <4>2 DEF CoveredInv, CellInv, CellOf
      <4> QED BY <1>0, <4>3 DEF Stays
    <3> QED BY <1>0, <3>1, <3>2, <3>3
  <2> QED BY <2>5, <2>6
<1> QED BY <1>1, <1>2

LEMMA IndexInit == MCInit => IndexInv
<1> SUFFICES ASSUME MCInit PROVE IndexInv
  OBVIOUS
<1>1. /\ plan = 1 /\ events = {} /\ doc = [d \in Docs |-> "absent"] /\ gen = [g \in I!Gens |-> "none"]
      /\ idx = [d \in Docs |-> [g \in I!Gens |-> "none"]]
      /\ batch = [d \in Docs |-> [g \in I!Gens |-> "none"]]
      /\ row = [d \in Docs |-> [g \in I!Gens |-> "none"]]
      /\ finish = [t \in I!Finishes |-> "none"]
  BY DEF MCInit, I!Init
<1>2. 1 \in I!Gens
  BY InstancesAssumption DEF I!PlanAssumption, I!Gens
<1>3. GenTypes
  BY <1>1, <1>2 DEF GenTypes
<1>4. \A d \in Docs, g \in I!Gens, k \in I!Kinds : finish[<<d, g, k>>] = "none"
  BY <1>1 DEF I!Finishes
<1>5. FinishLocks /\ OpenJobs /\ DecidedInv
  BY <1>4 DEF FinishLocks, OpenJobs, DecidedInv, Decided, Counting
<1>6. /\ \A d \in Docs, g \in I!Gens : idx[d][g] = "none" /\ batch[d][g] = "none" /\ row[d][g] = "none"
      /\ \A d \in Docs : doc[d] = "absent"
      /\ \A g \in I!Gens : gen[g] = "none"
  BY <1>1
<1>7. CellInv /\ AskedInv /\ GenInv
  BY <1>1, <1>6 DEF CellInv, CellOf, AskedInv, GenInv
<1>8. SeedInv /\ CoveredInv /\ CompletionInv /\ StrandInv /\ VisibleInv
  BY <1>6 DEF SeedInv, CoveredInv, CompletionInv, StrandInv, VisibleInv
<1> QED BY <1>3, <1>5, <1>7, <1>8 DEF IndexInv

LEMMA GenerationsStep == ASSUME IndexInv, [MCNext]_<<part, vars, cvars, ivars, qvars, evars, vvars>> PROVE IndexInv'
<1>1. CASE UNCHANGED ivars
  <2>1. UNCHANGED <<plan, doc, events, gen, idx, batch, row, finish>>
    BY <1>1 DEF ivars
  <2>2. GenTypes' /\ CellInv' /\ AskedInv' /\ GenInv'
    BY <2>1 DEF IndexInv, GenTypes, CellInv, CellOf, AskedInv, GenInv, Earlier
  <2>3. FinishLocks' /\ OpenJobs'
    BY <2>1 DEF IndexInv, FinishLocks, Counting, OpenJobs, JobIsOpen, I!OthersDone
  <2>4. SeedInv' /\ CoveredInv' /\ DecidedInv' /\ CompletionInv'
    BY <2>1 DEF IndexInv, SeedInv, CoveredInv, DecidedInv, Decided, CompletionInv, Old
  <2>5. StrandInv' /\ VisibleInv'
    BY <2>1 DEF IndexInv, StrandInv, VisibleInv, Overtaken, Earlier, Later, Served
  <2> QED BY <2>2, <2>3, <2>4, <2>5 DEF IndexInv
<1>2. CASE I!Next
  <2>1. GenTypes' /\ IndexMove
    BY <1>2, IndexMoves DEF IndexInv
  <2>2. FinishLocks' /\ OpenJobs' /\ CellInv' /\ AskedInv' /\ GenInv'
    BY <2>1, FinishLocksStep, OpenJobsStep, CellStep, AskedStep, GenStep DEF IndexInv
  <2>3. SeedInv' /\ CoveredInv' /\ DecidedInv' /\ CompletionInv'
    BY <2>1, SeedStep, CoveredStep, DecidedStep, CompletionStep DEF IndexInv
  <2>4. StrandInv' /\ VisibleInv'
    BY <2>1, <2>2, <2>3, StrandStep, VisibleStep DEF IndexInv
  <2> QED BY <2>1, <2>2, <2>3, <2>4 DEF IndexInv
<1> QED BY <1>1, <1>2 DEF MCNext

LEMMA GenerationsHold == MCSpec => []IndexInv
  BY IndexInit, GenerationsStep, PTL DEF MCSpec

\* For any number of documents and of plans: an indexed document is embedded in the
\* active generation, or the operator went back behind the generation it was indexed in.
THEOREM IndexedStaysVisible == MCSpec => []IndexedIsVisible
<1>1. ASSUME IndexInv, NEW d \in Docs, doc[d] = "indexed"
      PROVE  \/ \E g \in I!Gens : gen[g] = "active" /\ batch[d][g] = "done"
             \/ \E g, h \in I!Gens : g < h /\ gen[g] = "active" /\ gen[h] = "draining" /\ batch[d][h] = "done"
  <2>1. PICK f \in I!Gens : Served(d, f)
    BY <1>1 DEF IndexInv, VisibleInv
  <2>2. PICK g \in I!Gens : gen[g] = "active"
    BY <1>1, <2>1 DEF IndexInv, GenInv, Served
  <2>3. batch[d][g] = "done" \/ \E h \in I!Gens : g < h /\ Served(d, h)
    BY <1>1, <2>2 DEF IndexInv, VisibleInv
  <2>4. \A h \in I!Gens : g < h => gen[h] # "active"
    BY <1>1, <2>2, GensAre DEF IndexInv, GenInv
  <2> QED BY <2>2, <2>3, <2>4 DEF Served
<1>2. IndexInv => IndexedIsVisible
  BY <1>1 DEF IndexedIsVisible, I!IndexedIsVisible
<1> QED BY <1>2, GenerationsHold, PTL

\* For any number of documents: no staged generation stays building when every document
\* of it is backfilled.
THEOREM LastOneNotices == MCSpec => []CompletionIsNoticed
<1>1. IndexInv => CompletionIsNoticed
  BY DEF IndexInv, CompletionInv, CompletionIsNoticed, I!CompletionIsNoticed
<1> QED BY <1>1, GenerationsHold, PTL

\* For any number of documents and of plans: only a replayed index job, and a job in a
\* generation beside an older one, leave a document in the state indexing.
THEOREM OthersDoNotStrand == MCSpec => []OnlyReplaysStrand
<1>1. ASSUME IndexInv, NEW d \in Docs, doc[d] = "indexing", ~I!HasWork(d),
             \A g \in I!Gens : idx[d][g] # "replayed"
      PROVE  \E g, h \in I!Gens : h < g /\ gen[h] # "none" /\ idx[d][g] = "done"
  <2>1. PICK g \in I!Gens : idx[d][g] # "none"
    BY <1>1 DEF IndexInv, AskedInv, I!HasWork
  <2>2. idx[d][g] = "done" /\ batch[d][g] = "done"
    <3>1. idx[d][g] \notin {"pending", "enters", "persists", "finishes", "replayed", "failed"}
      BY <1>1 DEF IndexInv, CellInv, CellOf, I!HasWork, I!LiveIndex
    <3>2. idx[d][g] = "done"
      BY <1>1, <2>1, <3>1 DEF IndexInv, GenTypes
    <3>3. batch[d][g] \notin {"none", "pending", "failed"}
      BY <1>1, <3>2 DEF IndexInv, CellInv, CellOf, I!HasWork, I!LiveBatch
    <3> QED BY <1>1, <3>2, <3>3 DEF IndexInv, GenTypes
  <2>3. Overtaken(d, g)
    BY <1>1, <2>2 DEF IndexInv, StrandInv
  <2>4. CASE Earlier(g)
    BY <2>2, <2>4 DEF Earlier
  <2>5. CASE Later(d, g)
    <3>1. PICK h \in I!Gens : g < h /\ row[d][h] = "backfilled"
      BY <2>5 DEF Later
    <3>2. idx[d][h] = "done"
      BY <1>1, <3>1 DEF IndexInv, CellInv, CellOf
    <3>3. gen[g] # "none"
      BY <1>1, <2>1 DEF IndexInv, CellInv, CellOf
    <3> QED BY <3>1, <3>2, <3>3
  <2> QED BY <2>3, <2>4, <2>5 DEF Overtaken
<1>2. IndexInv => OnlyReplaysStrand
  BY <1>1 DEF OnlyReplaysStrand, I!OnlyReplaysStrand
<1> QED BY <1>2, GenerationsHold, PTL

(***************************************************************************)
(* The event log, its relays and the stream of a job.                       *)
(***************************************************************************)

Entries == [no : Nat \ {0}, kind : {"job", "published"}, row : E!Rows]
RelayRecs == [step : {"idle", "takes", "appends", "marks"}, todo : SUBSET E!Rows, row : E!Rows \cup {E!NoRow},
              held : SUBSET E!Rows, wrote : SUBSET Entries, made : SUBSET E!Rows, marked : SUBSET E!Rows]
TailRecs == [step : {"reads", "lists", "acts", "complete"}, cursor : Nat, terminal : BOOLEAN,
             found : SUBSET Entries, seen : SUBSET Entries]

EventTypes ==
    /\ status \in [Jobs -> 0..Steps] /\ writer \in [Jobs -> Nat]
    /\ log \subseteq Entries /\ published \subseteq E!Rows
    /\ seqLock \in Jobs \cup Relays \cup {Nobody}
    /\ relay \in [Relays -> RelayRecs] /\ tail \in TailRecs

\* Whoever has given out a number and not committed holds the lock.
NumberLockInv ==
    /\ \A j \in Jobs : writer[j] # 0 => seqLock = j /\ status[j] < Steps
    /\ \A r \in Relays : relay[r].wrote # {} => seqLock = r

\* There is a largest number, although the log may be of any length.
Bound(b) ==
    /\ \A e \in log : e.no <= b
    /\ \A j \in Jobs : writer[j] <= b
    /\ \A r \in Relays : \A e \in relay[r].wrote : e.no <= b
Bounded == \E b \in Nat : Bound(b)

\* No number is given out twice, and one that is not committed is larger than all
\* that are.
NumbersInv ==
    /\ \A d, e \in log : d.no = e.no => d = e
    /\ \A r \in Relays : \A d, e \in relay[r].wrote : d.no = e.no => d = e
    /\ \A e \in log : /\ \A j \in Jobs : writer[j] # 0 => e.no < writer[j]
                      /\ \A r \in Relays : \A d \in relay[r].wrote : e.no < d.no

\* The rows for which a relay has appended an event.
Numbered(r) == IF relay[r].step = "marks" THEN relay[r].made ELSE relay[r].marked

\* A relay is in the savepoint of at most one row, the others of its batch are done,
\* skipped or still to come.
RelayInv(r) ==
    /\ relay[r].step = "idle" => relay[r].wrote = {} /\ relay[r].made = {}
    /\ relay[r].todo \cup relay[r].made \subseteq relay[r].held
    /\ relay[r].marked \subseteq relay[r].made /\ relay[r].todo \cap relay[r].marked = {}
    /\ relay[r].step \in {"idle", "takes"} => relay[r].made = relay[r].marked
    /\ relay[r].step \in {"appends", "marks"} =>
           relay[r].row \in relay[r].todo /\ relay[r].made = relay[r].marked \cup {relay[r].row}
    /\ \A e \in relay[r].wrote : e.kind = "published" /\ e.row \in Numbered(r)
    /\ \A w \in Numbered(r) : \E e \in relay[r].wrote : e.row = w
    /\ \A d, e \in relay[r].wrote : d.row = e.row => d = e

\* A row is claimed by one relay, before it is published.
HeldInv ==
    /\ \A r \in Relays : relay[r].held \cap published = {}
    /\ \A r, q \in Relays : r # q => relay[r].held \cap relay[q].held = {}

LoggedInv ==
    /\ made = published
    /\ \A w \in published : \E e \in log : e.kind = "published" /\ e.row = w
    /\ \A e \in log : e.kind = "published" => e.row \in published
    /\ \A d, e \in log : d.kind = "published" /\ e.kind = "published" /\ d.row = e.row => d = e
    /\ \A j \in Jobs : \A k \in 1..status[j] : \E e \in log : e.kind = "job" /\ e.row = <<j, k>>

AllSeen == \A k \in 1..Steps : \E e \in tail.seen : e.kind = "job" /\ e.row = <<Watched, k>>

\* What the stream has found is the next event of the job, still.
TailInv ==
    /\ tail.cursor # 0 => \E e \in log : e.no = tail.cursor
    /\ E!NoEventSkipped
    /\ \A x \in tail.found :
          /\ x \in log /\ x.no > tail.cursor
          /\ \A e \in log : e.row[1] = Watched /\ tail.cursor < e.no /\ e.no <= x.no => e = x
    /\ tail.terminal => status[Watched] = Steps
    /\ tail.step = "acts" /\ tail.terminal /\ tail.found = {} => AllSeen
    /\ tail.step = "complete" => AllSeen

EventInv ==
    /\ EventTypes /\ NumberLockInv /\ Bounded /\ NumbersInv
    /\ (\A r \in Relays : RelayInv(r)) /\ HeldInv /\ LoggedInv /\ TailInv

LEMMA EventBounds ==
  /\ Watched \in Jobs /\ Steps \in Nat \ {0} /\ Nobody \notin Jobs \cup Relays /\ Jobs \cap Relays = {}
  BY InstancesAssumption DEF E!EventLogAssumption

\* A set of numbers has a least one, and a greatest one if it is bounded.
LEMMA LeastNat == ASSUME NEW T \in SUBSET Nat, T # {} PROVE \E x \in T : \A y \in T : x <= y
<1> DEFINE U == {0..t : t \in T}
<1>1. IsWellFoundedOn(StrictSubsetOrdering(Nat), FiniteSubsetsOf(Nat))
  BY FS_StrictSubsetOrderingWellFounded
<1>2. U \subseteq FiniteSubsetsOf(Nat) /\ U # {}
  <2>1. \A t \in T : IsFiniteSet(0..t)
    BY FS_Interval
  <2>2. \A t \in T : 0..t \in SUBSET Nat
    OBVIOUS
  <2> QED BY <2>1, <2>2 DEF FiniteSubsetsOf
<1>3. PICK m \in U : \A u \in U : ~(<<u, m>> \in StrictSubsetOrdering(Nat))
  <2> HIDE DEF U
  <2> QED BY <1>1, <1>2, WFMin
<1>4. PICK x \in T : m = 0..x
  OBVIOUS
<1>5. ASSUME NEW y \in T, ~(x <= y) PROVE FALSE
  <2>1. 0..y \in U /\ 0..y \subseteq 0..x /\ x \in 0..x /\ x \notin 0..y
    BY <1>5
  <2>2. <<0..y, m>> \in StrictSubsetOrdering(Nat)
    BY <2>1, <1>4 DEF StrictSubsetOrdering
  <2> QED BY <2>1, <2>2, <1>3
<1> QED BY <1>5

LEMMA GreatestNat ==
  ASSUME NEW T \in SUBSET Nat, T # {}, NEW b \in Nat, \A x \in T : x <= b
  PROVE \E x \in T : \A y \in T : y <= x
<1> DEFINE U == {u \in Nat : \A x \in T : x <= u}
<1>1. PICK m \in U : \A u \in U : m <= u
  <2>1. U \in SUBSET Nat /\ U # {}
    OBVIOUS
  <2> QED BY <2>1, LeastNat
<1>2. CASE m \in T
  BY <1>1, <1>2
<1>3. CASE m \notin T
  <2>1. PICK t \in T : TRUE
    OBVIOUS
  <2>2. \A x \in T : x < m
    BY <1>1, <1>3
  <2>3. m > 0
    BY <2>1, <2>2
  <2>4. m - 1 \in U
    BY <1>1, <2>2, <2>3
  <2> QED BY <1>1, <2>4
<1> QED BY <1>2, <1>3

\* The next number is larger than any that was given out, committed or not.
LEMMA NextNoIsNew ==
  ASSUME EventTypes, Bounded
  PROVE  /\ E!NextNo \in Nat \ {0}
         /\ \A e \in log : e.no < E!NextNo
         /\ \A j \in Jobs : writer[j] < E!NextNo
         /\ \A r \in Relays : \A e \in relay[r].wrote : e.no < E!NextNo
<1> DEFINE T == {0} \cup {e.no : e \in E!Appended}
<1>1. PICK b \in Nat : Bound(b)
  BY DEF Bounded
<1>2. \A e \in E!Appended : e.no \in Nat /\ e.no <= b
  <2>1. \A e \in log : e.no \in Nat /\ e.no <= b
    BY <1>1 DEF EventTypes, Entries, Bound
  <2>2. \A r \in Relays : \A e \in relay[r].wrote : e.no \in Nat /\ e.no <= b
    BY <1>1 DEF EventTypes, RelayRecs, Entries, Bound
  <2>3. \A j \in Jobs : E!JobEntry(j).no \in Nat /\ E!JobEntry(j).no <= b
    BY <1>1 DEF EventTypes, Bound, E!JobEntry
  <2>4. \A e \in E!InJobs : e.no \in Nat /\ e.no <= b
    BY <2>3, Zenon DEF E!InJobs
  <2>5. \A e \in E!InRelays : e.no \in Nat /\ e.no <= b
    BY <2>2 DEF E!InRelays
  <2> QED BY <2>1, <2>4, <2>5 DEF E!Appended
<1>3. T \in SUBSET Nat /\ T # {} /\ 0 \in T
  BY <1>2
<1>4. \A x \in T : x <= b
  BY <1>2
<1>5. \A e \in E!Appended : e.no \in T
  OBVIOUS
<1> DEFINE m == E!Max(T)
<1>6. m \in T /\ \A y \in T : y <= m
  <2> HIDE DEF T
  <2>1. PICK x \in T : \A y \in T : y <= x
    BY <1>3, <1>4, GreatestNat
  <2>2. m = CHOOSE x_1 \in T : \A y \in T : x_1 >= y
    BY DEF E!Max
  <2>3. \A y \in T : x >= y
    BY <1>3, <2>1
  <2>4. m \in T /\ \A y \in T : m >= y
    BY <2>2, <2>3
  <2> QED BY <1>3, <2>4
<1>7. E!NextNo = 1 + m
  BY DEF E!NextNo
<1> HIDE DEF T
<1>8. m \in Nat
  BY <1>3, <1>6
<1> HIDE DEF m
<1>9. \A e \in E!Appended : e.no < E!NextNo
  <2> SUFFICES ASSUME NEW e \in E!Appended PROVE e.no < E!NextNo
    OBVIOUS
  <2>1. e.no \in T /\ e.no <= m /\ e.no \in Nat
    BY <1>2, <1>5, <1>6
  <2> QED BY <2>1, <1>7, <1>8
<1>10. \A j \in Jobs : writer[j] < E!NextNo
  <2> SUFFICES ASSUME NEW j \in Jobs PROVE writer[j] < E!NextNo
    OBVIOUS
  <2>1. CASE writer[j] = 0
    BY <2>1, <1>7, <1>8
  <2>2. CASE writer[j] # 0
    <3>1. E!JobEntry(j) \in E!InJobs
      BY <2>2, Zenon DEF E!InJobs
    <3>2. E!JobEntry(j) \in E!Appended
      BY <3>1 DEF E!Appended
    <3> QED BY <3>2, <1>9 DEF E!JobEntry
  <2> QED BY <2>1, <2>2
<1>11. \A r \in Relays : relay[r].wrote \subseteq E!Appended
  BY DEF E!Appended, E!InRelays
<1>12. log \subseteq E!Appended
  BY DEF E!Appended
<1> QED BY <1>7, <1>8, <1>9, <1>10, <1>11, <1>12

LEMMA EventInit == MCInit => EventInv
<1> SUFFICES ASSUME MCInit PROVE EventInv
  OBVIOUS
<1>1. /\ status = [j \in Jobs |-> 0] /\ writer = [j \in Jobs |-> 0] /\ log = {} /\ published = {} /\ made = {}
      /\ seqLock = Nobody /\ relay = [r \in Relays |-> E!NoBatch] /\ tail = E!NewTail
  BY DEF MCInit, E!Init
<1>2. E!NoBatch \in RelayRecs /\ E!NewTail \in TailRecs
  BY DEF E!NoBatch, E!NewTail, RelayRecs, TailRecs
<1>3. EventTypes
  BY <1>1, <1>2, EventBounds DEF EventTypes
<1>4. \A r \in Relays : relay[r] = E!NoBatch
  BY <1>1
<1>5. NumberLockInv /\ NumbersInv /\ HeldInv /\ Bound(0)
  BY <1>1, <1>4 DEF NumberLockInv, NumbersInv, HeldInv, Bound, E!NoBatch
<1>6. \A r \in Relays : RelayInv(r)
  BY <1>4 DEF RelayInv, Numbered, E!NoBatch
<1>7. LoggedInv /\ TailInv
  BY <1>1, EventBounds DEF LoggedInv, TailInv, E!NewTail, E!NoEventSkipped
<1> QED BY <1>3, <1>5, <1>6, <1>7 DEF EventInv, Bounded

\* What a new event with a larger number leaves alone.
LEMMA TailStays ==
  ASSUME EventInv, log \subseteq log', log' \subseteq Entries, UNCHANGED tail,
         \A e \in log' \ log : \A d \in log : d.no < e.no,
         status[Watched] = Steps => status'[Watched] = Steps
  PROVE  TailInv'
<1>1. \A e \in log' : e.no \in Nat \ {0}
  BY DEF Entries
<1>2. tail.cursor \in Nat
  BY DEF EventInv, EventTypes, TailRecs
<1>3. \A e \in log' \ log : tail.cursor < e.no
  BY <1>1, <1>2 DEF EventInv, TailInv
<1>4. E!NoEventSkipped'
  <2>1. \A e \in log' : e.row[1] = Watched /\ e.no <= tail.cursor => e \in tail.seen
    BY <1>1, <1>2, <1>3 DEF EventInv, TailInv, E!NoEventSkipped
  <2> QED BY <2>1 DEF E!NoEventSkipped
<1>5. ASSUME NEW x \in tail.found, NEW e \in log', e.row[1] = Watched, tail.cursor < e.no, e.no <= x.no
      PROVE  e = x
  <2>1. x \in log /\ x \in log'
    BY DEF EventInv, TailInv
  <2>2. e \in log
    BY <1>1, <1>5, <2>1
  <2> QED BY <1>5, <2>2 DEF EventInv, TailInv
<1> QED BY <1>4, <1>5 DEF EventInv, TailInv, AllSeen

\* What a step that commits nothing leaves alone.
LEMMA LogStays ==
  ASSUME EventInv, UNCHANGED <<status, log, published, made, tail>> PROVE LoggedInv' /\ TailInv'
<1>1. LoggedInv'
  BY DEF EventInv, LoggedInv
<1>2. log' \subseteq Entries /\ log' \ log = {}
  BY DEF EventInv, EventTypes
<1>3. TailInv'
  BY <1>2, TailStays
<1> QED BY <1>1, <1>3

\* A step of a relay that commits nothing.
LEMMA RelayMove ==
  ASSUME EventInv, NEW r \in Relays, UNCHANGED <<status, writer, log, published, made, tail>>,
         relay' \in [Relays -> RelayRecs], \A q \in Relays \ {r} : relay'[q] = relay[q],
         RelayInv(r)', relay'[r].held \subseteq relay[r].held \cup E!Free,
         \A e \in relay'[r].wrote : e \in relay[r].wrote \/ e.no = E!NextNo,
         \A d, e \in relay'[r].wrote : d.no = e.no => d = e,
         relay'[r].wrote # {} => seqLock' = r,
         seqLock' # seqLock => seqLock \in {r, Nobody}, seqLock' \in {seqLock, r, Nobody}
  PROVE  EventInv'
<1>0. EventTypes /\ Bounded /\ NumberLockInv /\ r # Nobody /\ r \notin Jobs
  BY EventBounds DEF EventInv
<1>1. EventTypes'
  BY <1>0 DEF EventTypes
<1>2. NumberLockInv'
  BY <1>0, EventBounds DEF NumberLockInv
<1>3. /\ E!NextNo \in Nat \ {0}
      /\ \A e \in log : e.no < E!NextNo
      /\ \A j \in Jobs : writer[j] < E!NextNo
      /\ \A q \in Relays : \A e \in relay[q].wrote : e.no < E!NextNo
  BY <1>0, NextNoIsNew
<1>4. Bounded'
  <2>1. \A e \in log : e.no <= E!NextNo
    BY <1>0, <1>3 DEF EventTypes, Entries
  <2>2. \A j \in Jobs : writer[j] <= E!NextNo
    BY <1>0, <1>3 DEF EventTypes
  <2>3. \A q \in Relays : \A e \in relay[q].wrote : e.no <= E!NextNo
    BY <1>0, <1>3 DEF EventTypes, RelayRecs, Entries
  <2>4. PICK n \in Nat : n = E!NextNo
    BY <1>3
  <2>5. \A q \in Relays : \A e \in relay'[q].wrote : e.no <= n
    BY <2>3, <2>4
  <2>6. Bound(n)'
    BY <2>1, <2>2, <2>4, <2>5 DEF Bound
  <2> QED BY <2>6 DEF Bounded
<1>5. NumbersInv'
  <2>1. \A e \in log : \A q \in Relays : \A d \in relay'[q].wrote : e.no < d.no
    BY <1>3 DEF EventInv, NumbersInv
  <2> QED BY <2>1 DEF EventInv, NumbersInv
<1>6. \A q \in Relays : RelayInv(q)'
  BY DEF EventInv, RelayInv, Numbered
<1>7. HeldInv'
  BY DEF EventInv, HeldInv, E!Free, E!Locked
<1>8. LoggedInv' /\ TailInv'
  BY LogStays
<1> QED BY <1>1, <1>2, <1>4, <1>5, <1>6, <1>7, <1>8 DEF EventInv

LEMMA AppendTransitionStep == ASSUME EventInv, NEW j \in Jobs, E!AppendTransition(j) PROVE EventInv'
<1>0. EventTypes /\ Bounded /\ NumberLockInv /\ j # Nobody /\ j \notin Relays
  BY EventBounds DEF EventInv
<1>1. /\ UNCHANGED <<status, log, published, made, relay, tail>>
      /\ writer[j] = 0 /\ status[j] < Steps /\ seqLock \in {Nobody, j} /\ seqLock' = j
      /\ writer' = [writer EXCEPT ![j] = E!NextNo]
  BY DEF E!AppendTransition, E!MayNumber
<1>2. /\ E!NextNo \in Nat \ {0}
      /\ \A e \in log : e.no < E!NextNo
      /\ \A k \in Jobs : writer[k] < E!NextNo
      /\ \A q \in Relays : \A e \in relay[q].wrote : e.no < E!NextNo
  BY <1>0, NextNoIsNew
<1>3. EventTypes'
  BY <1>0, <1>1, <1>2 DEF EventTypes
<1>4. NumberLockInv'
  BY <1>0, <1>1, EventBounds DEF NumberLockInv, EventTypes
<1>5. \A k \in Jobs : writer'[k] = IF k = j THEN E!NextNo ELSE writer[k]
  BY <1>0, <1>1 DEF EventTypes
<1>6. Bounded'
  <2>1. PICK n \in Nat : n = E!NextNo
    BY <1>2
  <2>2. \A e \in log : e.no <= n
    BY <1>0, <1>2, <2>1 DEF EventTypes, Entries
  <2>3. \A k \in Jobs : writer'[k] <= n
    BY <1>0, <1>2, <1>5, <2>1 DEF EventTypes
  <2>4. \A q \in Relays : \A e \in relay[q].wrote : e.no <= n
    BY <1>0, <1>2, <2>1 DEF EventTypes, RelayRecs, Entries
  <2>5. Bound(n)'
    BY <1>1, <2>2, <2>3, <2>4 DEF Bound
  <2> QED BY <2>5 DEF Bounded
<1>7. NumbersInv'
  <2>1. \A e \in log : \A k \in Jobs : writer'[k] # 0 => e.no < writer'[k]
    BY <1>2, <1>5 DEF EventInv, NumbersInv
  <2> QED BY <1>1, <2>1 DEF EventInv, NumbersInv
<1>8. (\A r \in Relays : RelayInv(r)') /\ HeldInv' /\ LoggedInv' /\ TailInv'
  BY <1>1, LogStays DEF EventInv, RelayInv, Numbered, HeldInv
<1> QED BY <1>3, <1>4, <1>6, <1>7, <1>8 DEF EventInv

LEMMA RollBackTransitionStep == ASSUME EventInv, NEW j \in Jobs, E!RollBackTransition(j) PROVE EventInv'
<1>0. EventTypes /\ NumberLockInv /\ j # Nobody /\ j \notin Relays
  BY EventBounds DEF EventInv
<1>1. /\ UNCHANGED <<status, log, published, made, relay, tail>> /\ writer[j] # 0
      /\ writer' = [writer EXCEPT ![j] = 0] /\ seqLock' = IF seqLock = j THEN Nobody ELSE seqLock
  BY DEF E!RollBackTransition, E!Release
<1>2. EventTypes'
  BY <1>0, <1>1 DEF EventTypes
<1>3. \A k \in Jobs : writer'[k] = IF k = j THEN 0 ELSE writer[k]
  BY <1>0, <1>1 DEF EventTypes
<1>4. NumberLockInv'
  BY <1>0, <1>1, <1>3 DEF NumberLockInv
<1>5. Bounded'
  <2>1. PICK n \in Nat : Bound(n)
    BY DEF EventInv, Bounded
  <2>2. Bound(n)'
    BY <1>1, <1>3, <2>1 DEF Bound
  <2> QED BY <2>2 DEF Bounded
<1>6. NumbersInv'
  BY <1>1, <1>3 DEF EventInv, NumbersInv
<1>7. (\A r \in Relays : RelayInv(r)') /\ HeldInv' /\ LoggedInv' /\ TailInv'
  BY <1>1, LogStays DEF EventInv, RelayInv, Numbered, HeldInv
<1> QED BY <1>2, <1>4, <1>5, <1>6, <1>7 DEF EventInv

LEMMA CommitTransitionStep == ASSUME EventInv, NEW j \in Jobs, E!CommitTransition(j) PROVE EventInv'
<1> DEFINE x == E!JobEntry(j)
<1>0. EventTypes /\ NumberLockInv /\ j # Nobody /\ j \notin Relays
  BY EventBounds DEF EventInv
<1>1. /\ UNCHANGED <<published, made, relay, tail>> /\ writer[j] # 0
      /\ writer' = [writer EXCEPT ![j] = 0] /\ seqLock' = IF seqLock = j THEN Nobody ELSE seqLock
      /\ status' = [status EXCEPT ![j] = @ + 1] /\ log' = log \cup {x}
  BY DEF E!CommitTransition, E!Release
<1>2. seqLock = j /\ status[j] \in 0..Steps - 1 /\ status[j] + 1 \in 1..Steps /\ Steps \in Nat
  BY <1>0, <1>1, EventBounds DEF EventTypes, NumberLockInv
<1>3. x \in Entries /\ x.no = writer[j] /\ x.kind = "job" /\ x.row = <<j, status[j] + 1>>
  BY <1>0, <1>1, <1>2 DEF E!JobEntry, Entries, EventTypes, E!Rows
<1> HIDE DEF x
<1>4. /\ \A k \in Jobs : writer'[k] = IF k = j THEN 0 ELSE writer[k]
      /\ \A k \in Jobs : status'[k] = IF k = j THEN status[j] + 1 ELSE status[k]
  BY <1>0, <1>1 DEF EventTypes
<1>5. EventTypes'
  <2>1. status' \in [Jobs -> 0..Steps]
    BY <1>0, <1>1, <1>2 DEF EventTypes
  <2> QED BY <1>0, <1>1, <1>3, <2>1 DEF EventTypes
<1>6. (\A k \in Jobs : writer'[k] = 0) /\ \A r \in Relays : relay'[r].wrote = {}
  BY <1>0, <1>1, <1>2, <1>4, EventBounds DEF NumberLockInv
<1>7. NumberLockInv'
  BY <1>6 DEF NumberLockInv
<1>8. \A e \in log : e.no < x.no
  BY <1>1, <1>3 DEF EventInv, NumbersInv
<1>9. Bounded'
  <2>1. PICK n \in Nat : Bound(n)
    BY DEF EventInv, Bounded
  <2>2. \A e \in log' : e.no <= n
    BY <1>1, <1>3, <2>1 DEF Bound
  <2>3. Bound(n)'
    BY <1>6, <2>2 DEF Bound
  <2> QED BY <2>3 DEF Bounded
<1>10. NumbersInv'
  <2>1. \A e \in log : e.no # x.no
    BY <1>0, <1>3, <1>8 DEF EventTypes, Entries
  <2>2. \A d, e \in log' : d.no = e.no => d = e
    BY <1>1, <2>1 DEF EventInv, NumbersInv
  <2> QED BY <1>6, <2>2 DEF NumbersInv
<1>11. (\A r \in Relays : RelayInv(r)') /\ HeldInv'
  BY <1>1 DEF EventInv, RelayInv, Numbered, HeldInv
<1>12. LoggedInv'
  <2>1. \A e \in log' : e.kind = "published" => e \in log
    BY <1>1, <1>3
  <2>2. ASSUME NEW k \in Jobs, NEW i \in 1..status'[k]
        PROVE  \E e \in log' : e.kind = "job" /\ e.row = <<k, i>>
    <3>1. CASE k = j /\ i = status[j] + 1
      BY <1>1, <1>3, <3>1
    <3>2. CASE ~(k = j /\ i = status[j] + 1)
      <4>1. i \in 1..status[k]
        BY <1>0, <1>2, <1>4, <2>2, <3>2 DEF EventTypes
      <4> QED BY <1>1, <4>1 DEF EventInv, LoggedInv
    <3> QED BY <3>1, <3>2
  <2>3. LoggedInv /\ log \subseteq log' /\ made' = made /\ published' = published
    BY <1>1 DEF EventInv
  <2>4. \A d, e \in log' : d.kind = "published" /\ e.kind = "published" /\ d.row = e.row => d = e
    BY <2>1, <2>3 DEF LoggedInv
  <2>5. \A e \in log' : e.kind = "published" => e.row \in published
    BY <2>1, <2>3 DEF LoggedInv
  <2>6. \A w \in published : \E e \in log' : e.kind = "published" /\ e.row = w
    BY <2>3 DEF LoggedInv
  <2>7. made' = published'
    BY <2>3 DEF LoggedInv
  <2> QED BY <2>2, <2>3, <2>4, <2>5, <2>6, <2>7 DEF LoggedInv
<1>13. TailInv'
  <2>1. status[Watched] = Steps => status'[Watched] = Steps
    BY <1>2, <1>4, EventBounds
  <2>2. log' \subseteq Entries /\ \A e \in log' \ log : e = x
    BY <1>1, <1>5 DEF EventTypes
  <2> QED BY <1>1, <1>8, <2>1, <2>2, TailStays
<1> QED BY <1>5, <1>7, <1>9, <1>10, <1>11, <1>12, <1>13 DEF EventInv

\* What the batch has published becomes visible.
LEMMA CommitBatchStep == ASSUME EventInv, NEW r \in Relays, E!CommitBatch(r) PROVE EventInv'
<1>0. EventTypes /\ NumberLockInv /\ r # Nobody /\ r \notin Jobs /\ relay[r] \in RelayRecs /\ RelayInv(r)
  BY EventBounds DEF EventInv, EventTypes
<1>1. /\ UNCHANGED <<status, writer, tail>> /\ relay[r].step = "takes"
      /\ log' = log \cup relay[r].wrote /\ made' = made \cup relay[r].made
      /\ published' = published \cup relay[r].marked
      /\ relay' = [relay EXCEPT ![r] = E!NoBatch] /\ seqLock' = IF seqLock = r THEN Nobody ELSE seqLock
  BY DEF E!CommitBatch, E!Release
<1>2. /\ E!NoBatch \in RelayRecs /\ E!NoBatch.wrote = {} /\ E!NoBatch.held = {} /\ E!NoBatch.step = "idle"
      /\ E!NoBatch.made = {} /\ E!NoBatch.marked = {} /\ E!NoBatch.todo = {}
  BY DEF E!NoBatch, RelayRecs
<1>3. \A q \in Relays : relay'[q] = IF q = r THEN E!NoBatch ELSE relay[q]
  BY <1>0, <1>1 DEF EventTypes
<1>4. /\ relay[r].made = relay[r].marked /\ relay[r].marked \subseteq E!Rows /\ relay[r].wrote \subseteq Entries
      /\ \A e \in relay[r].wrote : e.kind = "published" /\ e.row \in relay[r].marked
      /\ \A w \in relay[r].marked : \E e \in relay[r].wrote : e.row = w
      /\ \A d, e \in relay[r].wrote : d.row = e.row => d = e
      /\ relay[r].marked \subseteq relay[r].held
  BY <1>0, <1>1 DEF RelayInv, Numbered, RelayRecs
<1>5. EventTypes'
  BY <1>0, <1>1, <1>2, <1>4 DEF EventTypes
<1>6. NumberLockInv'
  BY <1>0, <1>1, <1>2, <1>3, EventBounds DEF NumberLockInv
<1>7. Bounded'
  <2>1. PICK n \in Nat : Bound(n)
    BY DEF EventInv, Bounded
  <2>2. Bound(n)'
    BY <1>1, <1>2, <1>3, <2>1 DEF Bound
  <2> QED BY <2>2 DEF Bounded
<1>8. \A e \in log : \A d \in relay[r].wrote : e.no < d.no
  BY DEF EventInv, NumbersInv
<1>9. NumbersInv'
  <2>1. \A e \in log : \A d \in relay[r].wrote : e.no # d.no
    BY <1>0, <1>4, <1>8 DEF EventTypes, Entries
  <2>2. \A d, e \in log' : d.no = e.no => d = e
    BY <1>1, <2>1 DEF EventInv, NumbersInv
  <2>3. CASE relay[r].wrote = {}
    BY <1>1, <1>2, <1>3, <2>2, <2>3 DEF EventInv, NumbersInv
  <2>4. CASE relay[r].wrote # {}
    <3>1. seqLock = r
      BY <1>0, <2>4 DEF NumberLockInv
    <3>2. (\A j \in Jobs : writer[j] = 0) /\ \A q \in Relays : relay'[q].wrote = {}
      BY <1>0, <1>2, <1>3, <3>1 DEF NumberLockInv
    <3> QED BY <1>1, <2>2, <3>2 DEF NumbersInv
  <2> QED BY <2>3, <2>4
<1>10. ASSUME NEW q \in Relays PROVE RelayInv(q)'
  <2>1. CASE q = r
    BY <1>2, <1>3, <2>1 DEF RelayInv, Numbered
  <2>2. CASE q # r
    BY <1>3, <2>2 DEF EventInv, RelayInv, Numbered
  <2> QED BY <2>1, <2>2
<1>11. HeldInv'
  <2>1. \A q, p \in Relays : q # p => relay'[q].held \cap relay'[p].held = {}
    BY <1>2, <1>3 DEF EventInv, HeldInv
  <2>2. ASSUME NEW q \in Relays PROVE relay'[q].held \cap published' = {}
    <3>1. CASE q = r
      BY <1>2, <1>3, <3>1
    <3>2. CASE q # r
      BY <1>1, <1>3, <1>4, <3>2 DEF EventInv, HeldInv
    <3> QED BY <3>1, <3>2
  <2> QED BY <2>1, <2>2 DEF HeldInv
<1>12. LoggedInv'
  <2>1. \A w \in relay[r].marked : w \notin published
    BY <1>4 DEF EventInv, HeldInv
  <2>2. \A w \in published' : \E e \in log' : e.kind = "published" /\ e.row = w
    BY <1>1, <1>4 DEF EventInv, LoggedInv
  <2>3. \A e \in log' : e.kind = "published" => e.row \in published'
    BY <1>1, <1>4 DEF EventInv, LoggedInv
  <2>4. \A d, e \in log' : d.kind = "published" /\ e.kind = "published" /\ d.row = e.row => d = e
    BY <1>1, <1>4, <2>1 DEF EventInv, LoggedInv
  <2>5. made' = published'
    BY <1>1, <1>4 DEF EventInv, LoggedInv
  <2>6. \A j \in Jobs : \A k \in 1..status'[j] : \E e \in log' : e.kind = "job" /\ e.row = <<j, k>>
    BY <1>1 DEF EventInv, LoggedInv
  <2> QED BY <2>2, <2>3, <2>4, <2>5, <2>6 DEF LoggedInv
<1>13. TailInv'
  <2>1. log' \subseteq Entries /\ \A e \in log' \ log : e \in relay[r].wrote
    BY <1>1, <1>5 DEF EventTypes
  <2> QED BY <1>1, <1>8, <2>1, TailStays
<1> QED BY <1>5, <1>6, <1>7, <1>9, <1>10, <1>11, <1>12, <1>13 DEF EventInv

LEMMA ClaimStep == ASSUME EventInv, NEW r \in Relays, E!Claim(r) PROVE EventInv'
<1>0. relay \in [Relays -> RelayRecs] /\ relay[r] \in RelayRecs /\ RelayInv(r) /\ relay[r].step = "idle"
  BY DEF EventInv, EventTypes, E!Claim
<1>1. UNCHANGED <<status, writer, log, published, made, seqLock, tail>>
  BY DEF E!Claim
<1> DEFINE s == E!OldestFree
           x == [[[E!NoBatch EXCEPT !.step = "takes"] EXCEPT !.todo = s] EXCEPT !.held = s]
<1>2. E!NoBatch \in RelayRecs /\ E!NoBatch.wrote = {} /\ E!NoBatch.made = {} /\ E!NoBatch.marked = {}
  BY DEF E!NoBatch, RelayRecs
<1>3. relay' = [relay EXCEPT ![r] = x]
  BY DEF E!Claim, E!NoBatch
<1>4. s \subseteq E!Free /\ s \subseteq E!Rows
  BY DEF E!OldestFree, E!Free
<1> HIDE DEF s
<1>5. x \in RelayRecs /\ x.step = "takes" /\ x.todo = s /\ x.held = s /\ x.wrote = {} /\ x.made = {} /\ x.marked = {}
  BY <1>2, <1>4 DEF RelayRecs
<1> HIDE DEF x
<1>6. relay' \in [Relays -> RelayRecs] /\ relay'[r] = x /\ \A q \in Relays \ {r} : relay'[q] = relay[q]
  BY <1>0, <1>3, <1>5
<1>7. RelayInv(r)'
  BY <1>5, <1>6 DEF RelayInv, Numbered
<1> QED BY <1>1, <1>4, <1>5, <1>6, <1>7, RelayMove

LEMMA EnqueueStep ==
  ASSUME EventInv, NEW r \in Relays, NEW w \in relay[r].todo, E!Enqueue(r, w) PROVE EventInv'
<1>0. relay \in [Relays -> RelayRecs] /\ relay[r] \in RelayRecs /\ RelayInv(r) /\ relay[r].step = "takes"
  BY DEF EventInv, EventTypes, E!Enqueue
<1>1. UNCHANGED <<status, writer, log, published, made, seqLock, tail>>
  BY DEF E!Enqueue
<1> DEFINE s == relay[r].made \cup {w}
           x == [[[relay[r] EXCEPT !.step = "appends"] EXCEPT !.row = w] EXCEPT !.made = s]
<1>2. relay' = [relay EXCEPT ![r] = x]
  BY <1>0 DEF E!Enqueue
<1>3. w \in E!Rows /\ s \subseteq E!Rows
  BY <1>0 DEF RelayRecs
<1>s. s = relay[r].made \cup {w}
  OBVIOUS
<1> HIDE DEF s
<1>4. /\ x \in RelayRecs /\ x.step = "appends" /\ x.row = w /\ x.made = s /\ x.todo = relay[r].todo
      /\ x.held = relay[r].held /\ x.wrote = relay[r].wrote /\ x.marked = relay[r].marked
  BY <1>0, <1>3 DEF RelayRecs
<1> HIDE DEF x
<1>5. relay' \in [Relays -> RelayRecs] /\ relay'[r] = x /\ \A q \in Relays \ {r} : relay'[q] = relay[q]
  BY <1>0, <1>2, <1>4
<1>6. RelayInv(r)'
  BY <1>0, <1>4, <1>5, <1>s DEF RelayInv, Numbered
<1>7. /\ \A d, e \in relay[r].wrote : d.no = e.no => d = e
      /\ relay[r].wrote # {} => seqLock = r
  BY DEF EventInv, NumbersInv, NumberLockInv
<1> QED BY <1>1, <1>4, <1>5, <1>6, <1>7, RelayMove

LEMMA AppendPublishedStep == ASSUME EventInv, NEW r \in Relays, E!AppendPublished(r) PROVE EventInv'
<1>0. relay \in [Relays -> RelayRecs] /\ relay[r] \in RelayRecs /\ RelayInv(r) /\ relay[r].step = "appends"
  BY DEF EventInv, EventTypes, E!AppendPublished
<1>1. UNCHANGED <<status, writer, log, published, made, tail>>
  BY DEF E!AppendPublished
<1> DEFINE w == relay[r].row
<1>2. w \in relay[r].todo /\ w \in relay[r].held /\ w \in E!Rows /\ w \notin relay[r].marked
  BY <1>0 DEF RelayInv, RelayRecs
\* The row is not published, so that nothing was logged for it before.
<1>3. E!PublishedEntry(w) = {}
  <2>1. w \notin published
    BY <1>2 DEF EventInv, HeldInv
  <2> QED BY <2>1 DEF EventInv, LoggedInv, E!PublishedEntry
<1> DEFINE n == E!NextNo
           y == [no |-> n, kind |-> "published", row |-> w]
           s == relay[r].wrote \cup {y}
           x == [[relay[r] EXCEPT !.step = "marks"] EXCEPT !.wrote = s]
<1>4. relay' = [relay EXCEPT ![r] = x] /\ seqLock \in {Nobody, r} /\ seqLock' = r
  BY <1>0, <1>3 DEF E!AppendPublished, E!MayNumber
<1>5. n \in Nat \ {0} /\ \A e \in relay[r].wrote : e.no < n
  BY NextNoIsNew DEF EventInv
<1>6. relay[r].wrote \subseteq Entries
  BY <1>0 DEF RelayRecs
<1>n. n = E!NextNo
  OBVIOUS
<1> HIDE DEF n
<1>7. y \in Entries /\ y.no = n /\ y.kind = "published" /\ y.row = w
  BY <1>2, <1>5 DEF Entries
<1> HIDE DEF y
<1>8. s \subseteq Entries /\ s = relay[r].wrote \cup {y}
  BY <1>6, <1>7
<1>9. \A d, e \in s : d.no = e.no => d = e
  <2>1. \A e \in relay[r].wrote : e.no # y.no
    BY <1>5, <1>6, <1>7 DEF Entries
  <2> QED BY <2>1 DEF EventInv, NumbersInv
<1> HIDE DEF s
<1>10. /\ x \in RelayRecs /\ x.step = "marks" /\ x.row = w /\ x.made = relay[r].made /\ x.todo = relay[r].todo
       /\ x.held = relay[r].held /\ x.wrote = s /\ x.marked = relay[r].marked
  BY <1>0, <1>8 DEF RelayRecs
<1> HIDE DEF x
<1>11. relay' \in [Relays -> RelayRecs] /\ relay'[r] = x /\ \A q \in Relays \ {r} : relay'[q] = relay[q]
  BY <1>0, <1>4, <1>10
<1>12. RelayInv(r)'
  BY <1>0, <1>2, <1>7, <1>8, <1>10, <1>11 DEF RelayInv, Numbered
<1>13. \A e \in s : e \in relay[r].wrote \/ e.no = E!NextNo
  BY <1>7, <1>8, <1>n
<1> HIDE DEF w
<1> QED BY <1>1, <1>4, <1>9, <1>10, <1>11, <1>12, <1>13, RelayMove

LEMMA MarkStep == ASSUME EventInv, NEW r \in Relays, E!Mark(r) PROVE EventInv'
<1>0. relay \in [Relays -> RelayRecs] /\ relay[r] \in RelayRecs /\ RelayInv(r) /\ relay[r].step = "marks"
  BY DEF EventInv, EventTypes, E!Mark
<1>1. UNCHANGED <<status, writer, log, published, made, seqLock, tail>>
  BY DEF E!Mark
<1> DEFINE a == relay[r].todo \ {relay[r].row}
           s == relay[r].marked \cup {relay[r].row}
           x == [[[relay[r] EXCEPT !.step = "takes"] EXCEPT !.todo = a] EXCEPT !.marked = s]
<1>2. relay' = [relay EXCEPT ![r] = x]
  BY <1>0 DEF E!Mark
<1>3. /\ a \subseteq E!Rows /\ s \subseteq E!Rows /\ s = relay[r].made
      /\ a = relay[r].todo \ {relay[r].row} /\ s = relay[r].marked \cup {relay[r].row}
  BY <1>0 DEF RelayRecs, RelayInv
<1> HIDE DEF a, s
<1>4. /\ x \in RelayRecs /\ x.step = "takes" /\ x.todo = a /\ x.made = relay[r].made
      /\ x.held = relay[r].held /\ x.wrote = relay[r].wrote /\ x.marked = s
  BY <1>0, <1>3 DEF RelayRecs
<1> HIDE DEF x
<1>5. relay' \in [Relays -> RelayRecs] /\ relay'[r] = x /\ \A q \in Relays \ {r} : relay'[q] = relay[q]
  BY <1>0, <1>2, <1>4
<1>6. RelayInv(r)'
  <2>1. a \cap s = {} /\ a \cup s \subseteq relay[r].held
    BY <1>0, <1>3 DEF RelayInv
  <2>2. /\ \A e \in relay[r].wrote : e.kind = "published" /\ e.row \in s
        /\ \A v \in s : \E e \in relay[r].wrote : e.row = v
        /\ \A d, e \in relay[r].wrote : d.row = e.row => d = e
    BY <1>0, <1>3 DEF RelayInv, Numbered
  <2>3. x.step = "takes" /\ x.made = s /\ x.marked = s /\ s \subseteq s /\ relay'[r] = x
    BY <1>3, <1>4, <1>5
  <2>4. Numbered(r)' = s
    BY <2>3 DEF Numbered
  <2> QED BY <1>4, <2>1, <2>2, <2>3, <2>4 DEF RelayInv
<1>7. /\ \A d, e \in relay[r].wrote : d.no = e.no => d = e
      /\ relay[r].wrote # {} => seqLock = r
  BY DEF EventInv, NumbersInv, NumberLockInv
<1> QED BY <1>1, <1>4, <1>5, <1>6, <1>7, RelayMove

\* The savepoint takes back what was done for its row, and nothing else.
LEMMA SkipStep == ASSUME EventInv, NEW r \in Relays, E!Skip(r) PROVE EventInv'
<1>0. /\ relay \in [Relays -> RelayRecs] /\ relay[r] \in RelayRecs /\ RelayInv(r)
      /\ relay[r].step \in {"appends", "marks"}
  BY DEF EventInv, EventTypes, E!Skip
<1>1. UNCHANGED <<status, writer, log, published, made, tail>>
  BY DEF E!Skip
<1> DEFINE w == relay[r].row
           a == relay[r].todo \ {w}
           m == relay[r].made \ {w}
           s == {e \in relay[r].wrote : e.row # w}
           u == [[relay[r] EXCEPT !.made = m] EXCEPT !.wrote = s]
           x == [[u EXCEPT !.step = "takes"] EXCEPT !.todo = a]
<1>2. E!Undone(r) = u
  BY <1>0 DEF E!Undone, RelayRecs
<1>3. a \subseteq E!Rows /\ m \subseteq E!Rows /\ s \subseteq Entries /\ s \subseteq relay[r].wrote
  BY <1>0 DEF RelayRecs
<1>4. m = relay[r].marked /\ w \in relay[r].todo /\ w \notin relay[r].marked
  BY <1>0 DEF RelayInv
<1>5. /\ \A e \in s : e.kind = "published" /\ e.row \in relay[r].marked
      /\ \A v \in relay[r].marked : \E e \in s : e.row = v
      /\ \A d, e \in s : d.row = e.row => d = e
  BY <1>0, <1>4 DEF RelayInv, Numbered
<1>t. a \subseteq relay[r].todo
  OBVIOUS
<1> HIDE DEF a, m, s
<1>6. /\ u \in RelayRecs /\ u.made = m /\ u.wrote = s /\ u.todo = relay[r].todo
      /\ u.held = relay[r].held /\ u.marked = relay[r].marked
  BY <1>0, <1>3 DEF RelayRecs
<1> HIDE DEF u
<1>7. /\ x \in RelayRecs /\ x.step = "takes" /\ x.made = m /\ x.wrote = s /\ x.todo = a
      /\ x.held = relay[r].held /\ x.marked = relay[r].marked
  BY <1>3, <1>6 DEF RelayRecs
<1>8. relay' = [relay EXCEPT ![r] = x]
  <2>1. relay' = [relay EXCEPT ![r] = [E!Undone(r) EXCEPT !.step = "takes", !.todo = @ \ {relay[r].row}]]
    BY DEF E!Skip
  <2> QED BY <1>2, <1>6, <2>1 DEF RelayRecs, a
<1>9. IF s = {} THEN seqLock' = IF seqLock = r THEN Nobody ELSE seqLock ELSE seqLock' = seqLock
  BY <1>2, <1>6 DEF E!Skip, E!Release
<1> HIDE DEF x
<1>10. relay' \in [Relays -> RelayRecs] /\ relay'[r] = x /\ \A q \in Relays \ {r} : relay'[q] = relay[q]
  BY <1>0, <1>7, <1>8
<1>11. RelayInv(r)'
  <2>1. relay[r].held \subseteq relay[r].held /\ relay[r].todo \cup relay[r].made \subseteq relay[r].held
    BY <1>0 DEF RelayInv
  <2>2. m \subseteq relay[r].made /\ a \cap relay[r].marked = {}
    BY <1>0, <1>4, <1>t DEF RelayInv
  <2> QED BY <1>4, <1>5, <1>7, <1>10, <1>t, <2>1, <2>2 DEF RelayInv, Numbered
<1>12. /\ \A d, e \in relay[r].wrote : d.no = e.no => d = e
       /\ relay[r].wrote # {} => seqLock = r
  BY DEF EventInv, NumbersInv, NumberLockInv
<1>13. s # {} => seqLock' = r
  BY <1>3, <1>9, <1>12
<1>14. \A d, e \in s : d.no = e.no => d = e
  BY <1>3, <1>12
<1> HIDE DEF w
<1> QED BY <1>1, <1>3, <1>7, <1>9, <1>10, <1>11, <1>13, <1>14, RelayMove

LEMMA CrashRelayStep == ASSUME EventInv, NEW r \in Relays, E!CrashRelay(r) PROVE EventInv'
<1>0. relay \in [Relays -> RelayRecs]
  BY DEF EventInv, EventTypes
<1>1. /\ UNCHANGED <<status, writer, log, published, made, tail>>
      /\ relay' = [relay EXCEPT ![r] = E!NoBatch] /\ seqLock' = IF seqLock = r THEN Nobody ELSE seqLock
  BY DEF E!CrashRelay, E!Release
<1>2. /\ E!NoBatch \in RelayRecs /\ E!NoBatch.wrote = {} /\ E!NoBatch.held = {} /\ E!NoBatch.step = "idle"
      /\ E!NoBatch.made = {} /\ E!NoBatch.marked = {} /\ E!NoBatch.todo = {}
  BY DEF E!NoBatch, RelayRecs
<1>3. /\ relay' \in [Relays -> RelayRecs] /\ relay'[r] = E!NoBatch
      /\ \A q \in Relays \ {r} : relay'[q] = relay[q]
  BY <1>0, <1>1, <1>2
<1>4. RelayInv(r)'
  BY <1>2, <1>3 DEF RelayInv, Numbered
<1> QED BY <1>1, <1>2, <1>3, <1>4, RelayMove

\* Steps of the stream change nothing but the stream.
LEMMA TailMove ==
  ASSUME EventInv, UNCHANGED <<status, writer, log, published, made, seqLock, relay>>,
         tail' \in TailRecs, TailInv'
  PROVE  EventInv'
<1>1. EventTypes' /\ NumberLockInv' /\ NumbersInv'
  BY DEF EventInv, EventTypes, NumberLockInv, NumbersInv
<1>2. (\A r \in Relays : RelayInv(r)') /\ HeldInv' /\ LoggedInv'
  BY DEF EventInv, RelayInv, Numbered, HeldInv, LoggedInv
<1>3. Bounded'
  <2>1. PICK n \in Nat : Bound(n)
    BY DEF EventInv, Bounded
  <2>2. Bound(n)'
    BY <2>1 DEF Bound
  <2> QED BY <2>2 DEF Bounded
<1> QED BY <1>1, <1>2, <1>3 DEF EventInv

LEMMA ReadStatusStep == ASSUME EventInv, E!ReadStatus PROVE EventInv'
<1>0. tail \in TailRecs /\ tail.step = "reads" /\ TailInv
  BY DEF EventInv, EventTypes, E!ReadStatus
<1>1. UNCHANGED <<status, writer, log, published, made, seqLock, relay>>
  BY DEF E!ReadStatus
<1> DEFINE t == (status[Watched] = Steps)
           x == [[tail EXCEPT !.step = "lists"] EXCEPT !.terminal = t]
<1>2. tail' = x
  BY <1>0 DEF E!ReadStatus
<1>3. t \in BOOLEAN /\ (t => status[Watched] = Steps)
  OBVIOUS
<1> HIDE DEF t
<1>4. /\ x \in TailRecs /\ x.step = "lists" /\ x.terminal = t /\ x.cursor = tail.cursor
      /\ x.found = tail.found /\ x.seen = tail.seen
  BY <1>0, <1>3 DEF TailRecs
<1> HIDE DEF x
<1>5. TailInv'
  BY <1>0, <1>1, <1>2, <1>3, <1>4 DEF TailInv, E!NoEventSkipped
<1> QED BY <1>1, <1>2, <1>4, <1>5, TailMove

\* Nothing follows the cursor only if every event of the job was shown.
LEMMA ListStep == ASSUME EventInv, E!List PROVE EventInv'
<1>0. tail \in TailRecs /\ tail.step = "lists" /\ TailInv /\ log \subseteq Entries
  BY DEF EventInv, EventTypes, E!List
<1>1. UNCHANGED <<status, writer, log, published, made, seqLock, relay>>
  BY DEF E!List
<1> DEFINE later == {e \in log : e.row[1] = Watched /\ e.no > tail.cursor}
           f == {e \in later : \A d \in later : e.no <= d.no}
           x == [[tail EXCEPT !.step = "acts"] EXCEPT !.found = f]
<1>2. tail' = x
  BY <1>0 DEF E!List, E!Following
<1>3. f \subseteq log /\ f \subseteq Entries /\ tail.cursor \in Nat /\ \A e \in log : e.no \in Nat
  BY <1>0 DEF TailRecs, Entries
<1>4. ASSUME NEW y \in f
      PROVE  /\ y \in log /\ y.no > tail.cursor
             /\ \A e \in log : e.row[1] = Watched /\ tail.cursor < e.no /\ e.no <= y.no => e = y
  <2> SUFFICES ASSUME NEW e \in log, e.row[1] = Watched, tail.cursor < e.no, e.no <= y.no PROVE e = y
    BY <1>4
  <2>1. e \in later
    BY <1>3
  <2>2. e.no = y.no
    BY <1>3, <2>1
  <2> QED BY <1>3, <2>2 DEF EventInv, NumbersInv
<1>5. ASSUME f = {}, tail.terminal PROVE AllSeen
  <2>1. later = {}
    <3>1. SUFFICES ASSUME later # {} PROVE FALSE
      OBVIOUS
    <3> DEFINE T == {e.no : e \in later}
    <3>2. T \in SUBSET Nat /\ T # {}
      BY <1>3, <3>1
    <3>3. PICK n \in T : \A m \in T : n <= m
      <4> HIDE DEF T
      <4> QED BY <3>2, LeastNat
    <3>4. PICK e \in later : e.no = n
      OBVIOUS
    <3>5. e \in f
      BY <3>3, <3>4
    <3> QED BY <1>5, <3>5
  <2>2. \A e \in log : e.row[1] = Watched => e \in tail.seen
    BY <1>0, <1>3, <2>1 DEF TailInv, E!NoEventSkipped
  <2>3. ASSUME NEW k \in 1..Steps PROVE \E e \in tail.seen : e.kind = "job" /\ e.row = <<Watched, k>>
    <3>1. k \in 1..status[Watched]
      BY <1>0, <1>5 DEF TailInv
    <3>2. PICK e \in log : e.kind = "job" /\ e.row = <<Watched, k>>
      BY <3>1, EventBounds DEF EventInv, LoggedInv
    <3> QED BY <2>2, <3>2
  <2> QED BY <2>3 DEF AllSeen
<1> HIDE DEF f
<1>6. /\ x \in TailRecs /\ x.step = "acts" /\ x.terminal = tail.terminal /\ x.cursor = tail.cursor
      /\ x.found = f /\ x.seen = tail.seen
  BY <1>0, <1>3 DEF TailRecs
<1> HIDE DEF x
<1>7. AllSeen => AllSeen'
  BY <1>2, <1>6 DEF AllSeen
<1>8. TailInv'
  BY <1>0, <1>1, <1>2, <1>4, <1>5, <1>6, <1>7 DEF TailInv, E!NoEventSkipped
<1> QED BY <1>1, <1>2, <1>6, <1>8, TailMove

LEMMA DeliverStep == ASSUME EventInv, NEW y \in tail.found, E!Deliver(y) PROVE EventInv'
<1>0. tail \in TailRecs /\ tail.step = "acts" /\ TailInv /\ log \subseteq Entries
  BY DEF EventInv, EventTypes, E!Deliver
<1>1. UNCHANGED <<status, writer, log, published, made, seqLock, relay>>
  BY DEF E!Deliver
<1>2. /\ y \in log /\ y.no \in Nat /\ tail.cursor \in Nat /\ y.no > tail.cursor
      /\ \A e \in log : e.row[1] = Watched /\ tail.cursor < e.no /\ e.no <= y.no => e = y
  BY <1>0 DEF TailInv, TailRecs, Entries
<1> DEFINE n == y.no
           s == tail.seen \cup {y}
           x == [[[[tail EXCEPT !.step = "reads"] EXCEPT !.cursor = n] EXCEPT !.found = {}] EXCEPT !.seen = s]
<1>3. tail' = x
  BY <1>0 DEF E!Deliver
<1>4. s \subseteq Entries /\ n \in Nat /\ s = tail.seen \cup {y} /\ n = y.no
  BY <1>0, <1>2 DEF TailRecs
<1> HIDE DEF s, n
<1>5. /\ x \in TailRecs /\ x.step = "reads" /\ x.terminal = tail.terminal /\ x.cursor = n
      /\ x.found = {} /\ x.seen = s
  BY <1>0, <1>4 DEF TailRecs
<1> HIDE DEF x
<1>6. \A e \in log : e.row[1] = Watched /\ e.no <= n => e \in s
  <2> SUFFICES ASSUME NEW e \in log, e.row[1] = Watched, e.no <= n PROVE e \in s
    OBVIOUS
  <2>1. e.no \in Nat
    BY <1>0 DEF Entries
  <2>2. CASE e.no <= tail.cursor
    BY <1>0, <1>4, <2>2 DEF TailInv, E!NoEventSkipped
  <2>3. CASE tail.cursor < e.no
    BY <1>2, <1>4, <2>3
  <2> QED BY <1>2, <2>1, <2>2, <2>3
<1>7. TailInv'
  BY <1>0, <1>1, <1>2, <1>3, <1>4, <1>5, <1>6 DEF TailInv, E!NoEventSkipped
<1> QED BY <1>1, <1>3, <1>5, <1>7, TailMove

LEMMA NothingNewStep == ASSUME EventInv, E!NothingNew PROVE EventInv'
<1>0. tail \in TailRecs /\ tail.step = "acts" /\ tail.found = {} /\ TailInv
  BY DEF EventInv, EventTypes, E!NothingNew
<1>1. UNCHANGED <<status, writer, log, published, made, seqLock, relay>>
  BY DEF E!NothingNew
<1> DEFINE p == IF tail.terminal THEN "complete" ELSE "reads"
           x == [tail EXCEPT !.step = p]
<1>2. tail' = x
  BY DEF E!NothingNew, E!Terminal
<1>3. p \in {"complete", "reads"} /\ (p = "complete" => tail.terminal)
  OBVIOUS
<1> HIDE DEF p
<1>4. /\ x \in TailRecs /\ x.step = p /\ x.terminal = tail.terminal /\ x.cursor = tail.cursor
      /\ x.found = {} /\ x.seen = tail.seen
  BY <1>0, <1>3 DEF TailRecs
<1> HIDE DEF x
<1>5. tail.terminal => AllSeen'
  BY <1>0, <1>2, <1>4 DEF TailInv, AllSeen
<1>6. TailInv'
  BY <1>0, <1>1, <1>2, <1>3, <1>4, <1>5 DEF TailInv, E!NoEventSkipped
<1> QED BY <1>1, <1>2, <1>4, <1>6, TailMove

LEMMA ReconnectStep == ASSUME EventInv, E!Reconnect PROVE EventInv'
<1>0. tail \in TailRecs /\ TailInv
  BY DEF EventInv, EventTypes
<1>1. UNCHANGED <<status, writer, log, published, made, seqLock, relay>>
  BY DEF E!Reconnect
<1> DEFINE x == [[[tail EXCEPT !.step = "reads"] EXCEPT !.terminal = FALSE] EXCEPT !.found = {}]
<1>2. tail' = x
  BY <1>0 DEF E!Reconnect
<1>3. /\ x \in TailRecs /\ x.step = "reads" /\ x.terminal = FALSE /\ x.cursor = tail.cursor
      /\ x.found = {} /\ x.seen = tail.seen
  BY <1>0 DEF TailRecs
<1> HIDE DEF x
<1>4. TailInv'
  BY <1>0, <1>1, <1>2, <1>3 DEF TailInv, E!NoEventSkipped
<1> QED BY <1>1, <1>2, <1>3, <1>4, TailMove

LEMMA EventStep == ASSUME EventInv, [MCNext]_<<part, vars, cvars, ivars, qvars, evars, vvars>> PROVE EventInv'
<1>1. CASE UNCHANGED evars
  <2>1. UNCHANGED <<status, writer, log, published, made, seqLock, relay, tail>>
    BY <1>1 DEF evars
  <2>2. tail \in TailRecs /\ log' \ log = {} /\ log' \subseteq Entries
    BY <2>1 DEF EventInv, EventTypes
  <2>3. TailInv'
    BY <2>1, <2>2, TailStays
  <2> QED BY <2>1, <2>2, <2>3, TailMove
<1>2. CASE E!Next
  <2>1. ASSUME NEW j \in Jobs, E!AppendTransition(j) \/ E!CommitTransition(j) \/ E!RollBackTransition(j)
        PROVE  EventInv'
    BY <2>1, AppendTransitionStep, CommitTransitionStep, RollBackTransitionStep
  <2>2. ASSUME NEW r \in Relays,
               \/ E!Claim(r) \/ (\E w \in relay[r].todo : E!Enqueue(r, w)) \/ E!AppendPublished(r)
               \/ E!Mark(r) \/ E!Skip(r) \/ E!CommitBatch(r) \/ E!CrashRelay(r)
        PROVE  EventInv'
    BY <2>2, ClaimStep, EnqueueStep, AppendPublishedStep, MarkStep, SkipStep, CommitBatchStep, CrashRelayStep
  <2>3. CASE E!ReadStatus \/ E!List \/ (\E e \in tail.found : E!Deliver(e)) \/ E!NothingNew \/ E!Reconnect
    BY <2>3, ReadStatusStep, ListStep, DeliverStep, NothingNewStep, ReconnectStep
  <2> QED BY <1>2, <2>1, <2>2, <2>3 DEF E!Next
<1> QED BY <1>1, <1>2 DEF MCNext

LEMMA EventsHold == MCSpec => []EventInv
  BY EventInit, EventStep, PTL DEF MCSpec

\* The stream of a job misses no event, for any number of relays and jobs that
\* append side by side and roll back, and is complete only once it has shown all of
\* the job's own.
THEOREM StreamsMissNothing == MCSpec => []TailsMissNothing
<1>1. EventInv => TailsMissNothing
  BY DEF EventInv, TailInv, AllSeen, TailsMissNothing, E!TailsMissNothing, E!CompleteIsComplete
<1> QED BY <1>1, EventsHold, PTL

\* A row is published together with its effect and logged once, for batches of any
\* size and any number of relays at once.
THEOREM RowsArePublishedOnce == MCSpec => []PublishedOnce
<1>1. ASSUME EventInv, NEW w \in E!Rows
      PROVE  /\ w \in published <=> w \in made
             /\ E!Cardinality(E!PublishedEntry(w)) = IF w \in published THEN 1 ELSE 0
  <2>1. \A S : E!Cardinality(S) = Cardinality(S)
    BY DEF E!Cardinality, Cardinality
  <2>0. made = published
    BY <1>1 DEF EventInv, LoggedInv
  <2>2. CASE w \in published
    <3>1. PICK e \in log : e.kind = "published" /\ e.row = w
      BY <1>1, <2>2 DEF EventInv, LoggedInv
    <3>2. E!PublishedEntry(w) = {e}
      BY <1>1, <3>1 DEF EventInv, LoggedInv, E!PublishedEntry
    <3>3. E!Cardinality(E!PublishedEntry(w)) = 1
      BY <2>1, <3>2, FS_Singleton
    <3> QED BY <2>0, <2>2, <3>3
  <2>3. CASE w \notin published
    <3>1. E!PublishedEntry(w) = {}
      BY <1>1, <2>3 DEF EventInv, LoggedInv, E!PublishedEntry
    <3>2. E!Cardinality(E!PublishedEntry(w)) = 0
      BY <2>1, <3>1, FS_EmptySet
    <3> QED BY <2>0, <2>3, <3>2
  <2> QED BY <2>2, <2>3
<1>2. EventInv => PublishedOnce
  BY <1>1 DEF PublishedOnce, E!PublishedOnce
<1> QED BY <1>2, EventsHold, PTL


(***************************************************************************)
(* The versions of a document.                                              *)
(***************************************************************************)

DocStates == {"uploaded", "converted", "indexing", "indexed", "failed"}

RevTypes ==
    /\ state \in DocStates /\ newest \in V!Versions /\ current \in 0..newest
    /\ vidx \in [V!Versions -> {"none", "pending", "enters", "persists", "persisted", "done", "failed"}]
    /\ vbatch \in [V!Versions -> {"none", "pending", "done", "failed"}]
    /\ vwriter \in [V!Versions -> [at : {"idle", "fenced", "wrote"}, marker : {"current", "superseded"}]]
    /\ point \in [V!Versions -> {"absent", "current", "superseded"}]
    /\ vflying \subseteq V!Versions \X {"current", "superseded"}
    /\ refresh \in [V!Versions -> {"none", "pending", "set", "done", "dead"}]

\* A version has an index job from its promotion on, a batch only then, and points
\* only of its batch; what is uploaded has none of them yet.
PromotedFirst ==
    /\ current # V!Raw => vidx[current] # "none"
    /\ \A v \in V!Versions :
        /\ v > newest \/ (v = newest /\ state = "uploaded") => vidx[v] = "none"
        /\ vbatch[v] # "none" => vidx[v] # "none"
        /\ point[v] # "absent" \/ vwriter[v].at # "idle" => vbatch[v] # "none"
    /\ \A f \in vflying : vbatch[f[1]] # "none"

\* Nothing is written of the current version but that it is the current one, and
\* it is there when its batch is done.
CurrentInv ==
    current # V!Raw =>
        /\ vwriter[current].at # "idle" => vwriter[current].marker = "current"
        /\ \A f \in vflying : f[1] = current => f[2] = "current"
        /\ point[current] # "superseded"
        /\ vbatch[current] = "done" \/ vwriter[current].at = "wrote" =>
               point[current] = "current" \/ current \in lost

\* What a repair has read is of promoted versions, and those it found to be past
\* are past for good.
RepairInv ==
    /\ repair.at # "idle" => /\ repair.current \in V!Versions \cup {V!Raw}
                             /\ repair.current # V!Raw => vidx[repair.current] # "none"
    /\ repair.at \in {"scroll", "missing"} =>
           \A v \in repair.chunks : /\ v \in V!Versions /\ vidx[v] # "none"
                                    /\ v # repair.current => v # current
    /\ repair.at \in {"missing", "delete"} =>
           \A v \in repair.stale : v \in V!Versions /\ v # current /\ vidx[v] # "none"

RevInv ==
    /\ RevTypes /\ PromotedFirst /\ CurrentInv /\ RepairInv
    /\ V!IndexedIsServed /\ V!OnlyRacesMislabel

LEMMA LastIs == Last \in Nat \ {0} /\ V!Raw = 0 /\ V!Versions = 1..Last
  BY InstancesAssumption DEF V!LastAssumption, V!Raw, V!Versions

LEMMA RevInit == MCInit => RevInv
<1> SUFFICES ASSUME MCInit PROVE RevInv
  OBVIOUS
<1>1. /\ state = "indexed" /\ current = 1 /\ newest = 1
      /\ vidx = [v \in V!Versions |-> IF v = 1 THEN "done" ELSE "none"] /\ vbatch = vidx
      /\ vwriter = [v \in V!Versions |-> [at |-> "idle", marker |-> "superseded"]]
      /\ lost \in {{}, {1}}
      /\ point = [v \in V!Versions |-> IF v = 1 /\ v \notin lost THEN "current" ELSE "absent"]
      /\ vflying = {} /\ refresh = [v \in V!Versions |-> "none"]
      /\ repair.at = "idle"
  BY DEF MCInit, V!Init, V!IdleWriter, V!IdleRepair
<1>2. 1 \in V!Versions /\ current # V!Raw
  BY <1>1, LastIs
<1>3. RevTypes
  BY <1>1, <1>2 DEF RevTypes, DocStates
<1>4. PromotedFirst
  BY <1>1, <1>2, LastIs DEF PromotedFirst
<1>5. CurrentInv /\ RepairInv
  BY <1>1, <1>2 DEF CurrentInv, RepairInv
<1>6. V!IndexedIsServed /\ V!OnlyRacesMislabel
  BY <1>1, <1>2 DEF V!IndexedIsServed, V!OnlyRacesMislabel
<1> QED BY <1>3, <1>4, <1>5, <1>6 DEF RevInv

\* The index job and the ends of an embedding job: no version is forgotten, and the
\* document becomes indexed only with its current version done.
LEMMA StageMove ==
  ASSUME RevInv, UNCHANGED <<current, newest, point, vflying, refresh, repair, keys, raced, lost>>, RevTypes',
         \A u \in V!Versions :
            /\ vidx'[u] = "none" <=> vidx[u] = "none"
            /\ vidx[u] = "done" => vidx'[u] = "done"
            /\ vbatch'[u] # "none" => vidx[u] # "none"
            /\ vbatch[u] # "none" => vbatch'[u] # "none"
            /\ vbatch[u] = "done" => vbatch'[u] = "done"
            /\ vbatch'[u] = "done" => vbatch[u] = "done" \/ vwriter[u].at = "wrote"
            /\ vwriter'[u].at # "idle" => vwriter'[u] = vwriter[u],
         state' = "uploaded" => state = "uploaded",
         state' = "indexed" => state = "indexed" \/ (vidx'[current] = "done" /\ vbatch'[current] = "done")
  PROVE  RevInv'
<1>0. RevTypes /\ current \in V!Versions \cup {V!Raw}
  BY LastIs DEF RevInv, RevTypes
<1>1. PromotedFirst'
  <2>1. \A f \in vflying : f[1] \in V!Versions
    BY <1>0 DEF RevTypes
  <2>2. \A v \in V!Versions :
          /\ v > newest \/ (v = newest /\ state' = "uploaded") => vidx'[v] = "none"
          /\ vbatch'[v] # "none" => vidx'[v] # "none"
          /\ point[v] # "absent" \/ vwriter'[v].at # "idle" => vbatch'[v] # "none"
    BY DEF RevInv, PromotedFirst
  <2>3. \A f \in vflying : vbatch'[f[1]] # "none"
    BY <2>1 DEF RevInv, PromotedFirst
  <2>4. current # V!Raw => vidx'[current] # "none"
    BY <1>0 DEF RevInv, PromotedFirst
  <2> QED BY <2>2, <2>3, <2>4 DEF PromotedFirst
<1>2. CurrentInv'
  BY <1>0 DEF RevInv, CurrentInv
<1>3. RepairInv'
  BY DEF RevInv, RepairInv
<1>4. V!IndexedIsServed'
  <2>1. SUFFICES ASSUME state' = "indexed", current # V!Raw
                 PROVE  /\ vidx'[current] = "done" /\ (vbatch'[current] = "done" \/ V!Requeued(current))
                        /\ vbatch'[current] = "done" => point[current] = "current" \/ current \in lost
    BY DEF V!IndexedIsServed, V!Requeued
  <2>2. vbatch'[current] = "done" => point[current] = "current" \/ current \in lost
    BY <1>0, <2>1 DEF RevInv, CurrentInv
  <2>3. CASE state = "indexed"
    BY <1>0, <2>1, <2>2, <2>3 DEF RevInv, V!IndexedIsServed
  <2>4. CASE state # "indexed"
    BY <2>1, <2>2, <2>4
  <2> QED BY <2>3, <2>4
<1>5. V!OnlyRacesMislabel'
  BY DEF RevInv, V!OnlyRacesMislabel
<1> QED BY <1>1, <1>2, <1>3, <1>4, <1>5 DEF RevInv

LEMMA IndexStep ==
  ASSUME RevInv, NEW v \in V!Versions,
         V!Begin(v) \/ V!Replay(v) \/ V!Enter(v) \/ V!Persist(v) \/ V!Retried(v) \/ V!Dies(v)
  PROVE  RevInv'
<1>0. RevTypes
  BY DEF RevInv
<1>1. /\ UNCHANGED <<current, newest, vwriter, point, vflying, refresh, repair, keys, raced, lost>>
      /\ state' \in {state, "indexing", "failed"}
  BY DEF V!Begin, V!Replay, V!Enter, V!Persist, V!Retried, V!Dies, V!Failed, V!DocumentSame, V!VectorsSame,
     V!RepairSame
<1>2. vidx[v] \notin {"none", "done", "failed"} /\
      \E w \in {"pending", "enters", "persists", "persisted", "done", "failed"} : vidx' = [vidx EXCEPT ![v] = w]
  BY DEF V!Begin, V!Replay, V!Enter, V!Persist, V!Retried, V!Dies, V!Live
<1>3. vbatch' = vbatch \/ vbatch' = [vbatch EXCEPT ![v] = IF @ = "none" THEN "pending" ELSE @]
  BY DEF V!Begin, V!Replay, V!Enter, V!Persist, V!Retried, V!Dies
<1>4. RevTypes'
  BY <1>0, <1>1, <1>2, <1>3 DEF RevTypes, DocStates
<1>5. \A u \in V!Versions : /\ vidx'[u] = "none" <=> vidx[u] = "none"
                            /\ vidx[u] = "done" => vidx'[u] = "done"
  BY <1>0, <1>2 DEF RevTypes
<1>6. \A u \in V!Versions : /\ vbatch'[u] # "none" => vidx[u] # "none"
                            /\ vbatch[u] # "none" => vbatch'[u] # "none"
                            /\ vbatch[u] = "done" <=> vbatch'[u] = "done"
  BY <1>0, <1>2, <1>3 DEF RevInv, PromotedFirst, RevTypes
<1> QED BY <1>1, <1>4, <1>5, <1>6, StageMove

LEMMA FinishStep == ASSUME RevInv, NEW v \in V!Versions, V!Finish(v) PROVE RevInv'
<1>0. RevTypes
  BY DEF RevInv
<1>1. /\ UNCHANGED <<current, newest, vbatch, vwriter, point, vflying, refresh, repair, keys, raced, lost>>
      /\ vidx[v] = "persisted" /\ vidx' = [vidx EXCEPT ![v] = "done"]
      /\ state' = state \/ (state' = "indexed" /\ vbatch[v] = "done" /\ v = current)
  BY DEF V!Finish, V!Completed, V!Moves, V!DocumentSame, V!VectorsSame, V!RepairSame
<1>2. RevTypes'
  BY <1>0, <1>1 DEF RevTypes, DocStates
<1>3. \A u \in V!Versions : /\ vidx'[u] = "none" <=> vidx[u] = "none"
                            /\ vidx[u] = "done" => vidx'[u] = "done"
                            /\ vbatch[u] # "none" => vidx[u] # "none"
  BY <1>0, <1>1 DEF RevTypes, RevInv, PromotedFirst
<1>4. vidx'[v] = "done"
  BY <1>0, <1>1 DEF RevTypes
<1> QED BY <1>1, <1>2, <1>3, <1>4, StageMove

LEMMA CompleteStep == ASSUME RevInv, NEW v \in V!Versions, V!Complete(v) PROVE RevInv'
<1>0. RevTypes
  BY DEF RevInv
<1>1. /\ UNCHANGED <<current, newest, vidx, point, vflying, refresh, repair, keys, raced, lost>>
      /\ vwriter[v].at = "wrote" /\ vwriter' = [vwriter EXCEPT ![v] = V!IdleWriter]
      /\ vbatch' = [vbatch EXCEPT ![v] = "done"]
      /\ state' = state \/ (state' = "indexed" /\ vidx[v] = "done" /\ v = current)
  BY DEF V!Complete, V!Completed, V!Moves, V!DocumentSame, V!RepairSame
<1>2. RevTypes'
  BY <1>0, <1>1 DEF RevTypes, DocStates, V!IdleWriter
<1>3. \A u \in V!Versions : vwriter'[u].at # "idle" => vwriter'[u] = vwriter[u]
  BY <1>0, <1>1 DEF RevTypes, V!IdleWriter
<1>4. \A u \in V!Versions : /\ vbatch'[u] # "none" => vidx[u] # "none"
                            /\ vbatch[u] # "none" => vbatch'[u] # "none"
                            /\ vbatch[u] = "done" => vbatch'[u] = "done"
                            /\ vbatch'[u] = "done" => vbatch[u] = "done" \/ vwriter[u].at = "wrote"
  BY <1>0, <1>1 DEF RevTypes, RevInv, PromotedFirst
<1>5. vbatch'[v] = "done"
  BY <1>0, <1>1 DEF RevTypes
<1> QED BY <1>1, <1>2, <1>3, <1>4, <1>5, StageMove

LEMMA BatchDiesStep == ASSUME RevInv, NEW v \in V!Versions, V!BatchDies(v) PROVE RevInv'
<1>0. RevTypes
  BY DEF RevInv
<1>1. /\ UNCHANGED <<current, newest, vidx, vwriter, point, vflying, refresh, repair, keys, raced, lost>>
      /\ vbatch[v] = "pending" /\ vbatch' = [vbatch EXCEPT ![v] = "failed"]
      /\ state' \in {state, "failed"}
  BY DEF V!BatchDies, V!Failed, V!DocumentSame, V!VectorsSame, V!RepairSame
<1>2. RevTypes'
  BY <1>0, <1>1 DEF RevTypes, DocStates
<1>3. \A u \in V!Versions : /\ vbatch'[u] # "none" => vidx[u] # "none"
                            /\ vbatch[u] # "none" => vbatch'[u] # "none"
                            /\ vbatch[u] = "done" <=> vbatch'[u] = "done"
  BY <1>0, <1>1 DEF RevTypes, RevInv, PromotedFirst
<1> QED BY <1>1, <1>2, <1>3, StageMove

LEMMA AbandonStep == ASSUME RevInv, NEW v \in V!Versions, V!Abandon(v) PROVE RevInv'
<1>0. RevTypes
  BY DEF RevInv
<1>1. /\ UNCHANGED <<state, current, newest, vidx, vbatch, point, refresh, repair, keys, raced, lost>>
      /\ vwriter[v].at # "idle" /\ vwriter' = [vwriter EXCEPT ![v] = V!IdleWriter]
      /\ vflying' = vflying \/ vflying' = {<<v, vwriter[v].marker>>}
  BY DEF V!Abandon, V!DocumentSame, V!RepairSame
<1>2. RevTypes'
  BY <1>0, <1>1 DEF RevTypes, V!IdleWriter
<1>3. \A u \in V!Versions : vwriter'[u].at # "idle" => vwriter'[u] = vwriter[u]
  BY <1>0, <1>1 DEF RevTypes, V!IdleWriter
<1>4. vbatch[v] # "none" /\ (v = current /\ current # V!Raw => vwriter[v].marker = "current")
  BY <1>1 DEF RevInv, PromotedFirst, CurrentInv
<1>5. PromotedFirst'
  <2>1. \A f \in vflying' : vbatch[f[1]] # "none"
    BY <1>1, <1>4 DEF RevInv, PromotedFirst
  <2> QED BY <1>1, <1>3, <2>1 DEF RevInv, PromotedFirst
<1>6. CurrentInv'
  <2>1. current # V!Raw => current \in V!Versions
    BY <1>0, LastIs DEF RevTypes
  <2>2. current # V!Raw => \A f \in vflying' : f[1] = current => f[2] = "current"
    BY <1>1, <1>4 DEF RevInv, CurrentInv
  <2> QED BY <1>1, <1>3, <2>1, <2>2 DEF RevInv, CurrentInv
<1>7. RepairInv' /\ V!OnlyRacesMislabel'
  BY <1>1 DEF RevInv, RepairInv, V!OnlyRacesMislabel
<1>8. V!IndexedIsServed'
  BY <1>1 DEF RevInv, V!IndexedIsServed, V!Requeued
<1> QED BY <1>2, <1>5, <1>6, <1>7, <1>8 DEF RevInv

LEMMA FenceStep == ASSUME RevInv, NEW v \in V!Versions, V!Fence(v) PROVE RevInv'
<1>0. RevTypes
  BY DEF RevInv
<1>1. /\ UNCHANGED <<state, current, newest, vidx, vbatch, point, vflying, refresh, repair, keys, raced, lost>>
      /\ vbatch[v] = "pending" /\ vwriter[v].at = "idle"
      /\ vwriter' = [vwriter EXCEPT ![v] = [at |-> "fenced", marker |-> V!MarkerOf(v)]]
  BY DEF V!Fence, V!DocumentSame, V!RepairSame
<1>2. V!MarkerOf(v) \in {"current", "superseded"} /\ (v = current => V!MarkerOf(v) = "current")
  BY DEF V!MarkerOf
<1>3. RevTypes'
  BY <1>0, <1>1, <1>2 DEF RevTypes
<1>4. /\ \A u \in V!Versions \ {v} : vwriter'[u] = vwriter[u]
      /\ vwriter'[v].at = "fenced" /\ vwriter'[v].marker = V!MarkerOf(v)
  BY <1>0, <1>1 DEF RevTypes
<1>5. PromotedFirst'
  BY <1>1, <1>4 DEF RevInv, PromotedFirst
<1>6. CurrentInv'
  <2>1. current # V!Raw => current \in V!Versions
    BY <1>0, LastIs DEF RevTypes
  <2> QED BY <1>1, <1>2, <1>4, <2>1 DEF RevInv, CurrentInv
<1>7. RepairInv' /\ V!OnlyRacesMislabel'
  BY <1>1 DEF RevInv, RepairInv, V!OnlyRacesMislabel
<1>8. V!IndexedIsServed'
  BY <1>1 DEF RevInv, V!IndexedIsServed, V!Requeued
<1> QED BY <1>3, <1>5, <1>6, <1>7, <1>8 DEF RevInv

\* A marker is written, by a worker or by a request it left behind.
LEMMA Writes ==
  ASSUME RevInv, NEW v \in V!Versions, NEW m \in {"current", "superseded"}, V!Written(v, m), RevTypes',
         UNCHANGED <<state, current, newest, vidx, vbatch, refresh, repair, keys>>,
         vbatch[v] # "none", v = current => m = "current", vflying' \subseteq vflying,
         \A u \in V!Versions : /\ vwriter'[u].at # "idle" => vwriter[u].at # "idle"
                               /\ vwriter'[u].marker = vwriter[u].marker
                               /\ u # v => vwriter'[u].at = vwriter[u].at
  PROVE  RevInv'
<1>0. RevTypes
  BY DEF RevInv
<1>1. /\ \A u \in V!Versions : point'[u] = IF u = v THEN m ELSE point[u]
      /\ raced' = IF m # V!MarkerOf(v) THEN raced \cup {v} ELSE raced
      /\ lost' = lost \ {v}
  BY <1>0 DEF V!Written, RevTypes
<1>2. current # V!Raw => current \in V!Versions
  BY <1>0, LastIs DEF RevTypes
<1>3. PromotedFirst'
  BY <1>1 DEF RevInv, PromotedFirst
<1>4. CurrentInv'
  BY <1>1, <1>2 DEF RevInv, CurrentInv
<1>5. V!IndexedIsServed'
  BY <1>1, <1>2 DEF RevInv, V!IndexedIsServed, V!Requeued
<1>6. V!OnlyRacesMislabel'
  BY <1>1 DEF RevInv, V!OnlyRacesMislabel, V!MarkerOf
<1>7. RepairInv'
  BY DEF RevInv, RepairInv
<1> QED BY <1>3, <1>4, <1>5, <1>6, <1>7 DEF RevInv

LEMMA UpsertStep == ASSUME RevInv, NEW v \in V!Versions, V!Upsert(v) PROVE RevInv'
<1>0. RevTypes
  BY DEF RevInv
<1>1. /\ UNCHANGED <<state, current, newest, vidx, vbatch, vflying, refresh, repair, keys>>
      /\ vwriter[v].at = "fenced" /\ vwriter' = [vwriter EXCEPT ![v].at = "wrote"]
      /\ V!Written(v, vwriter[v].marker)
  BY DEF V!Upsert, V!DocumentSame, V!RepairSame
<1>2. vwriter[v].marker \in {"current", "superseded"}
  BY <1>0 DEF RevTypes
<1>3. RevTypes'
  BY <1>0, <1>1, <1>2 DEF RevTypes, V!Written
<1>4. vbatch[v] # "none" /\ (v = current => vwriter[v].marker = "current")
  BY <1>0, <1>1, LastIs DEF RevInv, PromotedFirst, CurrentInv, RevTypes
<1>5. \A u \in V!Versions : /\ vwriter'[u].at # "idle" => vwriter[u].at # "idle"
                            /\ vwriter'[u].marker = vwriter[u].marker
                            /\ u # v => vwriter'[u].at = vwriter[u].at
  BY <1>0, <1>1 DEF RevTypes
<1> QED BY <1>1, <1>2, <1>3, <1>4, <1>5, Writes

LEMMA LateUpsertStep ==
  ASSUME RevInv, NEW v \in V!Versions, NEW m \in {"current", "superseded"}, V!LateUpsert(v, m) PROVE RevInv'
<1>0. RevTypes
  BY DEF RevInv
<1>1. /\ UNCHANGED <<state, current, newest, vidx, vbatch, vwriter, refresh, repair, keys>>
      /\ <<v, m>> \in vflying /\ vflying' = vflying \ {<<v, m>>} /\ V!Written(v, m)
  BY DEF V!LateUpsert, V!DocumentSame, V!RepairSame
<1>2. RevTypes'
  BY <1>0, <1>1 DEF RevTypes, V!Written
<1>3. vbatch[v] # "none" /\ (v = current => m = "current")
  BY <1>0, <1>1, LastIs DEF RevInv, PromotedFirst, CurrentInv, RevTypes
<1> QED BY <1>1, <1>2, <1>3, Writes

LEMMA RefreshStep == ASSUME RevInv, NEW v \in V!Versions, V!Refresh(v) \/ V!RefreshEnds(v) PROVE RevInv'
<1>0. RevTypes
  BY DEF RevInv
<1>1. UNCHANGED <<state, current, newest, vidx, vbatch, vwriter, vflying, repair, keys, raced, lost>>
  BY DEF V!Refresh, V!RefreshEnds, V!DocumentSame, V!VectorsSame, V!RepairSame
<1>2. CASE V!Refresh(v)
  <2>1. /\ refresh[v] = "pending" /\ refresh' = [refresh EXCEPT ![v] = "set"]
        /\ point' = [point EXCEPT ![v] = IF @ = "absent" THEN @ ELSE V!MarkerOf(v)]
    BY <1>2 DEF V!Refresh
  <2>2. V!MarkerOf(v) = IF v = current THEN "current" ELSE "superseded"
    BY DEF V!MarkerOf
  <2>3. RevTypes'
    BY <1>0, <1>1, <2>1, <2>2 DEF RevTypes
  <2>4. \A u \in V!Versions : /\ u # v => point'[u] = point[u] /\ refresh'[u] = refresh[u]
                              /\ point'[u] = "absent" <=> point[u] = "absent"
                              /\ u = current /\ point[u] = "current" => point'[u] = "current"
                              /\ u = v /\ u # current => point'[u] # "current"
                              /\ u = v /\ u = current => point'[u] # "superseded"
    BY <1>0, <2>1, <2>2 DEF RevTypes
  <2>5. current # V!Raw => current \in V!Versions
    BY <1>0, LastIs DEF RevTypes
  <2>6. PromotedFirst' /\ RepairInv'
    BY <1>1, <2>4 DEF RevInv, PromotedFirst, RepairInv
  <2>7. CurrentInv'
    BY <1>1, <2>4, <2>5 DEF RevInv, CurrentInv
  <2>8. V!IndexedIsServed'
    BY <1>1, <2>4, <2>5 DEF RevInv, V!IndexedIsServed, V!Requeued
  <2>9. V!OnlyRacesMislabel'
    BY <1>1, <2>4 DEF RevInv, V!OnlyRacesMislabel
  <2> QED BY <2>3, <2>6, <2>7, <2>8, <2>9 DEF RevInv
<1>3. CASE V!RefreshEnds(v)
  <2>1. /\ UNCHANGED point
        /\ \/ refresh[v] = "set" /\ refresh' = [refresh EXCEPT ![v] = "done"]
           \/ refresh[v] = "set" /\ refresh' = [refresh EXCEPT ![v] = "pending"]
           \/ refresh[v] \in {"pending", "set"} /\ refresh' = [refresh EXCEPT ![v] = "dead"]
    BY <1>3 DEF V!RefreshEnds, V!VectorsSame
  <2>2. RevTypes'
    BY <1>0, <1>1, <2>1 DEF RevTypes
  <2>3. \A u \in V!Versions : refresh[u] \in {"pending", "dead"} => refresh'[u] \in {"pending", "dead"}
    BY <1>0, <2>1 DEF RevTypes
  <2>4. PromotedFirst' /\ RepairInv' /\ CurrentInv'
    BY <1>1, <2>1 DEF RevInv, PromotedFirst, RepairInv, CurrentInv
  <2>5. V!IndexedIsServed'
    BY <1>1, <2>1 DEF RevInv, V!IndexedIsServed, V!Requeued
  <2>6. V!OnlyRacesMislabel'
    BY <1>1, <2>1, <2>3 DEF RevInv, V!OnlyRacesMislabel
  <2> QED BY <2>2, <2>4, <2>5, <2>6 DEF RevInv
<1> QED BY <1>2, <1>3

LEMMA UploadStep == ASSUME RevInv, V!Upload PROVE RevInv'
<1>0. RevTypes
  BY DEF RevInv
<1>1. /\ UNCHANGED <<current, vidx, vbatch, vwriter, point, vflying, refresh, repair, keys, raced, lost>>
      /\ state = "indexed" /\ newest < Last /\ state' = "uploaded" /\ newest' = newest + 1
  BY DEF V!Upload, V!VectorsSame, V!RepairSame
<1>2. newest \in 1..Last - 1 /\ newest' \in V!Versions
  BY <1>0, <1>1, LastIs DEF RevTypes
<1>3. current \in 0..newest'
  BY <1>0, <1>1, <1>2, LastIs DEF RevTypes
<1>4. RevTypes'
  BY <1>0, <1>1, <1>2, <1>3 DEF RevTypes, DocStates
<1>5. \A v \in V!Versions : v > newest' \/ (v = newest' /\ state' = "uploaded") => vidx[v] = "none"
  BY <1>1, <1>2, LastIs DEF RevInv, PromotedFirst
<1>6. PromotedFirst'
  BY <1>1, <1>5 DEF RevInv, PromotedFirst
<1>7. RepairInv' /\ CurrentInv'
  BY <1>1 DEF RevInv, RepairInv, CurrentInv
<1>8. V!IndexedIsServed' /\ V!OnlyRacesMislabel'
  BY <1>1 DEF RevInv, V!IndexedIsServed, V!OnlyRacesMislabel
<1> QED BY <1>4, <1>6, <1>7, <1>8 DEF RevInv

LEMMA PromoteStep == ASSUME RevInv, V!Promote PROVE RevInv'
<1>0. RevTypes /\ newest \in V!Versions /\ newest # V!Raw
  BY LastIs DEF RevInv, RevTypes
<1>1. /\ UNCHANGED <<newest, vbatch, vwriter, point, vflying, repair, keys, raced, lost>>
      /\ state = "uploaded" /\ state' = "converted" /\ current' = newest
      /\ vidx' = [vidx EXCEPT ![newest] = "pending"]
      /\ refresh' = [v \in V!Versions |-> IF v = current /\ vbatch[v] # "none" THEN "pending" ELSE refresh[v]]
  BY DEF V!Promote, V!Demoted, V!VectorsSame, V!RepairSame
<1>2. current' \in 0..newest'
  BY <1>0, <1>1, LastIs
<1>3. RevTypes'
  BY <1>0, <1>1, <1>2 DEF RevTypes, DocStates
<1>4. \A v \in V!Versions : vidx'[v] = IF v = newest THEN "pending" ELSE vidx[v]
  BY <1>0, <1>1 DEF RevTypes
<1>5. /\ vidx[newest] = "none" /\ vbatch[newest] = "none" /\ point[newest] = "absent"
      /\ vwriter[newest].at = "idle" /\ \A f \in vflying : f[1] # newest
  BY <1>0, <1>1 DEF RevInv, PromotedFirst
<1>6. PromotedFirst'
  <2>1. \A v \in V!Versions : v > newest => v # newest
    BY <1>0, LastIs
  <2> QED BY <1>0, <1>1, <1>4, <2>1 DEF RevInv, PromotedFirst
<1>7. CurrentInv'
  BY <1>1, <1>5 DEF CurrentInv
<1>8. RepairInv'
  BY <1>1, <1>4, <1>5, LastIs DEF RevInv, RepairInv
<1>9. V!IndexedIsServed'
  BY <1>1 DEF V!IndexedIsServed
<1>10. V!OnlyRacesMislabel'
  BY <1>1, <1>3 DEF RevInv, V!OnlyRacesMislabel, PromotedFirst
<1> QED BY <1>3, <1>6, <1>7, <1>8, <1>9, <1>10 DEF RevInv

LEMMA PublishByHandStep == ASSUME RevInv, V!PublishByHand PROVE RevInv'
<1>0. RevTypes
  BY DEF RevInv
<1>1. /\ UNCHANGED <<state, newest, vidx, vbatch, vwriter, point, vflying, refresh, repair, keys, lost>>
      /\ current' = V!Raw /\ raced' = raced \cup ({current} \ {V!Raw})
  BY DEF V!PublishByHand, V!RepairSame
<1>2. V!Raw \in 0..newest /\ V!Raw \notin V!Versions
  BY <1>0, LastIs DEF RevTypes
<1>3. RevTypes'
  BY <1>0, <1>1, <1>2 DEF RevTypes
<1>4. PromotedFirst' /\ CurrentInv' /\ V!IndexedIsServed'
  BY <1>1 DEF RevInv, PromotedFirst, CurrentInv, V!IndexedIsServed
<1>5. RepairInv'
  BY <1>1, <1>2 DEF RevInv, RepairInv
<1>6. V!OnlyRacesMislabel'
  BY <1>1, <1>2 DEF RevInv, V!OnlyRacesMislabel
<1> QED BY <1>3, <1>4, <1>5, <1>6 DEF RevInv

\* Steps of a repair that change nothing but what it has read.
LEMMA RepairReads ==
  ASSUME RevInv, RepairInv',
         UNCHANGED <<state, current, newest, vidx, vbatch, vwriter, point, vflying, refresh, keys, raced, lost>>
  PROVE  RevInv'
<1>1. RevTypes' /\ PromotedFirst' /\ CurrentInv'
  BY DEF RevInv, RevTypes, PromotedFirst, CurrentInv
<1>2. V!IndexedIsServed' /\ V!OnlyRacesMislabel'
  BY DEF RevInv, V!IndexedIsServed, V!Requeued, V!OnlyRacesMislabel
<1> QED BY <1>1, <1>2 DEF RevInv

LEMMA LookStep ==
  ASSUME RevInv, V!LoadInventory \/ V!ScrollPoints \/ V!LookForMissing \/ V!RepairFails PROVE RevInv'
<1>0. RevTypes /\ current \in V!Versions \cup {V!Raw}
  BY LastIs DEF RevInv, RevTypes
<1>1. UNCHANGED <<state, current, newest, vidx, vbatch, vwriter, point, vflying, refresh, keys, raced, lost>>
  BY DEF V!LoadInventory, V!ScrollPoints, V!LookForMissing, V!RepairFails, V!RepairStep, V!DocumentSame,
     V!VectorsSame
<1>2. CASE V!LoadInventory
  <2>1. /\ repair'.at = "scroll" /\ repair'.current = current
        /\ repair'.chunks = {v \in V!Versions : vbatch[v] # "none"}
    BY <1>2 DEF V!LoadInventory
  <2>2. RepairInv'
    BY <1>0, <1>1, <2>1 DEF RevInv, PromotedFirst, RepairInv
  <2> QED BY <1>1, <2>2, RepairReads
<1>3. CASE V!ScrollPoints
  <2>1. /\ repair.at = "scroll" /\ repair'.at = "missing" /\ repair'.current = repair.current
        /\ repair'.chunks = repair.chunks
        /\ repair'.stale = {v \in repair.chunks \ {repair.current} : point[v] = "current"}
    BY <1>3 DEF V!ScrollPoints
  <2>2. RepairInv'
    BY <1>1, <2>1 DEF RevInv, RepairInv
  <2> QED BY <1>1, <2>2, RepairReads
<1>4. CASE V!LookForMissing
  <2>1. /\ repair.at = "missing"
        /\ \/ repair'.at = "delete" /\ repair'.current = repair.current /\ repair'.stale = repair.stale
           \/ repair'.at = "idle"
    BY <1>4 DEF V!LookForMissing, V!IdleRepair
  <2>2. RepairInv'
    BY <1>1, <2>1 DEF RevInv, RepairInv
  <2> QED BY <1>1, <2>2, RepairReads
<1>5. CASE V!RepairFails
  <2>1. repair'.at = "idle"
    BY <1>5 DEF V!RepairFails, V!IdleRepair
  <2>2. RepairInv'
    BY <2>1 DEF RepairInv
  <2> QED BY <1>1, <2>2, RepairReads
<1> QED BY <1>2, <1>3, <1>4, <1>5

\* What a repair takes for stale is past for good; what it takes for strays is lost.
LEMMA DeleteCandidatesStep == ASSUME RevInv, V!DeleteCandidates PROVE RevInv'
<1>0. RevTypes
  BY DEF RevInv
<1> DEFINE dead == repair.stray \cup repair.stale
<1>1. /\ UNCHANGED <<state, current, newest, vidx, vbatch, vwriter, vflying, refresh, keys, raced>>
      /\ repair.at = "delete"
      /\ point' = [v \in V!Versions |-> IF v \in dead THEN "absent" ELSE point[v]]
      /\ lost' = lost \cup repair.stray
      /\ repair'.at = "requeue" /\ repair'.current = repair.current
  BY DEF V!DeleteCandidates, V!RepairStep, V!DocumentSame
<1>2. RevTypes'
  BY <1>0, <1>1 DEF RevTypes
<1>3. /\ current \notin repair.stale
      /\ \A v \in V!Versions : point'[v] = point[v] \/ (point'[v] = "absent" /\ v \in dead)
  BY <1>1 DEF RevInv, RepairInv
<1>4. current # V!Raw => current \in V!Versions
  BY <1>0, LastIs DEF RevTypes
<1>5. current # V!Raw /\ point[current] = "current" => point'[current] = "current" \/ current \in lost'
  BY <1>1, <1>3, <1>4
<1>6. PromotedFirst'
  BY <1>1, <1>3 DEF RevInv, PromotedFirst
<1>7. CurrentInv'
  BY <1>1, <1>3, <1>4, <1>5 DEF RevInv, CurrentInv
<1>8. V!IndexedIsServed'
  BY <1>1, <1>5 DEF RevInv, V!IndexedIsServed, V!Requeued
<1>9. V!OnlyRacesMislabel'
  BY <1>1, <1>3 DEF RevInv, V!OnlyRacesMislabel
<1>10. RepairInv'
  BY <1>1 DEF RevInv, RepairInv
<1> QED BY <1>2, <1>6, <1>7, <1>8, <1>9, <1>10 DEF RevInv

LEMMA RequeueStep == ASSUME RevInv, V!Requeue PROVE RevInv'
<1>0. RevTypes
  BY DEF RevInv
<1> DEFINE pair == <<repair.current, repair.absent>>
           anew == repair.current # V!Raw /\ repair.absent # {} /\ pair \notin keys
<1>1. /\ UNCHANGED <<state, current, newest, vidx, vwriter, point, vflying, refresh, raced, lost>>
      /\ repair.at = "requeue" /\ repair' = V!IdleRepair
      /\ keys' = IF anew THEN keys \cup {pair} ELSE keys
      /\ vbatch' = [v \in V!Versions |-> IF anew /\ v = repair.current THEN "pending" ELSE vbatch[v]]
  BY DEF V!Requeue, V!RepairStep, V!DocumentSame, V!VectorsSame
<1>2. pair[1] = repair.current
  OBVIOUS
<1> HIDE DEF pair
<1>3. anew => repair.current \in V!Versions /\ vidx[repair.current] # "none"
  BY <1>1 DEF RevInv, RepairInv
<1>4. /\ \A u \in V!Versions : vbatch'[u] = vbatch[u] \/ (vbatch'[u] = "pending" /\ anew /\ u = repair.current)
      /\ keys \subseteq keys' /\ (anew => pair \in keys')
  BY <1>1
<1>5. RevTypes'
  BY <1>0, <1>1 DEF RevTypes
<1> HIDE DEF anew
<1>6. \A u \in V!Versions : V!Requeued(u) \/ (anew /\ u = repair.current) => V!Requeued(u)'
  BY <1>2, <1>4 DEF V!Requeued
<1>7. current # V!Raw => current \in V!Versions
  BY <1>0, LastIs DEF RevTypes
<1>8. PromotedFirst'
  <2>1. \A f \in vflying : f[1] \in V!Versions
    BY <1>0 DEF RevTypes
  <2> QED BY <1>1, <1>3, <1>4, <2>1 DEF RevInv, PromotedFirst
<1>9. CurrentInv'
  BY <1>1, <1>4, <1>7 DEF RevInv, CurrentInv
<1>10. V!IndexedIsServed'
  <2>1. SUFFICES ASSUME state = "indexed", current # V!Raw, NEW u \in V!Versions, u = current
                 PROVE  /\ vidx[u] = "done" /\ (vbatch'[u] = "done" \/ V!Requeued(u)')
                        /\ vbatch'[u] = "done" => point[u] = "current" \/ u \in lost
    BY <1>1, <1>7 DEF V!IndexedIsServed, V!Requeued
  <2>2. /\ vidx[u] = "done" /\ (vbatch[u] = "done" \/ V!Requeued(u))
        /\ vbatch[u] = "done" => point[u] = "current" \/ u \in lost
    BY <2>1 DEF RevInv, V!IndexedIsServed
  <2> QED BY <1>4, <1>6, <2>2
<1>11. V!OnlyRacesMislabel'
  BY <1>1 DEF RevInv, V!OnlyRacesMislabel
<1>12. RepairInv'
  BY <1>1 DEF RepairInv, V!IdleRepair
<1> QED BY <1>5, <1>8, <1>9, <1>10, <1>11, <1>12 DEF RevInv

LEMMA RevStep == ASSUME RevInv, [MCNext]_<<part, vars, cvars, ivars, qvars, evars, vvars>> PROVE RevInv'
<1>1. CASE UNCHANGED vvars
  <2>1. UNCHANGED <<state, current, newest, vidx, vbatch, vwriter, point, vflying, refresh, repair, keys,
                    raced, lost>>
    BY <1>1 DEF vvars
  <2>2. RepairInv'
    BY <2>1 DEF RevInv, RepairInv
  <2> QED BY <2>1, <2>2, RepairReads
<1>2. CASE V!Next
  <2>1. CASE V!Upload \/ V!Promote \/ V!PublishByHand
    BY <2>1, UploadStep, PromoteStep, PublishByHandStep
  <2>2. ASSUME NEW v \in V!Versions,
               \/ V!Begin(v) \/ V!Replay(v) \/ V!Enter(v) \/ V!Persist(v) \/ V!Finish(v)
               \/ V!Retried(v) \/ V!Dies(v)
               \/ V!Fence(v) \/ V!Upsert(v) \/ V!Abandon(v) \/ V!Complete(v) \/ V!BatchDies(v)
               \/ V!Refresh(v) \/ V!RefreshEnds(v)
               \/ \E m \in {"current", "superseded"} : V!LateUpsert(v, m)
        PROVE  RevInv'
    BY <2>2, IndexStep, FinishStep, FenceStep, UpsertStep, AbandonStep, CompleteStep, BatchDiesStep,
       RefreshStep, LateUpsertStep
  <2>3. CASE V!LoadInventory \/ V!ScrollPoints \/ V!LookForMissing \/ V!RepairFails
    BY <2>3, LookStep
  <2>4. CASE V!DeleteCandidates \/ V!Requeue
    BY <2>4, DeleteCandidatesStep, RequeueStep
  <2> QED BY <1>2, <2>1, <2>2, <2>3, <2>4 DEF V!Next
<1> QED BY <1>1, <1>2 DEF MCNext

LEMMA RevisionsHold == MCSpec => []RevInv
  BY RevInit, RevStep, PTL DEF MCSpec

\* For any number of versions: the version of an indexed document is embedded and
\* marked current, and no other is but for the races that `raced` names.
THEOREM SearchSeesTheCurrent == MCSpec => []SearchFollowsVersions
<1>1. RevInv => SearchFollowsVersions
  BY DEF RevInv, SearchFollowsVersions, V!SearchFollowsVersions
<1> QED BY <1>1, RevisionsHold, PTL

(***************************************************************************)
(* The quota ledger.  Its invariant is proved in QuotaProofs; the ledgers   *)
(* of uploads and of answers are two instances of it.                       *)
(***************************************************************************)

PU == INSTANCE QuotaProofs WITH Answers <- {}, Limit <- Quota
PA == INSTANCE QuotaProofs WITH Uploads <- {}, Limit <- Quota

LEMMA UploadsSums ==
  /\ QU!Kinds = PU!Kinds /\ QU!Months = PU!Months /\ QU!Keys = PU!Keys
  /\ \A floor, some : QU!Beyond(floor, some) = PU!Beyond(floor, some)
  /\ \A some : QU!Amount(some) = PU!Amount(some)
  /\ \A k, t : QU!PeriodOf(k, t) = PU!PeriodOf(k, t)
  /\ \A k, t : QU!ReservedAt(k, t) = PU!ReservedAt(k, t)
  /\ \A k : QU!Held(k) = PU!Held(k)
<1>1. \A floor, some : QU!Beyond(floor, some) = PU!Beyond(floor, some)
  BY DEF QU!Beyond, PU!Beyond, QU!Cardinality, PU!Cardinality
<1>2. \A some : QU!Amount(some) = PU!Amount(some)
  BY <1>1 DEF QU!Amount, PU!Amount
<1>3. QU!Keys = PU!Keys
  BY DEF QU!Keys, PU!Keys, QU!Subjects, PU!Subjects, QU!KindsOf, PU!KindsOf, QU!Kinds, PU!Kinds
<1>4. ASSUME NEW k, NEW t PROVE QU!ReservedAt(k, t) = PU!ReservedAt(k, t)
  <2>1. {key \in QU!Keys : key[2] = k /\ QU!LiveAt(key, t)} = {key \in PU!Keys : key[2] = k /\ PU!LiveAt(key, t)}
    BY <1>3 DEF QU!LiveAt, PU!LiveAt
  <2> QED BY <1>2, <2>1 DEF QU!ReservedAt, PU!ReservedAt
<1>5. ASSUME NEW k PROVE QU!Held(k) = PU!Held(k)
  BY <1>2, <1>3 DEF QU!Held, PU!Held
<1>6. \A k, t : QU!PeriodOf(k, t) = PU!PeriodOf(k, t)
  BY DEF QU!PeriodOf, PU!PeriodOf
<1>7. QU!Kinds = PU!Kinds /\ QU!Months = PU!Months
  BY DEF QU!Kinds, PU!Kinds, QU!Months, PU!Months, QU!PeriodOf, PU!PeriodOf
<1> QED BY <1>1, <1>2, <1>3, <1>4, <1>5, <1>6, <1>7

LEMMA UploadsSeen == \A c, k : QU!Seen(c, k) = PU!Seen(c, k)
BY UploadsSums DEF QU!Seen, PU!Seen

LEMMA UploadsMoves == QU!Next => PU!Next
<1> SUFFICES ASSUME QU!Next PROVE PU!Next
  OBVIOUS
<1>1. CASE QU!Sweep
  <2>1. PU!Sweep
    BY <1>1 DEF QU!Sweep, PU!Sweep, QU!DueAt, PU!DueAt, QU!Keys, PU!Keys, QU!Subjects,
      PU!Subjects, QU!KindsOf, PU!KindsOf, QU!Kinds, PU!Kinds
  <2> QED BY <2>1 DEF PU!Next
<1>2. CASE QU!Tick
  <2>1. PU!Tick
    BY <1>2 DEF QU!Tick, PU!Tick
  <2> QED BY <2>1 DEF PU!Next
<1>3. ASSUME NEW u \in Uploads, QU!DeleteDocument(u) PROVE PU!Next
  <2>1. PU!DeleteDocument(u)
    BY <1>3 DEF QU!DeleteDocument, PU!DeleteDocument, QU!KindsOf, PU!KindsOf
  <2> QED BY <2>1 DEF PU!Next
<1>4. ASSUME NEW c \in Callers, NEW op \in {"reserve", "finalize", "refund"},
             NEW s \in QU!Subjects, QU!Begin(c, op, s)
      PROVE  PU!Next
  <2>1. PU!Begin(c, op, s) /\ s \in PU!Subjects
    BY <1>4 DEF QU!Begin, PU!Begin, QU!KindsOf, PU!KindsOf, QU!Unread, PU!Unread, QU!Subjects,
      PU!Subjects
  <2> QED BY <2>1 DEF PU!Next
<1>5. ASSUME NEW c \in Callers, QU!BeginReconcile(c) PROVE PU!Next
  <2>1. PU!BeginReconcile(c)
    BY <1>5 DEF QU!BeginReconcile, PU!BeginReconcile, QU!Unread, PU!Unread
  <2> QED BY <2>1 DEF PU!Next
<1>6. ASSUME NEW c \in Callers, QU!Admit(c) PROVE PU!Next
  <2>1. PU!Admit(c)
    BY <1>6 DEF QU!Admit, PU!Admit, QU!Locks, PU!Locks, QU!ObservedAt, PU!ObservedAt, QU!Kinds,
      PU!Kinds
  <2> QED BY <2>1 DEF PU!Next
<1>7. ASSUME NEW c \in Callers, QU!Look(c) PROVE PU!Next
  <2>1. [k \in call[c].kinds |-> QU!Seen(c, k)] = [k \in call[c].kinds |-> PU!Seen(c, k)]
    BY UploadsSeen
  <2>2. PU!Look(c)
    BY <1>7, <2>1 DEF QU!Look, PU!Look
  <2> QED BY <2>2 DEF PU!Next
<1>8. ASSUME NEW c \in Callers, QU!RollBack(c) PROVE PU!Next
  <2>1. PU!RollBack(c)
    BY <1>8 DEF QU!RollBack, PU!RollBack, QU!Ends, PU!Ends, QU!Released, PU!Released, QU!Idle,
      PU!Idle, QU!Unread, PU!Unread, QU!Kinds, PU!Kinds
  <2> QED BY <2>1 DEF PU!Next
<1>9. ASSUME NEW c \in Callers, QU!Reserve(c) PROVE PU!Next
  <2>1. PU!Reserve(c)
    BY <1>9 DEF QU!Reserve, PU!Reserve, QU!KeysOf, PU!KeysOf, QU!Fits, PU!Fits, QU!AmountOf,
      PU!AmountOf, QU!Keys, PU!Keys, QU!Subjects, PU!Subjects, QU!KindsOf, PU!KindsOf,
      QU!Kinds, PU!Kinds, QU!Ends, PU!Ends, QU!Released, PU!Released, QU!Idle, PU!Idle,
      QU!Unread, PU!Unread
  <2> QED BY <2>1 DEF PU!Next
<1>10. ASSUME NEW c \in Callers, QU!Finalize(c) PROVE PU!Next
  <2>1. PU!Finalize(c)
    BY <1>10, Zenon DEF QU!Finalize, PU!Finalize, QU!ToFinalize, PU!ToFinalize, QU!KeysOf, PU!KeysOf,
      QU!LiveAt, PU!LiveAt, QU!DueAt, PU!DueAt, QU!PeriodOf, PU!PeriodOf, QU!Months, PU!Months,
      QU!Keys, PU!Keys, QU!Subjects, PU!Subjects, QU!KindsOf, PU!KindsOf, QU!Kinds, PU!Kinds,
      QU!Ends, PU!Ends, QU!Released, PU!Released, QU!Idle, PU!Idle, QU!Unread, PU!Unread
  <2> QED BY <2>1 DEF PU!Next
<1>11. ASSUME NEW c \in Callers, QU!RefundReservation(c) PROVE PU!Next
  <2>1. PU!RefundReservation(c)
    BY <1>11 DEF QU!RefundReservation, PU!RefundReservation, QU!KeysOf, PU!KeysOf, QU!LiveAt,
      PU!LiveAt, QU!DueAt, PU!DueAt, QU!Keys, PU!Keys, QU!Subjects, PU!Subjects, QU!KindsOf,
      PU!KindsOf, QU!Kinds, PU!Kinds, QU!Ends, PU!Ends, QU!Released, PU!Released, QU!Idle,
      PU!Idle, QU!Unread, PU!Unread
  <2> QED BY <2>1 DEF PU!Next
<1>12. ASSUME NEW c \in Callers, QU!Reconcile(c) PROVE PU!Next
  <2>1. PU!Reconcile(c)
    BY <1>12 DEF QU!Reconcile, PU!Reconcile, QU!Kinds, PU!Kinds, QU!Ends, PU!Ends, QU!Released,
      PU!Released, QU!Idle, PU!Idle, QU!Unread, PU!Unread
  <2> QED BY <2>1 DEF PU!Next
<1> QED BY <1>1, <1>2, <1>3, <1>4, <1>5, <1>6, <1>7, <1>8, <1>9, <1>10, <1>11, <1>12 DEF QU!Next

UploadsInv == part = "uploads" => PU!IInv

LEMMA UploadsAssumed == PU!QuotaAssumption
BY InstancesAssumption DEF QU!QuotaAssumption, PU!QuotaAssumption, QU!IsFiniteSet, PU!IsFiniteSet,
  QU!Kinds, PU!Kinds

LEMMA UploadsInit == MCInit => UploadsInv
<1> SUFFICES ASSUME MCInit, part = "uploads" PROVE PU!IInv
  BY DEF UploadsInv
<1>1. QU!Init
  BY DEF MCInit
<1>2. PU!Init
  BY <1>1 DEF QU!Init, PU!Init, QU!Keys, PU!Keys, QU!Subjects, PU!Subjects, QU!KindsOf,
    PU!KindsOf, QU!Kinds, PU!Kinds, QU!Months, PU!Months, QU!PeriodOf, PU!PeriodOf,
    QU!Idle, PU!Idle, QU!Unread, PU!Unread
<1> QED BY <1>2, UploadsAssumed, PU!InvariantInit

LEMMA UploadsStep ==
  UploadsInv /\ [MCNext]_<<part, vars, cvars, ivars, qvars, evars, vvars>> => UploadsInv'
<1> SUFFICES ASSUME UploadsInv, [MCNext]_<<part, vars, cvars, ivars, qvars, evars, vvars>>, part' = "uploads"
             PROVE  PU!IInv'
  BY DEF UploadsInv
<1>1. part = "uploads" /\ PU!IInv
  BY DEF MCNext, UploadsInv
<1>2. PU!Next \/ UNCHANGED PU!vars
  BY <1>1, UploadsMoves DEF MCNext, qvars, PU!vars
<1>3. CASE PU!Next
  BY <1>1, <1>3, UploadsAssumed, PU!InvariantStep
<1>4. CASE UNCHANGED PU!vars
  BY <1>1, <1>4, UploadsAssumed, PU!InvariantStutters
<1> QED BY <1>2, <1>3, <1>4

LEMMA UploadsSuffice ==
  UploadsInv /\ part = "uploads" => QU!NeverOverAdmitted /\ QU!EverythingIsCounted /\ QU!UploadsSettleTogether
<1> SUFFICES ASSUME PU!IInv PROVE QU!NeverOverAdmitted /\ QU!EverythingIsCounted /\ QU!UploadsSettleTogether
  BY DEF UploadsInv
<1>1. PU!NeverOverAdmitted /\ PU!EverythingIsCounted /\ PU!UploadsSettleTogether
  BY UploadsAssumed, PU!InvariantSuffices
<1>2. \A k, m : QU!Finals(k, m) = PU!Finals(k, m)
  BY UploadsSums DEF QU!Finals, PU!Finals
<1>3. \A k : QU!AmountOf(k) = PU!AmountOf(k)
  BY DEF QU!AmountOf, PU!AmountOf
<1>4. QU!NeverOverAdmitted /\ QU!EverythingIsCounted
  BY <1>1, <1>2, <1>3, UploadsSums DEF QU!NeverOverAdmitted, PU!NeverOverAdmitted,
    QU!EverythingIsCounted, PU!EverythingIsCounted
<1>5. ASSUME NEW u \in Uploads
      PROVE  res[<<u, "documents">>].status = "finalized" <=> res[<<u, "storage_bytes">>].status = "finalized"
  BY <1>1 DEF PU!UploadsSettleTogether
<1> QED BY <1>4, <1>5 DEF QU!UploadsSettleTogether

LEMMA AnswersSums ==
  /\ QT!Kinds = PA!Kinds /\ QT!Months = PA!Months /\ QT!Keys = PA!Keys
  /\ \A floor, some : QT!Beyond(floor, some) = PA!Beyond(floor, some)
  /\ \A some : QT!Amount(some) = PA!Amount(some)
  /\ \A k, t : QT!PeriodOf(k, t) = PA!PeriodOf(k, t)
  /\ \A k, t : QT!ReservedAt(k, t) = PA!ReservedAt(k, t)
  /\ \A k : QT!Held(k) = PA!Held(k)
<1>1. \A floor, some : QT!Beyond(floor, some) = PA!Beyond(floor, some)
  BY DEF QT!Beyond, PA!Beyond, QT!Cardinality, PA!Cardinality
<1>2. \A some : QT!Amount(some) = PA!Amount(some)
  BY <1>1 DEF QT!Amount, PA!Amount
<1>3. QT!Keys = PA!Keys
  BY DEF QT!Keys, PA!Keys, QT!Subjects, PA!Subjects, QT!KindsOf, PA!KindsOf, QT!Kinds, PA!Kinds
<1>4. ASSUME NEW k, NEW t PROVE QT!ReservedAt(k, t) = PA!ReservedAt(k, t)
  <2>1. {key \in QT!Keys : key[2] = k /\ QT!LiveAt(key, t)} = {key \in PA!Keys : key[2] = k /\ PA!LiveAt(key, t)}
    BY <1>3 DEF QT!LiveAt, PA!LiveAt
  <2> QED BY <1>2, <2>1 DEF QT!ReservedAt, PA!ReservedAt
<1>5. ASSUME NEW k PROVE QT!Held(k) = PA!Held(k)
  BY <1>2, <1>3 DEF QT!Held, PA!Held
<1>6. \A k, t : QT!PeriodOf(k, t) = PA!PeriodOf(k, t)
  BY DEF QT!PeriodOf, PA!PeriodOf
<1>7. QT!Kinds = PA!Kinds /\ QT!Months = PA!Months
  BY DEF QT!Kinds, PA!Kinds, QT!Months, PA!Months, QT!PeriodOf, PA!PeriodOf
<1> QED BY <1>1, <1>2, <1>3, <1>4, <1>5, <1>6, <1>7

LEMMA AnswersSeen == \A c, k : QT!Seen(c, k) = PA!Seen(c, k)
BY AnswersSums DEF QT!Seen, PA!Seen

LEMMA AnswersMoves == QT!Next => PA!Next
<1> SUFFICES ASSUME QT!Next PROVE PA!Next
  OBVIOUS
<1>1. CASE QT!Sweep
  <2>1. PA!Sweep
    BY <1>1 DEF QT!Sweep, PA!Sweep, QT!DueAt, PA!DueAt, QT!Keys, PA!Keys, QT!Subjects,
      PA!Subjects, QT!KindsOf, PA!KindsOf, QT!Kinds, PA!Kinds
  <2> QED BY <2>1 DEF PA!Next
<1>2. CASE QT!Tick
  <2>1. PA!Tick
    BY <1>2 DEF QT!Tick, PA!Tick
  <2> QED BY <2>1 DEF PA!Next
<1>3. ASSUME NEW u \in {}, QT!DeleteDocument(u) PROVE PA!Next
  <2>1. PA!DeleteDocument(u)
    BY <1>3 DEF QT!DeleteDocument, PA!DeleteDocument, QT!KindsOf, PA!KindsOf
  <2> QED BY <2>1 DEF PA!Next
<1>4. ASSUME NEW c \in Callers, NEW op \in {"reserve", "finalize", "refund"},
             NEW s \in QT!Subjects, QT!Begin(c, op, s)
      PROVE  PA!Next
  <2>1. PA!Begin(c, op, s) /\ s \in PA!Subjects
    BY <1>4 DEF QT!Begin, PA!Begin, QT!KindsOf, PA!KindsOf, QT!Unread, PA!Unread, QT!Subjects,
      PA!Subjects
  <2> QED BY <2>1 DEF PA!Next
<1>5. ASSUME NEW c \in Callers, QT!BeginReconcile(c) PROVE PA!Next
  <2>1. PA!BeginReconcile(c)
    BY <1>5 DEF QT!BeginReconcile, PA!BeginReconcile, QT!Unread, PA!Unread
  <2> QED BY <2>1 DEF PA!Next
<1>6. ASSUME NEW c \in Callers, QT!Admit(c) PROVE PA!Next
  <2>1. PA!Admit(c)
    BY <1>6 DEF QT!Admit, PA!Admit, QT!Locks, PA!Locks, QT!ObservedAt, PA!ObservedAt, QT!Kinds,
      PA!Kinds
  <2> QED BY <2>1 DEF PA!Next
<1>7. ASSUME NEW c \in Callers, QT!Look(c) PROVE PA!Next
  <2>1. [k \in call[c].kinds |-> QT!Seen(c, k)] = [k \in call[c].kinds |-> PA!Seen(c, k)]
    BY AnswersSeen
  <2>2. PA!Look(c)
    BY <1>7, <2>1 DEF QT!Look, PA!Look
  <2> QED BY <2>2 DEF PA!Next
<1>8. ASSUME NEW c \in Callers, QT!RollBack(c) PROVE PA!Next
  <2>1. PA!RollBack(c)
    BY <1>8 DEF QT!RollBack, PA!RollBack, QT!Ends, PA!Ends, QT!Released, PA!Released, QT!Idle,
      PA!Idle, QT!Unread, PA!Unread, QT!Kinds, PA!Kinds
  <2> QED BY <2>1 DEF PA!Next
<1>9. ASSUME NEW c \in Callers, QT!Reserve(c) PROVE PA!Next
  <2>1. PA!Reserve(c)
    BY <1>9 DEF QT!Reserve, PA!Reserve, QT!KeysOf, PA!KeysOf, QT!Fits, PA!Fits, QT!AmountOf,
      PA!AmountOf, QT!Keys, PA!Keys, QT!Subjects, PA!Subjects, QT!KindsOf, PA!KindsOf,
      QT!Kinds, PA!Kinds, QT!Ends, PA!Ends, QT!Released, PA!Released, QT!Idle, PA!Idle,
      QT!Unread, PA!Unread
  <2> QED BY <2>1 DEF PA!Next
<1>10. ASSUME NEW c \in Callers, QT!Finalize(c) PROVE PA!Next
  <2>1. PA!Finalize(c)
    BY <1>10, Zenon DEF QT!Finalize, PA!Finalize, QT!ToFinalize, PA!ToFinalize, QT!KeysOf, PA!KeysOf,
      QT!LiveAt, PA!LiveAt, QT!DueAt, PA!DueAt, QT!PeriodOf, PA!PeriodOf, QT!Months, PA!Months,
      QT!Keys, PA!Keys, QT!Subjects, PA!Subjects, QT!KindsOf, PA!KindsOf, QT!Kinds, PA!Kinds,
      QT!Ends, PA!Ends, QT!Released, PA!Released, QT!Idle, PA!Idle, QT!Unread, PA!Unread
  <2> QED BY <2>1 DEF PA!Next
<1>11. ASSUME NEW c \in Callers, QT!RefundReservation(c) PROVE PA!Next
  <2>1. PA!RefundReservation(c)
    BY <1>11 DEF QT!RefundReservation, PA!RefundReservation, QT!KeysOf, PA!KeysOf, QT!LiveAt,
      PA!LiveAt, QT!DueAt, PA!DueAt, QT!Keys, PA!Keys, QT!Subjects, PA!Subjects, QT!KindsOf,
      PA!KindsOf, QT!Kinds, PA!Kinds, QT!Ends, PA!Ends, QT!Released, PA!Released, QT!Idle,
      PA!Idle, QT!Unread, PA!Unread
  <2> QED BY <2>1 DEF PA!Next
<1>12. ASSUME NEW c \in Callers, QT!Reconcile(c) PROVE PA!Next
  <2>1. PA!Reconcile(c)
    BY <1>12 DEF QT!Reconcile, PA!Reconcile, QT!Kinds, PA!Kinds, QT!Ends, PA!Ends, QT!Released,
      PA!Released, QT!Idle, PA!Idle, QT!Unread, PA!Unread
  <2> QED BY <2>1 DEF PA!Next
<1> QED BY <1>1, <1>2, <1>3, <1>4, <1>5, <1>6, <1>7, <1>8, <1>9, <1>10, <1>11, <1>12 DEF QT!Next

AnswersInv == part = "answers" => PA!IInv

LEMMA AnswersAssumed == PA!QuotaAssumption
BY InstancesAssumption DEF QT!QuotaAssumption, PA!QuotaAssumption, QT!IsFiniteSet, PA!IsFiniteSet,
  QT!Kinds, PA!Kinds

LEMMA AnswersInit == MCInit => AnswersInv
<1> SUFFICES ASSUME MCInit, part = "answers" PROVE PA!IInv
  BY DEF AnswersInv
<1>1. QT!Init
  BY DEF MCInit
<1>2. PA!Init
  BY <1>1 DEF QT!Init, PA!Init, QT!Keys, PA!Keys, QT!Subjects, PA!Subjects, QT!KindsOf,
    PA!KindsOf, QT!Kinds, PA!Kinds, QT!Months, PA!Months, QT!PeriodOf, PA!PeriodOf,
    QT!Idle, PA!Idle, QT!Unread, PA!Unread
<1> QED BY <1>2, AnswersAssumed, PA!InvariantInit

LEMMA AnswersStep ==
  AnswersInv /\ [MCNext]_<<part, vars, cvars, ivars, qvars, evars, vvars>> => AnswersInv'
<1> SUFFICES ASSUME AnswersInv, [MCNext]_<<part, vars, cvars, ivars, qvars, evars, vvars>>, part' = "answers"
             PROVE  PA!IInv'
  BY DEF AnswersInv
<1>1. part = "answers" /\ PA!IInv
  BY DEF MCNext, AnswersInv
<1>2. PA!Next \/ UNCHANGED PA!vars
  BY <1>1, AnswersMoves DEF MCNext, qvars, PA!vars
<1>3. CASE PA!Next
  BY <1>1, <1>3, AnswersAssumed, PA!InvariantStep
<1>4. CASE UNCHANGED PA!vars
  BY <1>1, <1>4, AnswersAssumed, PA!InvariantStutters
<1> QED BY <1>2, <1>3, <1>4

LEMMA AnswersSuffice ==
  AnswersInv /\ part = "answers" => QT!NeverOverAdmitted /\ QT!EverythingIsCounted
<1> SUFFICES ASSUME PA!IInv PROVE QT!NeverOverAdmitted /\ QT!EverythingIsCounted
  BY DEF AnswersInv
<1>1. PA!NeverOverAdmitted /\ PA!EverythingIsCounted /\ PA!UploadsSettleTogether
  BY AnswersAssumed, PA!InvariantSuffices
<1>2. \A k, m : QT!Finals(k, m) = PA!Finals(k, m)
  BY AnswersSums DEF QT!Finals, PA!Finals
<1>3. \A k : QT!AmountOf(k) = PA!AmountOf(k)
  BY DEF QT!AmountOf, PA!AmountOf
<1>4. QT!NeverOverAdmitted /\ QT!EverythingIsCounted
  BY <1>1, <1>2, <1>3, AnswersSums DEF QT!NeverOverAdmitted, PA!NeverOverAdmitted,
    QT!EverythingIsCounted, PA!EverythingIsCounted
<1> QED BY <1>1, <1>4

\* No organisation is admitted beyond its limit, in documents, bytes or tokens, by any
\* number of transactions that wait for the lock while reservations expire and months end
\* (services/quota.rs, db/quota.rs).
THEOREM NobodyIsOverAdmitted == MCSpec => []NeverOverAdmitted
<1>1. UploadsInv /\ AnswersInv => NeverOverAdmitted
  BY UploadsSuffice, AnswersSuffice DEF NeverOverAdmitted
<1> QED BY <1>1, UploadsInit, UploadsStep, AnswersInit, AnswersStep, PTL DEF MCSpec

\* No settlement is lost beside another and no repair of the counters forgets an upload:
\* for any number of them, tokens are counted to the token, documents and bytes never below
\* what is there, and an upload is charged for both or for neither.
THEOREM NothingGoesUncounted == MCSpec => []EverythingIsCounted
<1>1. UploadsInv /\ AnswersInv => EverythingIsCounted
  BY UploadsSuffice, AnswersSuffice DEF EverythingIsCounted
<1> QED BY <1>1, UploadsInit, UploadsStep, AnswersInit, AnswersStep, PTL DEF MCSpec

=============================================================================

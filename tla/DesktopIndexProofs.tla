------------------------- MODULE DesktopIndexProofs -------------------------
(***************************************************************************)
(* What a search of the desktop application uses is of one plan and of one  *)
(* time, for any number of commands, documents, texts and plans.            *)
(***************************************************************************)
EXTENDS DesktopIndex, TLAPS

Preparing(p) == job[p].at \in {"loaded", "adds", "replaces"}

\* A command that is not idle has documents, and one that replaces has all of them to write.
WorkOf(p) ==
    /\ Preparing(p) => job[p].texts # Empty /\ job[p].changed \subseteq Chosen(p)
    /\ job[p].at = "replaces" => job[p].changed # {}
    /\ job[p].at = "idle" => job[p].changed = {}
HasWork == \A p \in Procs : WorkOf(p)

\* What was prepared fits the index as long as nobody else has committed.
FitsIndex ==
    \A p \in Procs :
        job[p].at = "adds" /\ p \notin moved =>
            \/ meta = job[p].plan
            \/ store = Empty /\ job[p].changed # {}

\* Whoever changed the index last, and has not built yet.
Owes(p) == Committed(p) /\ job[p].changed # {} /\ job[p].plan = meta

AnnFollows == ann[meta] \in {None, store} \/ blame # {} \/ \E p \in Procs : Owes(p)

IInv == TypeOK /\ HasWork /\ FitsIndex /\ OnePlan /\ AnnFollows

-----------------------------------------------------------------------------
\* The fields of a command may change together, each within its own set.
LEMMA JobStep ==
    ASSUME job \in [Procs -> Jobs], NEW p \in Procs, NEW a \in Steps
    PROVE  /\ [job EXCEPT ![p].at = a] \in [Procs -> Jobs]
           /\ [job EXCEPT ![p].at = a, ![p].texts = Empty] \in [Procs -> Jobs]
<1>1. Empty \in [Docs -> Texts \cup {None}]
  BY DEF Empty
<1>2. [job EXCEPT ![p].at = a] \in [Procs -> Jobs]
  BY DEF Jobs
<1>3. [job EXCEPT ![p].at = a, ![p].texts = Empty] \in [Procs -> Jobs]
  BY <1>1 DEF Jobs
<1> QED BY <1>2, <1>3

LEMMA LoadStep ==
    ASSUME job \in [Procs -> Jobs], NEW p \in Procs, NEW a \in Steps, NEW s \in Plans,
           NEW t \in [Docs -> Texts \cup {None}]
    PROVE  [job EXCEPT ![p].at = a, ![p].plan = s, ![p].texts = t] \in [Procs -> Jobs]
BY ZenonT(60) DEF Jobs

LEMMA PrepareStep ==
    ASSUME job \in [Procs -> Jobs], NEW p \in Procs, NEW a \in Steps, NEW c \in SUBSET Docs
    PROVE  /\ [job EXCEPT ![p].at = a, ![p].changed = c] \in [Procs -> Jobs]
           /\ \A s \in Plans :
                [job EXCEPT ![p].at = a, ![p].plan = s, ![p].changed = c] \in [Procs -> Jobs]
BY DEF Jobs

LEMMA PointsStep ==
    ASSUME job \in [Procs -> Jobs], NEW p \in Procs, NEW a \in Steps, NEW rows \in Tables
    PROVE  [job EXCEPT ![p].at = a, ![p].points = rows] \in [Procs -> Jobs]
BY DEF Jobs

\* An idle command holds nothing.
LEMMA NoJobType == ASSUME DesktopAssumption PROVE NoJob \in Jobs
BY DEF DesktopAssumption, NoJob, Jobs, Steps, Empty, Tables

\* The types hold at first and stay.
LEMMA TypeInit == ASSUME DesktopAssumption, Init PROVE TypeOK
BY NoJobType DEF DesktopAssumption, Init, TypeOK, Tables, Empty

LEMMA TypeStep == ASSUME DesktopAssumption, TypeOK, HasWork, [Next]_vars PROVE TypeOK'
<1>1. CASE UNCHANGED vars
  BY <1>1 DEF vars, TypeOK
<1>2. ASSUME NEW p \in Procs, NEW s \in Plans, NEW texts \in [Docs -> Texts \cup {None}],
             Load(p, s, texts)
      PROVE  TypeOK'
  <2>1. "loaded" \in Steps
    BY DEF Steps
  <2> QED BY <1>2, <2>1, LoadStep DEF Load, TypeOK
<1>3. ASSUME NEW p \in Procs, Prepare(p) PROVE TypeOK'
  <2> DEFINE clears == store # Empty /\ meta # job[p].plan
             a == IF clears THEN "replaces" ELSE "adds"
             c == {d \in Chosen(p) : clears \/ store[d] # Row(p, d)}
  <2>1. a \in Steps /\ c \in SUBSET Docs
    BY DEF Steps, Chosen
  <2>2. job' = [job EXCEPT ![p].at = a, ![p].changed = c]
    BY <1>3 DEF Prepare
  <2> HIDE DEF a, c
  <2>3. job' \in [Procs -> Jobs]
    BY <2>1, <2>2, PrepareStep DEF TypeOK
  <2> QED BY <1>3, <2>3 DEF Prepare, TypeOK
<1>4. ASSUME NEW p \in Procs, FallBack(p) PROVE TypeOK'
  <2>1. "loaded" \in Steps /\ Local \in Plans
    BY DEF Steps, DesktopAssumption
  <2> QED BY <1>4, <2>1, PrepareStep DEF FallBack, TypeOK
<1>5. ASSUME NEW p \in Procs, Commit(p) PROVE TypeOK'
  <2> DEFINE a == IF job[p].at = "replaces" THEN "clears" ELSE "looks"
             kept == IF job[p].at = "replaces" THEN Empty ELSE store
  <2>1. a \in Steps
    BY DEF Steps
  <2>2. job' = [job EXCEPT ![p].at = a, ![p].texts = Empty]
    BY <1>5 DEF Commit
  <2> HIDE DEF a
  <2>3. job' \in [Procs -> Jobs]
    BY <2>1, <2>2, JobStep DEF TypeOK
  <2>4. job[p] \in Jobs
    BY DEF TypeOK
  <2>5. \A d \in job[p].changed : Row(p, d) \in Rows
    BY <1>5, <2>4 DEF Commit, HasWork, WorkOf, Preparing, Chosen, Row, Rows, Jobs
  <2>6. job[p].plan \in Plans
    BY <2>4 DEF Jobs
  <2>7. kept \in Tables
    BY DEF TypeOK, Tables, Empty
  <2>8. store' \in Tables
    <3>1. store' = [d \in Docs |-> IF d \in job[p].changed THEN Row(p, d) ELSE kept[d]]
      BY <1>5 DEF Commit
    <3> HIDE DEF kept
    <3> QED BY <2>5, <2>7, <3>1 DEF Tables
  <2> QED BY <1>5, <2>3, <2>6, <2>8 DEF Commit, TypeOK
<1>6. ASSUME NEW p \in Procs, GiveUp(p) PROVE TypeOK'
  BY <1>6, NoJobType DEF GiveUp, Ends, TypeOK
<1>7. ASSUME NEW p \in Procs, Clear(p) \/ ClearFails(p) PROVE TypeOK'
  <2>1. "looks" \in Steps
    BY DEF Steps
  <2>2. Goes(p, "looks")
    BY <1>7 DEF Clear, ClearFails
  <2>3. job' \in [Procs -> Jobs]
    BY <2>1, <2>2, JobStep DEF Goes, TypeOK
  <2> QED BY <1>7, <2>3 DEF Clear, ClearFails, TypeOK
<1>8. ASSUME NEW p \in Procs, Look(p) PROVE TypeOK'
  <2>1. "loads" \in Steps
    BY DEF Steps
  <2>2. CASE Goes(p, "loads")
    BY <1>8, <2>1, <2>2, JobStep DEF Look, Goes, TypeOK
  <2>3. CASE Ends(p)
    BY <1>8, <2>3, NoJobType DEF Look, Ends, TypeOK
  <2> QED BY <1>8, <2>2, <2>3 DEF Look
<1>9. ASSUME NEW p \in Procs, LoadPoints(p) PROVE TypeOK'
  <2>1. "builds" \in Steps
    BY DEF Steps
  <2> QED BY <1>9, <2>1, PointsStep DEF LoadPoints, TypeOK
<1>10. ASSUME NEW p \in Procs, Build(p) PROVE TypeOK'
  <2>1. job[p].points \in Tables
    BY DEF TypeOK, Jobs
  <2>2. Dump(job[p].points) \in Tables \cup {None}
    BY <2>1 DEF Dump
  <2> QED BY <1>10, <2>2, NoJobType DEF Build, Ends, TypeOK
<1>11. ASSUME NEW p \in Procs, LeaveUnbuilt(p) PROVE TypeOK'
  BY <1>11, NoJobType DEF LeaveUnbuilt, Ends, TypeOK
<1> QED BY <1>1, <1>2, <1>3, <1>4, <1>5, <1>6, <1>7, <1>8, <1>9, <1>10, <1>11 DEF Next

-----------------------------------------------------------------------------
\* A step of one command leaves the others where they are.
LEMMA OthersStay ==
    ASSUME TypeOK, NEW p \in Procs,
           \/ \E s \in Plans, texts \in [Docs -> Texts \cup {None}] : Load(p, s, texts)
           \/ Prepare(p) \/ FallBack(p) \/ Commit(p) \/ GiveUp(p)
           \/ Clear(p) \/ ClearFails(p) \/ Look(p) \/ LoadPoints(p) \/ Build(p) \/ LeaveUnbuilt(p)
    PROVE  \A q \in Procs \ {p} : job'[q] = job[q]
BY DEF TypeOK, Load, Prepare, FallBack, Commit, GiveUp, Clear, ClearFails, Look, LoadPoints, Build,
       LeaveUnbuilt, Ends, Goes

\* What is to be written when the index is empty, or is of another plan.
LEMMA PreparedHasWork ==
    ASSUME DesktopAssumption, TypeOK, HasWork, NEW p \in Procs, Prepare(p)
    PROVE  meta = job[p].plan \/ job'[p].changed # {}
<1>1. Chosen(p) # {}
  <2>1. job[p].texts # Empty /\ job[p].texts \in [Docs -> Texts \cup {None}]
    BY DEF Prepare, HasWork, WorkOf, Preparing, TypeOK, Jobs
  <2> QED BY <2>1 DEF Chosen, Empty
<1>2. PICK d \in Chosen(p) : TRUE
  BY <1>1
<1>3. d \in Docs /\ Row(p, d) # None
  BY <1>2 DEF Chosen, Row, Rows, TypeOK, Jobs, DesktopAssumption
<1>4. meta = job[p].plan \/ (store # Empty /\ meta # job[p].plan) \/ store[d] = None
  <2>1. store = Empty => store[d] = None
    BY <1>3 DEF Empty
  <2> QED BY <2>1
<1>5. job'[p].changed = {e \in Chosen(p) : \/ store # Empty /\ meta # job[p].plan
                                         \/ store[e] # Row(p, e)}
  BY DEF Prepare, TypeOK, Jobs
<1> QED BY <1>2, <1>3, <1>4, <1>5

\* A command has documents until it commits, and replaces only by writing them all.
LEMMA HasWorkStep ==
    ASSUME DesktopAssumption, TypeOK, HasWork, [Next]_vars
    PROVE  HasWork'
<1>1. ASSUME NEW q \in Procs, job'[q] = job[q] PROVE WorkOf(q)'
  BY <1>1 DEF HasWork, WorkOf, Preparing, Chosen
<1>2. ASSUME NEW p \in Procs, NEW s \in Plans, NEW texts \in [Docs -> Texts \cup {None}],
             Load(p, s, texts)
      PROVE  WorkOf(p)'
  <2>1. job'[p].at = "loaded" /\ job'[p].texts # Empty /\ job'[p].changed = job[p].changed
    BY <1>2 DEF Load, TypeOK, Jobs
  <2>2. job[p].changed = {}
    BY <1>2 DEF Load, HasWork, WorkOf
  <2> QED BY <2>1, <2>2 DEF WorkOf
<1>3. ASSUME NEW p \in Procs, Prepare(p) PROVE WorkOf(p)'
  <2>1. job'[p].texts = job[p].texts /\ job'[p].changed \subseteq Chosen(p)
    BY <1>3 DEF Prepare, TypeOK, Jobs
  <2>2. job[p].texts # Empty
    BY <1>3 DEF Prepare, HasWork, WorkOf, Preparing
  <2>3. /\ job'[p].at \in {"adds", "replaces"}
        /\ job'[p].at = "replaces" => meta # job[p].plan
    BY <1>3 DEF Prepare, TypeOK, Jobs
  <2>4. Chosen(p)' = Chosen(p)
    BY <2>1 DEF Chosen
  <2>5. meta = job[p].plan \/ job'[p].changed # {}
    BY <1>3, PreparedHasWork
  <2> QED BY <2>1, <2>2, <2>3, <2>4, <2>5 DEF WorkOf, Empty
<1>4. ASSUME NEW p \in Procs, FallBack(p) PROVE WorkOf(p)'
  <2>1. job'[p].at = "loaded" /\ job'[p].texts = job[p].texts /\ job'[p].changed = {}
    BY <1>4 DEF FallBack, TypeOK, Jobs
  <2>2. job[p].texts # Empty
    BY <1>4 DEF FallBack, HasWork, WorkOf, Preparing
  <2> QED BY <2>1, <2>2 DEF WorkOf, Empty
<1>5. ASSUME NEW p \in Procs,
             Commit(p) \/ GiveUp(p) \/ Clear(p) \/ ClearFails(p) \/ Look(p) \/ LoadPoints(p)
             \/ Build(p) \/ LeaveUnbuilt(p)
      PROVE  WorkOf(p)'
  <2>1. job'[p].at \in {"idle", "clears", "looks", "loads", "builds"}
    BY <1>5 DEF Commit, GiveUp, Clear, ClearFails, Look, LoadPoints, Build, LeaveUnbuilt, Ends,
                Goes, NoJob, TypeOK, Jobs
  <2>2. job'[p].at = "idle" => job'[p].changed = {}
    <3>1. CASE job' = [job EXCEPT ![p] = NoJob]
      BY <3>1 DEF NoJob, TypeOK
    <3>2. CASE job'[p].at # "idle"
      BY <3>2
    <3> QED BY <1>5, <3>1, <3>2 DEF Commit, GiveUp, Clear, ClearFails, Look, LoadPoints, Build,
                                    LeaveUnbuilt, Ends, Goes, TypeOK, Jobs
  <2> QED BY <2>1, <2>2 DEF WorkOf, Preparing
<1>6. CASE UNCHANGED vars
  BY <1>1, <1>6 DEF vars, HasWork
<1>7. CASE Next
  <2>1. PICK p \in Procs :
            \/ \E s \in Plans, texts \in [Docs -> Texts \cup {None}] : Load(p, s, texts)
            \/ Prepare(p) \/ FallBack(p) \/ Commit(p) \/ GiveUp(p)
            \/ Clear(p) \/ ClearFails(p) \/ Look(p) \/ LoadPoints(p) \/ Build(p) \/ LeaveUnbuilt(p)
    BY <1>7 DEF Next
  <2>2. WorkOf(p)'
    BY <2>1, <1>2, <1>3, <1>4, <1>5
  <2>3. \A q \in Procs \ {p} : WorkOf(q)'
    BY <2>1, <1>1, OthersStay
  <2> QED BY <2>2, <2>3 DEF HasWork
<1> QED BY <1>6, <1>7

\* Only a commit makes prepared work unfit, and it tells all others so.
LEMMA FitsIndexStep ==
    ASSUME DesktopAssumption, TypeOK, HasWork, FitsIndex, [Next]_vars
    PROVE  FitsIndex'
<1> USE DEF FitsIndex
<1>1. CASE UNCHANGED vars
  BY <1>1 DEF vars
<1>2. ASSUME NEW p \in Procs, NEW s \in Plans, NEW texts \in [Docs -> Texts \cup {None}],
             Load(p, s, texts)
      PROVE  FitsIndex'
  BY <1>2 DEF Load, TypeOK, Jobs
<1>3. ASSUME NEW p \in Procs, Prepare(p) PROVE FitsIndex'
  <2>1. job'[p].plan = job[p].plan /\ (job'[p].at = "adds" => store = Empty \/ meta = job[p].plan)
    BY <1>3 DEF Prepare, TypeOK, Jobs
  <2>2. UNCHANGED <<store, meta>> /\ moved' = moved \ {p}
    BY <1>3 DEF Prepare
  <2>3. meta = job[p].plan \/ job'[p].changed # {}
    BY <1>3, PreparedHasWork
  <2>4. job'[p].at = "adds" => meta' = job'[p].plan \/ (store' = Empty /\ job'[p].changed # {})
    BY <2>1, <2>2, <2>3 DEF Empty
  <2> QED BY <1>3, <2>2, <2>4, OthersStay DEF Empty
<1>4. ASSUME NEW p \in Procs, Commit(p) PROVE FitsIndex'
  BY <1>4 DEF Commit
<1>5. ASSUME NEW p \in Procs,
             FallBack(p) \/ GiveUp(p) \/ Clear(p) \/ ClearFails(p) \/ Look(p) \/ LoadPoints(p)
             \/ Build(p) \/ LeaveUnbuilt(p)
      PROVE  FitsIndex'
  <2>1. job'[p].at # "adds"
    BY <1>5 DEF FallBack, GiveUp, Clear, ClearFails, Look, LoadPoints, Build, LeaveUnbuilt,
                Ends, Goes, NoJob, TypeOK, Jobs
  <2>2. UNCHANGED <<store, meta, moved>>
    BY <1>5 DEF FallBack, GiveUp, Clear, ClearFails, Look, LoadPoints, Build, LeaveUnbuilt
  <2> QED BY <1>5, <2>1, <2>2, OthersStay DEF Empty
<1> QED BY <1>1, <1>2, <1>3, <1>4, <1>5 DEF Next

\* Rows of another plan are gone before the first of a new one is written.
LEMMA OnePlanStep ==
    ASSUME TypeOK, FitsIndex, OnePlan, [Next]_vars
    PROVE  OnePlan'
<1>1. ASSUME NEW p \in Procs, Commit(p) PROVE OnePlan'
  <2> SUFFICES ASSUME NEW d \in Docs, store'[d] # None PROVE store'[d].plan = meta'
    BY DEF OnePlan
  <2>1. meta' = job[p].plan
    BY <1>1 DEF Commit
  <2>2. CASE d \in job[p].changed
    BY <1>1, <2>1, <2>2 DEF Commit, Row
  <2>3. CASE d \notin job[p].changed
    <3>1. job[p].at = "adds" /\ store'[d] = store[d]
      BY <1>1, <2>3 DEF Commit, Empty
    <3>2. store # Empty \/ store[d] = None
      BY DEF Empty
    <3>3. store # Empty
      BY <3>1, <3>2
    <3> QED BY <1>1, <2>1, <3>1, <3>3 DEF Commit, Unmoved, FitsIndex, OnePlan
  <2> QED BY <2>2, <2>3
<1>2. CASE UNCHANGED <<store, meta>>
  BY <1>2 DEF OnePlan
<1> QED BY <1>1, <1>2 DEF Next, vars, Load, Prepare, FallBack, GiveUp, Clear, ClearFails, Look,
                         LoadPoints, Build, LeaveUnbuilt

-----------------------------------------------------------------------------
\* The directory of the index is built from it, or somebody is to blame, or still on the way.
LEMMA AnnFollowsStep ==
    ASSUME DesktopAssumption, TypeOK, HasWork, FitsIndex, AnnFollows, [Next]_vars
    PROVE  AnnFollows'
<1> USE DEF AnnFollows
<1>1. CASE UNCHANGED vars
  BY <1>1 DEF vars, Owes, Committed
<1>2. ASSUME NEW p \in Procs, NEW s \in Plans, NEW texts \in [Docs -> Texts \cup {None}],
             Load(p, s, texts)
      PROVE  AnnFollows'
  BY <1>2 DEF Load, Owes, Committed, TypeOK, Jobs
<1>3. ASSUME NEW p \in Procs, Prepare(p) \/ FallBack(p) \/ GiveUp(p) PROVE AnnFollows'
  <2>1. ~Owes(p) /\ UNCHANGED <<ann, meta, store, blame>>
    BY <1>3 DEF Prepare, FallBack, GiveUp, Owes, Committed
  <2> QED BY <1>3, <2>1, OthersStay DEF Owes, Committed
<1>4. ASSUME NEW p \in Procs, Commit(p) PROVE AnnFollows'
  <2>1. CASE job[p].changed # {}
    <3>1. Committed(p)' /\ job'[p].changed # {} /\ job'[p].plan = meta'
      BY <1>4, <2>1 DEF Commit, Committed, TypeOK, Jobs
    <3> QED BY <3>1 DEF Owes
  <2>2. CASE job[p].changed = {}
    <3>1. job[p].at = "adds" /\ meta = job[p].plan
      BY <1>4, <2>2 DEF Commit, HasWork, WorkOf, FitsIndex, Unmoved
    <3>2. store' = store /\ meta' = meta /\ UNCHANGED <<ann, blame>>
      BY <1>4, <2>2, <3>1 DEF Commit, TypeOK, Tables
    <3>3. ~Owes(p)
      BY <2>2 DEF Owes
    <3> QED BY <1>4, <3>2, <3>3, OthersStay DEF Owes, Committed
  <2> QED BY <2>1, <2>2
<1>5. ASSUME NEW p \in Procs, Clear(p) PROVE AnnFollows'
  BY <1>5 DEF Clear, TypeOK, Jobs
<1>6. ASSUME NEW p \in Procs, ClearFails(p) \/ LoadPoints(p) PROVE AnnFollows'
  <2>1. UNCHANGED <<ann, meta, store, blame>> /\ (Owes(p) => Owes(p)')
    BY <1>6 DEF ClearFails, LoadPoints, Goes, Owes, Committed, TypeOK, Jobs
  <2> QED BY <1>6, <2>1, OthersStay DEF Owes, Committed
<1>7. ASSUME NEW p \in Procs, Look(p) PROVE AnnFollows'
  <2>1. UNCHANGED <<ann, meta, store, blame>> /\ (Owes(p) => Owes(p)')
    BY <1>7 DEF Look, Rebuilds, Goes, Ends, Owes, Committed, TypeOK, Jobs
  <2> QED BY <1>7, <2>1, OthersStay DEF Owes, Committed
<1>8. ASSUME NEW p \in Procs, Build(p) PROVE AnnFollows'
  <2>1. CASE job[p].points # store
    BY <1>8, <2>1 DEF Build
  <2>2. CASE job[p].points = store /\ job[p].plan = meta
    BY <1>8, <2>2 DEF Build, Dump, TypeOK, Jobs
  <2>3. CASE job[p].points = store /\ job[p].plan # meta
    <3>1. ann'[meta] = ann[meta] /\ UNCHANGED <<meta, store, blame>> /\ ~Owes(p)
      BY <1>8, <2>3 DEF Build, Owes, TypeOK, Jobs
    <3> QED BY <1>8, <3>1, OthersStay DEF Owes, Committed
  <2> QED BY <2>1, <2>2, <2>3
<1>9. ASSUME NEW p \in Procs, LeaveUnbuilt(p) PROVE AnnFollows'
  <2>1. CASE job[p].changed # {}
    BY <1>9, <2>1 DEF LeaveUnbuilt
  <2>2. CASE job[p].changed = {}
    <3>1. ~Owes(p) /\ UNCHANGED <<ann, meta, store, blame>>
      BY <1>9, <2>2 DEF LeaveUnbuilt, Owes
    <3> QED BY <1>9, <3>1, OthersStay DEF Owes, Committed
  <2> QED BY <2>1, <2>2
<1> QED BY <1>1, <1>2, <1>3, <1>4, <1>5, <1>6, <1>7, <1>8, <1>9 DEF Next

LEMMA InvariantInit == ASSUME DesktopAssumption, Init PROVE IInv
<1>1. TypeOK
  BY TypeInit
<1>2. \A p \in Procs : job[p].at = "idle" /\ job[p].changed = {}
  BY DEF Init, NoJob
<1>3. \A d \in Docs : store[d] = None
  BY DEF Init, Empty
<1>4. ann[meta] = None
  BY <1>1 DEF Init, DesktopAssumption
<1> QED BY <1>1, <1>2, <1>3, <1>4 DEF IInv, HasWork, WorkOf, Preparing, FitsIndex, OnePlan, AnnFollows

LEMMA InvariantStep == ASSUME DesktopAssumption, IInv, [Next]_vars PROVE IInv'
BY TypeStep, HasWorkStep, FitsIndexStep, OnePlanStep, AnnFollowsStep DEF IInv

LEMMA InvariantSuffices == IInv => SearchesOneIndex
BY DEF IInv, AnnFollows, Owes, SearchesOneIndex

\* The invariant of the desktop index: types, what was prepared, who owes the build.
THEOREM DesktopInvariant ==
    ASSUME DesktopAssumption
    PROVE  Spec => []IInv
<1>1. Init => IInv
  BY InvariantInit
<1>2. IInv /\ [Next]_vars => IInv'
  BY InvariantStep
<1> QED BY <1>1, <1>2, PTL DEF Spec

\* SearchesOneIndex: the vectors in SQLite are of one plan, and the directory a search
\* accepts is built from them, unless a build is known to have been left out or overtaken.
THEOREM DesktopSearchesOneIndex ==
    ASSUME DesktopAssumption
    PROVE  Spec => []SearchesOneIndex
BY InvariantSuffices, DesktopInvariant, PTL
=============================================================================

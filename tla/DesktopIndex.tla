---------------------------- MODULE DesktopIndex ----------------------------
(***************************************************************************)
(* The knowledge index of the desktop application (crates/knowledge/src/   *)
(* desktop): documents, chunks and vectors in a SQLite database, and beside *)
(* it, one directory for each embedding plan, an HNSW cache that is built   *)
(* from them.  The two share no transaction.  A command rebuilds the index  *)
(* before it searches; commands run at once, in one window or in several.   *)
(***************************************************************************)
EXTENDS FiniteSets, Naturals

CONSTANTS Procs,        \* the commands that run
          Docs, Texts,
          Blank,        \* the text without chunks
          Plans, Local, \* embedding plans (signature, ID scheme); Local needs no provider
          MinPoints,    \* MIN_HNSW_POINTS
          None

VARIABLES
    store,   \* documents and chunks: the text of each document, and the plan of its vectors
    meta,    \* index_meta: the plan of the index
    ann,     \* the directory of each plan: what its vectors were built from
    job,     \* where each command is, and what it holds
    moved,   \* commands whose database has a newer data_version than they saw first
    blame    \* history: how the directory of the index may have fallen behind

vars == <<store, meta, ann, job, moved, blame>>

Rows == [text : Texts, plan : Plans]
\* Assumed by the module that instantiates this one.
DesktopAssumption == Local \in Plans /\ None \notin Rows /\ MinPoints \in Nat

Tables == [Docs -> Rows \cup {None}]
Empty == [d \in Docs |-> None]
Steps == {"idle", "loaded", "adds", "replaces", "clears", "looks", "loads", "builds"}

Jobs == [at : Steps, plan : Plans, texts : [Docs -> Texts \cup {None}],
         changed : SUBSET Docs, points : Tables]
NoJob == [at |-> "idle", plan |-> Local, texts |-> [d \in Docs |-> None],
          changed |-> {}, points |-> Empty]

Init ==
    /\ store = Empty /\ meta = Local
    /\ ann = [s \in Plans |-> None]
    /\ job = [p \in Procs |-> NoJob]
    /\ moved = {} /\ blame = {}

-----------------------------------------------------------------------------
Goes(p, step) == job' = [job EXCEPT ![p].at = step]
Ends(p) == job' = [job EXCEPT ![p] = NoJob]

\* load_documents, for the sources that were chosen; their files change as they like.
Load(p, s, texts) ==
    /\ job[p].at = "idle" /\ texts # Empty
    /\ job' = [job EXCEPT ![p].at = "loaded", ![p].plan = s, ![p].texts = texts]
    /\ UNCHANGED <<store, meta, ann, moved, blame>>

Chosen(p) == {d \in Docs : job[p].texts[d] # None}
Row(p, d) == [text |-> job[p].texts[d], plan |-> job[p].plan]

\* The first half of index_documents: the data_version, the plan of the index, what has
\* changed.  What other commands commit between these reads shows in the version.
Prepare(p) ==
    /\ job[p].at = "loaded"
    /\ LET clears == store # Empty /\ meta # job[p].plan IN
       job' = [job EXCEPT ![p].at = IF clears THEN "replaces" ELSE "adds",
                          ![p].changed = {d \in Chosen(p) : clears \/ store[d] # Row(p, d)}]
    /\ moved' = moved \ {p}
    /\ UNCHANGED <<store, meta, ann, blame>>

\* The provider fails, and the scope is indexed once more with the local plan.
FallBack(p) ==
    /\ job[p].at \in {"adds", "replaces"} /\ job[p].plan # Local /\ job[p].changed # {}
    /\ job' = [job EXCEPT ![p].at = "loaded", ![p].plan = Local, ![p].changed = {}]
    /\ UNCHANGED <<store, meta, ann, moved, blame>>

\* Mutant: what was prepared is written whatever has been committed since.
Anyway(p) == TRUE
Unmoved(p) == p \notin moved

\* The transaction; write_metadata is part of each, so each moves the data_version.
Commit(p) ==
    /\ job[p].at \in {"adds", "replaces"} /\ Unmoved(p)
    /\ LET kept == IF job[p].at = "replaces" THEN Empty ELSE store IN
       store' = [d \in Docs |-> IF d \in job[p].changed THEN Row(p, d) ELSE kept[d]]
    /\ meta' = job[p].plan
    /\ moved' = Procs
    /\ job' = [job EXCEPT ![p].at = IF @ = "replaces" THEN "clears" ELSE "looks",
                          ![p].texts = Empty]
    /\ UNCHANGED <<ann, blame>>

\* An error or the end of the application before the commit: nothing was written.
GiveUp(p) ==
    /\ job[p].at \in {"loaded", "adds", "replaces"} /\ Ends(p)
    /\ UNCHANGED <<store, meta, ann, moved, blame>>

-----------------------------------------------------------------------------
(* After the commit; each step on the directories holds the lock of the cache. *)

Committed(p) == job[p].at \in {"clears", "looks", "loads", "builds"}

Clear(p) ==
    /\ job[p].at = "clears" /\ ann' = [s \in Plans |-> None] /\ Goes(p, "looks")
    /\ UNCHANGED <<store, meta, moved, blame>>

\* Both attempts fail: the directories are left, and the build goes on.
ClearFails(p) ==
    /\ job[p].at = "clears" /\ Goes(p, "looks")
    /\ UNCHANGED <<store, meta, ann, moved, blame>>

\* A directory that is there and of the plan counts as available, whatever it was built from.
Rebuilds(p) == job[p].changed # {} \/ ann[job[p].plan] = None

Look(p) ==
    /\ job[p].at = "looks"
    /\ IF Rebuilds(p) THEN Goes(p, "loads") ELSE Ends(p)
    /\ UNCHANGED <<store, meta, ann, moved, blame>>

\* load_vector_points: of whatever plan the index has become meanwhile, when the
\* dimensions agree.
LoadPoints(p) ==
    /\ job[p].at = "loads"
    /\ job' = [job EXCEPT ![p].at = "builds", ![p].points = store]
    /\ UNCHANGED <<store, meta, ann, moved, blame>>

Dump(points) ==
    IF Cardinality({d \in Docs : points[d] # None /\ points[d].text # Blank}) < MinPoints
    THEN None ELSE points

\* hnsw::rebuild; an interrupted replacement is recovered under the lock, so it has
\* happened or it has not.
Build(p) ==
    /\ job[p].at = "builds"
    /\ ann' = [ann EXCEPT ![job[p].plan] = Dump(job[p].points)]
    /\ blame' = IF job[p].points # store THEN blame \cup {"overtaken"}
                ELSE IF job[p].plan = meta THEN {} ELSE blame
    /\ Ends(p)
    /\ UNCHANGED <<store, meta, moved>>

\* A build that fails is a warning; a crash is silent.  Either leaves the directory.
LeaveUnbuilt(p) ==
    /\ Committed(p)
    /\ blame' = IF job[p].changed # {} THEN blame \cup {"unbuilt"} ELSE blame
    /\ Ends(p)
    /\ UNCHANGED <<store, meta, ann, moved>>

Next ==
    \E p \in Procs :
        \/ \E s \in Plans, texts \in [Docs -> Texts \cup {None}] : Load(p, s, texts)
        \/ Prepare(p) \/ FallBack(p) \/ Commit(p) \/ GiveUp(p)
        \/ Clear(p) \/ ClearFails(p) \/ Look(p) \/ LoadPoints(p) \/ Build(p) \/ LeaveUnbuilt(p)

Spec == Init /\ [][Next]_vars

-----------------------------------------------------------------------------
(* Properties *)

TypeOK ==
    /\ store \in Tables /\ meta \in Plans
    /\ ann \in [Plans -> Tables \cup {None}]
    /\ job \in [Procs -> Jobs]
    /\ moved \subseteq Procs /\ blame \subseteq {"unbuilt", "overtaken"}

\* All vectors of the index are of the plan it names.
OnePlan == \A d \in Docs : store[d] # None => store[d].plan = meta

\* What a search uses is of one plan and of one time: the vectors in SQLite are of the
\* plan in index_meta, and the HNSW directory it accepts, which is that plan's, is built
\* from them, unless the last commands to change the index failed between its commit and
\* the build, or one of them built from what another had already replaced
\* (index_documents, rebuild_once).
SearchesOneIndex ==
    /\ OnePlan
    /\ (\A p \in Procs : ~Committed(p)) => ann[meta] \in {None, store} \/ blame # {}
=============================================================================

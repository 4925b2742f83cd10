----------------------------- MODULE MCDocuments -----------------------------
(***************************************************************************)
(* The instance of what carries a document from its upload to the index,    *)
(* and of what surrounds it: the conversion job, the index generations, the *)
(* event log, the quota ledger for uploads and for answers, the turns of    *)
(* organisations at a worker, the versions of a document.  None of them     *)
(* reads the variables of another, so one run explores each from its own    *)
(* initial state.                                                           *)
(***************************************************************************)
EXTENDS OrgRotation

CONSTANTS MaxAttempts, MaxCleanups, Docs, LastPlan,
          Uploads, Answers, Callers, Nobody, Size, Estimate, Actuals, TTL, MonthLength, MaxTime,
          Jobs, Watched, Relays, Steps, Limit,
          Last

VARIABLES part,
          job, at, seen, todo, doomed, deferred, objects, flying, reservation,
          committed, txn, deleted, cleaner,
          plan, doc, events, gen, idx, batch, row, finish,
          now, res, counter, lock, call, gone,
          status, writer, log, created, published, made, seqLock, relay, tail,
          state, current, newest, byHand, vidx, vbatch, vwriter, point, vflying, refresh,
          repair, keys, raced, lost

Quota == [k \in {"documents", "storage_bytes", "tokens"} |-> IF k = "documents" THEN 1 ELSE Size]

C == INSTANCE Conversion
I == INSTANCE IndexGenerations WITH txn <- finish
QU == INSTANCE QuotaLedger WITH Answers <- {}, Limit <- Quota
QT == INSTANCE QuotaLedger WITH Uploads <- {}, Limit <- Quota
E == INSTANCE EventLog
V == INSTANCE Revisions WITH idx <- vidx, batch <- vbatch, writer <- vwriter, flying <- vflying

ASSUME InstancesAssumption ==
    /\ C!BoundsAssumption /\ I!PlanAssumption /\ QU!QuotaAssumption /\ QT!QuotaAssumption /\ E!EventLogAssumption
    /\ V!LastAssumption

cvars == <<job, at, seen, todo, doomed, deferred, objects, flying, reservation,
           committed, txn, deleted, cleaner>>
ivars == <<plan, doc, events, gen, idx, batch, row, finish>>
qvars == <<now, res, counter, lock, call, gone>>
evars == <<status, writer, log, created, published, made, seqLock, relay, tail>>
vvars == <<state, current, newest, byHand, vidx, vbatch, vwriter, point, vflying, refresh,
           repair, keys, raced, lost>>

MCInit ==
    /\ part \in {"rotation", "conversion", "index", "uploads", "answers", "events", "versions"}
    /\ Init /\ C!Init /\ I!Init /\ E!Init
    /\ IF part = "answers" THEN QT!Init ELSE QU!Init
    /\ V!Init /\ (part # "versions" => lost = {})

MCNext ==
    /\ \/ part = "rotation" /\ Next /\ UNCHANGED <<cvars, ivars, qvars, evars, vvars>>
       \/ part = "conversion" /\ C!Next /\ UNCHANGED <<vars, ivars, qvars, evars, vvars>>
       \/ part = "index" /\ I!Next /\ UNCHANGED <<vars, cvars, qvars, evars, vvars>>
       \/ part = "uploads" /\ QU!Next /\ UNCHANGED <<vars, cvars, ivars, evars, vvars>>
       \/ part = "answers" /\ QT!Next /\ UNCHANGED <<vars, cvars, ivars, evars, vvars>>
       \/ part = "events" /\ E!Next /\ UNCHANGED <<vars, cvars, ivars, qvars, vvars>>
       \/ part = "versions" /\ V!Next /\ UNCHANGED <<vars, cvars, ivars, qvars, evars>>
    /\ UNCHANGED part

MCSpec == MCInit /\ [][MCNext]_<<part, vars, cvars, ivars, qvars, evars, vvars>>

\* Each is about the variables of one part, which the others leave as they were.
CommittedMarkdownExists == part = "conversion" => C!CommittedMarkdownExists
ChargedForWhatIsKept == part = "conversion" => C!ChargedForWhatIsKept
LeftoversAreRecorded == part = "conversion" => C!LeftoversAreRecorded
IndexedIsVisible == part = "index" => I!IndexedIsVisible
CompletionIsNoticed == part = "index" => I!CompletionIsNoticed
OnlyReplaysStrand == part = "index" => I!OnlyReplaysStrand
NeverOverAdmitted ==
    /\ part = "uploads" => QU!NeverOverAdmitted
    /\ part = "answers" => QT!NeverOverAdmitted
EverythingIsCounted ==
    /\ part = "uploads" => QU!EverythingIsCounted /\ QU!UploadsSettleTogether
    /\ part = "answers" => QT!EverythingIsCounted
TailsMissNothing == part = "events" => E!TailsMissNothing
PublishedOnce == part = "events" => E!PublishedOnce
SearchFollowsVersions == part = "versions" => V!SearchFollowsVersions
=============================================================================

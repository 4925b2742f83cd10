----------------------------- MODULE OrgRotation -----------------------------
(***************************************************************************)
(* How one worker process shares its turns among the organisations it       *)
(* serves.  A cycle asks one organisation after the other, from the cursor  *)
(* on, and ends with the first that had a job; meanwhile jobs arrive and    *)
(* other processes take them.  An attempt may also fail, or panic, which    *)
(* ends the task of the cycle before the cursor is moved.                   *)
(***************************************************************************)
EXTENDS Integers

CONSTANT OrgCount     \* organisations of the process, in the order they were given

\* OrgRotation::new refuses an empty list; duplicates are refused, so that a
\* position stands for an organisation.
ASSUME OrgCountAssumption == OrgCount \in Nat \ {0}

VARIABLES
    ready,     \* organisations with a job this process could claim
    cursor,    \* where the next cycle starts
    offset,    \* organisations the cycle has asked; all of them between cycles
    waited     \* [Orgs -> turns others had since the organisation has a job]

vars == <<ready, cursor, offset, waited>>

Orgs == 0..OrgCount - 1

\* (i + k) % n, for i < n and k <= n
Mod(i) == IF i < OrgCount THEN i ELSE i - OrgCount
Running == offset < OrgCount
Asked == Mod(cursor + offset)

\* Mutant: the organisation that was served keeps the head of the rotation.
StaysAt(o) == o
\* Where the cursor goes after o was served, or failed.
PastOf(o) == Mod(o + 1)

Init ==
    /\ ready = {} /\ cursor = 0 /\ offset = OrgCount
    /\ waited = [o \in Orgs |-> 0]

\* A job of o becomes claimable: enqueued, run_after is over, a slot is free.
Arrive(o) ==
    /\ o \notin ready
    /\ ready' = ready \cup {o}
    /\ UNCHANGED <<cursor, offset, waited>>

\* The last of them is claimed elsewhere, cancelled, or refused a slot.
Leave(o) ==
    /\ o \in ready
    /\ ready' = ready \ {o}
    /\ waited' = [waited EXCEPT ![o] = 0]
    /\ UNCHANGED <<cursor, offset>>

\* The claim loop spawns a cycle, at once or after its pause of two seconds.
BeginCycle ==
    /\ ~Running
    /\ offset' = 0
    /\ UNCHANGED <<ready, cursor, waited>>

\* run_once of the organisation's turn: reclaim, relay, claim.  NoJob.
Idle ==
    /\ Running /\ Asked \notin ready
    /\ offset' = offset + 1
    /\ UNCHANGED <<ready, cursor, waited>>

\* A turn of o ends the cycle; o may have more jobs.
Turn(o) ==
    /\ cursor' = PastOf(o) /\ offset' = OrgCount
    /\ ready' \in {ready, ready \ {o}}
    /\ waited' = [p \in Orgs |-> IF p # o /\ p \in ready THEN waited[p] + 1 ELSE 0]

\* A job of the organisation was run, whatever came of it.
Serve == Running /\ Asked \in ready /\ Turn(Asked)

\* The relay, the claim or the job returns an error, with or without a job.
Fail == Running /\ Turn(Asked)

\* The attempt panics: the spawned cycle ends and run_bounded_claim_loop sees a
\* join error.
Panic ==
    /\ Running
    /\ offset' = OrgCount
    /\ UNCHANGED <<ready, cursor, waited>>

Next ==
    \/ \E o \in Orgs : Arrive(o) \/ Leave(o)
    \/ BeginCycle \/ Idle \/ Serve \/ Fail \/ Panic

Spec == Init /\ [][Next]_vars

------------------------------------------------------------------------------
(* Properties *)

\* Between the arrival of a job and the attempt on it, every other organisation has
\* at most one turn, however long its backlog is and however often its jobs fail:
\* the bound that workers/fairness.rs states for run_cycle.
FairTurns == \A o \in ready : waited[o] <= OrgCount - 1

\* What it rests on.  An organisation ahead of the cursor by d positions can be
\* overtaken d times more; one the running cycle has asked already had nothing
\* then, so that nobody had a turn since.
Ahead(o) == IF o >= cursor THEN o - cursor ELSE o - cursor + OrgCount

TypeOK ==
    /\ ready \subseteq Orgs /\ cursor \in Orgs
    /\ offset \in 0..OrgCount
    /\ waited \in [Orgs -> Nat]

IInv ==
    /\ TypeOK
    /\ \A o \in Orgs \ ready : waited[o] = 0
    /\ \A o \in ready : waited[o] + Ahead(o) <= OrgCount - 1
    /\ Running => \A o \in ready : Ahead(o) < offset => waited[o] = 0
=============================================================================

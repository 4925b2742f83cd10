----------------------------- MODULE JobContract -----------------------------
(***************************************************************************)
(* What the job queue promises to those who use it, without leases,        *)
(* tokens, clocks or slots: a job is granted to one worker at a time, only *)
(* the worker it is granted to can finish it, it is granted at most        *)
(* MaxAttempts times more than it is given back unspent, and once ended it *)
(* stays ended.                                                            *)
(*                                                                         *)
(* Several jobs may move in one step (an administrator cancels an index    *)
(* job together with its batches), each by a move of its own.              *)
(***************************************************************************)
EXTENDS Naturals

CONSTANTS Jobs, Workers, MaxAttempts, NoWorker

VARIABLE promise   \* [Jobs -> [phase, holder, spent, by]]

Phases == {"none", "queued", "granted", "succeeded", "cancelled", "dead_letter"}

Pledge(phase, holder, spent, by) ==
  [phase |-> phase, holder |-> holder, spent |-> spent, by |-> by]

Fresh == Pledge("none", NoWorker, 0, NoWorker)

Init == promise = [j \in Jobs |-> Fresh]

Accept(p, q) == p.phase = "none" /\ q = Pledge("queued", p.holder, p.spent, p.by)

\* A grant spends an attempt; there must be one left.
Grant(p, q) ==
  /\ p.phase = "queued" /\ p.spent < MaxAttempts
  /\ \E w \in Workers : q = Pledge("granted", w, p.spent + 1, p.by)

\* The holder is gone, or cannot finish any more; the grant stands.
Forsake(p, q) ==
  /\ p.phase = "granted" /\ p.holder # NoWorker
  /\ q = Pledge("granted", NoWorker, p.spent, p.by)

\* The grant ends without a result, by the holder or over its head.
Requeue(p, q) ==
  /\ p.phase = "granted" /\ p.spent < MaxAttempts
  /\ q = Pledge("queued", NoWorker, p.spent, p.by)

Bury(p, q) ==
  /\ p.phase = "granted" /\ p.spent = MaxAttempts
  /\ \E who \in {p.holder, NoWorker} : q = Pledge("dead_letter", NoWorker, p.spent, who)

\* Only its holder gives an attempt back, and only its holder succeeds.
GiveBack(p, q) ==
  /\ p.phase = "granted" /\ p.holder # NoWorker
  /\ q = Pledge("queued", NoWorker, p.spent - 1, p.by)

Finish(p, q) ==
  /\ p.phase = "granted" /\ p.holder # NoWorker
  /\ q = Pledge("succeeded", NoWorker, p.spent, p.holder)

Cancel(p, q) ==
  /\ p.phase \in {"queued", "granted"}
  /\ q = Pledge("cancelled", NoWorker, p.spent, p.by)

Move(p, q) ==
  \/ Accept(p, q)
  \/ Grant(p, q)
  \/ Forsake(p, q)
  \/ Requeue(p, q)
  \/ Bury(p, q)
  \/ GiveBack(p, q)
  \/ Finish(p, q)
  \/ Cancel(p, q)

Next ==
  /\ promise' = [j \in Jobs |-> promise'[j]]
  /\ \A j \in Jobs : promise'[j] = promise[j] \/ Move(promise[j], promise'[j])

Spec == Init /\ [][Next]_promise
=============================================================================

----------------------------- MODULE QuotaLedger -----------------------------
(***************************************************************************)
(* The quota ledger of an organisation (services/quota.rs, db/quota.rs):    *)
(* reservations with an expiry, counters of what was settled, admission     *)
(* under an advisory lock per resource.  An upload reserves a document and  *)
(* its bytes and settles both; an answer reserves an estimate of its tokens *)
(* and settles what it used.  Documents and bytes are counted for ever,     *)
(* tokens by the month.                                                     *)
(*                                                                          *)
(* A transaction waits for its locks, reads the clock, reads what is used,  *)
(* and commits; time passes in between.  Any caller may call any operation  *)
(* at any time: retries, lost answers and reconcilers do.                   *)
(***************************************************************************)
EXTENDS Integers, FiniteSets

CONSTANTS Uploads, Answers,
          Callers,      \* concurrent transactions
          Nobody,
          Size,         \* bytes of an upload
          Estimate,     \* tokens reserved for an answer
          Actuals,      \* tokens it may turn out to have used
          Limit,        \* org_quotas, by resource
          TTL, MonthLength, MaxTime

Kinds == {"documents", "storage_bytes", "tokens"}

\* Assumed by the module that instantiates this one.
QuotaAssumption ==
    /\ IsFiniteSet(Uploads \cup Answers) /\ Uploads \cap Answers = {} /\ Nobody \notin Callers
    /\ Size \in Nat \ {0} /\ Estimate \in Nat \ {0} /\ Actuals \subseteq Nat \ {0}
    /\ Limit \in [Kinds -> Nat] /\ {TTL, MonthLength, MaxTime} \subseteq Nat \ {0}

Subjects == Uploads \cup Answers
KindsOf(s) == IF s \in Uploads THEN {"documents", "storage_bytes"} ELSE {"tokens"}
AmountOf(k) == CASE k = "documents" -> 1 [] k = "storage_bytes" -> Size [] OTHER -> Estimate
Keys == {key \in Subjects \X Kinds : key[2] \in KindsOf(key[1])}

VARIABLES
    now,      \* the clock of the database
    res,      \* the reservation of each key
    counter,  \* usage_counters, by resource and period
    lock,     \* who holds the admission lock of a resource
    call,     \* the transaction of each caller
    gone      \* the uploads whose document was deleted

vars == <<now, res, counter, lock, call, gone>>

PeriodOf(k, t) == IF k = "tokens" THEN t \div MonthLength ELSE 0
Months == {PeriodOf("tokens", t) : t \in 0..MaxTime}

Unread == [k \in {} |-> 0]
Idle == [step |-> "idle", op |-> "none", of |-> Nobody, kinds |-> {}, at |-> 0, saw |-> Unread]

Init ==
    /\ now = 0 /\ gone = {}
    /\ res = [key \in Keys |-> [status |-> "none", amount |-> 0, until |-> 0, period |-> 0]]
    /\ counter = [k \in Kinds |-> [m \in Months |-> 0]]
    /\ lock = [k \in Kinds |-> Nobody]
    /\ call = [c \in Callers |-> Idle]

-----------------------------------------------------------------------------
\* What the reservations of some keys come to, unit by unit, leaving out so many of each.
Beyond(floor, keys) == Cardinality(UNION {{key} \X ((floor + 1)..res[key].amount) : key \in keys})
Amount(keys) == Beyond(0, keys)
LiveAt(key, t) == res[key].status = "reserved" /\ res[key].until > t
DueAt(key, t) == res[key].status = "reserved" /\ res[key].until <= t
ReservedAt(k, t) == Amount({key \in Keys : key[2] = k /\ LiveAt(key, t)})

\* actual_document_count, actual_storage_bytes: a document is there once its upload was
\* finalized, in the same transaction.
Held(k) == Amount({key \in Keys : key[2] = k /\ res[key].status = "finalized" /\ key[1] \notin gone})

\* A new reservation may be admitted on top of what was seen.
Fits(k, used) == AmountOf(k) <= Limit[k] - used

-----------------------------------------------------------------------------
(* A transaction. *)

\* reserve and reserve_upload, finalize_actual and finalize_upload, refund and refund_upload.
Begin(c, op, s) ==
    /\ call[c].step = "idle"
    /\ op # "reserve" => \A k \in KindsOf(s) : res[<<s, k>>].status # "none"
    /\ call' = [call EXCEPT ![c] =
        [step |-> "waits", op |-> op, of |-> s, kinds |-> KindsOf(s), at |-> now, saw |-> Unread]]
    /\ UNCHANGED <<now, res, counter, lock, gone>>

\* reconcile_org
BeginReconcile(c) ==
    /\ call[c].step = "idle"
    /\ call' = [call EXCEPT ![c] =
        [step |-> "waits", op |-> "reconcile", of |-> Nobody,
         kinds |-> {"documents", "storage_bytes"}, at |-> now, saw |-> Unread]]
    /\ UNCHANGED <<now, res, counter, lock, gone>>

\* Mutant: a settlement trusts the locks of the rows it writes.
LocksToAdmit(c) == IF call[c].op = "reserve" THEN call[c].kinds ELSE {}
\* lock_admission, lock_resource_kinds
Locks(c) == call[c].kinds

\* Mutant: the clock is that of the start of the transaction.
AtBegin(c) == call[c].at
\* fresh_clock_timestamp, after the wait for the locks.
ObservedAt(c) == now

Admit(c) ==
    /\ call[c].step = "waits" /\ \A k \in Locks(c) : lock[k] = Nobody
    /\ lock' = [k \in Kinds |-> IF k \in Locks(c) THEN c ELSE lock[k]]
    /\ call' = [call EXCEPT ![c].step = "admitted", ![c].at = ObservedAt(c)]
    /\ UNCHANGED <<now, res, counter, gone>>

\* usage of an admission, lock_committed_counter of a settlement, the recount of the
\* reconciler.
Seen(c, k) ==
    LET t == call[c].at
        committed == counter[k][PeriodOf(k, t)]
    IN  CASE call[c].op = "reserve" -> committed + ReservedAt(k, t)
          [] call[c].op = "finalize" -> committed
          [] call[c].op = "reconcile" -> Held(k)
          [] OTHER -> 0

Look(c) ==
    /\ call[c].step = "admitted"
    /\ call' = [call EXCEPT ![c].step = "commits",
                            ![c].saw = [k \in call[c].kinds |-> Seen(c, k)]]
    /\ UNCHANGED <<now, res, counter, lock, gone>>

Released(c) == lock' = [k \in Kinds |-> IF lock[k] = c THEN Nobody ELSE lock[k]]

Ends(c) == call' = [call EXCEPT ![c] = Idle] /\ Released(c)

KeysOf(c) == {<<call[c].of, k>> : k \in call[c].kinds}

\* A key that is used keeps its reservation, or is a conflict.
Reserve(c) ==
    LET t == call[c].at IN
    /\ call[c].step = "commits" /\ call[c].op = "reserve"
    /\ res' = IF \A key \in KeysOf(c) : /\ res[key].status = "none"
                                        /\ Fits(key[2], call[c].saw[key[2]])
                THEN [key \in Keys |-> IF key \in KeysOf(c)
                        THEN [status |-> "reserved", amount |-> AmountOf(key[2]),
                              until |-> t + TTL, period |-> 0]
                        ELSE res[key]]
                ELSE res
    /\ Ends(c) /\ UNCHANGED <<now, counter, gone>>

\* Mutant: the reservations of an upload are settled one by one.
EachAlone(c) == {key \in KeysOf(c) : LiveAt(key, call[c].at)}
\* finalize_upload settles the two when both are reserved.
ToFinalize(c) ==
    {key \in KeysOf(c) : \A other \in KeysOf(c) : LiveAt(other, call[c].at)}

Finalize(c) ==
    LET t == call[c].at
        keys == ToFinalize(c)
        due == {key \in KeysOf(c) : DueAt(key, t) /\ call[c].of \in Answers}
    IN  /\ call[c].step = "commits" /\ call[c].op = "finalize"
        /\ \E actual \in Actuals :
            LET Charge(key) == IF call[c].of \in Answers THEN actual ELSE res[key].amount
            IN  /\ res' = [key \in Keys |->
                     IF key \in keys
                       THEN [res[key] EXCEPT !.status = "finalized", !.amount = Charge(key),
                                             !.period = PeriodOf(key[2], t)]
                     ELSE IF key \in due THEN [res[key] EXCEPT !.status = "expired"] ELSE res[key]]
                /\ counter' = [k \in Kinds |-> [m \in Months |->
                     IF <<call[c].of, k>> \in keys /\ m = PeriodOf(k, t)
                       THEN call[c].saw[k] + Charge(<<call[c].of, k>>) ELSE counter[k][m]]]
        /\ Ends(c) /\ UNCHANGED <<now, gone>>

\* Nothing, once either of the two is final; a reservation that is due expires instead.
RefundReservation(c) ==
    LET t == call[c].at
        open == {key \in KeysOf(c) : \A other \in KeysOf(c) : res[other].status # "finalized"}
    IN  /\ call[c].step = "commits" /\ call[c].op = "refund"
        /\ res' = [key \in Keys |->
             IF key \in open /\ LiveAt(key, t) THEN [res[key] EXCEPT !.status = "refunded"]
             ELSE IF key \in open /\ DueAt(key, t) THEN [res[key] EXCEPT !.status = "expired"]
             ELSE res[key]]
        /\ Ends(c) /\ UNCHANGED <<now, counter, gone>>

\* The counters become what is there.
Reconcile(c) ==
    /\ call[c].step = "commits" /\ call[c].op = "reconcile"
    /\ counter' = [k \in Kinds |-> IF k \in call[c].kinds
                     THEN [counter[k] EXCEPT ![0] = call[c].saw[k]] ELSE counter[k]]
    /\ Ends(c) /\ UNCHANGED <<now, res, gone>>

RollBack(c) ==
    /\ call[c].step \in {"admitted", "commits"} /\ Ends(c)
    /\ UNCHANGED <<now, res, counter, gone>>

-----------------------------------------------------------------------------
\* expire_reserved, in batches and without the admission lock.
Sweep ==
    /\ \E keys \in SUBSET {key \in Keys : DueAt(key, now)} :
        /\ keys # {}
        /\ res' = [key \in Keys |-> IF key \in keys THEN [res[key] EXCEPT !.status = "expired"]
                                                    ELSE res[key]]
    /\ UNCHANGED <<now, counter, lock, call, gone>>

\* Deleting a document does not touch the counters.
DeleteDocument(u) ==
    /\ u \notin gone /\ \A k \in KindsOf(u) : res[<<u, k>>].status = "finalized"
    /\ gone' = gone \cup {u} /\ UNCHANGED <<now, res, counter, lock, call>>

Tick ==
    /\ now < MaxTime /\ now' = now + 1
    /\ UNCHANGED <<res, counter, lock, call, gone>>

Next ==
    \/ Sweep \/ Tick
    \/ \E u \in Uploads : DeleteDocument(u)
    \/ \E c \in Callers :
        \/ \E op \in {"reserve", "finalize", "refund"}, s \in Subjects : Begin(c, op, s)
        \/ BeginReconcile(c) \/ Admit(c) \/ Look(c) \/ RollBack(c)
        \/ Reserve(c) \/ Finalize(c) \/ RefundReservation(c) \/ Reconcile(c)

Spec == Init /\ [][Next]_vars

-----------------------------------------------------------------------------
(* Properties *)

Finals(k, m) == {key \in Keys : key[2] = k /\ res[key].status = "finalized" /\ res[key].period = m}

\* No organisation is admitted beyond its limit, whatever expires while others wait for
\* the lock and across the turn of a month: what is counted in a period and what is
\* reserved exceed the limit only by what answers used beyond their estimate.
NeverOverAdmitted ==
    \A k \in Kinds :
        LET m == PeriodOf(k, now)
        IN  counter[k][m] + ReservedAt(k, now) <= Limit[k] + Beyond(AmountOf(k), Finals(k, m))

\* No settlement is lost and no repair of the counters forgets an upload that was
\* finalized beside it: a month of tokens is counted to the token, and documents and
\* bytes never below what is there.
EverythingIsCounted ==
    /\ \A m \in Months : counter["tokens"][m] = Amount(Finals("tokens", m))
    /\ \A k \in {"documents", "storage_bytes"} : counter[k][0] >= Held(k)

\* The document and the bytes of an upload are charged together or not at all, though
\* either may expire first (finalize_upload_in_txn, refund_upload_in_txn).
UploadsSettleTogether ==
    \A u \in Uploads :
        res[<<u, "documents">>].status = "finalized" <=> res[<<u, "storage_bytes">>].status = "finalized"

=============================================================================

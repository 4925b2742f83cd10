------------------------------ MODULE Members ------------------------------
(***************************************************************************)
(* The members of one organisation and its invites.  Each operation is a    *)
(* transaction of several statements, READ COMMITTED: it reads the target   *)
(* and the caller without a lock, locks the rows of the owners, counts and  *)
(* writes.                                                                  *)
(***************************************************************************)
EXTENDS Naturals, FiniteSets

CONSTANTS Users, Invites,
          Procs,    \* transactions in progress at a time
          Nobody,   \* the holder of a free row; nobody's request
          Founders  \* the owners the organisation starts with

(* Assumed by the module that instantiates this one.                         *)
MembersAssumption ==
    /\ Founders \subseteq Users /\ Founders # {}
    /\ Nobody \notin Procs \cup Users

VARIABLES member,   \* org_memberships: role and state
          invite,   \* org_invites: role and status
          joined,   \* who became a member through an invite
          row,      \* row locks of org_memberships
          proc      \* the transactions

vars == <<member, invite, joined, row, proc>>

Roles == {"owner", "admin"}
Absent == [role |-> "none", state |-> "none"]
Idle == [op |-> "none", at |-> "idle", caller |-> Nobody, target |-> Nobody,
         role |-> "none", read |-> Absent, todo |-> {}, owners |-> {}]

Init ==
    /\ member = [u \in Users |-> IF u \in Founders THEN [role |-> "owner", state |-> "active"] ELSE Absent]
    /\ invite = [i \in Invites |-> [role |-> "none", status |-> "none"]]
    /\ joined = [i \in Invites |-> {}]
    /\ row = [u \in Users |-> Nobody]
    /\ proc = [p \in Procs |-> Idle]

ActiveOwner(u) == member[u].role = "owner" /\ member[u].state = "active"
RowFree(u, p) == row[u] \in {Nobody, p}
RowsReleased(p) == [u \in Users |-> IF row[u] = p THEN Nobody ELSE row[u]]
Ended(p) == [proc EXCEPT ![p] = Idle]

-----------------------------------------------------------------------------
(* change_role, remove_member, suspend_member and reactivate_member read the *)
(* target; a change that changes nothing ends there.                         *)

Reads(p) ==
    /\ proc[p].at = "idle"
    /\ \E c, t \in Users, op \in {"change_role", "remove", "suspend", "reactivate"}, new \in Roles :
          /\ member[c].state = "active"
          /\ member[t] # Absent
          /\ op # "change_role" => new = "owner"
          /\ op = "change_role" => new # member[t].role
          /\ op = "suspend" => member[t].state = "active"
          /\ op = "reactivate" => member[t].state = "suspended"
          /\ proc' = [proc EXCEPT ![p] =
                [Idle EXCEPT !.op = op, !.at = "tier", !.caller = c, !.target = t,
                             !.role = IF op = "change_role" THEN new ELSE "none", !.read = member[t]]]
    /\ UNCHANGED <<member, invite, joined, row>>

OperationManagesOwner(p) == proc[p].read.role = "owner" \/ proc[p].role = "owner"

GuardOwnerTier(p) ==
    /\ proc[p].at = "tier"
    /\ proc' = IF OperationManagesOwner(p) /\ ~ActiveOwner(proc[p].caller) THEN Ended(p)
               ELSE [proc EXCEPT ![p].at = IF proc[p].op = "reactivate" THEN "write" ELSE "owners",
                                 ![p].caller = Nobody, ![p].read.role = "none"]
    /\ UNCHANGED <<member, invite, joined, row>>

(* lock_owner_rows: the rows that are owners when the statement starts are   *)
(* locked one by one, and read again once locked.                            *)
OwnersSeen(p) ==
    /\ proc[p].at = "owners"
    /\ proc' = [proc EXCEPT ![p].at = "locking", ![p].todo = {u \in Users : member[u].role = "owner"}]
    /\ UNCHANGED <<member, invite, joined, row>>

LockOwnerRow(p) ==
    /\ proc[p].at = "locking"
    /\ \E u \in proc[p].todo :
          /\ RowFree(u, p)
          /\ row' = IF member[u] = Absent THEN row ELSE [row EXCEPT ![u] = p]
          /\ proc' = [proc EXCEPT ![p].todo = @ \ {u},
                                  ![p].owners = IF ActiveOwner(u) THEN @ \cup {u} ELSE @]
    /\ UNCHANGED <<member, invite, joined>>

WillBeActiveOwner(p) == proc[p].op = "change_role" /\ proc[p].role = "owner" /\ proc[p].read.state = "active"

CountAll(p) == proc[p].owners # {} \/ WillBeActiveOwner(p)
CheckLastOwner(p) == proc[p].owners \ {proc[p].target} # {} \/ WillBeActiveOwner(p)

GuardLastOwner(p) ==
    /\ proc[p].at = "locking" /\ proc[p].todo = {}
    /\ IF CheckLastOwner(p)
       THEN /\ proc' = [proc EXCEPT ![p].at = "write", ![p].read = Absent, ![p].owners = {}]
            /\ UNCHANGED row
       ELSE proc' = Ended(p) /\ row' = RowsReleased(p)
    /\ UNCHANGED <<member, invite, joined>>

(* The row of the target is updated as it is now, one that is gone fails,    *)
(* and the transaction commits.                                              *)
Changed(p, m) ==
    CASE proc[p].op = "change_role" -> [m EXCEPT !.role = proc[p].role]
      [] proc[p].op = "remove" -> Absent
      [] proc[p].op = "suspend" -> [m EXCEPT !.state = "suspended"]
      [] proc[p].op = "reactivate" -> [m EXCEPT !.state = "active"]

Writes(p) ==
    /\ proc[p].at = "write" /\ RowFree(proc[p].target, p)
    /\ member' = [member EXCEPT ![proc[p].target] = IF @ = Absent THEN @ ELSE Changed(p, @)]
    /\ row' = RowsReleased(p)
    /\ proc' = Ended(p)
    /\ UNCHANGED <<invite, joined>>

(* A transaction that fails, or that the database ends to break a deadlock   *)
(* of row locks.                                                             *)
RollsBack(p) ==
    /\ proc[p].at \in {"locking", "write"}
    /\ row' = RowsReleased(p)
    /\ proc' = Ended(p)
    /\ UNCHANGED <<member, invite, joined>>

-----------------------------------------------------------------------------
(* create_invite, revoke_invite and accept_invite.                           *)

CreateInvite ==
    /\ \E i \in Invites, c \in Users, r \in Roles :
          /\ invite[i].status = "none" /\ member[c].state = "active"
          /\ r = "owner" => ActiveOwner(c)
          /\ invite' = [invite EXCEPT ![i] = [role |-> r, status |-> "open"]]
    /\ UNCHANGED <<member, joined, row, proc>>

(* Expiry is a time of the clock: from then on nobody accepts it.            *)
RevokeInvite ==
    /\ \E i \in Invites :
          /\ invite[i].status = "open"
          /\ invite' = [invite EXCEPT ![i].status = "revoked"]
    /\ UNCHANGED <<member, joined, row, proc>>

AcceptReads(p) ==
    /\ proc[p].at = "idle"
    /\ \E i \in Invites, u \in Users :
          /\ invite[i].status = "open"
          /\ proc' = [proc EXCEPT ![p] = [Idle EXCEPT !.op = "accept", !.at = "accept",
                                                      !.target = u, !.todo = {i}]]
    /\ UNCHANGED <<member, invite, joined, row>>

WasOpen(i) == TRUE
StillOpen(i) == invite[i].status = "open"

(* The membership is inserted unless there is one, the invite marked if it   *)
(* is still open; otherwise everything is rolled back.                       *)
AcceptWrites(p) ==
    /\ proc[p].at = "accept"
    /\ \E i \in proc[p].todo :
          LET u == proc[p].target
          IN IF member[u] = Absent /\ StillOpen(i)
             THEN /\ member' = [member EXCEPT ![u] = [role |-> invite[i].role, state |-> "active"]]
                  /\ invite' = [invite EXCEPT ![i].status = "accepted"]
                  /\ joined' = [joined EXCEPT ![i] = @ \cup {u}]
             ELSE UNCHANGED <<member, invite, joined>>
    /\ proc' = Ended(p)
    /\ UNCHANGED row

Next ==
    \/ \E p \in Procs :
          \/ Reads(p) \/ GuardOwnerTier(p) \/ OwnersSeen(p) \/ LockOwnerRow(p) \/ GuardLastOwner(p)
          \/ Writes(p) \/ RollsBack(p) \/ AcceptReads(p) \/ AcceptWrites(p)
    \/ CreateInvite \/ RevokeInvite

Spec == Init /\ [][Next]_vars

-----------------------------------------------------------------------------
TypeOK ==
    /\ member \in [Users -> [role : Roles \cup {"none"}, state : {"active", "suspended", "none"}]]
    /\ row \in [Users -> Procs \cup {Nobody}]
    /\ \A i \in Invites : joined[i] \subseteq Users /\ invite[i].role \in Roles \cup {"none"}

(* However changes of role, suspensions and removals overlap, also those     *)
(* that read a target who has changed since, the organisation keeps an       *)
(* active owner (guard_last_owner counts under the locks of the owner rows). *)
AlwaysAnOwner == \E u \in Users : ActiveOwner(u)

(* An invite makes at most one user a member, and none once it was revoked.  *)
InviteUsedOnce ==
    \A i \in Invites : Cardinality(joined[i]) <= (IF invite[i].status = "accepted" THEN 1 ELSE 0)
=============================================================================

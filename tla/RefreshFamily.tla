---------------------------- MODULE RefreshFamily ----------------------------
(***************************************************************************)
(* The refresh tokens of one member of an organisation: login and switch of *)
(* organisation start a family, refresh rotates its token, reuse of an old  *)
(* token, logout, suspension, removal and revoke-all end it.  Each of them  *)
(* is a transaction; what it reads before it holds the lock of the family,  *)
(* and what it reads of the membership, may be old when it writes.          *)
(***************************************************************************)
EXTENDS Naturals, Sequences, FiniteSets

CONSTANTS Families,    \* family ids
          Procs,       \* requests in progress at a time
          Nobody,      \* the holder of a free lock
          MaxTokens,   \* bound: refresh tokens ever minted
          MaxChanges   \* bound: changes of the membership and expiries

ASSUME NobodyAssumption == Nobody \notin Procs
ASSUME TokenBoundAssumption == MaxTokens \in Nat /\ MaxChanges \in Nat

VARIABLES tokens,     \* refresh_tokens as committed: family, state, whether it expired
          member,     \* org_memberships: active, suspended or removed
          userLock,   \* advisory lock of the user
          famLock,    \* advisory lock of each family
          proc,       \* the requests
          known,      \* tokens whose minting was answered, to whoever holds them
          ended,      \* families somebody was told are ended
          changes     \* changes left

vars == <<tokens, member, userLock, famLock, proc, known, ended, changes>>

Minted == 1..Len(tokens)
Live(t) == tokens[t].state = "live"
Of(f) == {t \in Minted : tokens[t].family = f}
LiveIn(f) == {t \in Of(f) : Live(t)}
Free(f) == famLock[f] = Nobody

Idle == [op |-> "none", at |-> "idle", token |-> 0, rows |-> {}, todo |-> {}]
States == {"live", "rotated", "revoked", "gone"}

Init ==
    /\ tokens = <<>>
    /\ member = "active"
    /\ userLock = Nobody
    /\ famLock = [f \in Families |-> Nobody]
    /\ proc = [p \in Procs |-> Idle]
    /\ known = {} /\ ended = {}
    /\ changes = MaxChanges

Enters(p, op, at, token, rows, todo) ==
    proc' = [proc EXCEPT ![p] = [op |-> op, at |-> at, token |-> token, rows |-> rows, todo |-> todo]]
Ends(p) == proc' = [proc EXCEPT ![p] = Idle]
FamilyOf(p) == tokens[proc[p].token].family
Unlocked(p) == [f \in Families |-> IF famLock[f] = p THEN Nobody ELSE famLock[f]]
Mint(f) == [family |-> f, state |-> "live", old |-> FALSE]

(* A rotation holds the row of its token from the read that decides on it.   *)
RowFree(t, p) == \A q \in Procs \ {p} : ~(proc[q].at \in {"rotate", "commit"} /\ proc[q].token = t)

Revoked(set) ==
    [t \in Minted |-> IF t \in set /\ Live(t)
                      THEN [family |-> tokens[t].family, state |-> "revoked", old |-> tokens[t].old]
                      ELSE tokens[t]]

-----------------------------------------------------------------------------
(* login_with_password and switch_org resolve the membership in one          *)
(* transaction and issue_new_family inserts in another: the foreign key      *)
(* notices a removal in between, nothing notices a suspension.               *)

LoginChecks(p) ==
    /\ proc[p].at = "idle" /\ member = "active" /\ Len(tokens) < MaxTokens
    /\ Enters(p, "login", "issue", 0, {}, {})
    /\ UNCHANGED <<tokens, member, userLock, famLock, known, ended, changes>>

LoginIssues(p) ==
    /\ proc[p].at = "issue" /\ userLock = Nobody
    /\ IF member = "removed" \/ Len(tokens) >= MaxTokens THEN UNCHANGED <<tokens, known>>
       ELSE \E f \in Families :
               /\ Of(f) = {} /\ Free(f)
               /\ tokens' = Append(tokens, Mint(f))
               /\ known' = known \cup {Len(tokens) + 1}
    /\ Ends(p)
    /\ UNCHANGED <<member, userLock, famLock, ended, changes>>

-----------------------------------------------------------------------------
(* refresh_session: look the token up, lock the family, read again.          *)

LooksUp(p) ==
    /\ proc[p].at = "idle"
    /\ \E t \in known, op \in {"refresh", "logout"} :
          tokens[t].state # "gone" /\ Enters(p, op, "lock", t, {}, {})
    /\ UNCHANGED <<tokens, member, userLock, famLock, known, ended, changes>>

\* Mutant: nobody waits for a family.
LockFree(f) == TRUE
CanLock(f) == Free(f)

LocksFamily(p) ==
    /\ proc[p].at = "lock" /\ CanLock(FamilyOf(p))
    /\ Enters(p, proc[p].op, IF proc[p].op = "refresh" THEN "read" ELSE "revoke", proc[p].token,
              IF proc[p].op = "refresh" THEN {} ELSE LiveIn(FamilyOf(p)), {})
    /\ famLock' = [famLock EXCEPT ![FamilyOf(p)] = p]
    /\ UNCHANGED <<tokens, member, userLock, known, ended, changes>>

Reused(t) == tokens[t].state \in {"rotated", "revoked"}
Acceptable(t) == Live(t) /\ ~tokens[t].old

(* A row that is gone fails, and an expired token ends only itself.          *)
RefreshRefuses(p) ==
    /\ proc[p].at = "read" /\ RowFree(proc[p].token, p)
    /\ LET t == proc[p].token
       IN \/ tokens[t].state = "gone" /\ UNCHANGED tokens
          \/ Live(t) /\ tokens[t].old /\ tokens' = Revoked({t})
    /\ famLock' = Unlocked(p)
    /\ Ends(p)
    /\ UNCHANGED <<member, userLock, known, ended, changes>>

(* Reuse, and a member who is not active, end the family: the UPDATE works   *)
(* on the rows committed when it starts.                                     *)
RefreshRevokes(p) ==
    /\ proc[p].at = "read" /\ RowFree(proc[p].token, p)
    /\ \/ Reused(proc[p].token)
       \/ Acceptable(proc[p].token) /\ member # "active"
    /\ Enters(p, "refresh", "revoke", proc[p].token, LiveIn(FamilyOf(p)), {})
    /\ UNCHANGED <<tokens, member, userLock, famLock, known, ended, changes>>

RefreshAccepts(p) ==
    /\ proc[p].at = "read" /\ RowFree(proc[p].token, p)
    /\ Acceptable(proc[p].token) /\ member = "active"
    /\ Enters(p, "refresh", "rotate", proc[p].token, {}, {})
    /\ UNCHANGED <<tokens, member, userLock, famLock, known, ended, changes>>

(* The successor is inserted and the old row, locked since the read and so   *)
(* still live, updated: nobody else sees either before the commit.           *)
RefreshWrites(p) ==
    /\ proc[p].at = "rotate" /\ Len(tokens) < MaxTokens
    /\ Enters(p, "refresh", "commit", proc[p].token, {}, {})
    /\ UNCHANGED <<tokens, member, userLock, famLock, known, ended, changes>>

Rotated(t) ==
    Append([u \in Minted |-> IF u = t THEN [family |-> tokens[t].family, state |-> "rotated", old |-> tokens[t].old]
                             ELSE tokens[u]],
           Mint(tokens[t].family))

(* The answer may be lost: the client still holds the old token.             *)
RefreshCommits(p) ==
    /\ proc[p].at = "commit" /\ Len(tokens) < MaxTokens
    /\ tokens' = Rotated(proc[p].token)
    /\ \E answered \in BOOLEAN : known' = IF answered THEN known \cup {Len(tokens) + 1} ELSE known
    /\ famLock' = Unlocked(p)
    /\ Ends(p)
    /\ UNCHANGED <<member, userLock, ended, changes>>

-----------------------------------------------------------------------------
(* revoke_family_in_txn, at the end of a refused refresh and of              *)
(* logout_session: rows that others hold are waited for; one that was        *)
(* rotated meanwhile is left as it is, a successor was not seen.             *)
RowsAreFree(p) == \A t \in proc[p].rows : RowFree(t, p)

RevokesFamily(p) ==
    /\ proc[p].op \in {"refresh", "logout"} /\ proc[p].at = "revoke" /\ RowsAreFree(p)
    /\ tokens' = Revoked(proc[p].rows)
    /\ ended' = ended \cup {FamilyOf(p)}
    /\ famLock' = Unlocked(p)
    /\ Ends(p)
    /\ UNCHANGED <<member, userLock, known, changes>>

(* The transaction or the connection breaks: nothing was written.            *)
Fails(p) ==
    /\ proc[p].op \in {"refresh", "logout"} /\ proc[p].at # "lock"
    /\ famLock' = Unlocked(p)
    /\ Ends(p)
    /\ UNCHANGED <<tokens, member, userLock, known, ended, changes>>

-----------------------------------------------------------------------------
(* revoke_all_user_families: the user, every family in order, then all rows, *)
(* and once more what appeared since.                                        *)

RevokeAllStarts(p) ==
    /\ proc[p].at = "revokeall" /\ userLock = Nobody
    /\ userLock' = p
    /\ Enters(p, "revokeall", "locking", 0, {}, {f \in Families : \E t \in Of(f) : tokens[t].state # "gone"})
    /\ UNCHANGED <<tokens, member, famLock, known, ended, changes>>

RevokeAllLocks(p) ==
    /\ proc[p].at = "locking"
    /\ \E f \in proc[p].todo :
          /\ Free(f)
          /\ famLock' = [famLock EXCEPT ![f] = p]
          /\ Enters(p, "revokeall", "locking", 0, {}, proc[p].todo \ {f})
    /\ UNCHANGED <<tokens, member, userLock, known, ended, changes>>

RevokeAllSees(p) ==
    /\ proc[p].at = "locking" /\ proc[p].todo = {}
    /\ Enters(p, "revokeall", "revoke", 0, {t \in Minted : Live(t)}, {})
    /\ UNCHANGED <<tokens, member, userLock, famLock, known, ended, changes>>

Appeared(p) == {t \in Minted : Live(t)} \ proc[p].rows

RevokeAllEnds(p) ==
    /\ proc[p].op = "revokeall" /\ proc[p].at = "revoke" /\ RowsAreFree(p)
    /\ \A t \in Appeared(p) : famLock[tokens[t].family] \in {Nobody, p} /\ RowFree(t, p)
    /\ tokens' = Revoked(proc[p].rows \cup Appeared(p))
    /\ ended' = ended \cup {f \in Families : Of(f) # {}}
    /\ userLock' = Nobody
    /\ famLock' = Unlocked(p)
    /\ Ends(p)
    /\ UNCHANGED <<member, known, changes>>

RevokeAllIsLost(p) ==
    /\ proc[p].op = "revokeall"
    /\ userLock' = IF userLock = p THEN Nobody ELSE userLock
    /\ famLock' = Unlocked(p)
    /\ Ends(p)
    /\ UNCHANGED <<tokens, member, known, ended, changes>>

-----------------------------------------------------------------------------
(* The routes of the members: the change commits, then the sessions are      *)
(* revoked; the process may die, or the second half fail, in between.        *)

Changes == changes > 0 /\ changes' = changes - 1

Suspend(p) ==
    /\ proc[p].at = "idle" /\ Changes /\ member = "active"
    /\ member' = "suspended"
    /\ Enters(p, "revokeall", "revokeall", 0, {}, {})
    /\ UNCHANGED <<tokens, userLock, famLock, known, ended>>

(* A downgrade leaves the membership active.                                 *)
Downgrade(p) ==
    /\ proc[p].at = "idle" /\ Changes /\ member = "active"
    /\ Enters(p, "revokeall", "revokeall", 0, {}, {})
    /\ UNCHANGED <<tokens, member, userLock, famLock, known, ended>>

(* The rows of the tokens are deleted first: a rotation that has locked one  *)
(* of them makes the deletion wait, and its successor, which the deletion    *)
(* does not see, makes the foreign key refuse the removal as a whole.        *)
Remove(p) ==
    /\ proc[p].at = "idle" /\ Changes /\ member # "removed"
    /\ \A q \in Procs : proc[q].at \notin {"rotate", "commit"}
    /\ member' = "removed"
    /\ tokens' = [t \in Minted |-> [family |-> tokens[t].family, state |-> "gone", old |-> tokens[t].old]]
    /\ Enters(p, "revokeall", "revokeall", 0, {}, {})
    /\ UNCHANGED <<userLock, famLock, known, ended>>

Reactivate ==
    /\ Changes /\ member \in {"suspended", "removed"}
    /\ member' = "active"
    /\ UNCHANGED <<tokens, userLock, famLock, proc, known, ended>>

TokenExpires ==
    /\ Changes
    /\ \E t \in Minted : /\ Acceptable(t)
                        /\ tokens' = [u \in Minted |->
                              IF u = t THEN [family |-> tokens[t].family, state |-> "live", old |-> TRUE]
                              ELSE tokens[u]]
    /\ UNCHANGED <<member, userLock, famLock, proc, known, ended>>

-----------------------------------------------------------------------------
Request(p) ==
    \/ LoginChecks(p) \/ LoginIssues(p)
    \/ LooksUp(p) \/ LocksFamily(p)
    \/ RefreshRefuses(p) \/ RefreshRevokes(p) \/ RefreshAccepts(p) \/ RefreshWrites(p) \/ RefreshCommits(p)
    \/ RevokesFamily(p) \/ Fails(p)
    \/ RevokeAllStarts(p) \/ RevokeAllLocks(p) \/ RevokeAllSees(p) \/ RevokeAllEnds(p) \/ RevokeAllIsLost(p)
    \/ Suspend(p) \/ Downgrade(p) \/ Remove(p)

Next == (\E p \in Procs : Request(p)) \/ Reactivate \/ TokenExpires

Spec == Init /\ [][Next]_vars

-----------------------------------------------------------------------------
TypeOK ==
    /\ tokens \in Seq([family : Families, state : States, old : BOOLEAN])
    /\ Len(tokens) <= MaxTokens
    /\ member \in {"active", "suspended", "removed"}
    /\ userLock \in Procs \cup {Nobody}
    /\ famLock \in [Families -> Procs \cup {Nobody}]
    /\ proc \in [Procs -> [op : {"none", "login", "refresh", "logout", "revokeall"},
                           at : {"idle", "issue", "lock", "read", "rotate", "commit", "revoke",
                                 "revokeall", "locking"},
                           token : 0..MaxTokens, rows : SUBSET (1..MaxTokens), todo : SUBSET Families]]
    /\ known \subseteq Minted /\ ended \subseteq Families
    /\ changes \in Nat

(* At any time a family has at most one token that can be refreshed: of two  *)
(* refreshes that present the same token one is answered and the other is    *)
(* reuse.                                                                    *)
OneLivePerFamily ==
    \A t, u \in Minted : tokens[t].family = tokens[u].family /\ Live(t) /\ Live(u) => t = u

(* Once a logout, a reuse or a revoke-all was told that a family is ended,   *)
(* no token of it can be refreshed: a rotation that was under way has not    *)
(* left a successor its UPDATE could not see (all of them lock the family    *)
(* first).                                                                   *)
EndedStaysDead == \A f \in ended : LiveIn(f) = {}

-----------------------------------------------------------------------------
(* Why: whoever decides on a family holds its lock, so what it saw of the    *)
(* family is all that lives in it until it has written.                      *)

RevokesOne(p) == proc[p].op \in {"refresh", "logout"} /\ proc[p].at = "revoke"
Decides(p) == proc[p].at \in {"read", "rotate", "commit"} \/ RevokesOne(p)

TokensAreMinted ==
    \A p \in Procs : proc[p].at = "lock" \/ Decides(p) => proc[p].token \in Minted

DecidersHoldTheLock == \A p \in Procs : Decides(p) => famLock[FamilyOf(p)] = p

RotatesWhatLives ==
    \A p \in Procs : proc[p].at \in {"rotate", "commit"} => Live(proc[p].token)

RevokersSeeAll == \A p \in Procs : RevokesOne(p) => LiveIn(FamilyOf(p)) \subseteq proc[p].rows

EndedFamiliesExist == \A f \in ended : Of(f) # {}

(* The inductive invariant.                                                  *)
IInv ==
    /\ TypeOK
    /\ OneLivePerFamily
    /\ EndedStaysDead
    /\ TokensAreMinted
    /\ DecidersHoldTheLock
    /\ RotatesWhatLives
    /\ RevokersSeeAll
    /\ EndedFamiliesExist
=============================================================================

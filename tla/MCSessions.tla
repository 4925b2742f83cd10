----------------------------- MODULE MCSessions -----------------------------
(***************************************************************************)
(* The instance of the three mechanisms behind a signed-in member: refresh  *)
(* tokens, memberships and invites, the principal cache.  They meet only in *)
(* the state of a membership, which each module lets change as it likes, so *)
(* one run explores each from its own initial states.  Beside them stands   *)
(* the index of the desktop application, which shares nothing with them:    *)
(* one document that is edited, and two that come together.                 *)
(***************************************************************************)
EXTENDS RefreshFamily, TLC

CONSTANTS Users, Founders, Invites, Accounts, RoleNames, Scopes, Capacity, MaxVersion

VARIABLES part, members, invite, joined, row, clerk,
          role, scope, disabled, version, entries, request, held,
          store, meta, ann, command, moved, blame

M == INSTANCE Members WITH member <- members, proc <- clerk
C == INSTANCE ContextCache WITH Users <- Accounts, Requests <- Procs
DE == INSTANCE DesktopIndex WITH
        Docs <- {"d1"}, Texts <- {"blank", "v1"}, Blank <- "blank", MinPoints <- 1,
        Plans <- {"local", "provider"}, Local <- "local", None <- Nobody, job <- command
DT == INSTANCE DesktopIndex WITH
        Docs <- {"d1", "d2"}, Texts <- {"v1"}, Blank <- "blank", MinPoints <- 2,
        Plans <- {"local", "provider"}, Local <- "local", None <- Nobody, job <- command

ASSUME InstancesAssumption ==
    M!MembersAssumption /\ C!CacheAssumption /\ DE!DesktopAssumption /\ DT!DesktopAssumption

mvars == <<members, invite, joined, row, clerk>>
cvars == <<role, scope, disabled, version, entries, request, held>>
dvars == <<store, meta, ann, command, moved, blame>>

MCInit ==
    /\ part \in {"tokens", "members", "cache", "edits", "corpus"} /\ Init /\ M!Init /\ C!Init
    /\ part # "cache" => \A a \in Accounts : scope[a] = CHOOSE s \in Scopes : TRUE
    /\ IF part = "edits" THEN DE!Init ELSE DT!Init

MCNext ==
    /\ \/ part = "tokens" /\ Next /\ UNCHANGED <<mvars, cvars, dvars>>
       \/ part = "members" /\ M!Next /\ UNCHANGED <<vars, cvars, dvars>>
       \/ part = "cache" /\ C!Next /\ UNCHANGED <<vars, mvars, dvars>>
       \/ part = "edits" /\ DE!Next /\ UNCHANGED <<vars, mvars, cvars>>
       \/ part = "corpus" /\ DT!Next /\ UNCHANGED <<vars, mvars, cvars>>
    /\ UNCHANGED part

MCSpec == MCInit /\ [][MCNext]_<<part, vars, mvars, cvars, dvars>>

AlwaysAnOwner == M!AlwaysAnOwner
InviteUsedOnce == M!InviteUsedOnce
OnlyRacedFillsAreStale == C!OnlyRacedFillsAreStale
SearchesOneIndex ==
    /\ part = "edits" => DE!SearchesOneIndex
    /\ part = "corpus" => DT!SearchesOneIndex

Symmetry == Permutations(Procs) \cup Permutations(Founders)
=============================================================================

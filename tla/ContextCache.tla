---------------------------- MODULE ContextCache ----------------------------
(***************************************************************************)
(* The cache of resolved principals of one process: a request looks its     *)
(* user up, trusts the entry only after asking the database for the version *)
(* of the organisation's access rules and whether the user is disabled, and *)
(* otherwise resolves afresh and stores the result under the version it     *)
(* reads afterwards.  Every step is a database round trip of its own.       *)
(***************************************************************************)
EXTENDS Naturals, FiniteSets

CONSTANTS Users,       \* members of one organisation
          Nobody,      \* whom a request is for that has not begun
          Requests,    \* requests in progress at a time
          RoleNames,   \* roles of a membership; the permissions follow from it
          Scopes,      \* sets of collections a user may be granted
          Capacity,    \* principals the cache holds
          MaxVersion   \* bound: changes of the access rules

(* Assumed by the module that instantiates this one.                         *)
CacheAssumption == Capacity \in Nat \ {0} /\ MaxVersion \in Nat /\ Nobody \notin Users

VARIABLES role, scope, disabled,   \* what the database says of each user
          version,                 \* orgs.acl_version
          entries,                 \* the cache: what it holds for a user, if anything
          request,                 \* the requests
          held                     \* the roles and scopes a request's user had since it began

vars == <<role, scope, disabled, version, entries, request, held>>

NoEntry == [role |-> "none", scope |-> "none", version |-> 0, aged |-> FALSE, raced |-> FALSE]
Cached == {u \in Users : entries[u] # NoEntry}
Nothing == [role |-> {}, scope |-> {}, disabled |-> {}]
NoRequest == [at |-> "idle", user |-> Nobody, entry |-> NoEntry]

Init ==
    /\ role \in [Users -> RoleNames] /\ scope \in [Users -> Scopes]
    /\ disabled = {}
    /\ version = 0
    /\ entries = [u \in Users |-> NoEntry]
    /\ request = [r \in Requests |-> NoRequest]
    /\ held = [r \in Requests |-> Nothing]

InProgress(r) == request[r].at \notin {"idle", "served"}
At(r, where, entry) == request' = [request EXCEPT ![r].at = where, ![r].entry = entry]
Now(u) == [role |-> {role[u]}, scope |-> {scope[u]}, disabled |-> IF u \in disabled THEN {TRUE} ELSE {FALSE}]

-----------------------------------------------------------------------------
(* OrgContextCache::resolve.                                                 *)

ShouldCheckFreshness(e) == e # NoEntry /\ ~e.aged

Begin(r) ==
    /\ ~InProgress(r)
    /\ \E u \in Users :
          /\ request' = [request EXCEPT ![r] =
                [at |-> IF ShouldCheckFreshness(entries[u]) THEN "check" ELSE "membership",
                 user |-> u,
                 entry |-> IF ShouldCheckFreshness(entries[u]) THEN entries[u] ELSE NoEntry]]
          /\ held' = [held EXCEPT ![r] = Now(u)]
    /\ UNCHANGED <<role, scope, disabled, version, entries>>

(* Mutant: the version is not compared.                                      *)
AnyVersion(r) == request[r].user \notin disabled
TrustsCache(r) == request[r].user \notin disabled /\ request[r].entry.version = version

(* The freshness query may fail: then nothing is trusted.                    *)
FreshnessCheck(r) ==
    /\ request[r].at = "check"
    /\ \/ TrustsCache(r) /\ At(r, "served", request[r].entry)
       \/ At(r, "membership", NoEntry)
    /\ UNCHANGED <<role, scope, disabled, version, entries, held>>

(* resolve_org_context_in_txn: user and membership, then the collections;    *)
(* each statement sees what is committed when it starts.  A resolution that  *)
(* fails, or finds no member, refuses the request.                           *)
ResolveMembership(r) ==
    /\ request[r].at = "membership"
    /\ LET u == request[r].user
       IN \/ /\ u \notin disabled /\ role[u] # "none"
             /\ At(r, "collections", [NoEntry EXCEPT !.role = role[u], !.version = version])
             /\ UNCHANGED held
          \/ /\ request' = [request EXCEPT ![r] = NoRequest]
             /\ held' = [held EXCEPT ![r] = Nothing]
    /\ UNCHANGED <<role, scope, disabled, version, entries>>

ResolveCollections(r) ==
    /\ request[r].at = "collections"
    /\ At(r, "version", [request[r].entry EXCEPT !.scope = scope[request[r].user]])
    /\ UNCHANGED <<role, scope, disabled, version, entries, held>>

(* The version is read last; "raced" remembers whether the rules changed     *)
(* since the resolution began.                                               *)
Stored(r) == [request[r].entry EXCEPT !.version = version, !.raced = request[r].entry.version # version]

Insert(r) ==
    LET u == request[r].user
        full == Cardinality(Cached) >= Capacity /\ u \notin Cached
    IN \E gone \in (IF full THEN {{v} : v \in Cached} ELSE {{}}) :
          entries' = [v \in Users |-> IF v = u THEN Stored(r)
                                      ELSE IF v \in gone THEN NoEntry ELSE entries[v]]

ReadVersion(r) ==
    /\ request[r].at = "version"
    /\ Insert(r) \/ UNCHANGED entries
    /\ At(r, "served", Stored(r))
    /\ UNCHANGED <<role, scope, disabled, version, held>>

-----------------------------------------------------------------------------
(* The world.  A change of role, of membership or of a grant bumps the       *)
(* version in its own transaction; disabling an account does not.            *)

Sees(r, u, h) == IF request[r].user = u /\ InProgress(r)
                 THEN [role |-> held[r].role \cup h.role, scope |-> held[r].scope \cup h.scope,
                       disabled |-> held[r].disabled \cup h.disabled]
                 ELSE held[r]
Seen(u, h) == held' = [r \in Requests |-> Sees(r, u, h)]

BumpAclVersion == version' = version + 1

ChangeRole(u) ==
    /\ version < MaxVersion
    /\ \E new \in RoleNames \cup {"none"} :
          new # role[u] /\ role' = [role EXCEPT ![u] = new] /\ Seen(u, [Nothing EXCEPT !.role = {new}])
    /\ BumpAclVersion
    /\ UNCHANGED <<scope, disabled, entries, request>>

ChangeGrants(u) ==
    /\ version < MaxVersion
    /\ \E new \in Scopes :
          new # scope[u] /\ scope' = [scope EXCEPT ![u] = new] /\ Seen(u, [Nothing EXCEPT !.scope = {new}])
    /\ BumpAclVersion
    /\ UNCHANGED <<role, disabled, entries, request>>

DisableUser(u) ==
    /\ u \notin disabled
    /\ disabled' = disabled \cup {u}
    /\ Seen(u, [Nothing EXCEPT !.disabled = {TRUE}])
    /\ UNCHANGED <<role, scope, version, entries, request>>

EnableUser(u) ==
    /\ u \in disabled
    /\ disabled' = disabled \ {u}
    /\ Seen(u, [Nothing EXCEPT !.disabled = {FALSE}])
    /\ UNCHANGED <<role, scope, version, entries, request>>

(* The time to live of an entry runs out.                                    *)
EntryAges(u) ==
    /\ u \in Cached /\ ~entries[u].aged
    /\ entries' = [entries EXCEPT ![u].aged = TRUE]
    /\ UNCHANGED <<role, scope, disabled, version, request, held>>

Next ==
    \/ \E r \in Requests :
          \/ Begin(r) \/ FreshnessCheck(r) \/ ResolveMembership(r) \/ ResolveCollections(r)
          \/ ReadVersion(r)
    \/ \E u \in Users :
          \/ ChangeRole(u) \/ ChangeGrants(u) \/ DisableUser(u) \/ EnableUser(u) \/ EntryAges(u)

Spec == Init /\ [][Next]_vars

-----------------------------------------------------------------------------
TypeOK ==
    LET Entry == [role : RoleNames \cup {"none"}, scope : Scopes \cup {"none"}, version : 0..MaxVersion,
                  aged : BOOLEAN, raced : BOOLEAN]
    IN /\ role \in [Users -> RoleNames \cup {"none"}] /\ scope \in [Users -> Scopes]
       /\ disabled \subseteq Users /\ version \in 0..MaxVersion
       /\ entries \in [Users -> Entry]
       /\ request \in [Requests -> [at : {"idle", "check", "membership", "collections", "version",
                                          "served"}, user : Users \cup {Nobody}, entry : Entry]]

Served(r) == request[r].at = "served"
Current(r) == request[r].entry.role \in held[r].role /\ request[r].entry.scope \in held[r].scope

(* A request is served with rights its user had at some moment of the        *)
(* request: a revocation takes effect on the very next request.              *)
RevokeIsImmediate == \A r \in Requests : Served(r) => Current(r)

(* Only an entry whose filling overlapped a change of the rules can serve    *)
(* rights the user had lost before the request began, and only while it is   *)
(* young: everything else the version check catches. A user disabled all     *)
(* through a request is not served, though that does not change the version. *)
OnlyRacedFillsAreStale ==
    \A r \in Requests : Served(r) =>
        /\ FALSE \in held[r].disabled
        /\ Current(r) \/ (request[r].entry.raced /\ ~request[r].entry.aged)
=============================================================================

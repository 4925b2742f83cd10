--------------------------- MODULE SessionsProofs ---------------------------
(***************************************************************************)
(* Proofs about the refresh families, the members of an organisation, its   *)
(* invites, the cache of principals and the index of the desktop, as        *)
(* MCSessions composes them, for every number of families, tokens, users,   *)
(* invites, transactions, requests and commands.                            *)
(***************************************************************************)
EXTENDS MCSessions, FiniteSetTheorems, SequenceTheorems, TLAPS

-----------------------------------------------------------------------------
(* Refresh families.                                                        *)

Token == [family : Families, state : States, old : BOOLEAN]

LEMMA TokensAre == ASSUME TypeOK PROVE \A t \in Minted : tokens[t] \in Token
<1>1. tokens \in Seq(Token) BY DEF TypeOK, Token
<1> QED BY <1>1, ElementOfSeq DEF Minted

(* What revoking a set of tokens does: they are no longer live, nothing      *)
(* else changes.                                                             *)
LEMMA RevokedIs ==
    ASSUME TypeOK, NEW S, tokens' = Revoked(S)
    PROVE /\ tokens' \in Seq(Token) /\ Len(tokens') = Len(tokens) /\ Minted' = Minted
          /\ \A t \in Minted : tokens'[t].family = tokens[t].family
          /\ \A t \in Minted : Live(t)' <=> Live(t) /\ t \notin S
          /\ \A f : Of(f)' = Of(f)
          /\ \A f : LiveIn(f)' = LiveIn(f) \ S
<1>1. \A t \in Minted : tokens[t] \in Token BY TokensAre
<1>2. Len(tokens) \in Nat BY DEF TypeOK
<1>3. /\ tokens' \in Seq(Token) /\ Len(tokens') = Len(tokens)
  <2>1. \A t \in 1..Len(tokens) : tokens'[t] \in Token
    BY <1>1 DEF Revoked, Minted, Token, States
  <2>2. tokens' = [t \in 1..Len(tokens) |-> tokens'[t]]
    BY DEF Revoked, Minted
  <2> QED BY <2>1, <2>2, <1>2
<1>4. Minted' = Minted BY <1>3 DEF Minted
<1>5. \A t \in Minted : tokens'[t].family = tokens[t].family
  BY <1>1 DEF Revoked, Token
<1>6. \A t \in Minted : Live(t)' <=> Live(t) /\ t \notin S
  BY <1>1 DEF Revoked, Token, Live
<1>7. \A f : Of(f)' = Of(f) BY <1>4, <1>5 DEF Of
<1>8. \A f : LiveIn(f)' = LiveIn(f) \ S BY <1>6, <1>7 DEF LiveIn, Of
<1> QED BY <1>3, <1>4, <1>5, <1>6, <1>7, <1>8

(* An action that leaves tokens and promises alone.                          *)
LEMMA Quiet ==
    ASSUME IInv, UNCHANGED <<tokens, ended>>
    PROVE OneLivePerFamily' /\ EndedStaysDead' /\ EndedFamiliesExist'
BY DEF IInv, OneLivePerFamily, EndedStaysDead, EndedFamiliesExist, Minted, Live, LiveIn, Of

LEMMA InitIInv == Init => IInv
<1> SUFFICES ASSUME Init PROVE IInv OBVIOUS
<1>1. Minted = {} BY DEF Init, Minted
<1>2. TypeOK
  <2>1. \A p \in Procs : proc[p] = Idle BY DEF Init
  <2> QED BY <1>1, TokenBoundAssumption DEF Init, TypeOK, Idle, Minted
<1>3. OneLivePerFamily /\ EndedStaysDead /\ EndedFamiliesExist
  BY <1>1 DEF OneLivePerFamily, EndedStaysDead, EndedFamiliesExist, Init
<1>4. TokensAreMinted /\ DecidersHoldTheLock /\ RotatesWhatLives /\ RevokersSeeAll
  BY DEF Init, Idle, TokensAreMinted, DecidersHoldTheLock, RotatesWhatLives, RevokersSeeAll, Decides, RevokesOne
<1> QED BY <1>2, <1>3, <1>4 DEF IInv

(* What the invariant grants one request.                                    *)
Own(p) ==
    /\ proc[p].at = "lock" \/ Decides(p) => proc[p].token \in Minted
    /\ Decides(p) => famLock[FamilyOf(p)] = p
    /\ proc[p].at \in {"rotate", "commit"} => Live(proc[p].token)
    /\ RevokesOne(p) => LiveIn(FamilyOf(p)) \subseteq proc[p].rows

LEMMA OwnIs == IInv <=> /\ TypeOK /\ OneLivePerFamily /\ EndedStaysDead /\ EndedFamiliesExist
                        /\ \A p \in Procs : Own(p)
BY DEF IInv, Own, TokensAreMinted, DecidersHoldTheLock, RotatesWhatLives, RevokersSeeAll

(* A step that moves at most request p on, takes or gives no lock but those  *)
(* of p, and neither revokes what another rotates nor adds to what another   *)
(* revokes, keeps what the others are entitled to.                           *)
LEMMA Step ==
    ASSUME IInv, TypeOK', OneLivePerFamily', EndedStaysDead', EndedFamiliesExist', NEW p,
           \A q \in Procs \ {p} : proc'[q] = proc[q],
           Minted \subseteq Minted',
           \A t \in Minted : tokens'[t].family = tokens[t].family,
           \A f \in Families : famLock[f] \in Procs \ {p} => famLock'[f] = famLock[f],
           \A q \in Procs \ {p} : proc[q].at \in {"rotate", "commit"} => tokens'[proc[q].token].state = "live",
           \A q \in Procs \ {p} : RevokesOne(q) => \A f : f = FamilyOf(q) => LiveIn(f)' \subseteq LiveIn(f),
           p \in Procs => Own(p)'
    PROVE IInv'
<1>1. ASSUME NEW q \in Procs \ {p} PROVE Own(q)'
  <2>1. proc'[q] = proc[q] OBVIOUS
  <2>2. Decides(q)' <=> Decides(q) BY <2>1 DEF Decides, RevokesOne
  <2>3. Own(q) BY OwnIs
  <2>4. Decides(q) => FamilyOf(q)' = FamilyOf(q) BY <2>1, <2>3 DEF FamilyOf, Own
  <2>5. Decides(q) => FamilyOf(q) \in Families
    BY <2>3, TokensAre DEF IInv, Token, FamilyOf, Own
  <2>6. Decides(q) => famLock'[FamilyOf(q)] = q BY <2>3, <2>5 DEF Own
  <2>7. (RevokesOne(q) => LiveIn(FamilyOf(q)) \subseteq proc[q].rows)'
    <3> SUFFICES ASSUME RevokesOne(q)' PROVE (LiveIn(FamilyOf(q)) \subseteq proc[q].rows)' OBVIOUS
    <3>1. RevokesOne(q) /\ Decides(q) BY <2>1 DEF RevokesOne, Decides
    <3>2. LiveIn(FamilyOf(q)) \subseteq proc[q].rows BY <2>3, <3>1 DEF Own
    <3>3. FamilyOf(q)' = FamilyOf(q) BY <2>4, <3>1
    <3>4. \A f : f = FamilyOf(q) => LiveIn(f)' \subseteq LiveIn(f) BY <3>1
    <3>5. ASSUME NEW f, f = FamilyOf(q) PROVE LiveIn(f)' \subseteq proc'[q].rows
      BY <3>2, <3>4, <3>5, <2>1
    <3> QED BY <3>3, <3>5 DEF LiveIn, Of, Live
  <2>8. (proc[q].at = "lock" \/ Decides(q) => proc[q].token \in Minted)' BY <2>1, <2>2, <2>3 DEF Own
  <2>9. (Decides(q) => famLock[FamilyOf(q)] = q)' BY <2>2, <2>4, <2>6
  <2>10. (proc[q].at \in {"rotate", "commit"} => Live(proc[q].token))' BY <2>1 DEF Live
  <2> QED BY <2>7, <2>8, <2>9, <2>10 DEF Own
<1>2. \A q \in Procs : Own(q)' BY <1>1
<1> QED BY <1>2 DEF IInv, Own, TokensAreMinted, DecidersHoldTheLock, RotatesWhatLives, RevokersSeeAll

(* The same for a step that writes neither a token nor a promise.            *)
LEMMA QuietStep ==
    ASSUME IInv, TypeOK', UNCHANGED <<tokens, ended>>, NEW p,
           \A q \in Procs \ {p} : proc'[q] = proc[q],
           \A f \in Families : famLock[f] \in Procs \ {p} => famLock'[f] = famLock[f],
           p \in Procs => Own(p)'
    PROVE IInv'
<1>1. OneLivePerFamily' /\ EndedStaysDead' /\ EndedFamiliesExist' BY Quiet
<1>2. Minted \subseteq Minted' /\ \A t \in Minted : tokens'[t].family = tokens[t].family BY DEF Minted
<1>3. \A q \in Procs \ {p} : proc[q].at \in {"rotate", "commit"} => tokens'[proc[q].token].state = "live"
  BY DEF IInv, RotatesWhatLives, Live
<1>4. \A q \in Procs \ {p} : RevokesOne(q) => \A f : f = FamilyOf(q) => LiveIn(f)' \subseteq LiveIn(f)
  BY DEF LiveIn, Of, Live, Minted
<1> QED BY <1>1, <1>2, <1>3, <1>4, Step

LEMMA LoginChecksStep == ASSUME IInv, NEW p \in Procs, LoginChecks(p) PROVE IInv'
<1>0. Own(p) /\ \A f : LiveIn(f) \subseteq 1..MaxTokens
  BY OwnIs, TokenBoundAssumption DEF IInv, TypeOK, LiveIn, Of, Minted
<1>1. TypeOK'
  BY <1>0, TokenBoundAssumption, NobodyAssumption DEF IInv, TypeOK, LoginChecks, Enters, Ends, Idle, Unlocked, Minted
<1>2. \A q \in Procs \ {p} : proc'[q] = proc[q]
  BY DEF IInv, TypeOK, LoginChecks, Enters, Ends
<1>3. \A f \in Families : famLock[f] \in Procs \ {p} => famLock'[f] = famLock[f]
  BY NobodyAssumption DEF IInv, TypeOK, LoginChecks, Unlocked, Free, CanLock
<1>4. Own(p)'
  BY <1>0, NobodyAssumption DEF IInv, TypeOK, LoginChecks, Enters, Ends, Idle, Decides, RevokesOne, Own, Unlocked, Free, CanLock, FamilyOf, Live, LiveIn, Of, Minted, Acceptable
<1> QED BY <1>1, <1>2, <1>3, <1>4, QuietStep DEF LoginChecks

LEMMA LooksUpStep == ASSUME IInv, NEW p \in Procs, LooksUp(p) PROVE IInv'
<1>0. Own(p) /\ \A f : LiveIn(f) \subseteq 1..MaxTokens
  BY OwnIs, TokenBoundAssumption DEF IInv, TypeOK, LiveIn, Of, Minted
<1>1. TypeOK'
  BY <1>0, TokenBoundAssumption, NobodyAssumption DEF IInv, TypeOK, LooksUp, Enters, Ends, Idle, Unlocked, Minted
<1>2. \A q \in Procs \ {p} : proc'[q] = proc[q]
  BY DEF IInv, TypeOK, LooksUp, Enters, Ends
<1>3. \A f \in Families : famLock[f] \in Procs \ {p} => famLock'[f] = famLock[f]
  BY NobodyAssumption DEF IInv, TypeOK, LooksUp, Unlocked, Free, CanLock
<1>4. Own(p)'
  BY <1>0, NobodyAssumption DEF IInv, TypeOK, LooksUp, Enters, Ends, Idle, Decides, RevokesOne, Own, Unlocked, Free, CanLock, FamilyOf, Live, LiveIn, Of, Minted, Acceptable
<1> QED BY <1>1, <1>2, <1>3, <1>4, QuietStep DEF LooksUp

LEMMA RefreshRevokesStep == ASSUME IInv, NEW p \in Procs, RefreshRevokes(p) PROVE IInv'
<1>0. Own(p) /\ \A f : LiveIn(f) \subseteq 1..MaxTokens
  BY OwnIs, TokenBoundAssumption DEF IInv, TypeOK, LiveIn, Of, Minted
<1>1. TypeOK'
  BY <1>0, TokenBoundAssumption, NobodyAssumption DEF IInv, TypeOK, RefreshRevokes, Enters, Ends, Idle, Unlocked, Minted
<1>2. \A q \in Procs \ {p} : proc'[q] = proc[q]
  BY DEF IInv, TypeOK, RefreshRevokes, Enters, Ends
<1>3. \A f \in Families : famLock[f] \in Procs \ {p} => famLock'[f] = famLock[f]
  BY NobodyAssumption DEF IInv, TypeOK, RefreshRevokes, Unlocked, Free, CanLock
<1>4. Own(p)'
  BY <1>0, NobodyAssumption DEF IInv, TypeOK, RefreshRevokes, Enters, Ends, Idle, Decides, RevokesOne, Own, Unlocked, Free, CanLock, FamilyOf, Live, LiveIn, Of, Minted, Acceptable
<1> QED BY <1>1, <1>2, <1>3, <1>4, QuietStep DEF RefreshRevokes

LEMMA RefreshAcceptsStep == ASSUME IInv, NEW p \in Procs, RefreshAccepts(p) PROVE IInv'
<1>0. Own(p) /\ \A f : LiveIn(f) \subseteq 1..MaxTokens
  BY OwnIs, TokenBoundAssumption DEF IInv, TypeOK, LiveIn, Of, Minted
<1>1. TypeOK'
  BY <1>0, TokenBoundAssumption, NobodyAssumption DEF IInv, TypeOK, RefreshAccepts, Enters, Ends, Idle, Unlocked, Minted
<1>2. \A q \in Procs \ {p} : proc'[q] = proc[q]
  BY DEF IInv, TypeOK, RefreshAccepts, Enters, Ends
<1>3. \A f \in Families : famLock[f] \in Procs \ {p} => famLock'[f] = famLock[f]
  BY NobodyAssumption DEF IInv, TypeOK, RefreshAccepts, Unlocked, Free, CanLock
<1>4. Own(p)'
  BY <1>0, NobodyAssumption DEF IInv, TypeOK, RefreshAccepts, Enters, Ends, Idle, Decides, RevokesOne, Own, Unlocked, Free, CanLock, FamilyOf, Live, LiveIn, Of, Minted, Acceptable
<1> QED BY <1>1, <1>2, <1>3, <1>4, QuietStep DEF RefreshAccepts

LEMMA RefreshWritesStep == ASSUME IInv, NEW p \in Procs, RefreshWrites(p) PROVE IInv'
<1>0. Own(p) /\ \A f : LiveIn(f) \subseteq 1..MaxTokens
  BY OwnIs, TokenBoundAssumption DEF IInv, TypeOK, LiveIn, Of, Minted
<1>1. TypeOK'
  BY <1>0, TokenBoundAssumption, NobodyAssumption DEF IInv, TypeOK, RefreshWrites, Enters, Ends, Idle, Unlocked, Minted
<1>2. \A q \in Procs \ {p} : proc'[q] = proc[q]
  BY DEF IInv, TypeOK, RefreshWrites, Enters, Ends
<1>3. \A f \in Families : famLock[f] \in Procs \ {p} => famLock'[f] = famLock[f]
  BY NobodyAssumption DEF IInv, TypeOK, RefreshWrites, Unlocked, Free, CanLock
<1>4. Own(p)'
  BY <1>0, NobodyAssumption DEF IInv, TypeOK, RefreshWrites, Enters, Ends, Idle, Decides, RevokesOne, Own, Unlocked, Free, CanLock, FamilyOf, Live, LiveIn, Of, Minted, Acceptable
<1> QED BY <1>1, <1>2, <1>3, <1>4, QuietStep DEF RefreshWrites

LEMMA FailsStep == ASSUME IInv, NEW p \in Procs, Fails(p) PROVE IInv'
<1>0. Own(p) /\ \A f : LiveIn(f) \subseteq 1..MaxTokens
  BY OwnIs, TokenBoundAssumption DEF IInv, TypeOK, LiveIn, Of, Minted
<1>1. TypeOK'
  BY <1>0, TokenBoundAssumption, NobodyAssumption DEF IInv, TypeOK, Fails, Enters, Ends, Idle, Unlocked, Minted
<1>2. \A q \in Procs \ {p} : proc'[q] = proc[q]
  BY DEF IInv, TypeOK, Fails, Enters, Ends
<1>3. \A f \in Families : famLock[f] \in Procs \ {p} => famLock'[f] = famLock[f]
  BY NobodyAssumption DEF IInv, TypeOK, Fails, Unlocked, Free, CanLock
<1>4. Own(p)'
  BY <1>0, NobodyAssumption DEF IInv, TypeOK, Fails, Enters, Ends, Idle, Decides, RevokesOne, Own, Unlocked, Free, CanLock, FamilyOf, Live, LiveIn, Of, Minted, Acceptable
<1> QED BY <1>1, <1>2, <1>3, <1>4, QuietStep DEF Fails

LEMMA RevokeAllStartsStep == ASSUME IInv, NEW p \in Procs, RevokeAllStarts(p) PROVE IInv'
<1>0. Own(p) /\ \A f : LiveIn(f) \subseteq 1..MaxTokens
  BY OwnIs, TokenBoundAssumption DEF IInv, TypeOK, LiveIn, Of, Minted
<1>1. TypeOK'
  BY <1>0, TokenBoundAssumption, NobodyAssumption DEF IInv, TypeOK, RevokeAllStarts, Enters, Ends, Idle, Unlocked, Minted
<1>2. \A q \in Procs \ {p} : proc'[q] = proc[q]
  BY DEF IInv, TypeOK, RevokeAllStarts, Enters, Ends
<1>3. \A f \in Families : famLock[f] \in Procs \ {p} => famLock'[f] = famLock[f]
  BY NobodyAssumption DEF IInv, TypeOK, RevokeAllStarts, Unlocked, Free, CanLock
<1>4. Own(p)'
  BY <1>0, NobodyAssumption DEF IInv, TypeOK, RevokeAllStarts, Enters, Ends, Idle, Decides, RevokesOne, Own, Unlocked, Free, CanLock, FamilyOf, Live, LiveIn, Of, Minted, Acceptable
<1> QED BY <1>1, <1>2, <1>3, <1>4, QuietStep DEF RevokeAllStarts

LEMMA RevokeAllLocksStep == ASSUME IInv, NEW p \in Procs, RevokeAllLocks(p) PROVE IInv'
<1>0. Own(p) /\ \A f : LiveIn(f) \subseteq 1..MaxTokens
  BY OwnIs, TokenBoundAssumption DEF IInv, TypeOK, LiveIn, Of, Minted
<1>1. TypeOK'
  BY <1>0, TokenBoundAssumption, NobodyAssumption DEF IInv, TypeOK, RevokeAllLocks, Enters, Ends, Idle, Unlocked, Minted
<1>2. \A q \in Procs \ {p} : proc'[q] = proc[q]
  BY DEF IInv, TypeOK, RevokeAllLocks, Enters, Ends
<1>3. \A f \in Families : famLock[f] \in Procs \ {p} => famLock'[f] = famLock[f]
  BY NobodyAssumption DEF IInv, TypeOK, RevokeAllLocks, Unlocked, Free, CanLock
<1>4. Own(p)'
  BY <1>0, NobodyAssumption DEF IInv, TypeOK, RevokeAllLocks, Enters, Ends, Idle, Decides, RevokesOne, Own, Unlocked, Free, CanLock, FamilyOf, Live, LiveIn, Of, Minted, Acceptable
<1> QED BY <1>1, <1>2, <1>3, <1>4, QuietStep DEF RevokeAllLocks

LEMMA RevokeAllSeesStep == ASSUME IInv, NEW p \in Procs, RevokeAllSees(p) PROVE IInv'
<1>0. Own(p) /\ \A f : LiveIn(f) \subseteq 1..MaxTokens
  BY OwnIs, TokenBoundAssumption DEF IInv, TypeOK, LiveIn, Of, Minted
<1>1. TypeOK'
  BY <1>0, TokenBoundAssumption, NobodyAssumption DEF IInv, TypeOK, RevokeAllSees, Enters, Ends, Idle, Unlocked, Minted
<1>2. \A q \in Procs \ {p} : proc'[q] = proc[q]
  BY DEF IInv, TypeOK, RevokeAllSees, Enters, Ends
<1>3. \A f \in Families : famLock[f] \in Procs \ {p} => famLock'[f] = famLock[f]
  BY NobodyAssumption DEF IInv, TypeOK, RevokeAllSees, Unlocked, Free, CanLock
<1>4. Own(p)'
  BY <1>0, NobodyAssumption DEF IInv, TypeOK, RevokeAllSees, Enters, Ends, Idle, Decides, RevokesOne, Own, Unlocked, Free, CanLock, FamilyOf, Live, LiveIn, Of, Minted, Acceptable
<1> QED BY <1>1, <1>2, <1>3, <1>4, QuietStep DEF RevokeAllSees

LEMMA RevokeAllIsLostStep == ASSUME IInv, NEW p \in Procs, RevokeAllIsLost(p) PROVE IInv'
<1>0. Own(p) /\ \A f : LiveIn(f) \subseteq 1..MaxTokens
  BY OwnIs, TokenBoundAssumption DEF IInv, TypeOK, LiveIn, Of, Minted
<1>1. TypeOK'
  BY <1>0, TokenBoundAssumption, NobodyAssumption DEF IInv, TypeOK, RevokeAllIsLost, Enters, Ends, Idle, Unlocked, Minted
<1>2. \A q \in Procs \ {p} : proc'[q] = proc[q]
  BY DEF IInv, TypeOK, RevokeAllIsLost, Enters, Ends
<1>3. \A f \in Families : famLock[f] \in Procs \ {p} => famLock'[f] = famLock[f]
  BY NobodyAssumption DEF IInv, TypeOK, RevokeAllIsLost, Unlocked, Free, CanLock
<1>4. Own(p)'
  BY <1>0, NobodyAssumption DEF IInv, TypeOK, RevokeAllIsLost, Enters, Ends, Idle, Decides, RevokesOne, Own, Unlocked, Free, CanLock, FamilyOf, Live, LiveIn, Of, Minted, Acceptable
<1> QED BY <1>1, <1>2, <1>3, <1>4, QuietStep DEF RevokeAllIsLost

LEMMA SuspendStep == ASSUME IInv, NEW p \in Procs, Suspend(p) PROVE IInv'
<1>0. Own(p) /\ \A f : LiveIn(f) \subseteq 1..MaxTokens
  BY OwnIs, TokenBoundAssumption DEF IInv, TypeOK, LiveIn, Of, Minted
<1>1. TypeOK'
  BY <1>0, TokenBoundAssumption, NobodyAssumption DEF IInv, TypeOK, Suspend, Enters, Ends, Idle, Unlocked, Minted, Changes
<1>2. \A q \in Procs \ {p} : proc'[q] = proc[q]
  BY DEF IInv, TypeOK, Suspend, Enters, Ends
<1>3. \A f \in Families : famLock[f] \in Procs \ {p} => famLock'[f] = famLock[f]
  BY NobodyAssumption DEF IInv, TypeOK, Suspend, Unlocked, Free, CanLock
<1>4. Own(p)'
  BY <1>0, NobodyAssumption DEF IInv, TypeOK, Suspend, Enters, Ends, Idle, Decides, RevokesOne, Own, Unlocked, Free, CanLock, FamilyOf, Live, LiveIn, Of, Minted, Acceptable
<1> QED BY <1>1, <1>2, <1>3, <1>4, QuietStep DEF Suspend

LEMMA DowngradeStep == ASSUME IInv, NEW p \in Procs, Downgrade(p) PROVE IInv'
<1>0. Own(p) /\ \A f : LiveIn(f) \subseteq 1..MaxTokens
  BY OwnIs, TokenBoundAssumption DEF IInv, TypeOK, LiveIn, Of, Minted
<1>1. TypeOK'
  BY <1>0, TokenBoundAssumption, NobodyAssumption DEF IInv, TypeOK, Downgrade, Enters, Ends, Idle, Unlocked, Minted, Changes
<1>2. \A q \in Procs \ {p} : proc'[q] = proc[q]
  BY DEF IInv, TypeOK, Downgrade, Enters, Ends
<1>3. \A f \in Families : famLock[f] \in Procs \ {p} => famLock'[f] = famLock[f]
  BY NobodyAssumption DEF IInv, TypeOK, Downgrade, Unlocked, Free, CanLock
<1>4. Own(p)'
  BY <1>0, NobodyAssumption DEF IInv, TypeOK, Downgrade, Enters, Ends, Idle, Decides, RevokesOne, Own, Unlocked, Free, CanLock, FamilyOf, Live, LiveIn, Of, Minted, Acceptable
<1> QED BY <1>1, <1>2, <1>3, <1>4, QuietStep DEF Downgrade

-----------------------------------------------------------------------------
(* The steps that write tokens.  Revoking keeps the parts about tokens, if   *)
(* no other request rotates one of them.                                     *)
LEMMA Revoking ==
    ASSUME IInv, NEW S, tokens' = Revoked(S), NEW p, ended \subseteq ended',
           \A f \in ended' \ ended : Of(f) # {} /\ LiveIn(f) \subseteq S,
           \A q \in Procs \ {p} : proc[q].at \in {"rotate", "commit"} => proc[q].token \notin S
    PROVE /\ OneLivePerFamily' /\ EndedStaysDead' /\ EndedFamiliesExist'
          /\ Minted' = Minted /\ \A t \in Minted : tokens'[t].family = tokens[t].family
          /\ \A q \in Procs \ {p} : proc[q].at \in {"rotate", "commit"} => tokens'[proc[q].token].state = "live"
          /\ \A q \in Procs \ {p} : RevokesOne(q) => \A f : f = FamilyOf(q) => LiveIn(f)' \subseteq LiveIn(f)
          /\ tokens' \in Seq(Token) /\ Len(tokens') = Len(tokens)
<1> USE DEF IInv
<1>1. /\ tokens' \in Seq(Token) /\ Len(tokens') = Len(tokens) /\ Minted' = Minted
      /\ \A t \in Minted : tokens'[t].family = tokens[t].family
      /\ \A t \in Minted : Live(t)' <=> Live(t) /\ t \notin S
      /\ \A f : Of(f)' = Of(f)
      /\ \A f : LiveIn(f)' = LiveIn(f) \ S
  BY RevokedIs
<1>2. OneLivePerFamily' BY <1>1 DEF OneLivePerFamily
<1>3. EndedStaysDead' BY <1>1 DEF EndedStaysDead
<1>4. EndedFamiliesExist' BY <1>1 DEF EndedFamiliesExist
<1>5. \A q \in Procs \ {p} : proc[q].at \in {"rotate", "commit"} => tokens'[proc[q].token].state = "live"
  BY <1>1 DEF RotatesWhatLives, Live, TokensAreMinted, Decides
<1> QED BY <1>1, <1>2, <1>3, <1>4, <1>5

LEMMA LoginIssuesStep == ASSUME IInv, NEW p \in Procs, LoginIssues(p) PROVE IInv'
<1> USE DEF IInv
<1>1. \A q \in Procs \ {p} : proc'[q] = proc[q] BY DEF TypeOK, LoginIssues, Ends
<1>2. \A f \in Families : famLock[f] \in Procs \ {p} => famLock'[f] = famLock[f] BY DEF LoginIssues
<1>3. Own(p)' BY DEF LoginIssues, Ends, Idle, Own, Decides, RevokesOne, TypeOK
<1>4. CASE UNCHANGED <<tokens, known>>
  <2>1. TypeOK'
    <3>1. proc' = [proc EXCEPT ![p] = Idle] /\ UNCHANGED <<member, userLock, famLock, ended, changes>>
      BY DEF LoginIssues, Ends
    <3>2. Len(tokens') = Len(tokens) BY <1>4
    <3> QED BY <1>4, <3>1, <3>2, TokenBoundAssumption DEF TypeOK, Idle, Minted
  <2> QED BY <1>1, <1>2, <1>3, <1>4, <2>1, QuietStep DEF LoginIssues
<1>5. CASE ~UNCHANGED <<tokens, known>>
  <2>1. PICK f \in Families : Of(f) = {} /\ tokens' = Append(tokens, Mint(f)) /\ known' = known \cup {Len(tokens) + 1}
    BY <1>5 DEF LoginIssues
  <2>2. Len(tokens) < MaxTokens /\ ended' = ended
    BY <1>5, TokenBoundAssumption DEF LoginIssues, TypeOK
  <2>3. Mint(f) \in Token BY DEF Mint, Token, States
  <2>4. /\ tokens \in Seq(Token) /\ tokens' \in Seq(Token) /\ Len(tokens') = Len(tokens) + 1
        /\ \A t \in Minted : tokens'[t] = tokens[t]
        /\ tokens'[Len(tokens) + 1] = Mint(f)
    BY <2>1, <2>3 DEF TypeOK, Token, Minted
  <2>5. Minted' = Minted \cup {Len(tokens) + 1} /\ Len(tokens) + 1 \notin Minted
    BY <2>4 DEF Minted, TypeOK
  <2>6. TypeOK'
    BY <2>1, <2>2, <2>4, <2>5, TokenBoundAssumption DEF TypeOK, LoginIssues, Ends, Idle, Token
  <2>7. OneLivePerFamily'
    <3>1. \A t \in Minted : tokens'[t].family # f BY <2>1, <2>4 DEF Of
    <3>2. tokens'[Len(tokens) + 1].family = f BY <2>4 DEF Mint
    <3> SUFFICES ASSUME NEW t \in Minted', NEW u \in Minted', tokens'[t].family = tokens'[u].family,
                        tokens'[t].state = "live", tokens'[u].state = "live"
                 PROVE t = u
      BY DEF OneLivePerFamily, Live
    <3>3. CASE t \in Minted /\ u \in Minted BY <3>3, <2>4 DEF OneLivePerFamily, Live
    <3> QED BY <3>1, <3>2, <3>3, <2>5
  <2>8. \A g : g # f => Of(g)' = Of(g) /\ LiveIn(g)' = LiveIn(g)
    BY <2>4, <2>5 DEF Of, LiveIn, Live, Mint
  <2>9. f \notin ended BY <2>1 DEF EndedFamiliesExist
  <2>10. EndedStaysDead' /\ EndedFamiliesExist'
    BY <2>2, <2>8, <2>9 DEF EndedStaysDead, EndedFamiliesExist
  <2>11. \A q \in Procs \ {p} : proc[q].at \in {"rotate", "commit"} => tokens'[proc[q].token].state = "live"
    BY <2>4 DEF RotatesWhatLives, Live, TokensAreMinted, Decides
  <2>12. \A q \in Procs \ {p} : RevokesOne(q) => \A g : g = FamilyOf(q) => LiveIn(g)' \subseteq LiveIn(g)
    <3>1. \A q \in Procs : RevokesOne(q) => FamilyOf(q) # f
      BY <2>1 DEF TokensAreMinted, Decides, FamilyOf, Of
    <3> QED BY <3>1, <2>8
  <2> QED BY <1>1, <1>2, <1>3, <2>4, <2>5, <2>6, <2>7, <2>10, <2>11, <2>12, Step
<1> QED BY <1>4, <1>5

LEMMA RefreshRefusesStep == ASSUME IInv, NEW p \in Procs, RefreshRefuses(p) PROVE IInv'
<1> USE DEF IInv
<1>0. tokens \in Seq(Token) BY DEF TypeOK, Token
<1>1. PICK S : tokens' = Revoked(S) /\ S \subseteq {proc[p].token}
  <2>1. Len(tokens) \in Nat /\ tokens = Revoked({})
    BY <1>0 DEF Revoked, Minted
  <2> QED BY <2>1 DEF RefreshRefuses
<1>2. \A q \in Procs \ {p} : proc'[q] = proc[q] BY DEF TypeOK, RefreshRefuses, Ends
<1>3. \A f \in Families : famLock[f] \in Procs \ {p} => famLock'[f] = famLock[f]
  BY DEF TypeOK, RefreshRefuses, Unlocked
<1>4. Own(p)' BY DEF RefreshRefuses, Ends, Idle, Own, Decides, RevokesOne, TypeOK
<1>5. \A q \in Procs \ {p} : proc[q].at \in {"rotate", "commit"} => proc[q].token \notin S
  BY <1>1 DEF RefreshRefuses, RowFree
<1>6. ended' = ended BY DEF RefreshRefuses
<1>7. /\ OneLivePerFamily' /\ EndedStaysDead' /\ EndedFamiliesExist'
      /\ Minted' = Minted /\ \A t \in Minted : tokens'[t].family = tokens[t].family
      /\ \A q \in Procs \ {p} : proc[q].at \in {"rotate", "commit"} => tokens'[proc[q].token].state = "live"
      /\ \A q \in Procs \ {p} : RevokesOne(q) => \A f : f = FamilyOf(q) => LiveIn(f)' \subseteq LiveIn(f)
      /\ tokens' \in Seq(Token) /\ Len(tokens') = Len(tokens)
  BY <1>1, <1>5, <1>6, Revoking
<1>8. TypeOK'
  BY <1>7, TokenBoundAssumption DEF TypeOK, RefreshRefuses, Ends, Idle, Unlocked, Token
<1> QED BY <1>2, <1>3, <1>4, <1>7, <1>8, Step

LEMMA RevokesFamilyStep == ASSUME IInv, NEW p \in Procs, RevokesFamily(p) PROVE IInv'
<1> USE DEF IInv
<1>0. RevokesOne(p) /\ Decides(p) BY DEF RevokesFamily, RevokesOne, Decides
<1>1. tokens' = Revoked(proc[p].rows) /\ ended' = ended \cup {FamilyOf(p)} BY DEF RevokesFamily
<1>2. \A q \in Procs \ {p} : proc'[q] = proc[q] BY DEF TypeOK, RevokesFamily, Ends
<1>3. \A f \in Families : famLock[f] \in Procs \ {p} => famLock'[f] = famLock[f]
  BY DEF TypeOK, RevokesFamily, Unlocked
<1>4. Own(p)' BY DEF RevokesFamily, Ends, Idle, Own, Decides, RevokesOne, TypeOK
<1>5. \A q \in Procs \ {p} : proc[q].at \in {"rotate", "commit"} => proc[q].token \notin proc[p].rows
  BY DEF RevokesFamily, RowFree, RowsAreFree
<1>6. Of(FamilyOf(p)) # {} /\ FamilyOf(p) \in Families
  <2>1. proc[p].token \in Minted BY <1>0 DEF TokensAreMinted
  <2> QED BY <2>1, TokensAre DEF FamilyOf, Of, Token
<1>7. LiveIn(FamilyOf(p)) \subseteq proc[p].rows BY <1>0 DEF RevokersSeeAll
<1>8. /\ OneLivePerFamily' /\ EndedStaysDead' /\ EndedFamiliesExist'
      /\ Minted' = Minted /\ \A t \in Minted : tokens'[t].family = tokens[t].family
      /\ \A q \in Procs \ {p} : proc[q].at \in {"rotate", "commit"} => tokens'[proc[q].token].state = "live"
      /\ \A q \in Procs \ {p} : RevokesOne(q) => \A f : f = FamilyOf(q) => LiveIn(f)' \subseteq LiveIn(f)
      /\ tokens' \in Seq(Token) /\ Len(tokens') = Len(tokens)
  BY <1>1, <1>5, <1>6, <1>7, Revoking
<1>9. TypeOK'
  BY <1>6, <1>8, TokenBoundAssumption DEF TypeOK, RevokesFamily, Ends, Idle, Unlocked, Token
<1> QED BY <1>2, <1>3, <1>4, <1>8, <1>9, Step

LEMMA RevokeAllEndsStep == ASSUME IInv, NEW p \in Procs, RevokeAllEnds(p) PROVE IInv'
<1> USE DEF IInv
<1> DEFINE S == proc[p].rows \cup Appeared(p)
<1>1. tokens' = Revoked(S) /\ ended' = ended \cup {f \in Families : Of(f) # {}} BY DEF RevokeAllEnds
<1>2. \A q \in Procs \ {p} : proc'[q] = proc[q] BY DEF TypeOK, RevokeAllEnds, Ends
<1>3. \A f \in Families : famLock[f] \in Procs \ {p} => famLock'[f] = famLock[f]
  BY DEF TypeOK, RevokeAllEnds, Unlocked
<1>4. Own(p)' BY DEF RevokeAllEnds, Ends, Idle, Own, Decides, RevokesOne, TypeOK
<1>5. \A q \in Procs \ {p} : proc[q].at \in {"rotate", "commit"} => proc[q].token \notin S
  BY DEF RevokeAllEnds, RowFree, RowsAreFree
<1>6. \A f : LiveIn(f) \subseteq S BY DEF Appeared, LiveIn, Of
<1> HIDE DEF S
<1>8. /\ OneLivePerFamily' /\ EndedStaysDead' /\ EndedFamiliesExist'
      /\ Minted' = Minted /\ \A t \in Minted : tokens'[t].family = tokens[t].family
      /\ \A q \in Procs \ {p} : proc[q].at \in {"rotate", "commit"} => tokens'[proc[q].token].state = "live"
      /\ \A q \in Procs \ {p} : RevokesOne(q) => \A f : f = FamilyOf(q) => LiveIn(f)' \subseteq LiveIn(f)
      /\ tokens' \in Seq(Token) /\ Len(tokens') = Len(tokens)
  BY <1>1, <1>5, <1>6, Revoking
<1>9. TypeOK'
  BY <1>8, TokenBoundAssumption DEF TypeOK, RevokeAllEnds, Ends, Idle, Unlocked, Token
<1> QED BY <1>2, <1>3, <1>4, <1>8, <1>9, Step

LEMMA RefreshCommitsStep == ASSUME IInv, NEW p \in Procs, RefreshCommits(p) PROVE IInv'
<1> USE DEF IInv
<1> DEFINE t0 == proc[p].token
           n == Len(tokens) + 1
<1>0. t0 \in Minted /\ Live(t0) /\ Decides(p) /\ tokens[t0] \in Token
  BY TokensAre DEF RefreshCommits, Decides, TokensAreMinted, RotatesWhatLives
<1>1. \A q \in Procs \ {p} : proc'[q] = proc[q] BY DEF TypeOK, RefreshCommits, Ends
<1>2. \A f \in Families : famLock[f] \in Procs \ {p} => famLock'[f] = famLock[f]
  BY DEF TypeOK, RefreshCommits, Unlocked
<1>3. Own(p)' BY DEF RefreshCommits, Ends, Idle, Own, Decides, RevokesOne, TypeOK
<1> DEFINE kept == [u \in Minted |-> IF u = t0 THEN [family |-> tokens[t0].family, state |-> "rotated", old |-> tokens[t0].old]
                                    ELSE tokens[u]]
<1>4. /\ kept \in Seq(Token) /\ Len(kept) = Len(tokens) /\ Mint(FamilyOf(p)) \in Token
      /\ FamilyOf(p) \in Families
  <2>1. \A u \in Minted : kept[u] \in Token BY TokensAre, <1>0 DEF Token, States
  <2>2. Len(tokens) \in Nat BY DEF TypeOK
  <2> QED BY <2>1, <2>2, <1>0 DEF Minted, Mint, FamilyOf, Token, States
<1>5. tokens' = Append(kept, Mint(FamilyOf(p))) BY DEF RefreshCommits, Rotated, FamilyOf
<1>6. /\ tokens' \in Seq(Token) /\ Len(tokens') = n /\ tokens'[n] = Mint(FamilyOf(p))
      /\ \A u \in Minted : tokens'[u] = kept[u]
  <2> HIDE DEF kept
  <2> QED BY <1>4, <1>5 DEF Minted, TypeOK
<1>7. Minted' = Minted \cup {n} /\ n \notin Minted BY <1>6 DEF Minted, TypeOK
<1>8. /\ \A u \in Minted : tokens'[u].family = tokens[u].family
      /\ \A u \in Minted \ {t0} : tokens'[u] = tokens[u]
      /\ tokens'[t0].state = "rotated" /\ tokens'[n].family = FamilyOf(p)
  BY <1>0, <1>6 DEF Mint, FamilyOf
<1> HIDE DEF kept
<1>9. TypeOK'
  <2>1. \A a \in BOOLEAN : known \cup {n} \subseteq Minted' /\ known \subseteq Minted' BY <1>7 DEF TypeOK
  <2> QED BY <2>1, <1>6, TokenBoundAssumption DEF TypeOK, RefreshCommits, Ends, Idle, Unlocked, Token
<1>10. OneLivePerFamily'
  <2> SUFFICES ASSUME NEW t \in Minted', NEW u \in Minted', tokens'[t].family = tokens'[u].family,
                      tokens'[t].state = "live", tokens'[u].state = "live"
               PROVE t = u
    BY DEF OneLivePerFamily, Live
  <2>1. ASSUME NEW v \in Minted', tokens'[v].state = "live", v # n
        PROVE v \in Minted \ {t0} /\ Live(v) /\ tokens'[v].family # FamilyOf(p)
    BY <2>1, <1>0, <1>7, <1>8 DEF OneLivePerFamily, Live, FamilyOf
  <2> QED BY <2>1, <1>7, <1>8 DEF OneLivePerFamily
<1>11. \A g : g # FamilyOf(p) => LiveIn(g)' = LiveIn(g)
  BY <1>0, <1>7, <1>8 DEF LiveIn, Of, Live, FamilyOf
<1>12. \A g : Of(g) # {} => Of(g)' # {} BY <1>7, <1>8 DEF Of
<1>13. ended' = ended /\ FamilyOf(p) \notin ended
  BY <1>0 DEF RefreshCommits, EndedStaysDead, LiveIn, Of, FamilyOf
<1>14. EndedStaysDead' /\ EndedFamiliesExist'
  BY <1>11, <1>12, <1>13 DEF EndedStaysDead, EndedFamiliesExist
<1>15. \A q \in Procs \ {p} : Decides(q) => FamilyOf(q) # FamilyOf(p)
  BY <1>0 DEF DecidersHoldTheLock
<1>16. \A q \in Procs \ {p} : proc[q].at \in {"rotate", "commit"} => tokens'[proc[q].token].state = "live"
  BY <1>8, <1>15 DEF RotatesWhatLives, Live, TokensAreMinted, Decides, FamilyOf
<1>17. \A q \in Procs \ {p} : RevokesOne(q) => \A f : f = FamilyOf(q) => LiveIn(f)' \subseteq LiveIn(f)
  BY <1>11, <1>15 DEF Decides
<1> QED BY <1>1, <1>2, <1>3, <1>7, <1>8, <1>9, <1>10, <1>14, <1>16, <1>17, Step

LEMMA LocksFamilyStep == ASSUME IInv, NEW p \in Procs, LocksFamily(p) PROVE IInv'
<1>0. Own(p) /\ proc[p].at = "lock" /\ \A f : LiveIn(f) \subseteq 1..MaxTokens
  BY OwnIs, TokenBoundAssumption DEF IInv, TypeOK, LiveIn, Of, Minted, LocksFamily
<1>1. proc[p].token \in Minted /\ FamilyOf(p) \in Families
  BY <1>0, TokensAre DEF Own, IInv, Token, FamilyOf
<1>2. TypeOK'
  BY <1>0, <1>1, TokenBoundAssumption DEF IInv, TypeOK, LocksFamily, Enters, Minted
<1>3. \A q \in Procs \ {p} : proc'[q] = proc[q] BY DEF IInv, TypeOK, LocksFamily, Enters
<1>4. \A f \in Families : famLock[f] \in Procs \ {p} => famLock'[f] = famLock[f]
  BY NobodyAssumption DEF IInv, TypeOK, LocksFamily, CanLock, Free
<1>5. /\ proc'[p].token = proc[p].token /\ proc'[p].at \in {"read", "revoke"}
      /\ RevokesOne(p)' => proc'[p].rows = LiveIn(FamilyOf(p))
      /\ UNCHANGED <<tokens, ended>>
  BY DEF IInv, TypeOK, LocksFamily, Enters, RevokesOne
<1>6. FamilyOf(p)' = FamilyOf(p) /\ famLock'[FamilyOf(p)] = p /\ LiveIn(FamilyOf(p))' = LiveIn(FamilyOf(p))
  BY <1>1, <1>5 DEF IInv, TypeOK, LocksFamily, FamilyOf, LiveIn, Of, Live, Minted
<1>7. Own(p)' BY <1>1, <1>5, <1>6 DEF Own, Minted
<1> QED BY <1>2, <1>3, <1>4, <1>5, <1>7, QuietStep

(* A removal leaves nothing that lives; no rotation is under way.            *)
LEMMA RemoveStep == ASSUME IInv, NEW p \in Procs, Remove(p) PROVE IInv'
<1> USE DEF IInv
<1>1. \A q \in Procs \ {p} : proc'[q] = proc[q] BY DEF TypeOK, Remove, Enters
<1>2. UNCHANGED <<famLock, userLock, known, ended>> BY DEF Remove
<1>3. Own(p)' BY DEF Remove, Enters, Own, Decides, RevokesOne, TypeOK
<1>4. /\ tokens' \in Seq(Token) /\ Len(tokens') = Len(tokens)
      /\ \A t \in Minted : tokens'[t].family = tokens[t].family /\ tokens'[t].state = "gone"
  <2>1. \A t \in Minted : tokens[t] \in Token BY TokensAre
  <2>2. \A t \in 1..Len(tokens) : tokens'[t] \in Token BY <2>1 DEF Remove, Minted, Token, States
  <2>3. Len(tokens) \in Nat /\ tokens' = [t \in 1..Len(tokens) |-> tokens'[t]] BY DEF Remove, Minted, TypeOK
  <2>4. \A t \in Minted : tokens'[t].family = tokens[t].family /\ tokens'[t].state = "gone"
    BY <2>1 DEF Remove
  <2> QED BY <2>2, <2>3, <2>4
<1>5. Minted' = Minted BY <1>4 DEF Minted
<1>6. /\ \A t \in Minted' : ~Live(t)' /\ \A f : LiveIn(f)' = {} /\ Of(f)' = Of(f)
  BY <1>4, <1>5 DEF Live, LiveIn, Of
<1>7. OneLivePerFamily' /\ EndedStaysDead' /\ EndedFamiliesExist'
  BY <1>2, <1>4, <1>5 DEF OneLivePerFamily, EndedStaysDead, EndedFamiliesExist, Live, LiveIn, Of
<1>8. \A q \in Procs \ {p} : proc[q].at \in {"rotate", "commit"} => tokens'[proc[q].token].state = "live"
  BY DEF Remove
<1>9. \A q \in Procs \ {p} : RevokesOne(q) => \A f : f = FamilyOf(q) => LiveIn(f)' \subseteq LiveIn(f)
  BY <1>4, <1>5 DEF LiveIn, Of, Live
<1>10. TypeOK'
  <2>1. proc' \in [Procs -> [op : {"none", "login", "refresh", "logout", "revokeall"},
                           at : {"idle", "issue", "lock", "read", "rotate", "commit", "revoke",
                                 "revokeall", "locking"},
                           token : 0..MaxTokens, rows : SUBSET (1..MaxTokens), todo : SUBSET Families]]
    BY TokenBoundAssumption DEF TypeOK, Remove, Enters
  <2>2. changes' \in Nat /\ member' \in {"active", "suspended", "removed"}
    BY DEF TypeOK, Remove, Changes
  <2> QED BY <1>2, <1>4, <1>5, <2>1, <2>2 DEF TypeOK, Token
<1> QED BY <1>1, <1>2, <1>3, <1>4, <1>5, <1>7, <1>8, <1>9, <1>10, Step

LEMMA ReactivateStep == ASSUME IInv, Reactivate PROVE IInv'
<1>1. TypeOK' BY DEF IInv, TypeOK, Reactivate, Changes, Minted
<1>2. UNCHANGED <<tokens, ended, proc, famLock>> BY DEF Reactivate
<1> QED BY <1>1, <1>2, QuietStep, NobodyAssumption

LEMMA TokenExpiresStep == ASSUME IInv, TokenExpires PROVE IInv'
<1> USE DEF IInv
<1>1. PICK t0 \in Minted : /\ Acceptable(t0)
                         /\ tokens' = [u \in Minted |->
                              IF u = t0 THEN [family |-> tokens[t0].family, state |-> "live", old |-> TRUE]
                              ELSE tokens[u]]
  BY DEF TokenExpires
<1>2. UNCHANGED <<member, userLock, famLock, proc, known, ended>> BY DEF TokenExpires
<1>3. /\ tokens' \in Seq(Token) /\ Len(tokens') = Len(tokens)
      /\ \A t \in Minted : tokens'[t].family = tokens[t].family /\ tokens'[t].state = tokens[t].state
  <2>1. \A t \in Minted : tokens[t] \in Token BY TokensAre
  <2>2. \A t \in 1..Len(tokens) : tokens'[t] \in Token BY <1>1, <2>1 DEF Minted, Token, States
  <2>3. Len(tokens) \in Nat /\ tokens' = [t \in 1..Len(tokens) |-> tokens'[t]] BY <1>1 DEF Minted, TypeOK
  <2>4. \A t \in Minted : tokens'[t].family = tokens[t].family /\ tokens'[t].state = tokens[t].state
    BY <1>1, <2>1 DEF Acceptable, Live
  <2> QED BY <2>2, <2>3, <2>4
<1>4. Minted' = Minted BY <1>3 DEF Minted
<1>5. \A f : Of(f)' = Of(f) /\ LiveIn(f)' = LiveIn(f) BY <1>3, <1>4 DEF Of, LiveIn, Live
<1>6. OneLivePerFamily' /\ EndedStaysDead' /\ EndedFamiliesExist'
  BY <1>2, <1>3, <1>4, <1>5 DEF OneLivePerFamily, EndedStaysDead, EndedFamiliesExist, Live
<1>7. \A q \in Procs : proc[q].at \in {"rotate", "commit"} => tokens'[proc[q].token].state = "live"
  BY <1>3 DEF RotatesWhatLives, Live, TokensAreMinted, Decides
<1>8. TypeOK'
  <2>1. changes' \in Nat BY DEF TypeOK, TokenExpires, Changes
  <2> QED BY <1>2, <1>3, <1>4, <2>1 DEF TypeOK, Token
<1>9. \A q \in Procs : RevokesOne(q) => \A f : f = FamilyOf(q) => LiveIn(f)' \subseteq LiveIn(f)
  BY <1>5
<1> QED BY <1>2, <1>3, <1>4, <1>6, <1>7, <1>8, <1>9, Step, NobodyAssumption

-----------------------------------------------------------------------------
LEMMA StutterStep == ASSUME IInv, UNCHANGED vars PROVE IInv'
BY SMTT(30) DEF vars, IInv, TypeOK, OneLivePerFamily, EndedStaysDead, TokensAreMinted, DecidersHoldTheLock,
       RotatesWhatLives, RevokersSeeAll, EndedFamiliesExist, Decides, RevokesOne, FamilyOf, LiveIn, Of,
       Live, Minted

(* Every request, the reactivation of the member and the expiry of a token   *)
(* preserve the invariant.                                                   *)
THEOREM Inductive == IInv /\ [Next]_vars => IInv'
<1> SUFFICES ASSUME IInv, [Next]_vars PROVE IInv' OBVIOUS
<1>1. ASSUME NEW p \in Procs, Request(p) PROVE IInv'
  <2>1. CASE LoginChecks(p) \/ LoginIssues(p) BY <2>1, LoginChecksStep, LoginIssuesStep
  <2>2. CASE LooksUp(p) \/ LocksFamily(p) BY <2>2, LooksUpStep, LocksFamilyStep
  <2>3. CASE RefreshRefuses(p) \/ RefreshRevokes(p) BY <2>3, RefreshRefusesStep, RefreshRevokesStep
  <2>4. CASE RefreshAccepts(p) \/ RefreshWrites(p) \/ RefreshCommits(p)
    BY <2>4, RefreshAcceptsStep, RefreshWritesStep, RefreshCommitsStep
  <2>5. CASE RevokesFamily(p) \/ Fails(p) BY <2>5, RevokesFamilyStep, FailsStep
  <2>6. CASE RevokeAllStarts(p) \/ RevokeAllLocks(p) \/ RevokeAllSees(p)
    BY <2>6, RevokeAllStartsStep, RevokeAllLocksStep, RevokeAllSeesStep
  <2>7. CASE RevokeAllEnds(p) \/ RevokeAllIsLost(p) BY <2>7, RevokeAllEndsStep, RevokeAllIsLostStep
  <2>8. CASE Suspend(p) \/ Downgrade(p) \/ Remove(p) BY <2>8, SuspendStep, DowngradeStep, RemoveStep
  <2> QED BY <1>1, <2>1, <2>2, <2>3, <2>4, <2>5, <2>6, <2>7, <2>8 DEF Request
<1> QED BY <1>1, ReactivateStep, TokenExpiresStep, StutterStep DEF Next

(* IInv holds in every state, for any number of families, requests, tokens   *)
(* and changes.                                                              *)
THEOREM InvariantHolds == Spec => []IInv
<1> QED BY InitIInv, Inductive, PTL DEF Spec

(* Every variable keeps its type (services/auth/session.rs).                 *)
THEOREM TypeCorrect == Spec => []TypeOK
<1>1. IInv => TypeOK BY DEF IInv
<1> QED BY <1>1, InvariantHolds, PTL

(* Of all refreshes that present a token at most one is answered with a      *)
(* successor: a family never has two tokens that can be refreshed.           *)
THEOREM OneSuccessor == Spec => []OneLivePerFamily
<1>1. IInv => OneLivePerFamily BY DEF IInv
<1> QED BY <1>1, InvariantHolds, PTL

(* A logout, a reuse or a revoke-all that was answered has ended the family: *)
(* a rotation under way leaves no successor behind.                          *)
THEOREM EndedFamiliesStayDead == Spec => []EndedStaysDead
<1>1. IInv => EndedStaysDead BY DEF IInv
<1> QED BY <1>1, InvariantHolds, PTL

\* The families keep to it beside whatever else is composed with them: a family has one
\* token that can be refreshed, an ended one has none (services/auth/session.rs).
THEOREM FamiliesKeepTheInvariant == MCSpec => []IInv
<1>1. MCInit => IInv
  BY InitIInv DEF MCInit
<1>2. IInv /\ [MCNext]_<<part, vars, mvars, cvars, dvars>> => IInv'
  <2> SUFFICES ASSUME IInv, [MCNext]_<<part, vars, mvars, cvars, dvars>> PROVE IInv'
    OBVIOUS
  <2>1. [Next]_vars
    BY DEF MCNext
  <2> QED BY <2>1, Inductive
<1> QED BY <1>1, <1>2, PTL DEF MCSpec

-----------------------------------------------------------------------------
(* Records of the members.                                                  *)

MemberRecs == [role : {"owner", "admin", "none"}, state : {"active", "suspended", "none"}]
ClerkRecs ==
    [op : {"none", "change_role", "remove", "suspend", "reactivate", "accept"},
     at : {"idle", "tier", "owners", "locking", "write", "accept"},
     caller : Users \cup {Nobody}, target : Users \cup {Nobody}, role : {"owner", "admin", "none"},
     read : MemberRecs, todo : SUBSET (Users \cup Invites), owners : SUBSET Users]

OwnerChanges == {"change_role", "remove", "suspend", "reactivate"}

MemberTypes ==
    /\ members \in [Users -> MemberRecs]
    /\ clerk \in [Procs -> ClerkRecs]
    /\ row \in [Users -> Procs \cup {Nobody}]
    /\ invite \in [Invites -> [role : {"owner", "admin", "none"}, status : {"none", "open", "accepted", "revoked"}]]
    /\ joined \in [Invites -> SUBSET Users]

\* The transaction may leave its target without the role or the membership.
Takes(p) == \/ clerk[p].op \in {"remove", "suspend"}
            \/ clerk[p].op = "change_role" /\ clerk[p].role # "owner"

\* The owners a transaction counts are owners still, for it holds their rows;
\* one that was let through to take an owner away holds the row of another.
Counted(p) ==
    /\ clerk[p].at \in {"tier", "owners", "locking", "write"} => clerk[p].op \in OwnerChanges
    /\ clerk[p].at \in {"tier", "owners"} => clerk[p].owners = {}
    /\ clerk[p].at = "accept" => clerk[p].todo \subseteq Invites /\ clerk[p].target \in Users
    /\ clerk[p].at = "locking" => clerk[p].todo \subseteq Users
    /\ clerk[p].at = "locking" => \A u \in clerk[p].owners : row[u] = p /\ M!ActiveOwner(u)
    /\ clerk[p].at = "write" /\ Takes(p) =>
         \E u \in Users : u # clerk[p].target /\ row[u] = p /\ M!ActiveOwner(u)

InviteInv == \A i \in Invites : IF invite[i].status = "accepted" THEN \E u \in Users : joined[i] = {u}
                                ELSE joined[i] = {}

MembersInv == MemberTypes /\ (\A p \in Procs : Counted(p)) /\ AlwaysAnOwner /\ InviteInv

-----------------------------------------------------------------------------
(* Members.                                                                *)

\* A step of one transaction, as the others see it: it leaves the rows they
\* hold alone.
Elsewhere(p) ==
    /\ \A q \in Procs \ {p} : clerk'[q] = clerk[q]
    /\ \A u \in Users : row[u] \notin {p, Nobody} => row'[u] = row[u] /\ members'[u] = members[u]

LEMMA OthersKeep ==
  ASSUME MembersInv, NEW p \in Procs, Elsewhere(p), NEW q \in Procs \ {p}
  PROVE  Counted(q)'
<1>1. clerk'[q] = clerk[q] /\ Counted(q) /\ q # Nobody
  BY InstancesAssumption DEF Elsewhere, MembersInv, M!MembersAssumption
<1>2. ASSUME NEW u \in Users, row[u] = q, M!ActiveOwner(u) PROVE row'[u] = q /\ M!ActiveOwner(u)'
  BY <1>1, <1>2 DEF Elsewhere, M!ActiveOwner
<1>3. clerk[q].owners \subseteq Users
  BY DEF MembersInv, MemberTypes, ClerkRecs
<1> QED BY <1>1, <1>2, <1>3 DEF Counted, Takes

\* Where a step of a transaction changes neither members nor invites.
LEMMA MembersKept ==
  ASSUME MembersInv, NEW p \in Procs, Elsewhere(p), UNCHANGED <<members, invite, joined>>,
         row' \in [Users -> Procs \cup {Nobody}], clerk' \in [Procs -> ClerkRecs], Counted(p)'
  PROVE  MembersInv'
<1>1. MemberTypes'
  BY DEF MembersInv, MemberTypes
<1>2. \A q \in Procs : Counted(q)'
  BY OthersKeep
<1>3. AlwaysAnOwner' /\ InviteInv'
  BY DEF MembersInv, AlwaysAnOwner, M!AlwaysAnOwner, M!ActiveOwner, InviteInv
<1> QED BY <1>1, <1>2, <1>3 DEF MembersInv

\* A transaction that is over.
LEMMA ClerkEnds ==
  ASSUME MembersInv, NEW p \in Procs, clerk' = M!Ended(p)
  PROVE  /\ clerk' \in [Procs -> ClerkRecs] /\ Counted(p)'
         /\ \A q \in Procs \ {p} : clerk'[q] = clerk[q]
<1>1. M!Idle \in ClerkRecs /\ M!Idle.at = "idle"
  BY DEF M!Idle, M!Absent, ClerkRecs, MemberRecs
<1>2. clerk \in [Procs -> ClerkRecs]
  BY DEF MembersInv, MemberTypes
<1>3. clerk' = [clerk EXCEPT ![p] = M!Idle]
  BY DEF M!Ended
<1>4. clerk' \in [Procs -> ClerkRecs] /\ clerk'[p].at = "idle" /\ \A q \in Procs \ {p} : clerk'[q] = clerk[q]
  BY <1>1, <1>2, <1>3
<1> QED BY <1>4 DEF Counted

LEMMA RowsGoFree ==
  ASSUME MembersInv, NEW p \in Procs, row' = M!RowsReleased(p)
  PROVE  /\ row' \in [Users -> Procs \cup {Nobody}]
         /\ \A u \in Users : row[u] # p => row'[u] = row[u]
BY DEF M!RowsReleased, MembersInv, MemberTypes

LEMMA ReadsStep ==
  ASSUME MembersInv, NEW p \in Procs, M!Reads(p)
  PROVE  MembersInv'
<1>0. members \in [Users -> MemberRecs] /\ clerk \in [Procs -> ClerkRecs] /\ row \in [Users -> Procs \cup {Nobody}]
  BY DEF MembersInv, MemberTypes
<1>1. PICK c, t \in Users, op \in {"change_role", "remove", "suspend", "reactivate"}, new \in M!Roles :
          /\ members[c].state = "active"
          /\ members[t] # M!Absent
          /\ op # "change_role" => new = "owner"
          /\ op = "change_role" => new # members[t].role
          /\ op = "suspend" => members[t].state = "active"
          /\ op = "reactivate" => members[t].state = "suspended"
          /\ clerk' = [clerk EXCEPT ![p] =
                [M!Idle EXCEPT !.op = op, !.at = "tier", !.caller = c, !.target = t,
                             !.role = IF op = "change_role" THEN new ELSE "none", !.read = members[t]]]
  BY DEF M!Reads
<1> DEFINE ro == IF op = "change_role" THEN new ELSE "none"
           re == members[t]
           r == [M!Idle EXCEPT !.op = op, !.at = "tier", !.caller = c, !.target = t, !.role = ro, !.read = re]
<1>2. ro \in {"owner", "admin", "none"} /\ re \in MemberRecs
  BY <1>0 DEF M!Roles
<1>3. M!Idle \in ClerkRecs /\ M!Idle.owners = {}
  BY DEF M!Idle, M!Absent, ClerkRecs, MemberRecs
<1>4. clerk' = [clerk EXCEPT ![p] = r]
  BY <1>1, Zenon
<1> HIDE DEF ro, re
<1>5. r \in ClerkRecs /\ r.at = "tier" /\ r.owners = {} /\ r.op \in OwnerChanges
  BY <1>2, <1>3 DEF ClerkRecs, OwnerChanges
<1> HIDE DEF r
<1>6. clerk' \in [Procs -> ClerkRecs] /\ clerk'[p] = r /\ \A q \in Procs \ {p} : clerk'[q] = clerk[q]
  BY <1>0, <1>4, <1>5
<1>7. UNCHANGED <<members, invite, joined, row>>
  BY DEF M!Reads
<1>8. Counted(p)' /\ Elsewhere(p)
  BY <1>5, <1>6, <1>7 DEF Counted, Elsewhere
<1> QED BY <1>0, <1>6, <1>7, <1>8, MembersKept

LEMMA TierStep ==
  ASSUME MembersInv, NEW p \in Procs, M!GuardOwnerTier(p)
  PROVE  MembersInv'
<1>0. clerk \in [Procs -> ClerkRecs] /\ row \in [Users -> Procs \cup {Nobody}] /\ clerk[p] \in ClerkRecs
  BY DEF MembersInv, MemberTypes
<1>1. UNCHANGED <<members, invite, joined, row>>
  BY DEF M!GuardOwnerTier
<1>2. CASE clerk' = M!Ended(p)
  BY <1>0, <1>1, <1>2, ClerkEnds, MembersKept DEF Elsewhere
<1>3. CASE clerk' # M!Ended(p)
  <2> DEFINE a == IF clerk[p].op = "reactivate" THEN "write" ELSE "owners"
             re == [clerk[p].read EXCEPT !.role = "none"]
  <2>1. clerk' = [clerk EXCEPT ![p] = [[[clerk[p] EXCEPT !.at = a] EXCEPT !.caller = Nobody] EXCEPT !.read = re]]
    BY <1>0, <1>3 DEF M!GuardOwnerTier, ClerkRecs
  <2>2. a \in {"write", "owners"} /\ (a = "write" => clerk[p].op = "reactivate")
    OBVIOUS
  <2>3. re \in MemberRecs
    BY <1>0 DEF ClerkRecs, MemberRecs
  <2> HIDE DEF a, re
  <2> DEFINE r == [[[clerk[p] EXCEPT !.at = a] EXCEPT !.caller = Nobody] EXCEPT !.read = re]
  <2>4. r \in ClerkRecs /\ r.at = a /\ r.op = clerk[p].op /\ r.owners = clerk[p].owners
    BY <1>0, <2>2, <2>3 DEF ClerkRecs
  <2>5. clerk' = [clerk EXCEPT ![p] = r]
    BY <2>1
  <2> HIDE DEF r
  <2>6. clerk' \in [Procs -> ClerkRecs] /\ clerk'[p] = r /\ \A q \in Procs \ {p} : clerk'[q] = clerk[q]
    BY <1>0, <2>4, <2>5
  <2>7. clerk[p].owners = {} /\ clerk[p].op \in OwnerChanges
    BY DEF MembersInv, Counted, M!GuardOwnerTier
  <2>8. Counted(p)' /\ Elsewhere(p)
    BY <1>1, <2>2, <2>4, <2>6, <2>7 DEF Counted, Takes, Elsewhere
  <2> QED BY <1>0, <1>1, <2>6, <2>8, MembersKept
<1> QED BY <1>2, <1>3

LEMMA OwnersSeenStep ==
  ASSUME MembersInv, NEW p \in Procs, M!OwnersSeen(p)
  PROVE  MembersInv'
<1>0. clerk \in [Procs -> ClerkRecs] /\ row \in [Users -> Procs \cup {Nobody}] /\ clerk[p] \in ClerkRecs
  BY DEF MembersInv, MemberTypes
<1>1. UNCHANGED <<members, invite, joined, row>>
  BY DEF M!OwnersSeen
<1> DEFINE s == {u \in Users : members[u].role = "owner"}
           r == [[clerk[p] EXCEPT !.at = "locking"] EXCEPT !.todo = s]
<1>2. s \in SUBSET (Users \cup Invites)
  OBVIOUS
<1>3. clerk' = [clerk EXCEPT ![p] = r]
  BY <1>0 DEF M!OwnersSeen
<1> HIDE DEF s
<1>t. s \subseteq Users
  BY DEF s
<1>4. r \in ClerkRecs /\ r.at = "locking" /\ r.owners = clerk[p].owners /\ r.todo = s /\ r.op = clerk[p].op
  BY <1>0, <1>2 DEF ClerkRecs
<1> HIDE DEF r
<1>5. clerk' \in [Procs -> ClerkRecs] /\ clerk'[p] = r /\ \A q \in Procs \ {p} : clerk'[q] = clerk[q]
  BY <1>0, <1>3, <1>4
<1>6. clerk[p].owners = {} /\ clerk[p].op \in OwnerChanges
  BY DEF MembersInv, Counted, M!OwnersSeen
<1>7. Counted(p)' /\ Elsewhere(p)
  BY <1>1, <1>4, <1>5, <1>6, <1>t DEF Counted, Elsewhere
<1> QED BY <1>0, <1>1, <1>5, <1>7, MembersKept

\* An owner whose row is locked stays one until the lock is given back.
LEMMA LockStep ==
  ASSUME MembersInv, NEW p \in Procs, M!LockOwnerRow(p)
  PROVE  MembersInv'
<1>0. /\ clerk \in [Procs -> ClerkRecs] /\ row \in [Users -> Procs \cup {Nobody}] /\ clerk[p] \in ClerkRecs
      /\ members \in [Users -> MemberRecs]
  BY DEF MembersInv, MemberTypes
<1>1. UNCHANGED <<members, invite, joined>> /\ clerk[p].at = "locking"
  BY DEF M!LockOwnerRow
<1>2. PICK u \in clerk[p].todo :
         /\ M!RowFree(u, p)
         /\ row' = IF members[u] = M!Absent THEN row ELSE [row EXCEPT ![u] = p]
         /\ clerk' = [clerk EXCEPT ![p].todo = @ \ {u},
                                   ![p].owners = IF M!ActiveOwner(u) THEN @ \cup {u} ELSE @]
  BY DEF M!LockOwnerRow
<1> DEFINE s == clerk[p].todo \ {u}
           o == IF M!ActiveOwner(u) THEN clerk[p].owners \cup {u} ELSE clerk[p].owners
           r == [[clerk[p] EXCEPT !.todo = s] EXCEPT !.owners = o]
<1>3. clerk' = [clerk EXCEPT ![p] = r]
  BY <1>0, <1>2 DEF ClerkRecs
<1>4. u \in Users /\ Counted(p) /\ clerk[p].todo \subseteq Users
  BY <1>1 DEF MembersInv, Counted
<1>5. s \in SUBSET (Users \cup Invites) /\ s \subseteq Users /\ o \in SUBSET Users
  BY <1>0, <1>4 DEF ClerkRecs
<1>6. o = clerk[p].owners \/ (M!ActiveOwner(u) /\ o = clerk[p].owners \cup {u})
  OBVIOUS
<1> HIDE DEF s, o
<1>7. r \in ClerkRecs /\ r.at = "locking" /\ r.owners = o /\ r.todo = s /\ r.op = clerk[p].op
  BY <1>0, <1>1, <1>5 DEF ClerkRecs
<1> HIDE DEF r
<1>8. clerk' \in [Procs -> ClerkRecs] /\ clerk'[p] = r /\ \A q \in Procs \ {p} : clerk'[q] = clerk[q]
  BY <1>0, <1>3, <1>7
<1>9. /\ row' \in [Users -> Procs \cup {Nobody}]
      /\ \A v \in Users : row[v] \notin {p, Nobody} => row'[v] = row[v]
      /\ \A v \in Users : row[v] = p => row'[v] = p
      /\ M!ActiveOwner(u) => row'[u] = p
  <2>1. row' \in [Users -> Procs \cup {Nobody}] /\ row[u] \in {Nobody, p}
    BY <1>0, <1>2, <1>4 DEF M!RowFree
  <2>2. M!ActiveOwner(u) => members[u] # M!Absent
    BY DEF M!ActiveOwner, M!Absent
  <2> QED BY <1>0, <1>2, <1>4, <2>1, <2>2
<1>10. Counted(p)'
  BY <1>1, <1>4, <1>5, <1>6, <1>7, <1>8, <1>9 DEF Counted, M!ActiveOwner
<1>11. Elsewhere(p)
  BY <1>1, <1>8, <1>9 DEF Elsewhere
<1> QED BY <1>1, <1>8, <1>9, <1>10, <1>11, MembersKept

\* Whoever passes the count leaves an owner whose row it holds.
LEMMA LastOwnerStep ==
  ASSUME MembersInv, NEW p \in Procs, M!GuardLastOwner(p)
  PROVE  MembersInv'
<1>0. /\ clerk \in [Procs -> ClerkRecs] /\ row \in [Users -> Procs \cup {Nobody}] /\ clerk[p] \in ClerkRecs
      /\ Counted(p)
  BY DEF MembersInv, MemberTypes
<1>1. UNCHANGED <<members, invite, joined>> /\ clerk[p].at = "locking"
  BY DEF M!GuardLastOwner
<1>2. CASE ~ M!CheckLastOwner(p)
  <2>1. clerk' = M!Ended(p) /\ row' = M!RowsReleased(p)
    BY <1>2 DEF M!GuardLastOwner
  <2>2. Elsewhere(p)
    BY <1>1, <2>1, ClerkEnds, RowsGoFree DEF Elsewhere
  <2> QED BY <1>1, <2>1, <2>2, ClerkEnds, RowsGoFree, MembersKept
<1>3. CASE M!CheckLastOwner(p)
  <2>0. row' = row
    BY <1>3 DEF M!GuardLastOwner
  <2> DEFINE r == [[[clerk[p] EXCEPT !.at = "write"] EXCEPT !.read = M!Absent] EXCEPT !.owners = {}]
  <2>1. clerk' = [clerk EXCEPT ![p] = r]
    BY <1>0, <1>3 DEF M!GuardLastOwner, ClerkRecs
  <2>2. M!Absent \in MemberRecs
    BY DEF M!Absent, MemberRecs
  <2>3. /\ r \in ClerkRecs /\ r.at = "write" /\ r.op = clerk[p].op /\ r.role = clerk[p].role
        /\ r.target = clerk[p].target
    BY <1>0, <2>2 DEF ClerkRecs
  <2> HIDE DEF r
  <2>4. clerk' \in [Procs -> ClerkRecs] /\ clerk'[p] = r /\ \A q \in Procs \ {p} : clerk'[q] = clerk[q]
    BY <1>0, <2>1, <2>3
  <2>5. Takes(p) => \E u \in Users : u # clerk[p].target /\ row[u] = p /\ M!ActiveOwner(u)
    <3>1. Takes(p) => ~ M!WillBeActiveOwner(p)
      BY DEF Takes, M!WillBeActiveOwner
    <3>2. clerk[p].owners \subseteq Users
      BY <1>0 DEF ClerkRecs
    <3> QED BY <1>0, <1>1, <1>3, <3>1, <3>2 DEF M!CheckLastOwner, Counted
  <2>6. Counted(p)' /\ Elsewhere(p)
    BY <1>0, <1>1, <2>0, <2>3, <2>4, <2>5 DEF Counted, Takes, Elsewhere, M!ActiveOwner
  <2> QED BY <1>0, <1>1, <2>0, <2>4, <2>6, MembersKept
<1> QED BY <1>2, <1>3

\* The write: what it takes away is not the last owner.
LEMMA WritesStep ==
  ASSUME MembersInv, NEW p \in Procs, M!Writes(p)
  PROVE  MembersInv'
<1>0. /\ clerk \in [Procs -> ClerkRecs] /\ row \in [Users -> Procs \cup {Nobody}] /\ clerk[p] \in ClerkRecs
      /\ members \in [Users -> MemberRecs] /\ Counted(p) /\ AlwaysAnOwner /\ InviteInv
  BY DEF MembersInv, MemberTypes
<1> DEFINE t == clerk[p].target
           m == IF members[t] = M!Absent THEN members[t] ELSE M!Changed(p, members[t])
<1>1. /\ UNCHANGED <<invite, joined>> /\ clerk[p].at = "write" /\ M!RowFree(t, p)
      /\ members' = [members EXCEPT ![t] = m]
      /\ row' = M!RowsReleased(p) /\ clerk' = M!Ended(p)
  BY DEF M!Writes
<1>2. t \in Users => m \in MemberRecs
  <2>1. ASSUME t \in Users PROVE M!Changed(p, members[t]) \in MemberRecs
    <3>1. members[t] \in MemberRecs /\ clerk[p].role \in {"owner", "admin", "none"}
      BY <1>0, <2>1 DEF ClerkRecs
    <3>2. clerk[p].op \in OwnerChanges
      BY <1>0, <1>1 DEF Counted
    <3> QED BY <3>1, <3>2 DEF M!Changed, MemberRecs, M!Absent, OwnerChanges
  <2> QED BY <1>0, <2>1
<1>3. members' \in [Users -> MemberRecs] /\ \A u \in Users : members'[u] = IF u = t THEN m ELSE members[u]
  BY <1>0, <1>1, <1>2
\* What does not take leaves an active owner as it was.
<1>4. ASSUME t \in Users, ~ Takes(p), M!ActiveOwner(t) PROVE m.role = "owner" /\ m.state = "active"
  <2>1. members[t] \in MemberRecs /\ members[t].role = "owner" /\ members[t].state = "active"
    BY <1>0, <1>4 DEF M!ActiveOwner
  <2>2. clerk[p].op \in OwnerChanges /\ clerk[p].op \notin {"remove", "suspend"}
        /\ (clerk[p].op = "change_role" => clerk[p].role = "owner")
    BY <1>0, <1>1, <1>4 DEF Counted, Takes
  <2>3. CASE clerk[p].op = "change_role"
    <3>1. M!Changed(p, members[t]) = [members[t] EXCEPT !.role = "owner"]
      BY <2>2, <2>3 DEF M!Changed
    <3> QED BY <2>1, <3>1 DEF MemberRecs
  <2>4. CASE clerk[p].op = "reactivate"
    <3>1. M!Changed(p, members[t]) = [members[t] EXCEPT !.state = "active"]
      BY <2>4 DEF M!Changed
    <3> QED BY <2>1, <3>1 DEF MemberRecs
  <2> QED BY <2>2, <2>3, <2>4 DEF OwnerChanges
<1> HIDE DEF m
<1>5. PICK u \in Users : M!ActiveOwner(u) /\ (u = t => ~ Takes(p))
  <2>1. CASE Takes(p)
    BY <1>0, <1>1, <2>1 DEF Counted
  <2>2. CASE ~ Takes(p)
    BY <1>0, <2>2 DEF AlwaysAnOwner, M!AlwaysAnOwner
  <2> QED BY <2>1, <2>2
<1>6. M!ActiveOwner(u)'
  BY <1>3, <1>4, <1>5 DEF M!ActiveOwner
<1>7. AlwaysAnOwner'
  BY <1>6 DEF AlwaysAnOwner, M!AlwaysAnOwner
<1>8. Elsewhere(p) /\ Counted(p)' /\ MemberTypes'
  <2>1. \A v \in Users : row[v] \notin {p, Nobody} => v # t
    BY <1>1 DEF M!RowFree
  <2>2. Elsewhere(p)
    BY <1>1, <1>3, <2>1, ClerkEnds, RowsGoFree DEF Elsewhere
  <2>3. MemberTypes'
    BY <1>1, <1>3, ClerkEnds, RowsGoFree DEF MembersInv, MemberTypes
  <2> QED BY <1>1, <2>2, <2>3, ClerkEnds
<1>9. \A q \in Procs : Counted(q)'
  BY <1>8, OthersKeep
<1>10. InviteInv'
  BY <1>0, <1>1 DEF InviteInv
<1> QED BY <1>7, <1>8, <1>9, <1>10 DEF MembersInv

LEMMA RollBackStep ==
  ASSUME MembersInv, NEW p \in Procs, M!RollsBack(p)
  PROVE  MembersInv'
<1>1. clerk' = M!Ended(p) /\ row' = M!RowsReleased(p) /\ UNCHANGED <<members, invite, joined>>
  BY DEF M!RollsBack
<1>2. Elsewhere(p)
  BY <1>1, ClerkEnds, RowsGoFree DEF Elsewhere
<1> QED BY <1>1, <1>2, ClerkEnds, RowsGoFree, MembersKept

-----------------------------------------------------------------------------
(* Invites.                                                                *)

LEMMA InvitesStep ==
  ASSUME MembersInv, M!CreateInvite \/ M!RevokeInvite
  PROVE  MembersInv'
<1> DEFINE Recs == [role : {"owner", "admin", "none"}, status : {"none", "open", "accepted", "revoked"}]
<1>0. invite \in [Invites -> Recs] /\ InviteInv
  BY DEF MembersInv, MemberTypes
<1>1. PICK i \in Invites, s \in {"open", "revoked"}, r \in {"owner", "admin", "none"} :
         invite[i].status # "accepted" /\ invite' = [invite EXCEPT ![i] = [role |-> r, status |-> s]]
  <2>1. CASE M!CreateInvite
    BY <2>1 DEF M!CreateInvite, M!Roles
  <2>2. CASE M!RevokeInvite
    <3>1. PICK i \in Invites : invite[i].status = "open" /\ invite' = [invite EXCEPT ![i].status = "revoked"]
      BY <2>2 DEF M!RevokeInvite
    <3>2. [invite[i] EXCEPT !.status = "revoked"] = [role |-> invite[i].role, status |-> "revoked"]
          /\ invite[i].role \in {"owner", "admin", "none"}
      BY <1>0
    <3>3. invite' = [invite EXCEPT ![i] = [role |-> invite[i].role, status |-> "revoked"]]
      BY <3>1, <3>2
    <3> QED BY <3>1, <3>2, <3>3
  <2> QED BY <2>1, <2>2
<1>2. UNCHANGED <<members, joined, row, clerk>>
  BY DEF M!CreateInvite, M!RevokeInvite
<1>3. [role |-> r, status |-> s] \in Recs
  OBVIOUS
<1>4. invite' \in [Invites -> Recs] /\ \A j \in Invites : invite'[j] = IF j = i THEN [role |-> r, status |-> s] ELSE invite[j]
  BY <1>0, <1>1, <1>3
<1>5. InviteInv'
  BY <1>0, <1>1, <1>2, <1>4 DEF InviteInv
<1>6. MemberTypes'
  BY <1>2, <1>4 DEF MembersInv, MemberTypes
<1>7. AlwaysAnOwner' /\ \A q \in Procs : Counted(q)'
  BY <1>2 DEF MembersInv, AlwaysAnOwner, M!AlwaysAnOwner, M!ActiveOwner, Counted, Takes
<1> QED BY <1>5, <1>6, <1>7 DEF MembersInv

LEMMA AcceptReadsStep ==
  ASSUME MembersInv, NEW p \in Procs, M!AcceptReads(p)
  PROVE  MembersInv'
<1>0. clerk \in [Procs -> ClerkRecs] /\ row \in [Users -> Procs \cup {Nobody}]
  BY DEF MembersInv, MemberTypes
<1>1. PICK i \in Invites, u \in Users :
         clerk' = [clerk EXCEPT ![p] = [M!Idle EXCEPT !.op = "accept", !.at = "accept", !.target = u, !.todo = {i}]]
  BY DEF M!AcceptReads
<1> DEFINE r == [M!Idle EXCEPT !.op = "accept", !.at = "accept", !.target = u, !.todo = {i}]
<1>2. M!Idle \in ClerkRecs
  BY DEF M!Idle, M!Absent, ClerkRecs, MemberRecs
<1>3. r \in ClerkRecs /\ r.at = "accept" /\ r.target = u /\ r.todo = {i}
  BY <1>2 DEF ClerkRecs
<1>4. clerk' = [clerk EXCEPT ![p] = r]
  BY <1>1
<1> HIDE DEF r
<1>5. clerk' \in [Procs -> ClerkRecs] /\ clerk'[p] = r /\ \A q \in Procs \ {p} : clerk'[q] = clerk[q]
  BY <1>0, <1>3, <1>4
<1>6. UNCHANGED <<members, invite, joined, row>>
  BY DEF M!AcceptReads
<1>7. Counted(p)' /\ Elsewhere(p)
  BY <1>3, <1>5, <1>6 DEF Counted, Elsewhere
<1> QED BY <1>0, <1>5, <1>6, <1>7, MembersKept

\* The invite is used up in the transaction that lets its user in.
LEMMA AcceptStep ==
  ASSUME MembersInv, NEW p \in Procs, M!AcceptWrites(p)
  PROVE  MembersInv'
<1>0. /\ members \in [Users -> MemberRecs] /\ row \in [Users -> Procs \cup {Nobody}]
      /\ invite \in [Invites -> [role : {"owner", "admin", "none"}, status : {"none", "open", "accepted", "revoked"}]]
      /\ joined \in [Invites -> SUBSET Users] /\ InviteInv /\ AlwaysAnOwner
  BY DEF MembersInv, MemberTypes
<1>1. clerk' = M!Ended(p) /\ row' = row
  BY DEF M!AcceptWrites
<1>2. CASE UNCHANGED <<members, invite, joined>>
  BY <1>0, <1>1, <1>2, ClerkEnds, MembersKept DEF Elsewhere
<1>3. CASE ~ UNCHANGED <<members, invite, joined>>
  <2> DEFINE u == clerk[p].target
  <2>1. PICK i \in clerk[p].todo :
           /\ members[u] = M!Absent /\ invite[i].status = "open"
           /\ members' = [members EXCEPT ![u] = [role |-> invite[i].role, state |-> "active"]]
           /\ invite' = [invite EXCEPT ![i].status = "accepted"]
           /\ joined' = [joined EXCEPT ![i] = @ \cup {u}]
    <3>1. clerk[p].at = "accept"
      BY DEF M!AcceptWrites
    <3> QED BY <1>3, <3>1 DEF M!AcceptWrites, M!StillOpen
  <2>2. u \in Users /\ i \in Invites
    BY DEF MembersInv, Counted, M!AcceptWrites
  <2>3. invite[i].role \in {"owner", "admin", "none"} /\ joined[i] = {}
    BY <1>0, <2>1, <2>2 DEF InviteInv
  <2> HIDE DEF u
  <2>4. [role |-> invite[i].role, state |-> "active"] \in MemberRecs
    BY <2>3 DEF MemberRecs
  <2>5. /\ members' \in [Users -> MemberRecs]
        /\ \A v \in Users : members[v] # M!Absent => members'[v] = members[v]
    BY <1>0, <2>1, <2>2, <2>4
  <2>6. /\ invite' \in [Invites -> [role : {"owner", "admin", "none"}, status : {"none", "open", "accepted", "revoked"}]]
        /\ invite'[i].status = "accepted" /\ \A j \in Invites \ {i} : invite'[j] = invite[j]
    BY <1>0, <2>1, <2>2
  <2>7. joined' \in [Invites -> SUBSET Users] /\ joined'[i] = {u} /\ \A j \in Invites \ {i} : joined'[j] = joined[j]
    BY <1>0, <2>1, <2>2, <2>3
  <2>8. \A v \in Users : M!ActiveOwner(v) => M!ActiveOwner(v)'
    BY <2>5 DEF M!ActiveOwner, M!Absent
  <2>9. MemberTypes' /\ InviteInv' /\ AlwaysAnOwner'
    <3>1. MemberTypes'
      BY <1>0, <1>1, <2>5, <2>6, <2>7, ClerkEnds DEF MemberTypes
    <3>2. InviteInv'
      BY <1>0, <2>2, <2>6, <2>7 DEF InviteInv
    <3>3. AlwaysAnOwner'
      BY <1>0, <2>8 DEF AlwaysAnOwner, M!AlwaysAnOwner
    <3> QED BY <3>1, <3>2, <3>3
  <2>10. ASSUME NEW q \in Procs \ {p} PROVE Counted(q)'
    <3>1. Counted(q) /\ clerk'[q] = clerk[q] /\ row' = row /\ clerk[q].owners \subseteq Users
      BY <1>1, ClerkEnds DEF MembersInv, MemberTypes, ClerkRecs
    <3> QED BY <2>8, <3>1 DEF Counted, Takes
  <2> QED BY <1>1, <2>9, <2>10, ClerkEnds DEF MembersInv
<1> QED BY <1>2, <1>3

-----------------------------------------------------------------------------
(* The members of the composition.                                         *)

LEMMA MembersInit == MCInit => MembersInv
<1> SUFFICES ASSUME MCInit PROVE MembersInv
  OBVIOUS
<1>1. M!Init /\ Founders \subseteq Users /\ Founders # {}
  BY InstancesAssumption DEF MCInit, M!MembersAssumption
<1>2. /\ members = [u \in Users |-> IF u \in Founders THEN [role |-> "owner", state |-> "active"] ELSE M!Absent]
      /\ invite = [i \in Invites |-> [role |-> "none", status |-> "none"]]
      /\ joined = [i \in Invites |-> {}]
      /\ row = [u \in Users |-> Nobody]
      /\ clerk = [p \in Procs |-> M!Idle]
  BY <1>1 DEF M!Init
<1>3. M!Idle \in ClerkRecs /\ M!Absent \in MemberRecs /\ M!Idle.at = "idle"
  BY DEF M!Idle, M!Absent, ClerkRecs, MemberRecs
<1>4. [role |-> "owner", state |-> "active"] \in MemberRecs
  BY DEF MemberRecs
<1>5. MemberTypes
  BY <1>2, <1>3, <1>4 DEF MemberTypes
<1>6. \A p \in Procs : Counted(p)
  BY <1>2, <1>3 DEF Counted
<1>7. AlwaysAnOwner
  BY <1>1, <1>2 DEF AlwaysAnOwner, M!AlwaysAnOwner, M!ActiveOwner
<1>8. InviteInv
  BY <1>2 DEF InviteInv
<1> QED BY <1>5, <1>6, <1>7, <1>8 DEF MembersInv

LEMMA MembersStep == MembersInv /\ [MCNext]_<<part, vars, mvars, cvars, dvars>> => MembersInv'
<1> SUFFICES ASSUME MembersInv, [MCNext]_<<part, vars, mvars, cvars, dvars>> PROVE MembersInv'
  OBVIOUS
<1>1. CASE UNCHANGED mvars
  BY <1>1 DEF mvars, MembersInv, MemberTypes, Counted, Takes, AlwaysAnOwner, M!AlwaysAnOwner, M!ActiveOwner, InviteInv
<1>2. CASE M!Next
  BY <1>2, ReadsStep, TierStep, OwnersSeenStep, LockStep, LastOwnerStep, WritesStep, RollBackStep, InvitesStep,
     AcceptReadsStep, AcceptStep DEF M!Next
<1> QED BY <1>1, <1>2 DEF MCNext

\* However changes of role, removals and suspensions overlap, also those that
\* read a target who has changed since, the organisation keeps an active owner.
THEOREM AnOwnerRemains == MCSpec => []AlwaysAnOwner
<1>1. MembersInv => AlwaysAnOwner
  BY DEF MembersInv
<1> QED BY <1>1, MembersInit, MembersStep, PTL DEF MCSpec

\* An invite makes at most one user a member, and none unless it was accepted.
THEOREM InvitesAreUsedOnce == MCSpec => []InviteUsedOnce
<1>1. ASSUME MembersInv PROVE InviteUsedOnce
  <2> DEFINE Most(i) == IF invite[i].status = "accepted" THEN 1 ELSE 0
  <2>1. ASSUME NEW i \in Invites PROVE Cardinality(joined[i]) <= Most(i)
    <3>1. CASE invite[i].status = "accepted"
      <4>1. PICK u \in Users : joined[i] = {u}
        BY <1>1, <3>1 DEF MembersInv, InviteInv
      <4>2. Cardinality({u}) = 1
        BY FS_Singleton
      <4> QED BY <3>1, <4>1, <4>2
    <3>2. CASE invite[i].status # "accepted"
      <4>1. joined[i] = {}
        BY <1>1, <3>2 DEF MembersInv, InviteInv
      <4>2. Cardinality({}) = 0
        BY FS_EmptySet
      <4> QED BY <3>2, <4>1, <4>2
    <3> QED BY <3>1, <3>2
  <2>2. \A S : M!Cardinality(S) = Cardinality(S)
    BY DEF M!Cardinality, Cardinality
  <2> QED BY <2>1, <2>2 DEF InviteUsedOnce, M!InviteUsedOnce
<1> QED BY <1>1, MembersInit, MembersStep, PTL DEF MCSpec

-----------------------------------------------------------------------------
(* The cache of principals.                                                  *)

EntryRecs == [role : RoleNames \cup {"none"}, scope : Scopes \cup {"none"}, version : Nat,
              aged : BOOLEAN, raced : BOOLEAN]
RequestRecs == [at : {"idle", "check", "membership", "collections", "version", "served"},
                user : Accounts \cup {Nobody}, entry : EntryRecs]
HeldRecs == [role : SUBSET (RoleNames \cup {"none"}), scope : SUBSET Scopes, disabled : SUBSET BOOLEAN]

CacheTypes ==
    /\ role \in [Accounts -> RoleNames \cup {"none"}] /\ scope \in [Accounts -> Scopes]
    /\ version \in Nat
    /\ entries \in [Accounts -> EntryRecs]
    /\ request \in [Procs -> RequestRecs]
    /\ held \in [Procs -> HeldRecs]

\* An entry of the present version whose filling nothing overlapped says what
\* the database says of the user.
Faithful(e, u) ==
    /\ e.version <= version
    /\ ~e.raced /\ e.version = version => e.role = role[u] /\ e.scope = scope[u]

EntriesInv == \A u \in Accounts : entries[u] # C!NoEntry => Faithful(entries[u], u)

\* What was seen since the request began includes what is true now.
Watched(r) ==
    /\ request[r].user \in Accounts
    /\ role[request[r].user] \in held[r].role
    /\ scope[request[r].user] \in held[r].scope
    /\ request[r].user \notin disabled => FALSE \in held[r].disabled

\* A resolution half done: no older than the version it began with.
RoleResolved(r) ==
    /\ request[r].entry.role \in held[r].role
    /\ request[r].entry.version <= version
    /\ request[r].entry.version = version => request[r].entry.role = role[request[r].user]
    /\ FALSE \in held[r].disabled
    /\ ~request[r].entry.aged /\ ~request[r].entry.raced
ScopeResolved(r) ==
    /\ request[r].entry.scope \in held[r].scope
    /\ request[r].entry.version = version => request[r].entry.scope = scope[request[r].user]

ServedWell(r) ==
    /\ FALSE \in held[r].disabled
    /\ C!Current(r) \/ (request[r].entry.raced /\ ~request[r].entry.aged)

RequestInv(r) ==
    /\ request[r].at \in {"check", "membership", "collections", "version"} => Watched(r)
    /\ request[r].at = "check" => ~request[r].entry.aged /\ Faithful(request[r].entry, request[r].user)
    /\ request[r].at \in {"collections", "version"} => RoleResolved(r)
    /\ request[r].at = "version" => ScopeResolved(r)
    /\ request[r].at = "served" => ServedWell(r)

CacheInv == CacheTypes /\ EntriesInv /\ \A r \in Procs : RequestInv(r)

LEMMA CacheRecords ==
    /\ C!NoEntry \in EntryRecs /\ C!NoRequest \in RequestRecs /\ C!Nothing \in HeldRecs
    /\ C!NoRequest.at = "idle"
    /\ C!NoEntry.role = "none" /\ ~C!NoEntry.aged /\ ~C!NoEntry.raced
  BY DEF C!NoEntry, C!NoRequest, C!Nothing, EntryRecs, RequestRecs, HeldRecs

LEMMA RequestMoves ==
    ASSUME CacheTypes, NEW r \in Procs, NEW e \in EntryRecs,
           NEW w \in {"idle", "check", "membership", "collections", "version", "served"},
           C!At(r, w, e)
    PROVE  /\ request' \in [Procs -> RequestRecs]
           /\ request'[r].at = w /\ request'[r].entry = e /\ request'[r].user = request[r].user
           /\ \A q \in Procs \ {r} : request'[q] = request[q]
<1> DEFINE n == [[request[r] EXCEPT !.at = w] EXCEPT !.entry = e]
<1>1. request[r] \in RequestRecs
  BY DEF CacheTypes
<1>2. n \in RequestRecs /\ n.at = w /\ n.entry = e /\ n.user = request[r].user
  BY <1>1 DEF RequestRecs
<1>3. request' = [request EXCEPT ![r] = n]
  BY DEF C!At, CacheTypes
<1> HIDE DEF n
<1> QED BY <1>2, <1>3 DEF CacheTypes

\* A step that leaves a request and what it has seen alone, and the database
\* and its version too.
LEMMA OtherRequests ==
    ASSUME CacheInv, NEW r \in Procs, UNCHANGED <<role, scope, disabled, version>>,
           \A q \in Procs \ {r} : request'[q] = request[q] /\ held'[q] = held[q]
    PROVE  \A q \in Procs \ {r} : RequestInv(q)'
<1> TAKE q \in Procs \ {r}
<1>1. RequestInv(q) /\ request'[q] = request[q] /\ held'[q] = held[q]
  BY DEF CacheInv
<1> QED BY <1>1 DEF RequestInv, Watched, Faithful, RoleResolved, ScopeResolved, ServedWell, C!Current

LEMMA BeginStep == ASSUME CacheInv, NEW r \in Procs, C!Begin(r) PROVE CacheInv'
<1> DEFINE Fit(u) == C!ShouldCheckFreshness(entries[u])
           n(u) == [at |-> IF Fit(u) THEN "check" ELSE "membership", user |-> u,
                    entry |-> IF Fit(u) THEN entries[u] ELSE C!NoEntry]
<1>1. PICK u \in Accounts : request' = [request EXCEPT ![r] = n(u)] /\ held' = [held EXCEPT ![r] = C!Now(u)]
  BY DEF C!Begin
<1>2. UNCHANGED <<role, scope, disabled, version, entries>>
  BY DEF C!Begin
<1>3. CacheTypes /\ entries[u] \in EntryRecs /\ (entries[u] # C!NoEntry => Faithful(entries[u], u))
  BY DEF CacheInv, CacheTypes, EntriesInv
<1>4. n(u) \in RequestRecs /\ n(u).user = u
  BY <1>3, CacheRecords DEF RequestRecs
<1>5. \/ n(u).at = "membership"
      \/ n(u).at = "check" /\ n(u).entry = entries[u] /\ entries[u] # C!NoEntry /\ ~entries[u].aged
  BY <1>3 DEF C!ShouldCheckFreshness
<1>6. C!Now(u) \in HeldRecs
  BY <1>3 DEF C!Now, HeldRecs, CacheTypes
<1>7. C!Now(u).role = {role[u]} /\ C!Now(u).scope = {scope[u]} /\ (u \notin disabled => FALSE \in C!Now(u).disabled)
  BY DEF C!Now
<1> HIDE DEF n
<1>8. request'[r] = n(u) /\ held'[r] = C!Now(u) /\ \A q \in Procs \ {r} : request'[q] = request[q] /\ held'[q] = held[q]
  BY <1>1, <1>3 DEF CacheTypes
<1>9. CacheTypes'
  BY <1>1, <1>2, <1>3, <1>4, <1>6 DEF CacheTypes
<1>10. EntriesInv'
  BY <1>2 DEF CacheInv, EntriesInv, Faithful
<1>11. RequestInv(r)'
  <2>1. Watched(r)'
    BY <1>2, <1>4, <1>7, <1>8 DEF Watched
  <2>2. CASE n(u).at = "membership"
    BY <2>1, <2>2, <1>8 DEF RequestInv
  <2>3. CASE n(u).at = "check" /\ n(u).entry = entries[u] /\ entries[u] # C!NoEntry /\ ~entries[u].aged
    BY <2>1, <2>3, <1>2, <1>3, <1>4, <1>8 DEF RequestInv, Faithful
  <2> QED BY <1>5, <2>2, <2>3
<1> QED BY <1>2, <1>8, <1>9, <1>10, <1>11, OtherRequests DEF CacheInv

LEMMA FreshnessStep == ASSUME CacheInv, NEW r \in Procs, C!FreshnessCheck(r) PROVE CacheInv'
<1>1. UNCHANGED <<role, scope, disabled, version, entries, held>> /\ request[r].at = "check"
  BY DEF C!FreshnessCheck
<1>2. CacheTypes /\ RequestInv(r) /\ request[r].entry \in EntryRecs
  BY DEF CacheInv, CacheTypes, RequestRecs
<1>3. EntriesInv'
  BY <1>1 DEF CacheInv, EntriesInv, Faithful
<1>4. Watched(r) /\ ~request[r].entry.aged /\ Faithful(request[r].entry, request[r].user)
  BY <1>1, <1>2 DEF RequestInv
<1>5. CASE C!TrustsCache(r) /\ C!At(r, "served", request[r].entry)
  <2>1. /\ request' \in [Procs -> RequestRecs] /\ request'[r].at = "served"
        /\ request'[r].entry = request[r].entry /\ \A q \in Procs \ {r} : request'[q] = request[q]
    BY <1>2, <1>5, RequestMoves
  <2>2. request[r].user \notin disabled /\ request[r].entry.version = version
    BY <1>5 DEF C!TrustsCache
  <2>3. ServedWell(r)'
    BY <1>1, <1>4, <2>1, <2>2 DEF ServedWell, C!Current, Watched, Faithful
  <2>4. RequestInv(r)'
    BY <2>1, <2>3 DEF RequestInv
  <2>5. CacheTypes'
    BY <1>1, <1>2, <2>1 DEF CacheTypes
  <2> QED BY <1>1, <1>3, <2>1, <2>4, <2>5, OtherRequests DEF CacheInv
<1>6. CASE C!At(r, "membership", C!NoEntry)
  <2>1. /\ request' \in [Procs -> RequestRecs] /\ request'[r].at = "membership"
        /\ request'[r].user = request[r].user /\ \A q \in Procs \ {r} : request'[q] = request[q]
    BY <1>2, <1>6, RequestMoves, CacheRecords
  <2>2. Watched(r)'
    BY <1>1, <1>4, <2>1 DEF Watched
  <2>4. RequestInv(r)'
    BY <2>1, <2>2 DEF RequestInv
  <2>5. CacheTypes'
    BY <1>1, <1>2, <2>1 DEF CacheTypes
  <2> QED BY <1>1, <1>3, <2>1, <2>4, <2>5, OtherRequests DEF CacheInv
<1> QED BY <1>5, <1>6 DEF C!FreshnessCheck

LEMMA MembershipStep == ASSUME CacheInv, NEW r \in Procs, C!ResolveMembership(r) PROVE CacheInv'
<1> DEFINE u == request[r].user
           e == [[C!NoEntry EXCEPT !.role = role[u]] EXCEPT !.version = version]
<1>1. UNCHANGED <<role, scope, disabled, version, entries>> /\ request[r].at = "membership"
  BY DEF C!ResolveMembership
<1>2. CacheTypes /\ RequestInv(r)
  BY DEF CacheInv
<1>3. EntriesInv'
  BY <1>1 DEF CacheInv, EntriesInv, Faithful
<1>4. Watched(r)
  BY <1>1, <1>2 DEF RequestInv
<1>5. CASE u \notin disabled /\ C!At(r, "collections", e) /\ UNCHANGED held
  <2>1. e \in EntryRecs /\ e.role = role[u] /\ e.version = version /\ ~e.aged /\ ~e.raced
    <3>1. role[u] \in RoleNames \cup {"none"} /\ version \in Nat
      BY <1>2, <1>4 DEF CacheTypes, Watched
    <3> QED BY <3>1, CacheRecords DEF EntryRecs
  <2> HIDE DEF e
  <2>2. /\ request' \in [Procs -> RequestRecs] /\ request'[r].at = "collections"
        /\ request'[r].entry = e /\ request'[r].user = u /\ \A q \in Procs \ {r} : request'[q] = request[q]
    BY <1>2, <1>5, <2>1, RequestMoves
  <2>3. Watched(r)'
    BY <1>1, <1>4, <1>5, <2>2 DEF Watched
  <2>4. RoleResolved(r)'
    <3>1. version <= version
      BY <1>2 DEF CacheTypes
    <3> QED BY <1>1, <1>4, <1>5, <2>1, <2>2, <3>1 DEF RoleResolved, Watched
  <2>5. RequestInv(r)'
    BY <2>2, <2>3, <2>4 DEF RequestInv
  <2>6. CacheTypes'
    BY <1>1, <1>2, <1>5, <2>2 DEF CacheTypes
  <2> QED BY <1>1, <1>3, <1>5, <2>2, <2>5, <2>6, OtherRequests DEF CacheInv
<1>6. CASE /\ request' = [request EXCEPT ![r] = C!NoRequest]
           /\ held' = [held EXCEPT ![r] = C!Nothing]
  <2>1. /\ request'[r].at = "idle"
        /\ \A q \in Procs \ {r} : request'[q] = request[q] /\ held'[q] = held[q]
    BY <1>2, <1>6, CacheRecords DEF CacheTypes
  <2>2. RequestInv(r)'
    BY <2>1 DEF RequestInv
  <2>3. CacheTypes'
    BY <1>1, <1>2, <1>6, CacheRecords DEF CacheTypes
  <2> QED BY <1>1, <1>3, <2>1, <2>2, <2>3, OtherRequests DEF CacheInv
<1>7. \/ u \notin disabled /\ C!At(r, "collections", e) /\ UNCHANGED held
      \/ /\ request' = [request EXCEPT ![r] = C!NoRequest]
         /\ held' = [held EXCEPT ![r] = C!Nothing]
  BY DEF C!ResolveMembership
<1> QED BY <1>5, <1>6, <1>7

LEMMA CollectionsStep == ASSUME CacheInv, NEW r \in Procs, C!ResolveCollections(r) PROVE CacheInv'
<1> DEFINE u == request[r].user
           e == [request[r].entry EXCEPT !.scope = scope[u]]
<1>1. /\ UNCHANGED <<role, scope, disabled, version, entries, held>> /\ request[r].at = "collections"
      /\ C!At(r, "version", e)
  BY DEF C!ResolveCollections
<1>2. CacheTypes /\ RequestInv(r) /\ request[r].entry \in EntryRecs
  BY DEF CacheInv, CacheTypes, RequestRecs
<1>3. EntriesInv'
  BY <1>1 DEF CacheInv, EntriesInv, Faithful
<1>4. Watched(r) /\ RoleResolved(r)
  BY <1>1, <1>2 DEF RequestInv
<1>5. /\ e \in EntryRecs /\ e.scope = scope[u]
      /\ e.role = request[r].entry.role /\ e.version = request[r].entry.version
      /\ e.aged = request[r].entry.aged /\ e.raced = request[r].entry.raced
  <2>1. scope[u] \in Scopes
    BY <1>2, <1>4 DEF CacheTypes, Watched
  <2> QED BY <1>2, <2>1 DEF EntryRecs
<1> HIDE DEF e
<1>6. /\ request' \in [Procs -> RequestRecs] /\ request'[r].at = "version"
      /\ request'[r].entry = e /\ request'[r].user = u /\ \A q \in Procs \ {r} : request'[q] = request[q]
  BY <1>1, <1>2, <1>5, RequestMoves
<1>7. Watched(r)' /\ ScopeResolved(r)'
  BY <1>1, <1>4, <1>5, <1>6 DEF Watched, ScopeResolved
<1>8. RoleResolved(r)'
  BY <1>1, <1>4, <1>5, <1>6 DEF RoleResolved
<1>9. RequestInv(r)'
  BY <1>6, <1>7, <1>8 DEF RequestInv
<1>10. CacheTypes'
  BY <1>1, <1>2, <1>6 DEF CacheTypes
<1> QED BY <1>1, <1>3, <1>6, <1>9, <1>10, OtherRequests DEF CacheInv

LEMMA VersionStep == ASSUME CacheInv, NEW r \in Procs, C!ReadVersion(r) PROVE CacheInv'
<1> DEFINE u == request[r].user
           e == [[request[r].entry EXCEPT !.version = version] EXCEPT !.raced = request[r].entry.version # version]
<1>1. /\ UNCHANGED <<role, scope, disabled, version, held>> /\ request[r].at = "version"
      /\ C!At(r, "served", C!Stored(r)) /\ (C!Insert(r) \/ UNCHANGED entries)
  BY DEF C!ReadVersion
<1>2. CacheTypes /\ RequestInv(r) /\ request[r].entry \in EntryRecs
  BY DEF CacheInv, CacheTypes, RequestRecs
<1>3. C!Stored(r) = e
  BY <1>2 DEF C!Stored, EntryRecs
<1>4. Watched(r) /\ RoleResolved(r) /\ ScopeResolved(r)
  BY <1>1, <1>2 DEF RequestInv
<1>5. /\ e \in EntryRecs /\ e.version = version /\ e.raced = (request[r].entry.version # version)
      /\ e.role = request[r].entry.role /\ e.scope = request[r].entry.scope /\ e.aged = request[r].entry.aged
  BY <1>2 DEF EntryRecs, CacheTypes
<1> HIDE DEF e
<1>6. /\ request' \in [Procs -> RequestRecs] /\ request'[r].at = "served"
      /\ request'[r].entry = e /\ \A q \in Procs \ {r} : request'[q] = request[q]
  BY <1>1, <1>2, <1>3, <1>5, RequestMoves
<1>7. RequestInv(r)'
  <2>1. ServedWell(r)'
    BY <1>1, <1>4, <1>5, <1>6 DEF ServedWell, C!Current, RoleResolved, ScopeResolved
  <2> QED BY <1>6, <2>1 DEF RequestInv
<1>8. Faithful(e, u)
  <2>1. version <= version
    BY <1>2 DEF CacheTypes
  <2> QED BY <1>4, <1>5, <2>1 DEF Faithful, RoleResolved, ScopeResolved
<1>9. entries' \in [Accounts -> EntryRecs] /\ \A v \in Accounts : entries'[v] \in {entries[v], C!NoEntry} \/ (v = u /\ entries'[v] = e)
  <2>1. CASE UNCHANGED entries
    BY <1>2, <2>1 DEF CacheTypes
  <2>2. CASE C!Insert(r)
    <3>1. PICK gone : entries' = [v \in Accounts |-> IF v = u THEN e
                                      ELSE IF v \in gone THEN C!NoEntry ELSE entries[v]]
      BY <1>3, <2>2 DEF C!Insert
    <3> QED BY <1>2, <1>5, <3>1, CacheRecords DEF CacheTypes
  <2> QED BY <1>1, <2>1, <2>2
<1>10. EntriesInv'
  <2> SUFFICES ASSUME NEW v \in Accounts, entries'[v] # C!NoEntry PROVE Faithful(entries[v], v)'
    BY DEF EntriesInv
  <2>1. \/ entries'[v] = entries[v] /\ Faithful(entries[v], v)
        \/ entries'[v] = e /\ v = u
    BY <1>9 DEF CacheInv, EntriesInv
  <2> QED BY <1>1, <1>8, <2>1 DEF Faithful
<1>11. CacheTypes'
  BY <1>1, <1>2, <1>6, <1>9 DEF CacheTypes
<1> QED BY <1>1, <1>6, <1>7, <1>10, <1>11, OtherRequests DEF CacheInv

\* What a request in progress sees of a change of its user.
LEMMA SeenByRequests ==
    ASSUME CacheTypes, NEW u \in Accounts, NEW h \in HeldRecs, C!Seen(u, h)
    PROVE  /\ held' \in [Procs -> HeldRecs]
           /\ \A r \in Procs : \/ held'[r] = held[r] /\ ~(request[r].user = u /\ C!InProgress(r))
                               \/ /\ held'[r].role = held[r].role \cup h.role
                                  /\ held'[r].scope = held[r].scope \cup h.scope
                                  /\ held'[r].disabled = held[r].disabled \cup h.disabled
                                  /\ request[r].user = u /\ C!InProgress(r)
<1> DEFINE n(r) == [role |-> held[r].role \cup h.role, scope |-> held[r].scope \cup h.scope,
                    disabled |-> held[r].disabled \cup h.disabled]
<1>1. \A r \in Procs : held[r] \in HeldRecs
  BY DEF CacheTypes
<1>2. \A r \in Procs : n(r) \in HeldRecs
  BY <1>1 DEF HeldRecs
<1>3. held' = [r \in Procs |-> IF request[r].user = u /\ C!InProgress(r) THEN n(r) ELSE held[r]]
  BY DEF C!Seen, C!Sees
<1> QED BY <1>1, <1>2, <1>3

\* The rules change, and the version with them, or an account is disabled or
\* enabled: entries of an earlier version bind nothing any more.
LEMMA WorldStep ==
    ASSUME CacheInv, NEW u \in Accounts, NEW h \in HeldRecs, C!Seen(u, h), UNCHANGED <<entries, request>>,
           role' \in [Accounts -> RoleNames \cup {"none"}], scope' \in [Accounts -> Scopes], version' \in Nat,
           version' > version \/ UNCHANGED <<role, scope, version>>,
           \A v \in Accounts \ {u} : role'[v] = role[v] /\ scope'[v] = scope[v] /\ (v \notin disabled' => v \notin disabled),
           role'[u] \in {role[u]} \cup h.role, scope'[u] \in {scope[u]} \cup h.scope,
           u \notin disabled' => u \notin disabled \/ FALSE \in h.disabled
    PROVE  CacheInv'
<1>1. CacheTypes /\ version \in Nat
  BY DEF CacheInv, CacheTypes
<1>2. \A e \in EntryRecs, v \in Accounts : Faithful(e, v) => Faithful(e, v)'
  BY <1>1 DEF Faithful, EntryRecs
<1>3. CacheTypes'
  BY <1>1, SeenByRequests DEF CacheTypes
<1>4. EntriesInv'
  <2> SUFFICES ASSUME NEW v \in Accounts, entries[v] # C!NoEntry PROVE Faithful(entries[v], v)'
    BY DEF EntriesInv
  <2>1. Faithful(entries[v], v) /\ entries[v] \in EntryRecs
    BY <1>1 DEF CacheInv, EntriesInv, CacheTypes
  <2> QED BY <2>1, <1>2
<1>5. ASSUME NEW r \in Procs PROVE RequestInv(r)'
  <2> DEFINE at == request[r].at
             e == request[r].entry
             w == request[r].user
  <2>1. RequestInv(r) /\ e \in EntryRecs /\ request'[r] = request[r] /\ at \in {"idle", "check", "membership", "collections", "version", "served"}
    BY <1>1 DEF CacheInv, CacheTypes, RequestRecs
  <2>2. CASE at \in {"idle", "served"}
    <3>1. held'[r] = held[r]
      BY <1>1, <2>2, SeenByRequests DEF C!InProgress
    <3> QED BY <2>1, <2>2, <3>1 DEF RequestInv, ServedWell, C!Current
  <2>3. CASE at \in {"check", "membership", "collections", "version"}
    <3>1. Watched(r) /\ w \in Accounts
      BY <2>1, <2>3 DEF RequestInv, Watched
    <3>2. /\ held[r].role \subseteq held'[r].role /\ held[r].scope \subseteq held'[r].scope
          /\ held[r].disabled \subseteq held'[r].disabled
          /\ w = u => h.role \subseteq held'[r].role /\ h.scope \subseteq held'[r].scope /\ h.disabled \subseteq held'[r].disabled
      BY <1>1, <2>3, SeenByRequests DEF C!InProgress
    <3>3. Watched(r)'
      BY <2>1, <3>1, <3>2 DEF Watched
    <3>4. at = "check" => ~e.aged /\ Faithful(e, w)'
      BY <1>2, <2>1, <3>1 DEF RequestInv
    <3>5. at \in {"collections", "version"} => RoleResolved(r)'
      <4> SUFFICES ASSUME at \in {"collections", "version"} PROVE RoleResolved(r)'
        OBVIOUS
      <4>1. RoleResolved(r) /\ e.version \in Nat
        BY <2>1 DEF RequestInv, EntryRecs
      <4>2. version' > version => e.version <= version' /\ e.version # version'
        BY <1>1, <4>1 DEF RoleResolved
      <4>3. e.version <= version' /\ (e.version = version' => e.role = role'[w])
        BY <4>1, <4>2 DEF RoleResolved
      <4> QED BY <2>1, <3>2, <4>1, <4>3 DEF RoleResolved
    <3>6. at = "version" => ScopeResolved(r)'
      BY <1>1, <2>1, <3>2 DEF RequestInv, RoleResolved, ScopeResolved, EntryRecs
    <3> QED BY <2>1, <2>3, <3>3, <3>4, <3>5, <3>6 DEF RequestInv, Faithful
  <2> QED BY <2>1, <2>2, <2>3
<1> QED BY <1>3, <1>4, <1>5 DEF CacheInv

LEMMA ChangesStep ==
    ASSUME CacheInv, NEW u \in Accounts,
           C!ChangeRole(u) \/ C!ChangeGrants(u) \/ C!DisableUser(u) \/ C!EnableUser(u)
    PROVE  CacheInv'
<1>1. CacheTypes
  BY DEF CacheInv
<1>2. CASE C!ChangeRole(u)
  <2>1. PICK new \in RoleNames \cup {"none"} :
          new # role[u] /\ role' = [role EXCEPT ![u] = new] /\ C!Seen(u, [C!Nothing EXCEPT !.role = {new}])
    BY <1>2 DEF C!ChangeRole
  <2> DEFINE h == [C!Nothing EXCEPT !.role = {new}]
  <2>2. h \in HeldRecs /\ h.role = {new}
    BY CacheRecords DEF HeldRecs
  <2> HIDE DEF h
  <2>3. UNCHANGED <<scope, disabled, entries, request>> /\ version' = version + 1
    BY <1>2 DEF C!ChangeRole, C!BumpAclVersion
  <2>4. version' \in Nat /\ version' > version /\ role' \in [Accounts -> RoleNames \cup {"none"}] /\ scope' = scope
    BY <1>1, <2>1, <2>3 DEF CacheTypes
  <2>5. (\A v \in Accounts \ {u} : role'[v] = role[v]) /\ role'[u] = new
    BY <1>1, <2>1 DEF CacheTypes
  <2>6. C!Seen(u, h) /\ scope \in [Accounts -> Scopes]
    BY <1>1, <2>1 DEF CacheTypes, h
  <2> QED BY <2>2, <2>3, <2>4, <2>5, <2>6, WorldStep
<1>3. CASE C!ChangeGrants(u)
  <2>1. PICK new \in Scopes :
          new # scope[u] /\ scope' = [scope EXCEPT ![u] = new] /\ C!Seen(u, [C!Nothing EXCEPT !.scope = {new}])
    BY <1>3 DEF C!ChangeGrants
  <2> DEFINE h == [C!Nothing EXCEPT !.scope = {new}]
  <2>2. h \in HeldRecs /\ h.scope = {new} /\ C!Seen(u, h)
    BY <2>1, CacheRecords DEF HeldRecs
  <2> HIDE DEF h
  <2>3. UNCHANGED <<role, disabled, entries, request>> /\ version' = version + 1
    BY <1>3 DEF C!ChangeGrants, C!BumpAclVersion
  <2>4. version' \in Nat /\ version' > version /\ scope' \in [Accounts -> Scopes] /\ role' = role
    BY <1>1, <2>1, <2>3 DEF CacheTypes
  <2>5. (\A v \in Accounts \ {u} : scope'[v] = scope[v]) /\ scope'[u] = new
    BY <1>1, <2>1 DEF CacheTypes
  <2>6. role \in [Accounts -> RoleNames \cup {"none"}]
    BY <1>1 DEF CacheTypes
  <2> QED BY <2>2, <2>3, <2>4, <2>5, <2>6, WorldStep
<1>4. CASE C!DisableUser(u)
  <2> DEFINE h == [C!Nothing EXCEPT !.disabled = {TRUE}]
  <2>1. h \in HeldRecs /\ C!Seen(u, h)
    BY <1>4, CacheRecords DEF C!DisableUser, HeldRecs
  <2> HIDE DEF h
  <2>2. UNCHANGED <<role, scope, version, entries, request>> /\ disabled' = disabled \cup {u}
    BY <1>4 DEF C!DisableUser
  <2> QED BY <1>1, <2>1, <2>2, WorldStep DEF CacheTypes
<1>5. CASE C!EnableUser(u)
  <2> DEFINE h == [C!Nothing EXCEPT !.disabled = {FALSE}]
  <2>1. h \in HeldRecs /\ C!Seen(u, h) /\ FALSE \in h.disabled
    BY <1>5, CacheRecords DEF C!EnableUser, HeldRecs
  <2> HIDE DEF h
  <2>2. UNCHANGED <<role, scope, version, entries, request>> /\ disabled' = disabled \ {u}
    BY <1>5 DEF C!EnableUser
  <2> QED BY <1>1, <2>1, <2>2, WorldStep DEF CacheTypes
<1> QED BY <1>2, <1>3, <1>4, <1>5

LEMMA AgesStep == ASSUME CacheInv, NEW u \in Accounts, C!EntryAges(u) PROVE CacheInv'
<1> DEFINE e == [entries[u] EXCEPT !.aged = TRUE]
<1>1. /\ UNCHANGED <<role, scope, disabled, version, request, held>> /\ entries[u] # C!NoEntry
      /\ entries' = [entries EXCEPT ![u] = e]
  BY DEF C!EntryAges, C!Cached
<1>2. CacheTypes /\ entries[u] \in EntryRecs /\ Faithful(entries[u], u)
  BY <1>1 DEF CacheInv, CacheTypes, EntriesInv
<1>3. e \in EntryRecs /\ e.version = entries[u].version /\ e.raced = entries[u].raced
      /\ e.role = entries[u].role /\ e.scope = entries[u].scope
  BY <1>2 DEF EntryRecs
<1> HIDE DEF e
<1>4. CacheTypes'
  BY <1>1, <1>2, <1>3 DEF CacheTypes
<1>5. EntriesInv'
  <2> SUFFICES ASSUME NEW v \in Accounts, entries'[v] # C!NoEntry PROVE Faithful(entries[v], v)'
    BY DEF EntriesInv
  <2>1. CASE v = u
    <3>1. entries'[v] = e
      BY <1>1, <1>2, <2>1 DEF CacheTypes
    <3> QED BY <1>1, <1>2, <1>3, <2>1, <3>1 DEF Faithful
  <2>2. CASE v # u
    <3>1. entries'[v] = entries[v]
      BY <1>1, <1>2, <2>2 DEF CacheTypes
    <3> QED BY <1>1, <3>1 DEF CacheInv, EntriesInv, Faithful
  <2> QED BY <2>1, <2>2
<1>6. \A r \in Procs : RequestInv(r)'
  BY <1>1 DEF CacheInv, RequestInv, Watched, Faithful, RoleResolved, ScopeResolved, ServedWell, C!Current
<1> QED BY <1>4, <1>5, <1>6 DEF CacheInv

LEMMA CacheInit == MCInit => CacheInv
<1> SUFFICES ASSUME C!Init PROVE CacheInv
  BY DEF MCInit
<1>1. CacheTypes
  BY CacheRecords DEF C!Init, CacheTypes
<1>2. EntriesInv
  BY DEF C!Init, EntriesInv
<1>3. \A r \in Procs : request[r].at = "idle"
  BY CacheRecords DEF C!Init
<1> QED BY <1>1, <1>2, <1>3 DEF CacheInv, RequestInv

LEMMA CacheStep == CacheInv /\ [MCNext]_<<part, vars, mvars, cvars, dvars>> => CacheInv'
<1> SUFFICES ASSUME CacheInv, [MCNext]_<<part, vars, mvars, cvars, dvars>> PROVE CacheInv'
  OBVIOUS
<1>1. CASE UNCHANGED cvars
  BY <1>1 DEF cvars, CacheInv, CacheTypes, EntriesInv, RequestInv, Watched, Faithful, RoleResolved,
     ScopeResolved, ServedWell, C!Current
<1>2. CASE C!Next
  BY <1>2, BeginStep, FreshnessStep, MembershipStep, CollectionsStep, VersionStep, ChangesStep, AgesStep DEF C!Next
<1> QED BY <1>1, <1>2 DEF MCNext

\* A request is served only rights its user had at some moment of the request,
\* and only if the account was enabled at some moment of it, unless it trusts a
\* young entry whose filling overlapped a change of the rules.
THEOREM OnlyRacedFillsServeStale == MCSpec => []OnlyRacedFillsAreStale
<1>1. CacheInv => OnlyRacedFillsAreStale
  BY DEF CacheInv, RequestInv, ServedWell, OnlyRacedFillsAreStale, C!OnlyRacedFillsAreStale, C!Served
<1> QED BY <1>1, CacheInit, CacheStep, PTL DEF MCSpec
-----------------------------------------------------------------------------
(* The index of the desktop application, whose invariant DesktopIndexProofs  *)
(* establishes: the two instances of MCSessions are instances of it.         *)

PE == INSTANCE DesktopIndexProofs WITH
        Docs <- {"d1"}, Texts <- {"blank", "v1"}, Blank <- "blank", MinPoints <- 1,
        Plans <- {"local", "provider"}, Local <- "local", None <- Nobody, job <- command
PT == INSTANCE DesktopIndexProofs WITH
        Docs <- {"d1", "d2"}, Texts <- {"v1"}, Blank <- "blank", MinPoints <- 2,
        Plans <- {"local", "provider"}, Local <- "local", None <- Nobody, job <- command

LEMMA EditsMoves == DE!Next => PE!Next
<1> SUFFICES ASSUME NEW p \in Procs,
        \/ \E s \in {"local", "provider"}, texts \in [{"d1"} -> {"blank", "v1"} \cup {Nobody}] :
             DE!Load(p, s, texts)
        \/ DE!Prepare(p) \/ DE!FallBack(p) \/ DE!Commit(p) \/ DE!GiveUp(p)
        \/ DE!Clear(p) \/ DE!ClearFails(p) \/ DE!Look(p) \/ DE!LoadPoints(p)
        \/ DE!Build(p) \/ DE!LeaveUnbuilt(p)
    PROVE PE!Next
  BY DEF DE!Next
<1>1. ASSUME NEW s \in {"local", "provider"},
           NEW texts \in [{"d1"} -> {"blank", "v1"} \cup {Nobody}], DE!Load(p, s, texts)
    PROVE  PE!Next
  BY <1>1 DEF PE!Next, DE!Load, PE!Load, DE!Empty, PE!Empty
<1>2. CASE DE!Prepare(p)
  <2>1. PE!Prepare(p)
    BY <1>2 DEF DE!Prepare, PE!Prepare, DE!Chosen, PE!Chosen, DE!Row, PE!Row, DE!Empty, PE!Empty
  <2> QED BY <2>1 DEF PE!Next
<1>3. CASE DE!FallBack(p)
  <2>1. PE!FallBack(p)
    BY <1>3 DEF DE!FallBack, PE!FallBack
  <2> QED BY <2>1 DEF PE!Next
<1>4. CASE DE!Commit(p)
  <2>1. PE!Commit(p)
    BY <1>4 DEF DE!Commit, PE!Commit, DE!Unmoved, PE!Unmoved, DE!Empty, PE!Empty, DE!Row, PE!Row
  <2> QED BY <2>1 DEF PE!Next
<1>5. CASE DE!GiveUp(p)
  <2>1. PE!GiveUp(p)
    BY <1>5 DEF DE!GiveUp, PE!GiveUp, DE!Ends, PE!Ends, DE!NoJob, PE!NoJob, DE!Empty, PE!Empty
  <2> QED BY <2>1 DEF PE!Next
<1>6. CASE DE!Clear(p)
  <2>1. PE!Clear(p)
    BY <1>6 DEF DE!Clear, PE!Clear, DE!Goes, PE!Goes
  <2> QED BY <2>1 DEF PE!Next
<1>7. CASE DE!ClearFails(p)
  <2>1. PE!ClearFails(p)
    BY <1>7 DEF DE!ClearFails, PE!ClearFails, DE!Goes, PE!Goes
  <2> QED BY <2>1 DEF PE!Next
<1>8. CASE DE!Look(p)
  <2>1. PE!Look(p)
    BY <1>8 DEF DE!Look, PE!Look, DE!Rebuilds, PE!Rebuilds, DE!Goes, PE!Goes, DE!Ends, PE!Ends,
      DE!NoJob, PE!NoJob, DE!Empty, PE!Empty
  <2> QED BY <2>1 DEF PE!Next
<1>9. CASE DE!LoadPoints(p)
  <2>1. PE!LoadPoints(p)
    BY <1>9 DEF DE!LoadPoints, PE!LoadPoints
  <2> QED BY <2>1 DEF PE!Next
<1>10. CASE DE!Build(p)
  <2>1. PE!Build(p)
    BY <1>10 DEF DE!Build, PE!Build, DE!Dump, PE!Dump, DE!Cardinality, PE!Cardinality, DE!Ends,
      PE!Ends, DE!NoJob, PE!NoJob, DE!Empty, PE!Empty
  <2> QED BY <2>1 DEF PE!Next
<1>11. CASE DE!LeaveUnbuilt(p)
  <2>1. PE!LeaveUnbuilt(p)
    BY <1>11 DEF DE!LeaveUnbuilt, PE!LeaveUnbuilt, DE!Committed, PE!Committed, DE!Ends, PE!Ends,
      DE!NoJob, PE!NoJob, DE!Empty, PE!Empty
  <2> QED BY <2>1 DEF PE!Next
<1> QED BY <1>1, <1>2, <1>3, <1>4, <1>5, <1>6, <1>7, <1>8, <1>9, <1>10, <1>11

EditsInv == part = "edits" => PE!IInv

LEMMA EditsInit == MCInit => EditsInv
<1> SUFFICES ASSUME MCInit, part = "edits" PROVE PE!IInv
  BY DEF EditsInv
<1>1. PE!Init
  BY DEF MCInit, DE!Init, PE!Init, DE!NoJob, PE!NoJob, DE!Empty, PE!Empty
<1>2. PE!DesktopAssumption
  BY InstancesAssumption DEF DE!DesktopAssumption, PE!DesktopAssumption, DE!Rows, PE!Rows
<1> QED BY <1>1, <1>2, PE!InvariantInit

LEMMA EditsStep == EditsInv /\ [MCNext]_<<part, vars, mvars, cvars, dvars>> => EditsInv'
<1> SUFFICES ASSUME EditsInv, [MCNext]_<<part, vars, mvars, cvars, dvars>>, part' = "edits"
             PROVE  PE!IInv'
  BY DEF EditsInv
<1>1. part = "edits" /\ PE!IInv
  BY DEF MCNext, EditsInv
<1>2. [PE!Next]_(PE!vars)
  BY <1>1, EditsMoves DEF MCNext, dvars, PE!vars
<1>3. PE!DesktopAssumption
  BY InstancesAssumption DEF DE!DesktopAssumption, PE!DesktopAssumption, DE!Rows, PE!Rows
<1> QED BY <1>1, <1>2, <1>3, PE!InvariantStep

LEMMA EditsSuffices == EditsInv => (part = "edits" => DE!SearchesOneIndex)
<1>1. PE!IInv => PE!SearchesOneIndex
  BY PE!InvariantSuffices
<1> QED BY <1>1 DEF EditsInv, PE!SearchesOneIndex, DE!SearchesOneIndex, PE!OnePlan, DE!OnePlan,
                    PE!Committed, DE!Committed

LEMMA CorpusMoves == DT!Next => PT!Next
<1> SUFFICES ASSUME NEW p \in Procs,
        \/ \E s \in {"local", "provider"}, texts \in [{"d1", "d2"} -> {"v1"} \cup {Nobody}] :
             DT!Load(p, s, texts)
        \/ DT!Prepare(p) \/ DT!FallBack(p) \/ DT!Commit(p) \/ DT!GiveUp(p)
        \/ DT!Clear(p) \/ DT!ClearFails(p) \/ DT!Look(p) \/ DT!LoadPoints(p)
        \/ DT!Build(p) \/ DT!LeaveUnbuilt(p)
    PROVE PT!Next
  BY DEF DT!Next
<1>1. ASSUME NEW s \in {"local", "provider"},
           NEW texts \in [{"d1", "d2"} -> {"v1"} \cup {Nobody}], DT!Load(p, s, texts)
    PROVE  PT!Next
  BY <1>1 DEF PT!Next, DT!Load, PT!Load, DT!Empty, PT!Empty
<1>2. CASE DT!Prepare(p)
  <2>1. PT!Prepare(p)
    BY <1>2 DEF DT!Prepare, PT!Prepare, DT!Chosen, PT!Chosen, DT!Row, PT!Row, DT!Empty, PT!Empty
  <2> QED BY <2>1 DEF PT!Next
<1>3. CASE DT!FallBack(p)
  <2>1. PT!FallBack(p)
    BY <1>3 DEF DT!FallBack, PT!FallBack
  <2> QED BY <2>1 DEF PT!Next
<1>4. CASE DT!Commit(p)
  <2>1. PT!Commit(p)
    BY <1>4 DEF DT!Commit, PT!Commit, DT!Unmoved, PT!Unmoved, DT!Empty, PT!Empty, DT!Row, PT!Row
  <2> QED BY <2>1 DEF PT!Next
<1>5. CASE DT!GiveUp(p)
  <2>1. PT!GiveUp(p)
    BY <1>5 DEF DT!GiveUp, PT!GiveUp, DT!Ends, PT!Ends, DT!NoJob, PT!NoJob, DT!Empty, PT!Empty
  <2> QED BY <2>1 DEF PT!Next
<1>6. CASE DT!Clear(p)
  <2>1. PT!Clear(p)
    BY <1>6 DEF DT!Clear, PT!Clear, DT!Goes, PT!Goes
  <2> QED BY <2>1 DEF PT!Next
<1>7. CASE DT!ClearFails(p)
  <2>1. PT!ClearFails(p)
    BY <1>7 DEF DT!ClearFails, PT!ClearFails, DT!Goes, PT!Goes
  <2> QED BY <2>1 DEF PT!Next
<1>8. CASE DT!Look(p)
  <2>1. PT!Look(p)
    BY <1>8 DEF DT!Look, PT!Look, DT!Rebuilds, PT!Rebuilds, DT!Goes, PT!Goes, DT!Ends, PT!Ends,
      DT!NoJob, PT!NoJob, DT!Empty, PT!Empty
  <2> QED BY <2>1 DEF PT!Next
<1>9. CASE DT!LoadPoints(p)
  <2>1. PT!LoadPoints(p)
    BY <1>9 DEF DT!LoadPoints, PT!LoadPoints
  <2> QED BY <2>1 DEF PT!Next
<1>10. CASE DT!Build(p)
  <2>1. PT!Build(p)
    BY <1>10 DEF DT!Build, PT!Build, DT!Dump, PT!Dump, DT!Cardinality, PT!Cardinality, DT!Ends,
      PT!Ends, DT!NoJob, PT!NoJob, DT!Empty, PT!Empty
  <2> QED BY <2>1 DEF PT!Next
<1>11. CASE DT!LeaveUnbuilt(p)
  <2>1. PT!LeaveUnbuilt(p)
    BY <1>11 DEF DT!LeaveUnbuilt, PT!LeaveUnbuilt, DT!Committed, PT!Committed, DT!Ends, PT!Ends,
      DT!NoJob, PT!NoJob, DT!Empty, PT!Empty
  <2> QED BY <2>1 DEF PT!Next
<1> QED BY <1>1, <1>2, <1>3, <1>4, <1>5, <1>6, <1>7, <1>8, <1>9, <1>10, <1>11

CorpusInv == part = "corpus" => PT!IInv

LEMMA CorpusInit == MCInit => CorpusInv
<1> SUFFICES ASSUME MCInit, part = "corpus" PROVE PT!IInv
  BY DEF CorpusInv
<1>1. PT!Init
  BY DEF MCInit, DT!Init, PT!Init, DT!NoJob, PT!NoJob, DT!Empty, PT!Empty
<1>2. PT!DesktopAssumption
  BY InstancesAssumption DEF DT!DesktopAssumption, PT!DesktopAssumption, DT!Rows, PT!Rows
<1> QED BY <1>1, <1>2, PT!InvariantInit

LEMMA CorpusStep == CorpusInv /\ [MCNext]_<<part, vars, mvars, cvars, dvars>> => CorpusInv'
<1> SUFFICES ASSUME CorpusInv, [MCNext]_<<part, vars, mvars, cvars, dvars>>, part' = "corpus"
             PROVE  PT!IInv'
  BY DEF CorpusInv
<1>1. part = "corpus" /\ PT!IInv
  BY DEF MCNext, CorpusInv
<1>2. [PT!Next]_(PT!vars)
  BY <1>1, CorpusMoves DEF MCNext, dvars, PT!vars
<1>3. PT!DesktopAssumption
  BY InstancesAssumption DEF DT!DesktopAssumption, PT!DesktopAssumption, DT!Rows, PT!Rows
<1> QED BY <1>1, <1>2, <1>3, PT!InvariantStep

LEMMA CorpusSuffices == CorpusInv => (part = "corpus" => DT!SearchesOneIndex)
<1>1. PT!IInv => PT!SearchesOneIndex
  BY PT!InvariantSuffices
<1> QED BY <1>1 DEF CorpusInv, PT!SearchesOneIndex, DT!SearchesOneIndex, PT!OnePlan, DT!OnePlan,
                    PT!Committed, DT!Committed

\* The vectors of the desktop index are of one plan, and the HNSW directory that a search
\* accepts is built from them, unless a build was left out or overtaken; for any number of
\* commands, of an index with one document that is edited and of one with two.
THEOREM SearchesStayInOneIndex == MCSpec => []SearchesOneIndex
<1>1. EditsInv /\ CorpusInv => SearchesOneIndex
  BY EditsSuffices, CorpusSuffices DEF SearchesOneIndex
<1> QED BY <1>1, EditsInit, EditsStep, CorpusInit, CorpusStep, PTL DEF MCSpec
=============================================================================

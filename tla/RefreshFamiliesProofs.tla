----------------------- MODULE RefreshFamiliesProofs -----------------------
(* Theorems of RefreshFamilies for any number of families, rotations and     *)
(* retries, and stores of any size: rotation leaves one live token, and a    *)
(* revoked family stays revoked, whatever is lost, repeated or dropped; and  *)
(* a client that is only unlucky keeps its family.                           *)
EXTENDS RefreshFamilies, FiniteSetTheorems, TLAPS

(* The invariant.  Every record belongs to a family that was authorized, so  *)
(* that no family is authorized over the remains of another; and a family    *)
(* that nothing happened to has its live token, which is what names it when  *)
(* it is revoked.                                                            *)
StoresTyped ==
    live \subseteq Pairs /\ access \subseteq Pairs /\ consumed \subseteq Pairs
Rooted ==
    /\ \A p \in live \cup access \cup consumed : p[1] \in granted
    /\ dead \subseteq granted
Untouched == granted \ (dead \cup over \cup evicted)
NamedByTokens == \A f \in Untouched : Of(f, live) # {}

(* A request presents the token its client holds, and a response is one to a *)
(* request.                                                                  *)
ClientsOK ==
    \A f \in Families :
        /\ asks[f] # None => asks[f] = holds[f] /\ answer[f] = "none"
        /\ answer[f] # "none" => holds[f] # None
        /\ f \notin granted => holds[f] = None

Tombs == tombs \subseteq dead

(* A prompt client's token is live and never presented, or was exchanged for *)
(* the live one as often as its responses were lost or are under way.        *)
Quiet == granted \ (Shared \cup over \cup evicted)
Exchanged(f, p) ==
    /\ p \in open /\ p \in consumed /\ PairActive(p)
    /\ answer[f] \in {"none", "token"}
    /\ issues[p] + (IF answer[f] = "none" THEN 1 ELSE 0) <= misses[f]
Prompt(f) ==
    /\ f \notin dead /\ holds[f] # None
    /\ \/ <<f, holds[f]>> \in live /\ answer[f] = "none"
       \/ Exchanged(f, <<f, holds[f]>>)
PromptOK == \A f \in Quiet : Prompt(f)

IInv == StoresTyped /\ Rooted /\ NamedByTokens /\ OneBranch /\ DeadStaysDead /\ RevocationQueued

LEMMA KeptIsSubset == ASSUME NEW set, NEW s \in Kept(set) PROVE s \subseteq set
  BY DEF Kept

LEMMA SuccessorTyped ==
    ASSUME NEW p \in Pairs, p[2] < MaxToken
    PROVE  /\ Successor(p) \in Pairs
           /\ Successor(p)[1] = p[1] /\ Successor(p)[2] = p[2] + 1
  BY RefreshAssumption DEF Pairs, Tokens, Successor

(* What a revocation leaves is what there was without the family.            *)
LEMMA RevokeRemoves ==
    ASSUME NEW p, NEW refresh, NEW tokens, Revoke(p, refresh, tokens)
    PROVE  /\ live' = {q \in refresh : q[1] # p[1]}
           /\ access' = {q \in tokens : q[1] # p[1]}
           /\ dead' = dead \cup {p[1]}
           /\ queued \subseteq queued'
           /\ Of(p[1], refresh) # {} => p[1] \in queued'
  BY DEF Revoke, Without, Of, Named

(* What a rotation of p does to the stores, whether or not a marker is       *)
(* dropped for room.                                                         *)
LEMMA RotateEffect ==
    ASSUME IInv, NEW p \in Pairs, NEW out, Rotate(p, out)
    PROVE  /\ live' \subseteq (live \cup {Successor(p)}) \ {p}
           /\ access' \subseteq access \cup {Successor(p)}
           /\ consumed' \subseteq consumed \cup {p}
           /\ dead \subseteq dead' /\ queued \subseteq queued' /\ evicted \subseteq evicted'
           /\ \A f \in dead' \ dead :
                /\ f \in evicted' /\ \E q \in consumed \cup {p} : q[1] = f
                /\ Of(f, live') = {} /\ Of(f, access') = {}
           /\ \A q \in (live \cup {Successor(p)}) \ {p} :
                q \in live' \/ q[1] \in evicted' \cup dead'
<1> PICK refresh \in Kept(live \cup {Successor(p)}), tokens \in Kept(access \cup {Successor(p)}) :
      Mark(p, refresh, tokens) \/ MarkInstead(p, refresh, tokens)
  BY DEF Rotate
<1>1. refresh \subseteq live \cup {Successor(p)} /\ tokens \subseteq access \cup {Successor(p)}
  BY KeptIsSubset
<1>2. Spent(p, refresh) = refresh \ {p}
  BY DEF Spent
<1>d. \A q \in (live \cup {Successor(p)}) \ {p} :
        q \in refresh \/ q[1] \in Dropped(p, refresh, tokens)
  BY DEF Dropped
<1>3. CASE Mark(p, refresh, tokens)
  BY <1>1, <1>2, <1>d, <1>3 DEF Mark
<1>4. CASE MarkInstead(p, refresh, tokens)
  <2>1. PICK first \in consumed \cup {p} :
          /\ Revoke(first, Spent(p, refresh), tokens)
          /\ consumed' = (consumed \cup {p}) \ {first}
          /\ evicted' = evicted \cup Dropped(p, refresh, tokens) \cup {first[1]}
    BY <1>4 DEF MarkInstead
  <2>2. /\ live' = {q \in refresh \ {p} : q[1] # first[1]}
        /\ access' = {q \in tokens : q[1] # first[1]}
        /\ dead' = dead \cup {first[1]} /\ queued \subseteq queued'
    BY <1>2, <2>1, RevokeRemoves
  <2>3. Of(first[1], live') = {} /\ Of(first[1], access') = {} /\ first[1] \in evicted'
    BY <2>1, <2>2 DEF Of
  <2>4. \A q \in (live \cup {Successor(p)}) \ {p} : q \in live' \/ q[1] \in evicted' \cup dead'
    BY <1>d, <2>1, <2>2
  <2> QED BY <1>1, <2>1, <2>2, <2>3, <2>4
<1> QED BY <1>3, <1>4

(* The stores after a rotation: its family has the successor, if anything. *)
LEMMA RotateOK ==
    ASSUME IInv, NEW p \in Pairs, NEW out, Rotate(p, out), using' = using
    PROVE  IInv'
<1> USE DEF IInv
<1>p. p \in live /\ p[2] < MaxToken /\ granted' = granted /\ over' = over
  BY DEF Rotate
<1>s. /\ Successor(p) \in Pairs
      /\ Successor(p)[1] = p[1] /\ Successor(p)[2] = p[2] + 1 /\ p[2] \in Nat
  BY <1>p, SuccessorTyped DEF Pairs, Tokens
<1>f. p[1] \in granted /\ p[1] \notin dead
  BY <1>p DEF Rooted, DeadStaysDead, Of
<1>e. /\ live' \subseteq (live \cup {Successor(p)}) \ {p}
      /\ access' \subseteq access \cup {Successor(p)}
      /\ consumed' \subseteq consumed \cup {p}
      /\ dead \subseteq dead' /\ queued \subseteq queued' /\ evicted \subseteq evicted'
      /\ \A f \in dead' \ dead :
           /\ f \in evicted' /\ \E q \in consumed \cup {p} : q[1] = f
           /\ Of(f, live') = {} /\ Of(f, access') = {}
      /\ \A q \in (live \cup {Successor(p)}) \ {p} :
           q \in live' \/ q[1] \in evicted' \cup dead'
  BY RotateEffect
<1>1. StoresTyped'
  BY <1>s, <1>e DEF StoresTyped
<1>2. Rooted'
  <2>1. \A q \in live' \cup access' \cup consumed' : q[1] \in granted
    BY <1>s, <1>f, <1>e DEF Rooted
  <2>2. dead' \subseteq granted
    BY <1>f, <1>e DEF Rooted
  <2> QED BY <2>1, <2>2, <1>p DEF Rooted
<1>3. NamedByTokens'
  <2> SUFFICES ASSUME NEW f \in Untouched' PROVE Of(f, live') # {}
    BY DEF NamedByTokens
  <2>1. f \in Untouched /\ f \notin evicted' /\ f \notin dead'
    BY <1>p, <1>e DEF Untouched
  <2>2. PICK q \in live : q[1] = f
    BY <2>1 DEF NamedByTokens, Of
  <2>3. CASE q = p
    BY <1>e, <1>s, <2>1, <2>2, <2>3 DEF Of
  <2>4. CASE q # p
    BY <1>e, <2>1, <2>2, <2>4 DEF Of
  <2> QED BY <2>3, <2>4
<1>4. OneBranch'
  <2>1. \A q \in live : q[1] = p[1] => q = p
    BY <1>p DEF OneBranch
  <2>2. \A q, r \in live' : q[1] = r[1] => q = r
    BY <1>e, <1>s, <2>1 DEF OneBranch
  <2>3. ASSUME NEW q \in live', NEW r \in consumed', r[1] = q[1] PROVE r[2] < q[2]
    <3>1. CASE q = Successor(p)
      <4>1. r = p \/ r[2] < p[2]
        BY <1>p, <1>e, <1>s, <2>3, <3>1 DEF OneBranch
      <4>2. r[2] \in Nat
        BY <1>e, <2>3 DEF StoresTyped, Pairs, Tokens
      <4> QED BY <1>s, <3>1, <4>1, <4>2
    <3>2. CASE q # Successor(p)
      <4>1. q \in live /\ q[1] # p[1]
        BY <1>e, <2>1, <3>2
      <4> QED BY <1>e, <2>3, <4>1 DEF OneBranch
    <3> QED BY <3>1, <3>2
  <2> QED BY <2>2, <2>3 DEF OneBranch
<1>5. DeadStaysDead'
  <2> SUFFICES ASSUME NEW f \in dead' PROVE Of(f, live') = {} /\ Of(f, access') = {}
    BY DEF DeadStaysDead
  <2>1. CASE f \in dead
    BY <1>e, <1>s, <1>f, <2>1 DEF DeadStaysDead, Of
  <2> QED BY <2>1, <1>e
<1>6. RevocationQueued'
  BY <1>p, <1>e DEF RevocationQueued
<1> QED BY <1>1, <1>2, <1>3, <1>4, <1>5, <1>6

(* A replayed token: the family had its live token, or is not revoked first. *)
LEMMA ReplayOK ==
    ASSUME IInv, NEW p \in Pairs, NEW out, Replay(p, out), using' = using
    PROVE  IInv'
<1> USE DEF IInv
<1>1. /\ p \in consumed
      /\ consumed' = consumed /\ granted' = granted /\ over' = over /\ evicted' = evicted
  BY DEF Replay, Consumed
<1>2. /\ live' = {q \in live : q[1] # p[1]} /\ access' = {q \in access : q[1] # p[1]}
      /\ dead' = dead \cup {p[1]} /\ queued \subseteq queued'
      /\ Of(p[1], live) # {} => p[1] \in queued'
  BY RevokeRemoves DEF Replay
<1>3. StoresTyped' /\ Rooted' /\ OneBranch'
  BY <1>1, <1>2 DEF StoresTyped, Rooted, OneBranch
<1>4. NamedByTokens'
  <2> SUFFICES ASSUME NEW f \in Untouched' PROVE Of(f, live') # {}
    BY DEF NamedByTokens
  <2>1. f \in Untouched /\ f # p[1]
    BY <1>1, <1>2 DEF Untouched
  <2> QED BY <1>2, <2>1 DEF NamedByTokens, Of
<1>5. DeadStaysDead'
  BY <1>2 DEF DeadStaysDead, Of
<1>6. RevocationQueued'
  <2>1. p[1] \in dead \cup over \cup evicted \cup queued'
    BY <1>1, <1>2 DEF NamedByTokens, Untouched, Rooted
  <2> QED BY <1>1, <1>2, <2>1 DEF RevocationQueued
<1> QED BY <1>3, <1>4, <1>5, <1>6

(* Every other answer leaves the stores alone. *)
LEMMA ExchangeOK ==
    ASSUME IInv, NEW p \in Pairs, NEW out, Exchange(p, out), using' = using
    PROVE  IInv'
<1>1. CASE Rotate(p, out)
  BY <1>1, RotateOK
<1>2. CASE Replay(p, out)
  BY <1>2, ReplayOK
<1>3. CASE Retry(p, out) \/ Busy(p, out) \/ Reject(p, out)
  BY <1>3 DEF Retry, Busy, Reject, stores, IInv, StoresTyped, Rooted, NamedByTokens, Untouched,
              OneBranch, DeadStaysDead, RevocationQueued, Of
<1> QED BY <1>1, <1>2, <1>3 DEF Exchange

LEMMA AuthorizeOK == ASSUME IInv, NEW f \in Families, Authorize(f) PROVE IInv'
<1> USE DEF IInv
<1> DEFINE new == <<f, 0>>
<1>1. /\ f \notin granted /\ granted' = granted \cup {f}
      /\ live' \subseteq live \cup {new} /\ access' \subseteq access \cup {new}
      /\ evicted \subseteq evicted'
      /\ \A q \in (live \cup {new}) \ live' : q[1] \in evicted'
      /\ UNCHANGED <<consumed, dead, using, queued, over>>
  BY KeptIsSubset DEF Authorize
<1>2. new \in Pairs /\ new[1] = f
  BY RefreshAssumption DEF Pairs, Tokens
<1>3. \A q \in live \cup access \cup consumed : q[1] # f
  BY <1>1 DEF Rooted
<1>4. StoresTyped' /\ Rooted'
  BY <1>1, <1>2 DEF StoresTyped, Rooted
<1>5. NamedByTokens'
  <2> SUFFICES ASSUME NEW g \in Untouched' PROVE Of(g, live') # {}
    BY DEF NamedByTokens
  <2>1. g = f \/ g \in Untouched
    BY <1>1 DEF Untouched
  <2>2. PICK q \in live \cup {new} : q[1] = g
    BY <1>2, <2>1 DEF NamedByTokens, Of
  <2> QED BY <1>1, <2>2 DEF Untouched, Of
<1>6. OneBranch'
  BY <1>1, <1>2, <1>3 DEF OneBranch
<1>7. DeadStaysDead'
  BY <1>1, <1>2 DEF DeadStaysDead, Of, Rooted
<1>8. RevocationQueued'
  BY <1>1 DEF RevocationQueued
<1> QED BY <1>4, <1>5, <1>6, <1>7, <1>8

(* Records that run out. *)
LEMMA ExpiryOK ==
    ASSUME IInv,
           \/ \E p \in Pairs : WindowCloses(p) \/ AccessExpires(p) \/ IdleExpires(p)
           \/ \E f \in Families : FamilyEnds(f)
    PROVE  IInv'
<1> USE DEF IInv
<1>1. CASE \E p \in Pairs : WindowCloses(p) \/ AccessExpires(p)
  BY <1>1 DEF WindowCloses, AccessExpires, StoresTyped, Rooted, NamedByTokens, Untouched,
              OneBranch, DeadStaysDead, RevocationQueued, Of
<1>2. ASSUME NEW gone \in Families,
             live' \subseteq live, consumed' \subseteq consumed,
             \A q \in live \ live' : q[1] = gone,
             over' = over \cup {gone},
             UNCHANGED <<access, granted, dead, evicted, using, queued>>
      PROVE  IInv'
  <2>1. StoresTyped' /\ Rooted' /\ OneBranch' /\ RevocationQueued'
    BY <1>2 DEF StoresTyped, Rooted, OneBranch, RevocationQueued
  <2>2. DeadStaysDead'
    BY <1>2 DEF DeadStaysDead, Of
  <2>3. NamedByTokens'
    BY <1>2 DEF NamedByTokens, Untouched, Of
  <2> QED BY <2>1, <2>2, <2>3
<1>3. ASSUME NEW p \in Pairs, IdleExpires(p) PROVE IInv'
  BY <1>2, <1>3 DEF IdleExpires, Pairs
<1>4. ASSUME NEW f \in Families, FamilyEnds(f) PROVE IInv'
  BY <1>2, <1>4 DEF FamilyEnds, Of
<1> QED BY <1>1, <1>3, <1>4

LEMMA InitOK == Init => IInv
  BY DEF Init, IInv, StoresTyped, Rooted, NamedByTokens, Untouched, OneBranch, DeadStaysDead,
         RevocationQueued

LEMMA NextOK == IInv /\ [Next]_vars => IInv'
<1> SUFFICES ASSUME IInv, [Next]_vars PROVE IInv'
  OBVIOUS
<1> USE DEF IInv
<1>1. CASE \E f \in Families : Authorize(f)
  BY <1>1, AuthorizeOK
<1>2. ASSUME NEW f \in Families, Serve(f) PROVE IInv'
  <2>1. \E out \in {"token", "later", "refused"} : Exchange(<<f, asks[f]>>, out)
    BY <1>2 DEF Serve
  <2>2. CASE <<f, asks[f]>> \in Pairs
    BY <1>2, <2>1, <2>2, ExchangeOK DEF Serve
  <2>3. CASE <<f, asks[f]>> \notin Pairs
    <3>1. \E out \in {"token", "later", "refused"} : Reject(<<f, asks[f]>>, out)
      BY <2>1, <2>3 DEF Exchange, Rotate, Replay, Retry, Busy, Consumed, StoresTyped
    <3> QED BY <1>2, <3>1 DEF Serve, Reject, stores, StoresTyped, Rooted, NamedByTokens, Untouched,
              OneBranch, DeadStaysDead, RevocationQueued, Of
  <2> QED BY <2>2, <2>3
<1>3. ASSUME NEW p \in Pairs, Present(p) PROVE IInv'
  BY <1>3, ExchangeOK DEF Present
<1>4. CASE \E f \in Families : Use(f)
  BY <1>4 DEF Use, stores, StoresTyped, Rooted, NamedByTokens, Untouched, OneBranch,
              DeadStaysDead, RevocationQueued, Of
<1>5. CASE \/ \E p \in Pairs : WindowCloses(p) \/ AccessExpires(p) \/ IdleExpires(p)
           \/ \E f \in Families : FamilyEnds(f)
  BY <1>5, ExpiryOK
<1>6. CASE \/ UNCHANGED vars
           \/ \E f \in Families : Ask(f) \/ LoseAnswer(f) \/ LoseRequest(f) \/ Receive(f)
  BY <1>6 DEF Ask, LoseAnswer, LoseRequest, Receive, vars, stores, StoresTyped, Rooted,
              NamedByTokens, Untouched, OneBranch, DeadStaysDead, RevocationQueued, Of
<1> QED BY <1>1, <1>2, <1>3, <1>4, <1>5, <1>6 DEF Next

-----------------------------------------------------------------------------
(* Types and the bounds of the stores. *)

BoundsOK == TypeOK /\ IsFiniteSet(consumed) /\ IsFiniteSet(tombs) /\ ClientsOK /\ Tombs

(* A marker or tombstone more, within the bound. *)
LEMMA BuriedFinite ==
    ASSUME NEW set, IsFiniteSet(set), NEW s \in Buried(set)
    PROVE  s \subseteq set /\ IsFiniteSet(s) /\ Cardinality(s) <= MaxRevoked
<1>1. s \subseteq set /\ Cardinality(s) <= MaxRevoked
  BY FS_CardinalityType, RefreshAssumption DEF Buried
<1> QED BY <1>1, FS_Subset

LEMMA RevokeTyped ==
    ASSUME BoundsOK, NEW p \in Pairs, NEW refresh \in SUBSET Pairs, NEW tokens \in SUBSET Pairs,
           Revoke(p, refresh, tokens)
    PROVE  /\ live' \subseteq Pairs /\ access' \subseteq Pairs
           /\ tombs' \subseteq Families /\ IsFiniteSet(tombs') /\ Cardinality(tombs') <= MaxRevoked
           /\ dead' = dead \cup {p[1]} /\ tombs' \subseteq dead'
           /\ dead' \subseteq Families /\ queued' \subseteq Families
<1>1. p[1] \in Families
  BY DEF Pairs
<1>2. IsFiniteSet(tombs \cup {p[1]}) /\ tombs' \in Buried(tombs \cup {p[1]})
  BY FS_AddElement DEF Revoke, BoundsOK
<1>3. tombs' \subseteq tombs \cup {p[1]} /\ IsFiniteSet(tombs') /\ Cardinality(tombs') <= MaxRevoked
  BY <1>2, BuriedFinite
<1>4. /\ tombs \subseteq Families /\ tombs \subseteq dead /\ dead \subseteq Families /\ queued \subseteq Families
  BY DEF BoundsOK, TypeOK, Tombs
<1>5. /\ live' \subseteq refresh /\ access' \subseteq tokens /\ dead' = dead \cup {p[1]}
      /\ queued' \subseteq queued \cup {p[1]}
  BY DEF Revoke, Without
<1> QED BY <1>1, <1>3, <1>4, <1>5

(* What an exchange does besides, whatever its outcome. *)
ExchangeTyped ==
    /\ live' \subseteq Pairs /\ access' \subseteq Pairs /\ open' \subseteq Pairs
    /\ consumed' \subseteq Pairs /\ IsFiniteSet(consumed') /\ Cardinality(consumed') <= MaxConsumed
    /\ older' \subseteq Pairs \X Pairs /\ issues' \in [Pairs -> 0 .. MaxRetries]
    /\ tombs' \subseteq Families /\ IsFiniteSet(tombs') /\ Cardinality(tombs') <= MaxRevoked
    /\ tombs' \subseteq dead' /\ dead' \subseteq Families /\ queued' \subseteq Families
    /\ evicted' \subseteq Families /\ granted' = granted /\ over' = over

LEMMA ExchangeKeepsTypes ==
    ASSUME BoundsOK, NEW p \in Pairs, NEW out, Exchange(p, out)
    PROVE  ExchangeTyped
<1>0. /\ live \subseteq Pairs /\ access \subseteq Pairs /\ open \subseteq Pairs /\ consumed \subseteq Pairs
      /\ IsFiniteSet(consumed) /\ Cardinality(consumed) <= MaxConsumed /\ older \subseteq Pairs \X Pairs
      /\ issues \in [Pairs -> 0 .. MaxRetries] /\ tombs \subseteq Families /\ IsFiniteSet(tombs)
      /\ Cardinality(tombs) <= MaxRevoked /\ tombs \subseteq dead /\ dead \subseteq Families
      /\ queued \subseteq Families /\ evicted \subseteq Families
      /\ MaxRetries \in Nat /\ MaxConsumed \in Nat /\ p[1] \in Families
  BY RefreshAssumption DEF BoundsOK, TypeOK, Tombs, Pairs
<1>1. CASE Rotate(p, out)
  <2>1. PICK refresh \in Kept(live \cup {Successor(p)}), tokens \in Kept(access \cup {Successor(p)}) :
          Mark(p, refresh, tokens) \/ MarkInstead(p, refresh, tokens)
    BY <1>1 DEF Rotate
  <2>2. /\ issues' = [issues EXCEPT ![p] = 0] /\ granted' = granted /\ over' = over
    BY <1>1 DEF Rotate
  <2>3. Successor(p) \in Pairs
    BY <1>1, SuccessorTyped DEF Rotate
  <2>4. refresh \subseteq Pairs /\ tokens \subseteq Pairs
    BY <1>0, <2>3, KeptIsSubset
  <2>5. Spent(p, refresh) \subseteq Pairs
    BY <2>4 DEF Spent
  <2>6. Dropped(p, refresh, tokens) \subseteq Families
    BY <1>0, <2>3 DEF Dropped, Pairs
  <2>7. issues' \in [Pairs -> 0 .. MaxRetries]
    BY <1>0, <2>2
  <2>8. IsFiniteSet(consumed \cup {p}) /\ consumed \cup {p} \subseteq Pairs
    BY <1>0, FS_AddElement
  <2>9. CASE Mark(p, refresh, tokens)
    <3>1. /\ Cardinality(consumed \cup {p}) <= MaxConsumed
          /\ live' = Spent(p, refresh) /\ access' = tokens
          /\ consumed' = consumed \cup {p} /\ older' = older \cup (consumed \X {p})
          /\ open' = open \cup {p} /\ evicted' = evicted \cup Dropped(p, refresh, tokens)
          /\ tombs' = tombs /\ dead' = dead /\ queued' = queued
      BY <2>9 DEF Mark
    <3> QED BY <1>0, <2>2, <2>4, <2>5, <2>6, <2>7, <2>8, <3>1 DEF ExchangeTyped
  <2>10. CASE MarkInstead(p, refresh, tokens)
    <3>1. PICK first \in consumed \cup {p} :
            /\ Revoke(first, Spent(p, refresh), tokens)
            /\ consumed' = (consumed \cup {p}) \ {first}
            /\ older' = (older \cup (consumed \X {p})) \ ({first} \X (consumed \cup {p}))
            /\ open' = (open \cup {p}) \ {first}
            /\ evicted' = evicted \cup Dropped(p, refresh, tokens) \cup {first[1]}
      BY <2>10 DEF MarkInstead
    <3>2. first \in Pairs /\ first[1] \in Families
      BY <2>8 DEF Pairs
    <3>3. /\ live' \subseteq Pairs /\ access' \subseteq Pairs
          /\ tombs' \subseteq Families /\ IsFiniteSet(tombs') /\ Cardinality(tombs') <= MaxRevoked
          /\ tombs' \subseteq dead' /\ dead' \subseteq Families /\ queued' \subseteq Families
      BY <2>4, <2>5, <3>1, <3>2, RevokeTyped
    <3>4. IsFiniteSet(consumed') /\ Cardinality(consumed') <= MaxConsumed
      <4>1. /\ IsFiniteSet(consumed') /\ Cardinality(consumed') = Cardinality(consumed \cup {p}) - 1
        BY <2>8, <3>1, FS_RemoveElement
      <4>2. Cardinality(consumed \cup {p}) =
               IF p \in consumed THEN Cardinality(consumed) ELSE Cardinality(consumed) + 1
        BY <1>0, FS_AddElement
      <4>3. Cardinality(consumed) \in Nat /\ Cardinality(consumed \cup {p}) \in Nat
        BY <1>0, <2>8, FS_CardinalityType
      <4> QED BY <1>0, <4>1, <4>2, <4>3
    <3>5. older' \subseteq Pairs \X Pairs /\ open' \subseteq Pairs /\ consumed' \subseteq Pairs
      BY <1>0, <3>1
    <3>6. evicted' \subseteq Families
      BY <1>0, <2>6, <3>1, <3>2
    <3> QED BY <2>2, <2>7, <3>3, <3>4, <3>5, <3>6 DEF ExchangeTyped
  <2> QED BY <2>1, <2>9, <2>10
<1>2. CASE Retry(p, out)
  <2>1. /\ issues[p] < MaxRetries /\ issues' = [issues EXCEPT ![p] = @ + 1]
        /\ UNCHANGED <<live, access, consumed, older, open, tombs, granted, over, dead, evicted, queued>>
    BY <1>2 DEF Retry, RetriesLeft
  <2>2. issues' \in [Pairs -> 0 .. MaxRetries]
    BY <1>0, <2>1
  <2> QED BY <1>0, <2>1, <2>2 DEF ExchangeTyped
<1>3. CASE Replay(p, out)
  <2>1. Revoke(p, live, access) /\ UNCHANGED <<consumed, older, open, issues, granted, over, evicted>>
    BY <1>3 DEF Replay
  <2>2. /\ live' \subseteq Pairs /\ access' \subseteq Pairs
        /\ tombs' \subseteq Families /\ IsFiniteSet(tombs') /\ Cardinality(tombs') <= MaxRevoked
        /\ tombs' \subseteq dead' /\ dead' \subseteq Families /\ queued' \subseteq Families
    BY <1>0, <2>1, RevokeTyped
  <2> QED BY <1>0, <2>1, <2>2 DEF ExchangeTyped
<1>4. CASE Busy(p, out) \/ Reject(p, out)
  BY <1>0, <1>4 DEF Busy, Reject, stores, ExchangeTyped
<1> QED BY <1>1, <1>2, <1>3, <1>4 DEF Exchange

LEMMA BoundsInit == Init => BoundsOK
<1> SUFFICES ASSUME Init PROVE BoundsOK
  OBVIOUS
<1>1. IsFiniteSet({}) /\ Cardinality({}) = 0 /\ MaxRetries \in Nat /\ MaxConsumed \in Nat /\ MaxRevoked \in Nat
  BY FS_EmptySet, RefreshAssumption
<1>2. TypeOK
  BY <1>1 DEF Init, TypeOK
<1> QED BY <1>1, <1>2 DEF Init, BoundsOK, ClientsOK, Tombs

LEMMA BoundsNext == BoundsOK /\ [Next]_vars => BoundsOK'
<1> SUFFICES ASSUME BoundsOK, [Next]_vars PROVE BoundsOK'
  OBVIOUS
<1>0. /\ live \subseteq Pairs /\ access \subseteq Pairs /\ open \subseteq Pairs /\ consumed \subseteq Pairs
      /\ IsFiniteSet(consumed) /\ Cardinality(consumed) <= MaxConsumed /\ older \subseteq Pairs \X Pairs
      /\ issues \in [Pairs -> 0 .. MaxRetries] /\ tombs \subseteq Families /\ IsFiniteSet(tombs)
      /\ Cardinality(tombs) <= MaxRevoked /\ tombs \subseteq dead /\ dead \subseteq Families
      /\ queued \subseteq Families /\ evicted \subseteq Families /\ granted \subseteq Families
      /\ over \subseteq Families /\ using \subseteq Families
      /\ holds \in [Families -> Tokens \cup {None}] /\ asks \in [Families -> Tokens \cup {None}]
      /\ answer \in [Families -> {"none", "token", "later", "refused"}]
      /\ misses \in [Families -> 0 .. MaxRetries]
      /\ MaxRetries \in Nat /\ MaxToken \in Nat
  BY RefreshAssumption DEF BoundsOK, TypeOK, Tombs
<1>c. \A f \in Families : /\ asks[f] # None => asks[f] = holds[f] /\ answer[f] = "none"
                          /\ answer[f] # "none" => holds[f] # None
                          /\ f \notin granted => holds[f] = None
  BY DEF BoundsOK, ClientsOK
<1>n. None = MaxToken + 1 /\ Tokens = 0 .. MaxToken
  BY DEF None, Tokens
<1> HIDE DEF None
<1>1. ASSUME NEW f \in Families, Authorize(f) PROVE BoundsOK'
  <2>1. /\ <<f, 0>> \in Pairs /\ 0 \in Tokens
    BY <1>0, <1>n DEF Pairs
  <2>2. /\ live' \subseteq live \cup {<<f, 0>>} /\ access' \subseteq access \cup {<<f, 0>>}
        /\ granted' = granted \cup {f} /\ holds' = [holds EXCEPT ![f] = 0]
        /\ UNCHANGED <<consumed, older, open, issues, tombs, over, asks, answer, misses, dead,
                       using, queued>>
    BY <1>1, KeptIsSubset DEF Authorize
  <2>3. evicted' \subseteq Families
    <3>1. evicted' \subseteq evicted \cup {q[1] : q \in live \cup access \cup {<<f, 0>>}}
      BY <1>1 DEF Authorize
    <3>2. \A q \in live \cup access \cup {<<f, 0>>} : q[1] \in Families
      BY <1>0, <2>1 DEF Pairs
    <3> QED BY <1>0, <3>1, <3>2
  <2>4. TypeOK'
    BY <1>0, <2>1, <2>2, <2>3 DEF TypeOK
  <2>5. asks[f] = None /\ answer[f] = "none"
    BY <1>1, <1>c DEF Authorize
  <2>6. ClientsOK'
    BY <1>0, <1>c, <1>n, <2>2, <2>5 DEF ClientsOK
  <2> QED BY <1>0, <2>2, <2>4, <2>6 DEF BoundsOK, Tombs
<1>2. ASSUME ExchangeTyped, UNCHANGED <<clients, using>> PROVE BoundsOK'
  BY <1>0, <1>c, <1>2 DEF ExchangeTyped, clients, BoundsOK, TypeOK, ClientsOK, Tombs
<1>3. ASSUME NEW f \in Families, Serve(f) PROVE BoundsOK'
  <2>1. /\ asks[f] # None /\ asks' = [asks EXCEPT ![f] = None]
        /\ UNCHANGED <<holds, misses, using>>
    BY <1>3 DEF Serve
  <2>2. PICK out \in {"token", "later", "refused"} :
          Exchange(<<f, asks[f]>>, out) /\ answer' = [answer EXCEPT ![f] = out]
    BY <1>3 DEF Serve
  <2>3. <<f, asks[f]>> \in Pairs
    BY <1>0, <2>1 DEF Pairs
  <2>4. ExchangeTyped
    BY <2>2, <2>3, ExchangeKeepsTypes
  <2>5. ClientsOK'
    BY <1>0, <1>c, <2>1, <2>2, <2>4 DEF ClientsOK, ExchangeTyped
  <2>6. TypeOK'
    BY <1>0, <2>1, <2>2, <2>4 DEF TypeOK, ExchangeTyped
  <2> QED BY <2>4, <2>5, <2>6 DEF BoundsOK, Tombs, ExchangeTyped
<1>4. ASSUME NEW p \in Pairs, Present(p) PROVE BoundsOK'
  BY <1>2, <1>4, ExchangeKeepsTypes DEF Present
<1>5. ASSUME NEW f \in Families, Ask(f) \/ LoseAnswer(f) \/ LoseRequest(f) \/ Receive(f) PROVE BoundsOK'
  <2>1. UNCHANGED <<stores, granted, over, dead, evicted, using, queued>>
    BY <1>5 DEF Ask, LoseAnswer, LoseRequest, Receive
  <2>2. /\ holds' \in [Families -> Tokens \cup {None}] /\ asks' \in [Families -> Tokens \cup {None}]
        /\ answer' \in [Families -> {"none", "token", "later", "refused"}]
        /\ misses' \in [Families -> 0 .. MaxRetries]
    <3>1. CASE Ask(f)
      BY <1>0, <3>1 DEF Ask
    <3>2. CASE LoseAnswer(f)
      <4>1. misses[f] + 1 \in 0 .. MaxRetries
        BY <1>0, <3>2 DEF LoseAnswer
      <4> QED BY <1>0, <3>2, <4>1 DEF LoseAnswer
    <3>3. CASE LoseRequest(f)
      BY <1>0, <3>3 DEF LoseRequest
    <3>4. CASE Receive(f)
      <4>1. holds[f] # None /\ holds[f] \in Tokens \cup {None}
        BY <1>0, <1>c, <3>4 DEF Receive
      <4>2. holds[f] + 1 \in Tokens \cup {None}
        BY <1>0, <1>n, <4>1
      <4> QED BY <1>0, <3>4, <4>1, <4>2 DEF Receive
    <3> QED BY <1>5, <3>1, <3>2, <3>3, <3>4
  <2>3. ClientsOK'
    <3>1. CASE Ask(f)
      BY <1>0, <1>c, <2>1, <3>1 DEF Ask, ClientsOK
    <3>2. CASE LoseAnswer(f)
      BY <1>0, <1>c, <2>1, <3>2 DEF LoseAnswer, ClientsOK
    <3>3. CASE LoseRequest(f)
      BY <1>0, <1>c, <2>1, <3>3 DEF LoseRequest, ClientsOK
    <3>4. CASE Receive(f)
      <4>1. asks[f] = None /\ f \in granted
        BY <1>c, <3>4 DEF Receive
      <4> QED BY <1>0, <1>c, <2>1, <3>4, <4>1 DEF Receive, ClientsOK
    <3> QED BY <1>5, <3>1, <3>2, <3>3, <3>4
  <2>4. TypeOK'
    BY <1>0, <2>1, <2>2 DEF TypeOK, stores
  <2> QED BY <1>0, <2>1, <2>3, <2>4 DEF BoundsOK, Tombs, stores
<1>6. ASSUME NEW f \in Families, Use(f) PROVE BoundsOK'
  <2>1. using' = using \cup {f} /\ UNCHANGED <<stores, granted, over, clients, dead, evicted, queued>>
    BY <1>6 DEF Use
  <2> QED BY <1>0, <1>c, <2>1 DEF stores, clients, BoundsOK, TypeOK, ClientsOK, Tombs
<1>7. ASSUME live' \subseteq live, access' \subseteq access, consumed' \subseteq consumed,
             older' \subseteq older, open' \subseteq open, tombs' \subseteq tombs,
             issues' \in [Pairs -> 0 .. MaxRetries], over' \subseteq Families,
             UNCHANGED <<granted, clients, dead, evicted, using, queued>>
      PROVE  BoundsOK'
  <2>1. /\ IsFiniteSet(consumed') /\ IsFiniteSet(tombs')
        /\ Cardinality(consumed') <= Cardinality(consumed) /\ Cardinality(tombs') <= Cardinality(tombs)
    BY <1>0, <1>7, FS_Subset
  <2>2. Cardinality(consumed') <= MaxConsumed /\ Cardinality(tombs') <= MaxRevoked
    <3>1. /\ Cardinality(consumed') \in Nat /\ Cardinality(tombs') \in Nat
          /\ Cardinality(consumed) \in Nat /\ Cardinality(tombs) \in Nat
      BY <1>0, <2>1, FS_CardinalityType
    <3> QED BY <1>0, <2>1, <3>1, RefreshAssumption
  <2>3. TypeOK'
    BY <1>0, <1>7, <2>2 DEF TypeOK, clients
  <2> QED BY <1>0, <1>c, <1>7, <2>1, <2>3 DEF BoundsOK, ClientsOK, Tombs, clients
<1>8. ASSUME NEW p \in Pairs, WindowCloses(p) PROVE BoundsOK'
  <2>1. issues' \in [Pairs -> 0 .. MaxRetries]
    BY <1>0, <1>8 DEF WindowCloses
  <2> QED BY <1>0, <1>7, <1>8, <2>1 DEF WindowCloses
<1>9. ASSUME NEW p \in Pairs, AccessExpires(p) PROVE BoundsOK'
  BY <1>0, <1>7, <1>9 DEF AccessExpires
<1>10. ASSUME NEW p \in Pairs, IdleExpires(p) PROVE BoundsOK'
  <2>1. over' \subseteq Families
    BY <1>0, <1>10 DEF IdleExpires, Pairs
  <2> QED BY <1>0, <1>7, <1>10, <2>1 DEF IdleExpires
<1>11. ASSUME NEW f \in Families, FamilyEnds(f) PROVE BoundsOK'
  <2>1. over' \subseteq Families /\ issues' = issues
    BY <1>0, <1>11 DEF FamilyEnds
  <2> QED BY <1>0, <1>7, <1>11, <2>1 DEF FamilyEnds
<1>12. CASE UNCHANGED vars
  BY <1>0, <1>c, <1>12 DEF vars, stores, clients, BoundsOK, TypeOK, ClientsOK, Tombs
<1> QED BY <1>1, <1>3, <1>4, <1>5, <1>6, <1>8, <1>9, <1>10, <1>11, <1>12 DEF Next

-----------------------------------------------------------------------------
(* A prompt client. *)

PromptInv == IInv /\ BoundsOK /\ PromptOK

LEMMA PromptTypes ==
    ASSUME PromptInv
    PROVE  /\ holds \in [Families -> Tokens \cup {None}] /\ asks \in [Families -> Tokens \cup {None}]
           /\ answer \in [Families -> {"none", "token", "later", "refused"}]
           /\ misses \in [Families -> 0 .. MaxRetries] /\ issues \in [Pairs -> 0 .. MaxRetries]
           /\ granted \subseteq Families /\ MaxRetries \in Nat /\ MaxToken \in Nat
           /\ \A f \in Families : /\ asks[f] # None => asks[f] = holds[f] /\ answer[f] = "none"
                                  /\ answer[f] # "none" => holds[f] # None
                                  /\ f \notin granted => holds[f] = None
           /\ live \subseteq Pairs /\ consumed \subseteq Pairs /\ tombs \subseteq dead
           /\ dead \subseteq granted /\ OneBranch
           /\ \A f \in Quiet : f \in Families /\ Prompt(f)
BY RefreshAssumption DEF PromptInv, IInv, BoundsOK, TypeOK, ClientsOK, Tombs, StoresTyped, PromptOK, Quiet,
                         Rooted

(* A rotation takes nothing from a family without evicting it. *)
LEMMA RotateKeeps ==
    ASSUME NEW p \in Pairs, NEW out, Rotate(p, out), NEW f, f \notin evicted', f \notin dead
    PROVE  /\ f \notin dead'
           /\ \A q \in (live \cup {Successor(p)}) \ {p} : q[1] = f => q \in live'
           /\ \A q \in access \cup {Successor(p)} : q[1] = f => q \in access'
           /\ \A q \in consumed \cup {p} : q[1] = f => q \in consumed'
           /\ \A q \in open \cup {p} : q[1] = f => q \in open'
           /\ consumed' \subseteq consumed \cup {p}
<1> PICK refresh \in Kept(live \cup {Successor(p)}), tokens \in Kept(access \cup {Successor(p)}) :
      Mark(p, refresh, tokens) \/ MarkInstead(p, refresh, tokens)
  BY DEF Rotate
<1>1. Spent(p, refresh) = refresh \ {p}
  BY DEF Spent
<1>2. ASSUME f \notin Dropped(p, refresh, tokens)
      PROVE  /\ \A q \in (live \cup {Successor(p)}) \ {p} : q[1] = f => q \in refresh \ {p}
             /\ \A q \in access \cup {Successor(p)} : q[1] = f => q \in tokens
  BY <1>2 DEF Dropped
<1>3. CASE Mark(p, refresh, tokens)
  <2>1. f \notin Dropped(p, refresh, tokens)
    BY <1>3 DEF Mark
  <2> QED BY <1>1, <1>2, <1>3, <2>1 DEF Mark
<1>4. CASE MarkInstead(p, refresh, tokens)
  <2>1. PICK first \in consumed \cup {p} :
          /\ Revoke(first, Spent(p, refresh), tokens)
          /\ consumed' = (consumed \cup {p}) \ {first}
          /\ open' = (open \cup {p}) \ {first}
          /\ evicted' = evicted \cup Dropped(p, refresh, tokens) \cup {first[1]}
    BY <1>4 DEF MarkInstead
  <2>2. f \notin Dropped(p, refresh, tokens) /\ f # first[1]
    BY <2>1
  <2>3. /\ live' = {q \in refresh \ {p} : q[1] # first[1]}
        /\ access' = {q \in tokens : q[1] # first[1]} /\ dead' = dead \cup {first[1]}
    BY <1>1, <2>1, RevokeRemoves
  <2> QED BY <1>2, <2>1, <2>2, <2>3
<1> QED BY <1>3, <1>4

(* What a step that leaves the family alone keeps of it. *)
FamilyKept(f) ==
    /\ f \notin dead'
    /\ \A q \in Pairs : q[1] = f =>
          /\ q \in live => q \in live'
          /\ q \in access => q \in access'
          /\ q \in open => q \in open'
          /\ q \in consumed <=> q \in consumed'
          /\ issues'[q] = issues[q]

LEMMA KeptPrompt ==
    ASSUME PromptInv, NEW f \in Quiet, FamilyKept(f),
           holds'[f] = holds[f], answer'[f] = answer[f], misses'[f] = misses[f]
    PROVE  Prompt(f)'
<1>0. f \in Families /\ Prompt(f) /\ f \notin dead' /\ holds[f] # None
      /\ holds \in [Families -> Tokens \cup {None}] /\ live \subseteq Pairs
  BY PromptTypes DEF FamilyKept, Prompt
<1>p. PICK p : p = <<f, holds[f]>>
  OBVIOUS
<1>1. p \in Pairs /\ p[1] = f /\ p = <<f, holds'[f]>>
  BY <1>0, <1>p DEF Pairs
<1>2. CASE p \in live /\ answer[f] = "none"
  BY <1>0, <1>1, <1>2 DEF FamilyKept, Prompt
<1>3. CASE Exchanged(f, p)
  <2>1. Successor(p) \in live /\ Successor(p) \in Pairs /\ Successor(p)[1] = f
    BY <1>0, <1>1, <1>3 DEF Exchanged, PairActive, Successor
  <2>2. PairActive(p)'
    <3>1. Successor(p) \in live' /\ Successor(p) \in access' /\ Successor(p) \notin consumed'
      BY <1>3, <2>1 DEF FamilyKept, Exchanged, PairActive
    <3> QED BY <3>1 DEF PairActive, Successor
  <2>3. p \in open' /\ p \in consumed' /\ issues'[p] = issues[p]
    BY <1>1, <1>3 DEF FamilyKept, Exchanged
  <2>4. Exchanged(f, p)'
    BY <1>3, <2>2, <2>3 DEF Exchanged
  <2> QED BY <1>0, <1>1, <1>p, <2>4 DEF Prompt, Exchanged, PairActive, Successor
<1> QED BY <1>0, <1>2, <1>3, <1>p DEF Prompt

(* Exchanges of other families. *)
LEMMA OthersExchange ==
    ASSUME PromptInv, NEW p \in Pairs, NEW out, Exchange(p, out), NEW f \in Quiet', p[1] # f
    PROVE  f \in Quiet /\ FamilyKept(f)
<1>1. f \in Quiet
  <2>1. granted' = granted /\ over' = over /\ evicted \subseteq evicted'
    BY DEF Exchange, Rotate, Retry, Busy, Replay, Reject, Mark, MarkInstead, stores
  <2> QED BY <2>1 DEF Quiet
<1>2. f \notin dead /\ issues \in [Pairs -> 0 .. MaxRetries]
  BY <1>1, PromptTypes DEF Prompt
<1>3. CASE Rotate(p, out)
  <2>1. f \notin evicted' /\ issues' = [issues EXCEPT ![p] = 0]
    BY <1>3 DEF Quiet, Rotate
  <2>2. /\ f \notin dead'
        /\ \A q \in (live \cup {Successor(p)}) \ {p} : q[1] = f => q \in live'
        /\ \A q \in access \cup {Successor(p)} : q[1] = f => q \in access'
        /\ \A q \in consumed \cup {p} : q[1] = f => q \in consumed'
        /\ \A q \in open \cup {p} : q[1] = f => q \in open'
        /\ consumed' \subseteq consumed \cup {p}
    BY <1>2, <1>3, <2>1, RotateKeeps
  <2>3. ASSUME NEW q \in Pairs, q[1] = f PROVE q # p /\ issues'[q] = issues[q]
    BY <1>2, <2>1, <2>3
  <2> QED BY <1>1, <2>2, <2>3 DEF FamilyKept
<1>4. CASE Retry(p, out)
  BY <1>1, <1>2, <1>4 DEF Retry, FamilyKept
<1>5. CASE Replay(p, out)
  <2>1. /\ live' = {q \in live : q[1] # p[1]} /\ access' = {q \in access : q[1] # p[1]}
        /\ dead' = dead \cup {p[1]}
        /\ UNCHANGED <<consumed, open, issues>>
    BY <1>5, RevokeRemoves DEF Replay
  <2> QED BY <1>1, <1>2, <2>1 DEF FamilyKept
<1>6. CASE Busy(p, out) \/ Reject(p, out)
  BY <1>1, <1>2, <1>6 DEF Busy, Reject, stores, FamilyKept
<1> QED BY <1>3, <1>4, <1>5, <1>6 DEF Exchange

(* The exchange a prompt client asks for: its token is rotated, or the pair  *)
(* given again.                                                              *)
LEMMA OwnExchange ==
    ASSUME PromptInv, NEW f \in Quiet', f \in Families, f \notin Shared, Serve(f)
    PROVE  Prompt(f)'
<1>1. PICK out \in {"token", "later", "refused"} :
        Exchange(<<f, asks[f]>>, out) /\ answer' = [answer EXCEPT ![f] = out]
  BY DEF Serve
<1>2. f \in Quiet
  <2>1. granted' = granted /\ over' = over /\ evicted \subseteq evicted'
    BY <1>1 DEF Exchange, Rotate, Retry, Busy, Replay, Reject, Mark, MarkInstead, stores
  <2> QED BY <2>1 DEF Quiet
<1>3. /\ asks[f] # None /\ asks[f] = holds[f] /\ answer[f] = "none" /\ holds' = holds /\ misses' = misses
      /\ holds[f] \in Tokens /\ Prompt(f) /\ f \notin dead /\ f \notin tombs
      /\ answer' = [answer EXCEPT ![f] = out]
      /\ answer \in [Families -> {"none", "token", "later", "refused"}]
      /\ misses[f] \in 0 .. MaxRetries /\ issues \in [Pairs -> 0 .. MaxRetries] /\ MaxRetries \in Nat
      /\ MaxToken \in Nat /\ OneBranch /\ live \subseteq Pairs /\ consumed \subseteq Pairs
  BY <1>1, <1>2, PromptTypes DEF Serve, Prompt
<1>p. PICK p : p = <<f, holds[f]>>
  OBVIOUS
<1>4. p \in Pairs /\ p[1] = f /\ p[2] = holds[f] /\ Exchange(p, out) /\ p = <<f, holds'[f]>> /\ holds'[f] # None
  BY <1>1, <1>3, <1>p DEF Pairs
<1>5. CASE p \in live
  <2>1. Rotate(p, out)
    BY <1>4, <1>5 DEF Exchange, Retry, Busy, Replay, Reject, Consumed
  <2>2. /\ p[2] < MaxToken /\ issues' = [issues EXCEPT ![p] = 0] /\ f \notin evicted'
        /\ out = IF f \in tombs' THEN "refused" ELSE "token"
    BY <1>4, <2>1 DEF Rotate, Quiet
  <2>3. /\ Successor(p) \in Pairs /\ Successor(p)[1] = f /\ Successor(p)[2] = p[2] + 1 /\ p[2] \in Nat
    BY <1>4, <2>2, SuccessorTyped DEF Pairs, Tokens
  <2>4. /\ f \notin dead'
        /\ \A q \in (live \cup {Successor(p)}) \ {p} : q[1] = f => q \in live'
        /\ \A q \in access \cup {Successor(p)} : q[1] = f => q \in access'
        /\ \A q \in consumed \cup {p} : q[1] = f => q \in consumed'
        /\ \A q \in open \cup {p} : q[1] = f => q \in open'
        /\ consumed' \subseteq consumed \cup {p}
    BY <1>3, <1>4, <2>1, <2>2, RotateKeeps
  <2>5. Successor(p) # p
    BY <2>3
  <2>6. Successor(p) \notin consumed'
    <3>1. \A q \in consumed : q[1] = f => q[2] < p[2]
      BY <1>3, <1>4, <1>5 DEF OneBranch
    <3>2. Successor(p) \notin consumed
      BY <2>3, <3>1
    <3> QED BY <2>4, <2>5, <3>2
  <2>7. Successor(p) \in live' /\ Successor(p) \in access' /\ p \in open' /\ p \in consumed'
    BY <1>4, <2>3, <2>4, <2>5
  <2>8. out = "token"
    <3>1. tombs' \subseteq dead'
      BY <1>4, ExchangeKeepsTypes DEF PromptInv, ExchangeTyped
    <3> QED BY <2>2, <2>4, <3>1
  <2>9. issues'[p] = 0 /\ answer'[f] = "token" /\ misses'[f] \in Nat
    BY <1>3, <1>4, <2>2, <2>8
  <2>10. Exchanged(f, p)'
    BY <2>6, <2>7, <2>9 DEF Exchanged, PairActive, Successor
  <2> QED BY <1>4, <1>p, <2>4, <2>10, <1>3 DEF Prompt, Exchanged, PairActive, Successor
<1>6. CASE p \notin live
  <2>1. Exchanged(f, p) /\ issues[p] + 1 <= misses[f]
    BY <1>3, <1>6, <1>p DEF Prompt, Exchanged
  <2>2. issues[p] < MaxRetries /\ issues[p] \in Nat
    BY <1>3, <1>4, <2>1
  <2>3. p \in open /\ p \in consumed /\ PairActive(p) /\ p[1] \notin tombs
    BY <1>3, <1>4, <2>1 DEF Exchanged
  <2>4. Retry(p, out)
    BY <1>4, <1>6, <2>2, <2>3 DEF Exchange, Rotate, Busy, Replay, Reject, Consumed, RetriesLeft
  <2>5. /\ issues' = [issues EXCEPT ![p] = @ + 1] /\ out = "token"
        /\ UNCHANGED <<live, access, consumed, open, dead>>
    BY <2>4 DEF Retry
  <2>6. issues'[p] = issues[p] + 1 /\ answer'[f] = "token" /\ misses'[f] = misses[f]
    BY <1>3, <1>4, <2>5
  <2>7. Exchanged(f, p)'
    BY <1>3, <2>1, <2>2, <2>3, <2>5, <2>6 DEF Exchanged, PairActive, Successor
  <2> QED BY <1>3, <1>4, <1>p, <2>5, <2>7 DEF Prompt, Exchanged, PairActive, Successor
<1> QED BY <1>5, <1>6

(* A family that runs out, or is not a prompt client's, needs nothing. *)
LEMMA PromptNext ==
    ASSUME PromptInv, Next
    PROVE  PromptOK'
<1> SUFFICES ASSUME NEW f \in Quiet' PROVE Prompt(f)'
  BY DEF PromptOK
<1>t. /\ holds \in [Families -> Tokens \cup {None}] /\ asks \in [Families -> Tokens \cup {None}]
      /\ answer \in [Families -> {"none", "token", "later", "refused"}]
      /\ misses \in [Families -> 0 .. MaxRetries] /\ issues \in [Pairs -> 0 .. MaxRetries]
      /\ granted \subseteq Families /\ MaxRetries \in Nat /\ MaxToken \in Nat
      /\ \A g \in Families : /\ asks[g] # None => asks[g] = holds[g] /\ answer[g] = "none"
                             /\ answer[g] # "none" => holds[g] # None
                             /\ g \notin granted => holds[g] = None
      /\ live \subseteq Pairs /\ dead \subseteq granted /\ OneBranch
  BY PromptTypes
<1>k. ASSUME f \in Quiet, UNCHANGED <<live, access, consumed, open, issues, dead>>,
             holds'[f] = holds[f], answer'[f] = answer[f], misses'[f] = misses[f]
      PROVE  Prompt(f)'
  <2>1. FamilyKept(f)
    BY <1>k, PromptTypes DEF FamilyKept, Prompt
  <2> QED BY <1>k, <2>1, KeptPrompt
<1>q. ASSUME granted' = granted, over \subseteq over', evicted \subseteq evicted'
      PROVE  f \in Quiet /\ f \in Families /\ Prompt(f)
  BY <1>q, PromptTypes DEF Quiet
<1>1. ASSUME NEW g \in Families, Authorize(g) PROVE Prompt(f)'
  <2>1. /\ g \notin granted /\ granted' = granted \cup {g} /\ holds' = [holds EXCEPT ![g] = 0]
        /\ evicted' = evicted \cup {q[1] : q \in ((live \cup {<<g, 0>>}) \ live')
                                                 \cup ((access \cup {<<g, 0>>}) \ access')}
        /\ UNCHANGED <<consumed, older, open, issues, tombs, over, asks, answer, misses, dead,
                       using, queued>>
    BY <1>1 DEF Authorize
  <2>2. f \notin evicted'
    BY DEF Quiet
  <2>3. /\ \A q \in live \cup {<<g, 0>>} : q[1] = f => q \in live'
        /\ \A q \in access \cup {<<g, 0>>} : q[1] = f => q \in access'
    BY <2>1, <2>2
  <2>4. CASE f = g
    <3>1. asks[f] = None /\ answer[f] = "none" /\ holds[f] = None
      BY <1>1, <1>t, <2>1, <2>4
    <3>2. /\ holds'[f] = 0 /\ <<f, 0>> \in live' /\ answer'[f] = "none"
      BY <1>1, <1>t, <2>1, <2>3, <2>4, <3>1
    <3>3. f \notin dead' /\ None # 0
      BY <1>t, <2>1, <2>4 DEF None
    <3>4. None' = None
      BY DEF None
    <3> QED BY <3>2, <3>3, <3>4 DEF Prompt
  <2>5. CASE f # g
    <3>1. f \in Quiet
      BY <2>1, <2>5 DEF Quiet
    <3>2. f \notin dead /\ f \in Families
      BY <3>1, PromptTypes DEF Prompt
    <3>3. FamilyKept(f)
      BY <2>1, <2>3, <3>2 DEF FamilyKept
    <3>4. holds'[f] = holds[f] /\ answer'[f] = answer[f] /\ misses'[f] = misses[f]
      BY <1>t, <2>1, <2>5, <3>2
    <3> QED BY <3>1, <3>3, <3>4, KeptPrompt
  <2> QED BY <2>4, <2>5
<1>2. ASSUME NEW g \in Families, Serve(g) PROVE Prompt(f)'
  <2>1. PICK out \in {"token", "later", "refused"} :
          Exchange(<<g, asks[g]>>, out) /\ answer' = [answer EXCEPT ![g] = out]
    BY <1>2 DEF Serve
  <2>2. asks[g] # None /\ holds' = holds /\ misses' = misses
    BY <1>2 DEF Serve
  <2>3. /\ granted' = granted /\ over' = over /\ evicted \subseteq evicted'
    BY <2>1 DEF Exchange, Rotate, Retry, Busy, Replay, Reject, Mark, MarkInstead, stores
  <2>4. f \in Quiet /\ f \in Families /\ f \notin Shared
    BY <2>3, <1>q DEF Quiet
  <2>5. CASE f = g
    BY <1>2, <2>4, <2>5, OwnExchange
  <2>6. CASE f # g
    <3>1. <<g, asks[g]>> \in Pairs
      BY <1>t, <2>2 DEF Pairs
    <3>2. FamilyKept(f)
      BY <2>1, <2>6, <3>1, OthersExchange
    <3>3. answer'[f] = answer[f]
      BY <1>t, <2>1, <2>4, <2>6
    <3> QED BY <2>2, <2>4, <3>2, <3>3, KeptPrompt
  <2> QED BY <2>5, <2>6
<1>3. ASSUME NEW p \in Pairs, Present(p) PROVE Prompt(f)'
  <2>1. PICK out \in {"token", "later", "refused"} : Exchange(p, out)
    BY <1>3 DEF Present
  <2>2. p[1] \in Shared /\ UNCHANGED clients
    BY <1>3 DEF Present
  <2>3. f # p[1]
    BY <2>2 DEF Quiet
  <2>4. f \in Quiet /\ FamilyKept(f)
    BY <2>1, <2>3, OthersExchange
  <2> QED BY <2>2, <2>4, KeptPrompt DEF clients
<1>4. ASSUME NEW g \in Families, Ask(g) \/ LoseRequest(g) PROVE Prompt(f)'
  BY <1>4, <1>k, <1>q DEF Ask, LoseRequest, stores
<1>5. ASSUME NEW g \in Families, LoseAnswer(g) PROVE Prompt(f)'
  <2>1. /\ answer[g] # "none" /\ answer' = [answer EXCEPT ![g] = "none"]
        /\ misses' = [misses EXCEPT ![g] = @ + 1]
        /\ UNCHANGED <<stores, granted, over, holds, dead, evicted>>
    BY <1>5 DEF LoseAnswer
  <2>2. f \in Quiet /\ f \in Families /\ Prompt(f)
    BY <1>q, <2>1
  <2>3. CASE f = g
    <3>p. PICK p : p = <<f, holds[f]>>
      OBVIOUS
    <3>1. Exchanged(f, p) /\ f \notin dead /\ holds[f] # None /\ holds[f] \in Tokens
      BY <1>t, <2>1, <2>2, <2>3, <3>p DEF Prompt
    <3>2. p \in Pairs
      BY <2>2, <3>1, <3>p DEF Pairs
    <3>3. answer'[f] = "none" /\ misses'[f] = misses[f] + 1 /\ issues'[p] = issues[p]
      BY <1>t, <2>1, <2>2, <2>3 DEF stores
    <3>4. issues[p] <= misses[f] /\ issues[p] \in Nat /\ misses[f] \in Nat
      BY <1>t, <2>1, <2>2, <2>3, <3>1, <3>2 DEF Exchanged
    <3>5. Exchanged(f, p)'
      BY <2>1, <3>1, <3>3, <3>4 DEF Exchanged, PairActive, Successor, stores
    <3> QED BY <2>1, <3>1, <3>5, <3>p DEF Prompt, Exchanged, PairActive, Successor
  <2>4. CASE f # g
    BY <1>k, <1>t, <2>1, <2>2, <2>4 DEF stores
  <2> QED BY <2>3, <2>4
<1>6. ASSUME NEW g \in Families, Receive(g) PROVE Prompt(f)'
  <2>1. /\ answer[g] # "none" /\ answer' = [answer EXCEPT ![g] = "none"]
        /\ holds' = [holds EXCEPT ![g] = CASE answer[g] = "token" -> holds[g] + 1
                                           [] answer[g] = "later" -> holds[g]
                                           [] answer[g] = "refused" -> None]
        /\ misses' = [misses EXCEPT ![g] = 0]
        /\ UNCHANGED <<stores, granted, over, dead, evicted>>
    BY <1>6 DEF Receive
  <2>2. f \in Quiet /\ f \in Families /\ Prompt(f)
    BY <1>q, <2>1
  <2>3. CASE f = g
    <3>p. PICK p : p = <<f, holds[f]>>
      OBVIOUS
    <3>1. Exchanged(f, p) /\ f \notin dead /\ holds[f] # None /\ holds[f] \in Tokens
      BY <1>t, <2>1, <2>2, <2>3, <3>p DEF Prompt
    <3>2. answer[f] = "token" /\ Successor(p) \in live
      BY <2>1, <2>3, <3>1 DEF Exchanged, PairActive
    <3>3. holds'[f] = holds[f] + 1 /\ Successor(p) = <<f, holds[f] + 1>> /\ answer'[f] = "none"
      BY <1>t, <2>1, <2>2, <2>3, <3>2, <3>p DEF Successor
    <3>4. holds[f] + 1 \in Tokens
      BY <1>t, <3>2, <3>3 DEF Pairs
    <3>5. holds'[f] # None
      BY <1>t, <3>3, <3>4 DEF Tokens, None
    <3> QED BY <2>1, <3>1, <3>2, <3>3, <3>5 DEF Prompt, stores, None
  <2>4. CASE f # g
    BY <1>k, <1>t, <2>1, <2>2, <2>4 DEF stores
  <2> QED BY <2>3, <2>4
<1>7. ASSUME NEW g \in Families, Use(g) PROVE Prompt(f)'
  BY <1>7, <1>k, <1>q DEF Use, stores, clients
<1>8. ASSUME NEW p \in Pairs, WindowCloses(p) PROVE Prompt(f)'
  <2>1. /\ p[1] \in Shared \/ holds[p[1]] # p[2]
        /\ open' = open \ {p} /\ issues' = [issues EXCEPT ![p] = 0]
        /\ UNCHANGED <<live, access, consumed, granted, over, clients, dead, evicted>>
    BY <1>8 DEF WindowCloses
  <2>2. f \in Quiet /\ f \in Families /\ Prompt(f) /\ f \notin Shared
    BY <1>q, <2>1 DEF Quiet
  <2>q. PICK q : q = <<f, holds[f]>>
    OBVIOUS
  <2>3. q # p /\ q \in Pairs /\ holds[f] # None
    BY <1>t, <2>1, <2>2, <2>q DEF Prompt, Pairs
  <2>4. issues'[q] = issues[q] /\ (q \in open => q \in open')
    BY <1>t, <2>1, <2>3
  <2>5. UNCHANGED <<live, access, consumed, holds, answer, misses, dead>>
    BY <2>1 DEF clients
  <2>6. (q \in live /\ answer[f] = "none") \/ Exchanged(f, q)
    BY <2>2, <2>q DEF Prompt
  <2>7. (q \in live' /\ answer'[f] = "none") \/ Exchanged(f, q)'
    BY <2>4, <2>5, <2>6 DEF Exchanged, PairActive, Successor
  <2> QED BY <2>2, <2>5, <2>7, <2>q DEF Prompt, Exchanged, PairActive, Successor, None
<1>9. ASSUME NEW p \in Pairs, AccessExpires(p) PROVE Prompt(f)'
  <2>1. /\ \A q \in Of(p[1], open) : q[2] >= p[2]
        /\ access' = access \ {p}
        /\ UNCHANGED <<live, consumed, open, issues, granted, over, clients, dead, evicted>>
    BY <1>9 DEF AccessExpires
  <2>2. f \in Quiet /\ f \in Families /\ Prompt(f)
    BY <1>q, <2>1
  <2>q. PICK q : q = <<f, holds[f]>>
    OBVIOUS
  <2>3. UNCHANGED <<live, consumed, open, issues, holds, answer, misses, dead>>
    BY <2>1 DEF clients
  <2>4. (q \in live /\ answer[f] = "none") \/ Exchanged(f, q)
    BY <2>2, <2>q DEF Prompt
  <2>5. ASSUME Exchanged(f, q) PROVE Successor(q) \in access'
    <3>1. q \in open /\ Successor(q) \in access /\ q[1] = f
      BY <2>5, <2>q DEF Exchanged, PairActive
    <3>2. holds[f] \in Nat
      BY <1>t, <2>2 DEF Prompt, Tokens
    <3>3. Successor(q) # p
      <4>1. ASSUME Successor(q) = p PROVE FALSE
        <5>1. p[1] = f /\ p[2] = holds[f] + 1
          BY <2>q, <4>1 DEF Successor
        <5>2. q \in Of(p[1], open) /\ q[2] = holds[f]
          BY <2>q, <3>1, <5>1 DEF Of
        <5>3. q[2] >= p[2]
          BY <2>1, <5>2
        <5> QED BY <3>2, <5>1, <5>2, <5>3
      <4> QED BY <4>1
    <3> QED BY <2>1, <3>1, <3>3
  <2>6. (q \in live' /\ answer'[f] = "none") \/ Exchanged(f, q)'
    BY <2>3, <2>4, <2>5 DEF Exchanged, PairActive, Successor
  <2> QED BY <2>2, <2>3, <2>6, <2>q DEF Prompt, Exchanged, PairActive, Successor, None
<1>10. ASSUME NEW gone \in Families, over' = over \cup {gone}, f # gone,
              granted' = granted, evicted' = evicted, dead' = dead,
              access' = access, issues' = issues, UNCHANGED clients,
              \A q \in Pairs : q[1] # gone =>
                 /\ q \in live <=> q \in live'
                 /\ q \in open <=> q \in open'
                 /\ q \in consumed <=> q \in consumed'
       PROVE  Prompt(f)'
  <2>1. f \in Quiet /\ f \in Families /\ Prompt(f)
    BY <1>q, <1>10
  <2>2. FamilyKept(f)
    BY <1>10, <2>1 DEF FamilyKept, Prompt
  <2> QED BY <1>10, <2>1, <2>2, KeptPrompt DEF clients
<1>11. ASSUME NEW p \in Pairs, IdleExpires(p) PROVE Prompt(f)'
  <2>1. f # p[1] /\ p[1] \in Families
    BY <1>11 DEF IdleExpires, Quiet, Pairs
  <2> QED BY <1>10, <1>11, <2>1 DEF IdleExpires
<1>12. ASSUME NEW g \in Families, FamilyEnds(g) PROVE Prompt(f)'
  <2>1. f # g
    BY <1>12 DEF FamilyEnds, Quiet
  <2> QED BY <1>10, <1>12, <2>1 DEF FamilyEnds, Of
<1> QED BY <1>1, <1>2, <1>3, <1>4, <1>5, <1>6, <1>7, <1>8, <1>9, <1>11, <1>12 DEF Next

LEMMA PromptInvariance == Spec => []PromptInv
<1>1. Init => PromptInv
  <2>1. Init => PromptOK
    BY DEF Init, PromptOK, Quiet
  <2> QED BY <2>1, InitOK, BoundsInit DEF PromptInv
<1>2. PromptInv /\ [Next]_vars => PromptInv'
  <2> SUFFICES ASSUME PromptInv, [Next]_vars PROVE PromptInv'
    OBVIOUS
  <2>1. IInv' /\ BoundsOK'
    BY NextOK, BoundsNext DEF PromptInv
  <2>2. PromptOK'
    <3>1. CASE Next
      BY <3>1, PromptNext
    <3>2. CASE UNCHANGED vars
      BY <3>2 DEF PromptInv, vars, stores, clients, PromptOK, Quiet, Prompt, Exchanged, PairActive, Successor
    <3> QED BY <3>1, <3>2
  <2> QED BY <2>1, <2>2 DEF PromptInv
<1> QED BY <1>1, <1>2, PTL DEF Spec

LEMMA Invariance == Spec => []IInv
  BY InitOK, NextOK, PTL DEF Spec

(* However often exchanges are lost, retried, raced or replayed, a family    *)
(* has one live refresh token at most, the newest it ever had.               *)
THEOREM NeverBranches == Spec => []OneBranch
<1>1. IInv => OneBranch
  BY DEF IInv
<1> QED BY <1>1, Invariance, PTL

(* A revoked family has no token of either kind ever after, and the work it  *)
(* had on the daemon was queued for revocation with it unless its tokens had *)
(* run out or been dropped before.                                           *)
THEOREM StaysRevoked == Spec => []RevocationComplete
<1>1. IInv => RevocationComplete
  BY DEF IInv, RevocationComplete
<1> QED BY <1>1, Invariance, PTL

(* Every record, time and request keeps to its type, and no store of markers *)
(* or tombstones outgrows its limit, whatever is dropped to make room.       *)
THEOREM TypeCorrect == Spec => []TypeOK
<1>1. BoundsOK => TypeOK
  BY DEF BoundsOK
<1> QED BY <1>1, BoundsInit, BoundsNext, PTL DEF Spec

(* A client that repeats a lost exchange within its window is never refused, *)
(* told to wait or taken for a thief, however many responses are lost up to  *)
(* the retries there are, and whoever else uses the endpoint meanwhile.      *)
THEOREM PromptKept == Spec => []PromptClientKept
<1>1. PromptInv => PromptClientKept
  BY PromptTypes DEF PromptClientKept, Quiet, Prompt, Exchanged
<1> QED BY <1>1, PromptInvariance, PTL
=============================================================================

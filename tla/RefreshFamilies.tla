--------------------------- MODULE RefreshFamilies ----------------------------
(***************************************************************************)
(* The token endpoint (src/worker/oauth-tokens.ts, oauth-refresh-*.ts): a   *)
(* refresh token is exchanged once for the pair derived from it, the same   *)
(* pair is given again to a client whose response was lost, and any other   *)
(* use of a consumed token revokes its family.  Every exchange runs under   *)
(* blockConcurrencyWhile and is one action; between them requests and       *)
(* responses are lost, delayed and repeated, and time passes.               *)
(*                                                                          *)
(* The pair derived from token n of a family is token n + 1.  Times are the *)
(* order in which records run out: retry window, access token, idle refresh *)
(* token, family.                                                           *)
(***************************************************************************)
EXTENDS Naturals, FiniteSets

CONSTANTS Families,
          Shared,        \* families whose tokens anyone may present, at any time
          MaxToken,      \* bound: rotations of a family
          MaxRetries,    \* MAX_REFRESH_RETRY_ISSUES
          MaxLive,       \* MAX_REFRESH_TOKENS, _PER_CLIENT
          MaxConsumed,   \* MAX_CONSUMED_REFRESH_TOKENS
          MaxRevoked     \* MAX_REVOKED_REFRESH_FAMILIES

ASSUME RefreshAssumption ==
    /\ Shared \subseteq Families /\ MaxToken \in Nat /\ MaxRetries \in Nat
    /\ {MaxLive, MaxConsumed, MaxRevoked} \subseteq Nat \ {0}

Tokens == 0 .. MaxToken
Pairs == Families \X Tokens

VARIABLES
    live,      \* refreshStore.tokens
    access,    \* oauthStore.tokens
    consumed,  \* refreshStore.consumed
    older,     \* the order of their consumption, as pairs of them
    open,      \* consumed tokens in their retry window, with their source
    issues,    \* retries issued for each token
    tombs,     \* refreshStore.revoked_families
    granted,   \* families authorized
    over,      \* families past their thirty days
    holds,     \* the token each family's client holds
    asks,      \* the token its request under way presents
    answer,    \* the response under way: a token or "refused"
    misses,    \* exchanges of the held token without a response
    dead,      \* families ever revoked (history)
    evicted,   \* families a full store has dropped something of (history)
    using,     \* families with work on the daemon
    queued     \* families with a revocation queued for the daemon (history)

stores == <<live, access, consumed, older, open, issues, tombs>>
clients == <<holds, asks, answer, misses>>
vars == <<stores, granted, over, clients, dead, evicted, using, queued>>

None == MaxToken + 1
Of(f, set) == {p \in set : p[1] = f}

Init ==
    /\ live = {} /\ access = {} /\ consumed = {} /\ older = {} /\ open = {}
    /\ issues = [p \in Pairs |-> 0] /\ tombs = {} /\ granted = {} /\ over = {}
    /\ holds = [f \in Families |-> None] /\ asks = [f \in Families |-> None]
    /\ answer = [f \in Families |-> "none"] /\ misses = [f \in Families |-> 0]
    /\ dead = {} /\ evicted = {} /\ using = {} /\ queued = {}

-----------------------------------------------------------------------------
(* The stores.                                                             *)
\* pruneClientRecordByExpiry, pruneRecordByExpiry: the records that run out first go
Kept(set) == IF Cardinality(set) <= MaxLive THEN {set}
             ELSE {s \in SUBSET set : Cardinality(s) = MaxLive}

Fault_RefreshTokensOnly(f, refresh, tokens) == <<refresh \ Of(f, refresh), tokens>>
\* revokeRefreshFamilyRecords: refresh and access tokens of the family
Without(f, refresh, tokens) == <<refresh \ Of(f, refresh), tokens \ Of(f, tokens)>>

Buried(set) == IF Cardinality(set) <= MaxRevoked THEN {set}
               ELSE {s \in SUBSET set : Cardinality(s) = MaxRevoked}

\* refreshFamilyAuthority: the marker's source, or a token that is left, names the
\* owner whose work the daemon is to stop
Named(p, refresh, tokens) ==
    p \in open \/ Of(p[1], refresh) # {} \/ Of(p[1], tokens) # {}

\* the family of p is revoked, in the stores refresh and tokens
Revoke(p, refresh, tokens) ==
    LET left == Without(p[1], refresh, tokens) IN
    /\ live' = left[1] /\ access' = left[2]
    /\ tombs' \in Buried(tombs \cup {p[1]})
    /\ dead' = dead \cup {p[1]}
    /\ queued' = IF Named(p, refresh, tokens) THEN queued \cup {p[1]} ELSE queued

Successor(p) == <<p[1], p[2] + 1>>

Fault_StillSpendable(p, refresh) == refresh
\* the token that was exchanged leaves the store
Spent(p, refresh) == refresh \ {p}

\* exchangeAuthorizationCode: a new family
Authorize(f) ==
    /\ f \notin granted /\ granted' = granted \cup {f}
    /\ live' \in Kept(live \cup {<<f, 0>>})
    /\ access' \in Kept(access \cup {<<f, 0>>})
    /\ evicted' = evicted \cup {q[1] : q \in ((live \cup {<<f, 0>>}) \ live')
                                             \cup ((access \cup {<<f, 0>>}) \ access')}
    /\ holds' = [holds EXCEPT ![f] = 0]
    /\ UNCHANGED <<consumed, older, open, issues, tombs, over, asks, answer, misses, dead,
                   using, queued>>

-----------------------------------------------------------------------------
(* exchangeRefreshToken, one action per outcome; out is the response.      *)
\* the families whose tokens made room for others when p was rotated
Dropped(p, refresh, tokens) ==
    {q[1] : q \in ((live \cup {Successor(p)}) \ (refresh \cup {p}))
                  \cup ((access \cup {Successor(p)}) \ tokens)}

\* recordConsumedRefreshToken, with room for the marker of p
Mark(p, refresh, tokens) ==
    /\ Cardinality(consumed \cup {p}) <= MaxConsumed
    /\ live' = Spent(p, refresh) /\ access' = tokens
    /\ consumed' = consumed \cup {p} /\ older' = older \cup (consumed \X {p})
    /\ open' = open \cup {p}
    /\ evicted' = evicted \cup Dropped(p, refresh, tokens)
    /\ UNCHANGED <<tombs, dead, queued>>

\* and without: the oldest marker is dropped and its family revoked, which may be this
\* one
MarkInstead(p, refresh, tokens) ==
    /\ Cardinality(consumed \cup {p}) > MaxConsumed
    /\ \E first \in consumed \cup {p} :
        /\ \A q \in consumed \cup {p} : <<q, first>> \notin older \cup (consumed \X {p})
        /\ Revoke(first, Spent(p, refresh), tokens)
        /\ consumed' = (consumed \cup {p}) \ {first}
        /\ older' = (older \cup (consumed \X {p})) \ ({first} \X (consumed \cup {p}))
        /\ open' = (open \cup {p}) \ {first}
        /\ evicted' = evicted \cup Dropped(p, refresh, tokens) \cup {first[1]}

\* issueTokenPair: both stores are cut to size with the token still among them
Rotate(p, out) ==
    /\ p \in live /\ p[2] < MaxToken
    /\ \E refresh \in Kept(live \cup {Successor(p)}), tokens \in Kept(access \cup {Successor(p)}) :
        Mark(p, refresh, tokens) \/ MarkInstead(p, refresh, tokens)
    /\ issues' = [issues EXCEPT ![p] = 0]
    /\ out = IF p[1] \in tombs' THEN "refused" ELSE "token"
    /\ UNCHANGED <<granted, over>>

\* activeConsumedRefreshRetryPair: the derived pair is in both stores, unused
PairActive(p) == /\ Successor(p) \in live /\ Successor(p) \in access /\ Successor(p) \notin consumed

Fault_OneFewer(p) == issues[p] + 1 < MaxRetries
\* consumedRefreshRetrySource: the pair may be given once more
RetriesLeft(p) == issues[p] < MaxRetries

Consumed(p) == p \notin live /\ p \in consumed /\ p[1] \notin tombs

\* the same pair again
Retry(p, out) ==
    /\ Consumed(p) /\ p \in open /\ RetriesLeft(p) /\ PairActive(p)
    /\ issues' = [issues EXCEPT ![p] = @ + 1]
    /\ out = "token"
    /\ UNCHANGED <<live, access, consumed, older, open, tombs, granted, over, dead, evicted, queued>>

\* the retries are used up: 429
Busy(p, out) ==
    /\ Consumed(p) /\ p \in open /\ ~RetriesLeft(p)
    /\ out = "later"
    /\ UNCHANGED <<stores, granted, over, dead, evicted, queued>>

\* the token is used again after its window, or after its replacement
Replay(p, out) ==
    /\ Consumed(p) /\ (p \in open => RetriesLeft(p) /\ ~PairActive(p))
    /\ Revoke(p, live, access)
    /\ out = "refused"
    /\ UNCHANGED <<consumed, older, open, issues, granted, over, evicted>>

Reject(p, out) ==
    /\ p \notin live /\ ~Consumed(p)
    /\ out = "refused"
    /\ UNCHANGED <<stores, granted, over, dead, evicted, queued>>

Exchange(p, out) ==
    Rotate(p, out) \/ Retry(p, out) \/ Busy(p, out) \/ Replay(p, out) \/ Reject(p, out)

-----------------------------------------------------------------------------
(* The clients: one request at a time, repeated when it or its response is  *)
(* lost, until a response arrives.                                          *)
Ask(f) ==
    /\ f \notin Shared /\ holds[f] # None /\ asks[f] = None /\ answer[f] = "none"
    /\ asks' = [asks EXCEPT ![f] = holds[f]]
    /\ UNCHANGED <<stores, granted, over, holds, answer, misses, dead, evicted, using, queued>>

Serve(f) ==
    /\ asks[f] # None
    /\ \E out \in {"token", "later", "refused"} :
        /\ Exchange(<<f, asks[f]>>, out)
        /\ answer' = [answer EXCEPT ![f] = out]
    /\ asks' = [asks EXCEPT ![f] = None]
    /\ UNCHANGED <<holds, misses, using>>

\* the response is lost; a prompt client that loses more responses than there are
\* retries is left to the window
LoseAnswer(f) ==
    /\ answer[f] # "none" /\ misses[f] < MaxRetries
    /\ answer' = [answer EXCEPT ![f] = "none"]
    /\ misses' = [misses EXCEPT ![f] = @ + 1]
    /\ UNCHANGED <<stores, granted, over, holds, asks, dead, evicted, using, queued>>

LoseRequest(f) ==
    /\ asks[f] # None /\ asks' = [asks EXCEPT ![f] = None]
    /\ UNCHANGED <<stores, granted, over, holds, answer, misses, dead, evicted, using, queued>>

Receive(f) ==
    /\ answer[f] # "none" /\ answer' = [answer EXCEPT ![f] = "none"]
    /\ holds' = [holds EXCEPT ![f] = CASE answer[f] = "token" -> holds[f] + 1
                                       [] answer[f] = "later" -> holds[f]
                                       [] answer[f] = "refused" -> None]
    /\ misses' = [misses EXCEPT ![f] = 0]
    /\ UNCHANGED <<stores, granted, over, asks, dead, evicted, using, queued>>

\* a holder of a shared family, or a request that was delayed, presents any token
\* the family ever had
Present(p) ==
    /\ p[1] \in Shared /\ p \in live \cup consumed
    /\ \E out \in {"token", "later", "refused"} : Exchange(p, out)
    /\ UNCHANGED <<clients, using>>

\* a call accepted under an access token starts work on the daemon
Use(f) ==
    /\ Of(f, access) # {} /\ f \notin tombs /\ f \notin using
    /\ using' = using \cup {f}
    /\ UNCHANGED <<stores, granted, over, clients, dead, evicted, queued>>

-----------------------------------------------------------------------------
(* Time, in the order the lifetimes have: thirty seconds, fifteen minutes,  *)
(* fourteen days, thirty days.                                              *)
\* the retry window of the oldest open token; a client of a family that is not
\* shared repeats its request within it
WindowCloses(p) ==
    /\ p \in open
    /\ \A q \in open : <<q, p>> \notin older
    /\ p[1] \in Shared \/ holds[p[1]] # p[2]
    /\ open' = open \ {p} /\ issues' = [issues EXCEPT ![p] = 0]
    /\ UNCHANGED <<live, access, consumed, older, tombs, granted, over, clients, dead,
                   evicted, using, queued>>

AccessExpires(p) ==
    /\ p \in access
    /\ \A q \in Of(p[1], open) : q[2] >= p[2]
    /\ \A q \in Of(p[1], access) : q[2] >= p[2]
    /\ access' = access \ {p}
    /\ UNCHANGED <<live, consumed, older, open, issues, tombs, granted, over, clients, dead,
                   evicted, using, queued>>

IdleExpires(p) ==
    /\ p \in live /\ Of(p[1], access) = {} /\ Of(p[1], open) = {}
    /\ p[1] \notin over /\ live' = live \ {p} /\ over' = over \cup {p[1]}
    /\ UNCHANGED <<access, consumed, older, open, issues, tombs, granted, clients, dead, evicted,
                   using, queued>>

\* its markers and tombstone run out with the family; an access token may outlast it
FamilyEnds(f) ==
    /\ f \in granted \ over
    /\ over' = over \cup {f} /\ live' = live \ Of(f, live)
    /\ consumed' = consumed \ Of(f, consumed)
    /\ older' = older \cap (consumed' \X consumed')
    /\ open' = open \ Of(f, open) /\ tombs' = tombs \ {f}
    /\ UNCHANGED <<access, issues, granted, clients, dead, evicted, using, queued>>

Next ==
    \/ \E f \in Families : \/ Authorize(f) \/ Ask(f) \/ Serve(f) \/ LoseAnswer(f)
                           \/ LoseRequest(f) \/ Receive(f) \/ Use(f) \/ FamilyEnds(f)
    \/ \E p \in Pairs : Present(p) \/ WindowCloses(p) \/ AccessExpires(p) \/ IdleExpires(p)

Spec == Init /\ [][Next]_vars

-----------------------------------------------------------------------------
\* Type invariant.
TypeOK ==
    /\ live \subseteq Pairs /\ access \subseteq Pairs /\ open \subseteq Pairs
    /\ consumed \subseteq Pairs /\ Cardinality(consumed) <= MaxConsumed
    /\ older \subseteq Pairs \X Pairs
    /\ issues \in [Pairs -> 0 .. MaxRetries]
    /\ tombs \subseteq Families /\ Cardinality(tombs) <= MaxRevoked
    /\ {holds, asks} \subseteq [Families -> Tokens \cup {None}]
    /\ answer \in [Families -> {"none", "token", "later", "refused"}]
    /\ misses \in [Families -> 0 .. MaxRetries]
    /\ {granted, over, dead, evicted, using, queued} \subseteq SUBSET Families

\* Retries create no new credential branch: a family has one refresh token at
\* most, the newest it ever had, whoever retried, replayed or raced what.
OneBranch ==
    /\ \A p, q \in live : p[1] = q[1] => p = q
    /\ \A p \in live, q \in consumed : q[1] = p[1] => q[2] < p[2]

\* Reuse revokes the complete family, active access tokens included, and neither a
\* late retry nor a marker or tombstone dropped for room brings it back.
DeadStaysDead == \A f \in dead : Of(f, live) = {} /\ Of(f, access) = {}

\* The work of a revoked family is queued for revocation with it, unless its tokens
\* had run out or been dropped before: then the stores no longer name its owner.
RevocationQueued == dead \cap using \subseteq queued \cup over \cup evicted

\* A family is revoked throughout.
RevocationComplete == DeadStaysDead /\ RevocationQueued

\* A client that repeats a lost exchange in time keeps its family: it is never told
\* to wait or to sign in again, and the token it holds is the live one, or is
\* answered with the live one, unless its family ran out or a full store dropped a
\* token of it.
PromptClientKept ==
    \A f \in granted \ (Shared \cup over \cup evicted) :
        LET p == <<f, holds[f]>> IN
        /\ f \notin dead /\ holds[f] # None /\ answer[f] \in {"none", "token"}
        /\ p \in live \/ (p \in open /\ PairActive(p))
=============================================================================

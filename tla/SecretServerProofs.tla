------------------------- MODULE SecretServerProofs -------------------------
(***************************************************************************)
(* What holds of SecretServer for every number of sessions and requests,   *)
(* every configuration and every clock bound.                              *)
(***************************************************************************)
EXTENDS SecretServer, TLAPS

(* What resolveKey returns in a configuration is an error or a vault type, *)
(* a path and the vault's options (server.go resolveKey).                  *)
LEMMA ResolveType ==
    ASSUME NEW c \in Configs, NEW q \in Queries
    PROVE  resolveKey(c, q) \in Entry \cup {Unresolved}
<1>1. q \in Query
  BY ServerAssumption
<1>2. CASE q.alias # Absent
  <2>1. q.alias \in Aliases
    BY <1>1, <1>2 DEF Query
  <2>2. ASSUME q.alias \in DOMAIN c.keys,
               c.keys[q.alias].vault \in DOMAIN c.vaults
        PROVE  ResolveAlias(c, q.alias) \in Entry
    <3>1. c.keys[q.alias] \in KeyDef
      BY <2>2, ServerAssumption
    <3>2. c.vaults[c.keys[q.alias].vault] \in Vault
      BY <2>2, ServerAssumption
    <3>3. QED
      BY <2>2, <3>1, <3>2 DEF ResolveAlias, EntryOf, Entry, KeyDef, Vault
  <2>3. QED
    BY <1>2, <2>2 DEF resolveKey, ResolveAlias
<1>3. CASE q.alias = Absent /\ (q.vault = Absent \/ q.path = Absent)
  BY <1>3 DEF resolveKey
<1>4. CASE q.alias = Absent /\ q.vault # Absent /\ q.path # Absent
  <2>1. q.vault \in Names /\ q.path \in Paths
    BY <1>1, <1>4 DEF Query
  <2>2. ASSUME q.vault \in DOMAIN c.vaults
        PROVE  c.vaults[q.vault] \in Vault
    BY <2>2, ServerAssumption
  <2>3. ResolvePath(c, q.vault, q.path) \in Entry
    BY <2>1, <2>2, ServerAssumption DEF ResolvePath, EntryOf, Entry, Vault
  <2>4. QED
    BY <1>4, <2>3 DEF resolveKey
<1>5. QED
  BY <1>2, <1>3, <1>4

(* A cache key of a resolved entry is a key of the secrets map.            *)
LEMMA CacheKeyType ==
    ASSUME NEW e \in Entry
    PROVE  CacheKey(e) \in CacheKeys
BY ServerAssumption DEF CacheKey, Entry

-----------------------------------------------------------------------------
(* Type correctness.  Each operation of the store keeps its types.         *)

LEMMA RemoveType ==
    ASSUME StoreTypeOK, NEW S, Remove(S)
    PROVE  StoreTypeOK'
BY DEF StoreTypeOK, Remove, BufferState

LEMMA CreateType ==
    ASSUME StoreTypeOK, NEW s \in Sids, NEW ttl \in TTLs,
           NEW allowed \in Allowlists, Create(s, ttl, allowed)
    PROVE  StoreTypeOK'
<1>1. now + ttl \in Int
  BY StoreAssumption DEF StoreTypeOK
<1>2. [expiresAt   |-> now + ttl,
       allowedKeys |-> allowed,
       secrets     |-> [k \in CacheKeys |-> NoBuffer]] \in Session
  BY <1>1 DEF Session
<1>3. sessions' \in [Sids -> Session \cup {NoSession}]
  BY <1>2 DEF StoreTypeOK, Create
<1>4. issued' \subseteq Sids
  BY DEF StoreTypeOK, Create
<1>5. QED
  BY <1>3, <1>4 DEF StoreTypeOK, Create

LEMMA CacheSecretType ==
    ASSUME StoreTypeOK, NEW s \in Sids, NEW k \in CacheKeys,
           NEW b \in Buffers, CacheSecret(s, k, b)
    PROVE  StoreTypeOK'
<1>1. CASE s \in Present
  <2>1. sessions[s] \in Session
    BY <1>1 DEF StoreTypeOK, Present
  <2>2. [sessions[s] EXCEPT !.secrets[k] = b] \in Session
    BY <2>1 DEF Session
  <2>3. sessions' = [sessions EXCEPT ![s] = [sessions[s] EXCEPT !.secrets[k] = b]]
    BY <1>1 DEF CacheSecret
  <2>4. QED
    BY <1>1, <2>2, <2>3 DEF StoreTypeOK, CacheSecret, BufferState
<1>2. CASE s \notin Present
  BY <1>2 DEF CacheSecret, StoreTypeOK
<1>3. QED
  BY <1>1, <1>2

LEMMA TickType ==
    ASSUME StoreTypeOK, Tick
    PROVE  StoreTypeOK'
BY StoreAssumption DEF StoreTypeOK, Tick

(* What a hit returns is a buffer of the session named in the lookup.      *)
LEMMA GetCachedSecretType ==
    ASSUME StoreTypeOK, NEW s \in Sids, NEW k \in CacheKeys,
           GetCachedSecret(s, k) # NoBuffer
    PROVE  /\ s \in Present
           /\ GetCachedSecret(s, k) = sessions[s].secrets[k]
           /\ GetCachedSecret(s, k) \in Buffers
BY DEF GetCachedSecret, StoreTypeOK, Session, Present

LEMMA CallType ==
    ASSUME TypeOK, NEW r \in Requests, pc[r] # "idle"
    PROVE  /\ call[r] \in Call
           /\ call[r].sid \in Sids
           /\ call[r].query \in Queries
           /\ call[r].at \in Nat
BY DEF TypeOK, Call

(* Every variable keeps its type: the store's slices are buffers, a        *)
(* request's entry is what resolveKey may return, its reply a buffer.      *)
LEMMA TypeStep == TypeOK /\ StepInv /\ [Next]_vars => TypeOK'
<1> SUFFICES ASSUME TypeOK, StepInv, [Next]_vars
             PROVE  TypeOK'
  OBVIOUS
<1> USE DEF Requests
<1>1. ASSUME NEW r \in Requests, Receive(r)
      PROVE  TypeOK'
  <2>1. PICK s \in Sids, q \in Queries :
           call' = [call EXCEPT ![r] = [sid |-> s, query |-> q, at |-> now]]
    BY <1>1 DEF Receive
  <2>2. [sid |-> s, query |-> q, at |-> now] \in Call
    BY StoreAssumption DEF TypeOK, StoreTypeOK, Call
  <2>3. [sid |-> s, query |-> q, at |-> now] # NoCall
    BY <2>2, ServerAssumption
  <2>4. StoreTypeOK'
    BY <1>1 DEF Receive, storeVars, TypeOK, StoreTypeOK
  <2>5. QED
    BY <1>1, <2>1, <2>2, <2>3, <2>4 DEF TypeOK, Receive, Goto, PC
<1>2. ASSUME NEW r \in Requests, LookupFound(r)
      PROVE  TypeOK'
  <2>1. call[r].sid \in Sids
    BY <1>2, CallType DEF LookupFound, Goto
  <2>2. sessions[call[r].sid] \in Session
    BY <1>2, <2>1 DEF LookupFound, Present, TypeOK, StoreTypeOK
  <2>3. sessions[call[r].sid].expiresAt \in Int
    BY <2>2 DEF Session
  <2>4. StoreTypeOK'
    BY <1>2 DEF LookupFound, storeVars, TypeOK, StoreTypeOK
  <2>5. QED
    BY <1>2, <2>3, <2>4 DEF TypeOK, LookupFound, Goto, PC
<1>3. ASSUME NEW r \in Requests,
             \/ LookupMissing(r) \/ CheckExpiry(r) \/ ResolveError(r)
             \/ CacheMiss(r) \/ PluginFound(r) \/ PluginMissing(r)
             \/ FetchError(r) \/ SendFirst(r) \/ SendRest(r)
      PROVE  TypeOK'
  <2>1. StoreTypeOK'
    BY <1>3 DEF LookupMissing, CheckExpiry, ResolveError, CacheMiss,
                PluginFound, PluginMissing, FetchError, SendFirst, SendRest,
                storeVars, TypeOK, StoreTypeOK
  <2>2. /\ pc' \in [Requests -> PC]
        /\ outcome' \in [Requests -> Outcome]
        /\ pc[r] # "idle" /\ pc'[r] # "idle"
        /\ \A q \in Requests \ {r} : pc'[q] = pc[q]
    BY <1>3 DEF LookupMissing, CheckExpiry, ResolveError, CacheMiss,
                PluginFound, PluginMissing, FetchError, SendFirst, SendRest,
                TypeOK, Goto, Fail, PC, Outcome
  <2>3. UNCHANGED <<config, call, expiry, entry, reply>>
    BY <1>3 DEF LookupMissing, CheckExpiry, ResolveError, CacheMiss,
                PluginFound, PluginMissing, FetchError, SendFirst, SendRest
  <2>4. QED
    BY <2>1, <2>2, <2>3 DEF TypeOK
<1>4. ASSUME NEW r \in Requests, ExpireSession(r)
      PROVE  TypeOK'
  <2>1. StoreTypeOK'
    BY <1>4, RemoveType DEF ExpireSession, DeleteExpired, TypeOK
  <2>2. QED
    BY <1>4, <2>1 DEF ExpireSession, TypeOK, Goto, Fail, PC, Outcome
<1>5. ASSUME NEW r \in Requests, ResolveOk(r)
      PROVE  TypeOK'
  <2>1. call[r].query \in Queries
    BY <1>5, CallType DEF ResolveOk, Goto
  <2>2. resolveKey(config, call[r].query) \in Entry
    BY <1>5, <2>1, ResolveType DEF ResolveOk, TypeOK
  <2>3. StoreTypeOK'
    BY <1>5 DEF ResolveOk, storeVars, TypeOK, StoreTypeOK
  <2>4. QED
    BY <1>5, <2>2, <2>3 DEF TypeOK, ResolveOk, Goto, PC
<1>6. ASSUME NEW r \in Requests, CacheHit(r)
      PROVE  TypeOK'
  <2>1. StoreTypeOK'
    BY <1>6 DEF CacheHit, storeVars, TypeOK, StoreTypeOK
  <2>2. call[r].sid \in Sids
    BY <1>6, CallType DEF CacheHit, Goto
  <2>3. CacheKey(entry[r]) \in CacheKeys
    BY <1>6, CacheKeyType DEF CacheHit, Goto, StepInv, TypeOK
  <2>4. GetCachedSecret(call[r].sid, CacheKey(entry[r])) \in Buffers
    BY <1>6, <2>2, <2>3, GetCachedSecretType DEF CacheHit, TypeOK
  <2>5. QED
    BY <1>6, <2>1, <2>4 DEF TypeOK, CacheHit, Goto, PC
<1>7. ASSUME NEW r \in Requests, FetchOk(r)
      PROVE  TypeOK'
  BY <1>7 DEF FetchOk, TypeOK, StoreTypeOK, BufferState, Goto, PC
<1>8. ASSUME NEW r \in Requests, StoreSecret(r)
      PROVE  TypeOK'
  <2>1. call[r].sid \in Sids
    BY <1>8, CallType DEF StoreSecret, Goto
  <2>2. CacheKey(entry[r]) \in CacheKeys
    BY <1>8, CacheKeyType DEF StoreSecret, Goto, StepInv, TypeOK
  <2>3. StoreTypeOK'
    BY <1>8, <2>1, <2>2, CacheSecretType DEF StoreSecret, TypeOK
  <2>4. QED
    BY <1>8, <2>3 DEF TypeOK, StoreSecret, Goto, PC
<1>9. ASSUME SessionStart PROVE TypeOK'
  <2>1. StoreTypeOK'
    BY <1>9, CreateType DEF SessionStart, TypeOK
  <2>2. QED
    BY <1>9, <2>1 DEF SessionStart, serverVars, TypeOK
<1>10. ASSUME SessionEnd PROVE TypeOK'
  <2>1. StoreTypeOK'
    BY <1>10, RemoveType DEF SessionEnd, Delete, TypeOK
  <2>2. QED
    BY <1>10, <2>1 DEF SessionEnd, serverVars, TypeOK
<1>11. ASSUME cleanupExpired PROVE TypeOK'
  <2>1. StoreTypeOK'
    BY <1>11, RemoveType DEF cleanupExpired, Cleanup, TypeOK
  <2>2. QED
    BY <1>11, <2>1 DEF cleanupExpired, serverVars, TypeOK
<1>12. ASSUME SwapConfig PROVE TypeOK'
  BY <1>12 DEF SwapConfig, storeVars, TypeOK, StoreTypeOK
<1>13. ASSUME Clock PROVE TypeOK'
  <2>1. StoreTypeOK'
    BY <1>13, TickType DEF Clock, TypeOK
  <2>2. QED
    BY <1>13, <2>1 DEF Clock, serverVars, TypeOK
<1>14. ASSUME UNCHANGED vars PROVE TypeOK'
  BY <1>14 DEF vars, storeVars, serverVars, TypeOK, StoreTypeOK
<1>15. QED
  BY <1>1, <1>2, <1>3, <1>4, <1>5, <1>6, <1>7, <1>8, <1>9, <1>10, <1>11,
     <1>12, <1>13, <1>14 DEF Next, GetSecret

-----------------------------------------------------------------------------
(* The inductive invariant, one lemma per kind of step.                    *)

LEMMA CachedIsBuffer ==
    ASSUME TypeOK, NEW s \in Present, NEW k \in CacheKeys
    PROVE  sessions[s].secrets[k] \in Requests \cup {NoBuffer}
BY DEF TypeOK, StoreTypeOK, Session, Present, Requests

(* What removing sessions does to the store: wiped buffers are the ones    *)
(* the removed sessions held.                                              *)
LEMMA RemoveFacts ==
    ASSUME TypeOK, NEW S \in SUBSET Present, Remove(S)
    PROVE  /\ Present' = Present \ S
           /\ \A s \in Present \ S : sessions'[s] = sessions[s]
           /\ \A b \in Requests : mem'[b] # mem[b] =>
                 /\ mem'[b] = "wiped"
                 /\ \E s \in S : Holds(s, b)
           /\ issued' = issued /\ now' = now
BY DEF TypeOK, StoreTypeOK, Remove, Present, Requests

(* Removing sessions keeps the invariant when the requests stand still.    *)
LEMMA RemoveStep ==
    ASSUME IInv, NEW S \in SUBSET Present, Remove(S),
           UNCHANGED <<config, call, expiry, entry, reply>>,
           TypeOK',
           \A r \in Requests :
              pc'[r] = pc[r] \/ (pc[r] = "expire" /\ pc'[r] = "done")
    PROVE  IInv'
<1> USE RemoveFacts
<1> USE DEF IInv
<1>1. \A b \in Requests, s \in Present :
         Holds(s, b) => mem[b] = "cached" /\ call[b] # NoCall /\ call[b].sid = s
  BY StoreAssumption DEF CacheCoherent, Holds, Requests
<1>2. \A b \in Requests : mem'[b] # mem[b] =>
         /\ mem'[b] = "wiped" /\ mem[b] = "cached"
         /\ call[b].sid \in S
  BY <1>1
<1>3. StepInv'
  BY <1>2 DEF StepInv, TypeOK
<1>4. TimeInv'
  BY DEF TimeInv
<1>5. IssuedInv'
  BY DEF IssuedInv
<1>6. CacheCoherent'
  <2>1. SUFFICES ASSUME NEW s \in Present \ S, NEW k \in CacheKeys,
                        sessions[s].secrets[k] # NoBuffer
                 PROVE  LET b == sessions[s].secrets[k]
                        IN  /\ mem'[b] = "cached"
                            /\ call[b] # NoCall
                            /\ call[b].sid = s
                            /\ CacheKey(entry[b]) = k
    BY DEF CacheCoherent, CacheKey
  <2>2. sessions[s].secrets[k] \in Requests
    BY <2>1, CachedIsBuffer
  <2>3. QED
    BY <1>2, <2>1, <2>2 DEF CacheCoherent
<1>7. SessionIsolation'
  BY DEF SessionIsolation, CacheKey
<1>8. ExpiredNeverServed'
  BY DEF ExpiredNeverServed
<1>9. WipedOnlyWhenGone'
  BY <1>2 DEF WipedOnlyWhenGone, SessionIsolation, TypeOK
<1>10. QED
  BY <1>3, <1>4, <1>5, <1>6, <1>7, <1>8, <1>9

(* A step that only moves a request on, past the point where its reply or  *)
(* its call is set, keeps the invariant.                                   *)
LEMMA QuietStep ==
    ASSUME IInv, TypeOK', NEW r \in Requests,
           UNCHANGED <<storeVars, call, expiry, entry, reply>>,
           \A q \in Requests \ {r} : pc'[q] = pc[q],
           \/ <<pc[r], pc'[r]>> \in
                 {<<"check", "expire">>, <<"cache", "plugin">>,
                  <<"plugin", "fetch">>, <<"send", "sending">>}
           \/ pc'[r] = "done" /\ pc[r] # "idle"
           \/ pc[r] = "check" /\ pc'[r] = "resolve" /\ now <= expiry[r]
    PROVE  IInv'
<1> USE DEF IInv
<1>1. /\ sessions' = sessions /\ issued' = issued /\ mem' = mem /\ now' = now
      /\ Present' = Present
      /\ call' = call /\ expiry' = expiry /\ entry' = entry /\ reply' = reply
  BY DEF storeVars, Present
<1>2. StepInv'
  BY <1>1 DEF StepInv
<1>3. TimeInv'
  <2>1. ASSUME pc[r] = "check", pc'[r] = "resolve", now <= expiry[r]
        PROVE  call[r].at <= expiry[r]
    <3>1. call[r].at \in Nat /\ call[r].at <= now
      BY <2>1, CallType DEF TimeInv, TypeOK
    <3>2. QED
      BY <2>1, <3>1 DEF TypeOK, StoreTypeOK
  <2>2. QED
    BY <1>1, <2>1 DEF TimeInv
<1>4. IssuedInv'
  BY <1>1 DEF IssuedInv
<1>5. CacheCoherent' /\ SessionIsolation' /\ ExpiredNeverServed' /\ WipedOnlyWhenGone'
  BY <1>1 DEF CacheCoherent, SessionIsolation, ExpiredNeverServed,
              WipedOnlyWhenGone, CacheKey
<1>6. QED
  BY <1>2, <1>3, <1>4, <1>5

LEMMA ReceiveStep ==
    ASSUME IInv, TypeOK', NEW r \in Requests, Receive(r)
    PROVE  IInv'
<1> USE DEF IInv
<1>1. /\ sessions' = sessions /\ issued' = issued /\ mem' = mem /\ now' = now
      /\ Present' = Present
      /\ expiry' = expiry /\ entry' = entry /\ reply' = reply
      /\ pc[r] = "idle" /\ pc'[r] = "get"
      /\ \A q \in Requests \ {r} : pc'[q] = pc[q] /\ call'[q] = call[q]
  BY DEF Receive, Goto, storeVars, Present, TypeOK
<1>2. call'[r].at = now /\ now \in Int
  BY DEF Receive, TypeOK, StoreTypeOK
<1>3. mem[r] = "unused" /\ reply[r] = NoBuffer
  BY <1>1 DEF StepInv
<1>4. \A q \in Requests : reply[q] # r
  BY <1>3, StoreAssumption DEF StepInv, Requests
<1>5. StepInv'
  BY <1>1, <1>3 DEF StepInv
<1>6. TimeInv'
  BY <1>1, <1>2 DEF TimeInv
<1>7. IssuedInv'
  BY <1>1, <1>3 DEF IssuedInv
<1>8. CacheCoherent'
  <2>1. ASSUME NEW s \in Present, NEW k \in CacheKeys,
               sessions[s].secrets[k] # NoBuffer
        PROVE  /\ sessions[s].secrets[k] \in Requests \ {r}
               /\ call[sessions[s].secrets[k]] # NoCall
    BY <1>3, <2>1, CachedIsBuffer DEF CacheCoherent
  <2>2. QED
    BY <1>1, <2>1 DEF CacheCoherent, CacheKey
<1>9. SessionIsolation'
  <2>1. ASSUME NEW q \in Requests, reply[q] # NoBuffer
        PROVE  reply[q] \in Requests \ {r} /\ q # r
    BY <1>3, <1>4, <2>1 DEF TypeOK
  <2>2. QED
    BY <1>1, <2>1 DEF SessionIsolation, CacheKey
<1>10. ExpiredNeverServed' /\ WipedOnlyWhenGone'
  BY <1>1, <1>3 DEF ExpiredNeverServed, WipedOnlyWhenGone
<1>11. QED
  BY <1>5, <1>6, <1>7, <1>8, <1>9, <1>10

LEMMA LookupFoundStep ==
    ASSUME IInv, TypeOK', NEW r \in Requests, LookupFound(r)
    PROVE  IInv'
<1> USE DEF IInv
<1>1. /\ sessions' = sessions /\ issued' = issued /\ mem' = mem /\ now' = now
      /\ Present' = Present
      /\ call' = call /\ entry' = entry /\ reply' = reply
      /\ pc[r] = "get" /\ pc'[r] = "check"
      /\ \A q \in Requests \ {r} : pc'[q] = pc[q] /\ expiry'[q] = expiry[q]
      /\ call[r].sid \in issued
  BY DEF LookupFound, Goto, storeVars, Present, TypeOK, IssuedInv
<1>2. reply[r] = NoBuffer
  BY <1>1 DEF StepInv
<1>3. StepInv'
  BY <1>1 DEF StepInv
<1>4. TimeInv' /\ IssuedInv'
  BY <1>1 DEF TimeInv, IssuedInv
<1>5. CacheCoherent' /\ SessionIsolation' /\ WipedOnlyWhenGone'
  BY <1>1 DEF CacheCoherent, SessionIsolation, WipedOnlyWhenGone, CacheKey
<1>6. ExpiredNeverServed'
  BY <1>1, <1>2 DEF ExpiredNeverServed
<1>7. QED
  BY <1>3, <1>4, <1>5, <1>6

LEMMA ResolveOkStep ==
    ASSUME IInv, TypeOK', NEW r \in Requests, ResolveOk(r)
    PROVE  IInv'
<1> USE DEF IInv
<1>1. /\ sessions' = sessions /\ issued' = issued /\ mem' = mem /\ now' = now
      /\ Present' = Present
      /\ call' = call /\ expiry' = expiry /\ reply' = reply
      /\ pc[r] = "resolve" /\ pc'[r] = "cache"
      /\ \A q \in Requests \ {r} : pc'[q] = pc[q] /\ entry'[q] = entry[q]
      /\ entry'[r] # Unresolved
  BY DEF ResolveOk, Goto, storeVars, Present, TypeOK
<1>2. \E c \in Configs, q \in Queries : entry'[r] = resolveKey(c, q)
  BY <1>1, CallType DEF ResolveOk, TypeOK
<1>3. mem[r] = "unused" /\ reply[r] = NoBuffer
  BY <1>1 DEF StepInv
<1>4. \A q \in Requests : reply[q] # r
  BY <1>3, StoreAssumption DEF StepInv, Requests
<1>5. StepInv'
  <2>1. ASSUME NEW q \in Requests, entry'[q] # Unresolved
        PROVE  \E c \in Configs, p \in Queries : entry'[q] = resolveKey(c, p)
    BY <1>1, <1>2, <2>1 DEF StepInv
  <2>2. QED
    BY <1>1, <1>3, <2>1 DEF StepInv
<1>6. TimeInv' /\ IssuedInv'
  BY <1>1 DEF TimeInv, IssuedInv
<1>7. CacheCoherent'
  <2>1. ASSUME NEW s \in Present, NEW k \in CacheKeys,
               sessions[s].secrets[k] # NoBuffer
        PROVE  sessions[s].secrets[k] \in Requests \ {r}
    BY <1>3, <2>1, CachedIsBuffer DEF CacheCoherent
  <2>2. QED
    BY <1>1, <2>1 DEF CacheCoherent, CacheKey
<1>8. SessionIsolation'
  <2>1. ASSUME NEW q \in Requests, reply[q] # NoBuffer
        PROVE  reply[q] \in Requests \ {r} /\ q # r
    BY <1>3, <1>4, <2>1 DEF TypeOK
  <2>2. QED
    BY <1>1, <2>1 DEF SessionIsolation, CacheKey
<1>9. ExpiredNeverServed' /\ WipedOnlyWhenGone'
  BY <1>1 DEF ExpiredNeverServed, WipedOnlyWhenGone
<1>10. QED
  BY <1>5, <1>6, <1>7, <1>8, <1>9

LEMMA CacheHitStep ==
    ASSUME IInv, TypeOK', NEW r \in Requests, CacheHit(r)
    PROVE  IInv'
<1> USE DEF IInv
<1> DEFINE s == call[r].sid
           k == CacheKey(entry[r])
           b == GetCachedSecret(s, k)
<1>1. /\ sessions' = sessions /\ issued' = issued /\ mem' = mem /\ now' = now
      /\ Present' = Present
      /\ call' = call /\ expiry' = expiry /\ entry' = entry
      /\ pc[r] = "cache" /\ pc'[r] = "send"
      /\ \A q \in Requests \ {r} : pc'[q] = pc[q] /\ reply'[q] = reply[q]
      /\ reply'[r] = b /\ b # NoBuffer
  BY DEF CacheHit, Goto, storeVars, Present, TypeOK
<1>2. entry[r] # Unresolved /\ entry[r] \in Entry
  BY <1>1 DEF StepInv, TypeOK
<1>3. s \in Sids /\ k \in CacheKeys
  BY <1>1, <1>2, CallType, CacheKeyType
<1>4. s \in Present /\ b = sessions[s].secrets[k] /\ b \in Requests
  BY <1>1, <1>3, GetCachedSecretType DEF TypeOK, Requests
<1>5. mem[b] = "cached" /\ call[b].sid = s /\ CacheKey(entry[b]) = k
  BY <1>1, <1>3, <1>4 DEF CacheCoherent
<1> HIDE DEF s, k, b
<1>6. StepInv'
  BY <1>1, <1>2, <1>5 DEF StepInv
<1>7. TimeInv' /\ IssuedInv'
  BY <1>1 DEF TimeInv, IssuedInv, s
<1>8. CacheCoherent'
  BY <1>1 DEF CacheCoherent, CacheKey
<1>9. SessionIsolation'
  BY <1>1, <1>5 DEF SessionIsolation, CacheKey, s, k
<1>10. ExpiredNeverServed'
  BY <1>1 DEF ExpiredNeverServed, TimeInv
<1>11. WipedOnlyWhenGone'
  BY <1>1, <1>5 DEF WipedOnlyWhenGone
<1>12. QED
  BY <1>6, <1>7, <1>8, <1>9, <1>10, <1>11

LEMMA FetchOkStep ==
    ASSUME IInv, TypeOK', NEW r \in Requests, FetchOk(r)
    PROVE  IInv'
<1> USE DEF IInv
<1>1. /\ sessions' = sessions /\ issued' = issued /\ now' = now
      /\ Present' = Present
      /\ call' = call /\ expiry' = expiry /\ entry' = entry /\ reply' = reply
      /\ pc[r] = "fetch" /\ pc'[r] = "store" /\ mem'[r] = "filled"
      /\ \A q \in Requests \ {r} : pc'[q] = pc[q] /\ mem'[q] = mem[q]
  BY DEF FetchOk, Goto, Present, TypeOK, StoreTypeOK, Requests
<1>2. mem[r] = "unused" /\ entry[r] # Unresolved
  BY <1>1 DEF StepInv
<1>3. StepInv'
  <2>1. ASSUME NEW q \in Requests, reply[q] # NoBuffer
        PROVE  mem'[reply[q]] # "unused"
    BY <1>1, <2>1 DEF StepInv, TypeOK
  <2>2. QED
    BY <1>1, <1>2, <2>1 DEF StepInv
<1>4. TimeInv' /\ IssuedInv'
  BY <1>1 DEF TimeInv, IssuedInv
<1>5. CacheCoherent'
  <2>1. ASSUME NEW s \in Present, NEW k \in CacheKeys,
               sessions[s].secrets[k] # NoBuffer
        PROVE  sessions[s].secrets[k] \in Requests \ {r}
    BY <1>2, <2>1, CachedIsBuffer DEF CacheCoherent
  <2>2. QED
    BY <1>1, <2>1 DEF CacheCoherent, CacheKey
<1>6. SessionIsolation' /\ ExpiredNeverServed'
  BY <1>1 DEF SessionIsolation, ExpiredNeverServed, CacheKey
<1>7. WipedOnlyWhenGone'
  BY <1>1 DEF WipedOnlyWhenGone, TypeOK
<1>8. QED
  BY <1>3, <1>4, <1>5, <1>6, <1>7

LEMMA StoreSecretStep ==
    ASSUME IInv, TypeOK', NEW r \in Requests, StoreSecret(r)
    PROVE  IInv'
<1> USE DEF IInv
<1> DEFINE s == call[r].sid
           k == CacheKey(entry[r])
<1>1. /\ issued' = issued /\ now' = now
      /\ call' = call /\ expiry' = expiry /\ entry' = entry
      /\ pc[r] = "store" /\ pc'[r] = "send" /\ reply'[r] = r
      /\ \A q \in Requests \ {r} : pc'[q] = pc[q] /\ reply'[q] = reply[q]
      /\ CacheSecret(s, k, r)
  BY DEF StoreSecret, CacheSecret, Goto, TypeOK
<1>2. entry[r] # Unresolved /\ entry[r] \in Entry
  BY <1>1 DEF StepInv, TypeOK
<1>3. s \in Sids /\ k \in CacheKeys /\ call[r] # NoCall
  BY <1>1, <1>2, CallType, CacheKeyType DEF TypeOK
<1>4. /\ Present' = Present
      /\ \A t \in Present \ {s} : sessions'[t] = sessions[t]
      /\ \A q \in Requests \ {r} : mem'[q] = mem[q]
      /\ s \in Present => /\ mem'[r] = "cached"
                          /\ \A key \in CacheKeys \ {k} :
                                sessions'[s].secrets[key] = sessions[s].secrets[key]
                          /\ sessions'[s].secrets[k] = r
      /\ s \notin Present => mem'[r] = mem[r] /\ sessions' = sessions
  <2>1. CASE s \in Present
    <3>1. sessions[s] \in Session /\ sessions[s] # NoSession
      BY <2>1 DEF Present, TypeOK, StoreTypeOK
    <3>2. [sessions[s] EXCEPT !.secrets[k] = r] \in Session
      BY <1>3, <3>1 DEF Session, Requests
    <3>3. /\ sessions' = [sessions EXCEPT ![s] = [sessions[s] EXCEPT !.secrets[k] = r]]
          /\ mem' = [mem EXCEPT ![r] = "cached"]
      BY <1>1, <2>1 DEF CacheSecret
    <3>4. sessions'[s] # NoSession
      BY <1>3, <3>2, <3>3, StoreAssumption DEF TypeOK, StoreTypeOK
    <3>5. Present' = Present
      BY <1>3, <3>1, <3>3, <3>4 DEF Present, TypeOK, StoreTypeOK
    <3>6. QED
      BY <1>3, <2>1, <3>1, <3>3, <3>5
         DEF Present, TypeOK, StoreTypeOK, Session, Requests
  <2>2. CASE s \notin Present
    BY <1>1, <2>2 DEF CacheSecret, Present
  <2>3. QED
    BY <2>1, <2>2
<1>5. call[r].sid = s /\ CacheKey(entry[r]) = k
  OBVIOUS
<1> HIDE DEF s, k
<1>6. mem'[r] = mem[r] \/ mem'[r] = "cached"
  BY <1>4
<1>7. StepInv'
  <2>1. mem'[r] # "unused"
    BY <1>1, <1>6 DEF StepInv
  <2>2. QED
    BY <1>1, <1>2, <1>4, <2>1 DEF StepInv, TypeOK
<1>8. TimeInv' /\ IssuedInv'
  BY <1>1, <1>4 DEF TimeInv, IssuedInv
<1>9. CacheCoherent'
  BY <1>1, <1>3, <1>4, <1>5, CachedIsBuffer DEF CacheCoherent, CacheKey
<1>10. SessionIsolation' /\ ExpiredNeverServed'
  BY <1>1 DEF SessionIsolation, ExpiredNeverServed, TimeInv, CacheKey
<1>11. WipedOnlyWhenGone'
  BY <1>1, <1>4, <1>5 DEF WipedOnlyWhenGone, TypeOK
<1>12. QED
  BY <1>7, <1>8, <1>9, <1>10, <1>11

LEMMA CreateStep ==
    ASSUME IInv, TypeOK', NEW s \in Sids, NEW ttl \in TTLs,
           NEW allowed \in Allowlists, Create(s, ttl, allowed),
           UNCHANGED serverVars
    PROVE  IInv'
<1> USE DEF IInv
<1>1. /\ now' = now /\ mem' = mem
      /\ pc' = pc /\ call' = call /\ expiry' = expiry
      /\ entry' = entry /\ reply' = reply
      /\ s \notin issued /\ issued' = issued \cup {s}
      /\ \A t \in Sids \ {s} : sessions'[t] = sessions[t]
  BY DEF Create, serverVars, TypeOK, StoreTypeOK
<1>2. s \notin Present
  BY <1>1 DEF IssuedInv
<1>3. Present' \subseteq Present \cup {s} /\ Present \subseteq Present'
  BY <1>1, <1>2 DEF Present
<1>4. \A k \in CacheKeys : sessions'[s].secrets[k] = NoBuffer
  BY DEF Create, TypeOK, StoreTypeOK
<1>5. StepInv' /\ TimeInv' /\ ExpiredNeverServed'
  BY <1>1 DEF StepInv, TimeInv, ExpiredNeverServed
<1>6. IssuedInv'
  BY <1>1, <1>3 DEF IssuedInv
<1>7. CacheCoherent'
  BY <1>1, <1>3, <1>4 DEF CacheCoherent, CacheKey, Present
<1>8. SessionIsolation'
  BY <1>1 DEF SessionIsolation, CacheKey
<1>9. WipedOnlyWhenGone'
  BY <1>1, <1>3 DEF WipedOnlyWhenGone, IssuedInv
<1>10. QED
  BY <1>5, <1>6, <1>7, <1>8, <1>9

LEMMA ClockStep ==
    ASSUME IInv, TypeOK', Clock
    PROVE  IInv'
<1> USE DEF IInv
<1>1. /\ sessions' = sessions /\ issued' = issued /\ mem' = mem /\ now' = now + 1
      /\ Present' = Present
      /\ pc' = pc /\ call' = call /\ expiry' = expiry
      /\ entry' = entry /\ reply' = reply
  BY DEF Clock, Tick, serverVars, Present
<1>2. TimeInv'
  <2>1. ASSUME NEW r \in Requests, call[r] # NoCall
        PROVE  call[r].at <= now + 1
    <3>1. call[r].at \in Nat /\ now \in Int /\ call[r].at <= now
      BY <2>1, CallType DEF TimeInv, TypeOK, StoreTypeOK
    <3>2. QED
      BY <3>1
  <2>2. QED
    BY <1>1, <2>1 DEF TimeInv
<1>3. StepInv' /\ IssuedInv' /\ CacheCoherent' /\ SessionIsolation'
      /\ ExpiredNeverServed' /\ WipedOnlyWhenGone'
  BY <1>1 DEF StepInv, IssuedInv, CacheCoherent, SessionIsolation,
              ExpiredNeverServed, WipedOnlyWhenGone, CacheKey
<1>4. QED
  BY <1>2, <1>3

(* Steps that leave the store and the requests alone.                      *)
LEMMA StillStep ==
    ASSUME IInv, TypeOK',
           UNCHANGED <<storeVars, pc, call, expiry, entry, reply>>
    PROVE  IInv'
<1>1. /\ sessions' = sessions /\ issued' = issued /\ mem' = mem /\ now' = now
      /\ Present' = Present
      /\ pc' = pc /\ call' = call /\ expiry' = expiry
      /\ entry' = entry /\ reply' = reply
  BY DEF storeVars, Present
<1>2. StepInv' /\ TimeInv' /\ IssuedInv' /\ CacheCoherent' /\ SessionIsolation'
      /\ ExpiredNeverServed' /\ WipedOnlyWhenGone'
  BY <1>1 DEF IInv, StepInv, TimeInv, IssuedInv, CacheCoherent, SessionIsolation,
              ExpiredNeverServed, WipedOnlyWhenGone, CacheKey
<1>3. QED
  BY <1>2 DEF IInv

LEMMA IInvStep == IInv /\ [Next]_vars => IInv'
<1> SUFFICES ASSUME IInv, [Next]_vars
             PROVE  IInv'
  OBVIOUS
<1>1. TypeOK /\ TypeOK'
  BY TypeStep DEF IInv
<1>2. ASSUME NEW r \in Requests,
             \/ LookupMissing(r) \/ ResolveError(r) \/ CacheMiss(r)
             \/ PluginFound(r) \/ PluginMissing(r) \/ FetchError(r)
             \/ SendFirst(r) \/ SendRest(r)
      PROVE  IInv'
  BY <1>1, <1>2, QuietStep
     DEF LookupMissing, ResolveError, CacheMiss, PluginFound, PluginMissing,
         FetchError, SendFirst, SendRest, Goto, Fail, TypeOK
<1>3. ASSUME NEW r \in Requests, CheckExpiry(r)
      PROVE  IInv'
  <2>1. now > expiry[r] \/ now <= expiry[r]
    BY <1>1 DEF TypeOK, StoreTypeOK
  <2>2. QED
    BY <1>1, <1>3, <2>1, QuietStep DEF CheckExpiry, Goto, TypeOK
<1>4. ASSUME NEW r \in Requests, ExpireSession(r)
      PROVE  IInv'
  <2>1. Remove({call[r].sid} \cap Present)
    BY <1>4 DEF ExpireSession, DeleteExpired
  <2>2. QED
    BY <1>1, <1>4, <2>1, RemoveStep DEF ExpireSession, Goto, Fail, TypeOK
<1>5. ASSUME SessionStart PROVE IInv'
  BY <1>1, <1>5, CreateStep DEF SessionStart
<1>6. ASSUME SessionEnd PROVE IInv'
  <2>1. PICK s \in Present : Remove({s})
    BY <1>6 DEF SessionEnd, Delete, Present
  <2>2. QED
    BY <1>1, <1>6, <2>1, RemoveStep DEF SessionEnd, serverVars
<1>7. ASSUME cleanupExpired PROVE IInv'
  BY <1>1, <1>7, RemoveStep DEF cleanupExpired, Cleanup, serverVars
<1>8. ASSUME SwapConfig PROVE IInv'
  BY <1>1, <1>8, StillStep DEF SwapConfig
<1>9. ASSUME UNCHANGED vars PROVE IInv'
  BY <1>1, <1>9, StillStep DEF vars, serverVars
<1>10. QED
  BY <1>1, <1>2, <1>3, <1>4, <1>5, <1>6, <1>7, <1>8, <1>9, ReceiveStep,
     LookupFoundStep, ResolveOkStep, CacheHitStep, FetchOkStep,
     StoreSecretStep, ClockStep
     DEF Next, GetSecret

LEMMA IInvInit == Init => IInv
<1> SUFFICES ASSUME Init PROVE IInv
  OBVIOUS
<1>1. TypeOK
  BY StoreAssumption, ServerAssumption
     DEF Init, StoreInit, TypeOK, StoreTypeOK, BufferState, PC, Outcome, Requests
<1>2. Present = {}
  BY DEF Init, StoreInit, Present
<1>3. StepInv /\ TimeInv /\ IssuedInv
  BY <1>2 DEF Init, StoreInit, StepInv, TimeInv, IssuedInv, Requests
<1>4. CacheCoherent /\ SessionIsolation /\ ExpiredNeverServed /\ WipedOnlyWhenGone
  BY <1>2 DEF Init, CacheCoherent, SessionIsolation, ExpiredNeverServed,
              WipedOnlyWhenGone
<1>5. QED
  BY <1>1, <1>3, <1>4 DEF IInv

LEMMA Inductive == Spec => []IInv
BY IInvInit, IInvStep, PTL DEF Spec

-----------------------------------------------------------------------------
(* Every variable keeps its type in every behavior (session.go, server.go).*)
THEOREM TypeCorrect == Spec => []TypeOK
<1>1. IInv => TypeOK
  BY DEF IInv
<1>2. QED
  BY <1>1, Inductive, PTL

(* No interleaving of fetches, session ends, cleanups and expired lookups  *)
(* leaves a wiped slice, or another session's or key's slice, in a cache.  *)
THEOREM CacheIsCoherent == Spec => []CacheCoherent
<1>1. IInv => CacheCoherent
  BY DEF IInv
<1>2. QED
  BY <1>1, Inductive, PTL

(* A secret goes only to requests that present the session ID under which  *)
(* it was fetched.                                                         *)
THEOREM SessionsAreIsolated == Spec => []SessionIsolation
<1>1. IInv => SessionIsolation
  BY DEF IInv
<1>2. QED
  BY <1>1, Inductive, PTL

(* A request that arrives after its session's expiry time gets no secret.  *)
THEOREM ExpiredGetNothing == Spec => []ExpiredNeverServed
<1>1. IInv => ExpiredNeverServed
  BY DEF IInv
<1>2. QED
  BY <1>1, Inductive, PTL

(* A response holds a wiped slice only when its own session is gone.       *)
THEOREM OnlyOwnEndDamages == Spec => []WipedOnlyWhenGone
<1>1. IInv => WipedOnlyWhenGone
  BY DEF IInv
<1>2. QED
  BY <1>1, Inductive, PTL

(* Across any reloads of the configuration the cache answers with the      *)
(* secret of the vault type and path asked for, and mixes up stores only   *)
(* where the session itself fetched that path from another one: the cache  *)
(* key leaves the store out (server.go:132).                               *)
THEOREM RightSecretServed == Spec => []RightSecret
<1>1. IInv => RightSecret
  <2> SUFFICES ASSUME IInv, NEW r \in Requests, reply[r] # NoBuffer
               PROVE  /\ entry[reply[r]].type = entry[r].type
                      /\ entry[reply[r]].path = entry[r].path
                      /\ entry[reply[r]].opts = entry[r].opts \/ FetchedOtherwise(r)
    BY DEF RightSecret
  <2>1. reply[r] \in Requests
    BY DEF IInv, TypeOK
  <2>2. /\ call[reply[r]].sid = call[r].sid
        /\ CacheKey(entry[reply[r]]) = CacheKey(entry[r])
    BY DEF IInv, SessionIsolation
  <2>3. mem[reply[r]] # "unused"
    BY DEF IInv, StepInv
  <2>4. /\ entry[reply[r]].type = entry[r].type
        /\ entry[reply[r]].path = entry[r].path
    BY <2>2 DEF CacheKey
  <2>5. CASE entry[reply[r]].opts = entry[r].opts
    BY <2>4, <2>5
  <2>6. CASE entry[reply[r]].opts # entry[r].opts
    BY <2>1, <2>2, <2>3, <2>4, <2>6 DEF FetchedOtherwise
  <2>7. QED
    BY <2>5, <2>6
<1>2. QED
  BY <1>1, Inductive, PTL

LEMMA StaysRemoved ==
    ASSUME IInv, [Next]_vars, NEW s \in issued, s \notin Present
    PROVE  s \notin Present'
<1> SUFFICES ASSUME s \in Present'
             PROVE  FALSE
  OBVIOUS
<1> s \in Sids /\ sessions[s] = NoSession /\ sessions'[s] # NoSession
  BY DEF IInv, TypeOK, StoreTypeOK, Present
<1>1. ASSUME NEW r \in Requests, GetSecret(r)
      PROVE  FALSE
  <2>1. CASE StoreSecret(r)
    BY <2>1 DEF StoreSecret, CacheSecret, Present, IInv, TypeOK, StoreTypeOK
  <2>2. CASE ExpireSession(r)
    BY <2>2 DEF ExpireSession, DeleteExpired, Remove
  <2>3. CASE ~StoreSecret(r) /\ ~ExpireSession(r)
    BY <1>1, <2>3
       DEF GetSecret, LookupFound, LookupMissing, CheckExpiry, ResolveOk,
           ResolveError, CacheHit, CacheMiss, PluginFound, PluginMissing,
           FetchOk, FetchError, SendFirst, SendRest, storeVars
  <2>4. QED
    BY <2>1, <2>2, <2>3
<1>2. ASSUME NEW r \in Requests, Receive(r)
      PROVE  FALSE
  BY <1>2 DEF Receive, storeVars
<1>3. CASE SessionStart
  BY <1>3 DEF SessionStart, Create, IInv, TypeOK, StoreTypeOK
<1>4. CASE SessionEnd \/ cleanupExpired
  BY <1>4 DEF SessionEnd, Delete, cleanupExpired, Cleanup, Remove
<1>5. CASE SwapConfig \/ Clock \/ UNCHANGED vars
  BY <1>5 DEF SwapConfig, Clock, Tick, vars, storeVars
<1>6. QED
  BY <1>1, <1>2, <1>3, <1>4, <1>5 DEF Next

(* The ID of a session that ended never becomes valid again: neither a     *)
(* CacheSecret that comes late nor a new session brings it back.           *)
THEOREM NoneResurrected == Spec => NoResurrection
<1>1. IInv /\ [Next]_vars =>
         [\A s \in issued : s \notin Present => s \notin Present']_vars
  BY StaysRemoved
<1>2. QED
  BY <1>1, Inductive, PTL DEF Spec, NoResurrection

-----------------------------------------------------------------------------
(* No slice escapes wiping but those that are fetched again.               *)

LEMMA WipedFrame ==
    ASSUME WipedOrReplaced,
           \A r \in Requests : mem'[r] = "cached" => mem[r] = "cached",
           \A r \in Requests :
              mem[r] # "unused" => /\ mem'[r] # "unused"
                                   /\ call'[r] = call[r]
                                   /\ entry'[r] = entry[r],
           \A r \in Requests : mem'[r] = "cached" /\ InCache(r) => InCache(r)'
    PROVE  WipedOrReplaced'
<1> SUFFICES ASSUME NEW r \in Requests, mem'[r] = "cached"
             PROVE  InCache(r)' \/ FetchedAgain(r)'
  BY DEF WipedOrReplaced
<1>1. mem[r] = "cached" /\ call'[r] = call[r] /\ entry'[r] = entry[r]
  OBVIOUS
<1>2. CASE InCache(r)
  BY <1>2
<1>3. CASE FetchedAgain(r)
  <2>1. PICK other \in Requests \ {r} :
           /\ mem[other] # "unused"
           /\ call[other].sid = call[r].sid
           /\ CacheKey(entry[other]) = CacheKey(entry[r])
    BY <1>3 DEF FetchedAgain
  <2>2. /\ mem'[other] # "unused"
        /\ call'[other].sid = call'[r].sid
        /\ CacheKey(entry'[other]) = CacheKey(entry'[r])
    BY <1>1, <2>1 DEF CacheKey
  <2>3. QED
    BY <2>2 DEF FetchedAgain, CacheKey
<1>4. QED
  BY <1>1, <1>2, <1>3 DEF WipedOrReplaced

LEMMA WipedRemove ==
    ASSUME IInv, WipedOrReplaced, NEW S \in SUBSET Sids, Remove(S),
           call' = call, entry' = entry
    PROVE  WipedOrReplaced'
<1> USE DEF IInv
<1>1. \A r \in Requests :
         mem'[r] = IF \E s \in S : Holds(s, r) THEN "wiped" ELSE mem[r]
  BY DEF Remove, Requests
<1>2. ASSUME NEW r \in Requests, mem'[r] = "cached", InCache(r)
      PROVE  InCache(r)'
  <2>1. mem[r] = "cached" /\ ~ \E s \in S : Holds(s, r)
    BY <1>1, <1>2
  <2>2. CacheKey(entry[r]) \in CacheKeys
    BY <2>1, CacheKeyType DEF StepInv, TypeOK
  <2>3. call[r].sid \notin S /\ call[r].sid \in Sids
    BY <1>2, <2>1, <2>2 DEF InCache, Holds, Present
  <2>4. sessions'[call[r].sid] = sessions[call[r].sid]
    BY <2>3 DEF Remove
  <2>5. QED
    BY <1>2, <2>3, <2>4 DEF InCache, Present, CacheKey
<1>3. QED
  BY <1>1, <1>2, WipedFrame

LEMMA WipedStore ==
    ASSUME IInv, WipedOrReplaced, NEW r \in Requests, StoreSecret(r)
    PROVE  WipedOrReplaced'
<1> USE DEF IInv
<1> DEFINE s == call[r].sid
           k == CacheKey(entry[r])
<1>1. /\ call' = call /\ entry' = entry /\ pc[r] = "store"
      /\ CacheSecret(s, k, r)
  BY DEF StoreSecret, Goto
<1>2. entry[r] # Unresolved /\ entry[r] \in Entry /\ mem[r] # "unused"
  BY <1>1 DEF StepInv, TypeOK
<1>3. s \in Sids /\ k \in CacheKeys
  BY <1>1, <1>2, CallType, CacheKeyType DEF TypeOK
<1>4. CASE s \notin Present
  <2>1. sessions' = sessions /\ mem' = mem
    BY <1>1, <1>4 DEF CacheSecret
  <2>2. QED
    BY <1>1, <2>1, WipedFrame DEF InCache, Present, CacheKey
<1>5. CASE s \in Present
  <2>1. /\ Present' = Present
        /\ \A t \in Present \ {s} : sessions'[t] = sessions[t]
        /\ \A key \in CacheKeys \ {k} :
              sessions'[s].secrets[key] = sessions[s].secrets[key]
        /\ sessions'[s].secrets[k] = r
        /\ mem'[r] = "cached"
        /\ \A q \in Requests \ {r} : mem'[q] = mem[q]
    <3>1. sessions[s] \in Session /\ sessions[s] # NoSession
      BY <1>5 DEF Present, TypeOK, StoreTypeOK
    <3>2. [sessions[s] EXCEPT !.secrets[k] = r] \in Session
      BY <1>3, <3>1 DEF Session, Requests
    <3>3. /\ sessions' = [sessions EXCEPT ![s] = [sessions[s] EXCEPT !.secrets[k] = r]]
          /\ mem' = [mem EXCEPT ![r] = "cached"]
      BY <1>1, <1>5 DEF CacheSecret
    <3>4. sessions'[s] # NoSession
      BY <1>3, <3>2, <3>3, StoreAssumption DEF TypeOK, StoreTypeOK
    <3>5. Present' = Present
      BY <1>3, <3>1, <3>3, <3>4 DEF Present, TypeOK, StoreTypeOK
    <3>6. QED
      BY <1>3, <1>5, <3>1, <3>3, <3>5
         DEF Present, TypeOK, StoreTypeOK, Session, Requests
  <2> SUFFICES ASSUME NEW q \in Requests, mem'[q] = "cached"
               PROVE  InCache(q)' \/ FetchedAgain(q)'
    BY DEF WipedOrReplaced
  <2>2. CASE q = r
    BY <1>1, <1>5, <2>1, <2>2 DEF InCache, CacheKey
  <2>3. CASE q # r /\ call[q].sid = s /\ CacheKey(entry[q]) = k
    BY <1>1, <2>1, <2>3 DEF FetchedAgain, CacheKey
  <2>4. CASE q # r /\ ~(call[q].sid = s /\ CacheKey(entry[q]) = k)
    <3>1. mem[q] = "cached"
      BY <2>1, <2>4
    <3>2. CacheKey(entry[q]) \in CacheKeys
      BY <3>1, CacheKeyType DEF StepInv, TypeOK
    <3>3. CASE InCache(q)
      BY <1>1, <2>1, <2>4, <3>2, <3>3 DEF InCache, CacheKey
    <3>4. CASE FetchedAgain(q)
      BY <1>1, <2>1, <3>4 DEF FetchedAgain, CacheKey
    <3>5. QED
      BY <3>1, <3>3, <3>4 DEF WipedOrReplaced
  <2>5. QED
    BY <2>2, <2>3, <2>4
<1>6. QED
  BY <1>4, <1>5

LEMMA WipedStep == IInv /\ WipedOrReplaced /\ [Next]_vars => WipedOrReplaced'
<1> SUFFICES ASSUME IInv, WipedOrReplaced, [Next]_vars
             PROVE  WipedOrReplaced'
  OBVIOUS
<1> USE DEF IInv
<1>1. ASSUME UNCHANGED <<sessions, mem, call, entry>>
      PROVE  WipedOrReplaced'
  BY <1>1, WipedFrame DEF InCache, Present, CacheKey
<1>2. ASSUME NEW r \in Requests, Receive(r)
      PROVE  WipedOrReplaced'
  <2>1. mem[r] = "unused"
    BY <1>2 DEF Receive, Goto, StepInv
  <2>2. /\ sessions' = sessions /\ mem' = mem /\ entry' = entry
        /\ \A q \in Requests \ {r} : call'[q] = call[q]
    BY <1>2 DEF Receive, storeVars, TypeOK
  <2>3. QED
    BY <2>1, <2>2, WipedFrame DEF InCache, Present, CacheKey
<1>3. ASSUME NEW r \in Requests, GetSecret(r)
      PROVE  WipedOrReplaced'
  <2>1. CASE ResolveOk(r)
    <3>1. mem[r] = "unused"
      BY <2>1 DEF ResolveOk, Goto, StepInv
    <3>2. /\ sessions' = sessions /\ mem' = mem /\ call' = call
          /\ \A q \in Requests \ {r} : entry'[q] = entry[q]
      BY <2>1 DEF ResolveOk, storeVars, TypeOK
    <3>3. QED
      BY <3>1, <3>2, WipedFrame DEF InCache, Present, CacheKey
  <2>2. CASE FetchOk(r)
    <3>1. mem[r] = "unused"
      BY <2>2 DEF FetchOk, Goto, StepInv
    <3>2. /\ sessions' = sessions /\ entry' = entry /\ call' = call
          /\ mem'[r] = "filled"
          /\ \A q \in Requests \ {r} : mem'[q] = mem[q]
      BY <2>2 DEF FetchOk, TypeOK, StoreTypeOK, Requests
    <3>3. QED
      BY <3>1, <3>2, WipedFrame DEF InCache, Present, CacheKey
  <2>3. CASE ExpireSession(r)
    <3>1. Remove({call[r].sid} \cap Present) /\ call' = call /\ entry' = entry
      BY <2>3 DEF ExpireSession, DeleteExpired
    <3>2. QED
      BY <3>1, WipedRemove DEF Present
  <2>4. CASE StoreSecret(r)
    BY <2>4, WipedStore
  <2>5. CASE ~(ResolveOk(r) \/ FetchOk(r) \/ ExpireSession(r) \/ StoreSecret(r))
    BY <1>1, <1>3, <2>5
       DEF GetSecret, LookupFound, LookupMissing, CheckExpiry, ResolveError,
           CacheHit, CacheMiss, PluginFound, PluginMissing, FetchError,
           SendFirst, SendRest, storeVars
  <2>6. QED
    BY <2>1, <2>2, <2>3, <2>4, <2>5
<1>4. ASSUME SessionStart PROVE WipedOrReplaced'
  <2>1. /\ mem' = mem /\ call' = call /\ entry' = entry
        /\ \A t \in Present : sessions'[t] = sessions[t]
    BY <1>4 DEF SessionStart, Create, serverVars, IssuedInv, TypeOK, StoreTypeOK,
                Present
  <2>2. QED
    BY <2>1, WipedFrame DEF InCache, Present, CacheKey
<1>5. ASSUME SessionEnd PROVE WipedOrReplaced'
  <2>1. PICK s \in Sids : Remove({s})
    BY <1>5 DEF SessionEnd, Delete
  <2>2. QED
    BY <1>5, <2>1, WipedRemove DEF SessionEnd, serverVars
<1>6. ASSUME cleanupExpired PROVE WipedOrReplaced'
  BY <1>6, WipedRemove DEF cleanupExpired, Cleanup, serverVars, Present
<1>7. CASE SwapConfig \/ Clock \/ UNCHANGED vars
  BY <1>1, <1>7 DEF SwapConfig, Clock, Tick, vars, storeVars, serverVars
<1>8. QED
  BY <1>2, <1>3, <1>4, <1>5, <1>6, <1>7 DEF Next

(* Whatever way a session ends, its cached secrets are wiped, but for a    *)
(* slice that concurrent requests replaced in the cache.                   *)
THEOREM SessionEndWipes == Spec => []WipedOrReplaced
<1>1. Init => WipedOrReplaced
  BY DEF Init, StoreInit, WipedOrReplaced, Requests
<1>2. QED
  BY <1>1, WipedStep, Inductive, PTL DEF Spec

-----------------------------------------------------------------------------
(* SecretServer implements SecretService: each step of a handler, of the   *)
(* cleanup loop or of a reload is one step of the abstract service or      *)
(* none.                                                                   *)

(* An outcome is known only once the handler has returned, and a request   *)
(* whose response is being sent has not failed.                            *)
OutcomeInv ==
    \A r \in Requests :
        outcome[r] # "none" => /\ pc[r] \in {"sending", "done"}
                               /\ pc[r] = "sending" => outcome[r] # "error"

LEMMA OutcomeStep == IInv /\ OutcomeInv /\ [Next]_vars => OutcomeInv'
<1> SUFFICES ASSUME IInv, OutcomeInv, [Next]_vars
             PROVE  OutcomeInv'
  OBVIOUS
<1> TypeOK
  BY DEF IInv
<1>1. ASSUME NEW r \in Requests, SendFirst(r) \/ SendRest(r)
      PROVE  OutcomeInv'
  BY <1>1 DEF OutcomeInv, SendFirst, SendRest, Goto, TypeOK
<1>2. ASSUME NEW r \in Requests, Receive(r)
      PROVE  OutcomeInv'
  BY <1>2 DEF OutcomeInv, Receive, Goto, TypeOK
<1>3. ASSUME NEW r \in Requests, GetSecret(r), ~SendFirst(r), ~SendRest(r)
      PROVE  OutcomeInv'
  BY <1>3
     DEF OutcomeInv, GetSecret, LookupFound, LookupMissing, CheckExpiry,
         ExpireSession, ResolveOk, ResolveError, CacheHit, CacheMiss,
         PluginFound, PluginMissing, FetchOk, FetchError, StoreSecret,
         Goto, Fail, TypeOK
<1>4. ASSUME UNCHANGED <<pc, outcome>>
      PROVE  OutcomeInv'
  BY <1>4 DEF OutcomeInv
<1>5. QED
  BY <1>1, <1>2, <1>3, <1>4
     DEF Next, SessionStart, SessionEnd, cleanupExpired, SwapConfig, Clock,
         vars, serverVars

RefInv == IInv /\ OutcomeInv

LEMMA OutcomeAlways == Spec => []RefInv
<1>1. Init => RefInv
  BY IInvInit DEF RefInv, Init, OutcomeInv
<1>2. RefInv /\ [Next]_vars => RefInv'
  BY IInvStep, OutcomeStep DEF RefInv
<1>3. QED
  BY <1>1, <1>2, PTL DEF Spec

-----------------------------------------------------------------------------
(* Requests of sessions that are gone.                                     *)

(* A request that arrived after its session was removed: it has nothing    *)
(* before the lookup, and the lookup turns it away.                        *)
Barred(r) ==
    /\ call[r].sid \in issued \ Present
    /\ pc[r] \in {"get", "done"}
    /\ outcome[r] \in {"none", "error"}

LEMMA BarredStep ==
    ASSUME NEW r \in Requests, IInv, Barred(r), [Next]_vars
    PROVE  Barred(r)'
<1> TypeOK
  BY DEF IInv
<1>1. issued \subseteq issued'
  <2>1. ASSUME NEW q \in Requests, Receive(q) \/ GetSecret(q)
        PROVE  issued' = issued
    BY <2>1
       DEF Receive, GetSecret, LookupFound, LookupMissing, CheckExpiry,
           ExpireSession, DeleteExpired, Remove, ResolveOk, ResolveError,
           CacheHit, CacheMiss, PluginFound, PluginMissing, FetchOk,
           FetchError, StoreSecret, CacheSecret, SendFirst, SendRest, storeVars
  <2>2. CASE SessionStart
    BY <2>2 DEF SessionStart, Create
  <2>3. CASE SessionEnd \/ cleanupExpired \/ SwapConfig \/ Clock \/ UNCHANGED vars
    BY <2>3 DEF SessionEnd, Delete, cleanupExpired, Cleanup, Remove,
                SwapConfig, Clock, Tick, vars, storeVars
  <2>4. QED
    BY <2>1, <2>2, <2>3 DEF Next
<1>2. call[r].sid \in issued' \ Present'
  BY <1>1, StaysRemoved DEF Barred
<1>3. ASSUME NEW q \in Requests, Receive(q)
      PROVE  Barred(r)'
  <2>1. q # r
    BY <1>3 DEF Receive, Goto, Barred
  <2>2. QED
    BY <1>2, <1>3, <2>1 DEF Receive, Goto, Barred, TypeOK
<1>4. ASSUME NEW q \in Requests, GetSecret(q), q # r
      PROVE  Barred(r)'
  <2>1. /\ call' = call
        /\ pc'[r] = pc[r]
        /\ outcome'[r] = outcome[r]
    BY <1>4
       DEF GetSecret, LookupFound, LookupMissing, CheckExpiry, ExpireSession,
           ResolveOk, ResolveError, CacheHit, CacheMiss, PluginFound,
           PluginMissing, FetchOk, FetchError, StoreSecret, SendFirst,
           SendRest, Goto, Fail, TypeOK
  <2>2. QED
    BY <1>2, <2>1 DEF Barred
<1>5. CASE GetSecret(r)
  <2>1. LookupMissing(r)
    BY <1>5
       DEF Barred, GetSecret, LookupFound, CheckExpiry, ExpireSession,
           ResolveOk, ResolveError, CacheHit, CacheMiss, PluginFound,
           PluginMissing, FetchOk, FetchError, StoreSecret, SendFirst,
           SendRest, Goto, Fail
  <2>2. QED
    BY <1>2, <2>1 DEF LookupMissing, Fail, Goto, Barred, TypeOK
<1>6. CASE UNCHANGED <<call, pc, outcome>>
  BY <1>2, <1>6 DEF Barred
<1>7. QED
  BY <1>3, <1>4, <1>5, <1>6
     DEF Next, SessionStart, SessionEnd, cleanupExpired, SwapConfig, Clock,
         vars, serverVars

(* A request that arrives when its session has been removed never gets a   *)
(* secret, whatever else is in flight for that session (server.go          *)
(* GetSecret, session/store.go Get).                                       *)
THEOREM EndedGetNothing == Spec => EndedNeverServed
<1> SUFFICES ASSUME NEW r \in Requests
             PROVE  Spec => [](pc[r] = "get" /\ call[r].sid \in issued \ Present
                                 => [](outcome[r] \in {"none", "error"}))
  BY DEF EndedNeverServed
<1>1. Spec => []RefInv
  BY OutcomeAlways
<1>2. RefInv /\ pc[r] = "get" /\ call[r].sid \in issued \ Present => Barred(r)
  BY DEF RefInv, OutcomeInv, Barred
<1>3. RefInv /\ Barred(r) /\ [Next]_vars => Barred(r)'
  BY BarredStep DEF RefInv
<1>4. Barred(r) => outcome[r] \in {"none", "error"}
  BY DEF Barred
<1>5. QED
  BY <1>1, <1>2, <1>3, <1>4, PTL DEF Spec

-----------------------------------------------------------------------------
(* When the parts of the mapped state stand still.                         *)

LEMMA PhaseStill ==
    ASSUME UNCHANGED <<sessions, issued>>
    PROVE  servicePhase' = servicePhase
BY DEF servicePhase, Present

LEMMA FetchedStill ==
    ASSUME \A r \in Requests : mem'[r] = "unused" <=> mem[r] = "unused"
    PROVE  serviceFetched' = serviceFetched
BY DEF serviceFetched

LEMMA WhoStill == call' = call => serviceWho' = serviceWho
BY DEF serviceWho

(* Only the request that takes the step changes its standing.              *)
LEMMA StandingChange ==
    ASSUME NEW r \in Requests,
           \A q \in Requests \ {r} : /\ pc'[q] = pc[q]
                                     /\ outcome'[q] = outcome[q]
                                     /\ reply'[q] = reply[q]
    PROVE  serviceStanding' = [serviceStanding EXCEPT ![r] = serviceStanding'[r]]
BY DEF serviceStanding

LEMMA StandingStill ==
    ASSUME UNCHANGED <<pc, outcome, reply>>
    PROVE  serviceStanding' = serviceStanding
BY DEF serviceStanding

(* A request past its lookup is admitted until it has failed or a reply.   *)
LEMMA Admitted ==
    ASSUME RefInv, NEW r \in Requests,
           pc[r] \in {"check", "expire", "resolve", "cache", "plugin",
                      "fetch", "store"}
    PROVE  /\ serviceStanding[r] = "admitted"
           /\ outcome[r] = "none" /\ reply[r] = NoBuffer
           /\ call[r] \in Call /\ serviceWho[r] = call[r].sid
<1>1. outcome[r] = "none" /\ reply[r] = NoBuffer
  BY DEF RefInv, OutcomeInv, IInv, StepInv
<1>2. call[r] \in Call /\ call[r] # NoCall
  BY DEF RefInv, IInv, TypeOK
<1>3. QED
  BY <1>1, <1>2 DEF serviceStanding, serviceWho

-----------------------------------------------------------------------------
(* Steps that an observer of the service does not see.                     *)
LEMMA StutterStep ==
    ASSUME RefInv, TypeOK', NEW r \in Requests,
           \/ CheckExpiry(r) \/ ResolveOk(r) \/ CacheMiss(r)
           \/ PluginFound(r) \/ SendFirst(r) \/ SendRest(r)
    PROVE  UNCHANGED Service!vars
<1> TypeOK
  BY DEF RefInv, IInv
<1>1. /\ UNCHANGED <<sessions, issued, mem, call, reply>>
      /\ \A q \in Requests \ {r} : pc'[q] = pc[q] /\ outcome'[q] = outcome[q]
      /\ pc[r] \notin {"idle", "get"} /\ pc'[r] \notin {"idle", "get"}
  BY DEF CheckExpiry, ResolveOk, CacheMiss, PluginFound, SendFirst, SendRest,
         Goto, storeVars, TypeOK
<1>2. outcome[r] # "error" /\ outcome'[r] # "error"
  BY DEF CheckExpiry, ResolveOk, CacheMiss, PluginFound, SendFirst, SendRest,
         Goto, RefInv, OutcomeInv, TypeOK
<1>3. serviceStanding'[r] = serviceStanding[r]
  BY <1>1, <1>2 DEF serviceStanding
<1>4. serviceStanding' = serviceStanding
  BY <1>1, <1>3 DEF serviceStanding
<1>5. QED
  BY <1>1, <1>4, PhaseStill, FetchedStill, WhoStill DEF Service!vars

LEMMA ReceiveRefines ==
    ASSUME RefInv, NEW r \in Requests, Receive(r)
    PROVE  \E s \in Sids : Service!Ask(r, s)
<1> TypeOK
  BY DEF RefInv, IInv
<1>1. PICK s \in Sids, q \in Queries :
         call' = [call EXCEPT ![r] = [sid |-> s, query |-> q, at |-> now]]
  BY DEF Receive
<1> DEFINE c == [sid |-> s, query |-> q, at |-> now]
<1>2. c # NoCall /\ c.sid = s
  BY ServerAssumption DEF TypeOK, StoreTypeOK, Call
<1>3. serviceWho' = [serviceWho EXCEPT ![r] = s]
  BY <1>1, <1>2 DEF serviceWho, TypeOK
<1>4. serviceStanding[r] = "idle" /\ serviceStanding'[r] = "waiting"
  BY DEF Receive, Goto, serviceStanding, TypeOK
<1>5. serviceStanding' = [serviceStanding EXCEPT ![r] = "waiting"]
  BY <1>4, StandingChange DEF Receive, Goto, TypeOK
<1>6. UNCHANGED <<servicePhase, serviceFetched, reply>>
  BY PhaseStill, FetchedStill DEF Receive, storeVars
<1>7. QED
  BY <1>3, <1>4, <1>5, <1>6 DEF Service!Ask

LEMMA LookupFoundRefines ==
    ASSUME RefInv, NEW r \in Requests, LookupFound(r)
    PROVE  Service!Admit(r)
<1> TypeOK
  BY DEF RefInv, IInv
<1>1. /\ pc[r] = "get" /\ pc'[r] = "check"
      /\ UNCHANGED <<sessions, issued, mem, call, reply, outcome>>
      /\ \A q \in Requests \ {r} : pc'[q] = pc[q]
      /\ call[r].sid \in Present
  BY DEF LookupFound, Goto, storeVars, TypeOK
<1>2. outcome[r] = "none" /\ reply[r] = NoBuffer /\ call[r] # NoCall
  BY <1>1 DEF RefInv, OutcomeInv, IInv, StepInv, TypeOK
<1>3. serviceStanding[r] = "waiting" /\ serviceStanding'[r] = "admitted"
  BY <1>1, <1>2 DEF serviceStanding
<1>4. serviceStanding' = [serviceStanding EXCEPT ![r] = "admitted"]
  BY <1>1, <1>3, StandingChange
<1>5. servicePhase[serviceWho[r]] = "open"
  BY <1>1, <1>2 DEF servicePhase, serviceWho, Present
<1>6. QED
  BY <1>1, <1>3, <1>4, <1>5, PhaseStill, FetchedStill, WhoStill
     DEF Service!Admit

(* Every error that a handler returns is a refusal.                        *)
LEMMA RefuseStanding ==
    ASSUME RefInv, TypeOK', NEW r \in Requests, NEW from, Fail(r, from),
           from \in {"get", "expire", "resolve", "plugin", "fetch"},
           UNCHANGED reply
    PROVE  /\ serviceStanding[r] \in {"waiting", "admitted"}
           /\ serviceStanding' = [serviceStanding EXCEPT ![r] = "refused"]
<1> TypeOK
  BY DEF RefInv, IInv
<1>1. /\ pc[r] = from /\ pc'[r] = "done" /\ outcome'[r] = "error"
      /\ \A q \in Requests \ {r} : pc'[q] = pc[q] /\ outcome'[q] = outcome[q]
  BY DEF Fail, Goto, TypeOK
<1>2. serviceStanding[r] \in {"waiting", "admitted"}
  BY <1>1, Admitted DEF serviceStanding
<1>3. serviceStanding'[r] = "refused"
  BY <1>1 DEF serviceStanding
<1>4. QED
  BY <1>1, <1>2, <1>3, StandingChange

LEMMA RefuseRefines ==
    ASSUME RefInv, TypeOK', NEW r \in Requests,
           \/ LookupMissing(r) \/ ResolveError(r)
           \/ PluginMissing(r) \/ FetchError(r)
    PROVE  Service!Refuse(r)
<1>1. PICK from \in {"get", "resolve", "plugin", "fetch"} : Fail(r, from)
  BY DEF LookupMissing, ResolveError, PluginMissing, FetchError
<1>2. UNCHANGED <<sessions, issued, mem, call, reply>>
  BY DEF LookupMissing, ResolveError, PluginMissing, FetchError, storeVars
<1>3. QED
  BY <1>1, <1>2, RefuseStanding, PhaseStill, FetchedStill, WhoStill
     DEF Service!Refuse

-----------------------------------------------------------------------------
(* Removing sessions ends them, and leaves the set of fetches as it is.    *)
LEMMA RemoveRefines ==
    ASSUME RefInv, NEW S \in SUBSET Present, Remove(S)
    PROVE  /\ Service!Ended(S)
           /\ \A s \in S : servicePhase[s] = "open"
           /\ serviceFetched' = serviceFetched
<1> TypeOK
  BY DEF RefInv, IInv
<1>1. /\ Present' = Present \ S /\ issued' = issued
      /\ \A b \in Requests : mem'[b] # mem[b] =>
            mem'[b] = "wiped" /\ \E s \in S : Holds(s, b)
  BY RemoveFacts
<1>2. Present \subseteq issued /\ Present \subseteq Sids
  BY DEF RefInv, IInv, IssuedInv, Present
<1>3. Service!Ended(S)
  BY <1>1, <1>2 DEF Service!Ended, servicePhase
<1>4. \A s \in S : servicePhase[s] = "open"
  BY <1>2 DEF servicePhase
<1>5. ASSUME NEW b \in Requests, mem'[b] # mem[b]
      PROVE  mem[b] # "unused" /\ mem'[b] # "unused"
  <2>1. PICK s \in S : Holds(s, b)
    BY <1>1, <1>5
  <2>2. mem[b] = "cached"
    BY <2>1, StoreAssumption DEF Holds, RefInv, IInv, CacheCoherent, Requests
  <2>3. QED
    BY <1>1, <1>5, <2>2
<1>6. serviceFetched' = serviceFetched
  BY <1>5 DEF serviceFetched
<1>7. QED
  BY <1>3, <1>4, <1>6

LEMMA ExpireRefines ==
    ASSUME RefInv, TypeOK', NEW r \in Requests, ExpireSession(r)
    PROVE  Service!Refuse(r)
<1> DEFINE S == {call[r].sid} \cap Present
<1>1. /\ Fail(r, "expire") /\ Remove(S)
      /\ UNCHANGED <<call, reply>>
      /\ pc[r] = "expire"
  BY DEF ExpireSession, DeleteExpired, Fail, Goto
<1>2. serviceWho[r] = call[r].sid
  BY <1>1, Admitted
<1>3. /\ Service!Ended(S) /\ serviceFetched' = serviceFetched
      /\ \A s \in S : servicePhase[s] = "open"
  BY <1>1, RemoveRefines
<1>4. \/ servicePhase' = servicePhase
      \/ /\ servicePhase[serviceWho[r]] = "open"
         /\ Service!Ended({serviceWho[r]})
  <2>1. CASE S = {call[r].sid}
    BY <1>2, <1>3, <2>1
  <2>2. CASE S = {}
    <3>1. servicePhase' = [s \in Sids |-> servicePhase[s]]
      BY <1>3, <2>2 DEF Service!Ended
    <3>2. servicePhase = [s \in Sids |-> servicePhase[s]]
      BY DEF servicePhase
    <3>3. QED
      BY <3>1, <3>2
  <2>3. QED
    BY <2>1, <2>2
<1>5. QED
  BY <1>1, <1>3, <1>4, RefuseStanding, WhoStill DEF Service!Refuse

LEMMA CacheHitRefines ==
    ASSUME RefInv, NEW r \in Requests, CacheHit(r)
    PROVE  \E f \in Requests : Service!Serve(r, f)
<1> TypeOK
  BY DEF RefInv, IInv
<1> DEFINE s == call[r].sid
           k == CacheKey(entry[r])
           b == GetCachedSecret(s, k)
<1>1. /\ pc[r] = "cache" /\ pc'[r] = "send" /\ b # NoBuffer
      /\ UNCHANGED <<sessions, issued, mem, call, outcome>>
      /\ \A q \in Requests \ {r} : pc'[q] = pc[q]
      /\ reply' = [reply EXCEPT ![r] = b]
  BY DEF CacheHit, Goto, storeVars, TypeOK
<1>2. s \in Sids /\ k \in CacheKeys
  BY <1>1, CallType, CacheKeyType DEF RefInv, IInv, StepInv, TypeOK
<1>3. s \in Present /\ b = sessions[s].secrets[k] /\ b \in Requests
  BY <1>1, <1>2, GetCachedSecretType DEF TypeOK, Requests
<1>4. mem[b] = "cached" /\ call[b] # NoCall /\ call[b].sid = s
  BY <1>1, <1>2, <1>3 DEF RefInv, IInv, CacheCoherent
<1>5. /\ serviceStanding[r] = "admitted" /\ outcome[r] = "none"
      /\ serviceWho[r] = s
  BY <1>1, Admitted
<1> HIDE DEF s, k, b
<1>6. b \in serviceFetched /\ serviceWho[b] = serviceWho[r]
  BY <1>3, <1>4, <1>5 DEF serviceFetched, serviceWho
<1>7. servicePhase[serviceWho[r]] = "open"
  BY <1>2, <1>3, <1>5 DEF servicePhase
<1>8. serviceStanding'[r] = "served"
  BY <1>1, <1>5 DEF serviceStanding, TypeOK
<1>9. serviceStanding' = [serviceStanding EXCEPT ![r] = "served"]
  BY <1>1, <1>8, StandingChange DEF TypeOK
<1>10. QED
  BY <1>1, <1>3, <1>5, <1>6, <1>7, <1>9, PhaseStill, FetchedStill, WhoStill
     DEF Service!Serve

LEMMA FetchOkRefines ==
    ASSUME RefInv, NEW r \in Requests, FetchOk(r)
    PROVE  Service!Fetch(r)
<1> TypeOK
  BY DEF RefInv, IInv
<1>1. /\ pc[r] = "fetch" /\ pc'[r] = "store" /\ mem'[r] = "filled"
      /\ UNCHANGED <<sessions, issued, call, reply, outcome>>
      /\ \A q \in Requests \ {r} : pc'[q] = pc[q] /\ mem'[q] = mem[q]
  BY DEF FetchOk, Goto, TypeOK, StoreTypeOK, Requests
<1>2. /\ serviceStanding[r] = "admitted" /\ outcome[r] = "none"
      /\ reply[r] = NoBuffer /\ mem[r] = "unused"
  BY <1>1, Admitted DEF RefInv, IInv, StepInv
<1>3. serviceStanding'[r] = serviceStanding[r]
  BY <1>1, <1>2 DEF serviceStanding
<1>4. serviceStanding' = serviceStanding
  BY <1>1, <1>3 DEF serviceStanding
<1>5. r \notin serviceFetched /\ serviceFetched' = serviceFetched \cup {r}
  BY <1>1, <1>2 DEF serviceFetched
<1>6. QED
  BY <1>1, <1>2, <1>4, <1>5, PhaseStill, WhoStill DEF Service!Fetch

LEMMA StoreSecretRefines ==
    ASSUME RefInv, NEW r \in Requests, StoreSecret(r)
    PROVE  Service!Serve(r, r)
<1> TypeOK
  BY DEF RefInv, IInv
<1> DEFINE s == call[r].sid
           k == CacheKey(entry[r])
<1>1. /\ pc[r] = "store" /\ pc'[r] = "send" /\ CacheSecret(s, k, r)
      /\ UNCHANGED <<issued, call, outcome>>
      /\ \A q \in Requests \ {r} : pc'[q] = pc[q]
      /\ reply' = [reply EXCEPT ![r] = r]
  BY DEF StoreSecret, CacheSecret, Goto, TypeOK
<1>2. /\ serviceStanding[r] = "admitted" /\ outcome[r] = "none"
      /\ mem[r] # "unused"
  BY <1>1, Admitted DEF RefInv, IInv, StepInv
<1>3. Present' = Present /\ \A q \in Requests : mem'[q] = "unused" <=> mem[q] = "unused"
  <2>1. CASE s \in Present
    <3>1. sessions[s] \in Session /\ s \in Sids /\ k \in CacheKeys
      BY <1>1, <2>1, CacheKeyType
         DEF Present, TypeOK, StoreTypeOK, RefInv, IInv, StepInv
    <3>2. [sessions[s] EXCEPT !.secrets[k] = r] \in Session
      BY <3>1 DEF Session, Requests
    <3>3. /\ sessions' = [sessions EXCEPT ![s] = [sessions[s] EXCEPT !.secrets[k] = r]]
          /\ mem' = [mem EXCEPT ![r] = "cached"]
      BY <1>1, <2>1 DEF CacheSecret
    <3>4. sessions'[s] # NoSession
      BY <3>1, <3>2, <3>3, StoreAssumption DEF TypeOK, StoreTypeOK
    <3>5. Present' = Present
      BY <2>1, <3>1, <3>3, <3>4 DEF Present, TypeOK, StoreTypeOK
    <3>6. QED
      BY <1>2, <3>3, <3>5 DEF TypeOK, StoreTypeOK, Requests
  <2>2. CASE s \notin Present
    BY <1>1, <2>2 DEF CacheSecret, Present
  <2>3. QED
    BY <2>1, <2>2
<1>4. servicePhase' = servicePhase
  BY <1>1, <1>3 DEF servicePhase
<1>5. serviceStanding'[r] = "served"
  BY <1>1, <1>2, StoreAssumption DEF serviceStanding, TypeOK, Requests
<1>6. serviceStanding' = [serviceStanding EXCEPT ![r] = "served"]
  BY <1>1, <1>5, StandingChange DEF TypeOK
<1>7. r \in serviceFetched /\ serviceFetched' = serviceFetched
  BY <1>2, <1>3, FetchedStill DEF serviceFetched
<1>8. QED
  BY <1>1, <1>2, <1>4, <1>6, <1>7, WhoStill DEF Service!Serve

LEMMA CreateRefines ==
    ASSUME RefInv, SessionStart
    PROVE  \E s \in Sids : Service!Open(s)
<1> TypeOK
  BY DEF RefInv, IInv
<1>1. PICK s \in Sids, ttl \in TTLs, allowed \in Allowlists :
         Create(s, ttl, allowed)
  BY DEF SessionStart
<1> DEFINE new == [expiresAt   |-> now + ttl,
                   allowedKeys |-> allowed,
                   secrets     |-> [k \in CacheKeys |-> NoBuffer]]
<1>2. new \in Session
  BY StoreAssumption DEF Session, TypeOK, StoreTypeOK
<1>3. /\ s \notin issued /\ issued' = issued \cup {s}
      /\ sessions' = [sessions EXCEPT ![s] = new]
      /\ UNCHANGED <<mem, call, pc, outcome, reply>>
  BY <1>1 DEF Create, SessionStart, serverVars
<1> HIDE DEF new
<1>4. s \notin Present /\ Present' = Present \cup {s}
  BY <1>2, <1>3, StoreAssumption
     DEF Present, TypeOK, StoreTypeOK, RefInv, IInv, IssuedInv
<1>5. servicePhase[s] = "new" /\ servicePhase' = [servicePhase EXCEPT ![s] = "open"]
  BY <1>3, <1>4 DEF servicePhase
<1>6. QED
  BY <1>3, <1>5, FetchedStill, WhoStill, StandingStill DEF Service!Open

LEMMA EndRefines ==
    ASSUME RefInv, SessionEnd \/ cleanupExpired
    PROVE  \E S \in SUBSET Sids : Service!End(S)
<1>1. PICK S \in SUBSET Present : Remove(S)
  BY DEF SessionEnd, Delete, cleanupExpired, Cleanup, Present
<1>2. UNCHANGED <<call, pc, outcome, reply>> /\ S \in SUBSET Sids
  BY DEF SessionEnd, cleanupExpired, serverVars, Present
<1>3. QED
  BY <1>1, <1>2, RemoveRefines, WhoStill, StandingStill DEF Service!End

LEMMA StillRefines ==
    ASSUME SwapConfig \/ Clock \/ UNCHANGED vars
    PROVE  UNCHANGED Service!vars
<1>1. UNCHANGED <<sessions, issued, mem, call, pc, outcome, reply>>
  BY DEF SwapConfig, Clock, Tick, vars, storeVars, serverVars
<1>2. QED
  BY <1>1, PhaseStill, FetchedStill, WhoStill, StandingStill DEF Service!vars

-----------------------------------------------------------------------------
LEMMA InitRefines == Init => Service!Init
<1> SUFFICES ASSUME Init PROVE Service!Init
  OBVIOUS
<1>1. Present = {}
  BY DEF Init, StoreInit, Present
<1>2. QED
  BY <1>1 DEF Init, StoreInit, Service!Init, servicePhase, serviceStanding,
              serviceWho, serviceFetched, Requests

LEMMA NextRefines == RefInv /\ RefInv' /\ [Next]_vars => [Service!Next]_(Service!vars)
<1> SUFFICES ASSUME RefInv, RefInv', [Next]_vars
             PROVE  [Service!Next]_(Service!vars)
  OBVIOUS
<1> TypeOK'
  BY DEF RefInv, IInv
<1>1. ASSUME NEW r \in Requests, Receive(r)
      PROVE  Service!Next
  BY <1>1, ReceiveRefines DEF Service!Next
<1>2. ASSUME NEW r \in Requests, GetSecret(r)
      PROVE  [Service!Next]_(Service!vars)
  <2>1. CASE LookupFound(r) \/ FetchOk(r)
    BY <2>1, LookupFoundRefines, FetchOkRefines DEF Service!Next
  <2>2. CASE \/ LookupMissing(r) \/ ResolveError(r)
             \/ PluginMissing(r) \/ FetchError(r) \/ ExpireSession(r)
    BY <2>2, RefuseRefines, ExpireRefines DEF Service!Next
  <2>3. CASE CacheHit(r) \/ StoreSecret(r)
    BY <2>3, CacheHitRefines, StoreSecretRefines DEF Service!Next
  <2>4. CASE \/ CheckExpiry(r) \/ ResolveOk(r) \/ CacheMiss(r)
             \/ PluginFound(r) \/ SendFirst(r) \/ SendRest(r)
    BY <2>4, StutterStep
  <2>5. QED
    BY <1>2, <2>1, <2>2, <2>3, <2>4 DEF GetSecret
<1>3. CASE SessionStart
  BY <1>3, CreateRefines DEF Service!Next
<1>4. CASE SessionEnd \/ cleanupExpired
  BY <1>4, EndRefines DEF Service!Next
<1>5. CASE SwapConfig \/ Clock \/ UNCHANGED vars
  BY <1>5, StillRefines
<1>6. QED
  BY <1>1, <1>2, <1>3, <1>4, <1>5 DEF Next

(* The handlers, the store and the cleanup loop together are the service   *)
(* their clients see: sessions open and end once, only requests of open    *)
(* sessions are admitted, and a secret answers its own session only        *)
(* (server.go GetSecret, SessionStart, SessionEnd).                        *)
THEOREM ImplementsService == Spec => ServiceSpec
<1>1. QED
  BY OutcomeAlways, InitRefines, NextRefines, PTL
     DEF Spec, ServiceSpec, Service!Spec
=============================================================================

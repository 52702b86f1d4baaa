---------------------------- MODULE SessionStore ----------------------------
(***************************************************************************)
(* The session store of the daemon (internal/session/session.go): sessions *)
(* that expire, each with its own cache of secrets.  This module holds the *)
(* store's state and one action per critical section of Store.mu; module   *)
(* SecretServer composes them with the gRPC handlers that call them.       *)
(*                                                                         *)
(* A secret is the byte slice that a plugin call returned.  The store, the *)
(* handler and the reply share that slice, so the model keeps buffers      *)
(* apart from their contents: mem[b] says what became of buffer b.         *)
(***************************************************************************)
EXTENDS Integers, FiniteSets

CONSTANTS
    Sids,        \* session IDs that rand.Read may produce
    Prefixes,    \* ID prefixes, each as the set of the IDs that start with it
    CacheKeys,   \* keys of a session's secrets map
    Buffers,     \* byte slices holding secrets
    TTLs,        \* lifetimes a client may ask for; zero and negative ones parse
    Allowlists,  \* values of AllowedKeys, as sets
    MaxTime,     \* bound of the clock
    NoSession,   \* sessions[s] when the map has no entry s
    NoBuffer     \* secrets[k] when the map has no entry k

Session == [expiresAt   : Int,
            allowedKeys : Allowlists,
            secrets     : [CacheKeys -> Buffers \cup {NoBuffer}]]

ASSUME StoreAssumption ==
    /\ Prefixes \subseteq SUBSET Sids
    /\ TTLs \subseteq Int
    /\ MaxTime \in Nat
    /\ NoSession \notin Session
    /\ NoBuffer \notin Buffers

VARIABLES
    sessions,  \* the map Store.sessions
    issued,    \* IDs generated so far: generateID never repeats one
    mem,       \* what became of each buffer
    now        \* the clock

storeVars == <<sessions, issued, mem, now>>

(* "filled": returned by a plugin and never put in a cache; "cached": put  *)
(* in a session's cache at some time; "wiped": zeroed by wipeBytes.        *)
BufferState == {"unused", "filled", "cached", "wiped"}

StoreTypeOK ==
    /\ sessions \in [Sids -> Session \cup {NoSession}]
    /\ issued \subseteq Sids
    /\ mem \in [Buffers -> BufferState]
    /\ now \in 0 .. MaxTime

StoreInit ==
    /\ sessions = [s \in Sids |-> NoSession]
    /\ issued = {}
    /\ mem = [b \in Buffers |-> "unused"]
    /\ now = 0

-----------------------------------------------------------------------------
Present == {s \in Sids : sessions[s] # NoSession}

Expired(s) == now > sessions[s].expiresAt

Holds(s, b) == \E k \in CacheKeys : sessions[s].secrets[k] = b

(* Mutants of Remove: the map entry is kept; every session is wiped.       *)
RemoveKeepsEntry(S) ==
    /\ mem' = [b \in Buffers |->
                  IF \E s \in S : Holds(s, b) THEN "wiped" ELSE mem[b]]
    /\ UNCHANGED <<sessions, issued, now>>

RemoveWipesAll(S) ==
    /\ sessions' = [s \in Sids |-> IF s \in S THEN NoSession ELSE sessions[s]]
    /\ mem' = [b \in Buffers |->
                  IF \E s \in Present : Holds(s, b) THEN "wiped" ELSE mem[b]]
    /\ UNCHANGED <<issued, now>>

(* What Delete, Cleanup and an expired Get do under the lock: wipe every   *)
(* cached secret of the sessions in S and drop the sessions.               *)
Remove(S) ==
    /\ sessions' = [s \in Sids |-> IF s \in S THEN NoSession ELSE sessions[s]]
    /\ mem' = [b \in Buffers |->
                  IF \E s \in S : Holds(s, b) THEN "wiped" ELSE mem[b]]
    /\ UNCHANGED <<issued, now>>

-----------------------------------------------------------------------------
(* The expiry time is computed when the session is made, so a TTL that is  *)
(* not positive makes a session that is expired (almost) from the start.   *)
Create(s, ttl, allowed) ==
    /\ s \notin issued
    /\ issued' = issued \cup {s}
    /\ sessions' = [sessions EXCEPT ![s] =
                       [expiresAt   |-> now + ttl,
                        allowedKeys |-> allowed,
                        secrets     |-> [k \in CacheKeys |-> NoBuffer]]]
    /\ UNCHANGED <<mem, now>>

(* Nothing happens unless the prefix picks out exactly one session.        *)
Delete(prefix) ==
    \E s \in Sids : /\ prefix \cap Present = {s}
                    /\ Remove({s})

(* Mutant of Cleanup: sessions that hold secrets are left to Get.          *)
CleanupSkipsUsed ==
    LET expired == {s \in Present : Expired(s) /\ \A b \in Buffers : ~Holds(s, b)}
    IN  /\ expired # {}
        /\ Remove(expired)

Cleanup ==
    LET expired == {s \in Present : Expired(s)}
    IN  /\ expired # {}
        /\ Remove(expired)

(* Mutants of DeleteExpired: it waits for a session that another goroutine *)
(* has already removed; it drops the session without wiping.               *)
DeleteExpiredNoRecheck(s) ==
    /\ s \in Present
    /\ Remove({s})

DeleteExpiredNoWipe(s) ==
    /\ sessions' = [sessions EXCEPT ![s] = NoSession]
    /\ UNCHANGED <<issued, mem, now>>

(* The second half of Get for an expired session.  It looks the ID up      *)
(* again under the write lock: someone else may have removed the session.  *)
DeleteExpired(s) == Remove({s} \cap Present)

(* Mutant of CacheSecret: a missing session is made anew.                  *)
CacheSecretRevives(s, k, b) ==
    /\ sessions' = [sessions EXCEPT ![s] =
                       IF s \in Present
                          THEN [@ EXCEPT !.secrets[k] = b]
                          ELSE [expiresAt   |-> now,
                                allowedKeys |-> {},
                                secrets     |-> [key \in CacheKeys |->
                                                   IF key = k THEN b ELSE NoBuffer]]]
    /\ mem' = [mem EXCEPT ![b] = "cached"]
    /\ UNCHANGED <<issued, now>>

CacheSecret(s, k, b) ==
    /\ IF s \in Present
          THEN /\ sessions' = [sessions EXCEPT ![s].secrets[k] = b]
               /\ mem' = [mem EXCEPT ![b] = "cached"]
          ELSE UNCHANGED <<sessions, mem>>
    /\ UNCHANGED <<issued, now>>

isKeyAllowed(s, k) ==
    \/ sessions[s].allowedKeys = {}
    \/ k \in sessions[s].allowedKeys

(* Mutant of GetCachedSecret: one cache for all sessions.                  *)
GetCachedSecretShared(s, k) ==
    LET cached == {sessions[t].secrets[k] : t \in Present} \ {NoBuffer}
    IN  IF cached = {} THEN NoBuffer ELSE CHOOSE b \in cached : TRUE

(* The cached slice, or NoBuffer on a miss.                                *)
GetCachedSecret(s, k) ==
    IF s \in Present /\ isKeyAllowed(s, k) THEN sessions[s].secrets[k]
                                           ELSE NoBuffer

Tick ==
    /\ now < MaxTime
    /\ now' = now + 1
    /\ UNCHANGED <<sessions, issued, mem>>
=============================================================================

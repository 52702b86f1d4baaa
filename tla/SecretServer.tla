---------------------------- MODULE SecretServer ----------------------------
(***************************************************************************)
(* The daemon's gRPC handlers around sessions and secrets                  *)
(* (internal/daemon/server.go) over the session store.  gRPC runs every    *)
(* request in a goroutine of its own; the store's mutex is held for one    *)
(* store operation at a time, so a GetSecret request is a sequence of      *)
(* steps that interleaves with every other request, with the cleanup loop  *)
(* and with a swap of the configuration.                                   *)
(*                                                                         *)
(* A request makes at most one plugin call, so the buffer that call        *)
(* returns is named after the request: buffer r is resp.Secret of          *)
(* request r.                                                              *)
(***************************************************************************)
EXTENDS SessionStore

CONSTANTS
    Names,        \* vault names and vault types (one namespace: a request may
                  \* name a type directly)
    Aliases,      \* key aliases
    Paths,        \* secret paths
    Opts,         \* the store/service options of a vault
    NoOpts,       \* a vault with neither option
    Configs,      \* configurations that may be in force
    Queries,      \* what requests ask for
    Absent,       \* an empty request field
    Unresolved,   \* resolveKey returned an error
    NoCall,       \* a request that has not arrived
    MaxInFlight   \* bound of the number of requests served at once

Requests == Buffers

Vault  == [type : Names, opts : Opts]
KeyDef == [vault : Names, path : Paths]
Query  == [alias : Aliases \cup {Absent},
           vault : Names \cup {Absent},
           path  : Paths \cup {Absent}]
Entry  == [type : Names, path : Paths, opts : Opts]
Call   == [sid : Sids, query : Queries, at : Nat]

(* What is known of a configuration: each key alias names a vault and a    *)
(* path, each vault a type and its options (config.go).                    *)
ASSUME ServerAssumption ==
    /\ NoOpts \in Opts
    /\ Names \X Paths \subseteq CacheKeys
    /\ \A c \in Configs :
          /\ DOMAIN c.keys \subseteq Aliases
          /\ \A a \in DOMAIN c.keys : c.keys[a] \in KeyDef
          /\ DOMAIN c.vaults \subseteq Names
          /\ \A v \in DOMAIN c.vaults : c.vaults[v] \in Vault
    /\ Queries \subseteq Query
    /\ Absent \notin Aliases \cup Names \cup Paths
    /\ Unresolved \notin Entry
    /\ NoCall \notin Call
    /\ MaxInFlight \in Nat

VARIABLES
    config,   \* the atomic pointer Daemon.cfg
    pc,       \* where each request stands
    call,     \* the request's session ID, query and arrival time
    expiry,   \* ExpiresAt of the session that Get found
    entry,    \* what resolveKey returned
    reply,    \* the slice put in the response
    outcome   \* what the client receives

serverVars == <<config, pc, call, expiry, entry, reply, outcome>>
vars == <<storeVars, serverVars>>

PC == {"idle", "get", "check", "expire", "resolve", "cache", "plugin",
       "fetch", "store", "send", "sending", "done"}

(* "zeros": every byte of the secret had been wiped when it was copied     *)
(* into the response message; "torn": it was wiped during the copy.        *)
Outcome == {"none", "error", "secret", "zeros", "torn"}

TypeOK ==
    /\ StoreTypeOK
    /\ config \in Configs
    /\ pc \in [Requests -> PC]
    /\ call \in [Requests -> Call \cup {NoCall}]
    /\ expiry \in [Requests -> Int]
    /\ entry \in [Requests -> Entry \cup {Unresolved}]
    /\ reply \in [Requests -> Requests \cup {NoBuffer}]
    /\ outcome \in [Requests -> Outcome]
    /\ \A r \in Requests : (call[r] = NoCall) <=> (pc[r] = "idle")

Init ==
    /\ StoreInit
    /\ config \in Configs
    /\ pc = [r \in Requests |-> "idle"]
    /\ call = [r \in Requests |-> NoCall]
    /\ expiry = [r \in Requests |-> 0]
    /\ entry = [r \in Requests |-> Unresolved]
    /\ reply = [r \in Requests |-> NoBuffer]
    /\ outcome = [r \in Requests |-> "none"]

-----------------------------------------------------------------------------
(* resolveKey: a key alias is looked up in the configuration; otherwise    *)
(* vault and path must both be given, and a vault that is not configured   *)
(* stands for the vault type of that name.                                 *)
EntryOf(vault, path) ==
    [type |-> vault.type, path |-> path, opts |-> vault.opts]

ResolveAlias(c, alias) ==
    IF alias \in DOMAIN c.keys /\ c.keys[alias].vault \in DOMAIN c.vaults
       THEN EntryOf(c.vaults[c.keys[alias].vault], c.keys[alias].path)
       ELSE Unresolved

ResolvePath(c, vault, path) ==
    IF vault \in DOMAIN c.vaults
       THEN EntryOf(c.vaults[vault], path)
       ELSE [type |-> vault, path |-> path, opts |-> NoOpts]

resolveKey(c, q) ==
    IF q.alias # Absent THEN ResolveAlias(c, q.alias)
    ELSE IF q.vault = Absent \/ q.path = Absent THEN Unresolved
    ELSE ResolvePath(c, q.vault, q.path)

(* Mutant of CacheKey: secrets are cached by vault type.                   *)
CacheKeyByType(e) == <<e.type, CHOOSE p \in Paths : TRUE>>

(* The cache key leaves the options of the vault out.                      *)
CacheKey(e) == <<e.type, e.path>>

-----------------------------------------------------------------------------
(* The steps of one GetSecret request.                                     *)

Goto(r, from, to) ==
    /\ pc[r] = from
    /\ pc' = [pc EXCEPT ![r] = to]

Fail(r, from) ==
    /\ Goto(r, from, "done")
    /\ outcome' = [outcome EXCEPT ![r] = "error"]

InFlight == {r \in Requests : pc[r] \notin {"idle", "done"}}

Receive(r) ==
    /\ Cardinality(InFlight) < MaxInFlight
    /\ Goto(r, "idle", "get")
    /\ \E s \in Sids, q \in Queries :
          call' = [call EXCEPT ![r] = [sid |-> s, query |-> q, at |-> now]]
    /\ UNCHANGED <<storeVars, config, expiry, entry, reply, outcome>>

(* Get, first critical section: the lookup under the read lock.            *)
LookupFound(r) ==
    /\ Goto(r, "get", "check")
    /\ call[r].sid \in Present
    /\ expiry' = [expiry EXCEPT ![r] = sessions[call[r].sid].expiresAt]
    /\ UNCHANGED <<storeVars, config, call, entry, reply, outcome>>

(* Mutant of LookupMissing: the error of Get is ignored.                   *)
LookupMissingIgnored(r) ==
    /\ Goto(r, "get", "resolve")
    /\ call[r].sid \notin Present
    /\ UNCHANGED <<storeVars, config, call, expiry, entry, reply, outcome>>

LookupMissing(r) ==
    /\ Fail(r, "get")
    /\ call[r].sid \notin Present
    /\ UNCHANGED <<storeVars, config, call, expiry, entry, reply>>

(* Mutant of CheckExpiry: expiry is left to the cleanup loop.              *)
CheckExpiryNever(r) ==
    /\ Goto(r, "check", "resolve")
    /\ UNCHANGED <<storeVars, config, call, expiry, entry, reply, outcome>>

(* Get compares the expiry time with the clock after it dropped the lock.  *)
CheckExpiry(r) ==
    /\ Goto(r, "check", IF now > expiry[r] THEN "expire" ELSE "resolve")
    /\ UNCHANGED <<storeVars, config, call, expiry, entry, reply, outcome>>

ExpireSession(r) ==
    /\ Fail(r, "expire")
    /\ DeleteExpired(call[r].sid)
    /\ UNCHANGED <<config, call, expiry, entry, reply>>

ResolveOk(r) ==
    /\ Goto(r, "resolve", "cache")
    /\ resolveKey(config, call[r].query) # Unresolved
    /\ entry' = [entry EXCEPT ![r] = resolveKey(config, call[r].query)]
    /\ UNCHANGED <<storeVars, config, call, expiry, reply, outcome>>

ResolveError(r) ==
    /\ Fail(r, "resolve")
    /\ resolveKey(config, call[r].query) = Unresolved
    /\ UNCHANGED <<storeVars, config, call, expiry, entry, reply>>

CacheHit(r) ==
    LET cached == GetCachedSecret(call[r].sid, CacheKey(entry[r]))
    IN  /\ Goto(r, "cache", "send")
        /\ cached # NoBuffer
        /\ reply' = [reply EXCEPT ![r] = cached]
        /\ UNCHANGED <<storeVars, config, call, expiry, entry, outcome>>

CacheMiss(r) ==
    /\ Goto(r, "cache", "plugin")
    /\ GetCachedSecret(call[r].sid, CacheKey(entry[r])) = NoBuffer
    /\ UNCHANGED <<storeVars, config, call, expiry, entry, reply, outcome>>

(* The plugin of the type may be loaded or not, and its call may succeed   *)
(* or fail (module ConfigReload says when plugins come and go).            *)
PluginFound(r) ==
    /\ Goto(r, "plugin", "fetch")
    /\ UNCHANGED <<storeVars, config, call, expiry, entry, reply, outcome>>

PluginMissing(r) ==
    /\ Fail(r, "plugin")
    /\ UNCHANGED <<storeVars, config, call, expiry, entry, reply>>

FetchOk(r) ==
    /\ Goto(r, "fetch", "store")
    /\ mem' = [mem EXCEPT ![r] = "filled"]
    /\ UNCHANGED <<sessions, issued, now>>
    /\ UNCHANGED <<config, call, expiry, entry, reply, outcome>>

FetchError(r) ==
    /\ Fail(r, "fetch")
    /\ UNCHANGED <<storeVars, config, call, expiry, entry, reply>>

(* The slice goes into the cache and into the response.                    *)
StoreSecret(r) ==
    /\ Goto(r, "store", "send")
    /\ CacheSecret(call[r].sid, CacheKey(entry[r]), r)
    /\ reply' = [reply EXCEPT ![r] = r]
    /\ UNCHANGED <<config, call, expiry, entry, outcome>>

(* gRPC copies the slice into the response message after the handler       *)
(* returned, with no lock held.  The copy is two reads, so that a wipe can *)
(* fall before, between or after them.                                     *)
SendFirst(r) ==
    /\ Goto(r, "send", "sending")
    /\ outcome' = [outcome EXCEPT ![r] =
                      IF mem[reply[r]] = "wiped" THEN "zeros" ELSE "secret"]
    /\ UNCHANGED <<storeVars, config, call, expiry, entry, reply>>

SendRest(r) ==
    /\ Goto(r, "sending", "done")
    /\ outcome' = [outcome EXCEPT ![r] =
                      IF @ = "secret" /\ mem[reply[r]] = "wiped" THEN "torn"
                                                                ELSE @]
    /\ UNCHANGED <<storeVars, config, call, expiry, entry, reply>>

GetSecret(r) ==
    \/ LookupFound(r)  \/ LookupMissing(r)
    \/ CheckExpiry(r)  \/ ExpireSession(r)
    \/ ResolveOk(r)    \/ ResolveError(r)
    \/ CacheHit(r)     \/ CacheMiss(r)
    \/ PluginFound(r)  \/ PluginMissing(r)
    \/ FetchOk(r)      \/ FetchError(r)
    \/ StoreSecret(r)
    \/ SendFirst(r)    \/ SendRest(r)

-----------------------------------------------------------------------------
(* The other handlers are one critical section each.                       *)

SessionStart ==
    /\ \E s \in Sids, ttl \in TTLs, allowed \in Allowlists :
          Create(s, ttl, allowed)
    /\ UNCHANGED serverVars

SessionEnd ==
    /\ \E prefix \in Prefixes : Delete(prefix)
    /\ UNCHANGED serverVars

cleanupExpired ==
    /\ Cleanup
    /\ UNCHANGED serverVars

(* Reload stores the new configuration in one atomic write.                *)
SwapConfig ==
    /\ config' \in Configs \ {config}
    /\ UNCHANGED <<storeVars, pc, call, expiry, entry, reply, outcome>>

Clock ==
    /\ Tick
    /\ UNCHANGED serverVars

Next ==
    \/ \E r \in Requests : Receive(r) \/ GetSecret(r)
    \/ SessionStart
    \/ SessionEnd
    \/ cleanupExpired
    \/ SwapConfig
    \/ Clock

Spec == Init /\ [][Next]_vars

(* A request's goroutine is scheduled until it returns (its plugin call    *)
(* answers or fails), and the cleanup loop runs at every tick of its timer.*)
Fairness ==
    /\ \A r \in Requests : WF_vars(GetSecret(r))
    /\ WF_vars(cleanupExpired)

FairSpec == Spec /\ Fairness
-----------------------------------------------------------------------------
(* Properties.                                                             *)

(* What a session's cache holds is whole, was fetched by a request that    *)
(* presented this session's ID, and stands under its own cache key: no     *)
(* order of CacheSecret, Delete, Cleanup and expired Gets leaves a wiped   *)
(* or a foreign slice behind.                                              *)
CacheCoherent ==
    \A s \in Present, k \in CacheKeys :
        LET b == sessions[s].secrets[k]
        IN  b # NoBuffer => /\ mem[b] = "cached"
                            /\ call[b] # NoCall
                            /\ call[b].sid = s
                            /\ CacheKey(entry[b]) = k

(* A response carries a secret that was fetched under the session ID that  *)
(* the request itself presented, for the same vault type and path.         *)
SessionIsolation ==
    \A r \in Requests :
        reply[r] # NoBuffer =>
            /\ call[reply[r]].sid = call[r].sid
            /\ CacheKey(entry[reply[r]]) = CacheKey(entry[r])

(* No request that arrives after its session's expiry time is answered     *)
(* with a secret, although Get looks at the clock without the lock and     *)
(* nothing looks at it again.                                              *)
ExpiredNeverServed ==
    \A r \in Requests : reply[r] # NoBuffer => call[r].at <= expiry[r]

(* A response can hold a wiped slice only once its session is gone: ending *)
(* one session never damages a response of another.                        *)
WipedOnlyWhenGone ==
    \A r \in Requests :
        reply[r] # NoBuffer /\ mem[reply[r]] = "wiped"
            => call[r].sid \notin Present

(* The secret served is of the type and path the request resolved to, and  *)
(* from its vault's store and service too, unless the session has fetched  *)
(* that path with other options: the cache key leaves them out, so that a  *)
(* vault with a store beside its type named directly, or a reload that     *)
(* changes the store, mix them up.  What other sessions fetch, and other   *)
(* paths, make no difference.                                              *)
FetchedOtherwise(r) ==
    \E other \in Requests :
        /\ mem[other] # "unused"
        /\ call[other].sid = call[r].sid
        /\ entry[other].type = entry[r].type
        /\ entry[other].path = entry[r].path
        /\ entry[other].opts # entry[r].opts

RightSecret ==
    \A r \in Requests :
        reply[r] # NoBuffer =>
            /\ entry[reply[r]].type = entry[r].type
            /\ entry[reply[r]].path = entry[r].path
            /\ entry[reply[r]].opts = entry[r].opts \/ FetchedOtherwise(r)

(* A session that has been removed stays removed: neither a late           *)
(* CacheSecret nor a new session brings its ID back.                       *)
NoResurrection ==
    [][\A s \in issued : s \notin Present => s \notin Present']_vars

(* A request that arrives when its session has been removed never gets a   *)
(* secret, whatever else is in flight for that session.                    *)
EndedNeverServed ==
    \A r \in Requests :
        [](pc[r] = "get" /\ call[r].sid \in issued \ Present
             => [](outcome[r] \in {"none", "error"}))

(* Every request is answered, also when its session is removed under it.   *)
RequestsAnswered ==
    \A r \in Requests : pc[r] = "get" ~> pc[r] = "done"

(* A session whose time is over is eventually dropped, used or not.        *)
ExpiredSessionsRemoved ==
    \A s \in Sids : s \in Present /\ Expired(s) ~> s \notin Present

(* Session end wipes the cached secrets from memory (session.go:97): a     *)
(* slice once cached is still in its live session's cache, where Delete,   *)
(* Cleanup and an expired Get find it, or it has been wiped.  The only one *)
(* that escapes is one that another request of the session fetched again,  *)
(* because CacheSecret replaces a slice without wiping it.                 *)
InCache(r) ==
    /\ call[r].sid \in Present
    /\ sessions[call[r].sid].secrets[CacheKey(entry[r])] = r

FetchedAgain(r) ==
    \E other \in Requests \ {r} :
        /\ mem[other] # "unused"
        /\ call[other].sid = call[r].sid
        /\ CacheKey(entry[other]) = CacheKey(entry[r])

WipedOrReplaced ==
    \A r \in Requests : mem[r] = "cached" => InCache(r) \/ FetchedAgain(r)

(* A response with a secret holds the secret, from the cache too           *)
(* (docs/architecture.md:31-32).                                           *)
ReplyIntact == \A r \in Requests : outcome[r] \notin {"zeros", "torn"}

-----------------------------------------------------------------------------
(* The inductive invariant behind the safety properties.                   *)

(* Past resolveKey a request has an entry, and that entry is one a         *)
(* configuration gives; a filled buffer's request has its entry for good,  *)
(* and what is put in a reply is a filled buffer.                          *)
StepInv ==
    \A r \in Requests :
        /\ pc[r] \in {"cache", "plugin", "fetch", "store"} => entry[r] # Unresolved
        /\ entry[r] # Unresolved =>
              /\ \E c \in Configs, q \in Queries : entry[r] = resolveKey(c, q)
              /\ pc[r] \notin {"idle", "get", "check", "expire", "resolve"}
        /\ pc[r] = "store" => mem[r] # "unused"
        /\ mem[r] # "unused" =>
              /\ entry[r] # Unresolved
              /\ pc[r] \in {"store", "send", "sending", "done"}
        /\ reply[r] # NoBuffer =>
              /\ entry[r] # Unresolved
              /\ pc[r] \in {"send", "sending", "done"}
              /\ mem[reply[r]] # "unused"

(* A request that passed the expiry check arrived before its session's     *)
(* expiry time.                                                            *)
TimeInv ==
    \A r \in Requests :
        /\ call[r] # NoCall => call[r].at <= now
        /\ pc[r] \in {"resolve", "cache", "plugin", "fetch", "store"}
              => call[r].at <= expiry[r]

(* A request that found its session presents an ID that was issued, and    *)
(* which no later session will get.                                        *)
IssuedInv ==
    /\ Present \subseteq issued
    /\ \A r \in Requests :
          \/ pc[r] \in {"check", "expire", "resolve", "cache", "plugin",
                        "fetch", "store"}
          \/ reply[r] # NoBuffer
          => call[r].sid \in issued

IInv ==
    /\ TypeOK
    /\ StepInv
    /\ TimeInv
    /\ IssuedInv
    /\ CacheCoherent
    /\ SessionIsolation
    /\ ExpiredNeverServed
    /\ WipedOnlyWhenGone

-----------------------------------------------------------------------------
(* The handlers implement module SecretService: whatever the interleaving, *)
(* a client sees sessions open and end once, is refused unless its session *)
(* was open, and is answered from a fetch made for its own session.        *)
servicePhase ==
    [s \in Sids |-> IF s \in Present THEN "open"
                    ELSE IF s \in issued THEN "ended" ELSE "new"]

serviceStanding ==
    [r \in Requests |-> IF pc[r] = "idle" THEN "idle"
                        ELSE IF pc[r] = "get" THEN "waiting"
                        ELSE IF outcome[r] = "error" THEN "refused"
                        ELSE IF reply[r] # NoBuffer THEN "served" ELSE "admitted"]

serviceWho == [r \in Requests |-> IF call[r] = NoCall THEN NoCall ELSE call[r].sid]

serviceFetched == {r \in Requests : mem[r] # "unused"}

Service == INSTANCE SecretService WITH
    Nobody   <- NoCall,
    NoSource <- NoBuffer,
    phase    <- servicePhase,
    standing <- serviceStanding,
    who      <- serviceWho,
    fetched  <- serviceFetched,
    source   <- reply

ServiceSpec == Service!Spec
=============================================================================

----------------------------- MODULE McpSecrets -----------------------------
(***************************************************************************)
(* GRPCFetcher (internal/mcp/secrets.go), through which `locksmith mcp     *)
(* run` gets its secrets: when the daemon calls the session invalid, it    *)
(* starts another and asks once more.  The type is made for concurrent     *)
(* callers, which share the session and one refresh.                       *)
(*                                                                         *)
(* The fetcher belongs to an `mcp run` process that was started from the   *)
(* shell of CliSessions, and has the session that ensureMCPSession gave.   *)
(***************************************************************************)
EXTENDS CliSessions

CONSTANTS
    Callers,   \* goroutines that fetch
    Free       \* the mutex is free

ASSUME FetcherAssumption == Free \notin Callers

VARIABLES
    SessionID,  \* GRPCFetcher.SessionID; NoId before ensureMCPSession
    mu,         \* who holds GRPCFetcher.mu across a step
    fc,         \* where each caller stands in Fetch
    sid         \* the session ID each of them uses; NoId outside Fetch

fetchVars == <<SessionID, mu, fc, sid>>

FetchTypeOK ==
    /\ SessionID \in Ids \cup {NoId}
    /\ mu \in Callers \cup {Free}
    /\ fc \in [Callers -> {"idle", "call", "lock", "refresh", "retry",
                           "ok", "error"}]
    /\ sid \in [Callers -> Ids \cup {NoId}]

FetchInit ==
    /\ SessionID = NoId
    /\ mu = Free
    /\ fc = [c \in Callers |-> "idle"]
    /\ sid = [c \in Callers |-> NoId]

-----------------------------------------------------------------------------
(* ensureMCPSession, once, before anything is fetched: as session ensure.  *)
(* The shell waits for `mcp run` from then on, and its variable no longer  *)
(* matters.                                                                *)
RunMCP ==
    /\ SessionID = NoId
    /\ cmd = "none"
    /\ cmd' = "mcp"
    /\ cid' = NoId
    /\ printed' = NoId
    /\ env' = NoId
    /\ UNCHANGED <<mu, fc, sid>>

EnsureMCPReuse ==
    /\ RunMCP
    /\ up /\ env \in Listed
    /\ SessionID' = env
    /\ UNCHANGED daemonVars

EnsureMCPStart ==
    /\ RunMCP
    /\ ~(up /\ env \in Listed)
    /\ SessionStart
    /\ SessionID' = Full(issued')

(* No session is found, be it that the list fails, and none is started.    *)
EnsureMCPFails ==
    /\ RunMCP
    /\ UNCHANGED <<daemonVars, SessionID>>

-----------------------------------------------------------------------------
Step(c, from, to) ==
    /\ fc[c] = from
    /\ fc' = [fc EXCEPT ![c] = to]

(* Fetch returns, and forgets the session ID.                              *)
Return(c, from, result) ==
    /\ Step(c, from, result)
    /\ sid' = [sid EXCEPT ![c] = NoId]

Fetch(c) ==
    /\ SessionID # NoId
    /\ mu = Free
    /\ Step(c, "idle", "call")
    /\ sid' = [sid EXCEPT ![c] = SessionID]
    /\ UNCHANGED <<daemonVars, shellVars, SessionID, mu>>

(* A call succeeds only with a live session; anything else (a vault, the   *)
(* daemon, the connection) may make it fail.                               *)
CallOk(c) ==
    /\ Known(sid[c], live)
    /\ \E from \in {"call", "retry"} : Return(c, from, "ok")
    /\ UNCHANGED <<daemonVars, shellVars, SessionID, mu>>

CallInvalid(c) ==
    /\ up /\ ~Known(sid[c], live)
    /\ \/ Step(c, "call", "lock") /\ UNCHANGED sid
       \/ Return(c, "retry", "error")
    /\ LookUp(sid[c])
    /\ UNCHANGED <<shellVars, SessionID, mu>>

CallFails(c) ==
    /\ \E from \in {"call", "retry"} : Return(c, from, "error")
    /\ UNCHANGED <<daemonVars, shellVars, SessionID, mu>>

(* Mutant of Refreshed: the session is not compared.                       *)
RefreshedNever(c) == FALSE

Refreshed(c) == SessionID # sid[c]

(* The mutex: whoever finds the session it used still there replaces it.   *)
LockRefreshed(c) ==
    /\ mu = Free
    /\ Refreshed(c)
    /\ Step(c, "lock", "retry")
    /\ sid' = [sid EXCEPT ![c] = SessionID]
    /\ UNCHANGED <<daemonVars, shellVars, SessionID, mu>>

LockRefresh(c) ==
    /\ mu = Free
    /\ ~Refreshed(c)
    /\ Step(c, "lock", "refresh")
    /\ mu' = c
    /\ UNCHANGED <<daemonVars, shellVars, SessionID, sid>>

RefreshOk(c) ==
    /\ SessionStart
    /\ Step(c, "refresh", "retry")
    /\ SessionID' = Full(issued')
    /\ sid' = [sid EXCEPT ![c] = Full(issued')]
    /\ mu' = Free
    /\ UNCHANGED shellVars

(* Mutant of RefreshFails: the mutex is kept.                              *)
RefreshFailsLocked(c) ==
    /\ Return(c, "refresh", "error")
    /\ UNCHANGED <<daemonVars, shellVars, SessionID, mu>>

RefreshFails(c) ==
    /\ Return(c, "refresh", "error")
    /\ mu' = Free
    /\ UNCHANGED <<daemonVars, shellVars, SessionID>>

FetchStep(c) ==
    \/ CallOk(c) \/ CallInvalid(c) \/ CallFails(c)
    \/ LockRefreshed(c) \/ LockRefresh(c)
    \/ RefreshOk(c) \/ RefreshFails(c)

(* A caller that has its answer may fetch again.                           *)
Again(c) ==
    /\ fc[c] \in {"ok", "error"}
    /\ fc' = [fc EXCEPT ![c] = "idle"]
    /\ UNCHANGED <<daemonVars, shellVars, SessionID, mu, sid>>
=============================================================================

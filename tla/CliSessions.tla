----------------------------- MODULE CliSessions -----------------------------
(***************************************************************************)
(* The commands that hold sessions (internal/cli): `get`, `session start`, *)
(* `session ensure` and `session end`, run one after the other in a shell  *)
(* that may export what they print as LOCKSMITH_SESSION, against a daemon  *)
(* whose sessions expire and do not survive its end.  An RPC is one step;  *)
(* SessionStore and SecretServer have its inside.                          *)
(*                                                                         *)
(* IDs are what is compared, so the model keeps the two forms of one       *)
(* apart: the ID itself, and the masked form that SessionList returns and  *)
(* `get` prints.                                                           *)
(***************************************************************************)
EXTENDS Naturals

CONSTANTS
    MaxSessions,  \* bound of the sessions ever started
    MaxRestarts,  \* bound of the daemon's restarts
    NoId          \* LOCKSMITH_SESSION is not set

Sids == 1 .. MaxSessions
Ids  == [sid : Sids, masked : BOOLEAN]

ASSUME SessionsAssumption ==
    /\ MaxSessions \in Nat
    /\ MaxRestarts \in Nat
    /\ NoId \notin Ids

VARIABLES
    up,        \* the daemon answers
    restarts,  \* how often it was started again
    issued,    \* sessions started so far
    stored,    \* sessions in the daemon's store
    live,      \* those of them that have not expired
    env,       \* LOCKSMITH_SESSION in the user's shell
    cmd,       \* the command that runs in it, and how far it is
    cid,       \* the session ID the command uses
    printed    \* the ID the last command told the user

daemonVars == <<up, restarts, issued, stored, live>>
shellVars  == <<env, cmd, cid, printed>>

Commands == {"none", "get", "getSecret", "start", "list", "ensure", "end",
             "mcp"}

SessionsTypeOK ==
    /\ up \in BOOLEAN
    /\ restarts \in 0 .. MaxRestarts
    /\ issued \in 0 .. MaxSessions
    /\ stored \subseteq 1 .. issued
    /\ live \subseteq stored
    /\ env \in Ids \cup {NoId}
    /\ cmd \in Commands
    /\ cid \in Ids \cup {NoId}
    /\ printed \in Ids \cup {NoId}

SessionsInit ==
    /\ up = TRUE
    /\ restarts = 0
    /\ issued = 0
    /\ stored = {}
    /\ live = {}
    /\ env = NoId
    /\ cmd = "none"
    /\ cid = NoId
    /\ printed = NoId

Full(s) == [sid |-> s, masked |-> FALSE]

(* HideSessionId: never the ID itself, which is longer.                    *)
HideSessionId(s) == [sid |-> s, masked |-> TRUE]

-----------------------------------------------------------------------------
(* What the daemon does.                                                   *)

(* A new session; its ID is issued'.                                       *)
SessionStart ==
    /\ up
    /\ issued < MaxSessions
    /\ issued' = issued + 1
    /\ stored' = stored \cup {issued + 1}
    /\ live' = live \cup {issued + 1}
    /\ UNCHANGED <<up, restarts>>

(* The IDs that SessionList returns, of expired sessions too until Cleanup *)
(* or a lookup removes them.                                               *)
Listed == {HideSessionId(s) : s \in stored}

(* GetSecret and SessionEnd look the ID up as it is given.                 *)
Known(id, sids) == up /\ id # NoId /\ ~id.masked /\ id.sid \in sids

(* GetSecret drops a session that it finds expired.                        *)
LookUp(id) ==
    /\ stored' = IF Known(id, stored \ live) THEN stored \ {id.sid} ELSE stored
    /\ UNCHANGED <<up, restarts, issued, live>>

Expire(s) ==
    /\ s \in live
    /\ live' = live \ {s}
    /\ UNCHANGED <<up, restarts, issued, stored, shellVars>>

Cleanup ==
    /\ up
    /\ stored # live
    /\ stored' = live
    /\ UNCHANGED <<up, restarts, issued, live, shellVars>>

DaemonStops ==
    /\ up
    /\ up' = FALSE
    /\ stored' = {}
    /\ live' = {}
    /\ UNCHANGED <<restarts, issued, shellVars>>

DaemonStarts ==
    /\ ~up
    /\ restarts < MaxRestarts
    /\ up' = TRUE
    /\ restarts' = restarts + 1
    /\ UNCHANGED <<issued, stored, live, shellVars>>

-----------------------------------------------------------------------------
(* The shell: one command at a time.                                       *)
Begin(c) ==
    /\ cmd = "none"
    /\ cmd' = c
    /\ printed' = NoId
    /\ UNCHANGED <<daemonVars, env>>

Finish(id) ==
    /\ cmd' = "none"
    /\ printed' = id
    /\ cid' = NoId
    /\ UNCHANGED env

(* `get` starts a session of its own when the environment has none.        *)
RunGet ==
    /\ Begin(IF env = NoId THEN "get" ELSE "getSecret")
    /\ cid' = env

RunSession ==
    /\ \E c \in {"start", "end"} : Begin(c)
    /\ UNCHANGED cid

RunEnsure ==
    /\ Begin(IF env = NoId THEN "ensure" ELSE "list")
    /\ UNCHANGED cid

GetStart ==
    /\ cmd = "get"
    /\ SessionStart
    /\ cmd' = "getSecret"
    /\ cid' = Full(issued')
    /\ printed' = HideSessionId(issued')
    /\ UNCHANGED env

(* Nothing but the store depends on whether the daemon accepts the ID.     *)
GetSecret ==
    /\ cmd = "getSecret"
    /\ Finish(printed)
    /\ LookUp(cid)

Start ==
    /\ cmd = "start"
    /\ SessionStart
    /\ Finish(Full(issued'))

(* session ensure: the list is searched for the ID in the environment.  A  *)
(* daemon that does not answer counts as a session that was not found.     *)
EnsureReuse ==
    /\ cmd = "list"
    /\ up /\ env \in Listed
    /\ Finish(env)
    /\ UNCHANGED daemonVars

EnsureNotFound ==
    /\ cmd = "list"
    /\ ~(up /\ env \in Listed)
    /\ cmd' = "ensure"
    /\ UNCHANGED <<daemonVars, env, cid, printed>>

EnsureStart ==
    /\ cmd = "ensure"
    /\ SessionStart
    /\ Finish(Full(issued'))

End ==
    /\ cmd = "end"
    /\ Known(env, stored)
    /\ stored' = stored \ {env.sid}
    /\ live' = live \ {env.sid}
    /\ Finish(NoId)
    /\ UNCHANGED <<up, restarts, issued>>

(* The daemon does not answer, or refuses; no ID is given to `end`.        *)
CommandFails ==
    /\ \/ cmd \in {"get", "start", "ensure"} /\ ~up
       \/ cmd = "end" /\ ~Known(env, stored)
    /\ Finish(NoId)
    /\ UNCHANGED daemonVars

(* The user exports the ID the last command printed.                       *)
Export ==
    /\ cmd = "none"
    /\ printed # NoId
    /\ env' = printed
    /\ UNCHANGED <<daemonVars, cmd, cid, printed>>

-----------------------------------------------------------------------------
ShellStep ==
    \/ RunGet \/ RunSession \/ RunEnsure \/ Export
    \/ GetStart \/ GetSecret \/ Start
    \/ EnsureReuse \/ EnsureNotFound \/ EnsureStart
    \/ End \/ CommandFails

DaemonStep ==
    \/ \E s \in Sids : Expire(s)
    \/ Cleanup \/ DaemonStops \/ DaemonStarts
=============================================================================

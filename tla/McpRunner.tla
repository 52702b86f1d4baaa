------------------------------ MODULE McpRunner ------------------------------
(***************************************************************************)
(* `locksmith mcp run -- command` (internal/mcp/runner.go): on the first   *)
(* line of stdin the environment's secrets are fetched and the MCP server  *)
(* is started as a child; then locksmith copies stdin to it and its stdout *)
(* back, and forwards signals, until the child's stdout ends.              *)
(*                                                                         *)
(* Lines are counted: pipes neither reorder nor alter them.                *)
(***************************************************************************)
EXTENDS McpSecrets

CONSTANTS
    Main,      \* the caller that is the runner's own goroutine
    MaxVars,   \* environment variables with secrets
    MaxLines   \* bound of the lines on stdin, and of those on stdout

ASSUME RunnerAssumption ==
    /\ Main \in Callers
    /\ MaxVars \in Nat /\ MaxLines \in Nat

VARIABLES
    rpc,       \* the runner's main goroutine
    resolved,  \* variables resolved so far
    taken,     \* lines read from stdin
    stdinOpen, \* the client has not closed stdin
    pump,      \* the goroutine that copies stdin
    toChild,   \* lines the child was given
    child,     \* the child process
    stdout,    \* the child's end of its stdout is open
    said,      \* lines the child wrote
    copied,    \* lines written to the client
    copyFailed, \* the client's end of stdout has failed
    sigCh,     \* signals waiting in the channel, which holds one
    relay,     \* ForwardSignals
    forwarded, \* a signal reached the child since the last was sent
    ended      \* how the process ended

runnerVars == <<rpc, resolved, taken, stdinOpen, pump, toChild, child, stdout,
                said, copied, copyFailed, sigCh, relay, forwarded,
                ended>>
vars == <<daemonVars, shellVars, fetchVars, runnerVars>>

RunnerTypeOK ==
    /\ rpc \in {"first", "resolve", "fetching", "notify", "copy", "wait",
                "exit"}
    /\ resolved \in 0 .. MaxVars
    /\ taken \in 0 .. MaxLines
    /\ toChild \in 0 .. MaxLines
    /\ stdinOpen \in BOOLEAN
    /\ pump \in {"off", "on", "ended"}
    /\ child \in {"none", "running", "exited", "reaped"}
    /\ stdout \in BOOLEAN
    /\ said \in 0 .. MaxLines
    /\ copied \in 0 .. said
    /\ copyFailed \in BOOLEAN
    /\ sigCh \in 0 .. 1
    /\ relay \in {"off", "on", "ended"}
    /\ forwarded \in BOOLEAN
    /\ ended \in {"no", "ok", "error", "killed"}

TypeOK == SessionsTypeOK /\ FetchTypeOK /\ RunnerTypeOK

Init ==
    /\ SessionsInit
    /\ FetchInit
    /\ rpc = "first"
    /\ resolved = 0
    /\ taken = 0
    /\ stdinOpen = TRUE
    /\ pump = "off"
    /\ toChild = 0
    /\ child = "none"
    /\ stdout = FALSE
    /\ said = 0
    /\ copied = 0
    /\ copyFailed = FALSE
    /\ sigCh = 0
    /\ relay = "off"
    /\ forwarded = FALSE
    /\ ended = "no"

-----------------------------------------------------------------------------
others == <<daemonVars, shellVars, fetchVars>>

(* ensureMCPSession fails before anything is read.                         *)
EnsureFails ==
    /\ rpc = "first"
    /\ EnsureMCPFails
    /\ rpc' = "exit"
    /\ ended' = "error"
    /\ UNCHANGED <<resolved, taken, stdinOpen, pump, toChild, child, stdout,
                   said, copied, copyFailed, sigCh, relay, forwarded>>

FirstLine ==
    /\ rpc = "first"
    /\ SessionID # NoId
    /\ taken < MaxLines
    /\ taken' = taken + 1
    /\ rpc' = "resolve"
    /\ UNCHANGED <<others, resolved, stdinOpen, pump, toChild, child, stdout,
                   said, copied, copyFailed, sigCh, relay, forwarded,
                   ended>>

(* stdin ends before a line came, or cannot be read: nothing is fetched,   *)
(* nothing is started.                                                     *)
NoLine ==
    /\ rpc = "first"
    /\ SessionID # NoId
    /\ rpc' = "exit"
    /\ ended' \in {"ok", "error"}
    /\ UNCHANGED <<others, resolved, taken, stdinOpen, pump, toChild, child,
                   stdout, said, copied, copyFailed, sigCh, relay,
                   forwarded>>

(* The variables are resolved one after the other.                         *)
ResolveVar ==
    /\ rpc = "resolve"
    /\ resolved < MaxVars
    /\ Fetch(Main)
    /\ rpc' = "fetching"
    /\ UNCHANGED <<resolved, taken, stdinOpen, pump, toChild, child, stdout,
                   said, copied, copyFailed, sigCh, relay, forwarded,
                   ended>>

VarResolved ==
    /\ rpc = "fetching"
    /\ fc[Main] = "ok"
    /\ Again(Main)
    /\ resolved' = resolved + 1
    /\ rpc' = "resolve"
    /\ UNCHANGED <<taken, stdinOpen, pump, toChild, child, stdout, said,
                   copied, copyFailed, sigCh, relay, forwarded,
                   ended>>

(* Mutant of VarFails: the child is started without the rest of them.      *)
VarFailsSkipped ==
    /\ rpc = "fetching"
    /\ fc[Main] = "error"
    /\ child' = "running"
    /\ stdout' = TRUE
    /\ rpc' = "notify"
    /\ UNCHANGED <<others, resolved, taken, stdinOpen, pump, toChild, said,
                   copied, copyFailed, sigCh, relay, forwarded,
                   ended>>

VarFails ==
    /\ rpc = "fetching"
    /\ fc[Main] = "error"
    /\ rpc' = "exit"
    /\ ended' = "error"
    /\ UNCHANGED <<others, resolved, taken, stdinOpen, pump, toChild, child,
                   stdout, said, copied, copyFailed, sigCh, relay,
                   forwarded>>

StartChild ==
    /\ rpc = "resolve"
    /\ resolved = MaxVars
    /\ child' = "running"
    /\ stdout' = TRUE
    /\ rpc' = "notify"
    /\ UNCHANGED <<others, resolved, taken, stdinOpen, pump, toChild, said,
                   copied, copyFailed, sigCh, relay, forwarded,
                   ended>>

StartFails ==
    /\ rpc = "resolve"
    /\ resolved = MaxVars
    /\ rpc' = "exit"
    /\ ended' = "error"
    /\ UNCHANGED <<others, resolved, taken, stdinOpen, pump, toChild, child,
                   stdout, said, copied, copyFailed, sigCh, relay,
                   forwarded>>

(* signal.Notify, and the goroutines that relay signals and copy stdin.    *)
Notify ==
    /\ rpc = "notify"
    /\ relay' = "on"
    /\ pump' = "on"
    /\ rpc' = "copy"
    /\ UNCHANGED <<others, resolved, taken, stdinOpen, toChild, child, stdout,
                   said, copied, copyFailed, sigCh, forwarded, ended>>

CopyOut ==
    /\ rpc = "copy"
    /\ copied < said
    /\ copied' = copied + 1
    /\ UNCHANGED <<others, rpc, resolved, taken, stdinOpen, pump, toChild,
                   child, stdout, said, copyFailed, sigCh, relay,
                   forwarded, ended>>

(* Writing to the client fails.  If nobody reads any more, SIGPIPE ends    *)
(* the process; after another error it still waits for the child.          *)
CopyFails ==
    /\ rpc = "copy"
    /\ copied < said
    /\ \/ rpc' = "wait" /\ copyFailed' = TRUE /\ UNCHANGED ended
       \/ rpc' = "exit" /\ ended' = "killed" /\ UNCHANGED copyFailed
    /\ UNCHANGED <<others, resolved, taken, stdinOpen, pump, toChild, child,
                   stdout, said, copied, sigCh, relay, forwarded>>

(* Mutants of OutEnd: Wait, which closes the pipe, comes as soon as the    *)
(* child has exited; the copying of stdin is waited for as well.           *)
OutEndEarly ==
    /\ rpc = "copy"
    /\ child = "exited"
    /\ rpc' = "wait"
    /\ UNCHANGED <<others, resolved, taken, stdinOpen, pump, toChild, child,
                   stdout, said, copied, copyFailed, sigCh, relay,
                   forwarded, ended>>

OutEndAfterPump ==
    /\ rpc = "copy"
    /\ ~stdout /\ copied = said
    /\ pump = "ended"
    /\ rpc' = "wait"
    /\ UNCHANGED <<others, resolved, taken, stdinOpen, pump, toChild, child,
                   stdout, said, copied, copyFailed, sigCh, relay,
                   forwarded, ended>>

OutEnd ==
    /\ rpc = "copy"
    /\ ~stdout /\ copied = said
    /\ rpc' = "wait"
    /\ UNCHANGED <<others, resolved, taken, stdinOpen, pump, toChild, child,
                   stdout, said, copied, copyFailed, sigCh, relay,
                   forwarded, ended>>

(* cmd.Wait; then the relay is told, and the process ends.                 *)
WaitChild ==
    /\ rpc = "wait"
    /\ child = "exited"
    /\ child' = "reaped"
    /\ relay' = "ended"
    /\ rpc' = "exit"
    /\ ended' \in IF copyFailed THEN {"error"} ELSE {"ok", "error"}
    /\ UNCHANGED <<others, resolved, taken, stdinOpen, pump, toChild, stdout,
                   said, copied, copyFailed, sigCh, forwarded>>

-----------------------------------------------------------------------------
(* PumpStdio's goroutine: the first line is written before any other.      *)
PumpLine ==
    /\ pump = "on"
    /\ rpc # "exit"
    /\ child = "running"
    /\ \/ toChild < taken /\ UNCHANGED taken
       \/ /\ toChild = taken
          /\ stdinOpen /\ taken < MaxLines
          /\ taken' = taken + 1
    /\ toChild' = toChild + 1
    /\ UNCHANGED <<others, rpc, resolved, stdinOpen, pump, child, stdout, said,
                   copied, copyFailed, sigCh, relay, forwarded,
                   ended>>

(* stdin ends, or the child no longer reads.                               *)
PumpEnd ==
    /\ pump = "on"
    /\ rpc # "exit"
    /\ (~stdinOpen /\ toChild = taken) \/ child # "running"
    /\ pump' = "ended"
    /\ UNCHANGED <<others, rpc, resolved, taken, stdinOpen, toChild, child,
                   stdout, said, copied, copyFailed, sigCh, relay,
                   forwarded, ended>>

CloseStdin ==
    /\ stdinOpen
    /\ rpc \notin {"first", "exit"}
    /\ stdinOpen' = FALSE
    /\ UNCHANGED <<others, rpc, resolved, taken, pump, toChild, child, stdout,
                   said, copied, copyFailed, sigCh, relay, forwarded,
                   ended>>

(* Mutant of ForwardSignal: it is taken and not passed on.                 *)
ForwardSignalDropped ==
    /\ relay = "on" /\ rpc # "exit"
    /\ sigCh = 1
    /\ sigCh' = 0
    /\ UNCHANGED <<others, rpc, resolved, taken, stdinOpen, pump, toChild,
                   child, stdout, said, copied, copyFailed, relay,
                   forwarded, ended>>

(* A child that is gone makes Signal fail, which is only logged.           *)
ForwardSignal ==
    /\ relay = "on" /\ rpc # "exit"
    /\ sigCh = 1
    /\ sigCh' = 0
    /\ forwarded' = (forwarded \/ child = "running")
    /\ UNCHANGED <<others, rpc, resolved, taken, stdinOpen, pump, toChild,
                   child, stdout, said, copied, copyFailed, relay,
                   ended>>

(* SIGTERM or SIGINT.  Before Notify it ends the process, and leaves the   *)
(* child without a parent; afterwards it waits in the channel, unless one  *)
(* waits there already.                                                    *)
Signal ==
    /\ child # "none" /\ rpc # "exit"
    /\ IF relay = "off"
          THEN /\ rpc' = "exit" /\ ended' = "killed"
               /\ UNCHANGED <<sigCh, forwarded>>
          ELSE /\ sigCh' = 1 /\ forwarded' = FALSE
               /\ UNCHANGED <<rpc, ended>>
    /\ UNCHANGED <<others, resolved, taken, stdinOpen, pump, toChild, child,
                   stdout, said, copied, copyFailed, relay>>

-----------------------------------------------------------------------------
(* The child answers what it was given, may close stdout before it exits,  *)
(* and may leave stdout to a process of its own when it does.  What it     *)
(* does after locksmith has ended is left out.                             *)
ChildSays ==
    /\ rpc # "exit"
    /\ child = "running" /\ stdout
    /\ said < toChild
    /\ said' = said + 1
    /\ UNCHANGED <<others, rpc, resolved, taken, stdinOpen, pump, toChild,
                   child, stdout, copied, copyFailed, sigCh, relay,
                   forwarded, ended>>

ChildCloses ==
    /\ rpc # "exit"
    /\ stdout
    /\ stdout' = FALSE
    /\ UNCHANGED <<others, rpc, resolved, taken, stdinOpen, pump, toChild,
                   child, said, copied, copyFailed, sigCh, relay,
                   forwarded, ended>>

ChildExits ==
    /\ rpc # "exit"
    /\ child = "running"
    /\ child' = "exited"
    /\ UNCHANGED <<others, rpc, resolved, taken, stdinOpen, pump, toChild,
                   stdout, said, copied, copyFailed, sigCh, relay,
                   forwarded, ended>>

-----------------------------------------------------------------------------
RunnerStep ==
    \/ ResolveVar \/ VarResolved \/ VarFails
    \/ StartChild \/ StartFails \/ Notify
    \/ CopyOut \/ OutEnd \/ WaitChild

Environment ==
    \/ FirstLine \/ NoLine \/ CloseStdin \/ Signal \/ CopyFails
    \/ ChildSays \/ ChildCloses \/ ChildExits

(* Once the child runs, nothing of the model depends on the daemon.        *)
FetchNext ==
    /\ child = "none" /\ rpc # "exit"
    /\ \/ EnsureMCPReuse \/ EnsureMCPStart
       \/ \E c \in Callers : FetchStep(c)
       \/ \E c \in Callers \ {Main} : Fetch(c) \/ Again(c)
    /\ UNCHANGED runnerVars

Next ==
    \/ RunnerStep \/ PumpLine \/ PumpEnd \/ ForwardSignal
    \/ Environment
    \/ EnsureFails \/ FetchNext
    \/ /\ child = "none" /\ rpc # "exit"
       /\ ShellStep \/ DaemonStep
       /\ UNCHANGED <<fetchVars, runnerVars>>

(* The daemon answers or the call fails; Go's mutexes starve nobody; the   *)
(* goroutines of the runner are scheduled.  The shell, the child, the      *)
(* client and the signals are free.                                        *)
Fairness ==
    /\ \A c \in Callers :
          SF_vars(/\ child = "none" /\ rpc # "exit"
                  /\ FetchStep(c) /\ UNCHANGED runnerVars)
    /\ SF_vars(RunnerStep)
    /\ WF_vars(ForwardSignal)

Spec == Init /\ [][Next]_vars /\ Fairness

-----------------------------------------------------------------------------
(* The fetcher never gives up a session that is still good: of the callers *)
(* that find a session expired, one replaces it.                           *)
LiveNotReplaced ==
    [][SessionID # NoId /\ SessionID' # SessionID => ~Known(SessionID, live)]_vars

(* The child is started with all its variables, after the first line.      *)
ChildHasSecrets ==
    child # "none" => resolved = MaxVars /\ taken > 0

(* When the process ends by itself, the child has been waited for, and all *)
(* it wrote has been copied, unless the client's end failed: that is told. *)
OutputComplete ==
    ended \in {"ok", "error"} /\ child # "none" =>
        /\ child = "reaped"
        /\ copied = said \/ (copyFailed /\ ended = "error")

(* The client gets a server that has its secrets, and all it answers.      *)
ChildServed == TypeOK /\ ChildHasSecrets /\ OutputComplete

(* Each Fetch returns, whoever else holds the mutex or fails.              *)
FetchReturns ==
    \A c \in Callers :
        (fc[c] \notin {"idle", "ok", "error"}) ~>
            (fc[c] \in {"ok", "error"} \/ rpc = "exit" \/ child # "none")

(* When the child is gone and its stdout is closed, so is the runner, even *)
(* if nobody closes stdin.                                                 *)
RunnerEndsWithChild ==
    (child = "exited" /\ ~stdout) ~> (rpc = "exit")

(* After a signal, also one that finds the channel full and is dropped, a  *)
(* signal reaches the child, unless the child is gone or SIGPIPE ends      *)
(* locksmith first.                                                        *)
SignalsForwarded ==
    (sigCh = 1 /\ child = "running") ~>
        (forwarded \/ child # "running" \/ rpc = "exit")

(* The runner's goroutines keep up with the child, whichever of its ends   *)
(* comes first: its exit, its stdout, the client's stdin, or a signal.     *)
RunnerFollowsChild == RunnerEndsWithChild /\ SignalsForwarded

(* docs/agent-integration.md:24: "session ensure reuses an existing valid  *)
(* session from the environment".                                          *)
EnsureReuses ==
    [][cmd = "list" /\ cmd' = "ensure" => ~Known(env, live)]_vars
=============================================================================

--------------------------- MODULE McpRunnerProofs ---------------------------
(***************************************************************************)
(* What holds of McpRunner, and with it of the fetcher of McpSecrets and   *)
(* the shell of CliSessions, for any number of fetching goroutines,        *)
(* sessions, restarts, variables, lines and signals.                       *)
(***************************************************************************)
EXTENDS McpRunner, TLAPS

(* The fetcher's session, and what each caller uses, was issued, so it can *)
(* never come to life again; who waits for the mutex has seen its session  *)
(* dead; who refreshes holds the mutex, and the fetcher's session is still *)
(* the dead one.                                                           *)
FetchInv ==
    /\ SessionID # NoId => SessionID.sid \in 1 .. issued
    /\ \A c \in Callers :
          /\ fc[c] # "idle" => SessionID # NoId
          /\ fc[c] \in {"call", "lock", "refresh", "retry"} =>
                sid[c] # NoId /\ sid[c].sid \in 1 .. issued
          /\ fc[c] \in {"lock", "refresh"} =>
                sid[c].masked \/ sid[c].sid \notin live
          /\ fc[c] = "refresh" => mu = c /\ SessionID = sid[c]

(* What each place of the runner's main goroutine has behind it.           *)
RunnerInv ==
    /\ rpc \in {"first", "resolve", "fetching"} => child = "none"
    /\ rpc \in {"resolve", "fetching"} => taken > 0
    /\ rpc = "fetching" => resolved < MaxVars
    /\ child # "none" => resolved = MaxVars /\ taken > 0
    /\ rpc = "wait" => copyFailed \/ (~stdout /\ copied = said)
    /\ ended # "no" => rpc = "exit"
    /\ ended \in {"ok", "error"} /\ child # "none" =>
          /\ child = "reaped"
          /\ (~stdout /\ copied = said) \/ (copyFailed /\ ended = "error")

Fetching == SessionsTypeOK /\ FetchTypeOK /\ FetchInv
Running  == RunnerTypeOK /\ RunnerInv
IInv     == Fetching /\ Running

LEMMA InitInv == Init => IInv
<1> SUFFICES ASSUME Init
             PROVE  IInv
  OBVIOUS
<1> USE SessionsAssumption, FetcherAssumption, RunnerAssumption
        DEF Init, SessionsInit, FetchInit
<1>1. SessionsTypeOK
  BY DEF SessionsTypeOK, Commands
<1>2. FetchTypeOK /\ FetchInv
  BY DEF FetchTypeOK, FetchInv
<1>3. RunnerTypeOK
  <2>1. stdinOpen \in BOOLEAN /\ stdout \in BOOLEAN /\ forwarded \in BOOLEAN
        /\ copyFailed \in BOOLEAN
    OBVIOUS
  <2>2. QED
    BY <2>1 DEF RunnerTypeOK
<1>4. RunnerInv
  BY DEF RunnerInv
<1>5. QED
  BY <1>1, <1>2, <1>3, <1>4 DEF IInv, Fetching, Running

LEMMA FetchingKept ==
    ASSUME Fetching, UNCHANGED <<daemonVars, shellVars, fetchVars>>
    PROVE  Fetching'
BY DEF Fetching, SessionsTypeOK, FetchTypeOK, FetchInv, daemonVars, shellVars,
       fetchVars

LEMMA RunningKept ==
    ASSUME Running, UNCHANGED runnerVars
    PROVE  Running'
BY DEF Running, RunnerTypeOK, RunnerInv, runnerVars

-----------------------------------------------------------------------------
(* The daemon and the shell.                                               *)

(* A session that is started is none of those that were issued before.     *)
LEMMA StartStep ==
    ASSUME SessionsTypeOK, SessionStart
    PROVE  /\ issued' = issued + 1 /\ issued' \in 1 .. MaxSessions
           /\ stored' \subseteq 1 .. issued' /\ live' \subseteq stored'
           /\ up' = up /\ restarts' = restarts
           /\ Full(issued') \in Ids
           /\ HideSessionId(issued') \in Ids
           /\ \A s \in 1 .. issued : s \in live' => s \in live
BY SessionsAssumption
   DEF SessionsTypeOK, SessionStart, Full, HideSessionId, Ids, Sids

(* A look-up takes no session that is good.                                *)
LEMMA LookUpStep ==
    ASSUME SessionsTypeOK, NEW id, LookUp(id)
    PROVE  /\ up' = up /\ restarts' = restarts /\ issued' = issued
           /\ live' = live /\ stored' \subseteq stored /\ live' \subseteq stored'
BY DEF SessionsTypeOK, LookUp, Known

(* The fetcher only depends on which sessions are alive, of those issued.  *)
LEMMA FetchInvKept ==
    ASSUME FetchInv, SessionsTypeOK, issued' \in Nat, issued <= issued',
           \A s \in 1 .. issued : s \in live' => s \in live,
           UNCHANGED fetchVars
    PROVE  FetchInv'
BY SessionsAssumption DEF FetchInv, SessionsTypeOK, fetchVars

LEMMA DaemonMoves ==
    ASSUME Fetching, DaemonStep, UNCHANGED fetchVars
    PROVE  Fetching'
<1> USE SessionsAssumption DEF Fetching
<1> DEFINE Fewer == SessionsTypeOK' /\ issued' = issued /\ live' \subseteq live
<1>a. ASSUME NEW s \in Sids, Expire(s) PROVE Fewer
  BY <1>a DEF Expire, SessionsTypeOK, shellVars
<1>b. ASSUME Cleanup PROVE Fewer
  BY <1>b DEF Cleanup, SessionsTypeOK, shellVars
<1>c. ASSUME DaemonStops \/ DaemonStarts PROVE Fewer
  <2>1. up' \in BOOLEAN
    BY <1>c DEF DaemonStops, DaemonStarts
  <2>2. restarts' \in 0 .. MaxRestarts
    BY <1>c DEF DaemonStops, DaemonStarts, SessionsTypeOK
  <2>3. issued' = issued /\ stored' \subseteq stored /\ live' \subseteq live
        /\ live' \subseteq stored' /\ UNCHANGED shellVars
    BY <1>c DEF DaemonStops, DaemonStarts, SessionsTypeOK
  <2>4. QED
    BY <2>1, <2>2, <2>3 DEF SessionsTypeOK, shellVars
<1>1. Fewer
  BY <1>a, <1>b, <1>c DEF DaemonStep
<1>2. FetchInv'
  BY <1>1, FetchInvKept DEF SessionsTypeOK
<1>3. FetchTypeOK'
  BY DEF FetchTypeOK, fetchVars
<1>4. QED
  BY <1>1, <1>2, <1>3

LEMMA ShellMoves ==
    ASSUME Fetching, ShellStep, UNCHANGED fetchVars
    PROVE  Fetching'
<1> USE SessionsAssumption DEF Fetching
<1> DEFINE Grown == /\ SessionsTypeOK'
                    /\ issued' \in Nat /\ issued <= issued'
                    /\ \A s \in 1 .. issued : s \in live' => s \in live
<1> DEFINE Commanded == /\ env' \in Ids \cup {NoId} /\ cmd' \in Commands
                        /\ cid' \in Ids \cup {NoId} /\ printed' \in Ids \cup {NoId}
<1>0. ASSUME NEW id \in Ids \cup {NoId}, Finish(id) PROVE Commanded
  BY <1>0 DEF Finish, SessionsTypeOK, Commands
<1>1. ASSUME RunGet \/ RunSession \/ RunEnsure \/ Export PROVE Grown
  <2>1. Commanded
    BY <1>1 DEF RunGet, RunSession, RunEnsure, Export, Begin, SessionsTypeOK,
                Commands
  <2>2. UNCHANGED daemonVars
    BY <1>1 DEF RunGet, RunSession, RunEnsure, Export, Begin
  <2>3. QED
    BY <2>1, <2>2 DEF daemonVars, SessionsTypeOK
<1>2. ASSUME GetStart PROVE Grown
  BY <1>2, StartStep DEF GetStart, SessionsTypeOK, Commands
<1>3. ASSUME GetSecret PROVE Grown
  <2>1. Commanded
    BY <1>3, <1>0 DEF GetSecret, SessionsTypeOK
  <2>2. /\ up' = up /\ restarts' = restarts /\ issued' = issued
        /\ live' = live /\ stored' \subseteq stored /\ live' \subseteq stored'
    BY <1>3, LookUpStep DEF GetSecret
  <2>3. QED
    BY <2>1, <2>2 DEF SessionsTypeOK
<1>4. ASSUME Start \/ EnsureStart PROVE Grown
  BY <1>4, StartStep DEF Start, EnsureStart, Finish, SessionsTypeOK, Commands
<1>5. ASSUME EnsureReuse \/ EnsureNotFound \/ CommandFails PROVE Grown
  <2>1. Commanded
    <3>1. CASE EnsureNotFound
      BY <3>1 DEF EnsureNotFound, SessionsTypeOK, Commands
    <3>2. CASE EnsureReuse \/ CommandFails
      BY <3>2, <1>0 DEF EnsureReuse, CommandFails, SessionsTypeOK
    <3>3. QED
      BY <1>5, <3>1, <3>2
  <2>2. UNCHANGED daemonVars
    BY <1>5 DEF EnsureReuse, EnsureNotFound, CommandFails
  <2>3. QED
    BY <2>1, <2>2 DEF daemonVars, SessionsTypeOK
<1>6. ASSUME End PROVE Grown
  <2>1. Commanded
    BY <1>6, <1>0 DEF End
  <2>2. UNCHANGED <<up, restarts, issued>> /\ stored' \subseteq stored
        /\ live' \subseteq live /\ live' \subseteq stored'
    BY <1>6 DEF End, SessionsTypeOK
  <2>3. QED
    BY <2>1, <2>2 DEF SessionsTypeOK
<1>7. Grown
  BY <1>1, <1>2, <1>3, <1>4, <1>5, <1>6 DEF ShellStep
<1>8. FetchTypeOK'
  BY DEF FetchTypeOK, fetchVars
<1>9. QED
  BY <1>7, <1>8, FetchInvKept

-----------------------------------------------------------------------------
(* The fetcher.                                                            *)

(* The session of an `mcp run` is listed, or new.                          *)
LEMMA EnsureMCPMoves ==
    ASSUME Fetching, EnsureMCPReuse \/ EnsureMCPStart \/ EnsureMCPFails
    PROVE  Fetching'
<1> USE SessionsAssumption, FetcherAssumption DEF Fetching, RunMCP
<1>1. UNCHANGED <<mu, fc, sid>> /\ SessionID = NoId
      /\ cmd' = "mcp" /\ cid' = NoId /\ printed' = NoId /\ env' = NoId
  BY DEF EnsureMCPReuse, EnsureMCPStart, EnsureMCPFails
<1>2. \A c \in Callers : fc[c] = "idle"
  BY <1>1 DEF FetchInv
<1>3. CASE EnsureMCPReuse
  <2>1. SessionID' \in Ids /\ SessionID'.sid \in 1 .. issued
    <3>1. PICK s \in stored : SessionID' = HideSessionId(s)
      BY <1>3 DEF EnsureMCPReuse, Listed
    <3>2. s \in 1 .. issued /\ s \in Sids
      BY DEF SessionsTypeOK, Sids
    <3>3. QED
      BY <3>1, <3>2 DEF HideSessionId, Ids
  <2>2. UNCHANGED daemonVars
    BY <1>3 DEF EnsureMCPReuse
  <2>3. QED
    BY <1>1, <1>2, <2>1, <2>2
       DEF SessionsTypeOK, FetchTypeOK, FetchInv, daemonVars, Commands
<1>4. CASE EnsureMCPStart
  <2>1. SessionStart /\ SessionID' = Full(issued')
    BY <1>4 DEF EnsureMCPStart
  <2>2. SessionsTypeOK'
    BY <1>1, <2>1, StartStep DEF SessionsTypeOK, Commands
  <2>3. SessionID' \in Ids /\ SessionID'.sid \in 1 .. issued'
    BY <2>1, <2>2, StartStep DEF Full, SessionsTypeOK
  <2>4. FetchTypeOK'
    BY <1>1, <2>3 DEF FetchTypeOK
  <2>5. FetchInv'
    BY <1>1, <1>2, <2>1, <2>3, StartStep DEF FetchInv, SessionsTypeOK
  <2>6. QED
    BY <2>2, <2>4, <2>5
<1>5. CASE EnsureMCPFails
  <2>1. UNCHANGED <<daemonVars, SessionID>>
    BY <1>5 DEF EnsureMCPFails
  <2>2. QED
    BY <1>1, <2>1 DEF SessionsTypeOK, FetchTypeOK, FetchInv, daemonVars, Commands
<1>6. QED
  BY <1>3, <1>4, <1>5

LEMMA FetchMoves ==
    ASSUME Fetching, NEW c \in Callers, Fetch(c) \/ Again(c)
    PROVE  Fetching'
<1> USE SessionsAssumption, FetcherAssumption DEF Fetching
<1>1. UNCHANGED <<daemonVars, shellVars, SessionID, mu>>
  BY DEF Fetch, Again
<1>2. SessionsTypeOK'
  BY <1>1 DEF SessionsTypeOK, daemonVars, shellVars
<1>3. FetchTypeOK'
  BY <1>1 DEF Fetch, Again, Step, FetchTypeOK
<1>4. FetchInv'
  BY <1>1 DEF Fetch, Again, Step, FetchTypeOK, FetchInv, daemonVars
<1>5. QED
  BY <1>2, <1>3, <1>4

LEMMA FetchStepMoves ==
    ASSUME Fetching, NEW c \in Callers, FetchStep(c)
    PROVE  Fetching'
<1> USE SessionsAssumption, FetcherAssumption DEF Fetching, Step, Return
<1>1. CASE CallOk(c) \/ CallFails(c)
  BY <1>1 DEF CallOk, CallFails, SessionsTypeOK, FetchTypeOK, FetchInv,
              daemonVars, shellVars
<1>2. CASE CallInvalid(c)
  <2>1. /\ up' = up /\ restarts' = restarts /\ issued' = issued
        /\ live' = live /\ stored' \subseteq stored /\ live' \subseteq stored'
    BY <1>2, LookUpStep DEF CallInvalid
  <2>2. SessionsTypeOK'
    BY <1>2, <2>1 DEF CallInvalid, SessionsTypeOK, shellVars
  <2>3. FetchTypeOK'
    BY <1>2 DEF CallInvalid, FetchTypeOK
  <2>4. fc[c] = "call" => sid[c].masked \/ sid[c].sid \notin live
    BY <1>2 DEF CallInvalid, Known, FetchInv
  <2>5. FetchInv'
    BY <1>2, <2>1, <2>4 DEF CallInvalid, FetchInv, FetchTypeOK
  <2>6. QED
    BY <2>2, <2>3, <2>5
<1>3. CASE LockRefreshed(c)
  <2>1. UNCHANGED <<daemonVars, shellVars, SessionID, mu>>
    BY <1>3 DEF LockRefreshed
  <2>2. SessionsTypeOK'
    BY <2>1 DEF SessionsTypeOK, daemonVars, shellVars
  <2>3. FetchTypeOK'
    BY <1>3, <2>1 DEF LockRefreshed, FetchTypeOK
  <2>4. SessionID # NoId
    BY <1>3 DEF LockRefreshed, Refreshed, FetchTypeOK, FetchInv
  <2>5. FetchInv'
    BY <1>3, <2>1, <2>4 DEF LockRefreshed, FetchTypeOK, FetchInv, daemonVars
  <2>6. QED
    BY <2>2, <2>3, <2>5
<1>4. CASE LockRefresh(c)
  BY <1>4 DEF LockRefresh, Refreshed, SessionsTypeOK, FetchTypeOK, FetchInv,
              daemonVars, shellVars
<1>5. CASE RefreshOk(c)
  <2>1. SessionStart /\ SessionID' = Full(issued') /\ mu' = Free
        /\ UNCHANGED shellVars /\ fc[c] = "refresh"
        /\ fc' = [fc EXCEPT ![c] = "retry"]
        /\ sid' = [sid EXCEPT ![c] = Full(issued')]
    BY <1>5 DEF RefreshOk
  <2>2. SessionsTypeOK'
    BY <2>1, StartStep DEF SessionsTypeOK, shellVars
  <2>3. SessionID' \in Ids /\ SessionID'.sid \in 1 .. issued'
    BY <2>1, StartStep DEF Full, SessionsTypeOK
  <2>4. FetchTypeOK'
    BY <2>1, <2>3 DEF FetchTypeOK
  <2>5. \A d \in Callers \ {c} : fc[d] # "refresh"
    BY <2>1 DEF FetchInv
  <2>6. FetchInv'
    BY <2>1, <2>3, <2>5, StartStep DEF FetchInv, FetchTypeOK, SessionsTypeOK
  <2>7. QED
    BY <2>2, <2>4, <2>6
<1>6. CASE RefreshFails(c)
  BY <1>6 DEF RefreshFails, SessionsTypeOK, FetchTypeOK, FetchInv, daemonVars,
              shellVars
<1>7. QED
  BY <1>1, <1>2, <1>3, <1>4, <1>5, <1>6 DEF FetchStep

-----------------------------------------------------------------------------
(* The runner.                                                             *)
LEMMA RunnerMoves ==
    ASSUME Running, RunnerStep
    PROVE  Running'
<1> USE RunnerAssumption DEF Running, RunnerInv, RunnerTypeOK
<1>1. CASE ResolveVar
  BY <1>1 DEF ResolveVar
<1>2. CASE VarResolved
  BY <1>2 DEF VarResolved
<1>3. CASE VarFails
  BY <1>3 DEF VarFails
<1>4. CASE StartChild
  BY <1>4 DEF StartChild
<1>5. CASE StartFails
  BY <1>5 DEF StartFails
<1>6. CASE Notify
  BY <1>6 DEF Notify
<1>7. CASE CopyOut
  BY <1>7 DEF CopyOut
<1>8. CASE OutEnd
  BY <1>8 DEF OutEnd
<1>9. CASE WaitChild
  BY <1>9 DEF WaitChild
<1>10. QED
  BY <1>1, <1>2, <1>3, <1>4, <1>5, <1>6, <1>7, <1>8, <1>9 DEF RunnerStep

LEMMA PumpMoves ==
    ASSUME Running, PumpLine \/ PumpEnd \/ ForwardSignal
    PROVE  Running'
<1> USE RunnerAssumption DEF Running, RunnerInv, RunnerTypeOK
<1>1. CASE PumpLine
  BY <1>1 DEF PumpLine
<1>2. CASE PumpEnd
  BY <1>2 DEF PumpEnd
<1>3. CASE ForwardSignal
  BY <1>3 DEF ForwardSignal
<1>4. QED
  BY <1>1, <1>2, <1>3

LEMMA EnvironmentMoves ==
    ASSUME Running, Environment
    PROVE  Running'
<1> USE RunnerAssumption DEF Running, RunnerInv, RunnerTypeOK
<1>0. CASE CopyFails
  BY <1>0 DEF CopyFails
<1>1. CASE FirstLine
  BY <1>1 DEF FirstLine
<1>2. CASE NoLine
  BY <1>2 DEF NoLine
<1>3. CASE CloseStdin
  BY <1>3 DEF CloseStdin
<1>4. CASE Signal
  <2>1. CASE relay = "off"
    BY <1>4, <2>1 DEF Signal
  <2>2. CASE relay # "off"
    <3>1. rpc' = rpc /\ ended' = ended /\ sigCh' = 1 /\ forwarded' \in BOOLEAN
      BY <1>4, <2>2 DEF Signal
    <3>2. QED
      BY <1>4, <3>1 DEF Signal
  <2>3. QED
    BY <2>1, <2>2
<1>5. CASE ChildSays
  BY <1>5 DEF ChildSays
<1>6. CASE ChildCloses
  BY <1>6 DEF ChildCloses
<1>7. CASE ChildExits
  BY <1>7 DEF ChildExits
<1>8. QED
  BY <1>0, <1>1, <1>2, <1>3, <1>4, <1>5, <1>6, <1>7 DEF Environment

LEMMA EnsureFailsMoves ==
    ASSUME Running, EnsureFails
    PROVE  Running'
BY DEF Running, RunnerInv, RunnerTypeOK, EnsureFails

-----------------------------------------------------------------------------
LEMMA NextInv == IInv /\ [Next]_vars => IInv'
<1> SUFFICES ASSUME IInv, [Next]_vars
             PROVE  IInv'
  OBVIOUS
<1> USE DEF IInv
<1>1. CASE RunnerStep
  <2>1. Main \in Callers
    BY RunnerAssumption
  <2>2. \/ Fetch(Main) \/ Again(Main)
        \/ UNCHANGED <<daemonVars, shellVars, fetchVars>>
    BY <1>1 DEF RunnerStep, ResolveVar, VarResolved, VarFails, StartChild,
                StartFails, Notify, CopyOut, OutEnd, WaitChild, others
  <2>3. Fetching'
    BY <2>1, <2>2, FetchMoves, FetchingKept
  <2>4. QED
    BY <1>1, <2>3, RunnerMoves
<1>2. CASE PumpLine \/ PumpEnd \/ ForwardSignal
  <2>1. UNCHANGED <<daemonVars, shellVars, fetchVars>>
    BY <1>2 DEF PumpLine, PumpEnd, ForwardSignal, others
  <2>2. QED
    BY <1>2, <2>1, FetchingKept, PumpMoves
<1>3. CASE Environment
  <2>1. UNCHANGED <<daemonVars, shellVars, fetchVars>>
    BY <1>3 DEF Environment, FirstLine, NoLine, CopyFails, CloseStdin, Signal,
                ChildSays, ChildCloses, ChildExits, others
  <2>2. QED
    BY <1>3, <2>1, FetchingKept, EnvironmentMoves
<1>4. CASE FetchNext
  <2>1. Running'
    BY <1>4, RunningKept DEF FetchNext
  <2>2. \/ EnsureMCPReuse \/ EnsureMCPStart
        \/ \E c \in Callers : FetchStep(c) \/ Fetch(c) \/ Again(c)
    BY <1>4 DEF FetchNext
  <2>3. QED
    BY <2>1, <2>2, EnsureMCPMoves, FetchStepMoves, FetchMoves
<1>8. CASE EnsureFails
  BY <1>8, EnsureMCPMoves, EnsureFailsMoves DEF EnsureFails
<1>5. CASE (ShellStep \/ DaemonStep) /\ UNCHANGED <<fetchVars, runnerVars>>
  BY <1>5, ShellMoves, DaemonMoves, RunningKept
<1>6. CASE UNCHANGED vars
  BY <1>6, FetchingKept, RunningKept DEF vars
<1>7. QED
  BY <1>1, <1>2, <1>3, <1>4, <1>5, <1>6, <1>8 DEF Next

LEMMA Invariance == Spec => []IInv
  BY InitInv, NextInv, PTL DEF Spec

-----------------------------------------------------------------------------
(* A child never runs without all its secrets, and when the runner has     *)
(* ended by itself the client has all the child wrote: for any number of   *)
(* lines, whoever closes, exits or signals first.                          *)
THEOREM ChildIsServed == Spec => []ChildServed
<1>1. IInv => ChildServed
  BY DEF IInv, Fetching, Running, RunnerInv, TypeOK, ChildServed,
         ChildHasSecrets, OutputComplete
<1>2. QED
  BY <1>1, Invariance, PTL

(* However many goroutines fetch at once, none of them replaces a session  *)
(* that is still good, also not one that another has just started.         *)
THEOREM OnlyDeadReplaced == Spec => LiveNotReplaced
<1>1. ASSUME IInv, [Next]_vars, SessionID # NoId, SessionID' # SessionID
      PROVE  ~Known(SessionID, live)
  <2>1. ASSUME UNCHANGED SessionID PROVE FALSE
    BY <1>1, <2>1
  <2>2. PICK c \in Callers : RefreshOk(c)
    <3>1. CASE RunnerStep \/ PumpLine \/ PumpEnd \/ ForwardSignal \/ Environment
      BY <2>1, <3>1
         DEF RunnerStep, ResolveVar, VarResolved, VarFails, StartChild, StartFails,
             Notify, CopyOut, OutEnd, WaitChild, PumpLine, PumpEnd, ForwardSignal,
             Environment, FirstLine, NoLine, CopyFails, CloseStdin, Signal,
             ChildSays, ChildCloses, ChildExits, others, fetchVars, Fetch, Again
    <3>2. CASE FetchNext
      BY <1>1, <2>1, <3>2
         DEF FetchNext, EnsureMCPReuse, EnsureMCPStart, RunMCP, FetchStep, CallOk,
             CallInvalid, CallFails, LockRefreshed, LockRefresh, RefreshFails,
             Fetch, Again
    <3>3. CASE EnsureFails \/ UNCHANGED fetchVars
      BY <2>1, <3>3 DEF fetchVars, EnsureFails, EnsureMCPFails
    <3>4. QED
      BY <1>1, <3>1, <3>2, <3>3 DEF Next, vars
  <2>3. fc[c] = "refresh"
    BY <2>2 DEF RefreshOk, Step
  <2>4. QED
    BY <1>1, <2>3 DEF IInv, Fetching, FetchInv, Known
<1>2. QED
  BY <1>1, Invariance, PTL DEF Spec, LiveNotReplaced
=============================================================================

---------------------------- MODULE DaemonSocket ----------------------------
(***************************************************************************)
(* The one thing that daemon processes share: the path of the Unix socket. *)
(* Each new shell runs `locksmith _autostart` (internal/cli), which dials  *)
(* the socket and spawns `locksmith serve` if nobody answers; the user may *)
(* run `serve` too, which asks nobody.  Daemon.Start (internal/daemon)     *)
(* removes what is at the path, launches its plugins, listens, and changes *)
(* the mode of the file; closing a listener removes the path, whoever's    *)
(* socket it leads to by then.                                             *)
(*                                                                         *)
(* Signals before the daemon serves are DaemonLifecycle's.                 *)
(***************************************************************************)
EXTENDS Naturals, FiniteSets

CONSTANTS
    Procs,     \* places for daemon processes
    NoFile,    \* there is nothing at the path
    Stale,     \* a socket nobody listens on
    MaxStarts, \* bound of the daemons ever spawned
    MaxFaults  \* bound of crashes, stops and failed starts

ASSUME SocketAssumption ==
    /\ NoFile \notin Procs /\ Stale \notin Procs /\ NoFile # Stale
    /\ MaxStarts \in Nat /\ MaxFaults \in Nat

VARIABLES
    path,      \* the daemon whose socket is at the path
    st,        \* where each daemon is in Start and Stop
    starts,
    faults,
    contested  \* a daemon was spawned while another was there

vars == <<path, st, starts, faults, contested>>

Starting  == {"remove", "plugins", "listen", "chmod"}
Listening == {"chmod", "close", "serve"}

TypeOK ==
    /\ path \in {p \in Procs : st[p] \in Listening} \cup {NoFile, Stale}
    /\ st \in [Procs -> Starting \cup {"none", "close", "serve", "stopping"}]
    /\ starts \in 0 .. MaxStarts
    /\ faults \in 0 .. MaxFaults
    /\ contested \in BOOLEAN

Init ==
    /\ path \in {NoFile, Stale}
    /\ st = [p \in Procs |-> "none"]
    /\ starts = 0
    /\ faults = 0
    /\ contested = FALSE

-----------------------------------------------------------------------------
(* A dial succeeds when a daemon listens, even if it does not accept yet.  *)
Answering == path \in Procs

Present(p) == st[p] \in Starting \cup Listening

Move(p, from, to) ==
    /\ st[p] = from
    /\ st' = [st EXCEPT ![p] = to]

Spawn(p) ==
    /\ starts < MaxStarts
    /\ Move(p, "none", "remove")
    /\ starts' = starts + 1
    /\ contested' = \E q \in Procs : Present(q)
    /\ UNCHANGED <<path, faults>>

(* _autostart; a daemon that answers leaves it nothing to do.              *)
Autostart(p) ==
    /\ ~Answering
    /\ Spawn(p)

(* The user runs `serve`, which does not look whether a daemon is there;    *)
(* or two shells have dialled together, and the second spawns one too.     *)
Serve(p) == Spawn(p)

Fault ==
    /\ faults < MaxFaults
    /\ faults' = faults + 1

(* Mutant of RemoveStale: the path is left as it is.                       *)
RemoveStaleNot(p) ==
    /\ Move(p, "remove", "plugins")
    /\ UNCHANGED <<path, starts, faults, contested>>

RemoveStale(p) ==
    /\ Move(p, "remove", "plugins")
    /\ path' = NoFile
    /\ UNCHANGED <<starts, faults, contested>>

LoadPlugins(p) ==
    /\ Move(p, "plugins", "listen")
    /\ UNCHANGED <<path, starts, faults, contested>>

(* The configuration does not load, the path is not prepared or a plugin   *)
(* not launched.                                                           *)
StartFails(p) ==
    /\ \E from \in {"remove", "plugins"} : Move(p, from, "none")
    /\ Fault
    /\ UNCHANGED <<path, starts, contested>>

Listen(p) ==
    /\ Move(p, "listen", "chmod")
    /\ path = NoFile
    /\ path' = p
    /\ UNCHANGED <<starts, faults, contested>>

(* The address is in use, or listening fails for another reason.           *)
ListenFails(p) ==
    /\ Move(p, "listen", "none")
    /\ Fault \/ (path # NoFile /\ UNCHANGED faults)
    /\ UNCHANGED <<path, starts, contested>>

(* The mode is changed of whatever is at the path.                         *)
Chmod(p) ==
    /\ Move(p, "chmod", "serve")
    /\ path # NoFile
    /\ UNCHANGED <<path, starts, faults, contested>>

ChmodFails(p) ==
    /\ Move(p, "chmod", "close")
    /\ Fault \/ (path = NoFile /\ UNCHANGED faults)
    /\ UNCHANGED <<path, starts, contested>>

CloseListener(p) ==
    /\ Move(p, "close", "none")
    /\ path' = NoFile
    /\ UNCHANGED <<starts, faults, contested>>

(* GracefulStop closes the listener first, and then waits for the calls.   *)
Stop(p) ==
    /\ Move(p, "serve", "stopping")
    /\ path' = NoFile
    /\ Fault
    /\ UNCHANGED <<starts, contested>>

(* Mutant of Stopped: the second Close removes the path again.             *)
StoppedUnlinks(p) ==
    /\ Move(p, "stopping", "none")
    /\ path' = NoFile
    /\ UNCHANGED <<starts, faults, contested>>

(* Stop closes the listener again, which does nothing.                     *)
Stopped(p) ==
    /\ Move(p, "stopping", "none")
    /\ UNCHANGED <<path, starts, faults, contested>>

(* A killed process leaves its socket behind.                              *)
Crash(p) ==
    /\ st[p] # "none"
    /\ st' = [st EXCEPT ![p] = "none"]
    /\ path' = IF path = p THEN Stale ELSE path
    /\ Fault
    /\ UNCHANGED <<starts, contested>>

DaemonStep(p) ==
    \/ RemoveStale(p) \/ LoadPlugins(p) \/ StartFails(p)
    \/ Listen(p) \/ ListenFails(p)
    \/ Chmod(p) \/ ChmodFails(p) \/ CloseListener(p)

Next ==
    \E p \in Procs :
        \/ Autostart(p) \/ Serve(p)
        \/ DaemonStep(p)
        \/ Stop(p) \/ Stopped(p) \/ Crash(p)

(* A process that starts is scheduled.  One that stops may wait forever    *)
(* for a call.                                                             *)
Spec == Init /\ [][Next]_vars /\ \A p \in Procs : WF_vars(DaemonStep(p))

-----------------------------------------------------------------------------
(* A daemon that serves can be reached, whatever crashed, failed or is     *)
(* still stopping from before, unless another was spawned next to one.     *)
ServingReachable ==
    ~contested => \A p \in Procs : st[p] \in {"chmod", "serve"} => path = p

(* What a dead daemon left at the path keeps no other from listening, and  *)
(* no other takes its socket away.                                         *)
NeverInUse ==
    [][\A p \in Procs :
           (path # NoFile /\ ListenFails(p)) \/ (path = NoFile /\ ChmodFails(p))
               => contested]_vars

(* A daemon that is spawned answers in the end, unless it is disturbed.    *)
SpawnedAnswers ==
    \A k \in 0 .. MaxFaults :
        (faults = k /\ ~contested /\ \E p \in Procs : st[p] \in Starting) ~>
            (Answering \/ contested \/ faults > k)
=============================================================================

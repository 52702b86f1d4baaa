-------------------------- MODULE DaemonLifecycle --------------------------
(***************************************************************************)
(* One daemon process from start to exit (internal/daemon/daemon.go,       *)
(* internal/cli/serve_cmd.go).  `locksmith serve` runs WaitForShutdown in  *)
(* a goroutine and Start in the main one; when Start returns the process   *)
(* exits, whatever other goroutines are doing.  The watcher goroutine      *)
(* reloads the configuration until stopCleanup is closed.  Of a reload     *)
(* only its effect on the plugins is kept here; ConfigReload has the rest. *)
(***************************************************************************)
EXTENDS PluginManager

CONSTANTS
    Vaults,    \* names of the configured vaults
    TypeOf,    \* the type of each vault
    NoServer,  \* Stop found no server: Start had not published it yet
    MaxRpcs,   \* bound of the requests in flight at once
    MaxEdits,  \* bound of the configuration edits the watcher sees
    MaxHups,   \* bound of the SIGHUPs sent
    Early,     \* whether signals may come before the daemon serves
    MayFail    \* whether plugins, listening and chmod may fail

ASSUME LifecycleAssumption ==
    /\ TypeOf \in [Vaults -> Types]
    /\ MaxRpcs \in Nat /\ MaxEdits \in Nat /\ MaxHups \in Nat
    /\ Early \in BOOLEAN /\ MayFail \in BOOLEAN
    /\ NoServer \notin {"unread", "server"}

VARIABLES
    main,        \* the main goroutine, in Start
    toLoad,      \* vaults loadPlugins has not reached
    listening,   \* the Unix socket is open
    published,   \* Daemon.grpcServer and Daemon.listener are set
    quit,        \* GracefulStop has begun
    drained,     \* GracefulStop is done
    rpcs,        \* number of requests being served
    sig,         \* the goroutine in WaitForShutdown
    queue,       \* the signal in sigCh, whose capacity is one
    snap,        \* what Stop read of grpcServer and listener
    stopClosed,  \* stopCleanup is closed
    watcher,     \* the goroutine in watchConfig
    pending,     \* its debounce timer is set
    reload,      \* holder of reloadMu
    edits,       \* number of edits so far
    hups,        \* number of SIGHUPs sent so far
    termSent,    \* a SIGTERM or SIGINT has been sent
    exited       \* the process is gone

startVars  == <<main, toLoad, published>>
grpcVars   == <<quit, drained, rpcs>>
stopVars   == <<snap, stopClosed>>
watchVars  == <<watcher, pending, edits>>
signalVars == <<queue, hups, termSent>>
vars == <<managerVars, startVars, listening, grpcVars, sig, stopVars,
          watchVars, reload, signalVars, exited>>

PlacesOK ==
    /\ main \in {"start", "load", "chmod", "publish", "spawn", "serve",
                 "serving", "returned", "failed"}
    /\ toLoad \subseteq Vaults
    /\ sig \in {"start", "wait", "hup", "reload", "stop", "close", "grace",
                "drain", "lnclose", "kill", "end"}
    /\ queue \in {"none", "HUP", "TERM"}
    /\ snap \in {"unread", "server", NoServer}
    /\ watcher \in {"off", "select", "fired", "reload", "gone"}
    /\ reload \in {"none", "sig", "watcher"}

FlagsOK ==
    /\ listening \in BOOLEAN /\ published \in BOOLEAN
    /\ quit \in BOOLEAN /\ drained \in BOOLEAN
    /\ stopClosed \in BOOLEAN /\ pending \in BOOLEAN
    /\ termSent \in BOOLEAN /\ exited \in BOOLEAN

CountersOK ==
    /\ rpcs \in 0 .. MaxRpcs
    /\ edits \in 0 .. MaxEdits
    /\ hups \in 0 .. MaxHups

HoldersOK ==
    /\ drained => quit
    /\ reload = "sig" <=> sig = "reload"
    /\ reload = "watcher" <=> watcher = "reload"

TypeOK == ManagerTypeOK /\ PlacesOK /\ FlagsOK /\ CountersOK /\ HoldersOK

Init ==
    /\ plugins = [t \in Types |-> NoProc] /\ started = 0 /\ alive = {}
    /\ main = "start" /\ toLoad = Vaults /\ published = FALSE
    /\ listening = FALSE
    /\ quit = FALSE /\ drained = FALSE /\ rpcs = 0
    /\ sig = "start"
    /\ snap = "unread" /\ stopClosed = FALSE
    /\ watcher = "off" /\ pending = FALSE /\ edits = 0
    /\ reload = "none"
    /\ queue = "none" /\ hups = 0 /\ termSent = FALSE
    /\ exited = FALSE

-----------------------------------------------------------------------------
(* Start, in the main goroutine.                                           *)

MainGoto(from, to) ==
    /\ ~exited
    /\ main = from
    /\ main' = to

(* The socket directory is made and a stale socket removed.                *)
PrepareSocket ==
    /\ MainGoto("start", "load")
    /\ UNCHANGED <<managerVars, toLoad, published, listening, grpcVars, sig,
                   stopVars, watchVars, reload, signalVars, exited>>

(* The directory cannot be made, or what is at the path not removed.       *)
PrepareFails ==
    /\ MayFail
    /\ MainGoto("start", "failed")
    /\ UNCHANGED <<managerVars, toLoad, published, listening, grpcVars, sig,
                   stopVars, watchVars, reload, signalVars, exited>>

(* loadPlugins launches one plugin per vault, in the order of the map.     *)
LoadPlugin ==
    /\ MainGoto("load", "load")
    /\ \E v \in toLoad : Launch(TypeOf[v]) /\ toLoad' = toLoad \ {v}
    /\ UNCHANGED <<published, listening, grpcVars, sig, stopVars, watchVars,
                   reload, signalVars, exited>>

(* A vault without a plugin's binary is warned about and left out.         *)
LoadSkips ==
    /\ MainGoto("load", "load")
    /\ \E v \in toLoad : toLoad' = toLoad \ {v}
    /\ UNCHANGED <<managerVars, published, listening, grpcVars, sig, stopVars,
                   watchVars, reload, signalVars, exited>>

LoadFails ==
    /\ MainGoto("load", "failed")
    /\ \E v \in toLoad : \/ LaunchRefused(TypeOf[v])
                         \/ MayFail /\ LaunchFails(TypeOf[v])
    /\ UNCHANGED <<toLoad, published, listening, grpcVars, sig, stopVars,
                   watchVars, reload, signalVars, exited>>

Listen ==
    /\ MainGoto("load", "chmod")
    /\ toLoad = {}
    /\ listening' = TRUE
    /\ UNCHANGED <<managerVars, toLoad, published, grpcVars, sig, stopVars,
                   watchVars, reload, signalVars, exited>>

ListenFails ==
    /\ MayFail
    /\ MainGoto("load", "failed")
    /\ toLoad = {}
    /\ UNCHANGED <<managerVars, toLoad, published, listening, grpcVars, sig,
                   stopVars, watchVars, reload, signalVars, exited>>

Chmod ==
    /\ MainGoto("chmod", "publish")
    /\ UNCHANGED <<managerVars, toLoad, published, listening, grpcVars, sig,
                   stopVars, watchVars, reload, signalVars, exited>>

ChmodFails ==
    /\ MayFail
    /\ MainGoto("chmod", "failed")
    /\ listening' = FALSE
    /\ UNCHANGED <<managerVars, toLoad, published, grpcVars, sig, stopVars,
                   watchVars, reload, signalVars, exited>>

(* From here on Stop finds the server.                                     *)
Publish ==
    /\ MainGoto("publish", "spawn")
    /\ published' = TRUE
    /\ UNCHANGED <<managerVars, toLoad, listening, grpcVars, sig, stopVars,
                   watchVars, reload, signalVars, exited>>

SpawnLoops ==
    /\ MainGoto("spawn", "serve")
    /\ watcher' = "select"
    /\ UNCHANGED <<managerVars, toLoad, published, listening, grpcVars, sig,
                   stopVars, pending, edits, reload, signalVars, exited>>

(* Serve returns at once with an error when the server was stopped before. *)
Serve ==
    /\ MainGoto("serve", IF quit THEN "failed" ELSE "serving")
    /\ UNCHANGED <<managerVars, toLoad, published, listening, grpcVars, sig,
                   stopVars, watchVars, reload, signalVars, exited>>

(* Serve returns when GracefulStop is done, not before.                    *)
ServeReturns ==
    /\ MainGoto("serving", "returned")
    /\ drained
    /\ UNCHANGED <<managerVars, toLoad, published, listening, grpcVars, sig,
                   stopVars, watchVars, reload, signalVars, exited>>

(* The command returns from Start and main ends the process.               *)
Exit ==
    /\ ~exited
    /\ main \in {"returned", "failed"}
    /\ exited' = TRUE
    /\ UNCHANGED <<managerVars, startVars, listening, grpcVars, sig, stopVars,
                   watchVars, reload, signalVars>>

Start ==
    \/ PrepareSocket \/ PrepareFails \/ LoadPlugin \/ LoadSkips \/ LoadFails
    \/ Listen \/ ListenFails \/ Chmod \/ ChmodFails \/ Publish \/ SpawnLoops
    \/ Serve \/ ServeReturns \/ Exit

-----------------------------------------------------------------------------
(* gRPC: requests arrive while the server serves and is not stopping.      *)

RpcBegin ==
    /\ ~exited /\ main = "serving" /\ ~quit
    /\ rpcs < MaxRpcs
    /\ rpcs' = rpcs + 1
    /\ UNCHANGED <<managerVars, startVars, listening, quit, drained, sig,
                   stopVars, watchVars, reload, signalVars, exited>>

RpcEnd ==
    /\ ~exited /\ rpcs > 0
    /\ rpcs' = rpcs - 1
    /\ UNCHANGED <<managerVars, startVars, listening, quit, drained, sig,
                   stopVars, watchVars, reload, signalVars, exited>>

-----------------------------------------------------------------------------
(* Reload, by the signal goroutine or by the watcher, under reloadMu.      *)

ReloadLaunch ==
    /\ ~exited /\ reload # "none"
    /\ \E t \in Types : Launch(t)
    /\ UNCHANGED <<startVars, listening, grpcVars, sig, stopVars, watchVars,
                   reload, signalVars, exited>>

ReloadKill ==
    /\ ~exited /\ reload # "none"
    /\ \E t \in Loaded : KillOne(t)
    /\ UNCHANGED <<startVars, listening, grpcVars, sig, stopVars, watchVars,
                   reload, signalVars, exited>>

ReloadEnds ==
    /\ ~exited /\ reload # "none"
    /\ reload' = "none"
    /\ sig' = IF reload = "sig" THEN "wait" ELSE sig
    /\ watcher' = IF reload = "watcher" THEN "select" ELSE watcher
    /\ UNCHANGED <<managerVars, startVars, listening, grpcVars, stopVars,
                   pending, edits, signalVars, exited>>

-----------------------------------------------------------------------------
(* watchConfig.                                                            *)

(* An event on the configuration file resets the debounce timer.           *)
FileEvent ==
    /\ ~exited /\ watcher = "select" /\ edits < MaxEdits
    /\ edits' = edits + 1
    /\ pending' = TRUE
    /\ UNCHANGED <<managerVars, startVars, listening, grpcVars, sig, stopVars,
                   watcher, reload, signalVars, exited>>

(* With the timer fired and stopCleanup closed, select takes either case.  *)
DebounceFires ==
    /\ ~exited /\ watcher = "select" /\ pending
    /\ watcher' = "fired"
    /\ pending' = FALSE
    /\ UNCHANGED <<managerVars, startVars, listening, grpcVars, sig, stopVars,
                   edits, reload, signalVars, exited>>

WatcherReloads ==
    /\ ~exited /\ watcher = "fired" /\ reload = "none"
    /\ watcher' = "reload"
    /\ reload' = "watcher"
    /\ UNCHANGED <<managerVars, startVars, listening, grpcVars, sig, stopVars,
                   pending, edits, signalVars, exited>>

WatcherStops ==
    /\ ~exited /\ watcher = "select" /\ stopClosed
    /\ watcher' = "gone"
    /\ UNCHANGED <<managerVars, startVars, listening, grpcVars, sig, stopVars,
                   pending, edits, reload, signalVars, exited>>

WatchConfig == DebounceFires \/ WatcherReloads \/ WatcherStops

-----------------------------------------------------------------------------
(* WaitForShutdown and Stop, in the signal goroutine.                      *)

SigGoto(from, to) ==
    /\ ~exited
    /\ sig = from
    /\ sig' = to

Notify ==
    /\ SigGoto("start", "wait")
    /\ UNCHANGED <<managerVars, startVars, listening, grpcVars, stopVars,
                   watchVars, reload, signalVars, exited>>

(* Mutant of TakeSignal: every signal reloads.                             *)
TakeSignalAsHup ==
    /\ queue # "none"
    /\ SigGoto("wait", "hup")
    /\ queue' = "none"
    /\ UNCHANGED <<managerVars, startVars, listening, grpcVars, stopVars,
                   watchVars, reload, hups, termSent, exited>>

TakeSignal ==
    /\ queue # "none"
    /\ SigGoto("wait", IF queue = "HUP" THEN "hup" ELSE "stop")
    /\ queue' = "none"
    /\ UNCHANGED <<managerVars, startVars, listening, grpcVars, stopVars,
                   watchVars, reload, hups, termSent, exited>>

HupReloads ==
    /\ SigGoto("hup", "reload")
    /\ reload = "none"
    /\ reload' = "sig"
    /\ UNCHANGED <<managerVars, startVars, listening, grpcVars, stopVars,
                   watchVars, signalVars, exited>>

(* Stop reads grpcServer and listener, which Start may not have set yet.   *)
StopReads ==
    /\ SigGoto("stop", "close")
    /\ snap' = IF published THEN "server" ELSE NoServer
    /\ UNCHANGED <<managerVars, startVars, listening, grpcVars, stopClosed,
                   watchVars, reload, signalVars, exited>>

CloseStop ==
    /\ SigGoto("close", IF snap = "server" THEN "grace" ELSE "kill")
    /\ stopClosed' = TRUE
    /\ UNCHANGED <<managerVars, startVars, listening, grpcVars, snap,
                   watchVars, reload, signalVars, exited>>

(* GracefulStop refuses new requests and closes the listeners, ...         *)
GracefulStop ==
    /\ SigGoto("grace", "drain")
    /\ quit' = TRUE
    /\ listening' = FALSE
    /\ UNCHANGED <<managerVars, startVars, drained, rpcs, stopVars, watchVars,
                   reload, signalVars, exited>>

(* Mutant of Drained: the server is stopped without waiting.               *)
DrainedAtOnce ==
    /\ SigGoto("drain", "lnclose")
    /\ drained' = TRUE
    /\ UNCHANGED <<managerVars, startVars, listening, quit, rpcs, stopVars,
                   watchVars, reload, signalVars, exited>>

(* ... and waits for the requests in flight.                               *)
Drained ==
    /\ SigGoto("drain", "lnclose")
    /\ rpcs = 0
    /\ drained' = TRUE
    /\ UNCHANGED <<managerVars, startVars, listening, quit, rpcs, stopVars,
                   watchVars, reload, signalVars, exited>>

(* GracefulStop has closed the listener already; closing it again is an    *)
(* error that Stop ignores.                                                *)
CloseListener ==
    /\ SigGoto("lnclose", "kill")
    /\ listening' = FALSE
    /\ UNCHANGED <<managerVars, startVars, grpcVars, stopVars, watchVars,
                   reload, signalVars, exited>>

KillPlugins ==
    /\ SigGoto("kill", "end")
    /\ Kill
    /\ UNCHANGED <<startVars, listening, grpcVars, stopVars, watchVars,
                   reload, signalVars, exited>>

WaitForShutdown ==
    \/ Notify \/ TakeSignal \/ HupReloads \/ StopReads \/ CloseStop
    \/ GracefulStop \/ Drained \/ CloseListener \/ KillPlugins

-----------------------------------------------------------------------------
(* A signal is put in sigCh, or dropped when one is waiting there.  Before *)
(* signal.Notify it has its default effect, which ends the process.        *)
Deliver(s) ==
    /\ ~exited
    /\ Early \/ (main = "serving" /\ sig # "start")
    /\ exited' = (sig = "start")
    /\ queue' = IF sig # "start" /\ queue = "none" THEN s ELSE queue
    /\ UNCHANGED <<managerVars, startVars, listening, grpcVars, sig, stopVars,
                   watchVars, reload>>

SendHup ==
    /\ hups < MaxHups
    /\ Deliver("HUP")
    /\ hups' = hups + 1
    /\ UNCHANGED termSent

SendTerm ==
    /\ ~termSent
    /\ Deliver("TERM")
    /\ termSent' = TRUE
    /\ UNCHANGED hups

Next ==
    \/ Start
    \/ RpcBegin \/ RpcEnd
    \/ ReloadLaunch \/ ReloadKill \/ ReloadEnds
    \/ FileEvent \/ WatchConfig
    \/ WaitForShutdown
    \/ SendHup \/ SendTerm

Spec == Init /\ [][Next]_vars

(* The goroutines are scheduled, requests finish, reloads come to an end,  *)
(* and reloadMu does not starve the signal goroutine.                      *)
Fairness ==
    /\ WF_vars(Start)
    /\ WF_vars(RpcEnd)
    /\ WF_vars(ReloadEnds)
    /\ WF_vars(WatchConfig)
    /\ WF_vars(WaitForShutdown)
    /\ SF_vars(HupReloads)

FairSpec == Spec /\ Fairness

-----------------------------------------------------------------------------
(* Properties.                                                             *)

(* A Stop that found the server kills the plugins only when no request is  *)
(* left that may be using one, and none comes after.                       *)
DrainBeforeKill ==
    sig \in {"kill", "end"} /\ snap = "server" => rpcs = 0

(* Once a Stop that found the server is through, no plugin process is      *)
(* left and none comes back, SIGHUP reloads before it included, when no    *)
(* file event made the watcher reload.                                     *)
StoppedClean ==
    sig = "end" /\ snap = "server" /\ edits = 0 => alive = {}

(* However the process ends once it listens for signals, no request that   *)
(* was being served is cut off.                                            *)
NoRequestCut == exited /\ sig # "start" => rpcs = 0

(* A shutdown signal that is in the channel when Start has published the   *)
(* server ends the process, whatever reloads and requests come first.      *)
QueuedTermShutsDown == queue = "TERM" /\ published ~> exited
=============================================================================

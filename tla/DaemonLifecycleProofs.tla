----------------------- MODULE DaemonLifecycleProofs -----------------------
(***************************************************************************)
(* What holds of DaemonLifecycle for every set of vaults and any number of *)
(* requests, signals, edits and processes, whatever fails at start.        *)
(***************************************************************************)
EXTENDS DaemonLifecycle, TLAPS

otherVars == <<startVars, listening, grpcVars, sig, stopVars, watchVars,
               reload, signalVars, exited>>

-----------------------------------------------------------------------------
(* What each method of the plugin registry does to its state.              *)

(* A launch adds one type and one process.                                 *)
LEMMA LaunchFacts ==
    ASSUME ManagerTypeOK, NEW t \in Types, Launch(t)
    PROVE  /\ ManagerTypeOK'
           /\ t \notin Loaded /\ Loaded' = Loaded \cup {t}
           /\ \A u \in Types \ {t} : plugins'[u] = plugins[u]
           /\ NoOrphans => NoOrphans'
<1>1. /\ plugins[t] = NoProc /\ started < MaxProcs /\ started' = started + 1
      /\ plugins' = [plugins EXCEPT ![t] = started + 1]
      /\ alive' = alive \cup {started + 1}
  BY DEF Launch
<1>2. started \in Nat /\ started + 1 \in Procs /\ started + 1 # NoProc
  BY <1>1, ManagerAssumption DEF ManagerTypeOK, Procs, NoProc
<1>3. ManagerTypeOK'
  BY <1>1, <1>2, ManagerAssumption DEF ManagerTypeOK, Procs, NoProc
<1>4. plugins'[t] = started + 1 /\ \A u \in Types \ {t} : plugins'[u] = plugins[u]
  BY <1>1 DEF ManagerTypeOK
<1>5. t \notin Loaded /\ Loaded' = Loaded \cup {t}
  BY <1>1, <1>2, <1>4 DEF Loaded
<1>6. ASSUME NoOrphans PROVE NoOrphans'
  <2> SUFFICES ASSUME NEW p \in alive'
               PROVE  \E u \in Types : plugins'[u] = p
    BY DEF NoOrphans
  <2>1. CASE p = started + 1
    BY <1>4, <2>1
  <2>2. CASE p \in alive
    <3>1. PICK u \in Types : plugins[u] = p
      BY <1>6, <2>2 DEF NoOrphans
    <3>2. u # t
      BY <1>1, <2>2, <3>1 DEF ManagerTypeOK, NoProc
    <3>3. QED
      BY <1>4, <3>1, <3>2
  <2>3. QED
    BY <1>1, <2>1, <2>2
<1>7. QED
  BY <1>3, <1>4, <1>5, <1>6

(* Killing one plugin removes its type and its process.                    *)
LEMMA KillOneFacts ==
    ASSUME ManagerTypeOK, NEW t \in Types, KillOne(t)
    PROVE  /\ ManagerTypeOK'
           /\ Loaded' = Loaded \ {t}
           /\ \A u \in Types \ {t} : plugins'[u] = plugins[u]
           /\ NoOrphans => NoOrphans'
<1>1. /\ alive' = alive \ {plugins[t]} /\ started' = started
      /\ plugins' = [plugins EXCEPT ![t] = NoProc]
  BY DEF KillOne
<1>2. ManagerTypeOK'
  BY <1>1 DEF ManagerTypeOK
<1>3. plugins'[t] = NoProc /\ \A u \in Types \ {t} : plugins'[u] = plugins[u]
  BY <1>1 DEF ManagerTypeOK
<1>4. Loaded' = Loaded \ {t}
  BY <1>3 DEF Loaded
<1>5. ASSUME NoOrphans PROVE NoOrphans'
  BY <1>1, <1>3, <1>5 DEF NoOrphans
<1>6. QED
  BY <1>2, <1>3, <1>4, <1>5

(* Killing all of them leaves no type and, without orphans, no process.    *)
LEMMA KillFacts ==
    ASSUME ManagerTypeOK, Kill
    PROVE  /\ ManagerTypeOK'
           /\ NoOrphans => NoOrphans' /\ alive' = {}
BY DEF Kill, ManagerTypeOK, NoOrphans

LEMMA ManagerStill ==
    ASSUME ManagerTypeOK, UNCHANGED managerVars
    PROVE  /\ ManagerTypeOK' /\ plugins' = plugins /\ Loaded' = Loaded
           /\ NoOrphans => NoOrphans'
BY DEF managerVars, ManagerTypeOK, Loaded, NoOrphans

-----------------------------------------------------------------------------
(* The steps that start or end plugin processes.                           *)
PluginStep == LoadPlugin \/ ReloadLaunch \/ ReloadKill \/ KillPlugins

LEMMA ManagerStep ==
    ASSUME TypeOK, [Next]_vars
    PROVE  /\ ManagerTypeOK'
           /\ NoOrphans => NoOrphans'
           /\ ~PluginStep => alive' = alive
<1> ManagerTypeOK
  BY DEF TypeOK
<1>1. CASE LoadPlugin
  <2>1. PICK v \in toLoad : Launch(TypeOf[v])
    BY <1>1 DEF LoadPlugin
  <2>2. TypeOf[v] \in Types
    BY LifecycleAssumption DEF TypeOK, PlacesOK
  <2>3. QED
    BY <1>1, <2>1, <2>2, LaunchFacts DEF PluginStep
<1>2. CASE ReloadLaunch
  BY <1>2, LaunchFacts DEF ReloadLaunch, PluginStep
<1>3. CASE ReloadKill
  <2>1. PICK t \in Types : KillOne(t)
    BY <1>3 DEF ReloadKill, Loaded
  <2>2. QED
    BY <1>3, <2>1, KillOneFacts DEF PluginStep
<1>4. CASE KillPlugins
  BY <1>4, KillFacts DEF KillPlugins, PluginStep
<1>5. CASE ~PluginStep
  <2>1. UNCHANGED managerVars
    BY <1>5
       DEF PluginStep, Next, vars, Start, PrepareSocket, PrepareFails, LoadSkips,
           LoadFails, LaunchRefused, LaunchFails, Listen, ListenFails, Chmod, ChmodFails, Publish,
           SpawnLoops, Serve, ServeReturns, Exit, RpcBegin, RpcEnd, ReloadEnds,
           FileEvent, WatchConfig, DebounceFires, WatcherReloads, WatcherStops,
           WaitForShutdown, Notify, TakeSignal, HupReloads, StopReads,
           CloseStop, GracefulStop, Drained, CloseListener, SendHup, SendTerm,
           Deliver
  <2>2. QED
    BY <1>5, <2>1, ManagerStill DEF managerVars
<1>6. QED
  BY <1>1, <1>2, <1>3, <1>4, <1>5 DEF PluginStep

-----------------------------------------------------------------------------
(* Why requests are drained when plugins are killed and at exit: requests  *)
(* are only served between Serve and the end of GracefulStop.              *)
DrainInv ==
    /\ drained => rpcs = 0
    /\ sig = "drain" => quit
    /\ sig = "lnclose" => drained
    /\ sig \in {"kill", "end"} /\ snap = "server" => drained
    /\ main = "returned" => drained
    /\ main \notin {"serving", "returned"} => rpcs = 0
    /\ NoRequestCut

(* Why nothing starts a plugin after Stop when the watcher saw no event:   *)
(* Start has loaded the plugins before Stop can find the server, and the   *)
(* watcher, started after that, has nothing to do.                         *)
QuietInv ==
    /\ snap = "server" => published
    /\ published => main \notin {"start", "load", "chmod", "publish"}
    /\ main \in {"start", "load", "chmod", "publish", "spawn"} => watcher = "off"
    /\ edits = 0 => ~pending /\ watcher \in {"off", "select", "gone"}
    /\ StoppedClean

IInv == TypeOK /\ NoOrphans /\ DrainInv /\ QuietInv

LEMMA InitInv == Init => IInv
<1> SUFFICES ASSUME Init PROVE IInv
  OBVIOUS
<1>1. ManagerTypeOK /\ NoOrphans
  BY ManagerAssumption DEF Init, ManagerTypeOK, NoOrphans
<1>2. PlacesOK /\ FlagsOK
  BY DEF Init, PlacesOK, FlagsOK
<1>3. CountersOK /\ HoldersOK
  BY LifecycleAssumption DEF Init, CountersOK, HoldersOK
<1>4. DrainInv /\ QuietInv
  BY LifecycleAssumption DEF Init, DrainInv, QuietInv, NoRequestCut, StoppedClean
<1>5. QED
  BY <1>1, <1>2, <1>3, <1>4 DEF IInv, TypeOK

(* Start, in the main goroutine.                                           *)
LEMMA StartStep ==
    ASSUME IInv, ManagerTypeOK', Start
    PROVE  TypeOK' /\ DrainInv' /\ QuietInv'
<1> USE LifecycleAssumption DEF IInv, TypeOK, MainGoto, startVars, grpcVars, stopVars,
        watchVars, signalVars
<1>1. CASE PrepareSocket
  <2>1. PlacesOK' /\ FlagsOK'
    BY <1>1 DEF PrepareSocket, PlacesOK, FlagsOK
  <2>2. CountersOK' /\ HoldersOK'
    BY <1>1 DEF PrepareSocket, CountersOK, HoldersOK, PlacesOK, DrainInv
  <2>3. DrainInv'
    BY <1>1 DEF PrepareSocket, HoldersOK, PlacesOK, DrainInv, NoRequestCut
  <2>4. QuietInv'
    BY <1>1 DEF PrepareSocket, HoldersOK, PlacesOK, QuietInv, StoppedClean,
       managerVars
  <2>5. QED
    BY <2>1, <2>2, <2>3, <2>4
<1>2. CASE LoadPlugin
  <2>1. PlacesOK' /\ FlagsOK'
    BY <1>2 DEF LoadPlugin, PlacesOK, FlagsOK
  <2>2. CountersOK' /\ HoldersOK'
    BY <1>2 DEF LoadPlugin, CountersOK, HoldersOK, PlacesOK, DrainInv
  <2>3. DrainInv'
    BY <1>2 DEF LoadPlugin, HoldersOK, PlacesOK, DrainInv, NoRequestCut
  <2>4. QuietInv'
    BY <1>2 DEF LoadPlugin, HoldersOK, PlacesOK, QuietInv, StoppedClean,
       managerVars
  <2>5. QED
    BY <2>1, <2>2, <2>3, <2>4
<1>3. CASE LoadFails
  <2>1. UNCHANGED managerVars
    BY <1>3 DEF LoadFails, LaunchRefused, LaunchFails
  <2>2. PlacesOK' /\ FlagsOK'
    BY <1>3 DEF LoadFails, PlacesOK, FlagsOK
  <2>3. CountersOK' /\ HoldersOK'
    BY <1>3 DEF LoadFails, CountersOK, HoldersOK, PlacesOK, DrainInv
  <2>4. DrainInv'
    BY <1>3 DEF LoadFails, HoldersOK, PlacesOK, DrainInv, NoRequestCut
  <2>5. QuietInv'
    BY <1>3, <2>1 DEF LoadFails, HoldersOK, PlacesOK, QuietInv, StoppedClean,
       managerVars
  <2>6. QED
    BY <2>2, <2>3, <2>4, <2>5
<1>4. CASE Listen
  <2>1. PlacesOK' /\ FlagsOK'
    BY <1>4 DEF Listen, PlacesOK, FlagsOK
  <2>2. CountersOK' /\ HoldersOK'
    BY <1>4 DEF Listen, CountersOK, HoldersOK, PlacesOK, DrainInv
  <2>3. DrainInv'
    BY <1>4 DEF Listen, HoldersOK, PlacesOK, DrainInv, NoRequestCut
  <2>4. QuietInv'
    BY <1>4 DEF Listen, HoldersOK, PlacesOK, QuietInv, StoppedClean,
       managerVars
  <2>5. QED
    BY <2>1, <2>2, <2>3, <2>4
<1>5. CASE ListenFails
  <2>1. PlacesOK' /\ FlagsOK'
    BY <1>5 DEF ListenFails, PlacesOK, FlagsOK
  <2>2. CountersOK' /\ HoldersOK'
    BY <1>5 DEF ListenFails, CountersOK, HoldersOK, PlacesOK, DrainInv
  <2>3. DrainInv'
    BY <1>5 DEF ListenFails, HoldersOK, PlacesOK, DrainInv, NoRequestCut
  <2>4. QuietInv'
    BY <1>5 DEF ListenFails, HoldersOK, PlacesOK, QuietInv, StoppedClean,
       managerVars
  <2>5. QED
    BY <2>1, <2>2, <2>3, <2>4
<1>6. CASE Chmod
  <2>1. PlacesOK' /\ FlagsOK'
    BY <1>6 DEF Chmod, PlacesOK, FlagsOK
  <2>2. CountersOK' /\ HoldersOK'
    BY <1>6 DEF Chmod, CountersOK, HoldersOK, PlacesOK, DrainInv
  <2>3. DrainInv'
    BY <1>6 DEF Chmod, HoldersOK, PlacesOK, DrainInv, NoRequestCut
  <2>4. QuietInv'
    BY <1>6 DEF Chmod, HoldersOK, PlacesOK, QuietInv, StoppedClean,
       managerVars
  <2>5. QED
    BY <2>1, <2>2, <2>3, <2>4
<1>7. CASE ChmodFails
  <2>1. PlacesOK'
    BY <1>7 DEF ChmodFails, PlacesOK
  <2>2. FlagsOK'
    BY <1>7 DEF ChmodFails, FlagsOK
  <2>3. CountersOK' /\ HoldersOK'
    BY <1>7 DEF ChmodFails, CountersOK, HoldersOK, PlacesOK, DrainInv
  <2>4. DrainInv'
    BY <1>7 DEF ChmodFails, HoldersOK, PlacesOK, DrainInv, NoRequestCut
  <2>5. QuietInv'
    BY <1>7 DEF ChmodFails, HoldersOK, PlacesOK, QuietInv, StoppedClean,
       managerVars
  <2>6. QED
    BY <2>1, <2>2, <2>3, <2>4, <2>5
<1>8. CASE Publish
  <2>1. PlacesOK' /\ FlagsOK'
    BY <1>8 DEF Publish, PlacesOK, FlagsOK
  <2>2. CountersOK' /\ HoldersOK'
    BY <1>8 DEF Publish, CountersOK, HoldersOK, PlacesOK, DrainInv
  <2>3. DrainInv'
    BY <1>8 DEF Publish, HoldersOK, PlacesOK, DrainInv, NoRequestCut
  <2>4. QuietInv'
    BY <1>8 DEF Publish, HoldersOK, PlacesOK, QuietInv, StoppedClean,
       managerVars
  <2>5. QED
    BY <2>1, <2>2, <2>3, <2>4
<1>9. CASE SpawnLoops
  <2>1. PlacesOK' /\ FlagsOK'
    BY <1>9 DEF SpawnLoops, PlacesOK, FlagsOK
  <2>2. CountersOK' /\ HoldersOK'
    BY <1>9 DEF SpawnLoops, CountersOK, HoldersOK, PlacesOK, QuietInv
  <2>3. DrainInv'
    BY <1>9 DEF SpawnLoops, HoldersOK, PlacesOK, DrainInv, NoRequestCut
  <2>4. QuietInv'
    BY <1>9 DEF SpawnLoops, HoldersOK, PlacesOK, QuietInv, StoppedClean,
       managerVars
  <2>5. QED
    BY <2>1, <2>2, <2>3, <2>4
<1>10. CASE Serve
  <2>1. PlacesOK' /\ FlagsOK'
    BY <1>10 DEF Serve, PlacesOK, FlagsOK
  <2>2. CountersOK' /\ HoldersOK'
    BY <1>10 DEF Serve, CountersOK, HoldersOK, PlacesOK, DrainInv
  <2>3. DrainInv'
    BY <1>10 DEF Serve, HoldersOK, PlacesOK, DrainInv, NoRequestCut
  <2>4. QuietInv'
    BY <1>10 DEF Serve, HoldersOK, PlacesOK, QuietInv, StoppedClean,
       managerVars
  <2>5. QED
    BY <2>1, <2>2, <2>3, <2>4
<1>11. CASE ServeReturns
  <2>1. PlacesOK' /\ FlagsOK'
    BY <1>11 DEF ServeReturns, PlacesOK, FlagsOK
  <2>2. CountersOK' /\ HoldersOK'
    BY <1>11 DEF ServeReturns, CountersOK, HoldersOK, PlacesOK, DrainInv
  <2>3. DrainInv'
    BY <1>11 DEF ServeReturns, HoldersOK, PlacesOK, DrainInv, NoRequestCut
  <2>4. QuietInv'
    BY <1>11 DEF ServeReturns, HoldersOK, PlacesOK, QuietInv, StoppedClean,
       managerVars
  <2>5. QED
    BY <2>1, <2>2, <2>3, <2>4
<1>12. CASE Exit
  <2>1. PlacesOK' /\ FlagsOK'
    BY <1>12 DEF Exit, PlacesOK, FlagsOK
  <2>2. CountersOK' /\ HoldersOK'
    BY <1>12 DEF Exit, CountersOK, HoldersOK, PlacesOK, DrainInv
  <2>3. DrainInv'
    BY <1>12 DEF Exit, HoldersOK, PlacesOK, DrainInv, NoRequestCut
  <2>4. QuietInv'
    BY <1>12 DEF Exit, HoldersOK, PlacesOK, QuietInv, StoppedClean,
       managerVars
  <2>5. QED
    BY <2>1, <2>2, <2>3, <2>4
<1>13. CASE PrepareFails \/ LoadSkips
  <2>1. PlacesOK' /\ FlagsOK'
    BY <1>13 DEF PrepareFails, LoadSkips, PlacesOK, FlagsOK
  <2>2. CountersOK' /\ HoldersOK'
    BY <1>13 DEF PrepareFails, LoadSkips, CountersOK, HoldersOK, PlacesOK, DrainInv
  <2>3. DrainInv'
    BY <1>13 DEF PrepareFails, LoadSkips, HoldersOK, PlacesOK, DrainInv, NoRequestCut
  <2>4. QuietInv'
    BY <1>13 DEF PrepareFails, LoadSkips, HoldersOK, PlacesOK, QuietInv, StoppedClean,
       managerVars
  <2>5. QED
    BY <2>1, <2>2, <2>3, <2>4
<1>14. QED
  BY <1>1, <1>2, <1>3, <1>4, <1>5, <1>6, <1>7, <1>8, <1>9, <1>10, <1>11, <1>12, <1>13
     DEF Start

(* Requests come and go.                                                   *)
LEMMA RpcStep ==
    ASSUME IInv, ManagerTypeOK', RpcBegin \/ RpcEnd
    PROVE  TypeOK' /\ DrainInv' /\ QuietInv'
<1> USE LifecycleAssumption DEF IInv, TypeOK, startVars, grpcVars, stopVars,
        watchVars, signalVars
<1>1. CASE RpcBegin
  <2>1. PlacesOK' /\ FlagsOK'
    BY <1>1 DEF RpcBegin, PlacesOK, FlagsOK
  <2>2. CountersOK' /\ HoldersOK'
    BY <1>1 DEF RpcBegin, CountersOK, HoldersOK, PlacesOK, DrainInv
  <2>3. DrainInv'
    BY <1>1 DEF RpcBegin, HoldersOK, PlacesOK, DrainInv, NoRequestCut
  <2>4. QuietInv'
    BY <1>1 DEF RpcBegin, HoldersOK, PlacesOK, QuietInv, StoppedClean,
       managerVars
  <2>5. QED
    BY <2>1, <2>2, <2>3, <2>4
<1>2. CASE RpcEnd
  <2>1. PlacesOK' /\ FlagsOK'
    BY <1>2 DEF RpcEnd, PlacesOK, FlagsOK
  <2>2. CountersOK' /\ HoldersOK'
    BY <1>2 DEF RpcEnd, CountersOK, HoldersOK, PlacesOK, DrainInv
  <2>3. DrainInv'
    BY <1>2 DEF RpcEnd, HoldersOK, PlacesOK, DrainInv, NoRequestCut
  <2>4. QuietInv'
    BY <1>2 DEF RpcEnd, HoldersOK, PlacesOK, QuietInv, StoppedClean,
       managerVars
  <2>5. QED
    BY <2>1, <2>2, <2>3, <2>4
<1>3. QED
  BY <1>1, <1>2

(* The watcher.                                                            *)
LEMMA WatchStep ==
    ASSUME IInv, ManagerTypeOK', FileEvent \/ WatchConfig
    PROVE  TypeOK' /\ DrainInv' /\ QuietInv'
<1> USE LifecycleAssumption DEF IInv, TypeOK, startVars, grpcVars, stopVars,
        watchVars, signalVars
<1>1. CASE FileEvent
  <2>1. PlacesOK' /\ FlagsOK'
    BY <1>1 DEF FileEvent, PlacesOK, FlagsOK
  <2>2. CountersOK' /\ HoldersOK'
    BY <1>1 DEF FileEvent, CountersOK, HoldersOK, PlacesOK, DrainInv
  <2>3. DrainInv'
    BY <1>1 DEF FileEvent, HoldersOK, PlacesOK, DrainInv, NoRequestCut
  <2>4. QuietInv'
    BY <1>1 DEF FileEvent, CountersOK, PlacesOK, QuietInv, StoppedClean,
       managerVars
  <2>5. QED
    BY <2>1, <2>2, <2>3, <2>4
<1>2. CASE DebounceFires
  <2>1. PlacesOK'
    BY <1>2 DEF DebounceFires, PlacesOK
  <2>2. FlagsOK'
    BY <1>2 DEF DebounceFires, FlagsOK
  <2>3. CountersOK' /\ HoldersOK'
    BY <1>2 DEF DebounceFires, CountersOK, HoldersOK, PlacesOK, DrainInv
  <2>4. DrainInv'
    BY <1>2 DEF DebounceFires, HoldersOK, PlacesOK, DrainInv, NoRequestCut
  <2>5. QuietInv'
    BY <1>2 DEF DebounceFires, HoldersOK, PlacesOK, QuietInv, StoppedClean,
       managerVars
  <2>6. QED
    BY <2>1, <2>2, <2>3, <2>4, <2>5
<1>3. CASE WatcherReloads
  <2>1. PlacesOK' /\ FlagsOK'
    BY <1>3 DEF WatcherReloads, PlacesOK, FlagsOK
  <2>2. CountersOK' /\ HoldersOK'
    BY <1>3 DEF WatcherReloads, CountersOK, HoldersOK, PlacesOK, DrainInv
  <2>3. DrainInv'
    BY <1>3 DEF WatcherReloads, HoldersOK, PlacesOK, DrainInv, NoRequestCut
  <2>4. QuietInv'
    BY <1>3 DEF WatcherReloads, HoldersOK, PlacesOK, QuietInv, StoppedClean,
       managerVars
  <2>5. QED
    BY <2>1, <2>2, <2>3, <2>4
<1>4. CASE WatcherStops
  <2>1. PlacesOK' /\ FlagsOK'
    BY <1>4 DEF WatcherStops, PlacesOK, FlagsOK
  <2>2. CountersOK' /\ HoldersOK'
    BY <1>4 DEF WatcherStops, CountersOK, HoldersOK, PlacesOK, DrainInv
  <2>3. DrainInv'
    BY <1>4 DEF WatcherStops, HoldersOK, PlacesOK, DrainInv, NoRequestCut
  <2>4. QuietInv'
    BY <1>4 DEF WatcherStops, HoldersOK, PlacesOK, QuietInv, StoppedClean,
       managerVars
  <2>5. QED
    BY <2>1, <2>2, <2>3, <2>4
<1>5. QED
  BY <1>1, <1>2, <1>3, <1>4 DEF WatchConfig

(* A reload, whoever runs it.                                              *)
LEMMA ReloadStep ==
    ASSUME IInv, ManagerTypeOK', ReloadLaunch \/ ReloadKill \/ ReloadEnds
    PROVE  TypeOK' /\ DrainInv' /\ QuietInv'
<1> USE LifecycleAssumption DEF IInv, TypeOK, startVars, grpcVars, stopVars,
        watchVars, signalVars
<1>1. CASE ReloadLaunch \/ ReloadKill
  <2>1. UNCHANGED otherVars
    BY <1>1 DEF ReloadLaunch, ReloadKill, otherVars
  <2>2. PlacesOK' /\ FlagsOK' /\ CountersOK' /\ HoldersOK'
    BY <2>1 DEF otherVars, PlacesOK, FlagsOK, CountersOK, HoldersOK
  <2>3. DrainInv'
    BY <2>1 DEF otherVars, DrainInv, NoRequestCut
  <2>4. ~(sig = "end" /\ edits = 0)
    BY <1>1 DEF ReloadLaunch, ReloadKill, PlacesOK, HoldersOK, QuietInv
  <2>5. QuietInv'
    BY <2>1, <2>4 DEF otherVars, QuietInv, StoppedClean
  <2>6. QED
    BY <2>2, <2>3, <2>5
<1>2. CASE ReloadEnds
  <2>1. PlacesOK' /\ FlagsOK'
    BY <1>2 DEF ReloadEnds, PlacesOK, FlagsOK
  <2>2. CountersOK' /\ HoldersOK'
    BY <1>2 DEF ReloadEnds, CountersOK, HoldersOK, PlacesOK, DrainInv
  <2>3. DrainInv'
    BY <1>2 DEF ReloadEnds, HoldersOK, PlacesOK, DrainInv, NoRequestCut
  <2>4. QuietInv'
    BY <1>2 DEF ReloadEnds, HoldersOK, PlacesOK, QuietInv, StoppedClean,
       managerVars
  <2>5. QED
    BY <2>1, <2>2, <2>3, <2>4
<1>3. QED
  BY <1>1, <1>2

(* The signal goroutine.                                                   *)
LEMMA SignalStep ==
    ASSUME IInv, ManagerTypeOK', WaitForShutdown
    PROVE  TypeOK' /\ DrainInv' /\ QuietInv'
<1> USE LifecycleAssumption DEF IInv, TypeOK, SigGoto, startVars, grpcVars, stopVars,
        watchVars, signalVars
<1>1. CASE Notify
  <2>1. PlacesOK' /\ FlagsOK'
    BY <1>1 DEF Notify, PlacesOK, FlagsOK
  <2>2. CountersOK' /\ HoldersOK'
    BY <1>1 DEF Notify, CountersOK, HoldersOK, PlacesOK, DrainInv
  <2>3. DrainInv'
    BY <1>1 DEF Notify, HoldersOK, PlacesOK, DrainInv, NoRequestCut
  <2>4. QuietInv'
    BY <1>1 DEF Notify, HoldersOK, PlacesOK, QuietInv, StoppedClean,
       managerVars
  <2>5. QED
    BY <2>1, <2>2, <2>3, <2>4
<1>2. CASE TakeSignal
  <2>1. PlacesOK' /\ FlagsOK'
    BY <1>2 DEF TakeSignal, PlacesOK, FlagsOK
  <2>2. CountersOK' /\ HoldersOK'
    BY <1>2 DEF TakeSignal, CountersOK, HoldersOK, PlacesOK, DrainInv
  <2>3. DrainInv'
    BY <1>2 DEF TakeSignal, HoldersOK, PlacesOK, DrainInv, NoRequestCut
  <2>4. QuietInv'
    BY <1>2 DEF TakeSignal, HoldersOK, PlacesOK, QuietInv, StoppedClean,
       managerVars
  <2>5. QED
    BY <2>1, <2>2, <2>3, <2>4
<1>3. CASE HupReloads
  <2>1. PlacesOK' /\ FlagsOK'
    BY <1>3 DEF HupReloads, PlacesOK, FlagsOK
  <2>2. CountersOK' /\ HoldersOK'
    BY <1>3 DEF HupReloads, CountersOK, HoldersOK, PlacesOK, DrainInv
  <2>3. DrainInv'
    BY <1>3 DEF HupReloads, HoldersOK, PlacesOK, DrainInv, NoRequestCut
  <2>4. QuietInv'
    BY <1>3 DEF HupReloads, HoldersOK, PlacesOK, QuietInv, StoppedClean,
       managerVars
  <2>5. QED
    BY <2>1, <2>2, <2>3, <2>4
<1>4. CASE StopReads
  <2>1. PlacesOK' /\ FlagsOK'
    BY <1>4 DEF StopReads, PlacesOK, FlagsOK
  <2>2. CountersOK' /\ HoldersOK'
    BY <1>4 DEF StopReads, CountersOK, HoldersOK, PlacesOK, DrainInv
  <2>3. DrainInv'
    BY <1>4 DEF StopReads, HoldersOK, PlacesOK, DrainInv, NoRequestCut
  <2>4. QuietInv'
    BY <1>4 DEF StopReads, HoldersOK, PlacesOK, QuietInv, StoppedClean,
       managerVars
  <2>5. QED
    BY <2>1, <2>2, <2>3, <2>4
<1>5. CASE CloseStop
  <2>1. PlacesOK' /\ FlagsOK'
    BY <1>5 DEF CloseStop, PlacesOK, FlagsOK
  <2>2. CountersOK' /\ HoldersOK'
    BY <1>5 DEF CloseStop, CountersOK, HoldersOK, PlacesOK, DrainInv
  <2>3. DrainInv'
    BY <1>5 DEF CloseStop, HoldersOK, PlacesOK, DrainInv, NoRequestCut
  <2>4. QuietInv'
    BY <1>5 DEF CloseStop, HoldersOK, PlacesOK, QuietInv, StoppedClean,
       managerVars
  <2>5. QED
    BY <2>1, <2>2, <2>3, <2>4
<1>6. CASE GracefulStop
  <2>1. PlacesOK'
    BY <1>6 DEF GracefulStop, PlacesOK
  <2>2. FlagsOK'
    BY <1>6 DEF GracefulStop, FlagsOK
  <2>3. CountersOK' /\ HoldersOK'
    BY <1>6 DEF GracefulStop, CountersOK, HoldersOK, PlacesOK, DrainInv
  <2>4. DrainInv'
    BY <1>6 DEF GracefulStop, HoldersOK, PlacesOK, DrainInv, NoRequestCut
  <2>5. QuietInv'
    BY <1>6 DEF GracefulStop, HoldersOK, PlacesOK, QuietInv, StoppedClean,
       managerVars
  <2>6. QED
    BY <2>1, <2>2, <2>3, <2>4, <2>5
<1>7. CASE Drained
  <2>1. PlacesOK' /\ FlagsOK'
    BY <1>7 DEF Drained, PlacesOK, FlagsOK
  <2>2. CountersOK' /\ HoldersOK'
    BY <1>7 DEF Drained, CountersOK, HoldersOK, PlacesOK, DrainInv
  <2>3. DrainInv'
    BY <1>7 DEF Drained, HoldersOK, PlacesOK, DrainInv, NoRequestCut
  <2>4. QuietInv'
    BY <1>7 DEF Drained, HoldersOK, PlacesOK, QuietInv, StoppedClean,
       managerVars
  <2>5. QED
    BY <2>1, <2>2, <2>3, <2>4
<1>8. CASE CloseListener
  <2>1. PlacesOK'
    BY <1>8 DEF CloseListener, PlacesOK
  <2>2. FlagsOK'
    BY <1>8 DEF CloseListener, FlagsOK
  <2>3. CountersOK' /\ HoldersOK'
    BY <1>8 DEF CloseListener, CountersOK, HoldersOK, PlacesOK, DrainInv
  <2>4. DrainInv'
    BY <1>8 DEF CloseListener, HoldersOK, PlacesOK, DrainInv, NoRequestCut
  <2>5. QuietInv'
    BY <1>8 DEF CloseListener, HoldersOK, PlacesOK, QuietInv, StoppedClean,
       managerVars
  <2>6. QED
    BY <2>1, <2>2, <2>3, <2>4, <2>5
<1>9. CASE KillPlugins
  <2>1. alive' = {}
    BY <1>9, KillFacts DEF KillPlugins
  <2>2. PlacesOK' /\ FlagsOK'
    BY <1>9 DEF KillPlugins, PlacesOK, FlagsOK
  <2>3. CountersOK' /\ HoldersOK'
    BY <1>9 DEF KillPlugins, CountersOK, HoldersOK, PlacesOK, DrainInv
  <2>4. DrainInv'
    BY <1>9 DEF KillPlugins, HoldersOK, PlacesOK, DrainInv, NoRequestCut
  <2>5. QuietInv'
    BY <1>9, <2>1 DEF KillPlugins, HoldersOK, PlacesOK, QuietInv, StoppedClean,
       managerVars
  <2>6. QED
    BY <2>2, <2>3, <2>4, <2>5
<1>10. QED
  BY <1>1, <1>2, <1>3, <1>4, <1>5, <1>6, <1>7, <1>8, <1>9 DEF WaitForShutdown

(* Signals are sent.                                                       *)
LEMMA DeliverStep ==
    ASSUME IInv, ManagerTypeOK', SendHup \/ SendTerm
    PROVE  TypeOK' /\ DrainInv' /\ QuietInv'
<1> USE LifecycleAssumption DEF IInv, TypeOK, Deliver, startVars, grpcVars, stopVars,
        watchVars, signalVars
<1>1. CASE SendHup
  <2>1. PlacesOK' /\ FlagsOK'
    BY <1>1 DEF SendHup, PlacesOK, FlagsOK
  <2>2. CountersOK' /\ HoldersOK'
    BY <1>1 DEF SendHup, CountersOK, HoldersOK, PlacesOK, DrainInv
  <2>3. DrainInv'
    BY <1>1 DEF SendHup, HoldersOK, PlacesOK, DrainInv, NoRequestCut
  <2>4. QuietInv'
    BY <1>1 DEF SendHup, HoldersOK, PlacesOK, QuietInv, StoppedClean,
       managerVars
  <2>5. QED
    BY <2>1, <2>2, <2>3, <2>4
<1>2. CASE SendTerm
  <2>1. PlacesOK' /\ FlagsOK'
    BY <1>2 DEF SendTerm, PlacesOK, FlagsOK
  <2>2. CountersOK' /\ HoldersOK'
    BY <1>2 DEF SendTerm, CountersOK, HoldersOK, PlacesOK, DrainInv
  <2>3. DrainInv'
    BY <1>2 DEF SendTerm, HoldersOK, PlacesOK, DrainInv, NoRequestCut
  <2>4. QuietInv'
    BY <1>2 DEF SendTerm, HoldersOK, PlacesOK, QuietInv, StoppedClean,
       managerVars
  <2>5. QED
    BY <2>1, <2>2, <2>3, <2>4
<1>3. QED
  BY <1>1, <1>2

LEMMA InvStep == IInv /\ [Next]_vars => IInv'
<1> SUFFICES ASSUME IInv, [Next]_vars PROVE IInv'
  OBVIOUS
<1>1. ManagerTypeOK' /\ NoOrphans'
  BY ManagerStep DEF IInv
<1>2. CASE UNCHANGED vars
  BY <1>1, <1>2
     DEF vars, startVars, grpcVars, stopVars, watchVars, signalVars, managerVars,
         IInv, TypeOK, PlacesOK, FlagsOK, CountersOK, HoldersOK, DrainInv,
         NoRequestCut, QuietInv, StoppedClean
<1>3. QED
  BY <1>1, <1>2, StartStep, RpcStep, ReloadStep, WatchStep, SignalStep,
     DeliverStep DEF Next, IInv

LEMMA Inductive == Spec => []IInv
BY InitInv, InvStep, PTL DEF Spec

-----------------------------------------------------------------------------
(* Every variable of the daemon process keeps its type; in particular the  *)
(* holder of reloadMu is the goroutine that is reloading.                  *)
THEOREM LifecycleTypeCorrect == Spec => []TypeOK
<1>1. IInv => TypeOK
  BY DEF IInv
<1>2. QED
  BY <1>1, Inductive, PTL

(* From start to exit, every plugin process that runs is one that the      *)
(* registry holds, and so one that Stop would kill.                        *)
THEOREM NoProcessLost == Spec => []NoOrphans
<1>1. IInv => NoOrphans
  BY DEF IInv
<1>2. QED
  BY <1>1, Inductive, PTL

(* Stop kills plugins only after the requests in flight were answered, and *)
(* no request is accepted later (daemon.go Stop).                          *)
THEOREM DrainsBeforeKill == Spec => []DrainBeforeKill
<1>1. IInv => DrainBeforeKill
  BY DEF IInv, DrainInv, DrainBeforeKill
<1>2. QED
  BY <1>1, Inductive, PTL

(* The process never exits under a request that is being served, unless a  *)
(* signal came before WaitForShutdown listened for it.                     *)
THEOREM NeverCutsRequests == Spec => []NoRequestCut
<1>1. IInv => NoRequestCut
  BY DEF IInv, DrainInv
<1>2. QED
  BY <1>1, Inductive, PTL

(* After Stop nothing starts a plugin again when the watcher saw no event: *)
(* neither Start nor a reload on SIGHUP.                                   *)
THEOREM StopsClean == Spec => []StoppedClean
<1>1. IInv => StoppedClean
  BY DEF IInv, QuietInv
<1>2. QED
  BY <1>1, Inductive, PTL
=============================================================================

---------------------------- MODULE ConfigReload ----------------------------
(***************************************************************************)
(* Hot reload of the configuration (internal/daemon/daemon.go) on a        *)
(* running daemon.  Three triggers call Daemon.Reload: SIGHUP, the         *)
(* ReloadConfig RPC and the file watcher.  reloadMu lets one of them in at *)
(* a time; it loads the file, launches the plugins of new vault types,     *)
(* kills those of removed types and only then stores the new               *)
(* configuration.  Requests meanwhile read the configuration and the       *)
(* plugin registry, each at its own moment.                                *)
(***************************************************************************)
EXTENDS PluginManager

CONSTANTS
    Configs,    \* valid configurations: functions from vault names to types
    Invalid,    \* file contents that config.Load rejects
    Triggers,   \* goroutines that call Reload
    Watcher,    \* the one among them that follows file events
    Requests,   \* GetSecret requests that miss the cache
    NoTrigger,  \* reloadMu is free
    MaxEdits,   \* bound of the number of edits of the file
    MayFail,    \* whether a plugin may fail to start
    MayCrash,   \* whether a plugin may die by itself
    MayMiss     \* whether plugin binaries may be missing

(* vaultTypeSet: several vaults may share a type.                          *)
vaultTypeSet(c) == {c[v] : v \in DOMAIN c}

ASSUME ReloadAssumption ==
    /\ Types # {}
    /\ \A c \in Configs : vaultTypeSet(c) \subseteq Types
    /\ Invalid \notin Configs
    /\ Watcher \in Triggers
    /\ NoTrigger \notin Triggers
    /\ MaxEdits \in Nat
    /\ {MayFail, MayCrash, MayMiss} \subseteq BOOLEAN

VARIABLES
    disk,      \* contents of the configuration file
    edits,     \* number of edits so far
    dirty,     \* the watcher has file events or a debounce timer pending
    binaries,  \* types whose plugin binary is installed
    active,    \* the atomic pointer Daemon.cfg
    lock,      \* holder of reloadMu
    phase,     \* where each trigger stands
    newCfg,    \* Reload's newCfg, for the holder of reloadMu
    toLaunch,  \* new types that syncPlugins has not reached
    toKill,    \* removed types that syncPlugins has not reached
    found,     \* the discovered map of syncPlugins
    launched,  \* history: types the reload under way has launched
    stray,     \* history: types launched by reloads that returned an error
    rpc,       \* where each request stands
    rtype,     \* the vault type it resolved to
    rproc      \* the provider it got

fileVars    == <<disk, edits, dirty, binaries>>
historyVars == <<launched, stray>>
reloadVars  == <<active, lock, phase, newCfg, toLaunch, toKill, found, historyVars>>
requestVars == <<rpc, rtype, rproc>>
vars == <<managerVars, fileVars, reloadVars, requestVars>>

TypeOK ==
    /\ ManagerTypeOK
    /\ disk \in Configs \cup {Invalid}
    /\ edits \in 0 .. MaxEdits
    /\ dirty \in BOOLEAN
    /\ binaries \subseteq Types
    /\ active \in Configs
    /\ lock \in Triggers \cup {NoTrigger}
    /\ phase \in [Triggers -> {"idle", "waiting", "loading", "syncing"}]
    /\ \A x \in Triggers : phase[x] \in {"loading", "syncing"} <=> lock = x
    /\ newCfg \in Configs
    /\ toLaunch \subseteq Types
    /\ toKill \subseteq Types
    /\ found \subseteq Types
    /\ launched \subseteq Types /\ stray \subseteq Types
    /\ rpc \in [Requests -> {"idle", "get", "call", "ok", "noplugin", "dead"}]
    /\ rtype \in [Requests -> Types]
    /\ rproc \in [Requests -> Procs \cup {NoProc}]

(* The daemon has started: the plugins of the first configuration whose    *)
(* binaries were installed are running.                                    *)
Init ==
    /\ active \in Configs
    /\ disk = active
    /\ edits = 0
    /\ dirty = FALSE
    /\ binaries \in IF MayMiss THEN SUBSET Types ELSE {Types}
    /\ plugins \in [Types -> Procs \cup {NoProc}]
    /\ Loaded = vaultTypeSet(active) \cap binaries
    /\ \A t, u \in Loaded : plugins[t] = plugins[u] => t = u
    /\ started \in 0 .. MaxProcs
    /\ alive = 1 .. started
    /\ {plugins[t] : t \in Loaded} = alive
    /\ lock = NoTrigger
    /\ phase = [x \in Triggers |-> "idle"]
    /\ newCfg = active
    /\ toLaunch = {} /\ toKill = {} /\ found = {}
    /\ launched = {} /\ stray = {}
    /\ rpc = [r \in Requests |-> "idle"]
    /\ rtype = [r \in Requests |-> CHOOSE t \in Types : TRUE]
    /\ rproc = [r \in Requests |-> NoProc]

-----------------------------------------------------------------------------
(* The configuration file and the watcher.                                 *)

(* Someone writes the file: a valid configuration or not.  Each write is   *)
(* an event the watcher gets.                                              *)
EditFile ==
    /\ edits < MaxEdits
    /\ disk' \in (Configs \cup {Invalid}) \ {disk}
    /\ edits' = edits + 1
    /\ dirty' = TRUE
    /\ UNCHANGED <<managerVars, binaries, reloadVars, requestVars>>

(* Mutant of WatcherFires: events that arrive while a reload of another    *)
(* trigger is running are dropped.                                         *)
WatcherDropsEvents ==
    /\ dirty
    /\ phase[Watcher] = "idle"
    /\ dirty' = FALSE
    /\ phase' = IF lock = NoTrigger
                   THEN [phase EXCEPT ![Watcher] = "waiting"] ELSE phase
    /\ UNCHANGED <<managerVars, disk, edits, binaries, requestVars>>
    /\ UNCHANGED <<active, lock, newCfg, toLaunch, toKill, found, historyVars>>

(* The debounce timer fires and watchConfig calls Reload.  It reads no     *)
(* events until Reload returns; they wait in the channel.                  *)
WatcherFires ==
    /\ dirty
    /\ phase[Watcher] = "idle"
    /\ dirty' = FALSE
    /\ phase' = [phase EXCEPT ![Watcher] = "waiting"]
    /\ UNCHANGED <<managerVars, disk, edits, binaries, requestVars>>
    /\ UNCHANGED <<active, lock, newCfg, toLaunch, toKill, found, historyVars>>

(* SIGHUP arrives, or a client calls ReloadConfig.                         *)
AskReload(x) ==
    /\ x # Watcher
    /\ phase[x] = "idle"
    /\ phase' = [phase EXCEPT ![x] = "waiting"]
    /\ UNCHANGED <<managerVars, fileVars, requestVars>>
    /\ UNCHANGED <<active, lock, newCfg, toLaunch, toKill, found, historyVars>>

-----------------------------------------------------------------------------
(* Daemon.Reload and syncPlugins.                                          *)

Acquire(x) ==
    /\ phase[x] = "waiting"
    /\ lock = NoTrigger
    /\ lock' = x
    /\ phase' = [phase EXCEPT ![x] = "loading"]
    /\ UNCHANGED <<managerVars, fileVars, requestVars>>
    /\ UNCHANGED <<active, newCfg, toLaunch, toKill, found, historyVars>>

(* Mutant of Return: the mutex stays locked.                               *)
ReturnLocked(x) ==
    /\ UNCHANGED lock
    /\ phase' = [phase EXCEPT ![x] = "idle"]

(* Reload returns; the deferred unlock lets the next one in.               *)
Return(x) ==
    /\ lock' = NoTrigger
    /\ phase' = [phase EXCEPT ![x] = "idle"]

LoadFails(x) ==
    /\ phase[x] = "loading"
    /\ disk = Invalid
    /\ Return(x)
    /\ UNCHANGED <<managerVars, fileVars, requestVars>>
    /\ UNCHANGED <<active, newCfg, toLaunch, toKill, found, historyVars>>

(* Mutant of LoadConfig: every plugin is restarted.                        *)
LoadRestartsAll(x) ==
    /\ phase[x] = "loading"
    /\ disk \in Configs
    /\ phase' = [phase EXCEPT ![x] = "syncing"]
    /\ newCfg' = disk
    /\ toLaunch' = vaultTypeSet(disk) \ vaultTypeSet(active)
    /\ toKill' = vaultTypeSet(active)
    /\ found' = binaries
    /\ UNCHANGED <<managerVars, fileVars, requestVars, active, lock, historyVars>>

(* The file is loaded, the delta of vault types computed and the search    *)
(* path scanned for plugin binaries.                                       *)
LoadConfig(x) ==
    /\ phase[x] = "loading"
    /\ disk \in Configs
    /\ phase' = [phase EXCEPT ![x] = "syncing"]
    /\ newCfg' = disk
    /\ toLaunch' = vaultTypeSet(disk) \ vaultTypeSet(active)
    /\ toKill' = vaultTypeSet(active) \ vaultTypeSet(disk)
    /\ found' = binaries
    /\ UNCHANGED <<managerVars, fileVars, requestVars, active, lock, historyVars>>

(* A new type without a binary is passed over with a warning.              *)
SkipMissing(x) ==
    /\ phase[x] = "syncing"
    /\ \E t \in toLaunch \ found : toLaunch' = toLaunch \ {t}
    /\ UNCHANGED <<managerVars, fileVars, requestVars>>
    /\ UNCHANGED <<active, lock, phase, newCfg, toKill, found, historyVars>>

LaunchNew(x) ==
    /\ phase[x] = "syncing"
    /\ \E t \in toLaunch \cap found : /\ Launch(t)
                                      /\ toLaunch' = toLaunch \ {t}
                                      /\ launched' = launched \cup {t}
    /\ UNCHANGED <<fileVars, requestVars>>
    /\ UNCHANGED <<active, lock, phase, newCfg, toKill, found, stray>>

(* The first Launch that fails ends the reload, with what was launched     *)
(* before left running.                                                    *)
LaunchError(x) ==
    /\ phase[x] = "syncing"
    /\ \E t \in toLaunch \cap found :
          LaunchRefused(t) \/ (MayFail /\ LaunchFails(t))
    /\ Return(x)
    /\ stray' = stray \cup launched
    /\ launched' = {}
    /\ UNCHANGED <<fileVars, requestVars>>
    /\ UNCHANGED <<active, newCfg, toLaunch, toKill, found>>

(* Mutant of KillRemoved: removed plugins are killed first.                *)
KillRemovedFirst(x) ==
    /\ phase[x] = "syncing"
    /\ \E t \in toKill : KillOne(t) /\ toKill' = toKill \ {t}
    /\ UNCHANGED <<fileVars, requestVars>>
    /\ UNCHANGED <<active, lock, phase, newCfg, toLaunch, found, historyVars>>

KillRemoved(x) ==
    /\ phase[x] = "syncing"
    /\ toLaunch = {}
    /\ \E t \in toKill : KillOne(t) /\ toKill' = toKill \ {t}
    /\ UNCHANGED <<fileVars, requestVars>>
    /\ UNCHANGED <<active, lock, phase, newCfg, toLaunch, found, historyVars>>

(* Mutant of StoreConfig: the configuration is stored before removed       *)
(* plugins are killed, and they are then forgotten.                        *)
StoreConfigEarly(x) ==
    /\ phase[x] = "syncing"
    /\ toLaunch = {}
    /\ active' = newCfg
    /\ Return(x)
    /\ launched' = {}
    /\ UNCHANGED <<managerVars, fileVars, requestVars>>
    /\ UNCHANGED <<newCfg, toLaunch, toKill, found, stray>>

StoreConfig(x) ==
    /\ phase[x] = "syncing"
    /\ toLaunch = {} /\ toKill = {}
    /\ active' = newCfg
    /\ Return(x)
    /\ launched' = {}
    /\ UNCHANGED <<managerVars, fileVars, requestVars>>
    /\ UNCHANGED <<newCfg, toLaunch, toKill, found, stray>>

Reload(x) ==
    \/ Acquire(x)     \/ LoadFails(x)   \/ LoadConfig(x)
    \/ SkipMissing(x) \/ LaunchNew(x)   \/ LaunchError(x)
    \/ KillRemoved(x) \/ StoreConfig(x)

-----------------------------------------------------------------------------
(* A request resolves its key in the active configuration, then gets the   *)
(* plugin, then calls it.                                                  *)

ResolveRequest(r) ==
    /\ rpc[r] = "idle"
    /\ \E t \in vaultTypeSet(active) : rtype' = [rtype EXCEPT ![r] = t]
    /\ rpc' = [rpc EXCEPT ![r] = "get"]
    /\ UNCHANGED <<managerVars, fileVars, reloadVars, rproc>>

GetPlugin(r) ==
    /\ rpc[r] = "get"
    /\ rpc' = [rpc EXCEPT ![r] = IF Get(rtype[r]) = NoProc THEN "noplugin" ELSE "call"]
    /\ rproc' = [rproc EXCEPT ![r] = Get(rtype[r])]
    /\ UNCHANGED <<managerVars, fileVars, reloadVars, rtype>>

(* The call fails when the process is gone.                                *)
CallPlugin(r) ==
    /\ rpc[r] = "call"
    /\ rpc' = [rpc EXCEPT ![r] = IF rproc[r] \in alive THEN "ok" ELSE "dead"]
    /\ UNCHANGED <<managerVars, fileVars, reloadVars, rtype, rproc>>

PluginCrash ==
    /\ MayCrash
    /\ Crash
    /\ UNCHANGED <<fileVars, reloadVars, requestVars>>

(* A plugin binary is installed while the daemon runs.                     *)
InstallBinary ==
    /\ \E t \in Types \ binaries : binaries' = binaries \cup {t}
    /\ UNCHANGED <<managerVars, disk, edits, dirty, reloadVars, requestVars>>

Next ==
    \/ EditFile
    \/ WatcherFires
    \/ \E x \in Triggers : AskReload(x) \/ Reload(x)
    \/ \E r \in Requests : ResolveRequest(r) \/ GetPlugin(r) \/ CallPlugin(r)
    \/ PluginCrash
    \/ InstallBinary

Spec == Init /\ [][Next]_vars

(* The watcher's goroutine runs, a mutex does not starve a waiter, and a   *)
(* reload that has the lock goes on until it returns.                      *)
Fairness ==
    /\ WF_vars(WatcherFires)
    /\ \A x \in Triggers : SF_vars(Acquire(x)) /\ WF_vars(Reload(x))

FairSpec == Spec /\ Fairness

-----------------------------------------------------------------------------
(* Properties.                                                             *)

(* With all binaries installed, the plugin of a type of the active         *)
(* configuration is loaded at all times, failed reloads and failed         *)
(* launches included, except while a reload that can no longer fail is     *)
(* about to replace the configuration by one without that type.            *)
ActivePluginsLoaded ==
    \A t \in vaultTypeSet(active) :
        t \in Loaded \/ /\ lock # NoTrigger
                        /\ phase[lock] = "syncing"
                        /\ toLaunch = {}
                        /\ t \notin vaultTypeSet(newCfg)

(* Between reloads only plugins of the active configuration run, and those *)
(* that a reload had launched before a later Launch of it failed           *)
(* (daemon.go:113-115): these are all a failed reload leaves behind, and   *)
(* one that succeeds leaves nothing.                                       *)
OnlyActiveLoaded ==
    lock = NoTrigger => Loaded \subseteq vaultTypeSet(active) \cup stray

(* What a failed reload left behind is never put in use: Launch refuses a  *)
(* type that is running (manager.go:111-113), so each later reload to a    *)
(* configuration with that type fails, also once its plugins would all     *)
(* start, and none kills the plugin.                                       *)
StrayNeverUsed ==
    /\ stray \subseteq Loaded
    /\ stray \cap vaultTypeSet(active) = {}

(* What reloads leave running beyond the active configuration is what the  *)
(* failed ones launched, and that stays as it is.                          *)
LeftoversContained == OnlyActiveLoaded /\ StrayNeverUsed

(* A reload never kills or restarts a plugin whose type is in the old and  *)
(* in the new configuration.                                               *)
KeptPluginsUntouched ==
    [][\A t \in Loaded \cap vaultTypeSet(active) :
          (lock = NoTrigger \/ t \in vaultTypeSet(newCfg))
             => plugins'[t] = plugins[t]]_vars

(* Once the file is no longer edited, the daemon comes to run with what    *)
(* the file says, if that is valid: no edit is lost between the debounce   *)
(* timer, the event channel and reloads of other triggers.                 *)
EditsTakeEffect == <>[](disk \in Configs => active = disk)

(* Every trigger that calls Reload gets an answer.                         *)
ReloadsReturn ==
    \A x \in Triggers : phase[x] = "waiting" ~> phase[x] = "idle"
=============================================================================

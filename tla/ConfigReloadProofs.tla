------------------------- MODULE ConfigReloadProofs -------------------------
(***************************************************************************)
(* What holds of ConfigReload for every set of vault types, configurations *)
(* and triggers, and every number of edits and processes.                  *)
(***************************************************************************)
EXTENDS ConfigReload, TLAPS

Syncing == lock # NoTrigger /\ phase[lock] = "syncing"

newTypes == vaultTypeSet(newCfg)
activeTypes == vaultTypeSet(active)

LEMMA TypesOf ==
    ASSUME NEW c \in Configs
    PROVE  vaultTypeSet(c) \subseteq Types
BY ReloadAssumption

-----------------------------------------------------------------------------
(* What each method of the plugin registry does to its state.              *)

(* A launch adds one type and one process.                                 *)
LEMMA LaunchFacts ==
    ASSUME ManagerTypeOK, NEW t \in Types, Launch(t)
    PROVE  /\ ManagerTypeOK'
           /\ t \notin Loaded /\ Loaded' = Loaded \cup {t}
           /\ \A u \in Types \ {t} : plugins'[u] = plugins[u]
           /\ NoOrphans => NoOrphans'
<1>1. /\ plugins[t] = NoProc /\ started < MaxProcs /\ started' = started + 1
      /\ plugins' = [plugins EXCEPT ![t] = started + 1]
      /\ alive' = alive \cup {started + 1}
  BY DEF Launch
<1>2. started \in Nat /\ started + 1 \in Procs /\ started + 1 # NoProc
  BY <1>1, ManagerAssumption DEF ManagerTypeOK, Procs, NoProc
<1>3. ManagerTypeOK'
  BY <1>1, <1>2, ManagerAssumption DEF ManagerTypeOK, Procs, NoProc
<1>4. plugins'[t] = started + 1 /\ \A u \in Types \ {t} : plugins'[u] = plugins[u]
  BY <1>1 DEF ManagerTypeOK
<1>5. t \notin Loaded /\ Loaded' = Loaded \cup {t}
  BY <1>1, <1>2, <1>4 DEF Loaded
<1>6. ASSUME NoOrphans PROVE NoOrphans'
  <2> SUFFICES ASSUME NEW p \in alive'
               PROVE  \E u \in Types : plugins'[u] = p
    BY DEF NoOrphans
  <2>1. CASE p = started + 1
    BY <1>4, <2>1
  <2>2. CASE p \in alive
    <3>1. PICK u \in Types : plugins[u] = p
      BY <1>6, <2>2 DEF NoOrphans
    <3>2. u # t
      BY <1>1, <2>2, <3>1 DEF ManagerTypeOK, NoProc
    <3>3. QED
      BY <1>4, <3>1, <3>2
  <2>3. QED
    BY <1>1, <2>1, <2>2
<1>7. QED
  BY <1>3, <1>4, <1>5, <1>6

(* Killing one plugin removes its type and its process.                    *)
LEMMA KillOneFacts ==
    ASSUME ManagerTypeOK, NEW t \in Types, KillOne(t)
    PROVE  /\ ManagerTypeOK'
           /\ Loaded' = Loaded \ {t}
           /\ \A u \in Types \ {t} : plugins'[u] = plugins[u]
           /\ NoOrphans => NoOrphans'
<1>1. /\ alive' = alive \ {plugins[t]} /\ started' = started
      /\ plugins' = [plugins EXCEPT ![t] = NoProc]
  BY DEF KillOne
<1>2. ManagerTypeOK'
  BY <1>1 DEF ManagerTypeOK
<1>3. plugins'[t] = NoProc /\ \A u \in Types \ {t} : plugins'[u] = plugins[u]
  BY <1>1 DEF ManagerTypeOK
<1>4. Loaded' = Loaded \ {t}
  BY <1>3 DEF Loaded
<1>5. ASSUME NoOrphans PROVE NoOrphans'
  BY <1>1, <1>3, <1>5 DEF NoOrphans
<1>6. QED
  BY <1>2, <1>3, <1>4, <1>5

LEMMA CrashFacts ==
    ASSUME ManagerTypeOK, Crash
    PROVE  /\ ManagerTypeOK' /\ plugins' = plugins /\ Loaded' = Loaded
           /\ NoOrphans => NoOrphans'
BY DEF Crash, ManagerTypeOK, Loaded, NoOrphans

LEMMA ManagerStill ==
    ASSUME ManagerTypeOK, UNCHANGED managerVars
    PROVE  /\ ManagerTypeOK' /\ plugins' = plugins /\ Loaded' = Loaded
           /\ NoOrphans => NoOrphans'
BY DEF managerVars, ManagerTypeOK, Loaded, NoOrphans

-----------------------------------------------------------------------------
(* Type correctness, and no plugin process that the registry has lost.     *)

LEMMA InitType == Init => TypeOK /\ NoOrphans
<1> SUFFICES ASSUME Init PROVE TypeOK /\ NoOrphans
  OBVIOUS
<1>1. ManagerTypeOK
  BY ManagerAssumption DEF Init, ManagerTypeOK
<1>2. NoOrphans
  BY DEF Init, NoOrphans, Loaded
<1>3. (CHOOSE t \in Types : TRUE) \in Types
  BY ReloadAssumption
<1>4. rtype \in [Requests -> Types]
  BY <1>3 DEF Init
<1>5. edits \in 0 .. MaxEdits
  BY ReloadAssumption DEF Init
<1>6. /\ binaries \subseteq Types /\ disk \in Configs /\ active \in Configs
      /\ dirty \in BOOLEAN /\ newCfg \in Configs
      /\ toLaunch = {} /\ toKill = {} /\ found = {} /\ launched = {} /\ stray = {}
      /\ rpc \in [Requests -> {"idle"}] /\ rproc \in [Requests -> {NoProc}]
  BY DEF Init
<1>7. /\ lock = NoTrigger /\ phase = [x \in Triggers |-> "idle"]
      /\ \A x \in Triggers : phase[x] \in {"loading", "syncing"} <=> lock = x
  BY ReloadAssumption DEF Init
<1>8. QED
  BY <1>1, <1>2, <1>4, <1>5, <1>6, <1>7 DEF TypeOK

(* A step of a reload: the trigger holds the lock, or takes it.            *)
LEMMA ReloadType ==
    ASSUME TypeOK, NEW x \in Triggers, Reload(x)
    PROVE  TypeOK' /\ (NoOrphans => NoOrphans')
<1> USE DEF TypeOK
<1>1. CASE Acquire(x) \/ LoadFails(x) \/ StoreConfig(x)
  <2>1. /\ UNCHANGED <<managerVars, fileVars, requestVars>>
        /\ UNCHANGED <<newCfg, toLaunch, toKill, found>>
        /\ active' \in Configs /\ launched' \subseteq Types /\ stray' \subseteq Types
    BY <1>1 DEF Acquire, LoadFails, StoreConfig, historyVars
  <2>2. /\ lock' \in Triggers \cup {NoTrigger}
        /\ phase' \in [Triggers -> {"idle", "waiting", "loading", "syncing"}]
        /\ \A y \in Triggers : phase'[y] \in {"loading", "syncing"} <=> lock' = y
    BY <1>1, ReloadAssumption DEF Acquire, LoadFails, StoreConfig, Return
  <2>3. QED
    BY <2>1, <2>2, ManagerStill DEF fileVars, requestVars
<1>2. CASE LoadConfig(x)
  <2>1. newCfg' \in Configs /\ toLaunch' \subseteq Types /\ toKill' \subseteq Types
        /\ found' \subseteq Types
    BY <1>2, TypesOf DEF LoadConfig
  <2>2. /\ phase' \in [Triggers -> {"idle", "waiting", "loading", "syncing"}]
        /\ \A y \in Triggers : phase'[y] \in {"loading", "syncing"} <=> lock' = y
    BY <1>2 DEF LoadConfig
  <2>3. QED
    BY <1>2, <2>1, <2>2, ManagerStill
       DEF LoadConfig, fileVars, requestVars, historyVars
<1>3. CASE SkipMissing(x)
  BY <1>3, ManagerStill DEF SkipMissing, fileVars, requestVars, historyVars
<1>4. CASE LaunchNew(x)
  <2>1. PICK t \in toLaunch \cap found : /\ Launch(t)
                                         /\ toLaunch' = toLaunch \ {t}
                                         /\ launched' = launched \cup {t}
    BY <1>4 DEF LaunchNew
  <2>2. t \in Types
    OBVIOUS
  <2>3. ManagerTypeOK' /\ (NoOrphans => NoOrphans')
    BY <2>1, <2>2, LaunchFacts
  <2>4. QED
    BY <1>4, <2>1, <2>3 DEF LaunchNew, fileVars, requestVars
<1>5. CASE LaunchError(x)
  <2>1. UNCHANGED managerVars
    BY <1>5 DEF LaunchError, LaunchRefused, LaunchFails
  <2>2. /\ lock' \in Triggers \cup {NoTrigger}
        /\ phase' \in [Triggers -> {"idle", "waiting", "loading", "syncing"}]
        /\ \A y \in Triggers : phase'[y] \in {"loading", "syncing"} <=> lock' = y
    BY <1>5, ReloadAssumption DEF LaunchError, Return
  <2>3. QED
    BY <1>5, <2>1, <2>2, ManagerStill DEF LaunchError, fileVars, requestVars
<1>6. CASE KillRemoved(x)
  <2>1. PICK t \in toKill : KillOne(t) /\ toKill' = toKill \ {t}
    BY <1>6 DEF KillRemoved
  <2>2. ManagerTypeOK' /\ (NoOrphans => NoOrphans')
    BY <2>1, KillOneFacts
  <2>3. QED
    BY <1>6, <2>1, <2>2 DEF KillRemoved, fileVars, requestVars, historyVars
<1>7. QED
  BY <1>1, <1>2, <1>3, <1>4, <1>5, <1>6 DEF Reload

LEMMA TypeStep == TypeOK /\ [Next]_vars => TypeOK' /\ (NoOrphans => NoOrphans')
<1> SUFFICES ASSUME TypeOK, [Next]_vars
             PROVE  TypeOK' /\ (NoOrphans => NoOrphans')
  OBVIOUS
<1> USE DEF TypeOK
<1>1. CASE EditFile
  <2>1. edits' \in 0 .. MaxEdits
    BY <1>1, ReloadAssumption DEF EditFile
  <2>2. QED
    BY <1>1, <2>1, ManagerStill DEF EditFile, reloadVars, requestVars, historyVars
<1>2. CASE WatcherFires \/ \E x \in Triggers : AskReload(x)
  <2>1. PICK x \in Triggers : phase[x] = "idle"
                              /\ phase' = [phase EXCEPT ![x] = "waiting"]
    BY <1>2, ReloadAssumption DEF WatcherFires, AskReload
  <2>2. /\ phase' \in [Triggers -> {"idle", "waiting", "loading", "syncing"}]
        /\ \A y \in Triggers : phase'[y] \in {"loading", "syncing"} <=> lock = y
    BY <2>1
  <2>3. QED
    BY <1>2, <2>2, ManagerStill
       DEF WatcherFires, AskReload, fileVars, requestVars, historyVars
<1>3. ASSUME NEW x \in Triggers, Reload(x)
      PROVE  TypeOK' /\ (NoOrphans => NoOrphans')
  BY <1>3, ReloadType
<1>4. ASSUME NEW r \in Requests, ResolveRequest(r)
      PROVE  TypeOK' /\ (NoOrphans => NoOrphans')
  <2>1. rtype' \in [Requests -> Types]
    BY <1>4, TypesOf DEF ResolveRequest
  <2>2. QED
    BY <1>4, <2>1, ManagerStill DEF ResolveRequest, fileVars, reloadVars, historyVars
<1>5. ASSUME NEW r \in Requests, GetPlugin(r) \/ CallPlugin(r)
      PROVE  TypeOK' /\ (NoOrphans => NoOrphans')
  <2>1. /\ rproc' \in [Requests -> Procs \cup {NoProc}]
        /\ rpc' \in [Requests -> {"idle", "get", "call", "ok", "noplugin", "dead"}]
    BY <1>5 DEF GetPlugin, CallPlugin, Get, ManagerTypeOK
  <2>2. QED
    BY <1>5, <2>1, ManagerStill
       DEF GetPlugin, CallPlugin, fileVars, reloadVars, historyVars
<1>6. CASE PluginCrash
  BY <1>6, CrashFacts DEF PluginCrash, fileVars, reloadVars, requestVars, historyVars
<1>7. CASE InstallBinary
  BY <1>7, ManagerStill DEF InstallBinary, reloadVars, requestVars, historyVars
<1>8. CASE UNCHANGED vars
  BY <1>8, ManagerStill DEF vars, fileVars, reloadVars, requestVars, historyVars
<1>9. QED
  BY <1>1, <1>2, <1>3, <1>4, <1>5, <1>6, <1>7, <1>8 DEF Next

(* Every variable of the reload machinery keeps its type; in particular    *)
(* one trigger at a time is inside Reload.                                 *)
THEOREM ReloadTypeCorrect == Spec => []TypeOK
BY InitType, TypeStep, PTL DEF Spec

(* No reload, failed launch or crash ever leaves a plugin process running  *)
(* that Manager.Kill would not reach.                                      *)
THEOREM NoProcessLost == Spec => []NoOrphans
BY InitType, TypeStep, PTL DEF Spec

-----------------------------------------------------------------------------
(* A reload's delta: what it launches is new, what it kills is not needed. *)
DeltaInv ==
    Syncing => /\ toLaunch \subseteq newTypes \ activeTypes
               /\ toKill \subseteq activeTypes \ newTypes

(* With every binary installed, a reload that syncs either has yet to      *)
(* launch a new type or has it loaded.                                     *)
CompleteInv ==
    /\ binaries = Types
    /\ Syncing => /\ found = Types
                  /\ newTypes \subseteq activeTypes \cup toLaunch \cup Loaded
    /\ ActivePluginsLoaded

(* What runs is accounted for: it is active, launched by the reload under  *)
(* way or left behind by a failed one; and once a reload has killed what   *)
(* it removes, it is of the new configuration or left behind.              *)
TidyInv ==
    /\ Loaded \subseteq activeTypes \cup launched \cup stray
    /\ ~Syncing => launched = {}
    /\ Syncing => Loaded \subseteq newTypes \cup toKill \cup stray

(* What a failed reload left behind, or the one under way has launched, is *)
(* running, not active, and would be refused if it were launched again;    *)
(* its binary is there, so no reload passes it over.                       *)
StrayInv ==
    /\ stray \cup launched \subseteq Loaded
    /\ (stray \cup launched) \cap activeTypes = {}
    /\ stray \cup launched \subseteq binaries
    /\ ~Syncing => launched = {}
    /\ Syncing => /\ found \subseteq binaries
                  /\ launched \subseteq newTypes
                  /\ stray \cap newTypes \subseteq toLaunch \cap found

(* What the steps outside Reload leave alone.                              *)
LEMMA OutsideStep ==
    ASSUME TypeOK, Next, ~ \E x \in Triggers : Reload(x)
    PROVE  /\ UNCHANGED <<active, lock, newCfg, toLaunch, toKill, found, plugins>>
           /\ UNCHANGED <<launched, stray>>
           /\ Loaded' = Loaded
           /\ Syncing' <=> Syncing
           /\ lock # NoTrigger => phase'[lock] = phase[lock]
           /\ binaries \subseteq binaries'
<1> USE DEF TypeOK
<1>1. CASE WatcherFires \/ \E x \in Triggers : AskReload(x)
  <2>1. PICK x \in Triggers : phase[x] = "idle"
                              /\ phase' = [phase EXCEPT ![x] = "waiting"]
    BY <1>1, ReloadAssumption DEF WatcherFires, AskReload
  <2>2. lock # x
    BY <2>1
  <2>3. lock # NoTrigger => phase'[lock] = phase[lock]
    BY <2>1, <2>2
  <2>4. UNCHANGED <<active, lock, newCfg, toLaunch, toKill, found, plugins,
                    binaries, launched, stray>>
    BY <1>1 DEF WatcherFires, AskReload, managerVars, fileVars, historyVars
  <2>5. QED
    BY <2>3, <2>4 DEF Loaded, Syncing
<1>2. CASE \/ EditFile \/ PluginCrash \/ InstallBinary
           \/ \E r \in Requests : ResolveRequest(r) \/ GetPlugin(r) \/ CallPlugin(r)
  BY <1>2 DEF EditFile, PluginCrash, Crash, InstallBinary, ResolveRequest,
              GetPlugin, CallPlugin, managerVars, fileVars, reloadVars,
              historyVars, Loaded, Syncing
<1>3. QED
  BY <1>1, <1>2 DEF Next

(* Where each step of Reload starts and ends.                              *)
LEMMA ReloadPhases ==
    ASSUME TypeOK, NEW x \in Triggers
    PROVE  /\ Acquire(x) \/ LoadFails(x) => ~Syncing /\ ~Syncing'
           /\ LoadConfig(x) => ~Syncing /\ Syncing'
           /\ SkipMissing(x) \/ LaunchNew(x) \/ KillRemoved(x)
                => Syncing /\ Syncing' /\ lock = x
           /\ LaunchError(x) \/ StoreConfig(x) => Syncing /\ ~Syncing'
<1> USE ReloadAssumption DEF TypeOK
<1>1. Acquire(x) \/ LoadFails(x) => ~Syncing /\ ~Syncing'
  BY DEF Acquire, LoadFails, Return, Syncing
<1>2. LoadConfig(x) => ~Syncing /\ Syncing'
  BY DEF LoadConfig, Syncing
<1>3. SkipMissing(x) \/ LaunchNew(x) \/ KillRemoved(x)
         => Syncing /\ Syncing' /\ lock = x
  BY DEF SkipMissing, LaunchNew, KillRemoved, Syncing
<1>4. LaunchError(x) \/ StoreConfig(x) => Syncing /\ ~Syncing'
  BY DEF LaunchError, StoreConfig, Return, Syncing
<1>5. QED
  BY <1>1, <1>2, <1>3, <1>4

(* What each step of Reload does to the registry's types.                  *)
LEMMA ReloadLoads ==
    ASSUME TypeOK, NEW x \in Triggers
    PROVE  /\ Acquire(x) \/ LoadFails(x) \/ LoadConfig(x) \/ SkipMissing(x)
                \/ LaunchError(x) \/ StoreConfig(x)
                => plugins' = plugins /\ Loaded' = Loaded
           /\ LaunchNew(x) => \E t \in toLaunch \cap found :
                 /\ toLaunch' = toLaunch \ {t}
                 /\ launched' = launched \cup {t}
                 /\ t \notin Loaded /\ Loaded' = Loaded \cup {t}
                 /\ \A u \in Types \ {t} : plugins'[u] = plugins[u]
           /\ KillRemoved(x) => \E t \in toKill :
                 /\ toKill' = toKill \ {t}
                 /\ Loaded' = Loaded \ {t}
                 /\ \A u \in Types \ {t} : plugins'[u] = plugins[u]
<1> USE DEF TypeOK
<1>1. Acquire(x) \/ LoadFails(x) \/ LoadConfig(x) \/ SkipMissing(x)
        \/ LaunchError(x) \/ StoreConfig(x)
        => plugins' = plugins /\ Loaded' = Loaded
  BY DEF Acquire, LoadFails, LoadConfig, SkipMissing, LaunchError,
         LaunchRefused, LaunchFails, StoreConfig, managerVars, Loaded
<1>2. ASSUME LaunchNew(x)
      PROVE  \E t \in toLaunch \cap found :
                 /\ toLaunch' = toLaunch \ {t}
                 /\ launched' = launched \cup {t}
                 /\ t \notin Loaded /\ Loaded' = Loaded \cup {t}
                 /\ \A u \in Types \ {t} : plugins'[u] = plugins[u]
  <2>1. PICK t \in toLaunch \cap found : /\ Launch(t)
                                         /\ toLaunch' = toLaunch \ {t}
                                         /\ launched' = launched \cup {t}
    BY <1>2 DEF LaunchNew
  <2>2. QED
    BY <2>1, LaunchFacts
<1>3. ASSUME KillRemoved(x)
      PROVE  \E t \in toKill :
                 /\ toKill' = toKill \ {t}
                 /\ Loaded' = Loaded \ {t}
                 /\ \A u \in Types \ {t} : plugins'[u] = plugins[u]
  <2>1. PICK t \in toKill : KillOne(t) /\ toKill' = toKill \ {t}
    BY <1>3 DEF KillRemoved
  <2>2. QED
    BY <2>1, KillOneFacts
<1>4. QED
  BY <1>1, <1>2, <1>3

LEMMA DeltaStep == TypeOK /\ DeltaInv /\ [Next]_vars => DeltaInv'
<1> SUFFICES ASSUME TypeOK, DeltaInv, [Next]_vars
             PROVE  DeltaInv'
  OBVIOUS
<1>1. ASSUME NEW x \in Triggers, Reload(x)
      PROVE  DeltaInv'
  <2>1. CASE Acquire(x) \/ LoadFails(x) \/ LaunchError(x) \/ StoreConfig(x)
    BY <2>1, ReloadPhases DEF DeltaInv
  <2>2. CASE LoadConfig(x)
    BY <2>2 DEF LoadConfig, DeltaInv, newTypes, activeTypes, vaultTypeSet
  <2>3. CASE SkipMissing(x) \/ LaunchNew(x) \/ KillRemoved(x)
    <3>1. /\ active' = active /\ newCfg' = newCfg
          /\ toLaunch' \subseteq toLaunch /\ toKill' \subseteq toKill
      BY <2>3 DEF SkipMissing, LaunchNew, KillRemoved
    <3>2. QED
      BY <2>3, <3>1, ReloadPhases DEF DeltaInv, newTypes, activeTypes, vaultTypeSet
  <2>4. QED
    BY <1>1, <2>1, <2>2, <2>3 DEF Reload
<1>2. CASE Next /\ ~ \E x \in Triggers : Reload(x)
  BY <1>2, OutsideStep DEF DeltaInv, newTypes, activeTypes, vaultTypeSet
<1>3. CASE UNCHANGED vars
  BY <1>3 DEF vars, reloadVars, DeltaInv, Syncing, newTypes, activeTypes, vaultTypeSet
<1>4. QED
  BY <1>1, <1>2, <1>3

-----------------------------------------------------------------------------
(* ActivePluginsLoaded, said with the names used here.                     *)
LEMMA ActiveLoaded ==
    ActivePluginsLoaded <=>
        \A t \in activeTypes :
            t \in Loaded \/ (Syncing /\ toLaunch = {} /\ t \notin newTypes)
BY DEF ActivePluginsLoaded, activeTypes, newTypes, Syncing

LEMMA CompleteStep ==
    TypeOK /\ DeltaInv /\ CompleteInv /\ [Next]_vars => CompleteInv'
<1> SUFFICES ASSUME TypeOK, DeltaInv, CompleteInv, [Next]_vars
             PROVE  CompleteInv'
  OBVIOUS
<1> DEFINE Act == \A t \in activeTypes :
                      t \in Loaded \/ (Syncing /\ toLaunch = {} /\ t \notin newTypes)
<1>1. Act /\ binaries = Types
  BY ActiveLoaded DEF CompleteInv
<1>2. ActivePluginsLoaded' <=> Act'
  BY DEF ActivePluginsLoaded, activeTypes, newTypes, Syncing
<1>3. ASSUME NEW x \in Triggers, Reload(x)
      PROVE  CompleteInv'
  <2>1. binaries' = Types
    BY <1>1, <1>3 DEF Reload, Acquire, LoadFails, LoadConfig, SkipMissing,
                     LaunchNew, LaunchError, KillRemoved, StoreConfig, fileVars
  <2>2. CASE Acquire(x) \/ LoadFails(x)
    <3>1. active' = active /\ Loaded' = Loaded /\ ~Syncing /\ ~Syncing'
      BY <2>2, ReloadPhases, ReloadLoads DEF Acquire, LoadFails
    <3>2. Act'
      BY <1>1, <3>1 DEF activeTypes, vaultTypeSet
    <3>3. QED
      BY <1>2, <2>1, <3>1, <3>2 DEF CompleteInv
  <2>3. CASE LoadConfig(x)
    <3>1. /\ active' = active /\ Loaded' = Loaded /\ ~Syncing /\ found' = Types
          /\ toLaunch' = newTypes' \ activeTypes
      BY <1>1, <2>3, ReloadPhases, ReloadLoads
         DEF LoadConfig, newTypes, activeTypes, vaultTypeSet
    <3>2. Act' /\ activeTypes' = activeTypes
      BY <1>1, <3>1 DEF activeTypes, vaultTypeSet
    <3>3. QED
      BY <1>2, <2>1, <3>1, <3>2 DEF CompleteInv
  <2>4. CASE SkipMissing(x)
    BY <2>4, ReloadPhases DEF SkipMissing, CompleteInv, TypeOK
  <2>5. CASE LaunchNew(x)
    <3>1. /\ active' = active /\ newCfg' = newCfg /\ found' = found
          /\ toLaunch # {} /\ Syncing /\ Syncing'
      BY <2>5, ReloadPhases DEF LaunchNew
    <3>2. PICK t \in toLaunch \cap found :
             toLaunch' = toLaunch \ {t} /\ Loaded' = Loaded \cup {t}
      BY <2>5, ReloadLoads
    <3>3. newTypes' = newTypes /\ activeTypes' = activeTypes
      BY <3>1 DEF newTypes, activeTypes, vaultTypeSet
    <3>4. Act'
      BY <1>1, <3>1, <3>2, <3>3
    <3>5. newTypes' \subseteq activeTypes' \cup toLaunch' \cup Loaded'
      BY <3>1, <3>2, <3>3 DEF CompleteInv
    <3>6. QED
      BY <1>2, <2>1, <3>1, <3>4, <3>5 DEF CompleteInv
  <2>6. CASE LaunchError(x)
    <3>1. /\ active' = active /\ Loaded' = Loaded /\ toLaunch # {} /\ ~Syncing'
      BY <2>6, ReloadPhases, ReloadLoads DEF LaunchError
    <3>2. Act'
      BY <1>1, <3>1 DEF activeTypes, vaultTypeSet
    <3>3. QED
      BY <1>2, <2>1, <3>1, <3>2 DEF CompleteInv
  <2>7. CASE KillRemoved(x)
    <3>1. /\ active' = active /\ newCfg' = newCfg /\ found' = found
          /\ toLaunch = {} /\ toLaunch' = {} /\ Syncing /\ Syncing'
      BY <2>7, ReloadPhases DEF KillRemoved
    <3>2. PICK t \in toKill : Loaded' = Loaded \ {t}
      BY <2>7, ReloadLoads
    <3>3. newTypes' = newTypes /\ activeTypes' = activeTypes /\ t \notin newTypes
      BY <3>1, <3>2 DEF newTypes, activeTypes, vaultTypeSet, DeltaInv
    <3>4. Act'
      BY <1>1, <3>1, <3>2, <3>3
    <3>5. newTypes' \subseteq activeTypes' \cup toLaunch' \cup Loaded'
      BY <3>1, <3>2, <3>3 DEF CompleteInv
    <3>6. QED
      BY <1>2, <2>1, <3>1, <3>4, <3>5 DEF CompleteInv
  <2>8. CASE StoreConfig(x)
    <3>1. /\ active' = newCfg /\ Loaded' = Loaded /\ toLaunch = {}
          /\ Syncing /\ ~Syncing'
      BY <2>8, ReloadPhases, ReloadLoads DEF StoreConfig
    <3>2. activeTypes' = newTypes
      BY <3>1 DEF activeTypes, newTypes, vaultTypeSet
    <3>3. newTypes \subseteq Loaded
      BY <1>1, <3>1 DEF CompleteInv
    <3>4. Act'
      BY <3>1, <3>2, <3>3
    <3>5. QED
      BY <1>2, <2>1, <3>1, <3>4 DEF CompleteInv
  <2>9. QED
    BY <1>3, <2>2, <2>3, <2>4, <2>5, <2>6, <2>7, <2>8 DEF Reload
<1>4. CASE Next /\ ~ \E x \in Triggers : Reload(x)
  <2>1. /\ UNCHANGED <<active, newCfg, toLaunch, found>> /\ Loaded' = Loaded
        /\ Syncing' <=> Syncing
        /\ binaries \subseteq binaries'
    BY <1>4, OutsideStep
  <2>2. newTypes' = newTypes /\ activeTypes' = activeTypes
    BY <2>1 DEF newTypes, activeTypes, vaultTypeSet
  <2>3. binaries' = Types
    <3>1. TypeOK'
      BY TypeStep
    <3>2. binaries' \subseteq Types
      BY <3>1 DEF TypeOK
    <3>3. QED
      BY <1>1, <2>1, <3>2
  <2>4. Act'
    BY <1>1, <2>1, <2>2
  <2>5. QED
    BY <1>2, <2>1, <2>2, <2>3, <2>4 DEF CompleteInv
<1>5. CASE UNCHANGED vars
  BY <1>5 DEF vars, managerVars, fileVars, reloadVars, CompleteInv, Syncing, Loaded,
              newTypes, activeTypes, vaultTypeSet, ActivePluginsLoaded
<1>6. QED
  BY <1>3, <1>4, <1>5

(* While the binaries of all types are installed, the plugins of the       *)
(* active configuration are loaded whatever fails: a plugin that does not  *)
(* start, an invalid file, a crash (daemon.go Reload, syncPlugins).        *)
THEOREM ActiveStaysLoaded ==
    ASSUME MayMiss = FALSE
    PROVE  Spec => []ActivePluginsLoaded
<1>1. Init => DeltaInv
  BY DEF Init, DeltaInv, Syncing
<1>2. Init => CompleteInv
  <2> SUFFICES ASSUME Init PROVE CompleteInv
    OBVIOUS
  <2>1. binaries = Types /\ ~Syncing /\ Loaded = activeTypes
    BY TypesOf DEF Init, Syncing, activeTypes
  <2>2. QED
    BY <2>1, ActiveLoaded DEF CompleteInv
<1>3. CompleteInv => ActivePluginsLoaded
  BY DEF CompleteInv
<1>4. QED
  BY <1>1, <1>2, <1>3, InitType, TypeStep, DeltaStep, CompleteStep, PTL DEF Spec

-----------------------------------------------------------------------------
LEMMA TidyStep == TypeOK /\ DeltaInv /\ TidyInv /\ [Next]_vars => TidyInv'
<1> SUFFICES ASSUME TypeOK, DeltaInv, TidyInv, [Next]_vars
             PROVE  TidyInv'
  OBVIOUS
<1>1. ASSUME NEW x \in Triggers, Reload(x)
      PROVE  TidyInv'
  <2>1. CASE Acquire(x) \/ LoadFails(x)
    <3>1. /\ activeTypes' = activeTypes /\ Loaded' = Loaded /\ ~Syncing /\ ~Syncing'
          /\ launched' = launched /\ stray' = stray
      BY <2>1, ReloadPhases, ReloadLoads
         DEF Acquire, LoadFails, historyVars, activeTypes, vaultTypeSet
    <3>2. QED
      BY <3>1 DEF TidyInv
  <2>2. CASE LoadConfig(x)
    <3>1. /\ Loaded' = Loaded /\ ~Syncing /\ Syncing' /\ activeTypes' = activeTypes
          /\ toKill' = activeTypes \ newTypes'
          /\ launched' = launched /\ stray' = stray
      BY <2>2, ReloadPhases, ReloadLoads
         DEF LoadConfig, historyVars, newTypes, activeTypes, vaultTypeSet
    <3>2. QED
      BY <3>1 DEF TidyInv
  <2>3. CASE SkipMissing(x)
    <3>1. /\ Loaded' = Loaded /\ Syncing /\ Syncing' /\ newTypes' = newTypes
          /\ activeTypes' = activeTypes /\ toKill' = toKill
          /\ launched' = launched /\ stray' = stray
      BY <2>3, ReloadPhases, ReloadLoads
         DEF SkipMissing, historyVars, newTypes, activeTypes, vaultTypeSet
    <3>2. QED
      BY <3>1 DEF TidyInv
  <2>4. CASE LaunchNew(x)
    <3>1. /\ Syncing /\ Syncing' /\ newTypes' = newTypes /\ toKill' = toKill
          /\ activeTypes' = activeTypes /\ stray' = stray
      BY <2>4, ReloadPhases DEF LaunchNew, newTypes, activeTypes, vaultTypeSet
    <3>2. PICK t \in toLaunch : /\ launched' = launched \cup {t}
                               /\ Loaded' = Loaded \cup {t}
      BY <2>4, ReloadLoads
    <3>3. t \in newTypes
      BY <3>1, <3>2 DEF DeltaInv
    <3>4. QED
      BY <3>1, <3>2, <3>3 DEF TidyInv
  <2>5. CASE LaunchError(x)
    <3>1. /\ Loaded' = Loaded /\ ~Syncing' /\ activeTypes' = activeTypes
          /\ launched' = {} /\ stray' = stray \cup launched
      BY <2>5, ReloadPhases, ReloadLoads DEF LaunchError, activeTypes, vaultTypeSet
    <3>2. QED
      BY <3>1 DEF TidyInv
  <2>6. CASE KillRemoved(x)
    <3>1. /\ Syncing /\ Syncing' /\ newTypes' = newTypes /\ activeTypes' = activeTypes
          /\ launched' = launched /\ stray' = stray
      BY <2>6, ReloadPhases
         DEF KillRemoved, historyVars, newTypes, activeTypes, vaultTypeSet
    <3>2. PICK t \in toKill : toKill' = toKill \ {t} /\ Loaded' = Loaded \ {t}
      BY <2>6, ReloadLoads
    <3>3. QED
      BY <3>1, <3>2 DEF TidyInv
  <2>7. CASE StoreConfig(x)
    <3>1. /\ activeTypes' = newTypes /\ Loaded' = Loaded /\ toKill = {}
          /\ Syncing /\ ~Syncing' /\ launched' = {} /\ stray' = stray
      BY <2>7, ReloadPhases, ReloadLoads
         DEF StoreConfig, newTypes, activeTypes, vaultTypeSet
    <3>2. QED
      BY <3>1 DEF TidyInv
  <2>8. QED
    BY <1>1, <2>1, <2>2, <2>3, <2>4, <2>5, <2>6, <2>7 DEF Reload
<1>2. CASE Next /\ ~ \E x \in Triggers : Reload(x)
  <2>1. /\ UNCHANGED <<active, newCfg, toKill, launched, stray>> /\ Loaded' = Loaded
        /\ Syncing' <=> Syncing
    BY <1>2, OutsideStep
  <2>2. QED
    BY <2>1 DEF TidyInv, newTypes, activeTypes, vaultTypeSet
<1>3. CASE UNCHANGED vars
  BY <1>3 DEF vars, managerVars, reloadVars, historyVars, TidyInv, Syncing, Loaded,
              newTypes, activeTypes, vaultTypeSet
<1>4. QED
  BY <1>1, <1>2, <1>3

LEMMA StrayStep == TypeOK /\ DeltaInv /\ StrayInv /\ [Next]_vars => StrayInv'
<1> SUFFICES ASSUME TypeOK, DeltaInv, StrayInv, [Next]_vars
             PROVE  StrayInv'
  OBVIOUS
<1>1. ASSUME NEW x \in Triggers, Reload(x)
      PROVE  StrayInv'
  <2> binaries' = binaries
    BY <1>1 DEF Reload, Acquire, LoadFails, LoadConfig, SkipMissing, LaunchNew,
                LaunchError, KillRemoved, StoreConfig, fileVars
  <2>1. CASE Acquire(x) \/ LoadFails(x)
    <3>1. /\ activeTypes' = activeTypes /\ Loaded' = Loaded /\ ~Syncing /\ ~Syncing'
          /\ launched' = launched /\ stray' = stray
      BY <2>1, ReloadPhases, ReloadLoads
         DEF Acquire, LoadFails, historyVars, activeTypes, vaultTypeSet
    <3>2. QED
      BY <3>1 DEF StrayInv
  <2>2. CASE LoadConfig(x)
    <3>1. /\ Loaded' = Loaded /\ ~Syncing /\ Syncing' /\ activeTypes' = activeTypes
          /\ toLaunch' = newTypes' \ activeTypes /\ found' = binaries
          /\ launched' = launched /\ stray' = stray
      BY <2>2, ReloadPhases, ReloadLoads
         DEF LoadConfig, historyVars, newTypes, activeTypes, vaultTypeSet
    <3>2. QED
      BY <3>1 DEF StrayInv
  <2>3. CASE SkipMissing(x)
    <3>1. /\ Loaded' = Loaded /\ Syncing /\ Syncing' /\ newTypes' = newTypes
          /\ activeTypes' = activeTypes /\ found' = found
          /\ launched' = launched /\ stray' = stray
      BY <2>3, ReloadPhases, ReloadLoads
         DEF SkipMissing, historyVars, newTypes, activeTypes, vaultTypeSet
    <3>2. PICK t \in toLaunch \ found : toLaunch' = toLaunch \ {t}
      BY <2>3 DEF SkipMissing
    <3>3. QED
      BY <3>1, <3>2 DEF StrayInv
  <2>4. CASE LaunchNew(x)
    <3>1. /\ Syncing /\ Syncing' /\ newTypes' = newTypes /\ found' = found
          /\ activeTypes' = activeTypes /\ stray' = stray
      BY <2>4, ReloadPhases DEF LaunchNew, newTypes, activeTypes, vaultTypeSet
    <3>2. PICK t \in toLaunch \cap found : /\ launched' = launched \cup {t}
                                           /\ toLaunch' = toLaunch \ {t}
                                           /\ t \notin Loaded
                                           /\ Loaded' = Loaded \cup {t}
      BY <2>4, ReloadLoads
    <3>3. t \in newTypes \ activeTypes /\ t \in binaries /\ t \notin stray
      BY <3>1, <3>2 DEF DeltaInv, StrayInv
    <3>4. QED
      BY <3>1, <3>2, <3>3 DEF StrayInv
  <2>5. CASE LaunchError(x)
    <3>1. /\ Loaded' = Loaded /\ ~Syncing' /\ activeTypes' = activeTypes
          /\ launched' = {} /\ stray' = stray \cup launched
      BY <2>5, ReloadPhases, ReloadLoads DEF LaunchError, activeTypes, vaultTypeSet
    <3>2. QED
      BY <3>1 DEF StrayInv
  <2>6. CASE KillRemoved(x)
    <3>1. /\ Syncing /\ Syncing' /\ newTypes' = newTypes /\ activeTypes' = activeTypes
          /\ launched' = launched /\ stray' = stray
          /\ toLaunch' = toLaunch /\ found' = found
      BY <2>6, ReloadPhases
         DEF KillRemoved, historyVars, newTypes, activeTypes, vaultTypeSet
    <3>2. PICK t \in toKill : Loaded' = Loaded \ {t}
      BY <2>6, ReloadLoads
    <3>3. t \in activeTypes
      BY <3>1, <3>2 DEF DeltaInv
    <3>4. QED
      BY <3>1, <3>2, <3>3 DEF StrayInv
  <2>7. CASE StoreConfig(x)
    <3>1. /\ activeTypes' = newTypes /\ Loaded' = Loaded /\ toLaunch = {}
          /\ Syncing /\ ~Syncing' /\ launched' = {} /\ stray' = stray
      BY <2>7, ReloadPhases, ReloadLoads
         DEF StoreConfig, newTypes, activeTypes, vaultTypeSet
    <3>2. QED
      BY <3>1 DEF StrayInv
  <2>8. QED
    BY <1>1, <2>1, <2>2, <2>3, <2>4, <2>5, <2>6, <2>7 DEF Reload
<1>2. CASE Next /\ ~ \E x \in Triggers : Reload(x)
  <2>1. /\ UNCHANGED <<active, newCfg, toLaunch, found, launched, stray>>
        /\ Loaded' = Loaded /\ (Syncing' <=> Syncing)
        /\ binaries \subseteq binaries'
    BY <1>2, OutsideStep
  <2>2. QED
    BY <2>1 DEF StrayInv, newTypes, activeTypes, vaultTypeSet
<1>3. CASE UNCHANGED vars
  BY <1>3 DEF vars, managerVars, fileVars, reloadVars, historyVars, StrayInv,
              Syncing, Loaded, newTypes, activeTypes, vaultTypeSet
<1>4. QED
  BY <1>1, <1>2, <1>3

(* A reload that is over, failed launches included, has left no plugin     *)
(* behind that the active configuration does not use, but for those that   *)
(* reloads whose Launch failed had launched before (daemon.go:113-115);    *)
(* these run on, and Launch keeps their types out of every later           *)
(* configuration (manager.go:111-113).                                     *)
THEOREM NothingLeftBehind == Spec => []LeftoversContained
<1>1. Init => DeltaInv /\ TidyInv /\ StrayInv
  BY DEF Init, DeltaInv, TidyInv, StrayInv, Syncing, activeTypes
<1>2. TypeOK /\ TidyInv => OnlyActiveLoaded
  BY DEF TidyInv, OnlyActiveLoaded, Syncing, activeTypes
<1>3. StrayInv => StrayNeverUsed
  BY DEF StrayInv, StrayNeverUsed, activeTypes
<1>4. QED
  BY <1>1, <1>2, <1>3, InitType, TypeStep, DeltaStep, TidyStep, StrayStep, PTL
     DEF Spec, LeftoversContained

(* A reload touches only plugins whose type it adds or removes: one that   *)
(* both configurations use keeps its process.                              *)
THEOREM KeptKeepProcess == Spec => KeptPluginsUntouched
<1>1. TypeOK /\ DeltaInv /\ [Next]_vars =>
         [\A t \in Loaded \cap vaultTypeSet(active) :
             (lock = NoTrigger \/ t \in vaultTypeSet(newCfg))
                => plugins'[t] = plugins[t]]_vars
  <2> SUFFICES ASSUME TypeOK, DeltaInv, [Next]_vars,
                      NEW t \in Loaded \cap activeTypes,
                      lock = NoTrigger \/ t \in newTypes
               PROVE  plugins'[t] = plugins[t]
    BY DEF activeTypes, newTypes
  <2>1. ASSUME NEW x \in Triggers, Reload(x)
        PROVE  plugins'[t] = plugins[t]
    <3>1. CASE LaunchNew(x)
      BY <3>1, ReloadLoads DEF Loaded
    <3>2. CASE KillRemoved(x)
      <4>1. Syncing /\ lock = x
        BY <3>2, ReloadPhases
      <4>2. t \in newTypes
        BY <4>1 DEF Syncing
      <4>3. t \notin toKill
        BY <4>1, <4>2 DEF DeltaInv
      <4>4. QED
        BY <3>2, <4>3, ReloadLoads DEF Loaded
    <3>3. CASE ~LaunchNew(x) /\ ~KillRemoved(x)
      BY <2>1, <3>3, ReloadLoads DEF Reload
    <3>4. QED
      BY <3>1, <3>2, <3>3
  <2>2. CASE Next /\ ~ \E x \in Triggers : Reload(x)
    BY <2>2, OutsideStep
  <2>3. CASE UNCHANGED vars
    BY <2>3 DEF vars, managerVars
  <2>4. QED
    BY <2>1, <2>2, <2>3
<1>2. Init => DeltaInv
  BY DEF Init, DeltaInv, Syncing
<1>3. QED
  BY <1>1, <1>2, InitType, TypeStep, DeltaStep, PTL DEF Spec, KeptPluginsUntouched
=============================================================================

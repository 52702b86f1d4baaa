---------------------------- MODULE PluginManager ----------------------------
(***************************************************************************)
(* The registry of running vault plugins (internal/plugin/manager.go): at  *)
(* most one child process per vault type.  Manager.mu is held for the      *)
(* whole of Launch, Kill and KillOne, so each is one action here.          *)
(***************************************************************************)
EXTENDS Integers, FiniteSets

CONSTANTS
    Types,    \* vault types
    MaxProcs  \* bound of the number of plugin processes started

ASSUME ManagerAssumption == MaxProcs \in Nat

(* Plugin processes are numbered in the order they are started in.         *)
Procs == 1 .. MaxProcs
NoProc == 0

VARIABLES
    plugins,  \* the map Manager.plugins: the process of each type, if any
    started,  \* number of processes started so far
    alive     \* processes that run

managerVars == <<plugins, started, alive>>

ManagerTypeOK ==
    /\ plugins \in [Types -> Procs \cup {NoProc}]
    /\ started \in 0 .. MaxProcs
    /\ alive \subseteq 1 .. started

Loaded == {t \in Types : plugins[t] # NoProc}

(* Get: the provider registered for the type, dead or alive.               *)
Get(t) == plugins[t]

(* Mutant of Launch: it does not look whether the type is running.         *)
LaunchAgain(t) ==
    /\ started < MaxProcs
    /\ started' = started + 1
    /\ plugins' = [plugins EXCEPT ![t] = started']
    /\ alive' = alive \cup {started'}

Launch(t) ==
    /\ plugins[t] = NoProc
    /\ started < MaxProcs
    /\ started' = started + 1
    /\ plugins' = [plugins EXCEPT ![t] = started']
    /\ alive' = alive \cup {started'}

(* Mutant of LaunchFails: the process is left running.                     *)
LaunchFailsLeaks(t) ==
    /\ plugins[t] = NoProc
    /\ started < MaxProcs
    /\ started' = started + 1
    /\ alive' = alive \cup {started'}
    /\ UNCHANGED plugins

(* The process does not start, is not a vault plugin or cannot be          *)
(* dispensed: Launch kills what it started before it returns the error.    *)
LaunchFails(t) ==
    /\ plugins[t] = NoProc
    /\ UNCHANGED managerVars

(* Launch refuses a type that is already running.                          *)
LaunchRefused(t) ==
    /\ plugins[t] # NoProc
    /\ UNCHANGED managerVars

KillOne(t) ==
    /\ alive' = alive \ {plugins[t]}
    /\ plugins' = [plugins EXCEPT ![t] = NoProc]
    /\ UNCHANGED started

(* Mutant of Kill: the loop ends after one plugin.                         *)
KillFirst ==
    /\ \E t \in Loaded : /\ alive' = alive \ {plugins[t]}
                        /\ plugins' = [plugins EXCEPT ![t] = NoProc]
    /\ UNCHANGED started

Kill ==
    /\ alive' = alive \ {plugins[t] : t \in Types}
    /\ plugins' = [t \in Types |-> NoProc]
    /\ UNCHANGED started

(* A plugin process dies by itself.  The registry does not notice.         *)
Crash ==
    /\ \E p \in alive : alive' = alive \ {p}
    /\ UNCHANGED <<plugins, started>>

(* Every plugin process that runs is one that Kill would reach.            *)
NoOrphans == alive \subseteq {plugins[t] : t \in Types}
=============================================================================

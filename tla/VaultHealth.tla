---------------------------- MODULE VaultHealth ----------------------------
(***************************************************************************)
(* Server.VaultHealth and Server.VaultList (internal/daemon/server.go)     *)
(* while plugins come, go, hang and die: each call takes the loaded types, *)
(* then looks every one of them up again and asks the plugin, under a      *)
(* timeout of five seconds.  An entry of the reply is taken for the fact   *)
(* that it is there and whether the plugin answered.                       *)
(***************************************************************************)
EXTENDS PluginManager, Compat

CONSTANTS
    Infos,   \* answers to Info, for each type
    NoInfo,  \* Info failed or timed out
    NoType   \* no type is being asked

ASSUME HealthAssumption ==
    /\ NoType \notin Types
    /\ \A t \in Types :
          /\ NoInfo \notin Infos[t]
          /\ \A answer \in Infos[t] : answer.min \in Seq(Int) /\ answer.max \in Seq(Int)

VARIABLES
    info,     \* runningPlugin.info, of each process
    warnings, \* runningPlugin.warnings, of each process
    hung,     \* processes that answer no more
    call,     \* the call that runs: "none", "health" or "list"
    todo,     \* types the call has still to look at
    asking,   \* the type whose plugin is asked
    asked,    \* that plugin
    results,  \* the entries of the reply: type and whether it was answered
    steady    \* types that were loaded, and not replaced, during the call

pluginVars == <<managerVars, info, warnings, hung>>
callVars == <<call, todo, asking, asked, results, steady>>
healthVars == <<pluginVars, callVars>>

Given == UNION {Infos[t] : t \in Types}
AnyInfo == Given \cup {NoInfo}

HealthTypeOK ==
    /\ ManagerTypeOK
    /\ info \in [Procs -> AnyInfo]
    /\ warnings \in [Procs -> SUBSET WarnKinds]
    /\ hung \subseteq alive
    /\ call \in {"none", "health", "list"}
    /\ todo \subseteq Types
    /\ asking \in Types \cup {NoType}
    /\ asked \in Procs \cup {NoProc}
    /\ (asked = NoProc) <=> (asking = NoType)
    /\ asking # NoType => asking \in todo
    /\ results \subseteq Types \X BOOLEAN
    /\ steady \subseteq Types

HealthInit ==
    /\ plugins = [t \in Types |-> NoProc]
    /\ started = 0
    /\ alive = {}
    /\ info = [p \in Procs |-> NoInfo]
    /\ warnings = [p \in Procs |-> {}]
    /\ hung = {}
    /\ call = "none"
    /\ todo = {}
    /\ asking = NoType
    /\ asked = NoProc
    /\ results = {}
    /\ steady = {}

-----------------------------------------------------------------------------
(* Launch's second half: Info is asked and its answer validated, both kept *)
(* with the plugin.  A failing Info is a warning, not an error.            *)
LaunchInfo(t, answer) ==
    /\ Launch(t)
    /\ info' = [info EXCEPT ![started'] = answer]
    /\ warnings' = [warnings EXCEPT ![started'] =
                       IF answer = NoInfo THEN {"info_unavailable"}
                       ELSE Validate(answer)]
    /\ UNCHANGED <<hung, callVars>>

(* A reload removes the type.                                              *)
Unload(t) ==
    /\ plugins[t] # NoProc
    /\ KillOne(t)
    /\ hung' = hung \cap alive'
    /\ info' = [info EXCEPT ![plugins[t]] = NoInfo]
    /\ warnings' = [warnings EXCEPT ![plugins[t]] = {}]
    /\ steady' = steady \ {t}
    /\ UNCHANGED <<call, todo, asking, asked, results>>

Dies ==
    /\ Crash
    /\ hung' = hung \cap alive'
    /\ UNCHANGED <<info, warnings, callVars>>

Hangs ==
    /\ \E p \in alive \ hung : hung' = hung \cup {p}
    /\ UNCHANGED <<managerVars, info, warnings, callVars>>

-----------------------------------------------------------------------------
(* Types: the registered types at one moment.                              *)
CallStarts(kind) ==
    /\ call = "none"
    /\ call' = kind
    /\ todo' = Loaded
    /\ steady' = Loaded
    /\ results' = {}
    /\ UNCHANGED <<pluginVars, asking, asked>>

Entry(t, answered) ==
    /\ results' = results \cup {<<t, answered>>}
    /\ todo' = todo \ {t}
    /\ asking' = NoType
    /\ asked' = NoProc
    /\ UNCHANGED <<pluginVars, call, steady>>

(* VaultList has the Info of the launch, except where that failed.         *)
Cached(t) == call = "list" /\ plugins[t] # NoProc /\ info[plugins[t]] # NoInfo

(* Get finds the plugin again; the registry is not locked while it is      *)
(* asked (HealthCheck, or Info for VaultList).                             *)
Ask(t) ==
    /\ t \in todo /\ asking = NoType
    /\ plugins[t] # NoProc /\ ~Cached(t)
    /\ asking' = t
    /\ asked' = plugins[t]
    /\ UNCHANGED <<pluginVars, call, todo, results, steady>>

FromCache(t) ==
    /\ t \in todo /\ asking = NoType
    /\ Cached(t)
    /\ Entry(t, TRUE)

(* Mutant of Unloaded: the call ends with an error.                        *)
UnloadedEnds(t) ==
    /\ t \in todo /\ asking = NoType
    /\ plugins[t] = NoProc
    /\ todo' = {}
    /\ UNCHANGED <<pluginVars, call, asking, asked, results, steady>>

(* The type was unloaded since Types was read: an entry that says so.      *)
Unloaded(t) ==
    /\ t \in todo /\ asking = NoType
    /\ plugins[t] = NoProc
    /\ Entry(t, FALSE)

Answers ==
    /\ asked \in alive \ hung
    /\ \E ok \in BOOLEAN : Entry(asking, ok)

(* Mutant of TimesOut: the plugin is asked without a deadline.             *)
NeverTimesOut ==
    /\ asked # NoProc /\ asked \notin alive
    /\ Entry(asking, FALSE)

(* The plugin is gone, or the five seconds are over.                       *)
TimesOut ==
    /\ asked # NoProc /\ asked \notin alive \ hung
    /\ Entry(asking, FALSE)

(* The reply is sent, and forgotten.                                       *)
CallReturns ==
    /\ call # "none" /\ todo = {}
    /\ call' = "none"
    /\ results' = {} /\ steady' = {}
    /\ UNCHANGED <<pluginVars, todo, asking, asked>>

CallNext ==
    \/ \E t \in Types : Ask(t) \/ FromCache(t) \/ Unloaded(t)
    \/ Answers
    \/ TimesOut
    \/ CallReturns

PluginNext ==
    \/ \E t \in Types :
           Unload(t) \/ \E answer \in Infos[t] \cup {NoInfo} : LaunchInfo(t, answer)
    \/ Dies
    \/ Hangs

-----------------------------------------------------------------------------
(* The warnings kept with a plugin are those its Info deserves.            *)
WarningsFit ==
    \A t \in Loaded :
        LET p == plugins[t]
        IN  IF info[p] = NoInfo THEN warnings[p] = {"info_unavailable"}
            ELSE WarnedAsDeclared(info[p], warnings[p])

(* A call that returns has an entry for every type that was loaded all the *)
(* time, whatever became of the others meanwhile.                          *)
EveryTypeReported ==
    [][(call # "none" /\ call' = "none") =>
           steady \subseteq {r[1] : r \in results}]_healthVars

(* VaultHealth and VaultList return, although plugins hang and die: no     *)
(* plugin is asked without a deadline, and no lock is held meanwhile.      *)
CallsReturn == (call # "none") ~> (call = "none")
=============================================================================

-------------------------- MODULE VaultAccessProofs --------------------------
(***************************************************************************)
(* What VaultAccess promises for all configurations, requests and texts:   *)
(* an alias leads where its entry says, the dialogue about a passphrase    *)
(* changes nothing in what is asked and what is typed, every plugin is     *)
(* reported.                                                               *)
(***************************************************************************)
EXTENDS VaultAccess, WellFoundedInduction, SequenceTheorems, TLAPS

-----------------------------------------------------------------------------
(* Versions and warnings.                                                  *)
LEMMA CompareIs ==
    ASSUME NEW a \in Seq(Int), NEW b \in Seq(Int), Len(a) = 3, Len(b) = 3
    PROVE  /\ Compare(a, b) < 0 <=> Precedes(a, b)
           /\ Compare(a, b) > 0 <=> Precedes(b, a)
<1> DEFINE differ == {i \in 1 .. 3 : a[i] # b[i]}
           first == Min(differ)
<1>1. /\ a[1] \in Int /\ a[2] \in Int /\ a[3] \in Int
      /\ b[1] \in Int /\ b[2] \in Int /\ b[3] \in Int
  <2>1. 1 \in 1 .. 3 /\ 2 \in 1 .. 3 /\ 3 \in 1 .. 3
    OBVIOUS
  <2>2. \A i \in 1 .. 3 : a[i] \in Int
    BY ElementOfSeq
  <2>3. \A i \in 1 .. 3 : b[i] \in Int
    BY ElementOfSeq
  <2>4. QED
    BY <2>1, <2>2, <2>3
<1>2. Compare(a, b) = IF differ = {} THEN 0 ELSE IF a[first] < b[first] THEN -1 ELSE 1
  BY DEF Compare
<1>3. CASE differ = {}
  <2>1. a[1] = b[1] /\ a[2] = b[2] /\ a[3] = b[3]
    BY <1>3
  <2>2. Compare(a, b) = 0
    BY <1>2, <1>3
  <2>3. QED
    BY <1>1, <2>1, <2>2 DEF Precedes
<1>4. CASE differ # {}
  <2>1. first \in differ /\ \A i \in differ : first <= i
    <3>1. PICK x \in differ : \A y \in differ : x <= y
      <4>1. CASE 1 \in differ
        <5>1. \A i \in differ : 1 <= i
          OBVIOUS
        <5>2. QED
          BY <4>1, <5>1
      <4>2. CASE 1 \notin differ /\ 2 \in differ
        <5>1. \A i \in differ : i = 2 \/ i = 3
          BY <4>2
        <5>2. \A i \in differ : 2 <= i
          BY <5>1
        <5>3. QED
          BY <4>2, <5>2
      <4>3. CASE 1 \notin differ /\ 2 \notin differ
        <5>1. \A i \in differ : i = 3
          BY <4>3
        <5>2. 3 \in differ /\ \A i \in differ : 3 <= i
          BY <1>4, <5>1
        <5>3. QED
          BY <5>2
      <4>4. QED
        BY <4>1, <4>2, <4>3
    <3> HIDE DEF differ
    <3>2. QED
      BY <3>1 DEF Min
  <2>2. /\ first \in 1 .. 3 /\ a[first] # b[first]
        /\ \A i \in 1 .. 3 : i < first => a[i] = b[i]
    <3>1. first \in 1 .. 3 /\ a[first] # b[first]
      BY <2>1
    <3>2. ASSUME NEW i \in 1 .. 3, i < first PROVE a[i] = b[i]
      <4> HIDE DEF first
      <4>1. i \notin differ
        BY <2>1, <3>1, <3>2
      <4>2. QED
        BY <4>1
    <3>3. QED
      BY <3>1, <3>2
  <2> HIDE DEF first, differ
  <2>3. Compare(a, b) = IF a[first] < b[first] THEN -1 ELSE 1
    BY <1>2, <1>4
  <2>4. CASE first = 1
    BY <1>1, <2>2, <2>3, <2>4 DEF Precedes
  <2>5. CASE first = 2
    BY <1>1, <2>2, <2>3, <2>5 DEF Precedes
  <2>6. CASE first = 3
    BY <1>1, <2>2, <2>3, <2>6 DEF Precedes
  <2>7. QED
    BY <2>2, <2>4, <2>5, <2>6
<1>5. QED
  BY <1>3, <1>4

LEMMA ValidateFits ==
    ASSUME NEW answer, answer.min \in Seq(Int), answer.max \in Seq(Int)
    PROVE  /\ Validate(answer) \subseteq WarnKinds
           /\ WarnedAsDeclared(answer, Validate(answer))
<1>1. /\ PlatformWarnings(answer) \subseteq {"platform_mismatch"}
      /\ MinWarnings(answer.min) \subseteq
            {"min_version_missing", "invalid_min_version", "daemon_too_old"}
      /\ MaxWarnings(answer.max) \subseteq {"invalid_max_version", "daemon_too_new"}
  BY DEF PlatformWarnings, MinWarnings, MaxWarnings
<1>2. Validate(answer) \subseteq WarnKinds
  BY <1>1 DEF Validate, WarnKinds
<1>3. ASSUME answer.name # "", Parses(Current)
      PROVE  /\ Parses(answer.min) =>
                   ("daemon_too_old" \in Validate(answer) <=> Precedes(Current, answer.min))
             /\ Parses(answer.max) =>
                   ("daemon_too_new" \in Validate(answer) <=> Precedes(answer.max, Current))
  <2>1. Validate(answer) = PlatformWarnings(answer)
                           \cup MinWarnings(answer.min) \cup MaxWarnings(answer.max)
    BY <1>3 DEF Validate
  <2>2. Current \in Seq(Int) /\ Len(Current) = 3
    BY <1>3, CompatAssumption DEF Parses
  <2>3. ASSUME Parses(answer.min)
        PROVE  "daemon_too_old" \in MinWarnings(answer.min) <=> Precedes(Current, answer.min)
    <3>1. answer.min # NoVersion /\ Len(answer.min) = 3
      BY <2>3 DEF Parses, NoVersion
    <3>2. MinWarnings(answer.min) = IF Compare(Current, answer.min) < 0
                                    THEN {"daemon_too_old"} ELSE {}
      BY <2>3, <3>1 DEF MinWarnings
    <3>3. QED
      BY <2>2, <3>1, <3>2, CompareIs
  <2>4. ASSUME Parses(answer.max)
        PROVE  "daemon_too_new" \in MaxWarnings(answer.max) <=> Precedes(answer.max, Current)
    <3>1. Len(answer.max) = 3
      BY <2>4 DEF Parses
    <3>2. MaxWarnings(answer.max) = IF Compare(Current, answer.max) > 0
                                    THEN {"daemon_too_new"} ELSE {}
      BY <2>4 DEF MaxWarnings
    <3>3. QED
      BY <2>2, <3>1, <3>2, CompareIs
  <2>5. QED
    BY <1>1, <2>1, <2>3, <2>4
<1>4. QED
  BY <1>2, <1>3 DEF WarnedAsDeclared

-----------------------------------------------------------------------------
(* The registry and the calls that list it.                                *)

(* A type has one process, of those started.                               *)
RegistryInv ==
    /\ \A t \in Types : plugins[t] \in 0 .. started
    /\ \A t, u \in Loaded : plugins[t] = plugins[u] => t = u

(* What was loaded when the call began and still is has an entry, or will. *)
CallInv == IF call = "none" THEN todo = {}
           ELSE steady \subseteq todo \cup {r[1] : r \in results}

HealthInv == HealthTypeOK /\ RegistryInv /\ WarningsFit /\ CallInv

LEMMA InfoFacts ==
    /\ NoInfo \in AnyInfo
    /\ \A t \in Types : Infos[t] \subseteq AnyInfo
<1>1. NoInfo \in AnyInfo
  BY DEF AnyInfo
<1>2. ASSUME NEW t \in Types, NEW x \in Infos[t] PROVE x \in AnyInfo
  <2>1. Infos[t] \in {Infos[u] : u \in Types}
    OBVIOUS
  <2>2. x \in UNION {Infos[u] : u \in Types}
    BY <2>1
  <2>3. QED
    BY <2>2 DEF AnyInfo, Given
<1>3. QED
  BY <1>1, <1>2

LEMMA HealthStarts == HealthInit => HealthInv
<1> SUFFICES ASSUME HealthInit PROVE HealthInv
  OBVIOUS
<1> USE DEF HealthInit
<1>1. Loaded = {}
  BY DEF Loaded
<1>2. ManagerTypeOK
  BY ManagerAssumption DEF ManagerTypeOK
<1>3. HealthTypeOK
  <2>1. info = [p \in Procs |-> NoInfo]
    OBVIOUS
  <2>2. warnings = [p \in Procs |-> {}]
    OBVIOUS
  <2>3. /\ hung = {} /\ call = "none" /\ todo = {} /\ asking = NoType /\ asked = NoProc
        /\ results = {} /\ steady = {}
    OBVIOUS
  <2> HIDE DEF HealthInit
  <2>4. info \in [Procs -> AnyInfo]
    BY <2>1, InfoFacts
  <2>5. warnings \in [Procs -> SUBSET WarnKinds]
    BY <2>2
  <2>6. QED
    BY <1>2, <2>3, <2>4, <2>5, HealthAssumption DEF HealthTypeOK
<1>4. RegistryInv
  BY <1>1, ManagerAssumption DEF RegistryInv, NoProc
<1>5. QED
  BY <1>1, <1>3, <1>4 DEF HealthInv, WarningsFit, CallInv

LEMMA LaunchKeeps ==
    ASSUME HealthInv, NEW t \in Types, NEW answer \in Infos[t] \cup {NoInfo},
           LaunchInfo(t, answer)
    PROVE  HealthInv'
<1> DEFINE p == started + 1
           kept == IF answer = NoInfo THEN {"info_unavailable"} ELSE Validate(answer)
<1> USE DEF HealthInv
<1>1. /\ plugins[t] = NoProc /\ started < MaxProcs /\ started' = p
      /\ plugins' = [plugins EXCEPT ![t] = p] /\ alive' = alive \cup {p}
      /\ info' = [info EXCEPT ![p] = answer]
      /\ warnings' = [warnings EXCEPT ![p] = kept]
      /\ UNCHANGED <<hung, callVars>>
  BY DEF LaunchInfo, Launch
<1>2. ManagerTypeOK /\ started \in Nat /\ p \in Procs /\ p # NoProc
  BY <1>1, ManagerAssumption DEF HealthTypeOK, ManagerTypeOK, Procs, NoProc
<1>3. /\ kept \subseteq WarnKinds
      /\ answer # NoInfo => WarnedAsDeclared(answer, kept)
  <2>1. CASE answer = NoInfo
    BY <2>1 DEF WarnKinds
  <2>2. CASE answer # NoInfo
    BY <2>2, HealthAssumption, ValidateFits
  <2>3. QED
    BY <2>1, <2>2
<1> HIDE DEF kept, p
<1>4. /\ plugins'[t] = p /\ \A u \in Types \ {t} : plugins'[u] = plugins[u]
      /\ plugins' \in [Types -> Procs \cup {NoProc}]
  BY <1>1, <1>2 DEF ManagerTypeOK
<1>5. /\ info'[p] = answer /\ \A q \in Procs \ {p} : info'[q] = info[q]
      /\ info' \in [Procs -> AnyInfo]
  <2>1. info \in [Procs -> AnyInfo]
    BY DEF HealthTypeOK
  <2>2. answer \in AnyInfo
    BY InfoFacts
  <2>3. QED
    BY <1>1, <1>2, <2>1, <2>2
<1>6. /\ warnings'[p] = kept /\ \A q \in Procs \ {p} : warnings'[q] = warnings[q]
      /\ warnings' \in [Procs -> SUBSET WarnKinds]
  BY <1>1, <1>2, <1>3 DEF HealthTypeOK
<1>7. ManagerTypeOK'
  BY <1>1, <1>2, <1>4, ManagerAssumption DEF ManagerTypeOK, p
<1>8. HealthTypeOK'
  BY <1>1, <1>5, <1>6, <1>7 DEF HealthTypeOK, callVars
<1>9. Loaded' = Loaded \cup {t}
  BY <1>1, <1>2, <1>4 DEF Loaded
<1>10. \A u \in Loaded : u # t /\ plugins[u] \in Procs \ {p}
  BY <1>1, <1>2 DEF Loaded, RegistryInv, ManagerTypeOK, p
<1>11. RegistryInv'
  <2>1. \A u \in Types : plugins'[u] \in 0 .. started'
    BY <1>1, <1>2, <1>4 DEF RegistryInv, p
  <2>2. \A u, v \in Loaded' : plugins'[u] = plugins'[v] => u = v
    BY <1>4, <1>9, <1>10 DEF RegistryInv, Loaded
  <2>3. QED
    BY <2>1, <2>2 DEF RegistryInv
<1>12. WarningsFit'
  <2> SUFFICES ASSUME NEW u \in Loaded'
               PROVE  IF info'[plugins'[u]] = NoInfo
                      THEN warnings'[plugins'[u]] = {"info_unavailable"}
                      ELSE WarnedAsDeclared(info'[plugins'[u]], warnings'[plugins'[u]])
    BY DEF WarningsFit, WarnedAsDeclared
  <2>1. CASE u = t
    BY <1>3, <1>4, <1>5, <1>6, <2>1 DEF kept
  <2>2. CASE u \in Loaded
    <3>1. /\ plugins'[u] = plugins[u] /\ info'[plugins[u]] = info[plugins[u]]
          /\ warnings'[plugins[u]] = warnings[plugins[u]]
      BY <1>4, <1>5, <1>6, <1>10, <2>2 DEF Loaded
    <3>2. QED
      BY <2>2, <3>1 DEF WarningsFit
  <2>3. QED
    BY <1>9, <2>1, <2>2
<1>13. CallInv'
  BY <1>1 DEF CallInv, callVars
<1>14. QED
  BY <1>8, <1>11, <1>12, <1>13

LEMMA UnloadKeeps ==
    ASSUME HealthInv, NEW t \in Types, Unload(t)
    PROVE  HealthInv'
<1> DEFINE p == plugins[t]
<1> USE DEF HealthInv
<1>1. /\ p # NoProc /\ started' = started
      /\ plugins' = [plugins EXCEPT ![t] = NoProc] /\ alive' = alive \ {p}
      /\ hung' = hung \cap alive'
      /\ info' = [info EXCEPT ![p] = NoInfo]
      /\ warnings' = [warnings EXCEPT ![p] = {}]
      /\ steady' = steady \ {t}
      /\ UNCHANGED <<call, todo, asking, asked, results>>
  BY DEF Unload, KillOne
<1>2. ManagerTypeOK /\ p \in Procs /\ t \in Loaded
  BY <1>1 DEF HealthTypeOK, ManagerTypeOK, Loaded
<1>3. \A u \in Loaded \ {t} : plugins[u] \in Procs \ {p}
  BY <1>2 DEF RegistryInv, Loaded, ManagerTypeOK
<1> HIDE DEF p
<1>4. /\ plugins'[t] = NoProc /\ \A u \in Types \ {t} : plugins'[u] = plugins[u]
      /\ plugins' \in [Types -> Procs \cup {NoProc}]
  BY <1>1, <1>2 DEF ManagerTypeOK
<1>5. /\ \A q \in Procs \ {p} : info'[q] = info[q] /\ warnings'[q] = warnings[q]
      /\ info' \in [Procs -> AnyInfo]
      /\ warnings' \in [Procs -> SUBSET WarnKinds]
  <2>1. /\ info \in [Procs -> AnyInfo]
        /\ warnings \in [Procs -> SUBSET WarnKinds]
    BY DEF HealthTypeOK
  <2>2. /\ \A q \in Procs \ {p} : info'[q] = info[q]
        /\ info' \in [Procs -> AnyInfo]
    BY <1>1, <1>2, <2>1, InfoFacts
  <2>3. /\ \A q \in Procs \ {p} : warnings'[q] = warnings[q]
        /\ warnings' \in [Procs -> SUBSET WarnKinds]
    BY <1>1, <1>2, <2>1
  <2>4. QED
    BY <2>2, <2>3
<1>6. ManagerTypeOK'
  BY <1>1, <1>2, <1>4 DEF ManagerTypeOK
<1>7. HealthTypeOK'
  BY <1>1, <1>5, <1>6 DEF HealthTypeOK
<1>8. Loaded' = Loaded \ {t}
  BY <1>4 DEF Loaded
<1>9. RegistryInv'
  <2>1. \A u \in Types : plugins'[u] \in 0 .. started'
    BY <1>1, <1>2, <1>4 DEF RegistryInv, ManagerTypeOK, NoProc
  <2>2. \A u, v \in Loaded' : plugins'[u] = plugins'[v] => u = v
    BY <1>4, <1>8 DEF RegistryInv, Loaded
  <2>3. QED
    BY <2>1, <2>2 DEF RegistryInv
<1>10. WarningsFit'
  <2> SUFFICES ASSUME NEW u \in Loaded'
               PROVE  IF info'[plugins'[u]] = NoInfo
                      THEN warnings'[plugins'[u]] = {"info_unavailable"}
                      ELSE WarnedAsDeclared(info'[plugins'[u]], warnings'[plugins'[u]])
    BY DEF WarningsFit, WarnedAsDeclared
  <2>1. /\ plugins'[u] = plugins[u] /\ info'[plugins[u]] = info[plugins[u]]
        /\ warnings'[plugins[u]] = warnings[plugins[u]]
    BY <1>3, <1>4, <1>5, <1>8 DEF Loaded
  <2>2. QED
    BY <1>8, <2>1 DEF WarningsFit
<1>11. CallInv'
  BY <1>1 DEF CallInv
<1>12. QED
  BY <1>7, <1>9, <1>10, <1>11

(* What happens to the processes leaves the registry as it is.             *)
LEMMA RegistryKept ==
    ASSUME HealthInv, UNCHANGED <<plugins, started, info, warnings>>
    PROVE  RegistryInv' /\ WarningsFit' /\ Loaded' = Loaded
BY DEF HealthInv, RegistryInv, WarningsFit, WarnedAsDeclared, Loaded

LEMMA DeathKeeps ==
    ASSUME HealthInv, Dies \/ Hangs
    PROVE  HealthInv'
<1> USE DEF HealthInv
<1>1. /\ UNCHANGED <<plugins, started, info, warnings, callVars>>
      /\ alive' \subseteq alive /\ hung' \subseteq alive'
  BY DEF Dies, Hangs, Crash, managerVars, HealthTypeOK
<1>2. HealthTypeOK'
  BY <1>1 DEF HealthTypeOK, ManagerTypeOK, callVars
<1>3. CallInv'
  BY <1>1 DEF CallInv, callVars
<1>4. QED
  BY <1>1, <1>2, <1>3, RegistryKept

LEMMA EntryKeeps ==
    ASSUME HealthInv, NEW t \in Types, NEW answered \in BOOLEAN, Entry(t, answered),
           asking \in {t, NoType}
    PROVE  HealthInv'
<1> USE DEF HealthInv
<1>1. /\ results' = results \cup {<<t, answered>>} /\ todo' = todo \ {t}
      /\ asking' = NoType /\ asked' = NoProc
      /\ UNCHANGED <<plugins, started, alive, info, warnings, hung, call, steady>>
  BY DEF Entry, pluginVars, managerVars
<1>2. HealthTypeOK'
  BY <1>1 DEF HealthTypeOK, ManagerTypeOK
<1>3. CallInv'
  <2>1. {r[1] : r \in results'} = {r[1] : r \in results} \cup {t}
    <3>1. <<t, answered>>[1] = t
      OBVIOUS
    <3>2. QED
      BY <1>1, <3>1, Zenon
  <2>2. QED
    BY <1>1, <2>1 DEF CallInv
<1>4. QED
  BY <1>1, <1>2, <1>3, RegistryKept

LEMMA CallKeeps ==
    ASSUME HealthInv, CallNext \/ CallStarts("health") \/ CallStarts("list")
    PROVE  HealthInv'
<1> USE DEF HealthInv
<1>1. ASSUME NEW t \in Types, Ask(t) PROVE HealthInv'
  <2>1. /\ asking' = t /\ asked' = plugins[t] /\ plugins[t] # NoProc /\ t \in todo
        /\ UNCHANGED <<plugins, started, alive, info, warnings, hung, call, todo,
                       results, steady>>
    BY <1>1 DEF Ask, pluginVars, managerVars
  <2>2. HealthTypeOK'
    BY <2>1, HealthAssumption DEF HealthTypeOK, ManagerTypeOK
  <2>3. CallInv'
    BY <2>1 DEF CallInv
  <2>4. QED
    BY <2>1, <2>2, <2>3, RegistryKept
<1>2. ASSUME NEW t \in Types, FromCache(t) \/ Unloaded(t) PROVE HealthInv'
  BY <1>2, EntryKeeps DEF FromCache, Unloaded
<1>3. CASE Answers \/ TimesOut
  <2>1. asking \in Types /\ \E answered \in BOOLEAN : Entry(asking, answered)
    <3>1. asked # NoProc /\ \E answered \in BOOLEAN : Entry(asking, answered)
      <4>1. NoProc \notin alive
        BY DEF HealthTypeOK, ManagerTypeOK, NoProc
      <4>2. QED
        BY <1>3, <4>1 DEF Answers, TimesOut
    <3>2. QED
      BY <3>1 DEF HealthTypeOK
  <2>2. QED
    BY <2>1, EntryKeeps
<1>4. CASE CallReturns
  <2>1. /\ call' = "none" /\ todo = {}
        /\ results' = {} /\ steady' = {}
        /\ UNCHANGED <<pluginVars, todo, asking, asked>>
    BY <1>4 DEF CallReturns
  <2>2. HealthTypeOK'
    BY <2>1 DEF HealthTypeOK, ManagerTypeOK, pluginVars, managerVars
  <2>3. RegistryInv' /\ WarningsFit'
    BY <2>1, RegistryKept DEF pluginVars, managerVars
  <2>4. CallInv'
    BY <2>1 DEF CallInv
  <2>5. QED
    BY <2>2, <2>3, <2>4
<1>5. ASSUME NEW kind \in {"health", "list"}, CallStarts(kind) PROVE HealthInv'
  <2>1. /\ call' = kind /\ todo' = Loaded /\ steady' = Loaded /\ results' = {}
        /\ UNCHANGED <<pluginVars, asking, asked>> /\ call = "none"
    BY <1>5 DEF CallStarts
  <2>2. asking = NoType
    BY <2>1 DEF HealthTypeOK, CallInv
  <2>3. HealthTypeOK'
    BY <2>1, <2>2 DEF HealthTypeOK, ManagerTypeOK, pluginVars, managerVars, Loaded
  <2>4. RegistryInv' /\ WarningsFit'
    BY <2>1, RegistryKept DEF pluginVars, managerVars
  <2>5. CallInv'
    BY <2>1 DEF CallInv
  <2>6. QED
    BY <2>3, <2>4, <2>5
<1>6. QED
  BY <1>1, <1>2, <1>3, <1>4, <1>5 DEF CallNext

LEMMA PluginKeeps ==
    ASSUME HealthInv, PluginNext
    PROVE  HealthInv'
BY LaunchKeeps, UnloadKeeps, DeathKeeps DEF PluginNext

-----------------------------------------------------------------------------
(* Induction on numbers, with a set for the property.                      *)
LEMMA Induction ==
    ASSUME NEW S, 0 \in S, \A n \in Nat : n \in S => n + 1 \in S
    PROVE  Nat \subseteq S
<1> DEFINE R == OpToRel(<, Nat)
           T == Nat \ S
<1> SUFFICES ASSUME T # {} PROVE FALSE
  OBVIOUS
<1>1. IsWellFoundedOn(R, Nat)
  BY NatLessThanWellFounded
<1>2. T \subseteq Nat
  OBVIOUS
<1> HIDE DEF R, T
<1>3. PICK m \in T : \A y \in T : ~(<<y, m>> \in R)
  BY <1>1, <1>2, WFMin
<1> USE DEF R, T
<1>4. m \in Nat /\ m # 0
  OBVIOUS
<1>5. m - 1 \in T
  BY <1>4
<1>6. <<m - 1, m>> \in R
  BY <1>4 DEF OpToRel
<1>7. QED
  BY <1>3, <1>5, <1>6

-----------------------------------------------------------------------------
(* The escapes.                                                            *)

(* What a data line may hold.                                              *)
Clean == Byte \ {NUL, LF, CR}

LEMMA HexFacts ==
    ASSUME NEW n \in 0 .. 15
    PROVE  /\ HexDigit(n) \in Clean /\ HexDigit(n) # Percent
           /\ hexVal(HexDigit(n)) = n
BY DEF HexDigit, hexVal, Clean, Byte, NUL, LF, CR, Percent

LEMMA Nibbles ==
    ASSUME NEW c \in 0 .. 255, NEW q \in Int, NEW r \in Int, q = c \div 16, r = c % 16
    PROVE  q \in 0 .. 15 /\ r \in 0 .. 15 /\ 16 * q + r = c
<1>1. q \in 0 .. 15
  OBVIOUS
<1>2. r \in 0 .. 15
  OBVIOUS
<1>3. 16 * q + r = c
  OBVIOUS
<1>4. QED
  BY <1>1, <1>2, <1>3

LEMMA EscapeFacts ==
    ASSUME NEW c \in Byte
    PROVE  /\ Escape(c) \in Seq(Clean)
           /\ c \in Escaped =>
                 /\ Len(Escape(c)) = 3 /\ Escape(c)[1] = Percent
                 /\ hexVal(Escape(c)[2]) = c \div 16 /\ hexVal(Escape(c)[3]) = c % 16
                 /\ 16 * hexVal(Escape(c)[2]) + hexVal(Escape(c)[3]) = c
                 /\ hexVal(Escape(c)[2]) >= 0 /\ hexVal(Escape(c)[3]) >= 0
           /\ c \notin Escaped =>
                 Len(Escape(c)) = 1 /\ Escape(c)[1] = c /\ c # Percent
<1>1. c \div 16 \in Int /\ c % 16 \in Int
  BY DEF Byte
<1>2. c \div 16 \in 0 .. 15 /\ c % 16 \in 0 .. 15
  BY <1>1, Nibbles DEF Byte
<1>3. CASE c \in Escaped
  <2>1. Escape(c) = <<Percent, HexDigit(c \div 16), HexDigit(c % 16)>>
    BY <1>3 DEF Escape
  <2>2. Percent \in Clean
    BY DEF Clean, Byte, Percent, NUL, LF, CR
  <2>3. /\ HexDigit(c \div 16) \in Clean /\ hexVal(HexDigit(c \div 16)) = c \div 16
        /\ HexDigit(c % 16) \in Clean /\ hexVal(HexDigit(c % 16)) = c % 16
    BY <1>2, <1>3, HexFacts
  <2> DEFINE h == HexDigit(c \div 16)
             l == HexDigit(c % 16)
  <2> HIDE DEF h, l
  <2>4. Escape(c) = <<Percent, h, l>> /\ h \in Clean /\ l \in Clean
        /\ hexVal(h) = c \div 16 /\ hexVal(l) = c % 16
    BY <2>1, <2>3 DEF h, l
  <2>5. /\ Escape(c) \in Seq(Clean) /\ Len(Escape(c)) = 3
        /\ Escape(c)[1] = Percent /\ Escape(c)[2] = h /\ Escape(c)[3] = l
    BY <2>2, <2>4
  <2>6. hexVal(Escape(c)[2]) = c \div 16 /\ hexVal(Escape(c)[3]) = c % 16
    BY <2>4, <2>5
  <2>7. ASSUME NEW q \in Int, NEW r \in Int, q = c \div 16, r = c % 16
        PROVE  16 * q + r = c /\ q >= 0 /\ r >= 0
    BY <2>7, Nibbles DEF Byte
  <2>8. /\ 16 * hexVal(Escape(c)[2]) + hexVal(Escape(c)[3]) = c
        /\ hexVal(Escape(c)[2]) >= 0 /\ hexVal(Escape(c)[3]) >= 0
    BY <1>1, <2>6, <2>7
  <2>9. QED
    BY <1>3, <2>5, <2>6, <2>8
<1>4. CASE c \notin Escaped
  <2>1. Escape(c) = <<c>> /\ c \in Clean /\ c # Percent
    BY <1>4 DEF Escape, Clean, Escaped
  <2>2. QED
    BY <1>4, <2>1
<1>5. QED
  BY <1>3, <1>4

(* encodeAssuan's buffer after each of the first k bytes.                  *)
Encoding(s, k, buf) ==
    /\ buf \in [0 .. k -> Seq(Clean)]
    /\ buf[0] = <<>>
    /\ \A n \in 1 .. k : buf[n] = buf[n - 1] \o Escape(s[n])

LEMMA EncodingGrows ==
    ASSUME NEW s \in Seq(Byte), NEW k \in Nat, k + 1 <= Len(s), NEW f, Encoding(s, k, f)
    PROVE  \E g : Encoding(s, k + 1, g)
<1> DEFINE e == f[k] \o Escape(s[k + 1])
           g == [n \in 0 .. k + 1 |-> IF n = k + 1 THEN e ELSE f[n]]
<1>1. s[k + 1] \in Byte /\ f[k] \in Seq(Clean)
  BY DEF Encoding
<1>2. e \in Seq(Clean)
  BY <1>1, EscapeFacts
<1>3. \A n \in 0 .. k : g[n] = f[n] /\ f[n] \in Seq(Clean)
  BY DEF Encoding
<1>4. g[k + 1] = f[k] \o Escape(s[k + 1])
  <2> HIDE DEF e
  <2>1. k + 1 \in 0 .. k + 1
    OBVIOUS
  <2>2. g[k + 1] = e
    BY <2>1
  <2>3. QED
    BY <2>2 DEF e
<1>5. g \in [0 .. k + 1 -> Seq(Clean)]
  <2> HIDE DEF e
  <2>1. \A n \in 0 .. k + 1 : n = k + 1 \/ n \in 0 .. k
    OBVIOUS
  <2>2. \A n \in 0 .. k + 1 : g[n] \in Seq(Clean)
    BY <1>2, <1>3, <2>1
  <2>3. QED
    BY <2>2
<1>6. g[0] = <<>>
  BY <1>3 DEF Encoding
<1> HIDE DEF g, e
<1>7. ASSUME NEW n \in 1 .. k + 1 PROVE g[n] = g[n - 1] \o Escape(s[n])
  <2>1. CASE n = k + 1
    <3>1. n - 1 = k /\ k \in 0 .. k
      BY <2>1
    <3>2. g[n - 1] = f[k]
      BY <1>3, <3>1
    <3>3. QED
      BY <1>4, <2>1, <3>2
  <2>2. CASE n # k + 1
    <3>1. n \in 1 .. k /\ n \in 0 .. k /\ n - 1 \in 0 .. k
      BY <2>2
    <3>2. QED
      BY <1>3, <3>1 DEF Encoding
  <2>3. QED
    BY <2>1, <2>2
<1>8. QED
  BY <1>5, <1>6, <1>7 DEF Encoding

LEMMA EncodingExists ==
    ASSUME NEW s \in Seq(Byte)
    PROVE  \E buf : Encoding(s, Len(s), buf)
<1> DEFINE P(k) == k <= Len(s) => \E f : Encoding(s, k, f)
           S == {k \in Nat : P(k)}
<1>1. P(0)
  <2>1. <<>> \in Seq(Clean)
    OBVIOUS
  <2>2. Encoding(s, 0, [n \in 0 .. 0 |-> <<>>])
    BY <2>1 DEF Encoding
  <2>3. QED
    BY <2>2
<1>2. ASSUME NEW k \in Nat, P(k) PROVE P(k + 1)
  BY <1>2, EncodingGrows
<1> HIDE DEF P
<1>3. 0 \in S /\ \A k \in Nat : k \in S => k + 1 \in S
  BY <1>1, <1>2
<1> HIDE DEF S
<1>4. Nat \subseteq S
  BY <1>3, Induction
<1>5. P(Len(s))
  BY <1>4 DEF S
<1>6. QED
  BY <1>5 DEF P

LEMMA EncodingStays ==
    ASSUME NEW s \in Seq(Byte), NEW f,
           f = [n \in 0 .. Len(s) |-> IF n = 0 THEN <<>> ELSE f[n - 1] \o Escape(s[n])]
    PROVE  Encoding(s, Len(s), f)
<1>1. /\ f[0] = <<>>
      /\ \A n \in 1 .. Len(s) : f[n] = f[n - 1] \o Escape(s[n])
      /\ f = [n \in 0 .. Len(s) |-> f[n]]
  <2> DEFINE e(n) == IF n = 0 THEN <<>> ELSE f[n - 1] \o Escape(s[n])
  <2>1. f = [n \in 0 .. Len(s) |-> e(n)]
    OBVIOUS
  <2>2. e(0) = <<>> /\ \A n \in 1 .. Len(s) : e(n) = f[n - 1] \o Escape(s[n])
    OBVIOUS
  <2> HIDE DEF e
  <2>3. \A n \in 0 .. Len(s) : f[n] = e(n)
    BY <2>1
  <2>4. QED
    BY <2>1, <2>2, <2>3
<1> DEFINE P(k) == k <= Len(s) => f[k] \in Seq(Clean)
           S == {k \in Nat : P(k)}
<1>2. P(0)
  BY <1>1
<1>3. ASSUME NEW k \in Nat, P(k) PROVE P(k + 1)
  <2> SUFFICES ASSUME k + 1 <= Len(s) PROVE f[k + 1] \in Seq(Clean)
    OBVIOUS
  <2>1. f[k] \in Seq(Clean) /\ s[k + 1] \in Byte /\ f[k + 1] = f[k] \o Escape(s[k + 1])
    BY <1>1, <1>3
  <2>2. Escape(s[k + 1]) \in Seq(Clean)
    BY <2>1, EscapeFacts
  <2>3. f[k] \o Escape(s[k + 1]) \in Seq(Clean)
    BY <2>1, <2>2
  <2>4. QED
    BY <2>1, <2>3
<1> HIDE DEF P
<1>4. 0 \in S /\ \A k \in Nat : k \in S => k + 1 \in S
  BY <1>2, <1>3
<1> HIDE DEF S
<1>5. Nat \subseteq S
  BY <1>4, Induction
<1>6. \A n \in 0 .. Len(s) : f[n] \in Seq(Clean)
  BY <1>5 DEF S, P
<1>7. f \in [0 .. Len(s) -> Seq(Clean)]
  BY <1>1, <1>6
<1>8. QED
  BY <1>1, <1>7 DEF Encoding

(* What encodeAssuan returns is such a buffer's last state.                *)
LEMMA EncodeIs ==
    ASSUME NEW s \in Seq(Byte)
    PROVE  \E buf : Encoding(s, Len(s), buf) /\ encodeAssuan(s) = buf[Len(s)]
<1> DEFINE Is(f) == f = [n \in 0 .. Len(s) |->
                            IF n = 0 THEN <<>> ELSE f[n - 1] \o Escape(s[n])]
<1>1. PICK g : Encoding(s, Len(s), g)
  BY EncodingExists
<1>2. Is(g)
  <2> DEFINE e(n) == IF n = 0 THEN <<>> ELSE g[n - 1] \o Escape(s[n])
  <2>1. g = [n \in 0 .. Len(s) |-> g[n]]
    BY <1>1 DEF Encoding
  <2>2. \A n \in 0 .. Len(s) : g[n] = e(n)
    <3>1. g[0] = <<>> /\ \A n \in 1 .. Len(s) : g[n] = g[n - 1] \o Escape(s[n])
      BY <1>1 DEF Encoding
    <3>2. \A n \in 0 .. Len(s) : n = 0 \/ (n # 0 /\ n \in 1 .. Len(s))
      OBVIOUS
    <3>3. QED
      BY <3>1, <3>2
  <2> HIDE DEF e
  <2>3. [n \in 0 .. Len(s) |-> g[n]] = [n \in 0 .. Len(s) |-> e(n)]
    BY <2>2
  <2>4. QED
    BY <2>1, <2>3 DEF e
<1>3. PICK f : Is(f) /\ encodeAssuan(s) = f[Len(s)]
  <2> DEFINE h == CHOOSE f : Is(f)
  <2>1. Is(h)
    BY <1>2
  <2>2. encodeAssuan(s) = h[Len(s)]
    BY DEF encodeAssuan
  <2>3. QED
    BY <2>1, <2>2
<1>4. Encoding(s, Len(s), f)
  BY <1>3, EncodingStays
<1>5. QED
  BY <1>3, <1>4

(* Induction downwards from N.                                             *)
LEMMA DownInduction ==
    ASSUME NEW N \in Nat, NEW S, N \in S, \A n \in 1 .. N : n \in S => n - 1 \in S
    PROVE  0 .. N \subseteq S
<1> DEFINE U == {k \in Nat : k <= N => N - k \in S}
<1>1. 0 \in U
  OBVIOUS
<1>2. ASSUME NEW k \in Nat, k \in U PROVE k + 1 \in U
  <2> SUFFICES ASSUME k + 1 <= N PROVE N - (k + 1) \in S
    OBVIOUS
  <2>1. N - k \in 1 .. N /\ N - k \in S /\ (N - k) - 1 = N - (k + 1)
    BY <1>2
  <2>2. QED
    BY <2>1
<1> HIDE DEF U
<1>3. Nat \subseteq U
  BY <1>1, <1>2, Induction
<1>4. ASSUME NEW n \in 0 .. N PROVE n \in S
  <2>1. N - n \in U /\ N - n <= N /\ N - (N - n) = n
    BY <1>3
  <2>2. QED
    BY <2>1 DEF U
<1>5. QED
  BY <1>4

(* What decodePercent makes of the text from the byte i on.                *)
Decoded(s, f, i) ==
    IF i > Len(s) THEN <<>>
    ELSE IF IsEscape(s, i)
    THEN <<16 * hexVal(s[i + 1]) + hexVal(s[i + 2])>> \o f[i + 3]
    ELSE <<s[i]>> \o f[i + 1]

Decoding(s, k, f) ==
    /\ f = [i \in k .. Len(s) + 3 |-> f[i]]
    /\ \A i \in k .. Len(s) + 3 : f[i] = Decoded(s, f, i)

LEMMA DecodedSame ==
    ASSUME NEW s, NEW f, NEW g, NEW i, i > Len(s) \/ (f[i + 1] = g[i + 1] /\ f[i + 3] = g[i + 3])
    PROVE  Decoded(s, f, i) = Decoded(s, g, i)
BY DEF Decoded

LEMMA DecodingGrows ==
    ASSUME NEW s, Len(s) \in Nat, NEW k \in 1 .. Len(s) + 3, NEW f, Decoding(s, k, f)
    PROVE  \E g : Decoding(s, k - 1, g)
<1> DEFINE N == Len(s) + 3
           e == Decoded(s, f, k - 1)
           g == [i \in k - 1 .. N |-> IF i = k - 1 THEN e ELSE f[i]]
<1>1. \A i \in k .. N : i \in k - 1 .. N /\ i # k - 1
  OBVIOUS
<1>2. \A i \in k - 1 .. N : i = k - 1 \/ i \in k .. N
  OBVIOUS
<1>3. \A i \in k .. N : g[i] = f[i]
  BY <1>1
<1>4. g[k - 1] = e
  <2>1. k - 1 \in k - 1 .. N
    OBVIOUS
  <2> HIDE DEF e
  <2>2. QED
    BY <2>1
<1>5. g = [i \in k - 1 .. N |-> g[i]]
  <2> HIDE DEF e
  <2>1. QED
    OBVIOUS
<1> HIDE DEF g
<1>6. ASSUME NEW i \in k - 1 .. N PROVE g[i] = Decoded(s, g, i)
  <2>1. i > Len(s) \/ (i + 1 \in k .. N /\ i + 3 \in k .. N)
    OBVIOUS
  <2>2. Decoded(s, f, i) = Decoded(s, g, i)
    BY <1>3, <2>1, DecodedSame
  <2>3. g[i] = Decoded(s, f, i)
    BY <1>2, <1>3, <1>4 DEF Decoding
  <2>4. QED
    BY <2>2, <2>3
<1>7. Decoding(s, k - 1, g)
  BY <1>5, <1>6 DEF Decoding
<1>8. QED
  BY <1>7

LEMMA DecodingExists ==
    ASSUME NEW s, Len(s) \in Nat
    PROVE  \E f : Decoding(s, 1, f)
<1> DEFINE N == Len(s) + 3
           P(k) == k >= 1 => \E f : Decoding(s, k, f)
           S == {k \in 0 .. N : P(k)}
<1>1. P(N)
  <2> DEFINE g == [i \in N .. N |-> <<>>]
  <2>1. g = [i \in N .. N |-> g[i]]
    OBVIOUS
  <2>2. \A i \in N .. N : g[i] = <<>> /\ i > Len(s)
    OBVIOUS
  <2> HIDE DEF g
  <2>3. Decoding(s, N, g)
    BY <2>1, <2>2 DEF Decoding, Decoded
  <2>4. QED
    BY <2>3
<1>2. ASSUME NEW k \in 1 .. N, P(k) PROVE P(k - 1)
  BY <1>2, DecodingGrows
<1> HIDE DEF P
<1>3. N \in Nat /\ N \in S /\ \A k \in 1 .. N : k \in S => k - 1 \in S
  BY <1>1, <1>2
<1> HIDE DEF S
<1>4. 0 .. N \subseteq S
  BY <1>3, DownInduction
<1>5. P(1)
  <2>1. 1 \in 0 .. N
    OBVIOUS
  <2>2. QED
    BY <1>4, <2>1 DEF S
<1>6. QED
  BY <1>5 DEF P

LEMMA DecodeIs ==
    ASSUME NEW s, Len(s) \in Nat
    PROVE  \E f : /\ \A i \in 1 .. Len(s) + 3 : f[i] = Decoded(s, f, i)
                  /\ decodePercent(s) = f[1]
<1> DEFINE Is(f) == f = [i \in 1 .. Len(s) + 3 |-> Decoded(s, f, i)]
<1>1. PICK g : Decoding(s, 1, g)
  BY DecodingExists
<1>2. Is(g)
  BY <1>1 DEF Decoding
<1> DEFINE h == CHOOSE f : Is(f)
<1>3. Is(h)
  BY <1>2
<1>4. decodePercent(s) = h[1]
  BY DEF decodePercent, Decoded
<1> HIDE DEF h
<1>5. \A i \in 1 .. Len(s) + 3 : h[i] = Decoded(s, h, i)
  BY <1>3
<1>6. QED
  BY <1>4, <1>5

-----------------------------------------------------------------------------
(* What is encoded is decoded to the same text.                            *)
Starts(a, b) == Len(a) <= Len(b) /\ \A i \in 1 .. Len(a) : a[i] = b[i]

LEMMA StartsFacts ==
    ASSUME NEW D, NEW a \in Seq(D), NEW x \in Seq(D), NEW b \in Seq(D), Starts(a \o x, b)
    PROVE  /\ Starts(a, b)
           /\ Len(a) + Len(x) <= Len(b)
           /\ \A i \in 1 .. Len(x) : b[Len(a) + i] = x[i]
<1>1. /\ Len(a \o x) = Len(a) + Len(x) /\ Len(a) \in Nat /\ Len(x) \in Nat
      /\ \A i \in 1 .. Len(a) : (a \o x)[i] = a[i]
      /\ \A i \in 1 .. Len(x) : (a \o x)[Len(a) + i] = x[i]
  <2>1. Len(a) \in Nat /\ Len(x) \in Nat
    BY LenProperties
  <2>2. /\ Len(a \o x) = Len(a) + Len(x)
        /\ \A i \in 1 .. Len(a) + Len(x) :
              (a \o x)[i] = IF i <= Len(a) THEN a[i] ELSE x[i - Len(a)]
    BY ConcatProperties
  <2>3. ASSUME NEW i \in 1 .. Len(x) PROVE (a \o x)[Len(a) + i] = x[i]
    <3>1. /\ Len(a) + i \in 1 .. Len(a) + Len(x) /\ ~(Len(a) + i <= Len(a))
          /\ (Len(a) + i) - Len(a) = i
      BY <2>1
    <3>2. QED
      BY <2>2, <3>1
  <2>4. QED
    BY <2>1, <2>2, <2>3
<1>2. /\ Len(b) \in Nat /\ Len(a) + Len(x) <= Len(b)
      /\ \A i \in 1 .. Len(a) + Len(x) : (a \o x)[i] = b[i]
  BY <1>1, LenProperties DEF Starts
<1>3. Starts(a, b)
  <2>1. Len(a) <= Len(b)
    BY <1>1, <1>2
  <2>2. \A i \in 1 .. Len(a) : i \in 1 .. Len(a) + Len(x)
    BY <1>1
  <2>3. QED
    BY <1>1, <1>2, <2>1, <2>2 DEF Starts
<1>4. \A i \in 1 .. Len(x) : b[Len(a) + i] = x[i]
  <2>1. \A i \in 1 .. Len(x) : Len(a) + i \in 1 .. Len(a) + Len(x)
    BY <1>1
  <2>2. QED
    BY <1>1, <1>2, <2>1
<1>5. QED
  BY <1>2, <1>3, <1>4

(* Each state of the buffer is a beginning of the last one.                *)
LEMMA BufferStarts ==
    ASSUME NEW s \in Seq(Byte), NEW buf, Encoding(s, Len(s), buf),
           NEW n \in 0 .. Len(s)
    PROVE  Starts(buf[n], buf[Len(s)])
<1> DEFINE P(k) == Starts(buf[k], buf[Len(s)])
           S == {k \in 0 .. Len(s) : P(k)}
<1>1. P(Len(s))
  BY DEF Starts, Encoding
<1>2. ASSUME NEW k \in 1 .. Len(s), P(k) PROVE P(k - 1)
  <2>1. /\ buf[k] = buf[k - 1] \o Escape(s[k]) /\ s[k] \in Byte
        /\ buf[k - 1] \in Seq(Clean) /\ buf[Len(s)] \in Seq(Clean)
    <3>1. k - 1 \in 0 .. Len(s) /\ Len(s) \in 0 .. Len(s)
      OBVIOUS
    <3>2. buf[k - 1] \in Seq(Clean) /\ buf[Len(s)] \in Seq(Clean)
      BY <3>1 DEF Encoding
    <3>3. buf[k] = buf[k - 1] \o Escape(s[k])
      BY Zenon DEF Encoding
    <3>4. s[k] \in Byte
      OBVIOUS
    <3>5. QED
      BY <3>2, <3>3, <3>4
  <2>2. Escape(s[k]) \in Seq(Clean)
    BY <2>1, EscapeFacts
  <2>3. QED
    BY <1>2, <2>1, <2>2, StartsFacts
<1> HIDE DEF P
<1>3. Len(s) \in S /\ \A k \in 1 .. Len(s) : k \in S => k - 1 \in S
  BY <1>1, <1>2
<1> HIDE DEF S
<1>4. 0 .. Len(s) \subseteq S
  BY <1>3, DownInduction
<1>5. QED
  BY <1>4 DEF S, P

LEMMA TailStep ==
    ASSUME NEW D, NEW s \in Seq(D), NEW n \in 1 .. Len(s)
    PROVE  <<s[n]>> \o SubSeq(s, n + 1, Len(s)) = SubSeq(s, n, Len(s))
BY SubSeqRecursiveFirst

LEMMA RoundTrip ==
    ASSUME NEW s \in Seq(Byte)
    PROVE  /\ encodeAssuan(s) \in Seq(Clean)
           /\ decodePercent(encodeAssuan(s)) = s
<1>1. PICK buf : Encoding(s, Len(s), buf) /\ encodeAssuan(s) = buf[Len(s)]
  BY EncodeIs
<1> DEFINE e == encodeAssuan(s)
<1>2. e \in Seq(Clean) /\ Len(e) \in Nat
  BY <1>1 DEF Encoding
<1> HIDE DEF e
<1>3. PICK f : /\ \A i \in 1 .. Len(e) + 3 : f[i] = Decoded(e, f, i)
               /\ decodePercent(e) = f[1]
  BY <1>2, DecodeIs
<1> DEFINE P(n) == f[Len(buf[n]) + 1] = SubSeq(s, n + 1, Len(s))
           S == {n \in 0 .. Len(s) : P(n)}
<1>4. e = buf[Len(s)]
  BY <1>1 DEF e
<1>5. P(Len(s))
  <2>1. f[Len(e) + 1] = <<>>
    <3>1. Len(e) + 1 \in 1 .. Len(e) + 3 /\ Len(e) + 1 > Len(e)
      BY <1>2
    <3>2. QED
      BY <1>3, <3>1 DEF Decoded
  <2>2. SubSeq(s, Len(s) + 1, Len(s)) = <<>>
    OBVIOUS
  <2>3. QED
    BY <1>4, <2>1, <2>2
<1>6. ASSUME NEW n \in 1 .. Len(s), P(n) PROVE P(n - 1)
  <2> DEFINE a == buf[n - 1]
             x == Escape(s[n])
             j == Len(a) + 1
  <2>1. /\ buf[n] = a \o x /\ a \in Seq(Clean) /\ s[n] \in Byte /\ Len(a) \in Nat
    <3>1. n - 1 \in 0 .. Len(s)
      OBVIOUS
    <3>2. a \in Seq(Clean)
      BY <1>1, <3>1 DEF Encoding
    <3>3. buf[n] = buf[n - 1] \o Escape(s[n])
      BY <1>1, Zenon DEF Encoding
    <3>4. s[n] \in Byte
      OBVIOUS
    <3>5. QED
      BY <3>2, <3>3, <3>4
  <2>2. x \in Seq(Clean)
    BY <2>1, EscapeFacts
  <2>3. Starts(a \o x, e)
    <3>1. n \in 0 .. Len(s)
      OBVIOUS
    <3>2. Starts(buf[n], e)
      BY <1>1, <1>4, <3>1, BufferStarts
    <3>3. QED
      BY <2>1, <3>2
  <2>4. /\ Len(a) + Len(x) <= Len(e) /\ Len(a \o x) = Len(a) + Len(x)
        /\ \A i \in 1 .. Len(x) : e[Len(a) + i] = x[i]
    <3> HIDE DEF a, x
    <3>1. QED
      BY <1>2, <2>1, <2>2, <2>3, StartsFacts
  <2>5. f[Len(a) + Len(x) + 1] = SubSeq(s, n + 1, Len(s))
    BY <1>6, <2>1, <2>4
  <2>6. f[j] = <<s[n]>> \o f[Len(a) + Len(x) + 1]
    <3> HIDE DEF x, a
    <3>1. CASE s[n] \in Escaped
      <4>1. /\ Len(x) = 3 /\ x[1] = Percent
            /\ 16 * hexVal(x[2]) + hexVal(x[3]) = s[n]
            /\ hexVal(x[2]) >= 0 /\ hexVal(x[3]) >= 0
        BY <2>1, <3>1, EscapeFacts DEF x
      <4>2. /\ e[j] = Percent /\ e[j + 1] = x[2] /\ e[j + 2] = x[3]
            /\ j + 2 <= Len(e) /\ j \in 1 .. Len(e) + 3 /\ j \in Nat
        BY <1>2, <2>1, <2>4, <4>1
      <4>3. IsEscape(e, j)
        BY <4>1, <4>2 DEF IsEscape
      <4>4. f[j] = <<16 * hexVal(e[j + 1]) + hexVal(e[j + 2])>> \o f[j + 3]
        <5>1. f[j] = Decoded(e, f, j) /\ ~(j > Len(e))
          BY <1>2, <1>3, <4>2
        <5>2. QED
          BY <4>3, <5>1 DEF Decoded
      <4>5. j + 3 = Len(a) + Len(x) + 1
        BY <2>1, <4>1
      <4>6. 16 * hexVal(e[j + 1]) + hexVal(e[j + 2]) = s[n]
        BY <4>1, <4>2
      <4>7. QED
        BY <4>4, <4>5, <4>6
    <3>2. CASE s[n] \notin Escaped
      <4>1. Len(x) = 1 /\ x[1] = s[n] /\ s[n] # Percent
        BY <2>1, <3>2, EscapeFacts DEF x
      <4>2. e[j] = s[n] /\ j \in 1 .. Len(e) + 3 /\ j <= Len(e) /\ j \in Nat
        BY <1>2, <2>1, <2>4, <4>1
      <4>3. ~IsEscape(e, j)
        BY <4>1, <4>2 DEF IsEscape
      <4>4. f[j] = <<e[j]>> \o f[j + 1]
        <5>1. f[j] = Decoded(e, f, j) /\ ~(j > Len(e))
          BY <1>2, <1>3, <4>2
        <5>2. QED
          BY <4>3, <5>1 DEF Decoded
      <4>5. QED
        BY <2>1, <4>1, <4>2, <4>4
    <3>3. QED
      BY <3>1, <3>2
  <2>7. QED
    BY <2>5, <2>6, TailStep
<1> HIDE DEF P
<1>7. Len(s) \in S /\ \A n \in 1 .. Len(s) : n \in S => n - 1 \in S
  BY <1>5, <1>6
<1> HIDE DEF S
<1>8. 0 \in S
  BY <1>7, DownInduction
<1>9. f[1] = s
  <2>1. buf[0] = <<>> /\ Len(buf[0]) + 1 = 1
    BY <1>1 DEF Encoding
  <2>2. SubSeq(s, 1, Len(s)) = s
    OBVIOUS
  <2>3. QED
    BY <1>8, <2>1, <2>2 DEF S, P
<1>10. QED
  BY <1>2, <1>3, <1>9 DEF e

(* The reply's data is one line.                                           *)
LEMMA OneLine ==
    ASSUME NEW s \in Seq(Byte)
    PROVE  UpToLF(encodeAssuan(s)) = encodeAssuan(s)
<1>1. encodeAssuan(s) \in Seq(Clean)
  BY RoundTrip
<1>2. {i \in 1 .. Len(encodeAssuan(s)) : encodeAssuan(s)[i] = LF} = {}
  BY <1>1 DEF Clean
<1>3. QED
  BY <1>2 DEF UpToLF

LEMMA CleanSeq == Seq(Clean) \subseteq Seq(Byte)
<1>1. Clean \subseteq Byte
  BY DEF Clean
<1>2. QED
  BY <1>1

-----------------------------------------------------------------------------
(* What the dialogs cut off.                                               *)

LEMMA LeastExists ==
    ASSUME NEW T \in SUBSET Nat, T # {}
    PROVE  \E m \in T : \A n \in T : m <= n
<1> DEFINE R == OpToRel(<, Nat)
<1>1. IsWellFoundedOn(R, Nat)
  BY NatLessThanWellFounded
<1> HIDE DEF R
<1>2. PICK m \in T : \A y \in T : ~(<<y, m>> \in R)
  BY <1>1, WFMin
<1> USE DEF R
<1>3. \A y \in T : ~(y < m)
  BY <1>2 DEF OpToRel
<1>4. QED
  BY <1>3

(* The text is cut at the first place from which on all is to be cut off.  *)
LEMMA TrimFacts ==
    ASSUME NEW s \in Seq(Byte), NEW cut
    PROVE  \E n \in 0 .. Len(s) :
               /\ TrimRight(s, cut) = SubSeq(s, 1, n)
               /\ \A i \in n + 1 .. Len(s) : s[i] \in cut
               /\ \A m \in 0 .. Len(s) :
                      (\A i \in m + 1 .. Len(s) : s[i] \in cut) => n <= m
<1> DEFINE ends == {n \in 0 .. Len(s) : \A i \in n + 1 .. Len(s) : s[i] \in cut}
           least == CHOOSE n \in ends : \A m \in ends : n <= m
<1>1. Len(s) \in ends
  OBVIOUS
<1>2. ends \in SUBSET Nat /\ ends # {}
  BY <1>1
<1> HIDE DEF ends
<1>3. least \in ends /\ \A m \in ends : least <= m
  BY <1>2, LeastExists
<1>4. TrimRight(s, cut) = SubSeq(s, 1, least)
  BY DEF TrimRight, ends
<1> HIDE DEF least
<1>5. QED
  BY <1>3, <1>4 DEF ends

LEMMA EnteredFits ==
    ASSUME NEW p \in Seq(Byte), NEW ui \in UIs
    PROVE  Entered(ui, p) \in Seq(Byte) /\ Fits(Entered(ui, p), p)
<1>1. CASE ui = "tty"
  BY <1>1 DEF Entered, Fits
<1>2. CASE ui # "tty"
  <2> DEFINE s == p \o <<LF>>
             cut == IF ui = "osascript" THEN White ELSE {LF}
  <2>1. /\ s \in Seq(Byte) /\ Len(s) = Len(p) + 1 /\ s[Len(p) + 1] = LF
        /\ \A i \in 1 .. Len(p) : s[i] = p[i]
    BY DEF LF, Byte
  <2>2. LF \in cut /\ cut \subseteq White
    BY DEF White, LF
  <2>3. Entered(ui, p) = TrimRight(s, cut)
    BY <1>2 DEF Entered
  <2> HIDE DEF s, cut
  <2>4. PICK n \in 0 .. Len(s) :
            /\ TrimRight(s, cut) = SubSeq(s, 1, n)
            /\ \A i \in n + 1 .. Len(s) : s[i] \in cut
            /\ \A m \in 0 .. Len(s) :
                   (\A i \in m + 1 .. Len(s) : s[i] \in cut) => n <= m
    BY <2>1, TrimFacts
  <2>5. n <= Len(p)
    <3>1. Len(p) \in 0 .. Len(s) /\ \A i \in Len(p) + 1 .. Len(s) : i = Len(p) + 1
      BY <2>1
    <3>2. QED
      BY <2>1, <2>2, <2>4, <3>1
  <2>6. SubSeq(s, 1, n) = SubSeq(p, 1, n) /\ Len(SubSeq(p, 1, n)) = n
        /\ SubSeq(p, 1, n) \in Seq(Byte)
    BY <2>1, <2>5
  <2>7. \A i \in n + 1 .. Len(p) : p[i] \in White
    BY <2>1, <2>2, <2>4
  <2>8. QED
    BY <2>3, <2>4, <2>5, <2>6, <2>7 DEF Fits
<1>3. QED
  BY <1>1, <1>2

-----------------------------------------------------------------------------
(* The dialogue.                                                           *)

(* Requests and replies alternate, and tell where gpg-agent is.            *)
TurnInv ==
    /\ reply # NoReply => request = NoRequest
    /\ agent = "idle" => request = NoRequest /\ reply = NoReply
    /\ pin = "greet" => request = NoRequest /\ reply = NoReply /\ agent \in {"greeted", "failed"}
    /\ pin \in UIs => request.cmd = "GETPIN"
    /\ request.cmd \in {"other", "unknown"} => agent \in {"desc", "failed"}
    /\ request.cmd = "SETDESC" => agent \in {"prompt", "failed"}
    /\ request.cmd = "SETPROMPT" => agent \in {"ask", "failed"}
    /\ request.cmd = "GETPIN" => agent \in {"check", "failed"}
    /\ request.cmd = "BYE" => agent \in {"ok", "failed", "cancelled"}

(* What gpg-agent wants shown pinentry was told, or is being told.         *)
TextInv ==
    /\ wanted \in (Texts \cup {NoText}) \X (Prompts \cup {NoText})
    /\ IF request.cmd = "SETDESC" THEN decodePercent(request.arg) = wanted[1]
                                  ELSE desc = wanted[1]
    /\ IF request.cmd = "SETPROMPT" THEN decodePercent(request.arg) = wanted[2]
                                    ELSE prompt = wanted[2]

(* The reply to GETPIN is the passphrase as the dialog cut it, escaped.    *)
PassphraseInv ==
    /\ agent = "check" /\ reply.status = "OK" =>
          /\ typed \in Pins
          /\ \E e \in Seq(Byte) : Fits(e, typed) /\ reply.data = encodeAssuan(e)
    /\ agent \in {"idle", "greeted", "desc"} => got = Nothing

DialogueInv ==
    /\ PinentryTypeOK /\ TurnInv /\ TextInv /\ PassphraseInv
    /\ PinAsTyped /\ DialogAsWanted

LEMMA CodecFacts ==
    ASSUME NEW s \in Seq(Byte)
    PROVE  /\ encodeAssuan(s) \in Seq(Byte)
           /\ decodePercent(encodeAssuan(s)) = s
           /\ decodePercent(UpToLF(encodeAssuan(s))) = s
BY RoundTrip, OneLine, CleanSeq

LEMMA TextFacts ==
    /\ NoText \in Seq(Byte) /\ Default \in Seq(Byte)
    /\ NoRequest \in [cmd : Commands \cup {"none"}, arg : Seq(Byte)]
    /\ NoReply \in [status : {"none", "OK", "ERR"}, data : Seq(Byte)]
    /\ NoRequest.cmd = "none" /\ NoReply.status = "none"
    /\ \A d \in Seq(Byte), c \in Commands :
          /\ [cmd |-> c, arg |-> d] \in [cmd : Commands \cup {"none"}, arg : Seq(Byte)]
          /\ [cmd |-> c, arg |-> d].cmd = c /\ [cmd |-> c, arg |-> d].arg = d
          /\ [cmd |-> c, arg |-> d] # NoRequest
    /\ \A d \in Seq(Byte), r \in {"OK", "ERR"} :
          /\ [status |-> r, data |-> d] \in [status : {"none", "OK", "ERR"}, data : Seq(Byte)]
          /\ [status |-> r, data |-> d].status = r /\ [status |-> r, data |-> d].data = d
          /\ [status |-> r, data |-> d] # NoReply
<1>1. <<>> \in Seq(Byte) /\ <<80>> \in Seq(Byte)
  BY DEF Byte
<1>2. QED
  BY <1>1 DEF NoText, Default, NoRequest, NoReply, Commands

LEMMA DialogueStarts == PinentryInit => DialogueInv
<1> SUFFICES ASSUME PinentryInit PROVE DialogueInv
  OBVIOUS
<1>1. PinentryTypeOK
  BY TextFacts, PinentryAssumption DEF PinentryInit, PinentryTypeOK
<1>2. TurnInv /\ PassphraseInv /\ PinAsTyped /\ DialogAsWanted
  BY TextFacts DEF PinentryInit, TurnInv, PassphraseInv, PinAsTyped, DialogAsWanted,
                         UIs, Guis
<1>3. TextInv
  BY TextFacts DEF PinentryInit, TextInv
<1>4. QED
  BY <1>1, <1>2, <1>3 DEF DialogueInv

LEMMA ClearedKeeps == PinentryCleared => DialogueInv'
<1> SUFFICES ASSUME PinentryCleared PROVE DialogueInv'
  OBVIOUS
<1>1. PinentryTypeOK'
  BY TextFacts, PinentryAssumption DEF PinentryCleared, PinentryTypeOK
<1>2. TurnInv' /\ PassphraseInv' /\ PinAsTyped' /\ DialogAsWanted'
  BY TextFacts DEF PinentryCleared, TurnInv, PassphraseInv, PinAsTyped,
                         DialogAsWanted, UIs, Guis
<1>3. TextInv'
  BY TextFacts DEF PinentryCleared, TextInv
<1>4. QED
  BY <1>1, <1>2, <1>3 DEF DialogueInv

(* AgentStarts, Greets, and the steps that end a process.                  *)
LEMMA EndsKeep ==
    ASSUME DialogueInv,
           \/ AgentStarts \/ Greets \/ InputEnds \/ PinentryDies \/ AgentSeesEnd \/ AgentDies
           \/ UNCHANGED pinentryVars
    PROVE  DialogueInv'
<1> USE DEF DialogueInv, AgentStarts, Greets, InputEnds, PinentryDies, AgentSeesEnd,
            AgentDies, pinentryVars, pinVars, agentVars
<1>1. /\ UNCHANGED <<desc, prompt, request, wanted, got, typed, times>>
      /\ reply' = reply \/ (pin = "greet" /\ pin' = "reading"
                            /\ reply' = [status |-> "OK", data |-> <<>>])
      /\ UNCHANGED shown
  BY DEF NoReply
<1>2. PinentryTypeOK'
  BY <1>1, TextFacts DEF PinentryTypeOK, NoText
<1>3. TurnInv'
  BY <1>1, TextFacts DEF TurnInv, NoText, UIs, Guis
<1>4. TextInv' 
  BY <1>1 DEF TextInv
<1>5. PassphraseInv'
  BY <1>1, TextFacts DEF PassphraseInv, TurnInv
<1>6. PinAsTyped' /\ DialogAsWanted'
  BY <1>1 DEF PinAsTyped, DialogAsWanted, TurnInv, UIs, Guis
<1>7. QED
  BY <1>2, <1>3, <1>4, <1>5, <1>6

LEMMA WantedFacts ==
    ASSUME TextInv
    PROVE  /\ wanted = <<wanted[1], wanted[2]>>
           /\ wanted[1] \in Texts \cup {NoText} /\ wanted[2] \in Prompts \cup {NoText}
           /\ wanted[1] \in Seq(Byte) /\ wanted[2] \in Seq(Byte)
BY PinentryAssumption, TextFacts DEF TextInv

(* The commands that get their reply at once.                              *)
LEMMA ServeKeeps ==
    ASSUME DialogueInv, SetDesc \/ SetPrompt \/ OtherCommand \/ Bye
    PROVE  DialogueInv'
<1> USE DEF DialogueInv, Reads
<1>1. /\ request.cmd \in {"SETDESC", "SETPROMPT", "other", "unknown", "BYE"}
      /\ request' = NoRequest
      /\ \E s \in {"OK", "ERR"} : reply' = [status |-> s, data |-> <<>>]
      /\ pin = "reading" /\ pin' \in {"reading", "ended"}
      /\ UNCHANGED <<shown, typed, agent, wanted, got, times>>
  BY DEF SetDesc, SetPrompt, OtherCommand, Bye, Replies, agentVars
<1>2. /\ desc' = wanted[1] /\ prompt' = wanted[2]
      /\ desc' \in Seq(Byte) /\ prompt' \in Seq(Byte)
  <2>1. request.cmd # "SETDESC" => desc = wanted[1]
    BY DEF TextInv
  <2>2. request.cmd # "SETPROMPT" => prompt = wanted[2]
    BY DEF TextInv
  <2>3. CASE SetDesc
    BY <2>2, <2>3, WantedFacts DEF SetDesc, TextInv
  <2>4. CASE SetPrompt
    BY <2>1, <2>4, WantedFacts DEF SetPrompt, TextInv
  <2>5. CASE OtherCommand \/ Bye
    BY <2>1, <2>2, <2>5, WantedFacts DEF OtherCommand, Bye
  <2>6. QED
    BY <2>3, <2>4, <2>5
<1>3. PICK s \in {"OK", "ERR"} : reply' = [status |-> s, data |-> <<>>]
  BY <1>1
<1>4. /\ reply' \in [status : {"none", "OK", "ERR"}, data : Seq(Byte)]
      /\ <<>> \in Seq(Byte)
  BY <1>3, TextFacts DEF NoText
<1>5. PinentryTypeOK'
  BY <1>1, <1>2, <1>4, TextFacts DEF PinentryTypeOK
<1>6. agent \in {"desc", "prompt", "ask", "ok", "failed", "cancelled"}
  BY <1>1 DEF TurnInv
<1>7. TurnInv'
  BY <1>1, <1>6, TextFacts DEF TurnInv, UIs, Guis
<1>8. TextInv'
  BY <1>1, <1>2, TextFacts DEF TextInv
<1>9. PassphraseInv'
  BY <1>1, <1>6 DEF PassphraseInv
<1>10. PinAsTyped' /\ DialogAsWanted'
  BY <1>1 DEF PinAsTyped, DialogAsWanted, UIs, Guis
<1>11. QED
  BY <1>5, <1>7, <1>8, <1>9, <1>10

(* Each dialog shows what gpg-agent wants, as far as it has a place for it. *)
LEMMA DialogKeeps ==
    ASSUME DialogueInv, GetPin \/ NoGui
    PROVE  DialogueInv'
<1> USE DEF DialogueInv
<1>1. /\ request.cmd = "GETPIN" /\ pin' \in UIs /\ typed' \in {Nothing, typed}
      /\ shown' = Dialog(pin')
      /\ UNCHANGED <<desc, prompt, request, reply, agent, wanted, got, times>>
  BY DEF GetPin, NoGui, Reads, agentVars, TurnInv, UIs, Guis
<1>2. agent \in {"check", "failed"} /\ reply = NoReply
  BY <1>1, TextFacts DEF TurnInv
<1>3. desc = wanted[1] /\ prompt = wanted[2]
  BY <1>1 DEF TextInv
<1>4. PinentryTypeOK'
  BY <1>1 DEF PinentryTypeOK
<1>5. TurnInv' /\ TextInv'
  BY <1>1, <1>2 DEF TurnInv, TextInv, UIs, Guis
<1>6. PassphraseInv'
  BY <1>1, <1>2, TextFacts DEF PassphraseInv
<1>7. PinAsTyped'
  BY <1>1, <1>2 DEF PinAsTyped
<1>8. DialogAsWanted'
  BY <1>1, <1>3 DEF DialogAsWanted, Dialog, UIs, Guis
<1>9. QED
  BY <1>4, <1>5, <1>6, <1>7, <1>8

(* What is typed is cut and sent, escaped.                                 *)
LEMMA TypedKeeps ==
    ASSUME DialogueInv, Typed \/ Cancelled
    PROVE  DialogueInv'
<1> USE DEF DialogueInv
<1>1. /\ pin \in UIs /\ pin' = "reading" /\ request' = NoRequest
      /\ UNCHANGED <<desc, prompt, agent, wanted, got, times>>
  BY DEF Typed, Cancelled, Replies, DialogCloses, agentVars, UIs, Guis
<1>2. request.cmd = "GETPIN" /\ agent \in {"check", "failed"}
  BY <1>1 DEF TurnInv
<1>3. \/ /\ reply' = [status |-> "ERR", data |-> <<>>] /\ typed' = typed
      \/ /\ typed' \in Pins
         /\ reply' = [status |-> "OK", data |-> encodeAssuan(Entered(pin, typed'))]
  BY DEF Typed, Cancelled, Replies
<1>4. /\ reply' \in [status : {"none", "OK", "ERR"}, data : Seq(Byte)]
      /\ reply'.status = "OK" =>
             /\ typed' \in Pins
             /\ \E e \in Seq(Byte) : Fits(e, typed') /\ reply'.data = encodeAssuan(e)
      /\ typed' \in Pins \cup {Nothing}
  <2>1. CASE reply' = [status |-> "ERR", data |-> <<>>] /\ typed' = typed
    BY <2>1, TextFacts DEF NoText, PinentryTypeOK
  <2>2. ASSUME typed' \in Pins, NEW e, e = Entered(pin, typed'),
               reply' = [status |-> "OK", data |-> encodeAssuan(e)]
        PROVE  /\ reply' \in [status : {"none", "OK", "ERR"}, data : Seq(Byte)]
               /\ \E d \in Seq(Byte) : Fits(d, typed') /\ reply'.data = encodeAssuan(d)
    <3>1. e \in Seq(Byte) /\ Fits(e, typed')
      BY <1>1, <2>2, PinentryAssumption, EnteredFits
    <3>2. encodeAssuan(e) \in Seq(Byte)
      BY <3>1, CodecFacts
    <3>3. QED
      BY <2>2, <3>1, <3>2, TextFacts
  <2>3. QED
    BY <1>3, <2>1, <2>2
<1>5. PinentryTypeOK'
  BY <1>1, <1>4, TextFacts DEF PinentryTypeOK
<1>6. TurnInv'
  BY <1>1, <1>2, TextFacts DEF TurnInv, UIs, Guis
<1>7. TextInv'
  BY <1>1, <1>2, TextFacts DEF TextInv
<1>8. PassphraseInv'
  BY <1>1, <1>2, <1>4 DEF PassphraseInv
<1>9. PinAsTyped' /\ DialogAsWanted'
  BY <1>1, <1>2 DEF PinAsTyped, DialogAsWanted, UIs, Guis
<1>10. QED
  BY <1>5, <1>6, <1>7, <1>8, <1>9

(* A question of gpg-agent: the reply to the last one is there.            *)
LEMMA AskFacts ==
    ASSUME DialogueInv, NEW from, Answered(from)
    PROVE  /\ agent = from /\ request = NoRequest /\ reply' = NoReply
           /\ desc = wanted[1] /\ prompt = wanted[2]
           /\ pin \notin {"greet"} \cup UIs
<1> USE DEF DialogueInv
<1>1. agent = from /\ reply # NoReply /\ reply' = NoReply
  BY DEF Answered
<1>2. request = NoRequest
  BY <1>1 DEF TurnInv
<1>3. QED
  BY <1>1, <1>2, TextFacts DEF TurnInv, TextInv

(* A question changes what gpg-agent wants, and pinentry has yet to serve  *)
(* it.                                                                     *)
LEMMA QuestionKeeps ==
    ASSUME DialogueInv, NEW from, Answered(from), NEW c \in Commands, NEW d \in Seq(Byte),
           Sends(c, d), UNCHANGED <<pin, desc, prompt, shown, typed>>,
           \/ c \in {"other", "unknown"} /\ agent' = "desc" /\ wanted' = wanted
           \/ /\ c = "SETDESC" /\ agent' = "prompt"
              /\ wanted'[1] \in Texts /\ d = encodeAssuan(wanted'[1])
              /\ wanted' = <<wanted'[1], wanted[2]>>
           \/ /\ c = "SETPROMPT" /\ agent' = "ask"
              /\ wanted'[2] \in Prompts /\ d = encodeAssuan(wanted'[2])
              /\ wanted' = <<wanted[1], wanted'[2]>>
           \/ c = "GETPIN" /\ agent' = "check" /\ wanted' = wanted
           \/ c = "BYE" /\ agent' \in {"ok", "failed", "cancelled"} /\ wanted' = wanted,
           times' \in 0 .. MaxAsked,
           agent' = "desc" => from = "greeted" /\ got' = got,
           agent' \in {"prompt", "ask", "ok"} /\ got' # Nothing => Fits(got', typed)
    PROVE  DialogueInv'
<1> USE DEF DialogueInv
<1>1. /\ agent = from /\ request = NoRequest /\ reply' = NoReply
      /\ desc = wanted[1] /\ prompt = wanted[2] /\ pin \notin {"greet"} \cup UIs
  BY AskFacts
<1>2. /\ request' = [cmd |-> c, arg |-> d] /\ request'.cmd = c /\ request'.arg = d
      /\ request' \in [cmd : Commands \cup {"none"}, arg : Seq(Byte)]
  BY TextFacts DEF Sends
<1>3. PinentryTypeOK'
  BY <1>1, <1>2, TextFacts DEF PinentryTypeOK
<1>4. TurnInv'
  BY <1>1, <1>2 DEF TurnInv, Commands
<1>5. TextInv'
  <2>1. c = "SETDESC" => decodePercent(d) = wanted'[1]
    BY CodecFacts, PinentryAssumption
  <2>2. c = "SETPROMPT" => decodePercent(d) = wanted'[2]
    BY CodecFacts, PinentryAssumption
  <2>3. wanted' \in (Texts \cup {NoText}) \X (Prompts \cup {NoText})
    BY WantedFacts
  <2>4. CASE c = "SETDESC"
    BY <1>1, <1>2, <2>1, <2>3, <2>4, WantedFacts DEF TextInv
  <2>5. CASE c = "SETPROMPT"
    BY <1>1, <1>2, <2>2, <2>3, <2>5, WantedFacts DEF TextInv
  <2>6. CASE c \notin {"SETDESC", "SETPROMPT"}
    BY <1>1, <1>2, <2>3, <2>6 DEF TextInv
  <2>7. QED
    BY <2>4, <2>5, <2>6
<1>6. PassphraseInv'
  BY <1>1, TextFacts DEF PassphraseInv
<1>7. PinAsTyped' /\ DialogAsWanted'
  BY <1>1 DEF PinAsTyped, DialogAsWanted
<1>8. QED
  BY <1>3, <1>4, <1>5, <1>6, <1>7

LEMMA AgentKeeps ==
    ASSUME DialogueInv,
           \/ AgentSendsOption \/ AgentDescribes \/ AgentPrompts \/ AgentAsks
           \/ AgentChecks \/ AgentGivesUp
    PROVE  DialogueInv'
<1> USE DEF DialogueInv
<1>1. <<>> \in Seq(Byte) /\ times \in 0 .. MaxAsked /\ times \in Nat /\ MaxAsked \in Nat
  BY TextFacts, PinentryAssumption DEF NoText, PinentryTypeOK
<1>2. CASE AgentSendsOption
  <2>1. PICK c \in {"other", "unknown"} : Sends(c, <<>>)
    BY <1>2 DEF AgentSendsOption
  <2>2. /\ Answered("greeted") /\ agent' = "desc" /\ wanted' = wanted /\ got' = got
        /\ times' = times /\ UNCHANGED <<pin, desc, prompt, shown, typed>>
    BY <1>2 DEF AgentSendsOption
  <2>3. c \in Commands
    BY <2>1 DEF Commands
  <2>4. QED
    BY <1>1, <2>1, <2>2, <2>3, QuestionKeeps
<1>3. CASE AgentDescribes
  <2>1. PICK t \in Texts : wanted' = <<t, wanted[2]>> /\ Sends("SETDESC", encodeAssuan(t))
    BY <1>3 DEF AgentDescribes
  <2>2. /\ Answered("desc") /\ agent' = "prompt" /\ got' = got
        /\ times' = times /\ UNCHANGED <<pin, desc, prompt, shown, typed>>
    BY <1>3 DEF AgentDescribes
  <2>3. got = Nothing
    BY <2>2 DEF Answered, PassphraseInv
  <2>4. encodeAssuan(t) \in Seq(Byte) /\ "SETDESC" \in Commands /\ wanted'[1] = t
    BY <2>1, PinentryAssumption, CodecFacts DEF Commands
  <2>5. QED
    BY <1>1, <2>1, <2>2, <2>3, <2>4, QuestionKeeps
<1>4. CASE AgentPrompts
  <2>1. PICK t \in Prompts : wanted' = <<wanted[1], t>> /\ Sends("SETPROMPT", encodeAssuan(t))
    BY <1>4 DEF AgentPrompts
  <2>2. /\ Answered("prompt") /\ agent' = "ask" /\ got' = got /\ agent = "prompt"
        /\ times' = times /\ UNCHANGED <<pin, desc, prompt, shown, typed>>
    BY <1>4 DEF AgentPrompts, Answered
  <2>3. got # Nothing => Fits(got, typed)
    BY <2>2 DEF PinAsTyped
  <2>4. encodeAssuan(t) \in Seq(Byte) /\ "SETPROMPT" \in Commands /\ wanted'[2] = t
    BY <2>1, PinentryAssumption, CodecFacts DEF Commands
  <2>5. QED
    BY <1>1, <2>1, <2>2, <2>3, <2>4, QuestionKeeps
<1>5. CASE AgentAsks
  <2>1. /\ Answered("ask") /\ agent' = "check" /\ wanted' = wanted
        /\ times' = times + 1 /\ times < MaxAsked
        /\ Sends("GETPIN", <<>>) /\ UNCHANGED <<pin, desc, prompt, shown, typed>>
    BY <1>5 DEF AgentAsks
  <2>2. times' \in 0 .. MaxAsked /\ "GETPIN" \in Commands
    BY <1>1, <2>1 DEF Commands
  <2>3. QED
    BY <1>1, <2>1, <2>2, QuestionKeeps
<1>6. CASE AgentChecks
  <2>1. /\ Answered("check") /\ reply.status = "OK" /\ times' = times /\ agent = "check"
        /\ got' = decodePercent(UpToLF(reply.data))
        /\ UNCHANGED <<pin, desc, prompt, shown, typed>>
    BY <1>6 DEF AgentChecks, Answered
  <2>2. Fits(got', typed)
    <3>1. PICK e \in Seq(Byte) : Fits(e, typed) /\ reply.data = encodeAssuan(e)
      BY <2>1 DEF PassphraseInv
    <3>2. got' = e
      BY <2>1, <3>1, CodecFacts
    <3>3. QED
      BY <3>1, <3>2
  <2>3. \/ agent' \in {"ok", "failed"} /\ Sends("BYE", <<>>) /\ wanted' = wanted
        \/ /\ agent' = "prompt"
           /\ \E t \in Texts : /\ wanted' = <<t, wanted[2]>>
                               /\ Sends("SETDESC", encodeAssuan(t))
    BY <1>6 DEF AgentChecks
  <2>4. CASE agent' \in {"ok", "failed"} /\ Sends("BYE", <<>>) /\ wanted' = wanted
    <3>1. "BYE" \in Commands
      BY DEF Commands
    <3>2. QED
      BY <1>1, <2>1, <2>2, <2>4, <3>1, QuestionKeeps
  <2>5. ASSUME NEW t \in Texts, agent' = "prompt", wanted' = <<t, wanted[2]>>,
               Sends("SETDESC", encodeAssuan(t))
        PROVE  DialogueInv'
    <3>1. encodeAssuan(t) \in Seq(Byte) /\ "SETDESC" \in Commands /\ wanted'[1] = t
      BY <2>5, PinentryAssumption, CodecFacts DEF Commands
    <3>2. QED
      BY <1>1, <2>1, <2>2, <2>5, <3>1, QuestionKeeps
  <2>6. QED
    BY <2>3, <2>4, <2>5
<1>7. CASE AgentGivesUp
  <2>1. /\ Answered("check") /\ agent' = "cancelled" /\ wanted' = wanted /\ times' = times
        /\ Sends("BYE", <<>>) /\ UNCHANGED <<pin, desc, prompt, shown, typed>>
    BY <1>7 DEF AgentGivesUp
  <2>2. "BYE" \in Commands
    BY DEF Commands
  <2>3. QED
    BY <1>1, <2>1, <2>2, QuestionKeeps
<1>8. QED
  BY <1>2, <1>3, <1>4, <1>5, <1>6, <1>7

LEMMA DialogueKeeps ==
    ASSUME DialogueInv, PinentryNext
    PROVE  DialogueInv'
BY EndsKeep, ServeKeeps, DialogKeeps, TypedKeeps, AgentKeeps
   DEF PinentryNext, PinentrySteps, AgentSteps, UserSteps

-----------------------------------------------------------------------------
(* The request.                                                            *)

(* It is resolved in a configuration that was accepted.                    *)
AccessInv ==
    /\ AccessTypeOK /\ StatusSurvives
    /\ file # NoRef => file \in Configs /\ ValidConfig(file) /\ req \in Requests
    /\ access = "resolve" => file # NoRef

IInv == HealthInv /\ DialogueInv /\ AccessInv

(* The status of an error is what the client gets of it, whether it comes  *)
(* from the provider, from the connection to it or from the daemon.        *)
LEMMA StatusFacts ==
    /\ \A err \in Causes :
          Wire(GetSecretError(GRPCClient(Wire(err)))).code = StatusAt(err)
    /\ Wire(GetSecretError(GRPCClient(Gone))).code = StatusAt(Gone)
    /\ Wire(Plain).code = StatusAt(Plain) /\ Wire(TooLate).code = StatusAt(TooLate)
    /\ {NoError, Plain, Gone, TooLate} \subseteq Causes
    /\ StatusAt(NoError) = "OK"
<1> USE DEF Wire, GetSecretError, GRPCClient, StatusAt, HasStatus
<1>1. ASSUME NEW c \in {"Unauthenticated", "NotFound", "PermissionDenied", "Internal",
                        "Unavailable", "DeadlineExceeded"},
             NEW err \in {VaultError(c), StatusError(c)}
      PROVE  /\ err # NoError /\ err # Plain /\ HasStatus(err) /\ err.code = c
             /\ VaultError(c) # NoError /\ HasStatus(VaultError(c)) /\ VaultError(c).code = c
             /\ StatusError(c) # NoError /\ HasStatus(StatusError(c)) /\ StatusError(c).code = c
  BY DEF VaultError, StatusError, NoError, Plain
<1>2. ASSUME NEW c \in {"Unauthenticated", "NotFound", "PermissionDenied", "Internal",
                        "Unavailable", "DeadlineExceeded"},
             NEW err \in {VaultError(c), StatusError(c)}
      PROVE  /\ Wire(GetSecretError(GRPCClient(Wire(err)))).code = StatusAt(err)
             /\ Wire(GetSecretError(GRPCClient(err))).code = StatusAt(err)
             /\ Wire(err).code = StatusAt(err)
  <2>1. Wire(err) = StatusError(c) /\ StatusAt(err) = c
    BY <1>1
  <2>2. GRPCClient(StatusError(c)) = VaultError(c) /\ GRPCClient(err) = VaultError(c)
    BY <1>1
  <2>3. GetSecretError(VaultError(c)) = StatusError(c)
    BY <1>1
  <2>4. Wire(StatusError(c)) = StatusError(c)
    BY <1>1
  <2>5. StatusError(c).code = c
    BY <1>1
  <2> HIDE DEF Wire, GetSecretError, GRPCClient, StatusAt
  <2>6. QED
    BY <2>1, <2>2, <2>3, <2>4, <2>5
<1>3. Wire(GetSecretError(GRPCClient(Wire(NoError)))).code = StatusAt(NoError)
  <2>1. Wire(NoError) = NoError /\ GetSecretError(NoError) = NoError
        /\ StatusAt(NoError) = "OK" /\ NoError.code = "OK"
    BY DEF NoError, Plain
  <2>2. GRPCClient(NoError) = NoError
    BY DEF NoError
  <2> HIDE DEF Wire, GetSecretError, GRPCClient, StatusAt
  <2>3. QED
    BY <2>1, <2>2
<1>4. Wire(GetSecretError(GRPCClient(Wire(Plain)))).code = StatusAt(Plain)
  <2>1. Wire(Plain) = StatusError("Unknown") /\ StatusAt(Plain) = "Unknown"
    BY DEF Plain, NoError
  <2>2. GRPCClient(StatusError("Unknown")) = VaultError("Unknown")
    BY DEF StatusError
  <2>3. GetSecretError(VaultError("Unknown")) = StatusError("Unknown")
    BY DEF VaultError, NoError
  <2>4. Wire(StatusError("Unknown")).code = "Unknown"
    BY DEF StatusError, NoError
  <2> HIDE DEF Wire, GetSecretError, GRPCClient, StatusAt
  <2>5. QED
    BY <2>1, <2>2, <2>3, <2>4
<1>5. Wire(Plain).code = StatusAt(Plain)
  BY DEF Plain, NoError, StatusError
<1>6. \A err \in Causes :
          \/ err \in {NoError, Plain}
          \/ \E c \in {"Unauthenticated", "NotFound", "PermissionDenied", "Internal",
                      "Unavailable", "DeadlineExceeded"} :
                err \in {VaultError(c), StatusError(c)}
  BY DEF Causes, GopassErrors, KeychainErrors, Gone, TooLate
<1>7. StatusAt(NoError) = "OK" /\ {NoError, Plain, Gone, TooLate} \subseteq Causes
  <2>1. StatusAt(NoError) = "OK"
    BY DEF NoError, Plain
  <2>2. QED
    BY <2>1 DEF Causes, GopassErrors
<1> HIDE DEF Wire, GetSecretError, GRPCClient, StatusAt, HasStatus
<1>8. QED
  BY <1>2, <1>3, <1>4, <1>5, <1>6, <1>7 DEF Gone, TooLate

LEMMA AccessStarts == Init => IInv
<1> SUFFICES ASSUME Init PROVE IInv
  OBVIOUS
<1>1. HealthInv /\ DialogueInv
  BY HealthStarts, DialogueStarts DEF Init
<1>2. AccessInv
  BY StatusFacts DEF Init, AccessInv, AccessTypeOK, StatusSurvives
<1>3. QED
  BY <1>1, <1>2 DEF IInv

LEMMA ReplyKeeps ==
    ASSUME AccessInv, NEW origin \in Causes, NEW err, Reply(origin, err),
           Wire(err).code = StatusAt(origin)
    PROVE  AccessInv'
BY DEF AccessInv, AccessTypeOK, StatusSurvives, Reply, Resolved

LEMMA AccessStill ==
    ASSUME AccessInv, UNCHANGED accessVars
    PROVE  AccessInv'
BY DEF AccessInv, AccessTypeOK, StatusSurvives, accessVars, ValidConfig

LEMMA AccessKeeps ==
    ASSUME IInv, Request \/ AccessSteps \/ Abandoned \/ DialogueForgotten
    PROVE  IInv'
<1> USE DEF IInv
<1>1. HealthInv /\ UNCHANGED healthVars => HealthInv'
  BY DEF healthVars, pluginVars, managerVars, callVars, HealthInv, HealthTypeOK,
         ManagerTypeOK, RegistryInv, WarningsFit, WarnedAsDeclared, CallInv, Loaded
<1>2. UNCHANGED pinentryVars => DialogueInv'
  BY EndsKeep
<1>3. CASE Request
  <2>1. UNCHANGED <<healthVars, pinentryVars>>
    BY <1>3 DEF Request
  <2>2. AccessInv'
    <3>1. /\ file' \in Configs /\ ValidConfig(file') /\ req' \in Requests
          /\ access' = "resolve" /\ server' = server /\ cause' = NoError
      BY <1>3 DEF Request
    <3>2. QED
      BY <3>1, StatusFacts, AccessAssumption DEF AccessInv, AccessTypeOK, StatusSurvives
  <2>3. QED
    BY <1>1, <1>2, <2>1, <2>2
<1>4. CASE Unresolved
  BY <1>1, <1>2, <1>4, ReplyKeeps, StatusFacts DEF Unresolved
<1>5. CASE Provider
  <2>1. UNCHANGED <<healthVars, pinentryVars>>
    BY <1>5 DEF Provider
  <2>2. \/ Reply(Plain, Plain)
        \/ /\ Target.type \in Types /\ plugins[Target.type] # NoProc
           /\ server' = plugins[Target.type] /\ access' = Target.type
           /\ Resolved /\ UNCHANGED <<cause, code>>
    BY <1>5 DEF Provider
  <2>3. CASE ~Reply(Plain, Plain)
    <3>1. server' \in Procs
      BY <2>2, <2>3 DEF HealthInv, HealthTypeOK, ManagerTypeOK
    <3>2. access' \in {"gopass", "keychain"}
      BY <2>2, <2>3, AccessAssumption
    <3>3. AccessInv'
      BY <2>2, <2>3, <3>1, <3>2 DEF AccessInv, AccessTypeOK, StatusSurvives, Resolved
    <3>4. QED
      BY <1>1, <1>2, <2>1, <3>3
  <2>4. CASE Reply(Plain, Plain)
    BY <1>1, <1>2, <2>1, <2>4, ReplyKeeps, StatusFacts
  <2>5. QED
    BY <2>3, <2>4
<1>6. CASE Keychain \/ GopassShows \/ PluginGone \/ Abandoned
  <2>1. UNCHANGED <<healthVars, pinentryVars>>
    BY <1>6 DEF Keychain, GopassShows, PluginGone, Abandoned
  <2>2. \E origin \in Causes : \E err :
            Reply(origin, err) /\ Wire(err).code = StatusAt(origin)
    BY <1>6, StatusFacts DEF Keychain, GopassShows, PluginGone, Abandoned, PluginReturns,
             Causes
  <2>3. QED
    BY <1>1, <1>2, <2>1, <2>2, ReplyKeeps
<1>7. CASE GopassAsks
  <2>1. DialogueInv' /\ UNCHANGED healthVars
    BY <1>7, EndsKeep DEF GopassAsks
  <2>2. AccessInv'
    BY <1>7 DEF GopassAsks, AccessInv, AccessTypeOK, StatusSurvives, ValidConfig
  <2>3. QED
    BY <1>1, <2>1, <2>2
<1>8. CASE GopassEnds
  <2>1. DialogueInv' /\ UNCHANGED healthVars
    BY <1>8, ClearedKeeps DEF GopassEnds, AgentForgets
  <2>2. \E origin \in Causes : \E err :
            Reply(origin, err) /\ Wire(err).code = StatusAt(origin)
    BY <1>8, StatusFacts DEF GopassEnds, PluginReturns
  <2>3. QED
    BY <1>1, <2>1, <2>2, ReplyKeeps
<1>9. CASE DialogueForgotten
  <2>1. DialogueInv' /\ UNCHANGED <<healthVars, accessVars>>
    BY <1>9, ClearedKeeps DEF DialogueForgotten, AgentForgets
  <2>2. QED
    BY <1>1, <2>1, AccessStill
<1>10. QED
  BY <1>3, <1>4, <1>5, <1>6, <1>7, <1>8, <1>9 DEF AccessSteps

(* The inductive invariant of VaultAccess: registry, dialogue and request. *)
THEOREM AccessInvariance == Spec => []IInv
<1>1. Init => IInv
  BY AccessStarts
<1>2. IInv /\ [Next]_vars => IInv'
  <2> SUFFICES ASSUME IInv, [Next]_vars PROVE IInv'
    OBVIOUS
  <2>1. CASE Request \/ AccessSteps \/ Abandoned \/ DialogueForgotten
    BY <2>1, AccessKeeps
  <2>2. UNCHANGED accessVars => AccessInv'
    BY AccessStill DEF IInv
  <2>3. UNCHANGED pinentryVars => DialogueInv'
    BY EndsKeep DEF IInv
  <2>4. CASE (PluginNext \/ CallNext \/ CallStarts("health") \/ CallStarts("list"))
             /\ UNCHANGED <<pinentryVars, accessVars>>
    BY <2>2, <2>3, <2>4, PluginKeeps, CallKeeps DEF IInv
  <2>5. UNCHANGED healthVars => HealthInv'
    BY DEF IInv, healthVars, pluginVars, managerVars, callVars, HealthInv, HealthTypeOK,
           ManagerTypeOK, RegistryInv, WarningsFit, WarnedAsDeclared, CallInv, Loaded
  <2>6. CASE PinentryNext /\ UNCHANGED <<healthVars, accessVars>>
    BY <2>2, <2>5, <2>6, DialogueKeeps DEF IInv
  <2>7. CASE UNCHANGED vars
    BY <2>2, <2>3, <2>5, <2>7 DEF IInv, vars
  <2>8. QED
    BY <2>1, <2>4, <2>6, <2>7 DEF Next
<1>3. QED
  BY <1>1, <1>2, PTL DEF Spec

-----------------------------------------------------------------------------
(* config.go, resolve.go and the plugins' providers: asking for an alias   *)
(* and asking for its vault and path lead to the same item, and an alias   *)
(* of a configuration that was accepted always leads to one.               *)
THEOREM AliasesAlwaysResolve == Spec => []AliasesResolve
<1>1. IInv => AliasesResolve
  <2> SUFFICES ASSUME IInv, file # NoRef, req.key \in DOMAIN file.keys
               PROVE  SameItem /\ AcceptedKeysResolve
    BY DEF AliasesResolve, SameItem, AcceptedKeysResolve
  <2> DEFINE key == file.keys[req.key]
             vault == file.vaults[key.vault]
             target == [type |-> vault.type, path |-> key.path, opts |-> OptsOf(vault)]
             direct == [key |-> None, vault |-> key.vault, path |-> key.path]
  <2>1. /\ file \in Configs /\ key.vault \in DOMAIN file.vaults /\ key.path # <<>>
        /\ vault.type = "keychain" => Len(key.path) <= 2
    BY DEF IInv, AccessInv, ValidConfig, ValidKey
  <2>2. /\ key.path \in Seq(STRING) /\ req.key # None /\ key.vault # None
        /\ vault \in [type : STRING, store : STRING, service : STRING]
    BY <2>1, AccessAssumption
  <2> HIDE DEF key, vault
  <2>3. Target = target
    BY <2>2 DEF Target, resolveKey, ByAlias, key, vault
  <2>4. resolveKey(file, direct) = target
    BY <2>1, <2>2 DEF resolveKey, ByPath, vault
  <2>5. SameItem
    BY <2>3, <2>4 DEF SameItem, key
  <2>6. Target # Error /\ Target.type = vault.type /\ Target.path = key.path
    <3>1. target \in [type : STRING, path : Seq(STRING),
                      opts : [store : STRING, service : STRING]]
      BY <2>2 DEF OptsOf
    <3>2. QED
      BY <2>3, <3>1, AccessAssumption
  <2>7. ASSUME Target.type = "keychain", NEW service
        PROVE  Len(parseKeychainPath(Target.path, service).account) = 1
    <3>1. Len(key.path) \in {1, 2}
      <4>1. key.path \in Seq(STRING) /\ key.path # <<>>
        BY <2>1, <2>2
      <4>2. Len(key.path) \in Nat \ {0}
        BY <4>1, EmptySeq
      <4>3. Len(key.path) <= 2
        BY <2>1, <2>6, <2>7
      <4>4. \A n \in Nat \ {0} : n <= 2 => n \in {1, 2}
        OBVIOUS
      <4>5. QED
        BY <4>2, <4>3, <4>4, Zenon
    <3>2. CASE Len(key.path) = 2
      <4>1. Len(Tail(key.path)) = 1
        BY <2>1, <2>2, <3>2, HeadTailProperties
      <4>2. QED
        BY <2>6, <3>2, <4>1 DEF parseKeychainPath
    <3>3. CASE Len(key.path) = 1
      BY <2>2, <2>6, <3>3 DEF parseKeychainPath
    <3>4. QED
      BY <3>1, <3>2, <3>3
  <2>8. AcceptedKeysResolve
    BY <2>6, <2>7 DEF AcceptedKeysResolve
  <2>9. QED
    BY <2>5, <2>8
<1>2. QED
  BY <1>1, AccessInvariance, PTL

(* assuan.go, ui.go and ui_*.go: what gpg-agent asks for is what the user  *)
(* reads, as far as the dialog shows it, and what the user types is what   *)
(* gpg-agent gets, up to white space at its end, for every text of bytes.  *)
THEOREM DialogueAlwaysFaithful == Spec => []DialogueFaithful
<1>1. IInv => DialogueFaithful
  BY DEF IInv, DialogueInv, DialogueFaithful
<1>2. QED
  BY <1>1, AccessInvariance, PTL

(* compat.go and server.go: the warnings kept with a plugin are the ones   *)
(* its Info deserves, and a client is told the status its request failed   *)
(* with, through the conversions of vault.go, server.go and gRPC.          *)
THEOREM ReportsAlwaysTrue == Spec => []ReportsTrue
<1>1. IInv => ReportsTrue
  BY DEF IInv, HealthInv, DialogueInv, AccessInv, ReportsTrue, TypeOK
<1>2. QED
  BY <1>1, AccessInvariance, PTL

(* server.go: VaultHealth and VaultList leave out no plugin that was there *)
(* during the whole call.                                                  *)
THEOREM NoPluginOmitted == Spec => EveryTypeReported
<1>1. IInv /\ [Next]_vars =>
          [(call # "none" /\ call' = "none") =>
               steady \subseteq {r[1] : r \in results}]_healthVars
  <2> SUFFICES ASSUME IInv, [Next]_vars, call # "none", call' = "none"
               PROVE  steady \subseteq {r[1] : r \in results}
    OBVIOUS
  <2>1. call' # call
    OBVIOUS
  <2>2. CallReturns
    <3>1. CallNext \/ CallStarts("health") \/ CallStarts("list")
      BY <2>1 DEF Next, vars, healthVars, pluginVars, callVars, PluginNext, LaunchInfo,
             Unload, Dies, Hangs, Request, AccessSteps, Unresolved, Provider, Keychain,
             GopassShows, GopassAsks, GopassEnds, PluginGone, Abandoned, DialogueForgotten
    <3>2. QED
      BY <2>1, <3>1 DEF CallNext, CallStarts, Ask, FromCache, Unloaded, Answers, TimesOut,
             Entry
  <2>3. QED
    BY <2>2 DEF CallReturns, IInv, HealthInv, CallInv
<1>2. QED
  BY <1>1, AccessInvariance, PTL DEF Spec, EveryTypeReported
=============================================================================

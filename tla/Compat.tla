------------------------------- MODULE Compat -------------------------------
(***************************************************************************)
(* What a plugin says of itself, checked against the running daemon: the   *)
(* versions of internal/semver and CompatValidator of internal/plugin.     *)
(*                                                                         *)
(* A version string is the sequence of its components between dots; a      *)
(* component that strconv.Atoi refuses, or an empty one, is -1.            *)
(***************************************************************************)
EXTENDS Integers, Sequences, FiniteSetsExt

CONSTANTS
    Platform,  \* runtime.GOOS
    Current    \* the version string of the daemon

ASSUME CompatAssumption == Current \in Seq(Int)

(* The empty string, and one with a pre-release or build suffix.           *)
NoVersion == <<>>
Suffixed  == <<-1>>

Parses(s) == Len(s) = 3 /\ \A i \in 1 .. 3 : s[i] >= 0

(* Mutant of Compare: a smaller minor version decides before the major.    *)
CompareMinorFirst(a, b) ==
    LET d == {i \in 1 .. 3 : a[i] # b[i]}
    IN  IF d = {} THEN 0 ELSE IF a[Max(d)] < b[Max(d)] THEN -1 ELSE 1

(* -1, 0 or 1: the first component that differs decides.                   *)
Compare(a, b) ==
    LET differ == {i \in 1 .. 3 : a[i] # b[i]}
        first  == Min(differ)
    IN  IF differ = {} THEN 0 ELSE IF a[first] < b[first] THEN -1 ELSE 1

WarnKinds == {"info_unavailable", "info_empty", "platform_mismatch", "invalid_semver",
              "min_version_missing", "invalid_min_version", "daemon_too_old",
              "invalid_max_version", "daemon_too_new"}

PlatformWarnings(info) ==
    IF info.platforms # {} /\ Platform \notin info.platforms
    THEN {"platform_mismatch"} ELSE {}

(* Mutant of MinWarnings: the lowest version is too old as well.           *)
MinWarningsAbove(min) ==
    CASE min = NoVersion -> {"min_version_missing"}
      [] min # NoVersion /\ ~Parses(min) -> {"invalid_min_version"}
      [] Parses(min) /\ Compare(Current, min) <= 0 -> {"daemon_too_old"}
      [] OTHER -> {}

MinWarnings(min) ==
    CASE min = NoVersion -> {"min_version_missing"}
      [] min # NoVersion /\ ~Parses(min) -> {"invalid_min_version"}
      [] Parses(min) /\ Compare(Current, min) < 0 -> {"daemon_too_old"}
      [] OTHER -> {}

MaxWarnings(max) ==
    CASE max # NoVersion /\ ~Parses(max) -> {"invalid_max_version"}
      [] Parses(max) /\ Compare(Current, max) > 0 -> {"daemon_too_new"}
      [] OTHER -> {}

(* CompatValidator.Validate; the warnings as a set.                        *)
Validate(info) ==
    IF info.name = "" THEN {"info_empty"}
    ELSE PlatformWarnings(info) \cup
         (IF ~Parses(Current) THEN {"invalid_semver"}
          ELSE MinWarnings(info.min) \cup MaxWarnings(info.max))

-----------------------------------------------------------------------------
(* Reference: the order of versions, spelled out.                          *)
Precedes(v, w) ==
    \/ v[1] < w[1]
    \/ v[1] = w[1] /\ v[2] < w[2]
    \/ v[1] = w[1] /\ v[2] = w[2] /\ v[3] < w[3]

(* A plugin whose declared range is well formed is warned about exactly if *)
(* the daemon's version lies outside of it, and on the right side.         *)
WarnedAsDeclared(info, warnings) ==
    (info.name # "" /\ Parses(Current)) =>
        /\ Parses(info.min) =>
               ("daemon_too_old" \in warnings <=> Precedes(Current, info.min))
        /\ Parses(info.max) =>
               ("daemon_too_new" \in warnings <=> Precedes(info.max, Current))
=============================================================================

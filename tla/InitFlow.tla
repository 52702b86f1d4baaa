------------------------------ MODULE InitFlow ------------------------------
(***************************************************************************)
(* The commands that edit the user's files: `locksmith init`, which runs   *)
(* through its questions (internal/initflow, RunInit) and then applies the *)
(* answers one file after the other (applyInit), `config pinentry` and     *)
(* `plugins update`.  Nothing is undone when a step fails, and nothing     *)
(* keeps a second process out; running the command again is the remedy.    *)
(*                                                                         *)
(* A file is reduced to what the commands look for in it.  Files that are  *)
(* always written whole with the same content (the skill, the hook's       *)
(* script, the generic instructions) are left out.                         *)
(***************************************************************************)
EXTENDS BundleExtract, FiniteSetsExt

CONSTANTS
    Wants,    \* commands and the answers their users give
    Homes     \* what is in the home directory before

VARIABLES
    home,     \* the home directory as it was, and the binary's bundle
    want,     \* each process's command
    flow,     \* where it is: a stage, or how it ended
    sub,      \* where it is within the stage
    kept,     \* ConfigPreexisted
    shellHookPresent,
    claudeHookPresent,
    snap,     \* what it has read of the file it rewrites
    config, settings, gpgConf, sections,   \* the user's files
    overlap,  \* two processes edited them at the same time
    torn      \* files that a crash or a failed write left empty

userVars == <<config, settings, gpgConf, sections>>
flowVars == <<home, want, flow, sub, kept, shellHookPresent, claudeHookPresent, snap,
              userVars, overlap, torn>>
vars == <<bundleVars, flowVars>>

Stages == <<"config", "gpg", "claudeMd", "allow", "hook", "agentsMd", "policy", "rc">>

Sections == {"claudeMd", "agentsMd", "policy", "rc"}
Ended    == {"done", "cancelled", "error"}

(* settings.json: is it a JSON object; has it the user's own settings, the *)
(* allow list, the hook.                                                   *)
Settings == [json : BOOLEAN, user : BOOLEAN, allow : BOOLEAN, hook : BOOLEAN]
NoSettings == [json |-> FALSE, user |-> FALSE, allow |-> FALSE, hook |-> FALSE]

(* gpg-agent.conf: the user's pinentry-program line, and the active ones   *)
(* that name locksmith-pinentry.                                           *)
GpgConf == [user : {"none", "active", "comment"}, ours : 0 .. 1]
NoGpgConf == [user |-> "none", ours |-> 0]

(* An agent that locksmith configured before is told of a pinentry that    *)
(* locksmith installed before.                                             *)
ASSUME FlowAssumption ==
    /\ Wants \subseteq [kind : {"auto", "init", "update", "force", "pinentry"},
                        prompts : BOOLEAN,
                        action : {"continue", "overwrite", "exit"},
                        plugins : Seq(Entries),
                        gpg : BOOLEAN,
                        agents : SUBSET {"claude", "codex"},
                        sandbox : BOOLEAN, shell : BOOLEAN, hook : BOOLEAN]
    /\ Homes \subseteq [binaries : {None, Other, Current},
                        config : {"none", "empty", "invalid", "user", "ours"},
                        settings : Settings,
                        gpgConf : GpgConf,
                        emptyBundle : BOOLEAN]
    /\ \A h \in Homes : h.gpgConf.ours > 0 => h.binaries # None

TypeOK ==
    /\ BundleTypeOK
    /\ home \in Homes
    /\ want \in [Procs -> Wants]
    /\ flow \in [Procs -> {"idle", "select", "consent", "extract"} \cup Ended
                            \cup {Stages[i] : i \in 1 .. Len(Stages)}]
    /\ sub \in [Procs -> {"read", "trunc", "write", "append"}]
    /\ kept \in [Procs -> BOOLEAN]
    /\ shellHookPresent \in [Procs -> BOOLEAN]
    /\ claudeHookPresent \in [Procs -> BOOLEAN]
    /\ snap \in [Procs -> Settings \cup GpgConf]
    /\ config \in {"none", "empty", "invalid", "user", "ours"}
    /\ settings \in Settings
    /\ gpgConf \in GpgConf
    /\ sections \in [Sections -> Nat]
    /\ overlap \in BOOLEAN
    /\ torn \subseteq {"config", "settings", "gpgConf"}

Init ==
    /\ BundleInit
    /\ want \in [Procs -> Wants]
    /\ home \in Homes
    /\ \A e \in Entries : dest[e] = home.binaries
    /\ config = home.config
    /\ settings = home.settings
    /\ gpgConf = home.gpgConf
    /\ \A p \in Procs : /\ forceOverwrite[p] = (want[p].kind = "force")
                        /\ prompts[p] = want[p].prompts
    /\ flow = [p \in Procs |-> "idle"]
    /\ sub = [p \in Procs |-> "read"]
    /\ kept = [p \in Procs |-> FALSE]
    /\ shellHookPresent = [p \in Procs |-> FALSE]
    /\ claudeHookPresent = [p \in Procs |-> FALSE]
    /\ snap = [p \in Procs |-> NoSettings]
    /\ sections = [f \in Sections |-> 0]
    /\ overlap = FALSE
    /\ torn = {}

-----------------------------------------------------------------------------
Active(p) == flow[p] \notin {"idle"} \cup Ended

Begins(p) ==
    /\ flow[p] = "idle"
    /\ overlap' = (overlap \/ \E q \in Procs : Active(q))

Goto(p, place) == flow' = [flow EXCEPT ![p] = place]

(* config.Load of what is there; an empty file is a valid configuration.   *)
Loads == config \in {"empty", "user", "ours"}

(* Mutant of Action: --auto writes its own configuration.                  *)
ActionOverwrites(p) == IF want[p].kind # "auto" THEN want[p].action ELSE "overwrite"

(* RunInit's question about an existing configuration; --auto keeps it if  *)
(* it is valid.                                                            *)
Action(p) == IF want[p].kind # "auto" THEN want[p].action
             ELSE IF Loads THEN "continue" ELSE "overwrite"

RunInit(p) ==
    /\ want[p].kind \in {"auto", "init"}
    /\ Begins(p)
    /\ IF config # "none" /\ Action(p) = "exit"
          THEN Goto(p, "cancelled") /\ UNCHANGED kept
          ELSE /\ Goto(p, "select")
               /\ kept' = [kept EXCEPT ![p] = config # "none" /\ Action(p) = "continue"]
    /\ UNCHANGED <<bundleVars, home, want, sub, shellHookPresent, claudeHookPresent,
                   snap, userVars, torn>>

(* The other questions; any prompt may end the command, as may "Apply?".   *)
Select(p) ==
    /\ flow[p] = "select"
    /\ \/ Goto(p, "consent")
       \/ want[p].kind = "init" /\ Goto(p, "cancelled")
    /\ UNCHANGED <<bundleVars, home, want, sub, kept, shellHookPresent,
                   claudeHookPresent, snap, userVars, overlap, torn>>

(* detectShellHookConsent and detectClaudeHookConsent look before asking.  *)
Consent(p) ==
    /\ flow[p] = "consent"
    /\ shellHookPresent' = [shellHookPresent EXCEPT ![p] = sections["rc"] > 0]
    /\ claudeHookPresent' = [claudeHookPresent EXCEPT ![p] =
                                settings.json /\ settings.hook]
    /\ Goto(p, "extract")
    /\ UNCHANGED <<bundleVars, home, want, sub, kept, snap, userVars, overlap, torn>>

(* `plugins update` wants a configuration, `config pinentry` does not.     *)
RunUpdate(p) ==
    /\ want[p].kind \in {"update", "force"}
    /\ Begins(p)
    /\ IF ~Loads THEN Goto(p, "error")
       ELSE IF config = "empty" THEN Goto(p, "done") ELSE Goto(p, "extract")
    /\ UNCHANGED <<bundleVars, home, want, sub, kept, shellHookPresent,
                   claudeHookPresent, snap, userVars, torn>>

RunConfigPinentry(p) ==
    /\ want[p].kind = "pinentry"
    /\ Begins(p)
    /\ Goto(p, IF dest[Pinentry] = None THEN "extract"
               ELSE IF want[p].gpg THEN "gpg" ELSE "done")
    /\ UNCHANGED <<bundleVars, home, want, sub, kept, shellHookPresent,
                   claudeHookPresent, snap, userVars, torn>>

-----------------------------------------------------------------------------
(* ExtractBundled, and its counterparts in the other commands.             *)
ExtractBundled(p) ==
    /\ flow[p] = "extract"
    /\ ~home.emptyBundle
    /\ Extract(p, <<Pinentry>> \o want[p].plugins)
    /\ UNCHANGED flowVars

Extracting(p) ==
    /\ flow[p] = "extract"
    /\ ExtractStep(p)
    /\ UNCHANGED flowVars

-----------------------------------------------------------------------------
(* applyInit, stage by stage.                                              *)
Claude(p) == "claude" \in want[p].agents
Codex(p)  == "codex" \in want[p].agents

(* writeConfigFile asks for the pinentry only after it wrote the file.     *)
Wanted(p, stage) ==
    \/ want[p].kind = "pinentry" /\ stage = "gpg" /\ want[p].gpg
    \/ /\ want[p].kind \in {"auto", "init"}
       /\ \/ stage = "config" /\ ~kept[p]
          \/ stage = "gpg" /\ want[p].gpg /\ ~kept[p]
          \/ stage = "claudeMd" /\ Claude(p)
          \/ stage = "allow" /\ Claude(p) /\ want[p].sandbox
          \/ stage = "hook" /\ Claude(p) /\ want[p].hook /\ ~claudeHookPresent[p]
          \/ stage = "agentsMd" /\ Codex(p)
          \/ stage = "policy" /\ Codex(p) /\ want[p].sandbox
          \/ stage = "rc" /\ want[p].shell /\ ~shellHookPresent[p]

At(p, stage, place) ==
    /\ flow[p] = stage
    /\ sub[p] = place
    /\ Wanted(p, stage)

(* The next stage that is wanted, from the i-th on.                        *)
StageFrom(p, i) ==
    LET after == {j \in i .. Len(Stages) : Wanted(p, Stages[j])}
    IN  IF after = {} THEN "done" ELSE Stages[Min(after)]

Place(stage) == CHOOSE i \in 1 .. Len(Stages) : Stages[i] = stage

Leave(p) ==
    /\ Goto(p, StageFrom(p, Place(flow[p]) + 1))
    /\ sub' = [sub EXCEPT ![p] = "read"]

Within(p, place) ==
    /\ sub' = [sub EXCEPT ![p] = place]
    /\ UNCHANGED flow

AfterExtract(p) ==
    IF step[p] = "error" THEN "error"
    ELSE IF want[p].kind \in {"update", "force"} THEN "done"
    ELSE StageFrom(p, 1)

Extracted(p) ==
    /\ flow[p] = "extract"
    /\ step[p] \in {"done", "error"}
    /\ Goto(p, AfterExtract(p))
    /\ UNCHANGED <<bundleVars, home, want, sub, kept, shellHookPresent,
                   claudeHookPresent, snap, userVars, overlap, torn>>

(* OpenBundle finds no entries in a development build.                     *)
EmptyBundle(p) ==
    /\ flow[p] = "extract" /\ step[p] = "idle"
    /\ home.emptyBundle
    /\ Goto(p, CASE want[p].kind \in {"auto", "init"} -> StageFrom(p, 1)
                 [] want[p].kind = "pinentry" -> "error"
                 [] OTHER -> "done")
    /\ UNCHANGED <<bundleVars, home, want, sub, kept, shellHookPresent,
                   claudeHookPresent, snap, userVars, overlap, torn>>

procVars == <<bundleVars, home, want, kept, shellHookPresent,
              claudeHookPresent, overlap, torn>>

(* Mutant of AppendIfAbsent: the marker is not looked for.                 *)
AppendAlways(p, f) ==
    /\ At(p, f, "read")
    /\ Within(p, "append")
    /\ UNCHANGED <<procVars, snap, userVars>>

(* appendIfAbsent: read, then append.  The shell's file was read before.   *)
AppendIfAbsent(p, f) ==
    /\ At(p, f, "read")
    /\ IF f # "rc" /\ sections[f] > 0 THEN Leave(p) ELSE Within(p, "append")
    /\ UNCHANGED <<procVars, snap, userVars>>

Append_(p, f) ==
    /\ At(p, f, "append")
    /\ sections' = [sections EXCEPT ![f] = @ + 1]
    /\ Leave(p)
    /\ UNCHANGED <<procVars, snap, config, settings, gpgConf>>

(* Mutant of ReadSettings: of a file with settings of the user's nothing   *)
(* but the locksmith part is taken.                                        *)
ReadSettingsOurs(p, stage) ==
    /\ At(p, stage, "read")
    /\ snap' = [snap EXCEPT ![p] = [settings EXCEPT !.user = FALSE]]
    /\ Within(p, "trunc")
    /\ UNCHANGED <<procVars, userVars>>

(* installClaudeSandbox and mergeSettings: malformed JSON counts as none.  *)
ReadSettings(p, stage) ==
    /\ At(p, stage, "read")
    /\ LET s == IF settings.json THEN settings ELSE NoSettings IN
          IF stage = "hook" /\ s.hook
             THEN Leave(p) /\ UNCHANGED snap
             ELSE /\ snap' = [snap EXCEPT ![p] = s]
                  /\ Within(p, "trunc")
    /\ UNCHANGED <<procVars, userVars>>

(* Mutant of ReadGpgConf: the binary is taken for granted.                 *)
ReadGpgConfBlind(p) ==
    /\ At(p, "gpg", "read")
    /\ snap' = [snap EXCEPT ![p] = gpgConf]
    /\ Within(p, "trunc")
    /\ UNCHANGED <<procVars, userVars>>

(* ApplyGPGPinentry, if the binary is there.                               *)
ReadGpgConf(p) ==
    /\ At(p, "gpg", "read")
    /\ IF dest[Pinentry] = None
          THEN Leave(p) /\ UNCHANGED snap
          ELSE /\ snap' = [snap EXCEPT ![p] = gpgConf]
               /\ Within(p, "trunc")
    /\ UNCHANGED <<procVars, userVars>>

(* os.WriteFile empties the file first.                                    *)
Truncate(p) ==
    /\ \/ At(p, "config", "read") /\ config' = "empty"
          /\ UNCHANGED <<settings, gpgConf>>
       \/ At(p, "gpg", "trunc") /\ gpgConf' = NoGpgConf
          /\ UNCHANGED <<config, settings>>
       \/ (At(p, "allow", "trunc") \/ At(p, "hook", "trunc"))
          /\ settings' = NoSettings
          /\ UNCHANGED <<config, gpgConf>>
    /\ Within(p, "write")
    /\ UNCHANGED <<procVars, snap, sections>>

Written(p) ==
    /\ Leave(p)
    /\ snap' = [snap EXCEPT ![p] = NoSettings]
    /\ UNCHANGED <<procVars, sections>>

writeConfigFile(p) ==
    /\ At(p, "config", "write")
    /\ config' = "ours"
    /\ UNCHANGED <<settings, gpgConf>>
    /\ Written(p)

(* The user's line becomes a comment, and one of ours is in effect.        *)
ApplyGPGPinentry(p) ==
    /\ At(p, "gpg", "write")
    /\ gpgConf' = [user |-> IF snap[p].user = "none" THEN "none" ELSE "comment",
                   ours |-> 1]
    /\ UNCHANGED <<config, settings>>
    /\ Written(p)

installClaudeSandbox(p) ==
    /\ At(p, "allow", "write")
    /\ settings' = [snap[p] EXCEPT !.json = TRUE, !.allow = TRUE]
    /\ UNCHANGED <<config, gpgConf>>
    /\ Written(p)

mergeSettings(p) ==
    /\ At(p, "hook", "write")
    /\ settings' = [snap[p] EXCEPT !.json = TRUE, !.hook = TRUE]
    /\ UNCHANGED <<config, gpgConf>>
    /\ Written(p)

Target(p) == CASE flow[p] = "config" -> {"config"}
               [] flow[p] = "gpg" -> {"gpgConf"}
               [] flow[p] \in {"allow", "hook"} -> {"settings"}
               [] OTHER -> {}

Tears(p) == torn' = IF sub[p] = "write" THEN torn \cup Target(p) ELSE torn

(* Mutant of StageFails: an error is printed and the next stage begins.    *)
StageFailsSoft(p) ==
    /\ \E i \in 1 .. Len(Stages) : At(p, Stages[i], sub[p])
    /\ Tears(p)
    /\ Leave(p)
    /\ snap' = [snap EXCEPT ![p] = NoSettings]
    /\ UNCHANGED <<bundleVars, home, want, kept, shellHookPresent,
                   claudeHookPresent, overlap, userVars>>

(* A file cannot be read or written.  For the shell's file and, in init,   *)
(* for GPG's, that is a warning.                                           *)
StageFails(p) ==
    /\ \E i \in 1 .. Len(Stages) : At(p, Stages[i], sub[p])
    /\ Tears(p)
    /\ IF flow[p] = "rc" \/ (flow[p] = "gpg" /\ want[p].kind # "pinentry")
          THEN Leave(p)
          ELSE Goto(p, "error") /\ sub' = [sub EXCEPT ![p] = "read"]
    /\ snap' = [snap EXCEPT ![p] = NoSettings]
    /\ UNCHANGED <<bundleVars, home, want, kept, shellHookPresent,
                   claudeHookPresent, overlap, userVars>>

Crash(p) ==
    /\ Active(p)
    /\ Goto(p, "error")
    /\ Tears(p)
    /\ IF flow[p] = "extract" THEN ExtractCrash(p) ELSE UNCHANGED bundleVars
    /\ sub' = [sub EXCEPT ![p] = "read"]
    /\ snap' = [snap EXCEPT ![p] = NoSettings]
    /\ UNCHANGED <<home, want, kept, shellHookPresent, claudeHookPresent,
                   userVars, overlap>>

Next ==
    \E p \in Procs :
        \/ RunInit(p) \/ Select(p) \/ Consent(p)
        \/ RunUpdate(p) \/ RunConfigPinentry(p)
        \/ EmptyBundle(p) \/ ExtractBundled(p) \/ Extracting(p) \/ Extracted(p)
        \/ \E f \in Sections : AppendIfAbsent(p, f) \/ Append_(p, f)
        \/ \E stage \in {"allow", "hook"} : ReadSettings(p, stage)
        \/ ReadGpgConf(p)
        \/ Truncate(p)
        \/ writeConfigFile(p) \/ ApplyGPGPinentry(p)
        \/ installClaudeSandbox(p) \/ mergeSettings(p)
        \/ StageFails(p) \/ Crash(p)

Spec == Init /\ [][Next]_vars

-----------------------------------------------------------------------------
(* Only a user who answers "overwrite" gives up a valid configuration:     *)
(* --auto keeps it, whoever ran, failed or crashed before.                 *)
ValidConfigKept ==
    [][config = "user" /\ config' # "user" =>
          \E p \in Procs : /\ flow[p] = "config" /\ want[p].kind = "init"
                          /\ want[p].action = "overwrite"]_vars

(* What the user had in settings.json and gpg-agent.conf is still there,   *)
(* after any number of commands that failed or crashed between two files.  *)
(* (A file that was being written, or was malformed, may be lost.)         *)
UserDataKept ==
    ~overlap /\ (\A p \in Procs : Active(p) => sub[p] # "write") =>
        /\ home.settings.json /\ home.settings.user /\ "settings" \notin torn
              => settings.user
        /\ home.gpgConf.user # "none" /\ "gpgConf" \notin torn
              => gpgConf.user # "none"

(* Nothing is added to a file twice, however often init is run, unless two *)
(* run at once.                                                            *)
OneSectionEach == ~overlap => \A f \in Sections : sections[f] <= 1

(* gpg-agent is never told to run a program that is not there.             *)
GpgHasPinentry == gpgConf.ours > 0 => dest[Pinentry] # None

(* What is installed can run: the binaries are whole, whoever crashed      *)
(* while writing them, and gpg-agent is pointed to one that is there.      *)
InstallationWorks == TypeOK /\ InstalledWhole /\ GpgHasPinentry

(* Nothing the user had is lost to a command that failed halfway, and      *)
(* running it again does not add to what it had done.                      *)
UserFilesKept == UserDataKept /\ OneSectionEach

(* Only what the user agreed to give up is replaced, be it a binary or the *)
(* configuration.                                                          *)
ConsentRespected == OverwrittenOnlyIfAgreed /\ ValidConfigKept

Delivered(p) ==
    /\ ~kept[p] => config = "ours"
    /\ ~home.emptyBundle =>
          \A e \in {Pinentry} \cup {want[p].plugins[i] : i \in DOMAIN want[p].plugins} :
              Whole(e, dest[e]) \/ (dest[e] # None /\ <<p, e>> \notin agreed)
    /\ Claude(p) => /\ sections["claudeMd"] > 0
                    /\ want[p].sandbox => settings.json /\ settings.allow
                    /\ want[p].hook => settings.json /\ settings.hook
    /\ Codex(p) => /\ sections["agentsMd"] > 0
                   /\ want[p].sandbox => sections["policy"] > 0

(* An init that ends without an error has done what it was asked, also if  *)
(* one before it failed or crashed anywhere.                               *)
InitDelivers ==
    [][\A p \in Procs :
          /\ want[p].kind \in {"auto", "init"}
          /\ flow[p] # "done" /\ flow'[p] = "done"
          /\ ~overlap
          => Delivered(p)']_vars
=============================================================================

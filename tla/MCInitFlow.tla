----------------------------- MODULE MCInitFlow -----------------------------
(***************************************************************************)
(* Small instances of InitFlow for TLC: homes as users have them, and the  *)
(* commands that are run in them, with the answers that matter together.   *)
(***************************************************************************)
EXTENDS InitFlow, TLC

CONSTANTS p1, p2, pinentry, gopass, keychain

Want(kind, prompting) ==
    [kind |-> kind, prompts |-> prompting, action |-> "continue",
     plugins |-> <<gopass>>, gpg |-> FALSE, agents |-> {}, sandbox |-> FALSE,
     shell |-> FALSE, hook |-> FALSE]

All == [Want("init", TRUE) EXCEPT !.action = "overwrite", !.gpg = TRUE,
        !.agents = {"claude"}, !.sandbox = TRUE, !.shell = TRUE,
        !.hook = TRUE]

(* --auto: no questions, all that is detected.                             *)
Auto == [All EXCEPT !.kind = "auto", !.prompts = FALSE, !.gpg = FALSE,
         !.agents = {"claude"}]

(* The existing configuration is kept; the answer to GPG's question is yes *)
Keeps_ == [All EXCEPT !.action = "continue", !.agents = {"codex"}, !.shell = FALSE]

(* --force, and a plugin whose bundle entry is corrupt.                    *)
Force == [Want("force", FALSE) EXCEPT !.plugins = <<keychain>>]

(* config pinentry --auto                                                  *)
Configures == [Want("pinentry", FALSE) EXCEPT !.gpg = TRUE, !.plugins = <<>>]

MCWants == {All, Auto, Keeps_, Force, Configures}

Fresh == [binaries |-> None, config |-> "none", settings |-> NoSettings,
          gpgConf |-> NoGpgConf, emptyBundle |-> FALSE]
Used == [binaries |-> Other, config |-> "user",
         settings |-> [json |-> TRUE, user |-> TRUE, allow |-> FALSE, hook |-> FALSE],
         gpgConf |-> [user |-> "active", ours |-> 0], emptyBundle |-> FALSE]
Broken == [binaries |-> Current, config |-> "invalid",
           settings |-> [json |-> FALSE, user |-> TRUE, allow |-> FALSE, hook |-> FALSE],
           gpgConf |-> NoGpgConf, emptyBundle |-> FALSE]

MCHomes == {Fresh, Used, Broken, [Fresh EXCEPT !.emptyBundle = TRUE]}

Symmetry == Permutations(Procs)
=============================================================================

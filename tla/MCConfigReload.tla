--------------------------- MODULE MCConfigReload ---------------------------
(***************************************************************************)
(* Small instances of ConfigReload for TLC: two or three vault types, and  *)
(* configurations that add, drop and swap them.  Two vaults of one         *)
(* configuration share a type.                                             *)
(***************************************************************************)
EXTENDS ConfigReload, TLC

CONSTANTS gopass, keychain, bitwarden, vaultA, vaultB, sighup, rpcCall, watcher, r1

MCConfigs == {vaultA :> gopass,
              vaultA :> gopass @@ vaultB :> gopass,
              vaultA :> gopass @@ vaultB :> keychain,
              vaultB :> keychain}

(* From the first to the second configuration a reload launches two        *)
(* plugins.                                                                *)
TwoNewConfigs == {vaultA :> gopass,
                  vaultA :> keychain @@ vaultB :> bitwarden}
FaultConfigs == TwoNewConfigs \cup {vaultB :> gopass @@ vaultA :> keychain}
=============================================================================

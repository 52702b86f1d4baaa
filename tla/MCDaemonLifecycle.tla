-------------------------- MODULE MCDaemonLifecycle --------------------------
(***************************************************************************)
(* Small instances of DaemonLifecycle for TLC: one or two vaults.          *)
(***************************************************************************)
EXTENDS DaemonLifecycle, TLC

CONSTANTS gopass, keychain, personal, other

TwoTypes == personal :> gopass @@ other :> keychain
=============================================================================

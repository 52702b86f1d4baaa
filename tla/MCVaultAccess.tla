---------------------------- MODULE MCVaultAccess ----------------------------
(***************************************************************************)
(* Small instances of VaultAccess for TLC.                                 *)
(***************************************************************************)
EXTENDS VaultAccess

MCCurrent == <<1, 2, 0>>

Info(name, platforms, min, max) ==
    [name |-> name, platforms |-> platforms, min |-> min, max |-> max]

(* One made for exactly this version and one for older ones only; and one  *)
(* for newer ones, whose maximal version is malformed and which does not   *)
(* run on this platform.                                                   *)
MCInfos ==
    [t \in {"gopass", "keychain"} |->
        IF t = "gopass"
        THEN {Info(t, {"darwin", "linux"}, <<1, 2, 0>>, <<1, 2, 0>>),
              Info(t, {"darwin", "linux"}, <<0, 9, 0>>, <<1, 1, 9>>)}
        ELSE {Info(t, {"linux"}, <<1, 2, 1>>, Suffixed)}]

Vault(type, store, service) == [type |-> type, store |-> store, service |-> service]
Key(vault, path) == [vault |-> vault, path |-> path]
Config(vault, key, servers) ==
    [vaults |-> [v \in {"v"} |-> vault], keys |-> [k \in {"k"} |-> key],
     servers |-> servers]
Server(command, url) == [command |-> command, url |-> url, transport |-> None]

MCConfigs ==
    {Config(Vault("keychain", None, service), Key("v", path), {}) :
         service \in {None, "s"},
         path \in {<<"a">>, <<"t", "a">>, <<"t", "a", "b">>}} \cup
    {Config(Vault("gopass", "s", None), Key(v, <<"t", "a">>), {Server(TRUE, url)}) :
         v \in {"v", "w"}, url \in {None, "u"}} \cup
    {Config(Vault("other", None, None), Key("v", <<>>), {})}

Ask_(key, vault, path) == [key |-> key, vault |-> vault, path |-> path]

MCRequests == {Ask_("k", None, <<>>), Ask_("x", None, <<>>),
               Ask_(None, "v", <<"a">>), Ask_(None, "gopass", <<"a">>),
               Ask_(None, "v", <<>>)}

(* With a percent sign, a line feed, and what looks like an escape; and    *)
(* with white space at both ends.                                          *)
MCPins    == {<<37, 51, 48, 10, 37>>, <<32, 37, 65, 9>>}
MCTexts   == {<<65>>, <<10, 37>>}
MCPrompts == {<<80, 37>>}
=============================================================================

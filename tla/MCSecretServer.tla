--------------------------- MODULE MCSecretServer ---------------------------
(***************************************************************************)
(* Small instances of SecretServer for TLC.  One vault type, "gopass", and *)
(* one configured vault of it, "work", with a store of its own.            *)
(***************************************************************************)
EXTENDS SecretServer, TLC

CONSTANTS s1, s2, r1, r2, r3, gopass, work, token, p1, p2, storeOpt

MCNames == {gopass, work}
MCAliases == {token}
MCPaths == {p1, p2}
MCCacheKeys == {<<gopass, p1>>, <<gopass, p2>>, <<work, p1>>, <<work, p2>>}
MCOpts == {NoOpts, storeOpt}

(* Every ID starts with the empty prefix; the other prefixes are longer    *)
(* than what the IDs have in common.                                       *)
MCPrefixes == {Sids} \cup {{s} : s \in Sids}

OneConfig == {[vaults |-> work :> [type |-> gopass, opts |-> storeOpt],
               keys   |-> token :> [vault |-> work, path |-> p2]]}

(* A reload takes the store from the vault, and drops the key.             *)
MCConfigs ==
    OneConfig \cup {[vaults |-> work :> [type |-> gopass, opts |-> NoOpts],
                     keys   |-> <<>>]}

ByAlias(a) == [alias |-> a, vault |-> Absent, path |-> Absent]
ByPath(v, p) == [alias |-> Absent, vault |-> v, path |-> p]

(* Path p1 is read from the vault, whose store a reload changes, and from  *)
(* the root store, by the vault type.                                      *)
MCQueries == {ByAlias(token), ByPath(work, p1), ByPath(gopass, p1)}
AllQueries == MCQueries \cup {ByPath(work, Absent)}

AnySession == {{}}
SomeRestricted == {{}, {token}}

MCTTLs == {0, 1}
OddTTLs == {-1, 1}

SidSymmetry == Permutations(Sids)
RequestSymmetry == Permutations(Buffers)
Symmetry == SidSymmetry \cup RequestSymmetry
=============================================================================

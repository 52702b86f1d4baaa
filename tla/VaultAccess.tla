---------------------------- MODULE VaultAccess ----------------------------
(***************************************************************************)
(* One request for a secret that is not cached, from the reference in the  *)
(* configuration to the vault and back: config.Validate, resolveKey, the   *)
(* plugin found in the registry, the plugin's provider (plugins/gopass,    *)
(* plugins/keychain), and GnuPG's dialogue with locksmith-pinentry when    *)
(* gopass needs a passphrase.                                              *)
(*                                                                         *)
(* SecretServer has the session's and the cache's side of a request.  A    *)
(* path is the sequence of its segments between slashes.                   *)
(***************************************************************************)
EXTENDS VaultHealth, Pinentry

CONSTANTS
    Configs,   \* configuration files, valid or not
    Requests,  \* what clients ask for
    NoRef,     \* no request is being served
    Error      \* a reference that does not resolve

None == "none"

(* The vault types are those this repository has plugins for.  The empty   *)
(* name stands for a part of a reference that is not given.                *)
ASSUME AccessAssumption ==
    /\ Types \subseteq {"gopass", "keychain"}
    /\ NoRef \notin Configs \cup Requests
    /\ Requests \subseteq [key : STRING, vault : STRING, path : Seq(STRING)]
    /\ \A cfg \in Configs :
          /\ None \notin DOMAIN cfg.vaults \cup DOMAIN cfg.keys
          /\ \A v \in DOMAIN cfg.vaults :
                cfg.vaults[v] \in [type : STRING, store : STRING, service : STRING]
          /\ \A k \in DOMAIN cfg.keys :
                cfg.keys[k] \in [vault : STRING, path : Seq(STRING)]
    /\ Error \notin [type : STRING, path : Seq(STRING),
                     opts : [store : STRING, service : STRING]]

VARIABLES
    file,    \* the configuration the request is resolved in, or NoRef
    req,     \* the request
    access,  \* how far it is
    server,  \* the plugin process that serves it
    cause,   \* the error that ended the last request, where it arose
    code     \* the status the client was given

accessVars == <<file, req, access, server, cause, code>>
vars == <<healthVars, pinentryVars, accessVars>>

-----------------------------------------------------------------------------
(* Mutant of ValidKey: keychain paths may be nested.                       *)
ValidKeyNested(cfg, key) ==
    /\ key.vault \in DOMAIN cfg.vaults
    /\ key.path # <<>>

(* Config.Validate, for one key.                                           *)
ValidKey(cfg, key) ==
    /\ key.vault \in DOMAIN cfg.vaults
    /\ key.path # <<>>
    /\ cfg.vaults[key.vault].type = "keychain" => Len(key.path) <= 2

(* Config.Validate, for one MCP server.                                    *)
ValidServer(s) ==
    /\ s.command # (s.url # None)
    /\ s.transport \in {None, "auto", "sse", "http"}

ValidConfig(cfg) ==
    /\ \A k \in DOMAIN cfg.keys : ValidKey(cfg, cfg.keys[k])
    /\ \A s \in cfg.servers : ValidServer(s)

NoOpts == [store |-> None, service |-> None]

OptsOf(vault) == [store |-> vault.store, service |-> vault.service]

ByAlias(cfg, r) ==
    IF r.key \in DOMAIN cfg.keys
    THEN LET key == cfg.keys[r.key]
             vault == cfg.vaults[key.vault]
         IN  [type |-> vault.type, path |-> key.path, opts |-> OptsOf(vault)]
    ELSE Error

(* Mutant of ByPath: the vault's store and service are not passed on.      *)
ByPathNoOpts(cfg, r) ==
    IF r.vault = None \/ r.path = <<>> THEN Error
    ELSE IF r.vault \in DOMAIN cfg.vaults
         THEN [type |-> cfg.vaults[r.vault].type, path |-> r.path, opts |-> NoOpts]
         ELSE [type |-> r.vault, path |-> r.path, opts |-> NoOpts]

(* A vault the configuration does not name is taken for a vault type.      *)
ByPath(cfg, r) ==
    IF r.vault = None \/ r.path = <<>> THEN Error
    ELSE IF r.vault \in DOMAIN cfg.vaults
         THEN [type |-> cfg.vaults[r.vault].type, path |-> r.path,
               opts |-> OptsOf(cfg.vaults[r.vault])]
         ELSE [type |-> r.vault, path |-> r.path, opts |-> NoOpts]

resolveKey(cfg, r) == IF r.key # None THEN ByAlias(cfg, r) ELSE ByPath(cfg, r)

(* The service and the account: the path's own service, or the vault's, or *)
(* the default; what follows the first slash is the account.               *)
parseKeychainPath(path, service) ==
    IF Len(path) > 1 THEN [service |-> <<path[1]>>, account |-> Tail(path)]
    ELSE [service |-> IF service # None THEN <<service>> ELSE <<"locksmith">>,
          account |-> path]

gopassPath(path, store) == IF store # None THEN <<store>> \o path ELSE path

(* What the provider of the target's type looks up.                        *)
Item(target) ==
    CASE target = Error -> Error
      [] target # Error /\ target.type = "keychain" ->
             <<"keychain", parseKeychainPath(target.path, target.opts.service)>>
      [] OTHER -> <<target.type, gopassPath(target.path, target.opts.store)>>

-----------------------------------------------------------------------------
(* Errors: one of sdk/errors and one of gRPC carry a status; any other is  *)
(* plain.                                                                  *)
NoError        == [kind |-> "none", code |-> "OK"]
Plain          == [kind |-> "plain", code |-> "OK"]
VaultError(c)  == [kind |-> "vault", code |-> c]
StatusError(c) == [kind |-> "status", code |-> c]

HasStatus(err) == err.kind \in {"vault", "status"} /\ err.code # "OK"

(* What a gRPC server makes of a handler's error on the wire.              *)
Wire(err) ==
    CASE err = NoError  -> NoError
      [] HasStatus(err) -> StatusError(err.code)
      [] OTHER          -> StatusError("Unknown")

(* The daemon's side of a connection to a plugin.                          *)
GRPCClient(err) == IF HasStatus(err) THEN VaultError(err.code) ELSE err

(* Mutant of GetSecretError: a provider's status is not passed on.         *)
GetSecretErrorLost(err) == IF err = NoError THEN err ELSE StatusError("Internal")

(* What Server.GetSecret returns for its provider's error.                 *)
GetSecretError(err) ==
    CASE err = NoError  -> NoError
      [] HasStatus(err) -> StatusError(err.code)
      [] OTHER          -> StatusError("Internal")

(* What the providers return: gopass's failure is a plain error, unless it *)
(* found no terminal to ask at; the stub of the keychain fails at once.    *)
GopassErrors == {NoError, Plain, VaultError("Unauthenticated")}

KeychainErrors ==
    IF Platform = "darwin"
    THEN {NoError} \cup
         {VaultError(c) : c \in {"NotFound", "PermissionDenied", "Internal"}}
    ELSE {Plain}

Gone    == StatusError("Unavailable")
TooLate == StatusError("DeadlineExceeded")

Causes == GopassErrors \cup KeychainErrors \cup {Gone, TooLate}

-----------------------------------------------------------------------------
AccessTypeOK ==
    /\ file \in Configs \cup {NoRef}
    /\ req \in Requests \cup {NoRef}
    /\ access \in {"idle", "resolve", "call", "gopass", "dialogue", "keychain"}
    /\ server \in Procs \cup {NoProc}
    /\ cause \in Causes

TypeOK == HealthTypeOK /\ PinentryTypeOK /\ AccessTypeOK

Init ==
    /\ HealthInit
    /\ PinentryInit
    /\ file = NoRef
    /\ req = NoRef
    /\ access = "idle"
    /\ server = NoProc
    /\ cause = NoError /\ code = "OK"

Target == resolveKey(file, req)

(* Bound: VaultHealth, VaultList and a request with its dialogue do not    *)
(* overlap.  All they share is the registry, which none of them writes.    *)
OneAtATime == access = "idle" /\ agent = "idle" /\ call = "none"

(* A configuration that Validate refuses is never served from.             *)
Request ==
    /\ OneAtATime
    /\ \E cfg \in Configs : ValidConfig(cfg) /\ file' = cfg
    /\ req' \in Requests
    /\ access' = "resolve"
    /\ code' = "OK" /\ cause' = NoError
    /\ UNCHANGED <<healthVars, pinentryVars, server>>

(* The reference is not needed any more.                                   *)
Resolved == file' = NoRef /\ req' = NoRef

(* The handler returns: the client is given the status of its error.       *)
Reply(origin, err) ==
    /\ access' = "idle"
    /\ cause' = origin
    /\ code' = Wire(err).code
    /\ server' = NoProc
    /\ Resolved

Unresolved ==
    /\ access = "resolve"
    /\ Target = Error
    /\ Reply(Plain, Plain)
    /\ UNCHANGED <<healthVars, pinentryVars>>

(* plugins.Get; the plugin is called without the registry's lock.          *)
Provider ==
    /\ access = "resolve"
    /\ Target # Error
    /\ IF Target.type \in Types /\ plugins[Target.type] # NoProc
       THEN /\ server' = plugins[Target.type]
            /\ access' = Target.type
            /\ Resolved
            /\ UNCHANGED <<cause, code>>
       ELSE Reply(Plain, Plain)
    /\ UNCHANGED <<healthVars, pinentryVars>>

(* The provider's error crosses the plugin's connection to the daemon, and *)
(* then the daemon's to the client.                                        *)
PluginReturns(err) == Reply(err, GetSecretError(GRPCClient(Wire(err))))

Answering == server \in alive \ hung

(* keychainError: whatever the Security framework answers.                 *)
Keychain ==
    /\ access = "keychain" /\ Answering
    /\ \E err \in KeychainErrors : PluginReturns(err)
    /\ UNCHANGED <<healthVars, pinentryVars>>

(* gopass show: GnuPG has the passphrase, or gopass fails without it.      *)
GopassShows ==
    /\ access = "gopass" /\ Answering
    /\ \E err \in GopassErrors : PluginReturns(err)
    /\ UNCHANGED <<healthVars, pinentryVars>>

(* GnuPG asks for it; its agent serves one dialogue at a time.             *)
GopassAsks ==
    /\ access = "gopass" /\ Answering
    /\ AgentStarts
    /\ access' = "dialogue"
    /\ UNCHANGED <<healthVars, file, req, server, cause, code>>

GopassEnds ==
    /\ access = "dialogue" /\ Answering
    /\ AgentForgets
    /\ PluginReturns(IF agent = "ok" THEN NoError ELSE Plain)
    /\ UNCHANGED healthVars

(* The plugin was killed by a reload, or died, with the call under way:    *)
(* the connection to it fails the call.                                    *)
PluginGone ==
    /\ access \in {"keychain", "gopass", "dialogue"} /\ server \notin alive
    /\ Reply(Gone, GetSecretError(GRPCClient(Gone)))
    /\ UNCHANGED <<healthVars, pinentryVars>>

(* The client's deadline passes.  The plugin kills gopass; a dialog that   *)
(* is open stays until GnuPG's agent gives it up.                          *)
Abandoned ==
    /\ access # "idle"
    /\ Reply(TooLate, TooLate)
    /\ UNCHANGED <<healthVars, pinentryVars>>

(* The agent's dialogue ends with nobody waiting for it.                   *)
DialogueForgotten ==
    /\ access # "dialogue"
    /\ AgentForgets
    /\ UNCHANGED <<healthVars, accessVars>>

AccessSteps ==
    \/ Unresolved \/ Provider \/ Keychain \/ GopassShows \/ GopassAsks
    \/ GopassEnds \/ PluginGone

Next ==
    \/ PluginNext /\ UNCHANGED <<pinentryVars, accessVars>>
    \/ CallNext /\ UNCHANGED <<pinentryVars, accessVars>>
    \/ /\ OneAtATime
       /\ CallStarts("health") \/ CallStarts("list")
       /\ UNCHANGED <<pinentryVars, accessVars>>
    \/ PinentryNext /\ UNCHANGED <<healthVars, accessVars>>
    \/ Request
    \/ AccessSteps
    \/ Abandoned
    \/ DialogueForgotten

(* The daemon, the plugin, gpg-agent and pinentry run; plugins that hang   *)
(* are timed out; the user answers a dialog or closes it.                  *)
Fairness ==
    /\ WF_vars(CallNext /\ UNCHANGED <<pinentryVars, accessVars>>)
    /\ WF_vars(PinentrySteps /\ UNCHANGED <<healthVars, accessVars>>)
    /\ WF_vars(AgentSteps /\ UNCHANGED <<healthVars, accessVars>>)
    /\ WF_vars(UserSteps /\ UNCHANGED <<healthVars, accessVars>>)
    /\ WF_vars(AccessSteps)

Spec == Init /\ [][Next]_vars /\ Fairness

-----------------------------------------------------------------------------
(* An alias stands for its vault and path: asking for those directly leads *)
(* to the same item of the same vault, with its store and its service.     *)
SameItem ==
    (file # NoRef /\ req.key \in DOMAIN file.keys) =>
        LET key == file.keys[req.key]
            direct == [key |-> None, vault |-> key.vault, path |-> key.path]
        IN  Item(Target) = Item(resolveKey(file, direct))

(* In a configuration that was accepted every alias resolves, and one in a *)
(* keychain to a service and an account that is a single segment.          *)
AcceptedKeysResolve ==
    (file # NoRef /\ req.key \in DOMAIN file.keys) =>
        /\ Target # Error
        /\ Target.type = "keychain" =>
               Len(parseKeychainPath(Target.path, Target.opts.service).account) = 1

(* The status of an error where it arises.                                 *)
StatusAt(err) == CASE err = NoError -> "OK"
                   [] err = Plain   -> "Unknown"
                   [] OTHER         -> err.code

(* The client is told how its request failed, wherever that was: the       *)
(* status the error had there, through every conversion on the way, and    *)
(* Unknown only if it had none.  The client derives its hint from it.      *)
StatusSurvives == access = "idle" => code = StatusAt(cause)

(* An alias of an accepted configuration leads where its entry says.       *)
AliasesResolve == SameItem /\ AcceptedKeysResolve

(* The passphrase dialogue is faithful both ways: the user reads what      *)
(* gpg-agent asks, where the dialog has a place for it, and gpg-agent gets *)
(* what the user types, but for white space at its end.                    *)
DialogueFaithful == PinAsTyped /\ DialogAsWanted

(* What the daemon says of its plugins is true: the warnings it keeps, and *)
(* the status of a call that failed.                                       *)
ReportsTrue == TypeOK /\ WarningsFit /\ StatusSurvives

(* A request ends, unless its plugin hangs: each dialogue of GnuPG with    *)
(* locksmith-pinentry ends too, every question answered or the pipe        *)
(* closed.                                                                 *)
AccessReturns == (access # "idle") ~> (access = "idle" \/ server \in hung)

(* No call of the daemon waits for ever for a plugin, or for a user.       *)
EveryCallReturns == CallsReturn /\ AccessReturns
=============================================================================

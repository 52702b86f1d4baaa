# TLA+ specification of locksmith

Locksmith is a daemon that gives AI agents access to secrets. A client opens a
*session* with a lifetime, presents its ID when it asks for a secret, and the
daemon fetches the secret from a vault *plugin* (a child process per vault
type), caches it in the session and answers. The configuration is reloaded
while the daemon runs. Command-line tools around the daemon start it when it is
needed, proxy MCP servers with secrets injected, and install shell hooks.

This directory holds TLA+ modules that model the daemon, its command line, the
MCP proxy and runner, init and the vault plugins, TLC
configurations that check them on small instances, and TLAPS proofs of the main
results for every value of the constants. `PROJECT.json` maps every definition
to the source lines it models.

    tlc -workers 2 -config SecretServer_safety.cfg MCSecretServer
    tlapm SecretServerProofs.tla        (and ConfigReloadProofs, DaemonLifecycleProofs,
                                         DaemonSocketProofs, McpRunnerProofs,
                                         McpProxyProofs, InitFlowProofs,
                                         VaultAccessProofs)

## Inventory

| Component | State | Operations | Hard behaviour | Module |
|---|---|---|---|---|
| Session store `internal/session` | `sessions`: ID to expiry time, allowed keys, cached secrets | Create, Get, Delete (full ID or mask), CacheSecret, GetCachedSecret, List, Cleanup | Get releases its lock between lookup and removal; cached slices are shared and zeroed in place | `SessionStore` |
| gRPC handlers `internal/daemon/server.go` | none of their own; the configuration pointer | GetSecret, SessionStart/End/List, VaultList/Health, ReloadConfig | GetSecret is many critical sections; concurrent misses; late caching; cache key without vault options | `SecretServer`, abstract: `SecretService` |
| Plugin manager `internal/plugin/manager.go` | `plugins`: type to client process | Discover, Launch, Get, Types, Kill, KillOne | failed launches must not leak processes; plugins die unnoticed | `PluginManager` |
| Hot reload `internal/daemon/daemon.go` | configuration pointer, `reloadMu`, watcher and debounce timer | Reload, syncPlugins, watchConfig | three triggers at once; several launches of which one fails; requests in the middle | `ConfigReload` |
| Daemon life cycle `internal/daemon/daemon.go`, `internal/cli/serve_cmd.go` | socket, gRPC server, goroutines, signal channel | Start, Stop, WaitForShutdown, exit | Start and Stop in different goroutines; one-place signal channel; exit while others run | `DaemonLifecycle` |
| Plugin compatibility `internal/semver`, `internal/plugin/compat.go` | none | Parse, Compare, Validate | boundaries of ranges, malformed versions | `Compat`, with each plugin: `VaultHealth` |
| Configuration file `internal/config` | none | Validate, lookup of keys and vaults | a path that is valid for one vault type and not for another; the reference by alias and by vault | `VaultAccess` |
| CLI sessions `internal/cli` | an environment variable | get, session start, ensure, end | masked IDs compared with full ones; sessions that a restart ends | `CliSessions` |
| Autostart and the socket `internal/cli`, `internal/daemon` | the socket file | _autostart, serve, Start, Stop | dial, then spawn; a socket left by a crash; two daemons at once | `DaemonSocket` |
| MCP secrets `internal/mcp/secrets.go` | session ID, one mutex | ensureMCPSession, Fetch, refresh | concurrent fetches that find the session expired; the daemon restarts | `McpSecrets` |
| MCP proxy and transports `internal/mcp` | channels, streams, cached credentials, transport in use | Connect, Send, Close, the main loop, readers and forwarders | retry after 401, fallback from HTTP to SSE in mid-conversation, cut streams, draining | `McpTransport`, `McpProxy` |
| MCP local runner `internal/mcp/runner.go` | child process, pipes, signal channel | start, pump, forward signals, wait | any of child, stdout, stdin and signals may end first | `McpRunner` |
| Bundled binaries `internal/bundled` | installed files, a temporary file per entry | Extract: compare, ask, write, verify, rename | crash in mid-write; two extractions share the temporary file | `BundleExtract` |
| Init flow, shell hook `internal/initflow`, `internal/shellhook` | the user's files | init, config pinentry, plugins update: one edit after the other | a failure or crash between or within edits; running it again | `InitFlow` |
| Pinentry `internal/pinentry` | the Assuan dialogue | SETDESC, SETPROMPT, GETPIN, CONFIRM, BYE... | percent encoding; cancelled, closed and dying dialogs | `Pinentry` |
| Vault plugins `plugins/`, SDK `sdk/` | none | GetSecret, HealthCheck, Info over go-plugin | hangs, deaths, statuses across two connections | `VaultAccess`, `VaultHealth` |


How they interact: gRPC runs each handler in a goroutine. Handlers call the
session store (one mutex, held per operation), load the configuration through
an atomic pointer, and call plugins through the manager (its own mutex). The
main goroutine is in `Start`; `WaitForShutdown` runs in another and calls
`Reload` and `Stop`; the cleanup loop and the configuration watcher are two
more. Plugins are child processes; the user edits the configuration file and
signals the daemon at any moment. Command-line tools reach the daemon through
its socket. `mcp run` is a process of its own, with one goroutine that reads the
client, and one per stream, forwarder, pipe and signal relay.

## What is modelled

**`SessionStore`** has the store's map (`sessions`), one action per critical
section of `Store.mu`. Secrets are *buffers*: the slice that a plugin call
returned is shared by the cache and by the reply, so a wipe in the cache is
seen by the reply. `mem[b]` tells what became of a buffer: never filled,
filled, put in a cache, zeroed. Contents are not modelled beyond that. Session
IDs are random; `issued` remembers them because `generateID` never repeats one.
`now` is the clock. `Prefixes` stands for the prefix match of `getByMask`: an
ambiguous prefix matches nothing.

**`SecretServer`** extends it with the handlers. A `GetSecret` request is a
program counter `pc[r]` with one value per place where the goroutine can be
interrupted:

| `pc` | code | next step |
|---|---|---|
| `get` | `Store.Get`, under the read lock | `LookupFound`, `LookupMissing` |
| `check` | expiry compared outside the lock | `CheckExpiry` |
| `expire` | second lock of `Get`, looks the ID up again | `ExpireSession` |
| `resolve` | `resolveKey` with the configuration loaded at that moment | `ResolveOk`, `ResolveError` |
| `cache` | `GetCachedSecret` | `CacheHit`, `CacheMiss` |
| `plugin` | `plugins.Get` | `PluginFound`, `PluginMissing` |
| `fetch` | the plugin call, no lock | `FetchOk`, `FetchError` |
| `store` | `CacheSecret` | `StoreSecret` |
| `send`, `sending` | gRPC encodes the response, no lock | `SendFirst`, `SendRest` |

The copy of the slice into the response is two reads, so that a concurrent
wipe can come before, between or after them: the outcomes "zeros", "torn" and
"secret" are what the data race can produce. `SessionStart`, `SessionEnd`, the
cleanup loop and the swap of the configuration are single actions. A query is a
key alias or a vault and a path; `resolveKey` is translated in full.

**`SecretService`** is what clients are promised, with no store, cache, clock
or locks: sessions open once and end once, a request is admitted only while its
session is open, and is answered from a fetch of an admitted request of the
same session; another request's fetch is used only while the session is open.
`SecretServer` implements it under the mapping `Service` (property
`ServiceSpec`).

**`PluginManager`** has the registry and the live processes apart: a process
may die and stay registered. Every method holds `Manager.mu` throughout and is
one action. **`ConfigReload`** extends it with `Reload` and its three triggers
(a step per lock, load, launch, kill and store), the file on disk, the watcher's
debounce, plugin binaries that may be missing, and requests that resolve, get
their plugin and call it in three steps. `dirty` merges the events in the
channel and the timer: both end in one later `Reload`.

**`DaemonLifecycle`** extends `PluginManager` with one daemon process: the main
goroutine in `Start`, the signal goroutine in `WaitForShutdown` and `Stop`, the
watcher, requests in flight, a signal channel of one place, and the exit of the
process, which stops every goroutine where it is. Of a reload it keeps only that
plugins come and go; `ConfigReload` has the details.

**`DaemonSocket`** has what several daemon processes share: the path of the
socket. `st[p]` follows `Start` and `Stop` (remove what is there, launch
plugins, listen, chmod, serve, close), which may fail at each step. Closing a
listener removes the path, whoever's socket it is by then. `contested`
remembers that a daemon was spawned while another was there.

**`CliSessions`** is one shell with its `LOCKSMITH_SESSION`, running `get` and
`session start`, `ensure` and `end` against a daemon in which sessions expire,
and which restarts. An ID is the session and whether it is masked, since that is
what comparisons turn on. **`McpSecrets`** adds the fetcher of an `mcp run`
started from that shell: `ensureMCPSession`, then `Fetch` by several goroutines,
a step each for taking the mutex, the call, the refresh and the second call.
**`McpRunner`** composes it with the local runner: `rpc` is the main goroutine
(first line, variables, start of the child, copy of its stdout, wait), `pump`
and `relay` the other two; lines are counted, the channel of signals has one
place, and a signal that finds it full is dropped. The session may fail to
start, reading the first line may, and so may writing to the client
(`copyFailed`), which ends the runner with an error or by SIGPIPE.

**`McpTransport`** has the three transports. `Send` runs in the main loop, whose
place is `pc`: connect, open the stream, wait for the endpoint, post, resolve
credentials, read the body. `ch` holds the message channels, of capacity `Cap`,
and `fw` and `hand` the forwarders of the automatic transport. The server may
accept or refuse each request, ask for credentials, answer or not, send
notifications, and cut any stream; `PostLost` is an answer that never comes
for a request that may have been carried out, `PostRedirected` one with a status
below 400 that the HTTP client cannot follow with the message in hand, which
`Send` takes for success. A stream reader is a goroutine of its own (`reader`):
it holds events it has received and not passed on (`got`), and in each send it
may be cancelled instead (`cancelled`), by the fallback or by the shutdown, and
drops what it holds (`dropped`). `posted`, `accepted`, `redirected` and
`answered` are history. **`McpProxy`** composes it with the main loop, the
goroutine that writes stdout, and the shutdown: close `done`, close the
transport, drain, wait.

**`BundleExtract`** extracts in several processes. A file is an inode, so that
an open descriptor writes to the installed file after a rename; its content is
the set of chunks it has. The steps are check, ask (with the sticky answers,
`--force` and no terminal), write by chunks, verify the hash and rename; each
may crash or fail, the reading of what is installed included. **`InitFlow`**
composes it with the commands that use it. `flow[p]` is the stage, in the order
of `applyInit`, `sub[p]` where the stage is in reading, truncating and writing
its file. A file is what the code looks for in it. `torn` names the files that
a crash or a failure left truncated.

**`Compat`** has versions as sequences of components, their comparison and the
checks of `CompatValidator`, against `WarnedAsDeclared`, which states what a
range means with the order of versions spelled out (`Precedes`).
**`VaultHealth`** keeps each plugin process with the warnings of its launch,
and follows `VaultHealth` and `VaultList`: the list of types, then per type a
second look into the registry and a call with a timeout. **`Pinentry`** is the
dialogue of gpg-agent and `locksmith-pinentry` over two pipes, with text as
sequences of bytes: for each of the four interfaces (osascript, zenity,
kdialog, the terminal) what it shows (`Dialog`) and what `getPassword` makes of
the text typed (`Entered`); gpg-agent and the dialog programs are external.
**`VaultAccess`** composes both with one request past the cache: `Validate`,
`resolveKey`, the registry, the provider of the gopass or the keychain plugin,
the dialogue if GnuPG asks for a passphrase, and the error on its way back,
converted three times: by the plugin's gRPC server (`Wire`), by `GRPCClient`
and by `Server.GetSecret` (`GetSecretError`). On a `Platform` other than macOS
the keychain plugin is a stub that fails.

## What the runs check

| Run | Question | Bounds | Result |
|---|---|---|---|
| `server_safety` | Do caches, replies and sessions stay consistent, and do the handlers implement `SecretService`? | 2 sessions, 2 concurrent requests, a vault whose store a reload drops, read by name, by alias and by its type, restricted or not, TTL 0 and 1, clock 0..1 | holds (1 656 666 states) |
| `server_live` | Is every request answered, every expired session dropped, and no ended one served? | 1 session, 2 requests, every kind of query, TTL -1 and 1, clock 0..2 | holds (202 040 states) |
| `server_reply` | Does a successful reply hold the secret? | as above | violated |
| `reload_faults` | What do failing launches, crashes and invalid files cost? | 3 types, 3 configurations, 2 triggers, 3 edits, 1 request | holds (1 009 398 states) |
| `reload_live` | Do edits take effect and reloads return? | 2 types, 4 configurations, 3 triggers, 2 edits, plugins that start | holds (100 296 states) |
| `lifecycle` | Are start, stop, signals and reloads safe together, and does a shutdown end? | 2 vaults, 2 requests, 1 edit, 2 SIGHUPs, signals at any time, everything may fail | holds (82 510 states) |
| `daemon_socket` | Is the daemon that serves reachable, whatever earlier ones left? | 3 processes, 5 starts, 3 crashes, stops or failures | holds (12 304 states) |
| `mcp_proxy` | Do requests and responses survive refusals, lost answers, the fallback and the shutdown? | 2 messages, 1 notification, 3 transports, channels of 1, readers that hold 1 event | holds (816 863 states) |
| `mcp_run` | Is one of two fetchers refreshing the session, is the output complete, does the runner end? | 3 sessions, 1 restart, 2 fetchers, 1 variable, 1 line, any number of signals | holds (378 620 states) |
| `mcp_ensure` | Does `session ensure` reuse the session it has? | 2 sessions, 1 fetcher, no restart | violated |
| `init` | What do crashes, failures and a second run do to the user's files? | 2 commands of 5 kinds, 3 bundle entries, one of them corrupt, 4 home directories | holds (1 406 607 states) |
| `vault_access` | Does a reference lead to the right item, passphrase and status, and does every call return? | 2 plugin types, 2 processes, 3 plugin versions at and beside the daemon's, 11 configurations, valid and not, 5 requests, 4 pinentry interfaces, 2 passphrases, 2 questions per dialogue | holds (224 141 states) |

Properties of the newer runs are conjunctions of named parts, each stated and
commented in its module: `RequestsOnce` has `AcceptedInOrder`, `NoBlindRetry`
and `SecretsOnDemand`; `ResponsesKept` has `DeliveredOnce`,
`NoneLostWhileRunning`, `HttpLosesNothing` and `ResponsesInOrder`;
`ChildServed` has `ChildHasSecrets` and `OutputComplete`; `RunnerFollowsChild`
has `RunnerEndsWithChild` and `SignalsForwarded`; `InstallationWorks` has
`InstalledWhole` and `GpgHasPinentry`; `UserFilesKept` has `UserDataKept` and
`OneSectionEach`; `ConsentRespected` has `OverwrittenOnlyIfAgreed` and
`ValidConfigKept`; `ReportsTrue` has `WarningsFit` and `StatusSurvives`;
`LeftoversContained` has `OnlyActiveLoaded` and `StrayNeverUsed`;
`AliasesResolve` has `SameItem` and `AcceptedKeysResolve`; `DialogueFaithful`
has `PinAsTyped` and `DialogAsWanted`; `EveryCallReturns` has `CallsReturn` and
`AccessReturns`. The type invariant is a part of `ChildServed`, of
`ResponsesKept`, of `InstallationWorks` and of `ReportsTrue`, and a theorem
about the daemon's modules, the runner's, and those of the proxy, init and the
vault access.

Why the bounds are enough: the hazards of the server are races of two requests
of one session, of a request with a removal, and the confusion of two sessions,
two paths or two configurations; each pair is in the instance. A clock of two
values lets a session live, expire before, during or after each step; one of
three lets a session of `server_live` be used and fill its cache before it
expires. In `ConfigReload`, `FaultConfigs` makes one reload launch two plugins,
so that the second can fail; three edits let two later reloads work on what a
failed one left. `reload_live` has plugins that start, since an edit whose
reload fails does not take effect. `MaxProcs` bounds the processes ever started
and only ends behaviours that launch again and again. In `DaemonLifecycle` two
SIGHUPs fill the channel while a reload runs.

In `mcp_proxy` the second message meets what the first left: credentials that
are cached, a stream that was cut, a transport that fell back with an answer of
the old one still in a channel; a capacity of one makes every sender wait at
some time, and one event is enough for a reader to hold it when it is
cancelled. Three sessions in `mcp_run` are the shell's, its successor and one
after a restart of the daemon, and two fetchers are enough for one of them to
find the other refreshing. Three processes in `daemon_socket` allow one to be
stopping and one dead while the third starts. In `init` two commands, the
second after the first or beside it, show every kind of repetition; homes are
fresh, used, broken, or without a bundle. The texts of `vault_access` have a
percent sign, a line feed and what looks like an escape, at the end and inside,
and one passphrase begins and ends with white space; the plugins' ranges end at
the daemon's version, just below and just above it. Two processes per plugin
are the one that is asked and its successor.

Each property of a passing run has a mutant: a definition named in
`PROJECT.json` (`...NoWipe`, `...Locked`, `...Early`) that changes one operation
as a plausible mistake would, and breaks it.

`CHECK_DEADLOCK FALSE` is given everywhere: with all requests made, all edits
done, all messages read and the clock at its bound, the modelled system has
nothing left to do; and a daemon that has exited stops.

### Fairness

`SecretServer`: a request goroutine is scheduled, its plugin call answers or
fails, and the cleanup loop runs at each tick of its ticker. `ConfigReload`: the
watcher goroutine is scheduled, a reload that holds the mutex goes on (its
launches have a timeout in go-plugin), and a goroutine that waits for `reloadMu`
gets it in the end (strong fairness: Go's mutex is starvation-free).
`DaemonLifecycle`: goroutines are scheduled, requests finish, reloads end. That
requests finish is an assumption on plugins: one that waits for a user's
authorization for ever holds `GracefulStop` for ever. `DaemonSocket`: a daemon
goes on with `Start` and with closing. `McpProxy`: the main loop, the forwarders
and the writer of stdout are scheduled; that `Send` ends rests on the client's
timeout of 30 seconds, that of the SSE endpoint on 10, and the resolver is taken
to return. `McpRunner`: each step of a `Fetch` and of the runner, strongly, as
both wait for what others hold and give back (the mutex, the child's output),
and the relay of signals. `VaultAccess`: the daemon, the plugin, gpg-agent and
pinentry run, hanging plugins are timed out, and a user answers a dialog or
closes it. No fairness is assumed of clients, of MCP servers and their
connections, of the child, of signals, edits, crashes or the clock, and none at
all in `InitFlow`.

### What the violated runs show

* `server_reply`: the reply shares the cached slice. A session end, a cleanup or
  an expired lookup between the handler's return and gRPC's copy zeroes it, and
  the client receives a success with zero bytes. `WipedOnlyWhenGone` shows that
  this is all that can happen: only the end of the own session does it.
* `mcp_ensure`: `SessionList` masks every ID, `session ensure` compares those
  with the full ID of the environment, never finds it and starts another session
  although the one it has is valid (docs/agent-integration.md:24).

Met while modelling, where the code and its documentation differ or a property
needs a condition. No run shows these; the models have the code's behaviour.

* Sessions. `AllowedKeys` is compared with cache keys, on cache hits only
  (server.go:157), so aliases given with `--keys` (session_cmd.go:55) do not
  restrict a session. The cache key is type and path (server.go:132), so two
  vaults of one type with different stores share entries, and so does one vault
  before and after a reload that changes its store: the exception
  `FetchedOtherwise` of `RightSecret`. Two concurrent misses fetch and cache
  twice, and the first slice is never wiped (the exception in
  `WipedOrReplaced`). `get` prints the masked ID of the session it started,
  which no later command accepts.
* Reload. A request may resolve in the old configuration and find the plugin
  killed for the new one. A reload whose second launch fails leaves the first
  plugin running (`stray`). It is never put in use nor killed: `Launch` refuses
  its type (manager.go:111-113), so every later reload to a configuration with
  that type fails until the daemon restarts. Two vaults of one type, which
  docs/configuration.md:168-172 shows, make `Start` fail: `loadPlugins` launches
  per vault and `Launch` refuses the second. A type whose binary was missing
  counts as loaded in the next delta.
* Life cycle. The process may end before `Stop` reaches `plugins.Kill`, and
  does when `Start` fails after a launch, which leaves plugins running
  (docs/architecture.md:50-51). A SIGTERM that finds a SIGHUP in the channel is
  dropped (daemon.go:201). A `Stop` that runs before `Start` has published the
  server stops nothing. `DrainBeforeKill` and `StoppedClean` speak of a Stop
  that found it, `StoppedClean` of one no file event comes before.
* Socket. `_autostart` dials and then spawns (autostart_cmd.go:20-21), and
  `serve` asks nobody: two daemons started at once remove each other's socket.
  The properties are about daemons that start one after the other (`contested`).
* MCP. The automatic transport fetches secrets again when it falls back, with a
  cache of its own (docs/architecture.md:124 says once). The repository's
  README says that `--transport http` keeps no long-lived GET; `Connect` starts
  one (transport_http.go:29-35). The timeout of 30 seconds counts for streams
  too and cuts those of a healthy server. A body that breaks off looks like one
  that has ended. What a forwarder or an SSE reader holds at the shutdown may
  be lost, and notifications that the old stream's reader holds when the
  automatic transport falls back are (transport_http.go:64-70, 275). A redirect
  that the HTTP client follows with a GET, or does not follow because the body
  cannot be sent again, counts as success below 400 (transport_http.go:104):
  the message is not accepted, and nobody is told (`redirected`). A signal
  before `signal.Notify` ends the runner and leaves its child.
* Pinentry. zenity and the terminal show the prompt only, not the description
  that names the key. The text typed loses white space at its end on macOS and
  line feeds elsewhere (`Entered`), so a passphrase that ends in them cannot be
  entered in a window.
* Init. The answer about GPG is acted on only if the configuration is written
  (docs/pinentry.md:36-38). A settings file that is not valid JSON is replaced
  by one with the locksmith part only (flow.go:831). An empty configuration
  left by a crash is valid, and `--auto` keeps it. Nothing keeps two commands
  apart that edit the same files (`overlap`).

## What is proved

TLAPS proves the theorems below for every value of the constants: any set of
sessions, requests, keys, vaults and configurations, any number of processes,
starts, edits, messages, events, questions and signals, any text and any
version. The proofs rest on the named assumptions: `StoreAssumption`,
`ServerAssumption`, `ManagerAssumption`, `ReloadAssumption`,
`LifecycleAssumption`, `SocketAssumption`, `SessionsAssumption`,
`FetcherAssumption`, `RunnerAssumption`, `TransportAssumption`,
`BundleAssumption`, `FileAssumption`, `FlowAssumption`, `HealthAssumption`,
`CompatAssumption`, `PinentryAssumption` and `AccessAssumption`. They say that
sets are what the code's types say, that the special values are not members of
them, and that bounds are numbers; texts are sequences of bytes, versions
sequences of numbers, and the vault types of `VaultAccess` are those of the two
plugins in the repository. TLC evaluates them on each run.

| Module | Theorem | What it says | Further assumption |
|---|---|---|---|
| `SecretServerProofs` | `TypeCorrect` | `TypeOK` | |
| | `CacheIsCoherent` | no wiped, foreign or misfiled slice in a cache | |
| | `SessionsAreIsolated` | a secret answers only the session it was fetched under | |
| | `EndedGetNothing` | a request that comes after the end of its session gets no secret | |
| | `ExpiredGetNothing` | who comes after the expiry time gets no secret | |
| | `OnlyOwnEndDamages` | only the end of its own session damages a reply | |
| | `RightSecretServed` | the secret served is of the type and path resolved, and of the vault's store and service, unless the session has fetched that path with others | |
| | `SessionEndWipes` | a cached slice is zeroed when its session ends, or was fetched again | |
| | `NoneResurrected` | a removed session's ID never becomes valid again | |
| | `ImplementsService` | the server implements `SecretService` | |
| `ConfigReloadProofs` | `ReloadTypeCorrect` | `TypeOK` | |
| | `NoProcessLost` | each running plugin is in the registry | |
| | `ActiveStaysLoaded` | the active configuration's plugins stay loaded | binaries stay installed (`MayMiss = FALSE`) |
| | `NothingLeftBehind` | what else stays loaded was launched by a reload that failed, and is never put in use | |
| | `KeptKeepProcess` | a plugin used before and after keeps its process | |
| `DaemonLifecycleProofs` | `LifecycleTypeCorrect` | `TypeOK` | |
| | `NoProcessLost` | each running plugin is in the registry, until the exit | |
| | `DrainsBeforeKill` | requests are answered before plugins are killed | |
| | `NeverCutsRequests` | no exit under a request being served | |
| | `StopsClean` | after `Stop` no plugin runs or comes back | no file event |
| `DaemonSocketProofs` | `TypeCorrect` | `TypeOK` | |
| | `AlwaysReachable` | the daemon that serves is at the path | none was started beside another |
| | `NoLaterFailure` | what a dead daemon left makes no later one fail | as above |
| `McpRunnerProofs` | `ChildIsServed` | the child has all its variables, its output is copied to the end or the failure reported; `TypeOK` | |
| | `OnlyDeadReplaced` | no fetching goroutine replaces a session that is good | |
| `McpProxyProofs` | `SentOnce` | each message accepted once and in order, no blind retry, secrets only after a refusal | |
| | `NothingLostOrTwice` | nothing reaches the client twice; until the shutdown only notifications are lost, and only those a reader holds that the fallback cancels; over HTTP no response is lost in the shutdown; in order without a fallback; `TypeOK` | |
| | `SuccessMeansAccepted` | success is reported only if the server accepted every message, or redirected it | |
| `InitFlowProofs` | `InitInvariance` | the inductive invariant below, with `TypeOK` | |
| | `InstallationAlwaysWorks` | gpg-agent's pinentry exists; an installed file is whole | for wholeness: no two processes wrote one temporary file (`clash`) |
| | `UserFilesAlwaysKept` | what the user had in his files stays there, and no section is there twice | no two commands overlapped; for the former, the file was not torn |
| | `ConsentAlwaysRespected` | another program's file is replaced only with consent | |
| | `InitAlwaysDelivers` | an `init` that ends well has done what it was asked | no two commands overlapped |
| `VaultAccessProofs` | `AccessInvariance` | the inductive invariant below, with `TypeOK` | |
| | `AliasesAlwaysResolve` | in an accepted configuration each alias resolves, to the entry that vault and path name | |
| | `DialogueAlwaysFaithful` | gpg-agent gets the passphrase typed, but for white space at its end, and the user reads the question it asked, where the interface shows it | |
| | `ReportsAlwaysTrue` | warnings are those of the plugin they are kept with, and say what its declared range says; the client gets the status that an error had where it arose; `TypeOK` | |
| | `NoPluginOmitted` | a health report has every plugin that was there throughout | |

`ConfigReloadProofs` and `DaemonLifecycleProofs` each begin with the lemmas on
the registry that they use: what `Launch`, `KillOne`, `Kill` and a crash do to
the processes.

### The arguments

*Server.* No safety property is inductive alone, because requests carry values
read earlier: the expiry time, the resolved entry, the slice. `IInv` adds what
ties those to the state:

* `StepInv`: a request past `resolveKey` has an entry and keeps it, since
  `ResolveOk` is the only step that sets one; a filled buffer's request is past
  its fetch; a reply is a filled buffer. So the entry that a cached slice was
  fetched for never changes under it.
* `TimeInv`: past the expiry check a request arrived before its session's
  expiry time, although the session may be gone since.
* `IssuedInv`: such a request's session ID was issued, so no later session has
  it. This is what makes a late `CacheSecret` harmless.

`IInvInit` and `IInvStep` show that `IInv` holds at first and is kept by every
action, with a lemma per kind of step. TLC agrees on its properties in
`server_safety`. That `EndedNeverServed` nests one `[]` in another makes its
proof one about a fixed request: `Barred` says that it is at its lookup, or
done, with a session that was removed, which each step keeps (`BarredStep`).
`SessionEndWipes` adds `WipedOrReplaced` itself, which is inductive with
`IInv`. For the refinement, `OutcomeInv` says that an outcome is known only
once the handler has returned; then each action maps to the action of
`SecretService` that it carries out (`LookupFound` admits, `FetchOk` fetches,
`CacheHit` and `StoreSecret` serve...), or to a stutter.

*Reload.* `DeltaInv` says that a reload in progress has only new types to launch
and only obsolete ones to kill, `CompleteInv` that each type of its
configuration is active, still to be launched, or loaded. So storing the
configuration keeps `ActivePluginsLoaded`, and a failed launch leaves the old
configuration, whose plugins nothing has killed yet. `TidyInv` is the converse
account of what is loaded: active, launched by the reload under way (`launched`)
or left by a failed one (`stray`). `StrayInv` says why the last is never put in
use: as long as a reload has such a type to launch its binary is there, so that
`Launch` is called for it, refuses it and ends the reload.

*Life cycle.* `DrainInv` says that requests are only in flight between `Serve`
and the end of `GracefulStop`, and that a `Stop` past it has drained, when it
found the server. `QuietInv` says that the server is published after the plugins
are loaded and the watcher started later still, so after a `Stop` that found it
only a watcher reload can start a plugin.

*Socket.* Neither property is inductive: a daemon that stops removes what is at
the path, whoever's socket that is. `Calm` is what holds as
long as no daemon was spawned beside another: at most one is starting or
listening, nothing is at the path between the removal and `Listen`, and the
path is its own from then on. `NextInv` shows that each step keeps it; a spawn
beside another daemon sets `contested` and leaves nothing to show.

*Fetcher and runner.* That `Fetch` replaces only a dead session depends on what
a goroutine saw before it waited for the mutex. `FetchInv` keeps it true: IDs
are never issued twice, so a session once seen dead stays dead; who is at the
lock has seen its own session dead; and who refreshes holds the mutex and has
compared the fetcher's session with that one, which nobody else can set
meanwhile. A hidden ID is never good. `RunnerInv` says what each place of the
main goroutine has behind it: the counts of the variables and, after the copy,
that the child's stdout is at its end or the copy has failed.

*Proxy.* `AcceptedInOrder` needs to know where the main loop is: `AcceptInv`
says that `accepted` ascends and that all that was read is settled, accepted or
redirected, without the message that is being sent or could not be. `PostInv`
rules out a blind retry: a POST with credentials was made by a transport that
has them, one over SSE only once SSE is connected, and what would be posted now
was not posted before. `AuthInv` ties the calls of the resolver to the
credentials a transport has.

*Proxy, responses.* An event goes from the stream's reader (`got`) or the body
of a response through a channel, a forwarder's hand, the second channel and the
hand of the writer to the output. `OnceInv` says that it is in one of these
places only, `SourceInv` that the server sent it, `ReceivedInv` that what was
received and not dropped is in one of them, `StopInv` that only notifications
are dropped before the shutdown, by a reader that the fallback has cancelled,
`OrderInv` that, until a switch to SSE, a place further on holds what is older.
Each step takes an event from the head of one place and appends it to the end
of the next, so one lemma on that move (`MoveInv`) serves them all. `DrainInv`
says that the shutdown drains a channel only when nobody can write to it any
more, `OutcomeInv` that success comes with everything accepted.

*Init, bundles.* Unless two processes wrote one temporary file (`clash`), it has
one writer, and what that process has written is what the file has
(`WriterInv`); and the inode being written is not the installed one
(`InodeInv`): after a rename its maker does not write to it again. So a rename
installs what the hash was compared with. `AgreedInv` says that who replaces
another program's file has asked.

*Init, files.* Unless two commands overlapped, only one is active (`AloneInv`).
`HasRead` says what the process at each stage knows of the file that it is
rewriting: between truncating and writing, what the user had is with that
process and nowhere else, which is what `SettingsInv`, `GpgInv` and `SectionInv`
say. `ConfigInv` keeps who leaves the configuration to the user told about it.

*Init, delivery.* `DeliverInv` says of a process that is alone what it has
behind it. `Extracts`: each entry of its list is still to come or settled, that
is, the bundle's, or there before and allowed to stay. `Behind`: what was
wanted at each earlier stage stands, whatever failed before this `init`. What
settings.json has stands also while the file is being rewritten: it is then in
the hands of the process (`Held`). `Progress` states what a step keeps, with a
lemma per kind of step (`NextProgress`); at the end every stage is behind
(`DeliveredAtTheEnd`).

*Vault access.* `RegistryInv` says that a process has one type and is
registered only once started, so the warnings written at a launch are no other
plugin's. `CallInv` has what a report still has to look at. For the dialogue,
requests and replies alternate (`TurnInv`), what gpg-agent wants shown has been
told or is being told (`TextInv`), and the reply on its way is what the
interface made of the typed passphrase, escaped (`PassphraseInv`);
`EnteredFits` says that this is what was typed but for white space at its end.
`StatusFacts` follows each error through the three conversions. That unescaping
gives it back is `RoundTrip`: the states of the encoder's buffer are the
encodings of the prefixes, and decoding is followed downwards from the end of
the text. A reply never holds a line break (`OneLine`). `AccessInv` says that a
request past `resolveKey` was resolved in an accepted configuration, so that
`Validate` has seen its path. `CompareIs` says that the comparison decides at
the first component that differs, which is the order `Precedes` spells out.

### What is only model-checked

Liveness under fairness is out of the prover's reach: `RequestsAnswered` and
`ExpiredSessionsRemoved` of the server, `EditsTakeEffect` and `ReloadsReturn`
of the reload, `QueuedTermShutsDown` of the life cycle, `SpawnedAnswers`,
`MainLoopReturns`, `ReceivedIsDelivered`, `FetchReturns`, `RunnerFollowsChild`
and `EveryCallReturns`. The induction theorems of the library cannot be used,
since they take an operator as a parameter; where a proof needs induction on a
number or along a text, it uses `Induction` of `VaultAccessProofs`, which
states it for sets and follows from the well-foundedness of `<` on `Nat`. The
violated runs show counterexamples, which need no proof.

## What is not modelled

* Bytes of secrets, wording of errors, logging, layout: no property is about
  them. JSON-RPC messages are numbers: the proxy does not look into them.
* Random session IDs that collide.
* Who may connect to the socket (file permissions) and peer identity.
* Parsing of YAML, of archives, of references in templates and of command lines;
  the defaults that `Load` fills in.
* gopass, the keychain, gpg-agent and the dialog programs beyond how they
  answer; white space outside ASCII, which `TrimSpace` cuts off too on macOS.
* The life of a child that outlives its runner.
* A vault type with a colon in its name, which could make two cache keys one.
* OpenCode in `init`, which differs from Codex in the name of the file, and
  files that are always written whole with the same content.
* `vault` and `reload`, which call the daemon once and print.
* Several requests at once in `VaultAccess`: that is `SecretServer`'s matter;
  what they share past the cache is the registry, and a plugin serves calls side
  by side.
* Generated code and build scripts.

## What is left

Models: a fetcher as one atomic call, which `McpSecrets` implements; several
requests at once in `VaultAccess`.

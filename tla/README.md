# Yokai in TLA+

Yokai is a daemon on a workstation that deploys LLM servers as containers on
remote GPU machines. It reaches the agent of each machine through an SSH tunnel,
keeps its configuration, deployments and recipes in JSON files, and offers an
HTTP interface to a text UI, a CLI, an MCP server and to software agents. These
modules model the parts of it whose correctness depends on the order of events:
what fails, what crashes, what overlaps, and what is still under way when the
next step begins.

## Inventory

| component | state it keeps | operations | what is hard |
|---|---|---|---|
| deployment engine `deployments/engine.go` | the record of a multi-device deployment: state, members, previously running containers, progress | Create, Start, Stop, Rollback, Test, Reconcile, all under `Engine.mu` | a journal write before and after every remote action; partial failure; crash between any two steps; agent calls that outlive the engine's patience |
| deployment store `deployments/store.go` | `deployments.json` and its copy in memory | Put, Get, FindIdempotency | a write that is reported failed after the rename made it visible |
| deployment backend `daemon/deployments.go` | none | preflight, pull, launch, inspect, stop, restart, remove over HTTP | timeouts; identity of what answers |
| daemon `daemon/daemon.go` | configuration, tunnels, the reconciliation goroutine, relayed log streams | Run, handlers, shutdown | reconciliation beside requests; configuration changed by several handlers; streams that end from either side |
| tunnel pool `daemon/tunnel.go` | one SSH tunnel per device | ConnectDevice, CloseDevice, CloseAll, Reconnect | a goroutine per device that reads shared fields between locks; closing while establishing |
| configuration `config/`, `daemon/ui_devices.go` | `config.json`, history | load, save, put, delete, reload | several handlers, one temporary file; memory and file after a failed save |
| agent recipe API `daemon/agent_recipes.go`, `agent_verify.go`, `agent_swap.go` | the recipe overlay `recipes.json` | propose, patch, validate, verify, swap | snapshots read before slow calls and written back after them |
| agent container lifecycle `agent/server.go`, `docker.go`, `deployment_launch.go` | Docker containers; two registries of barriers and the GPU admission in memory | deploy with cleanup, stop, restart, delete, logs | effects that outlive their caller; a name that passes to another container; barriers lost by an agent restart |
| launch authorization `launchauth/` | the consumed grants, the coordinator's signing key | issue, verify, consume, prune; load or create the key | single use across restarts, power losses and clock changes; several processes create the key |
| preflight `agent/deployment_preflight.go` | none | one sequence of looks at GPU, containers and sockets | the host changes between two looks |
| TensorFold supervisor `agent/tensorfold_*.go` | a record per resource, launcher processes, two fixed container names | create, stop, restart, remove, test, supervise, reconcile | processes that survive the agent; compare-and-write of records; a launcher killed while Docker works for it |
| launch files `hf/download.go`, `agent/docker.go`, `tensorfold_recipe.go` | shards, plugin assets, the pinned recipe | download, install, stage, verify | one partial file for two downloads; parts left by a crash |
| upgrade `upgrade/` | the two binaries, their backups; PID file | download, replace, roll back, find and restart the daemon | death between two renames; PIDs that were given to others |
| bootstrap `ssh/`, `daemon/ui_bootstrap.go` | agent binary, its configuration and service; the saved device | install, upgrade, restart, verify | a remote command that fails after others took effect; two of them at once |
| integrations `vscode/ claudecode/ codex/ opencode/ openclaw/` | the settings file of a tool | discover endpoints, merge, back up, replace | the user edits the same file; a crash anywhere |
| aggregator `daemon/aggregator.go` | last metrics of every device | poll all devices, relay logs | overlapping polls |
| catalogues `bkc/ docker/ hf*/`, monitoring, UI, CLI, MCP | none that outlives a request | | data and formatting |

How they interact: the UI, CLI and MCP server call the daemon over HTTP; the
daemon's handlers call the engine, the recipe API and the tunnel pool; the engine
calls agents through the backend and the tunnel, with grants it signs; the agents
call Docker. The reconciliation goroutine of the daemon calls the engine beside
the handlers. PROJECT.json lists every component, modelled or not, the lines
behind every definition, and the hazards.

What makes them correct, component by component:

- engine: no candidate container is ever forgotten; the old and the new
  generation never share the GPUs; a settled state means what it says; an
  operation returns; a restarted daemon settles what it finds.
- agent lifecycle: deletion follows an unfinished launch, restart an unfinished
  stop; one launch at a time on a GPU that must be idle; a cleanup removes its own.
- tunnel pool: one goroutine keeps the tunnel of a device; what is registered is
  served until it is closed; what is reported connected listens.
- configuration: the file can always be read and says what the daemon works with;
  a request leaves alone what it was not asked to change; every configured device has
  a tunnel.
- recipe API: validation rests on evidence; a trial ends with its request; a swap
  takes a service away only after its successor serves, and does take it away.
- launch authorization: a grant is used at most once and for what it was signed
  for; all processes sign with one key.
- preflight: what occupies a GPU or a port is the container that will give way.
- supervisor: a launcher lives only under a record that holds its node; a stop
  leaves the node clean and is not undone.
- files, binaries, settings: whoever dies where, a whole version is there.

## Modules

| module | what it models | uses |
|---|---|---|
| `DeploymentEngine` | `deployments/engine.go`, `store.go`, the backend in `daemon/deployments.go` and the agents as the engine sees them | |
| `TunnelPool` | `daemon/tunnel.go` | |
| `LogStreams` | `handleContainerLogs`, `Aggregator.StreamLogs`, the daemon's `handleLogs` | |
| `DeviceUpdates` | the requests that change `config.json`, `config.Save`, reload, restart | extends `TunnelPool`: its actions start and cancel the pool's goroutines |
| `UpdateHistory` | what became current while a device handler held its clone of the configuration (a history variable) | extends `DeviceUpdates` |
| `RecipeOverlay` | `daemon/agent_recipes.go`, `agent_verify.go`, `agent_swap.go` over `recipes/store.go` | |
| `AgentContainers` | the container handlers of the agent with barriers, admission, cleanup, and Docker | |
| `LaunchGrants` | signing, verification and the replay store of launch grants | `SingleUse` through a refinement mapping |
| `SingleUse` | what a store of consumed tokens promises (abstract) | |
| `CoordinatorKey` | `launchauth/keyfile.go`: load or create the signing key | |
| `LaunchPreflight` | `agent/deployment_preflight.go` | |
| `NativeSupervisor` | `agent/tensorfold_recipe.go` and its process groups | |
| `SelfUpgrade` | `upgrade/upgrade.go`, `restart.go`, the PID file, the daemons' own start and end | |
| `AgentInstall` | `ssh/bootstrap.go` and the handlers that save the device after it | |
| `EditorSettings` | the five integrations and `daemon/ui_integrations.go` | |
| `LaunchFiles` | `hf/download.go`, `ensurePluginAsset`, `ensurePinnedRecipe` | |
| `MC*` | the instances TLC checks | |
| `*Proofs` | the theorems | the modules they are about; `EngineSettlementProofs` builds on `DeploymentEngineProofs` |

### DeploymentEngine

| TLA+ | code |
|---|---|
| `journal` | the record in `deployments.json`; survives `Crash` |
| `dep` | the `Deployment` value the running operation carries and updates |
| `ctl` | where the operation that holds `Engine.mu` is: `op`, `pc`, members its loop still has to visit (`todo`), `candidatesSafe`, collected errors, `restartMayHaveHappened` |
| `cand`, `old` | candidate containers and the selected previous containers on the devices |
| `late` | effects that an agent accepted and that the engine saw fail; they may land at any later time |
| `booting` | the reconciliation goroutine of `Daemon.Run` is still retrying |
| `faults`, `crashes` | counters of the environment, bounded by `MaxFaults`, `MaxCrashes` |

Every operation is a sequence of three kinds of step. `Persist` is
`persistProgress` and `Store.Put`: it succeeds, fails with the old record on
disk, or fails with the new one there (the directory sync fails after the
rename). `Call` is an agent call: it succeeds, fails without effect, or fails
while the effect is still to come. `Step`/`Failed` is an inspection and the local
decision that follows, or the failure of that inspection. The label of a step is
the function's next action; one action per step, in the order of the code, so
that a crash, an exit or a late effect can come between any two.

Abstractions, all on data: device and container identities, digests, ports and
names are gone (a mismatch is a failed inspection); of `Progress` only the latest
lifecycle action is kept, which is what `unsafeStateRecoveryFor` classifies; time
is nondeterministic, so a timeout may fire whenever its wait is on. There is one
deployment of one generation: the engine's only mutex serialises deployments, and
an agent refuses the container name of a second generation while the first exists.

### TunnelPool and LogStreams

| TLA+ | code |
|---|---|
| `tunnels` | `TunnelPool.tunnels`: the goroutine whose tunnel struct is the device's entry |
| `loop` | one record per goroutine of `connectDevice`: where it is, its copy of the device, whether its context is canceled, `connected`, and the number `gen` of the client and listener its struct holds |
| `open`, `live` | listeners that accept connections, SSH sessions that carry traffic |

A step is what happens under one hold of `TunnelPool.mu`, or between two.
`keepAlive` runs its remote command under the read lock, so nothing that needs
the write lock happens while a goroutine is at `probing`. Forwarded bytes, ports
and SSH authentication are left out.

`LogStreams` counts lines. Its goroutines are the two scanners of the agent
(`scanner`), the one that closes their channel, the agent's handler, the relaying
goroutine of the daemon (`relay`) and the daemon's handler (`viewer`), which waits for
the agent's answer (`asks`) before there is a relay; `docker` is the `docker logs -f`
process. A channel send is a guard on the channel's room, a `select` two actions. The
contexts are `clientGone` (the user's request) and `hungUp` (what the agent knows of the
connection); `broken` says that the daemon reads no further, because the metrics
client's ten seconds, which include the body, are over, or the connection is lost, of
which the agent hears later. The agent may refuse the request. Containers of TensorFold,
whose tail is answered at once, are outside.

### DeviceUpdates

| TLA+ | code |
|---|---|
| `disk`, `tmp` | `config.json` and `config.json.tmp`: a configuration, empty, torn (parts of two writes) or absent |
| `cfg`, `lock` | `Daemon.cfg`; the holder of `Daemon.mu` |
| `req` | the requests: what each saves next, how far its save is, which file its descriptor is (`fd`: a file keeps being written after somebody renamed it), which tunnels it still has to close and connect |

`PutDevice`, `DeleteDevice` and `Reload` are the device handlers, which clone the
configuration and save it without a lock; `PersistDeployResult` and
`RemoveService` save under it. `OpenTmp`, `WriteTmp` and `RenameTmp` are
`config.Save`, `Apply`, `CloseTunnel`, `ConnectTunnel` are `applyConfigUpdate`.
Device contents are versions, of which some are Tailscale aliases of others.

`UpdateHistory` adds what each handler has `missed`: the devices and services that
changed between its clone (`ui_devices.go:109`) and the instant it makes the clone
current. `OthersUntouched` then says of overlapping requests that one changes the record
of another device, or of a service, only by undoing something it missed. That loss
the code does have; nothing that was current before the clone is lost.

### RecipeOverlay

| TLA+ | code |
|---|---|
| `store` | `recipes.json` and its copy in memory, which `Store.Put` changes together |
| `svc`, `saved` | `Daemon.cfg.Services` in its order, and what of it is in `config.json` |
| `box` | containers by device and name; Docker keeps the name unique |
| `late` | launches the daemon saw fail and the agent goes on with |
| `req` | the requests: `rec` is the copy of the recipe that the handler read and will put back, `prev` the service `serviceOnDevice` returned, `made` that a trial was started |
| `evidence`, `adopted`, `stray` | history: gates and trials passed, containers put into service, containers nobody will remove |

A configuration is known by its fingerprint; a failed verification changes only
`LastVerify`, which is left out, but puts its copy back all the same. The
self-host guard is left out because the caller may override it. Two handlers
interleave between any two of: read, gate, deploy, probe, persist, stop, put, remove.

### AgentContainers

| TLA+ | code |
|---|---|
| `docker` | what `docker inspect` finds under a name: ID, provenance of its group, running or not |
| `accepted`, `stopping` | `docker run` and `docker stop` that Docker carries out whatever became of the caller |
| `launchGate`, `stopGate` | `coordinatedCandidateLaunches` and `containerStops`, in the agent's memory |
| `admission` | `qwenGPUAdmission` |
| `task` | the handlers: deploy with its cleanup, and stop, restart, delete, by name or ID, of members or not |
| `cut`, `unguarded` | history: launches before an answered deletion, launches whose barrier ended too early |

An ID is the number of the launch, so a name that passes to another container is
seen. `AgentEnds` empties the memory and leaves Docker at work.

### LaunchGrants, SingleUse, CoordinatorKey

`store` is the directory of reservations: per grant none, a file that was created, one
that was written, or one that survives a power loss (`kept`), as the steps of
`ReplayStore.Consume` make them, each of which may fail.
`request` holds what a handler has read: its grant, its time. The clock moves,
and may be set back. `SingleUse` is the promise; the mapping takes the launches
begun for the uses of a token. `CoordinatorKey` has one action per step of
`LoadOrCreateSigningKey` for any number of processes: load, create with `O_EXCL`,
write, load again.

### LaunchPreflight

`host`, `tenants`, `listener` change at any time; `preflight` keeps what was
already read: the inventory of containers, the process IDs that `nvidia-smi` lists
(`gpu`), those of them whose cgroup was read (`read`), the holders of each port's
sockets and the container the request named (`exact`). A process is known by its holder;
the ID of one that ended may be anybody's when its cgroup, or `docker top`, is read.
Several sockets may be in the way of an address (`SO_REUSEPORT`, or a wildcard beside
it). Only the pinned Qwen3.8 deployment looks at the GPU, and it is the one modelled.

### NativeSupervisor

`record` is the file of a resource, `memory` the process table of the manager,
`launchers` and `strays` the live launchers and what survived of their process
groups, `arriving` containers that Docker has accepted, `onNode` the two fixed
names. `job` is where a request, the supervision or a goroutine that waits for a
launcher stands, and whether the record it read is still `fresh`: `CompareAndWrite`
writes only then. The mutex is held over the steps the code holds it over. Agent
ends and starts keep the files, launchers and containers.

### SelfUpgrade

`installed` and `backup` are the two binaries and their `.old` files by version;
`upgrade.at` is the step of the command, with one action per rename.
`process`, `pidFile` and `listening` are what `restart.go` can see; daemons boot,
write the PID file, serve, stop, drain and return beside it, and foreign programs
take the PIDs and the port that become free; one that is `alike` has an argument
`daemon`, which is all `isDaemonArgv` asks for. A process that ended counts as gone.

### AgentInstall

`upload` is `/tmp/yokai.new`; `binary`, `agentConfig` and `unit` are per mode (system or
user); `agent` is who has the port, `stack` the token the monitoring stack scrapes with,
`known` the daemon's record of the device, `working` the operations: bootstraps of the
daemon and of the command line (`cli`), and upgrades. Every remote command is a step
that may fail, and `BreaksOff` may leave it undone, done, or done in part. An operation's
number is its binary and its token. `cutShort` and `staleStack` are history: the modes
whose binary an install that broke off was the last to touch, and whether a bootstrap
from the command line replaced the token without the stack.

### EditorSettings

`settings`, `copy` and `draft` are the file, its `.yokai.bak` and its `.tmp`, told
by what the user wrote (`own`), the endpoints (`yokai`) and OpenCode's former
format. Of what the user writes, some is `Clashing` (keys and providers Yokai has for its
own) and some `Comments`; each tool's `...Added` says which of these it takes away. `configure` is a request: discovery (poll, probe), read, migration,
backup, open, write, rename. `answering` changes while it probes, and the user
edits at any time.

### LaunchFiles

A file has a size and the parts that really were written, so that a writer whose
file was truncated by another leaves a hole. `prep` is a preparation with its
descriptor. The three kinds of file share the variables and differ in the order
of the steps: a shard is appended to `.partial` and renamed, an asset is written in
its place, the recipe is staged in a directory of its own under the manager's lock.

## Runs

A run marked ✗ ends in the counterexample described under divergences. Runs that
check several modules draw a `part` once: each behaviour is a behaviour of one
module, and the others stand still.

| run | instance | what it shows |
|---|---|---|
| `engine_safety` | head recipe, two selected old containers, 3 faults, 2 crashes, exits and removals behind the engine's back | nothing orphaned, exclusive cutover, settled states true, answers durable, stops settled, promoted groups kept, reservation outlives the head |
| `engine_live` | ordinary recipe, 2 faults, 2 crashes, fairness | every operation returns; a restarted daemon settles its record |
| `engine_lost_stop` ✗ | 1 fault, 1 crash | a rolled back deployment has no accepted stop under way |
| `engine_swallowed_write` ✗ | 1 fault, 1 crash | reconciliation ends only with nothing left to repair |
| `connections` | tunnels: 2 devices, 2 goroutines, 2 faults, 1 `Reconnect`; logs: channels of one line, 2 lines, which may be too long for either scanner, a refusal, a lost connection; fairness | one goroutine per device, entries served, connected tunnels listen, devices come back, canceled goroutines end; log streams end on both sides |
| `updates` | 2 devices, 2 contents, 2 services, one request at a time; 1 device and 1 service, 2 requests at a time; both with failed save and restart; 2 devices and 2 services, 2 requests at a time | file readable and current, devices served, others untouched by overlapping requests; what is saved under the lock is what the daemon works with |
| `updates_torn` ✗ | 2 requests | the file can be read |
| `updates_unserved` ✗ | 3 requests, two at a time | every configured device is served |
| `recipes_second_swap` ✗ | 1 device, 1 handler | between requests a device runs one service |
| `agent` | containers: 2 names, 2 groups, 2 handlers, 2 launches, 2 mutations, agent restart; grants: 2 grants, 2 handlers, clock up to 4, 1 fault; key: 2 processes; preflight: 2 containers, 1 process, 2 ports with any sockets, until it answers; supervisor: 1 head, 1 worker, 2 requests, 2 launches, 2 mishaps | the properties of the five modules of the agent, `LaunchGrants` implements `SingleUse` |
| `supervisor_unclean` ✗ | the supervisor alone | a released launch has left no container |
| `operations` | recipes: 2 recipes, 2 configurations, 2 devices, 2 handlers, 3 requests, 1 fault; upgrade: 2 PIDs, 3 processes, 2 runs, 2 faults; install: 2 operators, 3 operations (of the daemon or the command line), 2 faults; settings: 5 tools, 2 addresses, three kinds of user content, 2 requests, an edit, a crash (three of these in all); files: 3 preparations at a time of 4, 2 pieces, 2 faults | the properties of the five modules |

An invariant that ends in `Safety` (or `SettledStates`, `AloneSettled`,
`StopsSettled`, `OthersUntouched`) is a conjunction of named parts, each stated with
its comment in the module; TLC reports the part that fails.

Why the bounds are enough. Engine: two members distinguish the first, the last
and the head, and two roles are what multi-device recipes have; three faults let
a rollback fail, be retried and meet one more; two crashes let the recovery of a
crash crash. Tunnels: two goroutines are one that is canceled late and its
successor; goroutines of two devices share only the lock, so faults on top of a fault
or of `Reconnect` come with one device (`FewFaults`). Logs: with buffers of one line
every send can block, and a second line meets a full channel. Updates: a file is torn
by two writers, a change lost by two handlers; the third request meets what they
left; requests that follow each other share four between them, failed saves and
restarts included, and the second device has one content (`OneAtATime`). Where requests
on two devices overlap, the pool's goroutines stand still and saves do not fail
(`TwoDevices`): what is undone by whom depends on the order of clones and swaps alone.
Recipes: two
handlers with three requests validate, patch and swap, with stale copies in between.
Containers: a launch, its successor under the same name, mutations and the agent's end,
three of them (`FewMutations`), meet each barrier from both sides; the proof covers
every other number. Grants: a second grant of the same device, a clock that
passes expiry and pruning, a fault between two steps. Supervisor: two requests beside
the supervision and two waiting goroutines, with five requests, launches and mishaps
in all (`FewAsks`). Upgrade: a second run meets what the first left; three processes
are the old daemon, a stranger that takes its PID and the new one (runs and faults:
three, `FewUpgrades`). Install: overlaps come in pairs and operations and faults are
three (`FewOperations`). Settings: three of two requests, an edit, an endpoint that
comes or goes and a crash, in any order (`FewSettings`). Files: two overlapping preparations and a
third after them. In the modules with theorems the proofs do without the bounds.

Deadlock is checked in none of the runs: a rolled back record is final, a pool
whose devices are closed has nothing to do, and the requests of an instance are
bounded.

Conditions in the properties. `RolledBackSettledOnce` and `PromotedSettled` say
what holds while at most one call or write failed and nothing crashed; with more,
`engine_lost_stop` shows the first to fail, and the second fails in the same way
from Start. `ReconciledUnlessUnwritten` is what `engine_swallowed_write` leaves: the
lost write of a failed Start is the only way to end the loop early.
`StoppedIsQuiet` holds if Docker gives up a restart with its caller
(`RestartOutlivesCaller = FALSE`). `EntryIsServed` and `ConnectedListens` are
claimed without `Reconnect`, which only tests call. `AloneSettled`
is claimed of one request at a time, as its two halves fail otherwise (the two ✗ runs of the
updates). `OthersUntouched` is claimed of requests in any order, and excepts undoing
what became current after the handler had cloned the configuration. `DeletedStaysGone` excepts launches whose barrier ended before Docker was
done (the agent ended, or the cleanup gave up). `StoppedIsClean` is what
`supervisor_unclean` leaves. The settings and the installation are claimed to be
whole as long as no two requests were in the file, or on the host, at once; the
observations below say what happens otherwise. Of the settings `UserSettingsKept` excepts
what the package overwrites by intent (`Overwritten`). `InstalledWhole` excepts the part
that an install which broke off left in the agent's place, and `ScrapeTokenAgrees` a stack
whose token a bootstrap from the command line has replaced. `RestartTakesEffect` supposes
that the process that was stopped was the only daemon alive when it was looked for.
The parts of `PreflightSafety` except a process that ended between two looks, and ask of
a port that one of its sockets be the container's. `AgentLetsGo` excepts a handler that
finds its channel closed before it looks at the end of its request.

### Fairness

`FairSpec` of the engine. Weak fairness of the engine's steps: every call and
write has a timeout and returns. Weak fairness of `ReadyTimeout`: `waitReady` has
a deadline. Weak fairness of `Landing`: an agent finishes what it accepted or
gives it up (detached launches and stops have timeouts of their own). Strong
fairness of `Reconciliation`: the goroutine tries again every ten seconds and
`sync.Mutex` hands the lock to a waiter that has starved for a millisecond, so it
gets the engine although requests keep taking it. The twenty-minute budget of the
goroutine is not modelled: `ReconciliationEnds` says it settles the record if it
may go on, not that it does so in time.

`PoolFairness`. Strong fairness of each goroutine's steps: goroutines run, dials
have a timeout, the ticker ticks, a waiting writer stops new readers of an
`RWMutex`, and the keepalive's command comes back (it has no deadline in the code: a
connection that hangs for ever is outside the model). Strong fairness of the branch
that ends `keepAlive`: a Go `select` with several ready cases picks one at random, so
a done context is not passed over for ever. Callers are under no fairness.

`LogFairness`. Weak fairness of each goroutine that can run, and of `TimesOut`, the
timeout of the client. Docker, the container, the user, the agent's acceptance of the
request, the loss of a connection and the agent's hearing of it are under none.

## Divergences

What the ✗ runs show, each against a statement of the repository quoted in
PROJECT.json:

- `engine_lost_stop`: a retried rollback overwrites the mark that a stop may be in
  flight before it uses it; the restored service is stopped after the rollback.
- `engine_swallowed_write`: the recovery of a failed start counts as done although its
  journal write failed.
- `updates_torn`: two saves share one temporary file; a rename publishes what the
  other has half written.
- `updates_unserved`: updates adjust the tunnels after they gave up the lock; a
  device that is configured again can be left without a tunnel.
- `recipes_second_swap`: the second swap onto a device stops the container before
  the last one again and leaves the last one running.
- `supervisor_unclean`: the reconciliation looks for containers before it fences
  the launcher and not after; one created in between stays under a stopped record.

Seen while modelling, kept as conditions of properties or notes under "hazards":

- Engine and recipes: a canceled restart that Docker completes starts a member of a
  stopped group; a PATCH changes the configuration of a validated recipe and leaves
  it validated; a verification puts a copy back over what others wrote meanwhile; a
  recipe swapped onto a second device takes the first one's record.
- Tunnels and updates: a listener opened after its device was closed stays open; of
  two concurrent device requests the later applies a clone without the earlier one's
  change (what `missed` excepts in `OthersUntouched`), which is lost in memory and on
  disk; a goroutine of a removed device registers its tunnel late.
- Log streams: the relaying goroutine blocks for ever on its full channel when the
  user has left; every stream, `yokai services logs --follow` (README.md:213) too,
  ends after the ten seconds of the metrics client; the agent's handler may wait for a
  `docker logs` nobody kills, where architecture/06-agent-api.md:433 says "Stream ends
  when the connection closes (client disconnects or operation completes)".
- Supervisor: a launch proven ready between the look at its deadline and the stop is
  stopped all the same; a restart that overlaps a removal may write the removed
  record again.
- Upgrade: after a death between the renames a second run says "already latest" and
  repairs nothing; with a second daemon starting, "Daemon restarted" may be reported
  while an old one answers; off Linux the PID file is never trusted. On Linux
  `daemonPIDLooksOwned` takes any program with an argument `daemon` for the daemon, and
  without a PID file to trust whoever has the port is signalled: restart_linux.go:53
  says "so a recycled PID from a stale pidfile is never terminated".
- Preflight: a socket of somebody else beside one of the container passes with it; a
  process that ended lends its ID to the container or takes one from it.
- Installation: with a disabled unit of the user beside a service of the system the
  upgrade restarts the user's; overlapping bootstraps may both succeed and save the
  wrong token; without systemd the new agent is started half a second after the old
  one was asked to end. A bootstrap from the command line saves a new token and neither
  touches the monitoring stack nor the note that it is installed (cli/devices.go:301-313):
  until the next upgrade the stack scrapes with the old one.
- Settings: OpenCode's migration rewrites the file before there is any backup; two
  requests at once can tear the file, and with a crash the backup; a user's edit made
  while a request holds an older copy is lost; the model, environment and providers
  that Yokai sets are overwritten, and comments dropped, and the next request writes
  `.yokai.bak` anew, so that what the first one overwrote is in neither file after the
  second; OpenCode and OpenClaw refuse a file with comments; VS Code never drops an endpoint; an
  empty `config.toml` or a JSON `null` leaves a nil map that is written to.
- Files: of two overlapping downloads one that fails can leave a file with a hole and
  its full size, which later launches accept; so is an asset whose write broke off; a
  death inside `writeRecipeEnvironment` leaves a file that every later create rejects.

## Proofs

All theorems hold for every value of the constants that satisfies the named
assumptions of the module they are about, the `...Assumption` each declares
(`UpgradeAssumption`, `PreflightAssumption` and `SettingsAssumption` also say that there
are finitely many PIDs, containers and services).

`DeploymentEngineProofs`: `TypeCorrect`, `NothingOrphaned` and
`CutoverIsExclusive` follow from `Invariance`: `Spec => []IInv`,
`IInv == TypeOK /\ Custody /\ Cutover`. `NoOrphan` is not inductive by itself: an
operation writes its own copy `dep` over the journal, so the copy must not forget
a candidate either, and while a launch is called the intent must already be
durable. `Custody` says this. `CutoverExclusive` needs to know at which labels an
old container may run: `Cutover` ties the labels of Create and rollback, with the
members their loops still have to visit, to what may exist, and says that a
promoted or failing record leaves no selected container running. Each lemma takes
one group of steps (write, call, local decision) and the step theorem goes through
the actions.

`EngineSettlementProofs` builds on `IInv` with a second inductive invariant in two
parts. `Book` is about records only: which state the journal and the operation's copy
have at each stage (`Stages`), which operations get there (`Callers`), and what a
readiness poll has seen of the members it passed (`Observed`). `AnswersAreDurable`,
`RunningWasObserved`, `PromotedIsKept` and `ReconciledAtRest` follow from it, the
last two by going through the steps that write a state (`StateWritten`).
`Nodes` ties the steps to the containers: a launch that may still land belongs to a
record that will be rolled back (`LaunchesLate`), a rollback that met no error has
left no candidate (`Emptied`), so `RolledBackIsClean`; and the worker of a head recipe
is removed only while every removal before it has succeeded (`Reserved`), so
`HeadIsOutlived`, for the launch order that `bkc/multi_device.go:271` demands of such
a recipe (worker first). `StatesAreSettled` needs a third part, `Quiet`: the members
a Stop, or the cleanup of a failed Start, has passed without an error do not run
(`Halted`). That is where its hypothesis `~RestartOutlivesCaller` comes in, and only for
`StoppedIsQuiet`: a restart that lands after its caller gave up undoes what was
halted. The other two parts of `SettledStates` are theorems without it.

`ConnectionsProofs` holds those of `TunnelPool`, of `DeviceUpdates`, whose handlers call
the pool, and of `LogStreams`, where `LogsAreTyped` needs only that a user who has not
opened a stream has no relay (`AskedFirst`). Of the pool, `PoolIsSafe` states all of `PoolSafety`. `OneLoop` follows from
`PoolInvariance`, whose addition is that every goroutine that runs without having
been canceled is the one registered for its device. `EntriesServed` adds that what is
registered is not canceled and has passed its registration, as long as `Reconnect`
was not called. `ConnectedListens` needs `Opened`: a goroutine that is connected and
not canceled, or about to be connected, has an open listener of its own.

Of the handlers, `UpdatesInv` holds for requests in any order: `Daemon.mu` is held by a service request
that is still saving and by nobody else (`LockHeldWhileSaving`), and nobody swaps the
configuration meanwhile, so what is saved is current: `UpdatesAreSafe`. It carries the
invariant of the pool through the handlers and through a restart: `PoolStaysSafe`
states `PoolSafety` of the composition. `OthersAreUntouched` is about requests that
overlap in any way: `HistoryInv` says that the clone a handler will swap in differs from
the configuration only in what the request changes and in what it has `missed`, and
each step that makes something else current adds it to that (`HistoryStep`).
`AloneInv` says what holds while at most one request is served, of which the two
violations show that overlapping ones break it. `Filed` follows the file and its
temporary copy through a save and its failures. `Tunneled` says that a configured device has a
tunnel unless its request still has to connect it, and that a tunnel that will be closed
will also be connected. `SerialSettles` is the theorem for any number of such requests,
failed saves, crashes and restarts; `AloneSettles` states the property of the run, whose
specification is the same with three instances side by side.
`FileNamesAssumption` only says that what stands for an empty, torn or missing file
and for a free lock is no configuration and no handler.

`RecipeOverlayProofs`: `OverlayTyped` needs, beside the types, what the label of a
request says of its kind and device. `EvidenceIsReal` says of every copy a handler
may put back what the property says of the store (`Copies`): evidence only grows,
so an old copy stays backed however late it is put.

Of the containers, in the same module: `TrialsEnd` and `ServingIsKept` follow from `Safe`. What a
request holds is running, in no other hand and not in service, because Docker
refuses a name in use (`Custody`); so tearing a trial down takes no service away. A
recorded service has a container, and what `serviceOnDevice` returned stays in
service. `Kept` is the heart of `DeviceKeepsServing`: where a service runs, one runs
that no swap at its stop step has noted, since a swap gets to that step only by
putting another container into service, one that no earlier swap can have noted.
`RecipeIsSafe` joins the parts of `RecipeSafety`.

`LaunchProofs`: `GrantInv` says what a request that passed the check still
knows when it acts. Its time is at most `Lifetime` behind the latest the clock has
shown (`ClockBounds`), so a reservation that is pruned belongs to a grant that no
request can still present. The reservation of a request that is past the check in the
store is there (`OwnersRecorded`); the request is alone under the lock (`LockHeld`) and
the only one for its grant (`OneOwner`); a launch leaves its reservation `kept`
(`SpentRecorded`).
`GrantsAreSafe` is the invariant, `GrantsImplementSingleUse` the refinement: each step
is a `Use` or a stutter.

The module also proves `KeyIsOne` of `CoordinatorKey`. `KeyIsShared` becomes inductive with `Written`:
as long as somebody writes, the file is the part it created, and nobody else writes,
so no holder can be contradicted.

Of the preflight it proves `PreflightIsSafe`. `Seen` says what was read and stays true
while the host changes: each process whose cgroup was read was the owner's in the
inventory, or has ended (`ReadOwned`); of the sockets of every port that is done one was
of the container identified for it, or of a holder that has ended (`PortPassed`); and
ended holders do not come back. `OwnerFacts` turns the count
of one into the one container.

`AgentContainersProofs`: `ContainersAreSafe`, `CleanupIsCareful`, `StopsSettleFirst` and
`MembersKeepTheirOwnApi` follow from `ContInv`, which TLC has checked on the
instance of `agent`. What a deletion answers must stay true although Docker
goes on with launches whose handlers are gone. Launches are numbered as they register
and a number is one launch's, whether it is a handler, something Docker has accepted
or a container (`OwnNumbers`). A grouped launch holds the barrier of its name until
it ends (`Barred`), and Docker owes a container only to a handler at work or to a
launch in `unguarded` (`Owed`); so a deletion that has waited for the barrier it
found is followed by higher numbers only (`Overtaken`). A handler that was given an ID
speaks of one launch, whose container never changes its group once Docker has created
it (`Named`), so what was checked is still true when it acts. `StopsBarred` ties a
stop nobody may kill to its barrier: a restart asked for later waits for it.

`OperationsProofs` is about sequences of commands and file operations that may break
off at any one of them. `SelfUpgrade`: `UpgradeIsSafe` and `PairKept` follow from
`UpgradeInv == UpgradeTypeOK /\ FilesInv /\ RestartInv`. `Phase`, in `FilesInv`, says at
every step of the command where each binary of the old pair is; a rollback that
fails once weakens what is known of the places and not of the copies. From it an
installation that ends by itself ends whole. `RestartInv` says that daemons of the old
binary were all seen when the command looked, since with the new binary in place no
old one starts, and that what it stopped is gone; so if that was the only daemon seen,
the daemon that has the port is new. A foreign program that is stopped in its place, or
takes the port, breaks none of this; it is the premise that fails then.

`AgentInstall`: `InstallIsSafe` and `UpgradesRunNew` follow from `InstallInv`, which TLC
has checked on the instance of `operations`. Operations that have not overlapped are one
at a time, so `Held` and `Fits` state the invariant as that one sees it, and every step
of an operation is shown to keep the two (`ToInv`, `EndsKeep`, `BreaksKeep`). What is
installed was uploaded by the same operation and whole (`Uploads`); a part in the agent's
place is the remains of an install that broke off (`PartsAreCut`). On a host with one
kind of service, `Own`, the agent that runs is of that kind and the operation works on
it (`AgentIsOwn`, `WorksOnOwn`). A bootstrap that has written the configuration and not
saved the token is the only one that may let the two differ (`TokenKept`); what it
will save is what it wrote and, once verified, what the agent takes (`Tells`).
`Replaces` ties the binary in place, and after the restart the one that runs, to the
upgrade, and `Settled` and `Scrapes` the stack to the record and to what an operation
will save of it.

`LaunchFiles`: `FilesAreSafe` follows from `LaunchFilesInv`. The hard part is several
preparations of one file that truncate each other's work. `Mended`: while nothing has
failed, each part that is missing is one that somebody who has the file open has still
to write, so when all are done none is. `Sound` covers preparations that do not overlap,
after faults as well, and `Checked` the recipe, which is in its place only when all of
it was staged.

`EditorSettings`: `SettingsAreSafe`, `OnlyAnsweringAreNamed` and `RunningAreNamed` follow
from `SettingsInv`, which TLC has checked on the instance of `operations`. `SearchOK`
holds of every request: what it has still to ask and what it found are two orders of
different services, everything found answered since the request began, and a service that
answered all the time is in one of the two. What a request relies on in the file, it can
rely on only alone: while no two were in it (`OneInFile`), `Guarded` says at each step that
what it will write holds what the user wrote but what it overwrites, that copy and draft are what it put
there, and that its descriptor is still open on the draft. A rename moves the descriptors
of all other requests; that they are not in the file makes it harmless.

`NativeSupervisorProofs`: `SupervisorIsSafe` and `StopsStay` follow from `SupervisorInv`,
which TLC has checked on the instance of `agent`. Its part about the host (`HostOK`) is
what the property says, with three additions: a head's record always has a launch, the
environment is that of the last one, and what Docker still has to create comes from a
launch that was killed while it asked for it. `JobOK` says what each actor relies on at
its step. Whoever stops holds the mutex and has the record at "stopping", and once it
has fenced, no process of the launch is left (`StopOK`), which is why a look at the
nodes after it means something. Whoever launches holds the mutex and has the newest
number (`LaunchOK`). An observation is made without the mutex, and what it saw is
still the record if it is still fresh (`ReadOK`). A step under the mutex, or while it is
free, ages the reading of everybody else (`ExclusiveKeeps`); one that takes processes
or containers away leaves the host in order if every launch that loses its record is
orphaned or gone (`ContainmentKeeps`, `Released`).

`NoFileAssumption`, `MissingAssumption` and `AbsenceAssumption` say of a constant that
stands for the absence of a value only that it is not one of the values;
`SettingsAssumption` says it of the files that are missing, blank or mixed.

Only model-checked: the liveness properties (fairness and ENABLED are beyond the
provers used); of the engine `StopsSettled`. None of the models contains a recursive
operator.

## Not modelled

Model and container catalogues, compose files, memory estimates, agent metrics, the
text interface, the CLI and the MCP server compute, format or forward and keep no
state between requests. Of the modelled components these are left out: HTTP
encoding and validators' rules; settings and deploy history; pulling images and the
arguments of `docker run`; signatures and encodings of grants (a grant that does not
verify is one for another subject); download and checksum of a release; host keys and
authentication over SSH, `CleanupDevice` (nothing calls it); the supervisor's probes
and log reading; the names and limits of models beside an endpoint; searching on
Hugging Face. The aggregator's polls replace the metrics of a device as a whole every
few seconds; only its log relay is modelled. There is no real time: no property says
how long anything takes.

## Plan

Next, in this order:

1. `DeploymentLifecycle`: the abstract life of a deployment (absent, transitional,
   serving, quiet, gone), implemented by `DeploymentEngine`; the refinement first as a
   property of `engine_safety`, then as a theorem.
2. `AgentContainers` and `DeploymentEngine` composed: what the engine assumes of a
   `Call` with `BarrierOpen`, shown of the agent's handlers.
3. Metrics polls: a late answer over a newer one, and service reconciliation after it.
4. Theorem: `StopsSettled` of the engine.

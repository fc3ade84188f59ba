# Verification of the PharosVPN client for OpenWrt

TLA+ modules that model this repository (the `caravel-owrt` command, its procd
service, its rpcd backend and its LuCI views), TLC configurations that check
them on small instances, and TLAPS proofs of the properties that matter most
for every value of the constants.

Run a check with `tlc -config <cfg> <module>` and a proof with
`tlapm <module>.tla`, in this directory. `PROJECT.json` lists the runs, the
source lines of every definition, the mutants that show each property can
fail, the hazards, and the disagreements found between the code and its text.

## 1. The system

| Part | Source | State it keeps | Operations |
|---|---|---|---|
| Tunnel routing | `cmd/caravel-owrt/connect.go`: `connect`, `configureNetwork`, `Close`, `routeTo`, `isDefaultRoute` | the kernel's main routing table, `t.undo` in memory | bring-up, one `ip` command at a time; teardown |
| Worker process | `connect.go`: `cmdConnect`, `stats`; `state.go`: `writeState`, `clearState` | device `awg0`, `t.vt`, `/var/run/pharosvpn/state.json` | launch, first record, refresh every 2 s, wait for a signal, clear, close |
| Status command | `state.go`: `readState`, `processAlive`, `cmdStatus` | none; reads the state file and probes the PID | `status` |
| Profile store commands | `main.go`: `cmdImport`, `cmdSync`, `cmdRemove`, `cmdList` | `/etc/pharos/profiles/<name>{.pharos,.synced,.pharosid}` | import, sync, rm, list |
| Dial-spec resolution | `connect.go`: `specFromConfig`, `specFromProfile`, `resolveProfileSpec`, `loadProfileBytes` | none | from the flags to a `dialSpec` |
| inspect, command line | `main.go` | none | decode a profile and answer the pickers; dispatch |
| LuCI backend | `usr/share/rpcd/ucode/pharos` | uci `pharosvpn.main`, staging files | status, list, inspect, import, sync, remove, getconfig, setconfig, connect, disconnect |
| Service | `etc/init.d/pharosvpn`, `etc/config/pharosvpn` | uci, `rc.d`, procd's instance | start, stop, reload, respawn |
| Connection view | `view/pharos/connection.js` | `current`, three pickers, `inspect` calls under way | choose, inspect, connect, poll |
| Profiles view | `view/pharos/profiles.js` | inputs, the list on the page | upload, sync, remove, poll |
| Firewall seed | `etc/uci-defaults/99-pharos-firewall` | uci `network`, `firewall` | one run at first boot, repeated if it failed |

How they interact. LuCI calls rpcd over ubus; rpcd shells to the binary for
everything about profiles and status, and commits uci and runs the init script
for `connect` and `disconnect`. The init script makes of the uci selection a
procd instance that runs `caravel-owrt connect`; procd respawns it. The worker
and `status` share only the state file and the PID in it. Workers share the
kernel's device name and routing table. Commands share the profile directory.
There is no lock in the repository: what order there is comes from rpcd (one
call at a time), the exclusive device name `awg0`, `unlink`/`O_TRUNC`, and the
order of deferred calls.

What is hard: the teardown order against longest-prefix routing; failure of any
`ip` command half way through; SIGKILL at any moment, after which only the
kernel cleans up; an uplink that changes under an established tunnel; a restart
that launches a worker while the old one is still leaving; the refresh goroutine
that no one joins; a state file rewritten in place under its readers; sidecar
files truncated and written apart from the profile they speak of; the retry budget
of procd against the old worker's device and a router that is not ready; calls whose
steps fail unnoticed; pickers filled by answers that arrive in any
order; names picked from one revision of a profile and resolved against another;
a seed script that fails half way and is run again on what it left.

What makes each part correct:

- Tunnel routing: the host's default route is never touched; the packets to the
  server never enter the tunnel; what is configured to enter it does; teardown
  gives the table back.
- Worker: one worker at a time has the routing table, and gives it back before the
  device; the record names the worker that is up; a signal ends it; the race on
  `t.vt` is harmless.
- Status: "up" is said only of a worker that is, but for a PID that has been used
  again; "down" not of one that is up.
- Profile store: a sidecar speaks of a revision that was stored, and a sync that is
  left alone makes profile and sidecars agree.
- Service and backend: after a completed `connect` or `disconnect` the instance
  is what was asked for, now and after a reboot; the old worker, still leaving, never
  keeps a good profile from coming up; a bad one is given up on.
- Connection view: the pickers agree with each other and settle on the chosen
  profile; a request names a connection and a node of its profile.
- Dial-spec resolution: a worker dials what it was asked to, within one bundle, or
  nothing; what the page offers is accepted.
- Firewall seed: each package's part is put on disk as a whole and once, and the
  script goes only when both are there, unless a failed run's leftovers are taken up.

## 2. The modules

| Module | Models | Theorems in |
|---|---|---|
| `RoutingTable` | (external) the main table and `ip route add/replace/del/get`, used by `Tunnel` | |
| `Tunnel`, `MCTunnel` | `connect`, `configureNetwork`, `Close` on one table, one worker after another, an uplink that changes | `TunnelProofs` |
| `Overlay` | abstract: a client's routes laid over its host's; `Tunnel` implements it | |
| `DeviceLease` | abstract: the device as a lease on the routing table | |
| `Worker` | `cmdConnect`'s two goroutines in overlapping processes, the state file; implements `DeviceLease` | `WorkerProofs` |
| `Status`, `MCStatus` | `status`, composed with `Worker` (EXTENDS) | `StatusProofs` |
| `ProfileStore`, `MCProfileStore` | import, sync, rm and list, overlapping | `ProfileStoreProofs` |
| `Service`, `MCService` | rpcd's connect/disconnect/setconfig, the init script, procd, reboots | `ServiceProofs` |
| `ConnectionView`, `MCConnectionView` | the page: its loads, pickers, inspect calls and connect request, over a store that changes | `ConnectionViewProofs` |
| `Dial`, `MCDial` | the page composed with the worker that resolves the committed names (EXTENDS `ConnectionView`) | `DialProofs` |
| `Seeding` | abstract: a one-shot seed of two packages | |
| `FirewallSeed`, `MCFirewallSeed` | the uci-defaults script, uci's pending additions, boots, installations, power cuts; implements `Seeding` | `FirewallSeedProofs` |

How state and actions correspond to the code (`PROJECT.json` has the lines):

- `Tunnel`. `pc` is the statement the worker is at, `undo` is `t.undo`,
  `capture` is `captureDefault`, `pin` what `routeTo` returned, `sig` the done
  context. There is one action per `ip` command: `AddSubnet`, `ReadRoute`,
  `InstallPin`, `InstallHalf`, `UndoRoute`, each with its error path (`Fail`, which
  is `Close`). `host`, `leaked` and `steady` are observers: the routes the host itself wants,
  the prefixes whose undo entry was lost with a killed process or a failed deletion,
  and that since the worker's launch the uplink has kept its routes and every deletion
  has succeeded. `Overlay` has no commands, loop or undo list: `table` is `routes`,
  `open` says there is a device (`pc \in Open`), `left` is `leaked`, and a route is laid
  or lifted at any time, wherever the host has none.
- `Worker`. A worker is its PID. `main` and `tick` are the two goroutines; `vt`,
  `stop` and `fd` are its tunnel pointer, its context and its open state file. The
  file's content is the worker it names, or `Absent`, `Empty` (truncated), `Torn`.
  `After` is the order of the deferred calls. What `Tunnel` models in many steps is
  here one step in and one step out, the device being what the two share.
  `DeviceLease` has neither goroutines nor file: `alive` is the workers past "none",
  `told` those whose `stop` is set, `holder` the owner of `awg0`, `dirty` is `routed`.
- `Status` adds a reader: `ReadState` reads the file, `Probe` sends signal 0, and
  workers step in between. `Alien` gives a dead worker's PID to another program, and
  `Launch` may give it to another worker, whoever still names it. `reused` is an
  observer: the PIDs that were given away while the file or the reader named their
  dead worker; one leaves it with that name, or when its new process is itself up.
- `ProfileStore`. A profile's content is a revision, or `File` for an upload. A
  `sync` is six steps (fetch, import, and of each sidecar the open, which truncates, and
  the write), a `list` two (entries, then a stat of each marker), and every other
  command one. A sidecar is the revision of the sync that wrote it, `Empty`, or `Torn`.
  `history` and `disturbed` are observers: what syncs have stored, and the names whose
  last sync did not run to its end, undisturbed, or was followed by an import or an rm.
- `Service`. `rpc` is the next step of the call rpcd is in; `inst`, `worker` and
  `fails` are procd's; `leaving` says an old worker still has the device; `ready` that
  the router has an uplink, its name server, and nothing in a worker's way, which
  changes at any time. A commit or a command of the init script may fail, and the call
  goes on (`Slips`). `asked`, `slipped` and `others` are observers: what the last
  completed call asked for, that one of its steps has failed, and how many of procd's
  counted failures no old worker has caused.
- `ConnectionView`. `current` is `this.current`, the pickers are values with their
  options, `calls` the promises not yet resolved; a handler or a callback is one
  action, since a page runs one at a time. Names are told from what is stored under
  them: `stored` maps a profile's name to a bundle, `Change` is an import, a sync or
  an rm, `Answers` is `cmdInspect` on what is stored when it runs, and `sel` is the
  selection that `Connect` commits and `Render` reads back.
- `Dial`. `at`, `by`, `asked`, `data` and `dialled` are one worker up to its dial:
  `Launch` is `cmdConnect` to the end of `specFromProfile`, by the service on `sel` or
  `ByHand`; `prompt` is the wait of `promptPassword`, with `data` already read;
  `Resolve` is `resolveProfileSpec`. `refused` is a name that is not there, `failed` any
  other error. `offered` is an observer: the committed selection is a connection with
  nodes that the page had in its pickers, of the bundle still stored under its name.
- `FirewallSeed`. One action per uci command: `Look` is the test of a package, `Set`
  the next of its `Additions`, `Commit`, `Fail` (`set -e`), `Reload`, `Exit`. `seen` is
  what uci shows, `disk` what is committed. `by` says who runs the script: the boot,
  or the package's postinst; `BootCommit` is the `uci commit` that ends a boot's scripts.
  `taken` is an observer: what a failed run had left pending was committed by that, or
  was there when the script was run again. `Seeding` sees of it whether each package's
  part is on disk, and `taken` as `spoiled`.

### Abstractions

- A prefix is the set of addresses it covers, so the longest prefix is the
  smallest set, and AllowedIPs are canonical CIDRs. IPv6 entries are skipped by the
  code and so here; `::/0` counts as a default, as `isDefaultRoute` has it.
- `vp.Up`, `profile.Store`, `profile.Select`, `csync.Fetch` and decryption are in
  another repository. In `Tunnel` they succeed or fail, and the dial spec is any of a
  set, with an address that is an IPv4 of its own. In `Dial` a selected connection is
  the named one or the first, a node the named one or any, and `node.Tunnel` may fail.
- The kill switch is read by nothing in this code but stored and passed on; there
  is nothing to model.
- `os.WriteFile` is two steps, open-and-truncate and write, in the state file and in
  the sidecars: a reader, a second writer or a kill may come between, and a write may
  leave a part. `ReadFile` is one. The profile's own file is written by the store, which
  is external; what a power cut leaves of a sidecar is not modelled beyond these.
- The Go memory model leaves `stats`' second read of `t.vt` undefined: `TickUse`
  takes either outcome.
- procd sends SIGKILL 5 s after SIGTERM and respawns after 5 s: `Respawn` takes
  from it that an old worker is gone when the second respawn is due. This is the one
  timing assumption.
- rpcd runs one call at a time. `MaxCalls` bounds calls in flight.

## 3. The runs

`tlc -config <cfg> <module>`; all end within two minutes.

| Run | Module, cfg | Shows |
|---|---|---|
| `tunnel` | `MCTunnel` | `EndpointOutside`, `CarriesAsConfigured`, `DefaultPreserved`, `TeardownRestores`, the refinement `OverlayKept`, `StopCompletes`: full and split specs, kills and signals anywhere, every command failing or not, gateways renewed, the uplink lost, deletions failing |
| `worker` | `MCStatus` | two overlapping workers and a reader, with a state file that may be refused and PIDs used again: the refinement `LeaseKept`, `OneRouter`, `RecordKept`, `RecordHeals`, `PanicHarmless`, `StopCompletes`, `UpIsReal` |
| `store` | `MCProfileStore` | `MarkerBacked`, `SidecarsAgree`: three commands on one name, two revisions, kills and failing writes |
| `service` | `MCService` | `AsAsked`, `GoodSurvives`, `ConnectComesUp`, `BadGivesUp`, with a router that becomes ready and unready, and steps of calls that fail |
| `dial` | `MCDial` | `PickersAgree`, `PickersSettle`, `OfferedDials`, `DialsAsked`: the page, the store and a worker, interleaved |
| `firewall` | `MCFirewallSeed` | the refinement `SeedsOnce`, and `MissingOnlyIfTaken`: commands failing at boot and at installation, run again in the same boot or later, power cuts |
| `tunnel_killpin`, `tunnel_wanflap`, `status_torn`, `store_upload`, `view_early`, `firewall_rerun` | `MC<Module>_<word>.cfg` | the disagreements of section 6, each by a counterexample |

Each run also checks the type invariant of its module. Every property of a passing
run has a mutant in `PROJECT.json`: the mapped definition, the form a plausible bug
would give it, and the property TLC then finds violated. The mutated forms stand in
the modules before what they mutate.

Three of the properties are abstract specifications. `OverlayKept` is `Overlay`: at
prefixes the host has none for, and never at the default, routes of the tunnel and of
a server alone are laid and lifted; no route of the host is displaced or deleted but
by the host; what is there after the device is closed has been given up. `LeaseKept` is `DeviceLease`: only
the holder of `awg0` changes the table, who was not killed gives it back clean
before the device, who is told to stop leaves. `SeedsOnce` is `Seeding`: the network
part goes on disk as a whole, then the firewall's, and the script goes when both
are there; while one is missing it may be spoiled, and then promises nothing. The last
two with their liveness.

### Bounds, and why they are enough

- `Tunnel`: five addresses are the least that tell apart the endpoint of either
  half, an address sharing a subnet with the endpoint, one on the LAN and one
  anywhere else. Three host tables (an uplink, none yet, a static route over the
  endpoint), five dial specs (full, split with a collision, with IPv6, with the
  default of each family in the list), two gateways. Workers follow one another without bound.
- `Worker`, `Status`: two PIDs launch without bound; the properties relate at most
  two workers, and the proofs cover any number. PIDs are used again without
  restriction.
- `ProfileStore`: three commands, so that one may come between two syncs. One name: a
  command touches no other name's files, and the proofs cover any number of names.
  `MaxRev` = 2 gives an older and a newer.
- `Service`: `Events` = 3 bounds reboots, reloads, crashes, link drops, settings
  changes and failing steps together. Calls and changes of the router are unbounded,
  and so are the failures a router that is not ready causes: procd's giving up on a
  good profile is among the reached states. `GoodSurvives` is proved without the bound.
- `ConnectionView`, `Dial`: two calls in flight; two profile names. One stands for
  either of two revisions, which share a connection but not its nodes and of which
  one has a second connection with an egress path; the other for a locked bundle or
  an empty one. Runs by hand of the locked profile without and with a (wrong)
  password, and of a name that is also a file's. One worker at a time; page loads,
  store commands and launches are unbounded.
- `FirewallSeed`: `MaxTroubles` = 4 failed commands and power cuts; boots,
  installations and runs on what a failed one left are unbounded. What a failure or a cut leaves
  behind is one of a few states of `disk`, which fewer than four of them reach in any
  order; the proofs have no bound.

### Fairness

- `Tunnel`: `WF(Work)`, a running process executes its next statement. Nothing is
  assumed of the environment: signals and kills need not come.
- `Worker`, `Status`: weak fairness of each goroutine (the Go scheduler, and a ticker
  that keeps ticking), in the composition with the reader left as it is. The reader
  is not fair. `RecordHeals` needs the ticker: what a late write of a leaving worker
  does to the record is repaired by the next tick only. Its other hypothesis,
  `OpensAgain`, is that the state file is not refused for ever.
- `Service`: weak fairness of rpcd's next step (a call does not hang: the init
  script does not wait for the worker), of a leaving worker's end (procd's SIGKILL),
  of a starting worker's success or failure, and of procd's respawn timer.
  Calls, crashes, reboots and the router are not fair: `ConnectComesUp` says what is
  to happen before the router is next not ready.
- `FirewallSeed`: a started script and a started boot run to their ends, and a router
  that stays on is rebooted some day. The last is needed: nothing but a boot runs a
  failed script again. Failures and power cuts are not fair, and bounded.
- The other modules state no liveness.

## 4. The proofs

`tlapm <module>.tla`, no assumption but the named ASSUMEs of the modules and the
hypotheses below; all for any values of the constants.

| Theorem | States | Assumes | Argument |
|---|---|---|---|
| `TunnelProofs!DefaultSafe` | `[]DefaultPreserved` | | `DefaultInv`: no undo entry and no pin has the default's prefix, so no command names it; no host route is on the device, so flushing it removes none |
| `TunnelProofs!EndpointSafe` | `[]EndpointOutside` | `NoCovering` (no allowed subnet holds the endpoint) | `PinInv`: while `steady`, whenever a tunnel route covers the endpoint its /32 is in the table on another device (`Guarded`); the /32 precedes the halves in the undo list (`PinFirst`), so it is deleted after them; before the pin no tunnel route covers the endpoint (`BeforePin`) |
| `TunnelProofs!OverlaySafe` | `OverlayKept` | `NoCollision` (the host has no route of its own to a half or to an endpoint's /32) | `RestoreInv`: every route that is not the host's is the device's, or in `undo`, or in `leaked` (`Accounted`), and no undo entry is a host route (`UndoNotHost`, which `ip route add` and `NoCollision` give); with it each command is a step of the overlay or a stutter |
| `TunnelProofs!RestoreSafe` | `[]TeardownRestores` | `NoCollision` | `RestoreInv` again; and `LaidInv`, that what is laid is the tunnel's or a server's /32, which is proved of the overlay's few steps and carried by the refinement |
| `TunnelProofs!CarriesSafe` | `[]CarriesAsConfigured` | `NoCollision`, `DefaultsPaired` (who lists `::/0` lists `0.0.0.0/0`) | `CarryInv`, from `AddSubnet` to the signal: the prefixes handled so far and the tunnel's routes are the same (`Placed`), `capture` says whether a default was among them, and every other route is the host's, the pin or left over; a prefix has one route, so the longest match, which exists (`BestExists`, by `AddrAssumption`), is decided by the sets alone |
| `WorkerProofs!Exclusion` | `[]OneRouter` | | `LockInv`: from `setup` to `vtclose` a worker holds `awg0` |
| `WorkerProofs!RecordSafe` | `RecordKept` | | who clears the file is a holder, and so is a worker that is up: by `LockInv` they are one |
| `WorkerProofs!PanicSafe` | `[]PanicHarmless` | | `VtInv`: a live refresh goroutine means the main one is past its first write; while a worker holds the device its `vt` is set |
| `WorkerProofs!LeaseSafe` | `Lease!Safe` | | `LeaseInv`: `VtInv`, and a process that is not there has no device, signal or goroutine; then each step is a lease step of one process or a stutter |
| `StatusProofs!UpSafe` | `UpIsReal` | | `NamedInv`: a worker named by the file or by the reader's record is configured, or it has died and nobody has its PID, or the PID is in `reused` |
| `StatusProofs!WatchedSafe`, `WatchedRecord`, `WatchedLease` | `[]OneRouter`, `[]PanicHarmless`, `RecordKept`, `Lease!Safe` of the composition | | the reader, and a PID given to another program, leave the workers' variables alone (`WatchedStep`), so every step is one of `Worker` or a stutter |
| `ProfileStoreProofs!MarkerSafe` | `[]MarkerBacked` | | `SyncInv`: a sync past its import has its pair in the history |
| `ProfileStoreProofs!AgreeSafe` | `[]SidecarsAgree` | | of a name that is not disturbed at most one sync is between its import and its last write, the profile is its revision, and the sidecars it is past are too, the open one being `Empty` |
| `ServiceProofs!CallsHeeded` | `[]AsAsked` | | `AskedInv`: the committed selection and `rc.d` match the last completed call whenever it is known, and a call's own steps establish them in order |
| `ServiceProofs!RetriesSuffice` | `[]GoodSurvives` | | `BudgetInv`: a worker that is up has no predecessor left, an old one is met by the first two attempts only, and every other failure is counted in `others`: `fails <= others + 2` |
| `ConnectionViewProofs!AgreeSafe` | `[]PickersAgree` | | `FitInv`: options are those of the bundle last answered, nodes those of the connection selected |
| `ConnectionViewProofs!SettleSafe` | `[]PickersSettle` | `Ordered` | `SettleInv`: the last call in flight is for the chosen profile |
| `DialProofs!PageSafe` | `DialSpec => Spec` | | each step of the composition is a step of the page and store, or leaves them alone; so `FitInv` holds here too |
| `DialProofs!DialAgreeSafe`, `DialSettleSafe` | `[]PickersAgree`, `[]PickersSettle` of the composition | none; `Ordered` | `PageSafe` |
| `DialProofs!AskedSafe` | `[]DialsAsked` | | `WorkerInv`: what a worker dials is of the one bundle it has read, and only a worker from a shell waits at the prompt |
| `DialProofs!OfferSafe` | `[]OfferedDials` | | `OfferInv`: while `offered`, the committed names are a connection and a node of the bundle still stored (`FitInv` gives it at the request), which `Resolve` then finds |
| `FirewallSeedProofs!SeedSafe` | `[]MissingOnlyIfTaken` | | `SeedInv`: until `taken`, each package on disk is none or whole, pending settings are a prefix of the package the script is at, past a package it is whole, and what is pending after a failure belongs to a package the disk has nothing of |
| `FirewallSeedProofs!SeedsSafely` | `S!Safe` | | from `SeedInv`, `Commit` is `SeedNet` or `SeedFw`, `Exit` is `Forget`, a step that takes leftovers up is `Spoil`, and everything else a stutter or `Again` |

Each of these modules also proves its type invariant. The invariants are needed
because none of the properties is inductive: `EndpointOutside`, for one, holds of a
state with halves, a pin, and an undo list in the wrong order, whose next step breaks
it. Hypotheses that a theorem has and its run does not are dropped in the runs where
that is meaningful: `tunnel_wanflap` shows `ServerOutside`, which is
`EndpointOutside` without `steady`, fails; `firewall_rerun` that `MissingOnlyIfTaken`
needs its `~taken`.

The named ASSUMEs say what a constant is. The two that do more: `PrefixAssumption`
has CIDR blocks nested or disjoint, and `AddrAssumption` has finitely many addresses,
without which a longest match need not exist.

Only model-checked: all liveness (`StopCompletes`, `RecordHeals`, `ConnectComesUp`,
`BadGivesUp`, and the fairness of `LeaseKept` and `SeedsOnce`), which is out of the
prover's reach.

## 5. What is not modelled

- The Profiles view keeps no state of its own; the status panel redraws each answer;
  the command line's dispatch is sequential; menus, ACLs, Makefiles and the other
  scripts are data or tools.
- rpcd's staging files of `import` and `sync` and their clean-up: their names have the
  second in them, and rpcd runs one call at a time.
- `uci get` and `uci show` failing in the firewall script for another reason than the
  absence of what they look for.
- The trimming of passwords, `humanBytes` and other formatting; how `--config` is
  parsed, beyond the dial spec it gives.
- The kill switch, which is stored and read by nothing.
- What is in other repositories: the VP tunnel, the profile format and store, the
  controller. What the kernel, procd, uci and the browser do is taken from how the
  code uses them, and is marked external in `PROJECT.json`.

## 6. Where code and text disagree

1. `tunnel_killpin`: a killed worker's pin outlives it; after a change of gateway the
   next worker's `routeTo` reads that pin and repeats it, where the comment says
   "current real route" (connect.go:287, 346).
2. `tunnel_wanflap`: an uplink that goes down while connected takes the pin with it;
   the halves then route the tunnel's packets into the tunnel (connect.go:288, 357).
3. `status_torn`: a `status` between truncation and write says "disconnected" of a
   tunnel that is up (state.go:40, 48).
4. `store_upload`: an upload over a synced profile (or after its `rm`) is still
   listed as synced (main.go:353).
5. `view_early`: Connect pressed before the answer for a newly chosen profile sends
   it with the connection and node of the previous one (connection.js:194).
6. `firewall_rerun`: the seed script looks for its zone with `uci show`, which also
   shows what is pending. Run again in the boot in which it failed, it takes the
   half zone for the whole and exits 0; it is removed, and the zone is gone after the
   next reboot, where the comment says "safe to re-run; only adds what's missing"
   (99-pharos-firewall:7, 27). The same happens over two boots when a command fails
   at boot: the `uci commit` at that boot's end puts the half zone on disk, and the next
   boot's run takes it for the whole. `MissingOnlyIfTaken` says that these two are
   the only ways.

Two more contradict a text of the repository in a rare case. They have no run of
their own: each is an exception that a property of a passing run names, and that run
passes through it.

7. A PID that is used again: a worker that was killed leaves its record, and one may
   end between a `status` reading the record and probing the PID. If another process
   has that PID by then, `status` says "up", where the comment says "(zero, false) if
   none is recorded or the recorded worker is no longer alive" (state.go:48-49, 59). In
   `UpIsReal` it is `w \in reused`; without that disjunct TLC finds the case.
8. A router that is not ready: after a boot (START=95), a reload or a connect, the
   worker of a good profile fails at once while there is no uplink or no name server,
   and procd gives up on it after five retries of 5 s; an uplink that comes later finds
   nobody, and nothing starts the service again before the next boot or call. The
   comment says "so the tunnel comes up and survives reboot" (pharos:205-206). In
   `ConnectComesUp` it is `worker # "abandoned"`, in `GoodSurvives` the failures
   in `others`; without that conjunct TLC finds the case.

Limits met while modelling, that no text of the repository denies, and so are
assumptions of properties rather than findings:

- A host route of the router's own to the endpoint's /32, or to one of the halves,
  is displaced by `ip route replace` and deleted with the tunnel (`NoCollision`).
- In a split tunnel an allowed subnet that holds the endpoint sends the tunnel's own
  packets into the tunnel; if a default follows it, the pin repeats that route
  (`NoCovering`).
- `::/0` alone among the AllowedIPs captures IPv4 (`DefaultsPaired`).
- A tick that races the shutdown re-creates the state file after `clearState`; the
  file then names a dead worker, which `status` finds out by its PID, unless the PID
  has been used again.
- A commit or a command of the init script that fails is not noticed by `connect` and
  `disconnect`: the answer is ok and the service is as it was (`slipped`, of which
  `AsAsked` then says nothing).
- A sync that fails or dies among its sidecars, or that another command overlaps, leaves
  a marker that is empty, torn or of another revision than the profile's
  (`SidecarsAgree` holds only of syncs left alone). The next sync mends it. Of what is in
  a sidecar nothing under src/ reads a byte: `list` asks whether the marker is there.
- A worker whose link is dead stays "up": nothing watches it.
- A password-protected profile chosen in the page cannot come up by the service, which
  has no terminal to ask on (`DialsAsked`: who dials a locked bundle is a shell's);
  the page says "or just connect".
- A connection that a sync has removed is refused by the service's worker at each
  respawn until it is given up on; that it is not replaced by another is `DialsAsked`.
- `connect` reads a file of the working directory before the store, so that a run by
  hand may dial another bundle than the page shows.
- `inspect` answers that overtake each other would leave the pickers with the profile
  chosen first (`Ordered`).
- A choice of node is recorded nowhere, and is lost when the profile is inspected
  again; a former cascade's path stays displayed for a profile without connections.

## 7. Plan

Written, in this order: `RoutingTable`, `Tunnel`, `Worker`, `Status`,
`ProfileStore`, `Service`, `ConnectionView`, `DeviceLease`, `Dial`, `Seeding`,
`FirewallSeed`, `Overlay`, and the proofs of section 4. Open:

1. Composition of `Service` with `Worker`, so that "the worker comes up" is the
   worker's device rather than a flag.
2. `Overlay` for the overlapping workers of `Worker`: `OneRouter` says that one at a
   time is in `Tunnel`'s steps, and the two are not yet composed on one table.

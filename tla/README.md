# Beatrak: TLA+ models, checks and proofs

Beatrak drives a mesh of Envoy proxies and a small set of services around it.
`beaplane` (Go) is the control plane: an operator posts a *bucket* of endpoints
and routes, it becomes a versioned snapshot per Envoy node, and the snapshot is
pushed to the Envoys over xDS streams. `locpick`, `beacon`, `stage1` and
`montrer` (JavaScript) are the workload: beacons are given locations by locpick,
and stage1 stores signals for montrer to show. In every Envoy container a Python
script, `hot-restarter.py`, starts Envoy and restarts it without a gap.

This directory holds TLA+ modules of the parts where order, concurrency and
failure decide whether the system works, TLC configurations that check them on
small instances, and TLAPS proofs for every instance. `PROJECT.json` maps each
definition to the source lines it models. Paths below are relative to the
repository.

## 1. Inventory

### Components, their state and operations

| Component | State | Operations that change it |
|---|---|---|
| Snapshot cache, `pkg/cache` | snapshots and status per node, open watches per node, `watchCount`, `cache.mu` | `SetSnapshot`, `ClearSnapshot`, `CreateWatch`, the cancel function |
| xDS server, `pkg/xds/server.go` | per stream: `streamNonce`, the `watches` struct (channel, cancel function and nonce per type), `reqCh`, `reqStop` | `handler` with its reader goroutine, `process` |
| HTTP gateway, `pkg/xds/gateway.go` | none | `ServeHTTP`, a wrapper of `Fetch` that nothing starts |
| Manager, `pkg/manager` | the gRPC server | `RunManagementServer` registers EDS and RDS, stops gracefully |
| beaplane, `src/beaplane/beaplane.go` | `callbacks` (`mu`, `signal`, counters), the context, the main loop | callbacks, `POST /bucket`, `PUT /shutdown`, CTRL-C, the initial load |
| Bucket, `pkg/bucket` | none | `FromYAML`, `FromFile`, `GetSnapshot` |
| Resource builder, `pkg/resource` | none | pure constructors |
| locpick, `src/locpick` | `gl`: zone, sid, two counters, `newlocs` | `init`, `PUT /locs`, `PUT /:zone/locs`, gRPC `loc`, `GET /reset` |
| beacon, `src/beacon` | its environment and options, `gl.sid`, its servers, `gl.signal` | `init`: calls to locpick, start of its servers; `main` then sleeps (the signal loop to stage1 is commented out) |
| stage1, `src/stage1` | `gl.pg`, its one connection to PostgreSQL, its `sid`; rows in the table | `init`, `PUT /:beaconZONE/signal/` |
| hot restarter, `*/hot-restarter.py` | `pid_list`, `restart_epoch` | `main`, handlers of SIGHUP, SIGCHLD, SIGTERM, SIGUSR1 |
| operator scripts, `scripts` | files and Envoys of the beacon pods; the zone of each locpick | `config-beacons.js` rolls an Envoy configuration out, `reset-locpicks.js` gives each locpick a zone |
| montrer, `src/montrer` | the server's connection; the page's `state.signals` | a query of the last 60 seconds, polled by the page each second |
| obus, `src/obus` | the client's options; per call, the messages of two streams | a test client that calls `ping`, `info` and three streaming methods, and a server of them |

### How they interact

* `handler` gives every stream a reader goroutine, which hands requests over
  `reqCh`, and runs `process`, which calls the cache. The cache answers a watch
  by a send on a channel of capacity 1 while it holds `cache.mu`.
* `process` calls `beaplane`'s callbacks. `OnStreamRequest` holds `cb.mu` and
  sends on the unbuffered `cb.signal`, which only the main loop receives from;
  `OnFetchRequest` closes that channel and sets it to nil.
* The HTTP handlers of beaplane call `SetSnapshot` once per node of the bucket,
  and read the snapshot map of the cache without its lock.
* Envoys acknowledge or reject each response with a nonce, ask again, break off
  and come back with the version they have.
* `config-beacons.js` copies a configuration into an Envoy container and runs
  `restart-envoy.sh`, which sends SIGHUP to the hot restarter; that forks
  `start-envoy.sh`, which gives `RESTART_EPOCH` to Envoy.
* Beacons ask locpick for its info, three times over as many transports, and then
  for a location, and may lose the reply; locpick has no record of who holds what
  beyond `newlocs`, and forgets it when it restarts. A beacon that asks for a zone
  locpick does not have ends the locpick process.
* stage1 and the montrer server have each one connection to one PostgreSQL table;
  they meet only there. The page has up to as many requests open as the browser
  allows and shows whatever answer came last.
* `reset-locpicks.js` calls `GET /reset` of each locpick that DNS names;
  `config-beacons.js` runs three `kubectl` commands per pod.

### What is hard, and what makes each component correct

* **Cache.** No watch sits on an old version; the send under the lock never
  blocks; a cancel function, which may be called late and twice, closes no
  watch but its own; an answer is the node's snapshot of that moment, complete
  and of the names asked for; map accesses do not race.
* **xDS server.** Between `Cancel` and `CreateWatch` the stream has no watch,
  and a response may be left in a channel that is replaced; stale nonces must
  neither replace a newer watch nor block a new one; every way out of `process`
  cancels every watch; an Envoy never goes back to an older configuration and
  ends with the last one.
* **beaplane.** The callbacks couple all streams through a mutex and an
  unbuffered channel, which a Fetch closes: they must not deadlock, nor send on the
  closed channel; a shutdown must end the process; the last bucket loaded is what its
  nodes have. A request without a node and a bucket with an empty list of routes do
  panic (`beaplane.go:104`, `bucket.go:163`).
* **locpick.** Two copies of an index computation must give each location once
  and in order and repeat only the last one, across resets, restarts and lost
  replies.
* **beacon.** No sid before a location of its zone; whatever dies and is started
  again, a well-configured beacon becomes ready.
* **stage1.** The answer to a signal must be true of the table, although the
  connection may be lost between the INSERT and its result.
* **montrer.** Polls overlap and are answered in any order: the page must end with
  the newest; a query that fails is never answered.
* **Operator scripts.** A failure in the middle must not make a run look complete;
  commands of a failed run go on beside those of the next one, which may bring another
  file.
* **obus.** Streams of several calls are interleaved and the server may die between
  any two messages: none may be mixed up or stay open.
* **Hot restarter.** Signals are coalesced and handlers run between any two
  bytecodes of `main`; no failure may be missed, no Envoy forgotten or left
  behind, and the exit code must tell what happened. Once `main` sleeps no epoch may
  be given twice, which holds unless two SIGHUPs fell inside its `restart_epoch += 1`.

The hazards, line by line, with the property that covers each or the reason why
none does, are in `PROJECT.json`.

## 2. Modules

```
SnapshotCache <- XdsServer <- Beaplane -> Bucket      ConfigPush (abstract)
      |              |            |                      ^
      |              |            |                      |  InOrder
SnapshotCacheProofs  |            |                      |
      ^-------- XdsServerProofs <- BeaplaneProofs -------+

Locpick <- Beacon                     HotRestarter <- HotRestarterProofs
   |          |
LocpickProofs <- BeaconProofs (Beacon implements Locpick)

Stage1 <- Montrer <- Stage1Proofs

ConfigBeacons, ResetLocpicks, Obus <- Tools <- ToolsProofs
```

(`A <- B`: B extends A; each `*Proofs` module extends the modules it is joined to.
XdsServer and Beaplane implement ConfigPush.) Each `MC*` module only gives constants
their values.

**SnapshotCache** is `pkg/cache/simple.go`. Every method that takes `cache.mu`
is one action, with the whole loop over the watches and every `respond` in it;
a blocked `respond` disables the action, so `RespondNeverBlocks` says that it
does not happen. `GetNodes` and `GetSnapshot` take no lock and are a pair
`BeginRead`/`EndRead`: a map write between the two may end the process
(`WriteSnapshots`), as Go's runtime does. Callers hold what `CreateWatch`
returned in `value` and `cancel`, and may overwrite or call it as they like.
`CreateWatch` is `OpenWatch` or `RespondNow`, its two branches. Resources are
their names; a snapshot has one version for all types, as `NewSnapshot` gives
it. `seq` numbers snapshots and exists only for the properties.

**XdsServer** is `pkg/xds/server.go` over that cache. `pc[s]` is where
`process` is: in the `select`, in the callback, before the cancel of the old
watch, before `CreateWatch`, in the deferred cancellation, or back. The select
has an action per case (`SelectResponse`, `SelectRequest`, `SelectClosed`), and
each call of the cache is a step of its own (`CancelOld`, `CreateNew`,
`CloseCancel`), so loads and other streams fall between them. The reader is
`ReaderRecv`, `ReaderError`, `ReaderReturns`; when `process` has gone it may
stay in `reqCh <- req` for ever. The Envoy (`Subscribe`, `Ack`, `Nack`,
`Ignore`, `Disconnect`) and the two directions of the wire, which keep their
order, are external. A stream may be opened again after it broke, by an Envoy
that keeps its version: its first request then carries it. An Envoy names its node
in all its requests or in none; `NodeID` is `Hasher.ID`, which files the requests of
the latter under `"unknown"`.

**ConfigPush** is the abstract promise: configurations of a node are published
one after the other, and what a subscriber holds was published for its node and
never gets older. `InOrder` in XdsServer is its specification under the
refinement mapping `published <- seq of the node's snapshot`, `seen <- seq of
what the Envoy has accepted`.

**Bucket** is the shape of `pkg/bucket` and `GetSnapshot`: the version is that
of the endpoints, a cluster without hosts has no assignment, and only the first
route of the first virtual host decides what a route item becomes. Where that list
is empty the code's index panics (`Panics`).

**Beaplane** composes the server with `beaplane.go`: `OnStreamRequest` is the
lock of `cb.mu` (`OnStreamRequestLocks`) and the rendezvous with the main loop
(`OnStreamRequestSignals`); a unary Fetch is `OnFetchRequest`; a load is
`HandleBucket` (or main's start), one `SetNode` per node, and `LoadEnds`. The
program's own panics are actions: `OnStreamRequestPanics`, whose log line reads
`request.Node.Id`, and `GetSnapshotPanics`, which ends the process in main and, since
`net/http` recovers, only the request in a handler. The initial bucket is any of
`InitialBuckets`, the empty one standing for a file that cannot be read. The
flag `mode` is never set by the program, so its cache runs with `Ads = FALSE`.

**Locpick** is `locpick.js`: `PUT /locs` with the counter `locLast` over the
current zone, and `PUT /:zone/locs` and gRPC `loc` with a counter per zone. A
handler runs to its end without an await, so each is one action. The last two
are two copies of one computation (`TakeLocOf`). `Reset` is
`GET /reset`; `Restart` is a crash, with the loss of any of the replies on
their way. The random `sid` of each `init` is its number.

**Beacon** composes Locpick with `beacon.js`. `Start` is the part of `init` before
the first call, with its two ways to throw (the keys of `--tls`, and
`gl.gl.locpickGrpcHost` at `beacon.js:164`); `HttpInfo`, `GrpcInfo` and `TlsInfo`
are the answers of locpick's info; the last of them starts the beacon's servers and
asks for the location; `GotLoc` ends `init` and draws the sid. The beacon only logs
the location; `held` is a history variable, for what is proved of locpick. `Exit` is
`process.exit(1)` and the end of a pod. An environment is a record of variables
that may be `Unset`, and `EndpointOf` puts an endpoint together as both programs
do. On locpick's side `ServeLoc` is the gRPC call, `LocpickServers` is what
`initServers` starts with and without the keys, and `KillLocpick` is the TypeError
of an unknown zone, which nothing catches. The members of `Beacons` that are not
`Pods` are users of the HTTP routes. Every action is one of Locpick's or leaves its
variables alone, which `BeaconImplementsLocpick` proves.

**Stage1** is `stage1/server.js`. A PUT is three actions: `PutSignal` up to the
`await`, `Insert` in PostgreSQL, `AnswerPut` with what came back; a process and its
connection may go between any two. The `sid` of a run is its number.

**Montrer** adds the server's query and the page. `Tick` is the page's timer, which
waits for no answer; `GetSignals` is the one statement of the query, a function of
the table (`Answer`, with the rounding of `sp`), or a request that is never
answered; `SetState` is an answer that is shown, in any order, and `render`, which
throws for a location without lonlat and takes the page down.

**ConfigBeacons** is `config-beacons.js`. A command of `kubectl` is a record, and
`commands` may hold orphans: `GiveUp` rejects and spawns the next command all the
same. `Succeeds` and `CommandFails` are the end of a command, with or without its
work done. Each run has a `file`, the basename of its `CONFIG_FILE`, and copies and
installs that: `Makefile:262-269` and `docs/DEMO.md:52-55` run the script with one
file after the other. An orphan of an earlier run may install another file than the one
under way has brought; the pods where that came last are the `strays`, a history
variable. `EnvoyStarts` stands for all of HotRestarter.

**ResetLocpicks** is `reset-locpicks.js`, in which the list of zones is the two
strings of the source, and what it meets at each locpick. **Obus** is `obus.js` and
`obus-server.js`: a call has two ordered streams, `Handle` is a server's handler
and `Told` a client's. The lines of the loop that call the streaming methods are
commented out at this commit; `lines` is the set of those a developer has put back,
the empty one included. **Tools** runs any one of the three: they share nothing, and
one run of TLC covers them.

**HotRestarter** is `hot-restarter.py`. A signal is a flag in `tripped`; the
script is Python 2, whose interpreter runs handlers between two bytecodes of
`main` and does not run a handler inside a handler (pending calls do not
recurse). Hence `main`'s `fork_and_exec` is six steps with handlers between them:
`LoadEpoch` and `SetEpoch` for the environment, `LoadEpoch` and `StoreEpoch` for the
`+=`, `Fork` and `AppendPid`. What a SIGHUP handler counts between the load and the
store is lost; `inside` is a history variable that counts those. `SighupHandler` and
`SigtermHandler` are one action each, and the SIGCHLD handler is
`SigchldHandler`, a `Poll` per child of its copy of the list, and `EndPoll`,
because children end while it polls. Only the children act during a handler.
`epochOf` is what each child finds in `RESTART_EPOCH`; `status` is "up" or the
way out: `exit0` and `exit1` from the SIGCHLD handler, `terminated` from SIGTERM.
`main = "asleep"` in a property means that the first `fork_and_exec` is over.

Operators under `Variant with a fault` stand beside the definitions they replace
when a property is tested for its power; no specification uses them.

## 3. Runs

| Run | Question | Bounds | Result |
|---|---|---|---|
| `XdsAds` | `NoOutdatedWatch`, `RespondNeverBlocks`, `CancelIsOwn`, `WatchClosedForCause`, `ResponseIsCurrent`: the cache's promises, under the server, with ADS | 1 ADS stream of 2 types, without a node, 2 snapshots with one or two names, requests for one or two, 4 watches | holds |
| `XdsConverge` | `XdsTypeOK`, `NoDanglingWatch`, `WatchAnswersLatest`, `WaiterNotForgotten`, `InOrder`, `Convergence` (liveness) | 2 nodes, 1 stream opened twice, 2 snapshots of 3 versions, 8 watches, 6 responses | holds |
| `XdsNames` | `RequestedAreProduced` (liveness) | 1 stream, 1 snapshot of two names | violated |
| `SnapshotCacheReads` | `ThreadSafe` | 2 nodes, 1 reader, 2 snapshots | violated |
| `Beaplane` | `WatchesAreAnswered` (liveness) | 2 streams, the initial bucket and a posted one | holds |
| `BeaplaneFetch` | `WatchesAreAnswered` (liveness) | 1 stream, 1 Fetch | violated |
| `BeaplaneStop` | `BeaplaneTypeOK`, `LastLoadWins`, `DownForCause`, `ShutDownEnds` (liveness) | 2 nodes, 2 initial buckets, two posts of 3 buckets, one of each kind with routes that panic, `GET /nodes` and a shutdown at any time, 2 streams, one without a node, 1 Fetch | holds |
| `HotRestarter` | `TypeOK`, `RunningIsTracked`, `NothingLeftBehind`, `ExitCodeTells`, `EpochGrows`, `FailureEndsIt`, `LastEndsIt` (liveness) | 3 children: the first Envoy and two hot restarts | holds |
| `HotRestarterStart` | `FailureIsReported` | the same | violated |
| `Beacon` | of locpick `HandedOutInOrder`, `NoneSkipped`, `HoldersDistinct`; of the beacons `BeaconTypeOK`, `SidMeansLocated`, `BecomesReady` (liveness) | 1 well-configured beacon, 1 of seven environments, 1 user of the HTTP routes; 2 zones; locpick starts twice, each beacon ends once; 6 locations | holds |
| `Signals` | `MontrerTypeOK`, `AnswerIsTrue`, `PageCatchesUp` (liveness) | 1 stage1, 3 signals, 1 montrer server, a page with 2 open requests, a clock of 3 values and a window of 1, 1 fault | holds |
| `Tools` | `ToolsTypeOK`, `PodByPod`, `FinishedIsRunning` (liveness), `ZonesApart`, `NoneForgotten`, `AnsweredWhole`, `CallsEnd` (liveness) | 2 runs over up to 2 pods, with 2 files to choose from and 3 faults; 2 resets of up to 3 locpicks with 2 faults; 3 open calls, 2 turns of the client, 1 death of the server | holds |

Why the bounds are enough for the hazards.

* *Cache and server.* Three and more calls of `CreateWatch` let a cancel function
  outlive its watch while another has taken its place; two snapshots let one answer
  and the other find what was left open. A stream opened twice lets an old
  acknowledgement, a watch and a reader of the first opening meet the second one.
  In `XdsConverge` the bounds on watches and responses (8 and 6) are above what two
  snapshots and two subscriptions can use, so that no bound stands in for progress.
* *beaplane.* Two posts after the initial load let every bucket come before and after
  every other one; one Fetch closes the channel and makes it nil, and a second one finds
  nothing to do. The stream without a node panics at its first request, before, during
  or after a load, a Fetch or a shutdown.
* *Hot restarter.* Three children are one to fail, one that ended well whose SIGCHLD
  may be coalesced with it, and one that goes on.
* *Beacon.* Six locations are enough for every counter to reach the end of its list,
  and for the counters of the zones to go on and repeat the last location; the users
  of the HTTP routes take the first two of them at most (`MaxUses`). One more start
  of locpick separates two sids, also while a reply of the first is under way.
  The second beacon is of every kind: it asks for an unknown zone and kills locpick
  under the first one, has no `--tls`, no keys, a port where nothing listens, or an
  unset variable.
* *Signals.* A signal that is stored, one without lonlat, one that is refused; two
  open requests are the least that can be answered in the wrong order; with a window
  of one unit every row leaves it during the run. One fault is enough for each loss
  to fall between any two steps of a PUT, a query, or a poll.
* *Tools.* Two runs of `config-beacons.js` are one that fails and leaves an orphan and
  one that meets it, with the same file or the other; three faults are a failed
  command, one of the next run and a restarted container. There are two zones, so
  three locpicks are one too many. Two turns with three calls leave calls of the first
  turn open in the second one.

Deadlock is not checked: an idle control plane, a run with every bound used up, a
script, a client or a restarter that has ended may stop. What must not stop is
stated as a liveness property.

### Fairness

* `XdsServer!Fairness`: weak fairness of each stream's `process`, of its reader,
  and of an Envoy that answers a response it has received. The first two are Go's
  scheduler; the third is what xDS asks of an Envoy. Nobody has to connect,
  subscribe, load, reject or leave. `Convergence` assumes in its formula that the
  Envoy stays connected; an Envoy may still reject in the model, but the run of
  `Convergence` has no rejections (`MayNack` is FALSE). A rejection carries the
  version the Envoy kept, so the cache answers it at once with the snapshot it has,
  and an Envoy that rejects that each time never converges.
* `Beaplane!BeaplaneFairness`: weak fairness of each goroutine: `process`, the
  reader, the two steps of a callback, a load, and main's return. Weak fairness
  is enough for `cb.mu`: a waiting callback of another stream is served as long
  as the mutex comes free for good in the bounded run. Nobody has to post,
  fetch or shut down.
* `Beacon!BeaconFairness`: a container is started again, a failed `init` exits
  (weak), and a call to a server that listens is answered in the end. The last one
  is strong, since locpick may go and come back many times while a beacon waits:
  gRPC and the container runtime retry, and what is needed is that an attempt falls
  into a time when the server is up. `BecomesReady` assumes in its formula that
  locpick has all its servers in the end.
* `Montrer!MontrerFairness`: the page's timer and requests. No beacon has to send,
  and no process has to start; `PageCatchesUp` assumes that the server keeps its
  connection, the page stays mounted and no request hangs.
* `Tools`: a `kubectl` command ends, a hot restarter that was told starts its Envoy;
  gRPC delivers the messages of a call in order, and a client of finished calls
  ends. Nobody has to start a script again.
* `HotRestarter!Fairness`: weak fairness of `main`'s steps, of each handler whose
  signal has arrived, and of the polling loop: the interpreter runs, and comes to
  each pending signal. No child has to end and nobody has to send a signal.

### What the violated runs say

* `SnapshotCacheReads`: `GetNodes` and `GetSnapshot` read the map without the
  lock, although the cache "must be thread-safe" (`pkg/cache/cache.go:31`). A
  `GET /nodes` that overlaps a `POST /bucket` can end the process.
* `XdsNames`: `CreateWatch` compares versions only. An Envoy that asks for one
  more name at the version it has waits until the next version, although "value
  channel produces requested resources, once they are available"
  (`pkg/cache/cache.go:35`).
* `BeaplaneFetch`: after one unary Fetch `cb.signal` is nil; the next
  `OnStreamRequest` blocks for ever with `cb.mu` held, and no stream is answered
  again. `SetSnapshot` "will cause the server to respond to all open watches"
  (`pkg/cache/simple.go:46`); it fills their channels, and nobody reads them.
* `HotRestarterStart`: the first Envoy fails while `main` is between `os.fork()`
  and `pid_list.append`. The SIGCHLD handler finds an empty list and exits with 0,
  although the script tears down "so that whoever started the restarter can know
  about this situation" (`hot-restarter.py:85-86`).

Divergences that have no run, since one look at the code shows them, or because no
document of the repository says otherwise; the models follow the code:

* Control plane. `GetStatusKeys` (`simple.go:323`) makes its result with
  `len(cache.status)` empty strings and appends the keys after them.
* locpick. The last, repeated location of a zone "is noloc" (`locpick.js:365`) except
  in the zone `zdevshell`, whose list ends in a real one. A gRPC call for a zone that
  is not configured ends the process (`locpick.js:283`).
* beacon. `gl.signal.loc` and its locpick identifier come from the info of the last
  call and not from the location just obtained (`beacon.js:401-404`). With
  `LOCPICK_GRPC_HOST` unset `init` throws (`beacon.js:164`).
* stage1. `server.test.js:93-127` expects 200 for a signal without
  `beacon_timestamp`; the handler answers 400. Neither stage1 nor montrer opens a
  lost connection again.
* montrer. A query that fails is never answered (`signals.js:98`). A location without
  lonlat makes `render` throw, and the page stays blank (`SignalMap.js:149`); its
  `componentWillUnmount` calls what is no function. `getClusters` tests objects with
  `indexOf`, so nothing is ever found twice.
* beaplane. A request without a node panics in a log line (`beaplane.go:104`), although
  `beaplane.go:120` and `manager.go:23` expect one; so does an item of routes without a
  virtual host or a route (`bucket.go:163`), in main's initial bucket for good.
* hot restarter. SIGHUPs handled inside `main`'s `restart_epoch += 1` are not counted
  (`hot-restarter.py:111`); after two of them an epoch comes twice.
* `config-beacons.js`. A failed command rejects and goes on to the next (233), and the
  orphan of a run with another file undoes what the next run has installed; the
  failure of a pod's last command ends the run with exit code 0 (241).
* `reset-locpicks.js`. It throws without `LOG_LEVEL` (28) and for a third locpick
  (`zone.lengh`, 159), and ends silently, with exit code 0, at a locpick that does
  not answer (177).
* obus. The server says that it listens when its port is taken. The client's TLS
  endpoint of locpick is fixed, and a beacon is pinged with locpick's message.

## 4. Proofs

`SnapshotCacheProofs`, `XdsServerProofs`, `BeaplaneProofs`, `LocpickProofs`,
`BeaconProofs`, `HotRestarterProofs`, `Stage1Proofs` and `ToolsProofs` prove, for all
values of the constants that satisfy the named assumptions, what the runs check on
small ones: every invariant, every action property and every refinement that a
passing run checks is a theorem. A few theorems have a hypothesis of their own, which
is stated below; nothing else is assumed.

**Snapshot cache** (`CacheAssumption`: the bounds are naturals, `Nil` is none of
the records, the contents are functions from types to names). None of the
properties is inductive: nothing in `NoOutdatedWatch` or `CancelIsOwn` says that
the next identifier is new. `CacheInv` adds

* `Numbered`: identifiers and channels are made in the order of the calls, those
  beyond the counters are unused, cancel functions carry no later identifier;
* `Filed`: an open watch is filed under the node of its request, and its channel
  exists and was never sent to;
* `Distinct`: two open watches share neither identifier nor channel.

There is one lemma for each operation (`SetSnapshotInv`, `ClearSnapshotInv`,
`OpenWatchInv`, `RespondNowInv`, `CancelWatchInv`, `ReceiveInv`, `ReadInv`), and
`CacheInvariant` puts them together. From it follow `CacheTypeCorrect`,
`NoOutdatedWatchHolds`, `RespondNeverBlocksHolds` and `CancelIsOwnHolds`, and,
step by step under the invariant, the action properties
`WatchClosedForCauseHolds` (which needs `Distinct` to tell a holder's cancel from
a stranger's) and `ResponseIsCurrentHolds`.

The same operations are those of any caller, so `SetSnapshotInv` and the rest are
used again for the server, and `NextCloses` and `NextSends` state the two action
properties of one step.

**xDS server** (`XdsAssumption`: callers are the pairs of a stream and a type, what is
loaded fits the cache). A stream lets go of its old watch and opens the new one in
two steps, and whatever `CreateWatch` returned may be overwritten; so that a watch
is not leaked is a matter of what *the rest* of `process` still knows. `XdsInv` is
the type invariant, `CacheInv` and

* `Holding`: no two streams or types hold one channel;
* `Handling`: from the nonce test to `CreateWatch` a request is of a known type and
  its nonce stays fresh, although loads and responses of other types go on;
* `Owned`: an open watch feeds the channel its stream selects on, its cancel function
  is at hand, the nonce kept for its type is the one its request carries, and there is
  none of that type between `Cancel` and `CreateWatch`, nor, during the deferred
  cancellation, of a type that is not still to be cancelled;
* `Fed`: without ADS, a channel that is waited on was sent to or has its watch;
* `Ordered`: from the Envoy over the wire and the channel to the cache, the numbers
  of the snapshots never fall.

One lemma per action (`XdsInvariant` joins them). `Owned` gives
`NoDanglingWatchHolds` and `WatchAnswersLatestHolds`, `Fed` gives
`WaiterNotForgottenHolds`, whose hypothesis is `~Ads`: in ADS mode an incomplete
request is dropped on purpose (`simple.go:243`), and `WaiterNotForgotten` is not meant.
`XdsImplementsPush` is step simulation of ConfigPush: a load publishes, an
acknowledgement delivers, and `Ordered` says that what it delivers is not older;
everything else stutters. Opening a stream anew clears the channels of its callers,
which is no step of the cache alone; `CacheUnderXds`, `ClosedForCauseUnderXds` and
`ResponseIsCurrentUnderXds` show that the cache keeps its promises all the same.

**beaplane** (`BeaplaneAssumption`: buckets fit the server, and `"main"`, the loader
of the initial bucket, is none of the HTTP handlers). `BeaplaneInv` is `XdsInv` with
`SignalOpen` (the callbacks never hold a closed channel: `OnFetchRequest` closes it
and forgets it under one lock), `BucketsHeld` (nodes are left only of a bucket that is
being loaded, and main loads only before it listens) and `DownForCause`, which is kept
since a stream that waits in its callback stays there once the process is down
(`StreamStops`). `BeaplaneTypeCorrect` and `DownForCauseHolds` follow;
`ServerUnderBeaplane`, `WaiterUnderBeaplane` and `BeaplaneImplementsPush` say that
nothing the callbacks and loads do takes from the server what it promises. `LoadsInv`
adds `Serial` (handlers load only after main has), `SetOrLeft` (each node of the
bucket being loaded has its snapshot or is still to be set) and `Settled` (a load that
panics has changed nothing); it gives `LastLoadWinsHolds` under the hypothesis that
the operator is one, `\A g, h \in Handlers : g = h`. Two who post at once can leave
the nodes with different buckets, which is the hazard at `beaplane.go:285`.

**locpick** (`LocpickAssumption`: each zone has a list that is not empty;
`NilAssumption`). `HoldersDistinct` is far from inductive: a holder's location
says nothing of the counter it came from. `LocpickInv` adds

* `Recorded`: the log is of the current sid and within the counters;
* `Complete`: what a counter has passed is in the log;
* `Dated`: what is held, or on its way, is of a sid not later than the current
  one, and within the counter if it is of the current one;
* `Apart`: any two locations in two beacons' hands, held or on their way, differ
  or are at the end of the list.

`IssueInv` is the common part of the two counters, `ReInitInv` that of `Reset` and
`Restart`, `HandsInv` that of deliveries, losses and beacon restarts. From
`LocpickInvariant` follow `LocpickTypeCorrect`, `HandedOutInOrderHolds`,
`NoneSkippedHolds` and `HoldersDistinctHolds`.

**Hot restarter** (`MaxForksAssumption`: at least one child). `NothingLeftBehind`
and `ExitCodeTells` speak of the end, and what makes them true is the bookkeeping
on the way. `RestarterInv` adds

* `KeptAreForked`: the pids in the two lists and in `main`'s hands are of children;
* `KilledAtExit`: the restarter kills nobody while it is up;
* `FailureIsKnown`: a child that failed is still in the list, or in `main`'s hands,
  or the handler that polled it has its flag up;
* `FlagHasCause`: the flag is up only for a child that failed.

One lemma per action, then `RestarterTypeCorrect`, `RunningIsTrackedHolds`,
`NothingLeftBehindHolds` and `ExitCodeTellsHolds`. `EpochGrowsHolds` is an action
property and has an invariant of its own, `EpochsBelow`: inside the `+=` the counter is
ahead of what `main` has read by the SIGHUPs handled there, and unless those were two or
more no child has the epoch that is next.

**Beacon** (`BeaconAssumption`, and those of Locpick). `BeaconImplementsLocpick` is
step simulation: every step of the composition is a step of Locpick or leaves its
variables alone. One step is neither by itself: a pod that ends drops its reply and
its location at once. `PodInv` says that no pod ever has both, and what a pod has at
each stage of `init`; `Listed`, that locpick records every location of its current
sid that is in anyone's hands. `BeaconInv` is the two with `LocpickInv` and the type
invariant. From the refinement `BeaconsApart` carries `HoldersDistinct` over; from
`BeaconInvariant` follow `BeaconTypeCorrect` and `SidMeansLocatedHolds`.

**stage1** (`Stage1Assumption`), under everything that montrer does. `AnswerIsTrue` is about
finished PUTs; `PutInv` follows each one: the row is there from the INSERT on and
not before, under the run that handles it, a code is set only at the end, and a
refused PUT never comes to a row. `Stage1Invariant` and `AnswerIsTrueHolds` follow,
one lemma per action of stage1 and one for all the steps that touch no PUT.
`MontrerTypeCorrect` needs that a PUT which waits for the database has a handler
(`Handled`), since its row names the run that wrote it.

**Operator scripts** (`ConfigAssumption`, `ResetAssumption`), as part of Tools.
`PodByPod` is not inductive because of the orphans. What saves a run from them is in
`ConfigInv`: `Bounded`, no file is of a later run, and the commands of a run bring its
file; `Awaited`, a run under way waits for one command, for its current pod, whose
earlier steps have their effect, and *only that command can be a copy*, so that what an
orphan of the same file installs is of this run or of an earlier one; `Behind` and
`Ahead`, what that means for the pods before and after the current one. `Behind` also
keeps the copied file of each pod done, because an orphan that installs it again must
not bring back an older one. An orphan with another file does bring one back, and
`PodByPod` and `FinishedIsRunning` except the pods where that came last (`strays`);
`NoStraysOfOneFile` shows that there are none while all runs use files of one name.
For `ZonesApart` and `NoneForgotten`, `ResetInv` ties each address that was reset
to its place in the list, and so to the zone of that place. `ToolsTypeCorrect` adds
`Ranges`: what an orphan installs is within the runs there have been.

**obus** (`ObusAssumption`: the client takes at least one turn, the bound of which is
`MaxTurns`). `AnsweredWhole` is about what a call was given; whether it is right
depends on what is on its way. `CallInv` follows one call: what is on its way down
continues what was given (`Downward`), the last message on its way says that this was
all, or that the call has failed, once nothing more goes up (`Ends`), and what goes up
with what was counted makes the whole (`Upward`). `ObusInvariant` has a lemma for each
way a handler answers (`AnswersMessage` and its neighbours), for a message that is
given, and for the death of the server. What a call is to be given has at most three
messages, so no induction over data is needed. `AnsweredWholeHolds` follows.

**Only model-checked.** Liveness (`Convergence`, `WatchesAreAnswered`, `ShutDownEnds`,
`FailureEndsIt`, `LastEndsIt`, `BecomesReady`, `PageCatchesUp`, `FinishedIsRunning`,
`CallsEnd`) is out of the prover's reach: TLAPS has no reasoning about ENABLED and
fairness.

## 5. Not modelled

The read-only operations (`Fetch`, `GetStatusInfo`, `GetStatusKeys`, the `GET`
routes of locpick, stage1 and beacon beyond those a beacon or a script calls): they
change no state. The gateway, which nothing starts. Functions that nothing calls:
`init_old`, `init_old_2`, `pingStage1` and `sendToStage1` of `beacon.js`, three
lookups of `config-beacons.js`. The contents of resources and their protobuf
encoding: only names and versions reach the logic. Logging, command lines but for
the options that change a program's course, container and build files, Envoy's
static configurations, the Grafana plugin for CrateDB (a vendored query builder), and
third-party images. The process-wide races that Go's memory model allows besides the
unlocked map reads: the counters `fetches` and `requests` are under `cb.mu`.
Envoy's routing of a beacon's signal to stage1: the signal loop that would
use it is commented out, so no module composes Beacon with Stage1.

## 6. Plan

Done: every module of section 2, and proofs of every safety property the passing
runs check. What is left:

1. Beaplane's `LastLoadWins` for several operators: what holds of the nodes when two
   post at once (each node has the snapshot of one of the buckets posted), as a
   property of its own.
2. A restart of the control plane with Envoys that keep their configuration.
3. That Beaplane implements the cache's specification, and not only keeps its
   properties; this needs the channels that a reconnection gives up in the cache.

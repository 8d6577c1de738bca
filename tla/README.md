# tallyawg in TLA+

tallyawg keeps per-peer traffic statistics of WireGuard and AmneziaWG
interfaces: it reads the kernel's counters every few minutes, accumulates them in a
ledger file that survives resets of the counters, serves them on a page, and
adds and removes peers. These modules model how it does that, TLC checks them on
small instances, and TLAPS proves all of it but liveness, for every size.

Line numbers are those of the repository this directory belongs to.

## Inventory

| Part | State it keeps | Operations | What is hard | What makes it correct |
|---|---|---|---|---|
| Ledger accounting, `ledger.go` | five maps by public key: `Peers` (total, hours, months), `Last`, `SessBase`, `SessAt`, `PrevOn` | `addDelta`, `updateSession`, `prune`, `loadLedger` with its backfill, `saveLedger`; readers `rows`, `availableMonths` | counters that reset on their own, one direction at a time; two calendars (hours UTC, months in the configured zone); files of older versions | no byte counted twice or lost; hours within months within total; a session per offline-online transition |
| Collector, `collect.go` | none between calls; the kernel's counters are its input | `collectOnce`: list interfaces, lock, load, dump and fold each interface, prune, save | interfaces that cannot be read, keys that move between interfaces, several processes | the saved ledger behaves like a book that follows the traffic |
| Atomic file replacement, `atomic.go` | the file and `<file>.tmp` | `writeAtomic`: open, write and sync, rename | a kill between any two of them | the path always holds a whole file |
| Lock, `lock_unix.go`, `lock_other.go` | flock on `<file>.lock` | `withLock` | best effort: runs unlocked where it cannot lock | writers of one file are serialised |
| Peer operations, `peer_ops.go`, `peer.go` | blocks of the server config, running peers, client configs and QR images, the ledger's key | `addPeer` with `undo`, `removePeer`, `forgetPeer`, `freeAddress`, `removePeerFromConf` | four places without a transaction; failures and kills between them; two locks, one per config | names and addresses distinct; nothing half made; what was removed stays removed |
| Names and configs, `names.go` | none | `namesFromConfig`, `namesFromFile`, `configPaths`, `resolveNames` | line-by-line parsing with state | a key gets the comment of its own block |
| Peer commands, `peer_cmd.go` | none | `peer add`, `peer rm`: `pickIface`, `resolvePeer` | ambiguous names | one peer or an error |
| Server, `server.go`, `admin.go` | mutex around `collectOnce`, one-slot trigger channel, ticker | background loop; `/api/usage`, `/api/peers`, `/api/update`; admin check | reads of ledger and kernel at different times, triggers that must not be lost | a peer seen on the page reaches the ledger; live session never negative |
| Self-update, `update.go`, `version.go` | `updating` mutex, check cache, the binary at the service's path | `selfUpdate`, `swapBinary`, `checkCache`, `newerThanRunning` | two requests at once, kill or failure between renames, errors cached for an hour | the path never stays without a binary; never a downgrade |
| Installation, `install*.go` | unit file | `install`, `uninstall` | one-shot administration | - |
| Report and zones, `report.go`, `tz.go` | none | rows of a period, today in a zone | day boundaries | today is what was booked in the local day |
| Page, `static/index.html` | last answer, request number | `load`, `render` | answers out of order | the last request's answer is shown |
| Command line, `main.go`, `options.go` | flags | dispatch | - | - |

The parts meet in four ways. The daemon's loop, the page's handlers and the
commands run in **several processes**, which share only files, their flocks and
the kernel. `collectOnce` and `forgetPeer` both replace the **ledger file** under
one flock. `addPeer` and `removePeer` change a **server config** under a flock of
its own, and `removePeer` calls `forgetPeer` inside it. Everything reads the
**kernel** through `wg`/`awg` at whatever moment the call is made.

## Modules

**Ledger** holds the accounting as pure operators. The five maps of the Go ledger
become one function from keys to an `Entry` with a field per map; a missing key
is `None` (or `known = FALSE`, or `prevOn = FALSE`, which the code cannot tell
from a missing one). `Delta`, `addDelta`, `updateSession`, `prune` and `backfill`
follow the functions of the same names; `foldPeer` is the body of `collectOnce`'s
inner loop. Counters are natural numbers: kernel counters are 64 bits and the
code's are `int64`, which traffic does not fill. Hours and months are functions on
all hours and months, where zero stands for a missing bucket.

**Collector** is everything that writes the ledger file. A *writer* is one call of
`collectOnce` or `forgetPeer` in any process. Its steps are the points at which
another process, the kernel or a failure can come between:

| pc | action | code |
|---|---|---|
| idle | `StartCollect`, `StartForget` | `wgInterfaces` before the lock; `forgetPeer` |
| waiting | `Load` | flock, `loadLedger`, the time stamp, the five deletes |
| folding | `FoldIface`, `SkipIface` per interface, then `OpenTmp` | the loop over interfaces, `prune`, `OpenFile` with `O_TRUNC` |
| writing | `WriteTmp` | write, sync, close |
| renaming | `Rename` | rename, unlock |
| any | `Fail`, `Crash` | an error return; a kill, which leaves the temporary file |

The kernel is the environment: `Traffic`, `Handshake`, `Attach`, `Detach`,
`Restart`, and `Tick` for the clock. Two variables no program sees, `carried` and
`zeroed`, record what really happened, for properties to compare the ledger with.

**AccountBook** is what the ledger promises its reader: a book per peer that is at
times brought closer to what was carried, never runs ahead of it and never goes
back, and can be erased. `Collector` implements it with
`book <- [p \in Pub |-> disk[p].total]` (`KeepsTheBook`).

**Rows** is what a reader makes of the ledger (`rows`, `availableMonths`, the default
month of `/api/usage`). A time zone is what it does to the clock: `DayOf` gives the
reader's day of a time, `ZoneMonth` and `UtcMonth` the collector's and UTC's month
of an hour, and days may have any length.

**Reader** puts that reader beside the collector, on a new installation or on one
upgraded from `OldFile`, a ledger of a version without months, and compares what is
shown before and after every step. A key that moves to another interface starts again
from that one's whole counter; that amount is of no day (`Growth`).

**PeerOps** is `addPeer` and `removePeer`. One action per step between two of the
four places a peer lives in; each step can fail, and `faults` records which kinds
of failure a behaviour has seen. A `wg set` that is killed by its time limit
(collect.go:24) may have done its work: `setLate`, `removeLate`. Errors the code
ignores are failures too (`read`, `undo`, `unlink`). A property that needs some kind
not to have happened names it (`Without({...})`); where a failure does harm at one
moment only, the property names the moment: `revived` has the peers that a restart set
again between the two halves of their removal, `blind` the calls that chose an address
without seeing every one now in use. `describeIface` and the page's and command line's
checks read only what does not change and are no steps; a call that is refused
before it touches anything is none either. An interface that comes up runs
`FromConf` of its config: each key with the address of its last block, unless a later
block takes that address.

**Confs** is the text of server configs. A line is what the programs tell apart: a
header alone on its line, a header with something behind it, a comment (with the
name it gives or the key it mentions), a key, an address. On it run the line
machines of the code, `namesFromConfig`, `removePeerFromConf`, `peerAddressIn` and
`confValue`, each with its own idea of where a block begins and ends, and `wgPeers`,
what `wg` reads in the same text.

**Admin** is a server administered over time: `peer add` and `peer rm`, the page's
`POST` and `DELETE`, and people who write blocks, rename peers in the names file and
take interfaces down and up. Calls run one after another and do not fail (that is
`PeerOps`); what matters is what each finds: `pickIface`, `resolvePeer`,
`resolveNames`, `ifaceHoldingPeer`, `peerFiles`. `Styles` is the way people write
blocks. Configs and names are looked for as without `-config` and `-i`: of the
interfaces that are up. What is assumed of people is named: they keep names apart
(`Unused`), and do not give up a name in the names file for the one in the block when
the file of that name has become another peer's (`OwnAgain`).

**Serve** is `tallyawg serve` and the page. `loop` is the goroutine that takes
snapshots: it selects the ticker's or the trigger's channel, takes the mutex and
the flock, reads the interfaces (`Dump`) and saves; since `Collector` shows that
the flock serialises whole snapshots, what was loaded is the ledger still. A
handler of `/api/usage` goes through the reads and writes of shared state, each of
which can find a different world: `LoadRows` under the mutex, `ReadLive` without
it, `Kick`, which sends to the trigger unless it is full, and `Reply`, which the
page takes or, by its `reqSeq`, discards. `DeletePeer` is the page's; `RemoveLive`
and `ForgetPeer` are the two steps of `removePeer` that `/api/usage` can see (its
other steps and failures are in `PeerOps`). `told`, `newest` and `deletedAt` are
history for the properties.

**Update** is `selfUpdate`, for handlers of the service, which share a mutex, and
for command lines, which are processes of their own. Between `Check` (the version
comparison) and `Swap` (the rename) lie a download, a trial and a backup, and at
each of them the call can fail, be killed, or be killed by the restart that an
earlier update asked for. Releases come and are withdrawn; `Trial` says what each
does on this system when it is run. Nothing reads the backup, so only whether it is
there is kept.

**Check** is the answer to the page's question for updates: the cache of `latestTag`,
filled by whoever finds it an hour old, under a mutex held across the fetch. Time is
in ticks, of which an hour has `CheckEvery`; a fetch is given up before it outlasts
one. `unseen` and `asked` are the ages the properties need.

**MCCollector**, **MCPeerOps**, **MCAdmin**, **MCUpdate** instantiate them for TLC;
`Serve` and `Check` need no definitions for it. The
proofs are in **Collector_proofs** and, on top of it, **Reader_proofs**;
**PeerOps_proofs** and, on top of it, **PeerFaults_proofs**; **Admin_proofs**,
**Serve_proofs**, **Update_proofs** and **Check_proofs**. Definitions introduced by a comment "Bug:"
(`NoLock`, `Difference`, ...) are the wrong versions of their neighbour that each
property was tried against; nothing else uses them.

## Runs

| Run | Config | Result |
|---|---|---|
| still | two interfaces, one peer, one direction, two writers, 2 bytes, the clock stands still | passes |
| clock | one interface, one peer, one writer, 2 bytes, three hours, boundaries of days, months, years | passes |
| calls | two interfaces with own directories, 3 keys, 2 names, 2 hosts, two calls, one kind of failure | passes |
| texts | a wg and an awg interface, 2 keys, 2 names, 2 hosts, two edits by hand | passes |
| serve | one peer, two handlers, 1 byte, two loads, one failed snapshot | passes |
| update | two handlers, one command line, four releases, one of which hangs | passes |
| check | two releases, two handlers, two ticks an hour | passes |
| multihomed | as `still`, `MultiHomed` | `NeverCountedTwice` violated |
| zones | as `clock`, ticks of half an hour, a reader whose day begins half past | `TodayIsExact` violated |
| names | two interfaces with one directory, no failure | `UniqueNames` violated |
| takeover | one interface, 2 keys, one call at a time, one kind of failure | `ClaimsUnusedAddress` violated |
| headers | as `texts`, headers with a comment | `ConfigErased` violated |

**still** asks whether interleaving can corrupt the accounts. `NeverCountedTwice`
and `AllAccounted` bound the saved total from above and below by what was carried;
`SavedOnlyGrows` says only an erasure takes bytes away, so no writer undoes
another; `LedgerIsWhole` that no kill leaves half a file. Entries of different keys do not interact, so one key is
enough. Two bytes are the least for which a partial reading, a reset and a
regrown counter differ. No handshake is recent enough for a peer to be online
(`OnlineSecs = 0`): sessions are left, like the clock, to the next run. `TodayIsExact` is
checked here for peers that change interface within the day, which `clock` with its one
interface does not have: `Rebaselined` must keep what was booked before the move, and
not read the old baseline against the new counter. Both directions are treated by the same operators
independently, which the proofs do not rely on.

**clock** asks whether time can. The hour changes twice, detail is kept for one
hour, a peer is online during the hour of its handshake, and the collector's zone
enters each month one hour before UTC. Initial
states are a new installation and one upgraded from a ledger with hours but no
months. `SessionsOpenOnce` compares consecutive files, whether the peer is online in
them or not: a session keeps its baseline and start, unless its peer goes online, where
it counts from the snapshot before, or the counters fell below the baseline, where it
counts from zero. It says nothing of a peer that moved to another interface, whose
counters say nothing of the ones before, and of one more case (see *Sessions* below).
`MapsAgree` says that the five maps never disagree, whatever is erased when.

A reader in the collector's zone stands beside it. Its days are two hours long, its
years one month or two. `TodayIsExact` does not
recompute today: it says how today may change. It grows by what a
snapshot of that day books, it is emptied by midnight, and no prune, backfill or
snapshot that straddles midnight does anything else to it. `HoursInTheirMonth` and
`RowsNest` relate the two calendars: hours are keyed by UTC; months follow the
configured zone, but those rebuilt for the hours of an old file are UTC's. The old file
has its byte in an hour whose month the two calendars disagree on.

**calls** asks what an add or a removal leaves behind. `AddressesDistinct` needs calls
to overlap; `NoHalfPeers` covers the failures `undo` handles, a `wg set` that was killed
too late among them; `LiveIsConfigured`, `RemovedStaysRemoved` and `ConfigOnFile` hold
in the middle of calls too. `RemovedStaysRemoved` and `AddressKept` are claimed of every
behaviour, restarts and failed reads included, and name the moments that make an
exception. A kind of failure can strike any number of times in a
behaviour, but only one kind. The same properties were also explored with pairs of
kinds on 2 keys (394,083 states, no error). `NothingStranded` says when a removal
can be repeated; each of the six kinds of failure it leaves out was tried, and
does strand something.

**texts** asks whether programs that go by lines agree with `wg`, which goes by
grammar, about text that people write too. Two edits are the least for which a
hand-written block can stand before and behind one of `addPeer`'s and one of another
hand. A block has a name in it or not, and behind it nothing or a note about some
peer, whose name the next header must drop. With two hosts an address is given again
as soon as its peer is gone. `ServesOwnConfig` is about the fallback from name to
address, `RemovesExactly` about everybody else when one peer goes, `NamesAreOwn`
about what all of it is filed under. All three are of peers no comment mentions by
key (`Clear`). People keep names apart (`Unused`): a names file that gives a peer
the name of another makes a removal delete the other's config. `OwnAgain` matters from
three edits on: a peer takes a name, another is filed under the name that was in the
first one's block, and the first gives its new name up again. The proof is of any number
of edits.

**serve** asks what a page can show and what must happen in the end. `SessionsAddUp` needs a
snapshot and traffic between a handler's two reads; `DeletedStaysOff` an answer that
overtakes another: one load that is in flight while the peer is deleted, and one
after. `NewPeerLands` needs a kick while a snapshot runs that has read the interfaces
already, or while the slot is full. One snapshot may fail, or have its tool hang until
`wgTimeout`, which is what `RequestsAreAnswered` rests on. Rows of different peers do
not interact; the two safety properties are theorems for any number of peers, loads and
bytes.

**update** asks what a failed, killed or overlapping update can do to the installed
program. The releases 0.7.1, 0.8.0, 0.9.0 and 1.0.0 are such that comparing parts
one by one, without their order, would take 0.8.0 for newer than 1.0.0; there are
two good ones above the oldest, so that two updates can differ. Two handlers are
the least that can contend for the mutex; the command line stands for everything
outside the process.

**check** asks what a shared, hourly answer can do wrong. Two handlers are the least
that find the cache stale at once; two ticks an hour leave room for a release and an
outage within one. `ErrorsPass` has as premises that GitHub answers for good from
some time on and that pages keep asking.

Bounds: `MaxBytes`, `MaxLoads` and `MaxFailures` cap traffic, the page's requests
and failed snapshots in `Serve`; `MaxEdits` caps edits by hand in `Admin`, whose
other steps are bounded by keys, names and hosts; ages in `Check` stop where no
condition tells them apart; `MaxCarried` caps traffic, `MaxTime` the clock, `LastHost` the subnet,
`MaxFaults` the kinds of failure, `Pub` the keys `genkey` may return. Deadlock is
checked for the collector, where a writer can always start; it is off for
`PeerOps`, which stops when keys have run out. In `Admin` an interface can always go
down or come up.

Symmetry is used on writers, calls, keys and names, none of which the
code orders, and only in runs without liveness; interfaces are ordered and are not
symmetric.

Fairness is assumed in three places. In `Serve`, weak fairness of the snapshot
goroutine and of each handler's steps: they are goroutines that nothing blocks for
good, as every external tool returns. Taking the mutex is the exception: snapshots
disable it over and over, and it has strong fairness, because Go's `sync.Mutex`
hands over to a waiter that starves (after 1 ms). Nothing is assumed of the
environment: not that the ticker fires (`RunningPeerLands` has it as a premise), not
that requests come, and not that a step that can fail does so. In `Update`, weak
fairness of each call's steps: each fetch, the download and the trial have time
limits (`metaTimeout`, `downloadTimeout`, 30 seconds), after which the call fails. In
`Check`, time goes on and a fetch ends, weakly; the mutex is strong, for the reason
given. That every external tool returns is no assumption but `wgTimeout`: a snapshot
whose tool hangs goes on by `TimeOut`.

## What the violations say

- **multihomed**: a key on two interfaces counts again in full each time a snapshot
  skips the first interface, and again when it comes back. Once per flap, the whole
  counter.
- **zones**: hours are kept by UTC and days are cut between them. In a zone off the
  hour, the hour of midnight is today's as a whole: today begins with the last half
  hour of yesterday.
- **names**: the name check reads all configs, the lock is one config's.
- **takeover**: `freeAddress` ignores that it could not list the addresses in use
  (peer.go:125), and then the lowest host is unused to it, whoever has it. `wg set` takes
  the address from the running peer, which loses its connection while its config on file
  is unchanged.
- **headers**: `removePeerFromConf` compares the whole line with `[peer]`, `wg` drops
  comments first. The peer leaves the interface, its client config is deleted, the
  call succeeds, and the block stays.

## Known limits

What the models show that no line of the repository promises otherwise, or that a
property leaves out by name.

- *Resets.* The counters reach *n*, a snapshot reads them, the interface restarts,
  and *n* or more bytes are carried before the next snapshot: `addDelta` adds the
  difference only, and *n* bytes are lost. `AllAccounted` is of counters that were
  never zeroed.
- *Files.* "removePeer erases the peer from the interface, the config, its files and the
  ledger" (peer_ops.go:234), but it deletes files by the name the peer goes by, while
  `peerFiles` finds a client config also by address. A config stored under another name,
  as after a rename in the names file, which the page served, stays on disk with its
  private key. No property claims the files of a removed peer to be gone.
- *Sessions.* `updateSession` recognises a restart against the session's baseline,
  `addDelta` against the last reading. When a peer comes online with counters between
  the two, its session starts at a baseline they have not reached, and shows nothing
  until they do. Of this case `SessionsOpenOnce` says nothing.
- *Months.* The repository has two statements about them: the comment on the field has
  "Months by UTC" (ledger.go:21), the code and the comment on it have "months follow the
  configured one" (ledger.go:137-139). The comment on the field is right only of the
  months that the backfill makes of an old file (ledger.go:90). `HoursInTheirMonth` says
  what the code does, in both cases; the hour in which the upgrade fell has bytes of both
  kinds and is left out if the old file has it.
- *Addresses.* `freeAddress` sees running peers only. A block whose peer does not run
  (an append that failed, a kill before `wg set`, a rewrite that failed, a removal that
  was killed after it took effect) keeps an address that is given out again.
  `AddressesDistinct` names these failures. When the interface then restarts, the last
  of the blocks gets the address, and a running peer may lose it: the second exception
  in `AddressKept`. The first is an add that did not see all addresses in use
  (**takeover**).
- *Removal and restart.* An interface that goes down and up between the two halves of a
  removal, after `wg set ... remove` and before the config is rewritten, sets the peer
  again. The removal reports success; the peer is let in until the next restart, and the
  next snapshot books it again. It has no block then, so a second removal finds it only
  while it runs. `RemovedStaysRemoved` says that nothing else brings a removed peer back.
- *Stranded peers.* A removal that fails in
  `forgetPeer`, or is killed after it rewrote the config, cannot be repeated:
  `ifaceHoldingPeer` no longer finds the key, so the history stays, and the name
  stays taken by the client config. An add that is undone after its peer ran, for want
  of a client config or because `wg set` was killed too late, leaves its history if a
  snapshot came between. `NothingStranded` names these.
- *Killed removals.* A removal that takes over from a killed one reports success but cannot
  look up the name, so the client config with the private key stays; so it does when it
  cannot be unlinked, which `removePeer` ignores (peer_ops.go:258). `RemovedStaysRemoved`
  leaves both out by name.
- *Overtaking.* Versions are compared before the download: a
  command line that is overtaken by an update of another process installs the older
  release it had chosen, and the service is restarted with it (`NeverDowngraded`
  leaves this out by `crossed`; within one process the mutex excludes it).
  `InstalledAsReported` leaves out by `crossed`, too, what a request and a command line
  do to each other.
- *Slow checks.* A page that waits behind another's fetch is answered
  (`EveryoneAnswered`), but the answer may come too late for it: a fetch may take 60
  seconds (update.go:48), as long as the server keeps a connection (server.go:272).
- *Names.* `peer rm` takes a public key only of a peer that has a name
  (`resolvePeer` looks it up among the names). The names in the config of an
  interface that is down are invisible, also to the check of a new name. A comment
  that mentions a key counts as its block.
- *Two keys, two interfaces.* A key in the configs of two interfaces is removed from
  one of them per call.
- *Report.* `report` takes its default month in the zone it was given, which need not be
  the collector's; `/api/usage` takes the collector's.

## Proofs

Nothing in a proof is bounded: keys, names, interfaces, directions, writers, calls,
handlers, releases, the calendar and the length of an hour are arbitrary, and the bounds
of the runs are any numbers. What the constants are assumed to be is
named at the top of each module. Beyond that, these assumptions are made, in the
theorems that need them:

- of `Collector`, `~MultiHomed` (a key belongs to one interface at a time;
  **multihomed** shows it is needed) and `~FlockFails` (the flock can be taken);
- of `ConfigsKept`, that no two configs share a directory (**names** shows what
  happens where they do). All other theorems about `PeerOps` are of any directories;
- of `Reader`, `~FlockFails`; for `RowsAlwaysNest` also `SameZone`, a reader in the
  collector's zone, which is the one server.go:85 speaks of; for `TodayIsAlwaysExact`
  `WholeHours`, midnight on a whole UTC hour (**zones** shows what happens elsewhere),
  and `KeepsTheDay`, that `prune` leaves a day (it leaves 70). All of them hold in **clock**,
  those of `TodayIsAlwaysExact` in **still** too;
- of `Admin`, for the two theorems about removals, `HeadersAlone`, that people put nothing
  behind a header (**headers** shows why).

The theorems about `Collector` are of `Spec`, which begins with a new installation, those
about `Reader` of `UpgradeSpec`, which may begin with a ledger of an older version.

| Module | Theorem | Establishes |
|---|---|---|
| `Collector_proofs` | `InvariantHolds` | `Spec => []IInv` |
| | `TypeCorrect` | `[]TypeOK` |
| | `FileWhole` | `[]LedgerIsWhole` |
| | `CountedOnce` | `[]NeverCountedTwice` |
| | `NoUpdateLost` | `SavedOnlyGrows` |
| | `Refinement` | `Book!Spec`: `Collector` implements `AccountBook` |
| | `SnapshotInvariant` | `[]SnapshotInv` |
| | `MapsAlwaysAgree` | `[]MapsAgree` |
| | `NothingLost` | `[]AllAccounted` |
| | `SessionsBeginOnline` | `SessionsOpenOnce` |
| `Reader_proofs` | `ReaderInvariant` | `UpgradeSpec => []ReaderInv` |
| | `HoursStayInTheirMonth` | `[]HoursInTheirMonth` |
| | `RowsAlwaysNest` | `[]RowsNest` |
| | `TodayIsAlwaysExact` | `TodayIsExact` |
| `PeerOps_proofs` | `InvariantHolds` | `[]IInv` |
| | `TypeCorrect` | `[]TypeOK` |
| | `NamesStayDistinct` | `[]NamesDistinct` |
| | `ConfigsKept` | `[]ConfigOnFile` |
| `PeerFaults_proofs` | `FaultInvariant` | `[](IInv /\ FInv)` |
| | `OnlyConfiguredRun` | `[]LiveIsConfigured` |
| | `RemovedForGood` | `[]RemovedStaysRemoved` |
| | `AddressesStayDistinct` | `[]AddressesDistinct` |
| | `AddressesKept` | `AddressKept` |
| | `NothingLeftBehind` | `[]NothingStranded` |
| | `AllOrNothing` | `[]NoHalfPeers` |
| `Admin_proofs` | `AdminInvariant`, `AdminTypes` | `[]AdminInv`, `[]TypeOK` |
| | `NamesAreAlwaysOwn` | `[]NamesAreOwn` |
| | `ConfigsServedAreOwn` | `[]ServesOwnConfig` |
| | `RemovalsAreExact` | `RemovesExactly` |
| | `RemovedStaysAway` | `ConfigErased` |
| `Serve_proofs` | `InvariantHolds`, `TypeCorrect` | `[]IInv`, `[]TypeOK` |
| | `SessionsNotClipped` | `[]SessionsAddUp` |
| | `DeletedStaysDeleted` | `[]DeletedStaysOff` |
| `Update_proofs` | `InvariantHolds`, `TypeCorrect` | `[]IInv`, `[]TypeOK` |
| | `ProgramRuns` | `[]InstalledRuns` |
| | `NoDowngrade` | `[]NeverDowngraded` |
| | `ReportIsTrue` | `[]InstalledAsReported` |
| | `LeavesNothing` | `[]NothingLeft` |
| `Check_proofs` | `InvariantHolds` | `[]IInv` |
| | `HourBetweenRequests` | `AskedHourly` |
| | `AnswersRecent` | `ToldRecent` |

None of these properties is inductive as it stands: what a step writes was decided
several steps before, while others went on. Each inductive invariant carries the claim
through the call. All of them were checked by TLC as invariants before they were
proved.

**Collector.** `NeverCountedTwice` is about the file, and what replaces the file was
loaded and folded many steps earlier, while traffic went on. `Safe(e, p)` says that entry
`e` *and the next reading of `p`'s interface on top of it* stay within what was carried.
Every kernel step keeps every safe entry safe (`EnvironmentSafe`), folding a reading
keeps it safe (the fold lemma; this is where resets and moves are decided), and `CallInv`
says that what a call holds in memory is safe and has all that the file has, which only
mutual exclusion (`LockInv`) makes true until the rename. `FileInv` also says that files
written by this version never need the backfill.

**Snapshots.** `SnapshotInv` says the same of the other claims about the file. An entry
`Accounts` for a peer when its total and the next reading are exactly what was carried
and the counters have not fallen below the last reading. What a call holds in memory
accounts for the same peers as the file, except the one it erases, agrees in its maps,
and is one snapshot after the file: `Follows` until the rename makes it the file. A key
has been seen once at most in a fold; before, memory is the file's entry, which is why
one interface per key is needed.

**Readers.** What `rows` shows are sums over hours and months. `HourSum` is a fold, that
is, the value of a recursive function that the definition merely chooses; the proofs
show first that the function exists and is unique, by induction on the subsets of a
finite set (the minimal counterexample of a well-founded order, in the form that takes a
set and no operator), and then that sums split, grow and compare as sums should. On that
rests `ReaderInv`: in the file and in every call's memory, each month has at least its
own hours, all months together, and all hours together, at most the total, and no hour is
in the future (`Booked`, `Past`). Hours, months and total are kept in step by `addDelta`,
whatever `prune` drops, and by the `backfill` of an old file. `MonthsInv` says of what a
load makes of the file, and of every call's memory, that the months also have the old
file's hours, by the other calendar. For `TodayIsExact`, what a
call under way has for the hour of its reading is what the file had plus exactly what the
call has booked, and its other hours of that day are the file's (`CallReads`, `DayGrown`,
`Gain`); `prune` takes none of the day's hours.

**Configs.** `AdminInv` says what every config looks like whatever was written and
removed (`Shape`): line after line, each is one that may stand below the one above
(`Follows`), and no key is declared twice, in one config or in two (`OneConfig`). From
that it follows, for texts of any length, where every section begins and ends, which one
declares a key (`SectionsAre`, `OnlyKey`), what `wg` reads (`WgPeers`), and, by induction
along the lines, what the machine of `namesFromConfig` has in mind behind each of them
(`Knows`). A fold over lines is treated as the sums are. A removal leaves a text of the
same shape in which all other blocks are as before (`CutIs`, `Lost`, `Removed`): what is cut
is from the header of the block to the next one, and blank lines above. Beside the text
stands `FilesAreOwn`: the file of the name that a peer goes by, or would go by if the names
file dropped it, is the peer's. `ServesOwnConfig` needs it for the answer by name, and
`OneHolder`, that no two peers of a config hold one address, for the answer by address.

**Peers.** `IInv` says what the lock of a config gives (`LockInv`) and what it cannot:
two calls of one key work on different interfaces under different locks, so `OneHome`
keeps every key at home on one. `WorksOn` says that between the check of a name and the
append the name stays free, and that a removal's name and key are those of one block.
That invariant holds under every failure. `FInv` has the claims that some failures break,
each with the failures it excludes: who runs is configured (`LiveInv`), whose key a
call works on does not run before it is set nor after it is taken off (`OffInv`), a
client config or history is that of a block or of a removal on its way (`FilesInv`,
`LedgerInv`), a block's peer runs with its address but for a call on its way (`BlocksRun`),
an address stays free from `freeAddress` to `wg set` unless the call is `blind`
(`AddrInv`), and who was added is configured until removed (`MadeInv`). Two parts exclude
no failure: a peer runs with the address of its block or with none (`LiveAddr`), and
only a restart makes a peer `revived` (`RevivedInv`). The proof first shows what each step of a call can
do (`CallMoves`), one formula per step and outcome, and then goes by these.

**Serve.** `SessionsAddUp` compares rows with counters read later, so the ledger, a
snapshot's copy of it and a handler's rows are never ahead of the counters
(`LedgersBehind`, `RowsBehind`). `DeletedStaysOff` needs that a deleted peer is gone also
from the ledger a snapshot is about to save (`DeletedGone`: the flock keeps the erasure
out of snapshots), and from what every later request has read (`AnswersWithout`).

**Update.** `newerThanRunning` is shown to be a strict order on versions. A handler's
release is newer than the running service because handlers exclude each other
(`OneHandler`); a command line's is newer than the installed program only until another
process replaces it, which is what `crossed` records. What is renamed over the program
was run (`TriedOut`) and is the call's own file (`OwnTemps`).

**Check.** The cache was filled no longer ago than GitHub was asked, unless it is being
asked (`FilledSinceAsked`), and its tag was the newest then, but for a tick a fetch may
take (`CacheWasLatest`).

What stays with TLC, and why:

- `NewPeerLands`, `RunningPeerLands`, `RequestsAreAnswered`, `UpdateEnds`, `ErrorsPass`,
  `EveryoneAnswered`: liveness under fairness, and `ENABLED`, are beyond the prover.

These are all the properties of the passing runs that are not theorems.

## Not modelled

- Power loss: `writeAtomic` syncs the file but not its directory. A kill of the
  process is modelled, a loss of the machine's buffers is not.
- A clock that is set back.
- IP, kind and wording: labels that no decision here depends on.
- The flock that fails: `FlockFails = TRUE` is in the model, but no property is
  claimed for it, as the code calls it best effort.
- In `PeerOps`: the text of configs (a block cut short keeps its key and name and
  loses its address; a cut inside the key makes a block no program reads; see
  `Confs`), names
  equal up to case (one name), the QR image (goes with the client config).
- In `Serve`: restarts of interfaces (counters only grow; resets are `Collector`'s),
  the `collect` command beside the service, a service that is killed.
- In `Rows`: names and order of the rows. In `Admin`: lines of the names file that
  name addresses, `-config` and `-i`, the private parts of client configs.
- In `Update`: why a fetch or a verification fails, only that it may; that a temporary
  file or a backup cannot be unlinked, which the code ignores (update.go:277, 308).
  Leftover files of killed calls have names no one uses again.
- Installation: a sequence of steps of one process, run by hand; a second copy of the
  program to the same place at the same time is not considered.
- The admin check, the command line, the parsing of zones, rendering: no state to speak
  of.

## Plan

Done: `Ledger`, `Rows`, `AccountBook`, `Collector`, `Reader`, `PeerOps`, `Confs`, `Admin`,
`Serve`, `Update`, `Check`, and the proofs above. Next:

1. An abstract specification of `PeerOps`, a set of peers that are added and removed in
   one step each, which it implements while nothing fails.
2. Restarts of interfaces in `Serve`, whose counters only grow so far.

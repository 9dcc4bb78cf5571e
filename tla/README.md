# TLA+ models of Nebraska

Nebraska is an update manager: machines ask it, over the Omaha protocol, whether
there is an update for them, and it decides by the policy of the group they are in
whether they are granted one. This directory holds TLA+ modules translated from the
Go code under `src/`, configurations that model-check them with TLC, and proofs
checked with TLAPS. Paths below are relative to `src/backend/pkg/` unless they begin
with `src/`.

## Inventory

| Part | Code | State | Operations |
| --- | --- | --- | --- |
| Rollout engine | `api/runtime/{updates,instances,events,groups}.go`, statistics in `api/internal/dbreads/groups.go` | `instance_application` rows (status, version granted, when, in progress, last seen), `group_local` (brake, rollout flag) | update check, syncer's update check, event, ping, policy enforcement |
| Omaha handler | `omaha/omaha.go` | none | events, then the ping, then the check of a request |
| Client library | `src/updater/` | version, update at hand | `TryUpdate` and the calls it is made of |
| Catalogue | `api/admin/{packages,packages_floors,channels}.go` | packages, channels, floors, blacklist | create, update, delete of each; marking floors |
| Group administration | `api/admin/groups.go`, `api/runtime/groups.go`, `handler/admin/groups.go` | `groups` (policy, track) | create, update, delete, clearing the brake |
| Syncer | `syncer/syncer.go` | versions and machine IDs in memory, the mirror's packages, floors and channel, payload files on disk | poll, process manifests, download, clean up, restart |
| ID caches | `api/internal/dbreads/{groups,applications}.go` | two maps under a lock each | lookup, refill, invalidation |
| Distributed groups | `api/runtime/groups.go`, migrations `0023`, `0024`, `handler/internal/shared` | `groups` replicated from the control node to its edges; `group_local` and machines on each node | copy, replicated change, brake, edit dialog |
| Sessions | `sessions/`, `sessions/memcache`, `sessions/echo` | reference-counted sessions in memory | get, save, mark, destroy, put back |
| GitHub logins | `auth/github.go` | index of each user's sessions, users of each team | page, bearer token, login callback, webhooks |
| Connection pool | `api/api.go` and every query of `api/` | connections in use, locks held | take, give back |
| Charts | `api/internal/dbreads/groups.go` (`GetGroupVersionCountTimeline`) | completed updates in `instance_status_history`, a cache of one minute | compute, store |
| Everything else | `handler`, `middleware`, `server`, `auth/oidc.go`, `codegen`, `config`, `metrics`, `tlsutil`, activity log, teams, users, `src/frontend`, `src/charts` | rows of their own, or none | reads, conversions, single-row writes |

Interactions. The Omaha handler looks a machine's track up in the map of groups and
calls the rollout engine; the engine reads groups, channels and floors that
administrators' requests write; `UpdateGroup`, `UpdateChannel` and the brake change
under machines' feet. A syncer is a client of the rollout engine of another Nebraska
and an administrator of its own. A control node's groups reach the edges by PostgreSQL's
logical replication, behind the back of the processes there. All requests are goroutines
on one PostgreSQL pool, several servers may share the database, and no handler of the
rollout engine uses a transaction or a lock.

What is hard. Statistics are read and grants written by different statements;
the row an event was checked against may have changed when its status is written;
machines and answers get lost in the middle of an update; time passes rows out of the
statistics; a process dies between statements; requests that look before they write
overlap; a map is filled while what it is filled from changes; a request waits for a
connection while it holds one; a session is marked by one request while another saves
it; disk and database are written one after the other. `PROJECT.json` lists these
hazards line by line.

What correct means, per part:

* engine: the limits of a group are kept for the machines seen at least once a day (or
  overshot by a known amount when requests race), an instance is never refused both its
  checks and its events, a grant steps to the next floor, safe mode starts with one, the
  rollout flag is up while an update is in flight;
* client with engine: what runs is counted, what is installed was granted, every
  machine that the server keeps in sight gets its update;
* catalogue: references exist; floor, target and blacklist do not contradict each
  other; an update of a blacklist is applied whole;
* syncer: the mirror's channel never gets ahead of its floors, and follows upstream;
  a hosted package has its files;
* caches and nodes: machines are looked up in what the table says, up to a change being
  announced; node-local rows come and go with their group; a node's brake stays there;
* sessions: none is destroyed under a request or left behind; whoever is logged in can
  be logged out by a webhook;
* pool: requests stop for good only when nested requests have used all connections up,
  never for the locks alone;
* charts: each instance is counted once, at a version it had at the time.

## Modules

| Module | Models | Composed with |
| --- | --- | --- |
| `Rollout` | the rollout engine of one group, a handler per action | `UpdateLease` by refinement |
| `UpdateLease` | abstract: a pool of leases | |
| `RolloutRace` | the same handlers split at their database statements, with crashes | extends `Rollout` |
| `Updater` | machines running `TryUpdate` over a lossy network | extends `Rollout` (the server they talk to) |
| `Syncer` | a mirror of one channel, with failures and restarts | extends `Rollout` (the upstream it polls) |
| `Hosting` | a mirror that hosts the payload files too | extends `Syncer`, which it implements |
| `Catalog` | administrators' requests about packages, channels, floors, blacklists | |
| `GroupCache` | groups by node and the maps from tracks to groups | |
| `Distributed` | control node and edges: replication, node-local rows, edit dialog | extends `GroupCache` |
| `Sessions` | the session store | |
| `GithubAuth` | logins, the index of a user's sessions, webhooks | extends `Sessions` |
| `ConnPool` | workers taking connections and locks by scripts | |
| `Operations` | the scripts of the server's operations | extends `ConnPool` |
| `Timeline` | the chart of a group's versions over time | |
| `RolloutProofs`, `RolloutRaceProofs` | theorems | extend `Rollout`, `RolloutRace` |
| `UpdaterProofs` | theorems, some from `Rollout`'s | extends `Updater`, `RolloutProofs` |
| `SyncerProofs` | theorems of `Syncer` and `Hosting` | extends `Hosting`, `RolloutProofs` |
| `AdministrationProofs` | theorems of `Catalog` and of `Timeline`: what administrators change, what they are shown | extends both |
| `ConnPoolProofs` | theorems of `ConnPool` and `Operations` | extends `Operations` |
| `DistributedProofs` | theorems | extends `Distributed` |
| `GithubAuthProofs` | theorems of `Sessions` and `GithubAuth` | extends `GithubAuth` |
| `MC*` | instances for TLC | extend the module in their name; `MCSessions` extends `GithubAuth`, `MCConnPool` extends `Operations` |

### Rollout

`rows[i]` is instance `i`'s row of `instance_application`: `version`, `status`,
`lastUpdateVersion`, `updateInProgress` are the columns; `grantAge` and `checkAge` are
the time since `last_update_granted_ts` and `last_check_for_updates`. The code only
compares differences of times with thresholds, so ages that grow together (`Tick`) and
stop at `MaxAge`, beyond every threshold, lose nothing. `Period`, `Timeout`, `Recent`
(the five minutes of `RegisterInstance`) and `Validity` (one day) are the thresholds.
`lost` is a history variable: since its grant the row has once been without a check for
`Validity`. `policy` is the group's policy, `channel` the version of its package, its
floors and what is blacklisted for it; `brake` and `rolloutInProgress` are the columns
of `group_local`. Versions are numbers: the code uses only their order.

Actions: `GetUpdatePackage` (with `RegisterInstance`, the answer to a machine that
asks again, `enforceRolloutPolicy` and the grant), `GetUpdatePackagesForSyncer`,
`Ping`, `RegisterEvent` (one disjunct per consequence), and the administrator's
`UpdateGroup`, `ClearUpdatesEnabledOverride` and `ChangeChannel`. Office hours are a
group's property; whether a check falls in them is left open.

Rows are read with a filter of one day (`api/internal/dbreads/instances.go:79`): of a row
that was last seen earlier, `GetInstance` makes an empty application. An event for it is
refused (`RegisterEvent`'s `i \in Seen(rows)`). A check is handed what `RegisterInstance`
read before its own write (`api/runtime/instances.go:99`), so the first check after a
day's silence is `CheckUnseen`: it sees neither status nor grant, runs the policy, may
trip the brake, and whatever it would write to the row fails. Where the machine's own
record is written as well (it is new, or its address or alias has changed) the row is
read again, so an unseen check may also be taken as any other. `NoLimit` stands for
`maxParallelUpdates`, the number from which on a group has no limit.

### RolloutRace

`req[w]` is what worker `w`'s request is at and what it has read. A check is
`BeginCheck` (registration and reading the row), `ReadGroup`, `Count` (the statistics),
`Hold`, `Grant` or `GrantFails`, `RaiseFlag`; an event is `BeginEvent`, `WriteStatus`,
`SeeOutcome`, `DisableUpdates`, `ClearFlag`. `known` says whether a check was handed a
row or the empty application of an unseen one. `Crash` ends a request anywhere. Between
any two steps other requests run. The administrator stands still, and time does while
requests run, as the ages are counted in units far longer than a request.

### Updater

`updater[i]` is where `TryUpdate` of machine `i` is, the version it runs and the one it
was offered. A check is `Rollout`'s `GetUpdatePackage` with its answer. `EventOf` says
which of `Rollout`'s event consequences a progress report comes to, and `Hears` puts the
tests of `RegisterEvent` before it. Omaha's handler answers a report with ok
whatever became of it, so a report fails exactly when the request or the answer is lost
(`ReportLost`, before or after the server has heard it).

### Syncer

Upstream is `Rollout`, with the syncer's machine IDs as its instances. `mirror` is the
database the syncer writes: packages, floors and the channel's package. `syncer` is its
memory: the machine ID and the version it reports, and while it processes a response,
the manifests still to do. `Manifests` is the response that upstream makes
(`prepareMultiManifestUpdateCheck`) and `Received` what the syncer makes of it.
`StorePackage`, `MarkPackageAsFloor` and `UpdateChannelToPackage` are the statements it
makes; `StepFails` ends the poll at any of them, `StepUnanswered` is a statement that was
carried out though its answer was lost, and `Restart` takes a new machine ID and reads
the version back from the mirror. `foreign` are packages an administrator of the mirror
had added by hand, with content that is not upstream's.

### Hosting

`files` is what is in `packagesPath`, by package and kind. `createPackage` is
`ProcessExtraFiles`, `DownloadPackagePayload` and `AddPackageWithMetadata`; `creating`
says which is next. To `Syncer` the downloads are steps that change nothing and the last
is its `StorePackage`, so that `SyncerSpec` is a property of `Hosting`. What was
downloaded in an attempt that fails is removed (`CleanupDownloadedFiles`).
`ProcessExtraFiles` is also taken for a package that exists, as the code takes a lookup
that failed for one that found nothing. `doubted` and `restarted` are history variables:
about which packages an answer was lost, and whether the process has been restarted.

### GroupCache and Distributed

`groups[n]` is node `n`'s table, `cachedGroups[n]` its map from tracks, `request[c]`
what a request is about to do next. A lookup is `LookUp` when there is a map and `Scan`
and `Publish`, with the lock held in between, when there is none. `AddGroup`,
`UpdateGroup` and `DeleteGroup` write the row, and their `UpdateCachedGroups` is a step
of its own, which waits for the lock. A scan that fails leaves an empty map that is
kept, as in the code; of two groups with one track either may be the one that stays.

In `Distributed` one node is the control node. `feed[e]` are the changes under way to
edge `e`: logical replication, an external part, is taken to bring each committed change
once and in order, after a copy of the table (`Subscribe`). `Apply` does what the
triggers of migrations `0023` and `0024` do on an edge: `LocalRows` and `Members`.
`brake[n]` and `member[n]` are node-local. `OpenDialog` and `SaveDialog` are the edit of
a group by an administrator who may leave the switch as shown (`Presented`).

### Sessions and GithubAuth

`sessions` is the in-memory cache, `session[r]` the object a request works on: a copy
of the values, saved whole. Each operation on the cache holds its mutex and is one
step. In `GithubAuth` a request goes through the steps its handler makes, one per lock
it takes: a page (`AuthorizePage`), a bearer token (a login dance in one request), the
login callback (`DanceSaves`, `AddSessionID`), and the webhooks, which take sessions
from the index (`Steal...`) and then drop them one by one. GitHub, an external part, may
answer anything about a user's teams and orgs; `Dance` says which membership the code
records for it.

### ConnPool and Operations

What matters of a request is which connections and locks it holds after each step, its
script. `Query` takes a connection and gives it back, `Rows` keeps one while its body
runs, `Tx` keeps one and the row it has written, `Locked` keeps a lock. `Operations`
writes the longest way through each function of `api/` with these, in the order of its
calls, and `EndEarly` leaves a script anywhere; scripts are cut where nothing is held.
A script is `Orderly` when it ends with nothing held, never holds more than `MaxDepth`
connections, and takes a lock only with no other in hand and a connection to spare
(`MayFollow`). `ConnPoolTypeOK` looks at what is left of each worker's script, so TLC
checks that of all scripts; `ServerScriptsOrderly` proves it.
`database/sql`, an external part, hands out at most `MaxOpen` connections (25 unless
configured, `api/api.go:35`) and lets everyone else wait: the queries have no deadline, and
the code limits the number of requests nowhere, so neither does the model.

### Timeline

A version is named by the time of the completed update that brought it. `rows` and
`history` are the two tables, `queries` the results of the three statements that
goroutines run side by side, each as of the time it is run at. `Answers` says what a
statement may return: a set for those that are read in any order, a sequence in the order
of its `order by` (`InOrder`) for Query 2. `PutTogether` makes the chart of them, with
`Loop` for the loop over Query 2, a function over the number of rows done; `Store` is the
goroutine that keeps the result. Instances register, are granted updates, complete them
and move to another group, also between two of the queries. Events have odd times, those
before the model starts too, queries even ones, and the chart's duration is even: no two
things are at one instant, and no event is at the chart's first or last point.

### Catalog

Rows are sets: `packages`, `channels`, the pairs `floors` and `blacklist`, and
`package[c]`. A request that looks before it writes is two steps (`ValidatePackage` and
`UpdateChannel`, `CheckFloor` and `AddChannelPackageFloor`); `UpdatePackage`'s
transaction is `BeginUpdatePackage`, a `BlacklistChannel` for each new channel, and
`CommitUpdatePackage`, and it holds the rows PostgreSQL would hold. Identifiers are
never used twice, as they are UUIDs. `raced` is a history variable: requests have
overlapped.

## What is checked

| Run | Bounds | Shows |
| --- | --- | --- |
| `RolloutLimit` | 3 machines, limit 2, one target, ages to 2 | limits kept though machines fall silent in an update, rollout flag, implements `UpdateLease` |
| `RolloutAdmin` | a Flatcar machine and a syncer, 3 policies, 5 channels, 3 versions | `InProgressMatchesStatus`, grants step by floors, safe mode's first update is alone |
| `RaceLimit` | 2 requests at a time, 2 machines, safe mode, crashes | overshoot by at most one update per further request, an updating machine is busy |
| `UpdaterLive` | 2 machines, one at a time, a floor before the target, lossy | what runs is counted, what is installed was granted, everybody in sight is updated or abandoned |
| `Catalog` | 2 requests at a time, 1 package, 2 channels | references exist, no contradiction without overlap, blacklists are set whole |
| `Syncer` | 2 machine IDs (one restart), 1 floor, targets at and after it, nothing added by hand | the mirror catches up |
| `SyncerFloor` | 2 floors, first target is a lone one | *violated*: the floor reaches the mirror |
| `Hosting` | 2 machine IDs, 2 floors, targets at and after the second, which may be there by hand | the mirror's floors are there first and are upstream's, it reports no version its channel has not had, stored packages have their files, nothing is left behind, implements `SyncerSpec` |
| `Sessions` | 2 requests, 2 session IDs, 1 user, a team and an org | uses are holders, logins are indexed, marks are final, what is dropped goes |
| `ConnPool` | 3 workers, 5 connections, all scripts of `Operations` | workers stop for good only when the pool is used up |
| `Distributed` | control node and edge, 2 requests, 2 groups, 2 tracks, 1 machine, 2 changes | local rows follow groups, the map is current, a brake stays local |
| `Timeline` | 2 instances, one of which changes groups, 3 past times around the limits | the newest count is exact, counts are of their time |

Why the bounds are enough for the questions asked. A limit of two and three machines is
the least in which a limit above one can be exceeded, and ages to two keep apart a row
that has timed out from one that is no longer seen. With a day of two and with a timeout
and a `Recent` of one, an update granted a while after the machine's last registration
leaves sight while it is still in time. `RaceLimit` has a timeout as long as the day, as
the dialog proposes. It looks at states through a view (`StateView`) that leaves out
what no later step depends on, such as a field that a check does not read again. A race
of two requests is what each overlap in the code needs; the theorems say what more
requests do. Two floors and a target let a machine skip one, and a target that is the
last floor be both. Two machine IDs show what a restart leaves behind at upstream. What
`Syncer` promises at every moment is checked in `Hosting`, which has all its steps and
more; what it promises in the end, in `Syncer`, with one floor, as what holds a mirror
back is in the polls. Two requests and two sessions let a session be shared, and one be
handed over while the other is cleaned up. Two changes are a change and the one that
overlaps with its announcement or its replication. The past times of `Timeline` lie
before the dead instances' limit, between it and the chart's time, and within that.
`Catalog` and `Timeline` are checked without deadlock detection: identifiers and time
run out. So is `ConnPool`, as the server really may stop.

`ConnPool`'s five connections are too few for its three workers on purpose: no operation
holds more than three, so three workers that hold two, two and one can use all five up
and wait for ever for another. TLC reaches such states, also with the lock of a cache
held by one of those who wait; `OnlyExhaustionStalls` says what all of them have in
common. The workers that hold connections must be at least half as many as there are
connections, which makes it thirteen nested requests at the default of 25. The same
holds for any number of workers and connections (`ServerStalls`).

Every property of a passing run has a mutant in `PROJECT.json`: a plausible bug in one
of the definitions (written next to it, marked *Mutant of*) that breaks it.

### What the violated run shows

`SyncerFloor`. A response of one manifest that is floor and target at once is taken as
the target only (`syncer/syncer.go:316`). The floor is not marked, though the comment at
`syncer/syncer.go:589` has a manifest be both and floors go by their mark; since the
mirror then reports that version, the floor is never sent again.

### Seen while modelling

Behaviour of the code that the models have and no run of its own shows.

Rollout engine and client:

* The first check after a day's silence is not granted an update, nor answered with one
  granted before, and an event is refused (`CheckUnseen`): the row is read with a filter
  of one day before it is refreshed, and again only if the machine's address or alias has
  changed. The check fails with `ErrUpdateGrantFailed` or is
  refused by the policy; it may trip the brake all the same. A machine or syncer
  that polls less than once a day, and does not ping, never gets an update otherwise.
* An update on a machine that falls silent for a day leaves the statistics even if it has
  not timed out, and its slot is given to another; if the machine comes back it is counted
  again, above the limit. The dialog that creates a group starts from a timeout of "1 days"
  (`src/frontend/src/components/Groups/GroupEditDialog/GroupEditDialog.tsx:244`), so this
  needs no unusual setting. A completion may clear the rollout flag meanwhile, too.
* A machine that has a grant and asks again is answered with the channel's package or floor
  of that moment, whatever version its row says (`api/runtime/updates.go:82`).
* `RegisterEvent` tests `update_in_progress`, then writes. When another request of the
  machine ends the update in between, the late status (say Downloaded) is written with
  `update_in_progress` false: checks are refused for the status, events for the column,
  and nothing else changes either, against the comment at `api/runtime/events.go:27`.
  `InProgressMatchesStatus` is therefore about whole handlers (`Rollout`) only.
* Two first failures reported together each count two attempts, so that neither disables
  updates (`api/runtime/events.go:144`, against `service.go:28`).
* One lost answer leaves a machine in a status whose checks are refused; `TryUpdate`
  does not report again (`src/updater/updater.go:332`).
* `rollout_in_progress` can stay cleared while an update is in flight when the last
  completion clears it between a check's read of the group and its write
  (`api/runtime/updates.go:141`).
* Safe mode is one at a time only until one instance has tried the package, then the
  nominal limit applies (`updates.go:265`).
* `grantUpdate` does not write a status a row already has (`api/runtime/instances.go:211`):
  a syncer that polls again after the channel moved is sent the new package while its row
  keeps the version first granted. It reports no completion either, so that in a
  safe-mode group its own timed-out grant counts at its next check for a newer package
  and disables the group's updates.

Catalogue and caches:

* Marking a floor and blacklisting each look for the other first
  (`api/admin/packages_floors.go:53`), so overlapping requests leave a package that is
  both; a channel can be pointed at a package that is being blacklisted for it.
* With more floors ahead than `NEBRASKA_MAX_FLOORS_PER_RESPONSE`, a syncer is sent the
  target without the later floors.
* On an edge nothing renews the map of tracks: groups change by replication there, and
  `UpdateCachedGroups`, which "must be called whenever the group entries are modified"
  (`api/internal/dbreads/groups.go:164`), is called by the administrator's requests and at
  start-up only. `DeleteChannel` and `DeleteApp`, which change what a group's entry would
  be, do not call it either, and a request whose write is committed but whose answer is
  lost returns before it does.
* A scan that fails leaves an empty map in place until the next change of a group
  (`groups.go:126`). The scan has no ORDER BY and the last row met wins, though comments
  at `groups.go:100` and `133` say the newest does.
* On a single node, saving an edit dialog that was opened before the brake was tripped
  finds the switch off and turns it on, which releases the brake
  (`handler/admin/groups.go:84`).

Syncer:

* A lookup that fails is taken for a package that does not exist
  (`syncer/syncer.go:379`): its payload is downloaded again, `AddPackageWithMetadata` is
  refused because it does exist, and the cleanup (`syncer.go:474`) deletes the files of
  the stored package. Later polls find the package and do not look for its files. A commit
  whose answer is lost ends the same way, and a restart between download and commit
  leaves files without a package. These are the two exceptions in `FilesFollowPackages`.

Sessions:

* A request saves the whole copy it took: a login saved by another request of the session
  meanwhile is lost.
* Cleaning up one session of a user in a team takes the user out of the team's set
  (`auth/github.go:515`) though another session may be in it; a webhook about the team
  then misses that one. It stays in the user's index, which is what `LoggedInIsIndexed`
  says.
* A webhook between the save of a login and its entry in the index (`auth/github.go:476`)
  misses it: the session stays until the user's next webhook.

Charts:

* The chart of statuses looks one hour back from its first point, whatever the interval
  (`api/internal/dbreads/groups.go:783`), so with longer intervals the first count is too low.
* An instance that has been in two groups can be counted by two of the chart's queries, as
  the third looks at completed updates in any group. A chart computed earlier may be
  stored after a later one; either stays for a minute.

### Assumptions and fairness

`ValidityAssumption` in `Rollout` is only that the five minutes of `RegisterInstance` are
less than the one day of the statistics, both constants of the code. A group's timeout and
period are a number and a unit in the dialog, days among the units, and nothing compares
them with the day: neither do the models. The limits are therefore about machines that
were seen at least once a day since their grant (`~lost`); for a timeout that ends within
the day that is all of them (`EveryUpdateCounted`).

`Updater` assumes that a machine keeps asking (weak fairness of `CheckInVain`), strong
fairness of each of its steps and of a check that is offered an update *while the server has
the machine in sight*: a machine polls for ever, and a request or handler that is
repeated for ever succeeds at last. It assumes nothing of the checks that meet an unseen
row, which fail in the code, and `UpdatedOrAbandoned` is claimed of the machines which the
server keeps in sight while they are idle from some time on (`InSight`). A day is
two ticks long in the run, so that a machine can be seen from one tick to the next.
Losses, failures and time outs may go on for ever. `Tick` is weakly fair: time passes.
`Syncer` assumes the same of its polls, which a ticker repeats, and of each step of
processing, and `MirrorCatchesUp` has the same premise. The steps are taken per package:
otherwise always repeating the first would be fair.

`Sessions` assumes weak fairness of each request's own steps: a handler that was started
ends, with an error if need be. Nobody has to send a request. The other runs are about
safety and assume nothing.

## What is proved

For all values of the constants that meet the named assumptions.

`RolloutProofs` (the engine with atomic handlers). The inductive invariant is
`SoundState`: the types; `StatusMatches`, which ties `update_in_progress` to the status
and to a recorded grant; `SlackOf`, that a row with a grant which is not `lost` is one
the statistics still see, and that a `lost` one was granted its update about a day ago
or earlier; the two bounds; and the rollout flag. The bounds alone are not inductive:
the check counts rows seen within the day, and only the third part says which updates
these leave out. The bounds and the flag speak of updates that have not timed out on
machines that were seen at least once a day since their grant, for any timeout and
period. `EveryUpdateCounted` says that this is every update that has not timed out if
`Timeout + Recent < Validity`; that is its hypothesis, not an assumption of the module.
Theorems: `TypeCorrect`, `NoLockOut`, `ParallelBound`, `PeriodBound`,
`EveryUpdateCounted`, `RolloutFlag`, `FloorByFloor`, `SafeModeFirst`, and
`ImplementsLease`: the initial state maps to no lease, and each step takes one lease
while one is free, gives some back, or stutters.

`RolloutRaceProofs` (handlers split, any number of workers). The inductive invariant
`RaceState` keeps what survives of it: `UpdatingIsBusy` instead of `StatusMatches`. For
the limits a further invariant counts the grants still to be made with those made:
`Overshoot`. A check that finds room adds one to a count that was below the limit, and
all other requests can be pending at that moment, which gives `Limit + n - 1` for `n`
workers. Again that is of machines seen at least once a day, whatever the timeout.
Theorems: `RaceTypeCorrect`, `RaceUpdatingIsBusy`, `OvershootOfFlight`,
`OvershootOfPeriod`.

`UpdaterProofs`. A check or a report of a machine is a step of the rollout engine or
changes nothing of it, so `GroupIsRollout`: `UpdaterSpec` implies `Rollout`'s `Spec`.
The inductive invariant `TryInv` is `SoundState`, the machines' types, that a
machine at its update has been offered one, and `CountedWhileUpdating`. It is inductive
because what ends a row's update without the machine, a check at the target, is sent
by an idle machine only. Theorems: `UpdaterTypes`, `CountedAlways`,
and, of these with `ParallelBound`, `MachinesWithinLimit`: the limit bounds the machines
at work, not only the rows, those left out that have overrun the timeout or were silent for
a day since their grant. `OffersAreGrants` needs the hypothesis `SteadyPackages`, that
the channel's package and floors do not change, as in `UpdaterLive`: `GetUpdatePackage`
answers a machine that has a grant with whatever the channel holds when it asks again.
`OfferInv` adds that a grant not yet taken up is for the version after the machine's, or
was taken up while the server did not listen, and is over.

`SyncerProofs`. Likewise `UpstreamIsRollout`. `MirrorInv` adds to the types `Following`,
which says how the syncer's memory agrees with what it has written: the channel's new
package is in the mirror or still to do, and newer than what the syncer reports. It
gives `MirrorTypes`, `NeverAheadOfMirror` and `OnlyVerifiedFloors`. `FloorsReach` is
about the order of the writes: the floors between the version reported and the goal are
marked or still to do as floors (`Owed`), so that all are marked when the channel moves.
Its three hypotheses say when upstream sends them at all: floors are not added
afterwards (`SteadyFloors`), fit in one response (`FewFloors`), and no target is the
only floor of its response (`NoLoneFloor`). The run `Hosting` meets all three;
`SyncerFloor` meets all but the last and is violated, and the hazard about
`maxFloorsPerResponse` is the second. `HostingImplementsSyncer` proves step by step what
the run `Hosting` checks as `SyncerSpec`, and `FilesKept` that files and packages come
together; `CreatingFiles` says which files are there at each step of `createPackage`.

`GithubAuthProofs` (any number of requests, sessions, users, teams and orgs). The
invariant `Inv` has the types, `UsesAreHolders`, that only IDs that were drawn are in the
store (`Issued`), what a request has done at each step of its handler (`ControlOf`),
and `Covered`. `LoggedInIsIndexed` is not inductive: a request's copy of a session may
carry a login that the store does not have yet, and save it after a webhook has been
through the index. `Covered` therefore speaks of the copies too. Theorems: `TypesKept`,
`UsesCounted`, `SessionsFound`, and the action property `MarksKept`.

`ConnPoolProofs` (any number of workers and any scripts). Under the hypothesis
`OrderlyScripts`, `ConnPoolTypeOK` is inductive (`TypesKept`). `StallsOnlyExhausted`:
suppose that somebody is at work and nobody can go on. Whoever waits for a lock waits
for its holder, who takes no second lock and so waits for a connection: all connections
are out. But each worker waits, and so holds at most `MaxDepth - 1` of them: those that
hold any (`Holders`), times that, are no fewer than there are connections. Nothing is
assumed of the number of workers or the size of the pool. `ServerScriptsOrderly`
discharges the hypothesis for the scripts of `Operations`, if `MaxDepth` is at least
three. It goes by how scripts are put together: `Plain` scripts take no lock and at most
a given number of connections, open rows add one to it (`RowsArePlain`), a lock or a
transaction goes around plain scripts only (`LockedFits`, `TxFits`), and what `Fits` may
follow what fits (`FitsTogether`); then every request fits three connections, and so do
its parts between two moments at which nothing is held (`EpisodesOrderly`).
`ServerStalls` is the bound for the server: it takes half as many workers with
connections as the pool has.

`DistributedProofs` (any number of nodes, clients, groups and changes). `Inv` adds to the
properties that a map that was scanned but not stored yet is as right as the one stored
(`PendingMapsAreRight`, which rests on the lock), that groups are edited on the control
node (`DialogOf`), and that an edge has no groups before its copy
(`NothingBeforeCopy`). Theorems: `TypesKept`, `LocalRowsKept`, `ServingMapKept` and the
action property `SwitchIsAdministrators`.

`AdministrationProofs`, on `Catalog` (any number of requests, packages and channels).
`Inv` says which rows the requests under way may rely on (`CarriedBy`: the rows a
transaction has locked stay), that no two transactions are about one package, and that
as long as requests have not overlapped what one has looked up still holds when it
writes (`StillTrue`). Theorems: `TypesKept`, `SerialRequestsKept`, and the action
property `CommitsExact`, which holds of requests that overlap too.

The same module on `Timeline` (any number of instances and of past updates, any times,
any chart). The two properties speak of the finished chart and are far from inductive.
`TimelineInv` says of every instance that nothing was written of since the chart was
begun that each query's rows about it are what that query would find in the tables of
the present as of its own time (`StillAnswers`: `Answer1` to `Answer3`); that Query 2's
rows are in order (`ResultsTypeOK`); that nothing has happened later than now, and updates
complete at odd times (`NothingAhead`); and that the chart is, point by point, what
Query 1 and Query 3 say of it and those of Query 2's rows that are `Counted` there: the
row's time is before the point and after some other point, and the point is before all
rows of the same instance that come before it in the result. That the loop computes this
is the lemma `LoopCounts`, from what one turn of it does (`AddUpdateAccumulates`) by a least
number of turns after which it were wrong. From the invariant the properties follow by
the three ways to be counted (`CountedBy`): a settled instance without an update since
`DeadInstance` is Query 1's only, one with updates since then but none in the chart's
time Query 3's only, any other Query 2's only, where its latest update is counted at
the last point (`LatestCounts`) and no two at the same one (`OneAtATime`). Theorems:
`ChartTypes`, `EveryInstanceOnce`, `VersionOfTheTime`.

The assumptions on constants are those of the modules (`TypeAssumption`,
`AgeAssumption`, `ConnPoolAssumption`...): values that stand for nothing are
none of the others, sets that are counted are finite, and the numbers are ordered as
said above. `UpdaterAssumption` says that the machines running `TryUpdate` are no
syncers. Each inductive invariant was first checked by TLC on the run of its module.

Only model-checked: liveness (`UpdatedOrAbandoned`, `MirrorCatchesUp`,
`DroppedIsDestroyed`), which the prover does not reach. Every invariant and action
property of the passing runs is the subject of a theorem.

## Not modelled

* XML, JSON and SQL text; activity entries, which decide nothing but whether another one
  is written; the web frontend; the Helm chart; generated code; metrics.
* Versions as numbers leave out that SQL and Go order pre-releases differently
  (`api/internal/dbreads/packages_floors.go:22`).
* `Rollout` has one group: an instance that moves to another takes its row along.
* In `Catalog`, `DeletePackage`'s own test for floors and a floor inserted at the same
  instant are taken one after the other.
* `Syncer` has one channel, leaves out `Stop` (the program exits without it), and has no
  administrator at work in the mirror. In `Hosting` a package's extra files are taken for
  one file.
* `Distributed` has the groups of one application. Replicated applications, channels and
  packages, the provisioning of roles and subscriptions, the advisory lock on migrations
  and the mode `single` are left out, as is the map of application IDs, which has the
  same lock and refill as the map of tracks.
* `Sessions` leaves out cookies and their encryption, values that cannot be copied and
  sessions handed on in a request's context; a restart loses all sessions and with them
  all state of the model. OIDC keeps no sessions; its token checks are not modelled.
* The middlewares that refuse requests by mode or access level; the handlers' conversions.
* `Timeline` has the chart of versions; the one of statuses, the breakdowns and the
  filters of listings are not modelled.

## Plan

1. Done: all modules of the table above, and the theorems of the last section but one.
2. Left out for good reasons given in the section before: the chart of statuses, several
   mirrored channels at once, several groups in one rollout engine, replicated packages.

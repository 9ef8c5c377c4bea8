# Uptime Kuma with iris-sync: a verification project

TLA+ models of the parts of this repository whose correctness depends on the
order in which things happen. In the Node.js server: the beats of a monitor, the
requests that start and stop them, the tree of groups, the statistics, the
maintenance windows, and the small caches beside them. Around it: the
reconciler that copies monitors from a master database to probes (`iris-sync`,
Go), the BGP bridge (`iris-bgp`), and the clients that mirror the monitor list.
TLC checks the models on small instances; the TLA+ proof system proves some of
the results for every value of the constants.

    tlc -config MonitorBeats.cfg MCMonitor
    tlc -config Tree.cfg MCTree
    tlapm MonitorTreeProofs.tla

## 1. Inventory

| Component | State it keeps | Operations | Meets the others by |
|---|---|---|---|
| **iris-sync** reconciler (`iris-sync/internal/sync`, `cmd/iris-sync`) | a mapping of master ids to probe ids and a hash of what was last sent, per probe, in memory and in a file; the monitors of the current cycle, shared by the goroutines | fetch, filter, plan, execute, verify, save; restart | reads the master database; `add`, `editMonitor`, `deleteMonitor` over the Socket.IO of each probe |
| iris-sync client and repository | a connection; acknowledgements awaited | `Emit` with a timeout; SQL | called by the reconciler |
| **Beat loop** (`server/model/monitor.js`) | per started object: `previousBeat`, `retries`, a timer, `isStop`; the `heartbeat` table | `start`, `beat`, `safeBeat`, `stop` | checks a service, sends notices, stores heartbeats, feeds the uptime calculator |
| **Lifecycle handlers** (`server/server.js`) | `server.monitorList`; the columns `active` and the settings | resume, pause, edit, delete, clearHeartbeats, startMonitors | replace and stop the objects of the beat loop between awaits |
| **Push endpoint** (`server/routers/api-router.js`) | none of its own | one HTTP call makes one heartbeat | writes the table that the beat loop of the same monitor reads |
| **Monitor tree** (`server/server.js`, `server/model/monitor.js`, `server/uptime-kuma-server.js`) | `parent`, `type`, `active` of each row | add, edit with its check for descendants, depth, recursive deletion, pause and resume; the events that tell clients | lifecycle handlers; the copies of the clients; iris-sync |
| **Clients' mirrors** (`src/mixins/socket.js`, iris-public, iris-catalog) | a copy of the monitor list | full list, update, delete, reconnect | fed by the server's events; offer their copy as parents |
| **Heartbeat feed** (`server/client.js`, `server/server.js`, `src/mixins/socket.js`) | the user's room; a list of beats per monitor in each browser | beat events, the list of a login, the list of a clear; join, disconnect | shows what the beat loop and the push endpoint send and store |
| **Uptime calculator** (`server/uptime-calculator.js`) | a registry of objects; three bounded queues of buckets; three tables | `getUptimeCalculator`, `update`, `get*`, clear | called by each beat, push call and status page |
| **Maintenance windows** (`server/model/maintenance.js`) | a bean, a row, a cron job, the timer of a slot, a status | add, edit, pause, resume, delete, `run`, `stop` | asked by each beat |
| **Settings** (`server/settings.js`) | a cache of a minute | `get`, `set`, `setSettings`, cleaner | used everywhere |
| **Domain expiry** (`server/model/domain_expiry.js`) | last check, last notice | `checkExpiry`, `sendNotifications` | started by each beat |
| **Geo cache** (`server/lib/geo`) | a memory of bounded size before a table | lookup, promotion, cleanup | started by each successful beat, not awaited |
| **iris-bgp bridge** (`iris-bgp/bridge`) | gauges, a counter, timers | alert, automatic resolution, poll | webhook of BGPalerter; Prometheus |
| Monitor conditions (`server/monitor-conditions`) | none | evaluation of an expression | used by checks |
| Authentication, status pages, notification providers, monitor types, proxies, bootstrap, metrics, pages of the web client | rows of tables | one request, one statement, or formatting | |

`PROJECT.json` lists them all with what is and is not modelled of each, and the
hazards at their lines.

What is hard here, and what makes each part correct:

* **iris-sync.** Nothing is transactional: a create may be applied and its
  answer lost, the process may die before the mapping is saved, the file may be
  torn, somebody may delete a row in the probe's own interface, and the
  goroutines share Go pointers. It is correct if the two maps stay inverse, no
  monitor is created twice, no wanted row (and its history) is deleted, a hash
  never vouches for what was not stored, and the probes converge.
* **Beats.** `beat` awaits a query, the check, the notice and the store. A
  restart in between leaves the old beat running beside the new loop; a crash
  falls between notice and heartbeat. It is correct if an outage is announced,
  and not before the retries are used up; if reminders come in time; if a
  failing service ends up DOWN.
* **Lifecycle.** Requests interleave at their awaits. It is correct if at most
  one loop checks a monitor, if a stop is final, and if a loop otherwise lives.
* **Tree.** That a monitor is not put below itself is found out with a query per
  descendant, and the store comes later still. It is correct if the groups stay a
  forest, if deletions stay below what was to be deleted, if the walks end, and
  if the clients come to see what is stored.
* **Heartbeat feed.** A login joins the room before it reads the list, a beat is
  sent before it is stored or after, and a clear overwrites. It is correct if
  the browser ends up showing the newest beat, and none that was deleted.
* **Uptime calculator.** Three stores in a row, after an object that may still be
  loading. It is correct if the tables agree with each other and with the beats.
* **Maintenance.** A bean in use is edited in place; a cron job, a timer and a
  status outlive the plan they came from. It is correct if monitors are told of a
  maintenance at the times of the plan.
* **Caches and timers.** A value read before an await is used after it. They are
  correct if what is answered is not older than promised, a deadline is announced
  once, and a gauge is bad only for a reason.

## 2. Modules

| Module | Models |
|---|---|
| `IdMapping` | `mapper.go`: the two maps and the hashes, and what is saved and loaded |
| `Reconciler` | `main.go`, `reconciler.go`, and the probe and master as these see them |
| `Leftovers` | `Reconciler` with a history of the rows it has lost track of |
| `Beat` | the decisions of a heartbeat: `CheckResult` (catch of `beat`), `PushResult` (`determineStatus`), importance, announcement, as operators |
| `Monitor` | one monitor: objects, requests, push calls, table, crash |
| `Forest` | what the groups of a server promise (abstract) |
| `MonitorTree` | the requests that change the tree, query by query, the events, a client's copy; implements `Forest` |
| `UptimeCalculator` | the queues and tables of one monitor's statistics, and the calls upon them |
| `Maintenance` | one maintenance window: bean, row, job, timer, requests, restarts |
| `SettingsCache` | the table of settings, the cache, its cleaner, calls of `get` and `set` |
| `DomainExpiry` | the row of one domain, the beats that look at it, the senders nobody awaits |
| `GeoCache` | memory and table, the calls of `resolveTargetGeo`, cleanup, restart |
| `BgpBridge` | alerts, gauges, timers, polls |
| `HeartbeatFeed` | the beats of one monitor on their way to one browser, against logins, clears, refused stores and broken connections |
| `MCReconciler`, `MCLeftovers`, `MCMonitor`, `MCTree`, `MCUptime`, `MCMaintenance`, `MCServices` | instances for TLC |
| `ReconcilerProofs`, `MonitorProofs`, `ForestProofs`, `MonitorTreeProofs`, `UptimeProofs`, `TablesProofs`, `MaintenanceProofs`, `ServicesProofs` | theorems |

Definitions that begin with a comment "Mutant:" are wrong on purpose: each is a
plausible bug in the definition that follows it, and the property listed with
it in `PROJECT.json` fails when it takes that definition's place.

Everywhere in the server an action is what one thread does between two awaits.
Several models keep **ghosts**: variables no guard reads, which record what went
wrong where the code gives no promise, so that a property can say exactly how
far a promise reaches. They are named with each model.

### Reconciler

One action is one step of a goroutine that is atomic for the others: a monitor
planned, a request and its answer, the sort of the creates, the save of a
mapping. `cyc[pr]` is the goroutine of probe `pr`, with `pc` its place in
`syncToProbe`; `snap` is what `GetAllMonitors` returned and `obj` the two fields
of the shared `*db.Monitor` objects that a create overwrites. `probe[pr]` is the
monitor table of the probe; ids come from an auto-increment that is not reused.
A create has two steps, since other goroutines write to the object while it waits:
`SendCreate` writes the probe's parent into the shared object and sends it
(`asked` is the parent sent), and `CreateOk`, `CreateRefused`, `CreateUnanswered`
or `CreateGivenUp` is the answer, after which the hash is read from the object as
it then is. Writing the parent and building the payload are one step, and so are
the hash of a plan and its stamp on the object: between the two there is no call.
Every request may be refused, or be answered too late or never after it was
applied or before (`lostAck`, `disconnect`, `deadline`); a create that was applied
and whose connection or cycle then ends is `CreateUnanswered` before `Disconnect` or
`DeadlineExceeded`, and a connection that breaks leaves the parent of the next create
written. `ver` stands for the
columns the hash covers, and the hash is taken to be one-to-one on them; with
`revert` an operator may go back to an earlier version.

`Leftovers` adds one history variable, `strayed`: the rows whose id never came back,
or whose mapping died with a process or a file, until they are adopted or deleted.

### Monitor

An object (`obj[o]`) is one `start()`: `pc` is its place in `start`/`beat`,
`stop` is `isStop`, and `prev`, `retries` and `bean` are the variables of the
closure. A stopped object whose timer is set is gone; one that is within a beat
goes on to the end of it. `list` is the entry of `server.monitorList`. `newest`
and `latest` are all that is read of the `heartbeat` table: `ORDER BY time` by
the loop, `MAX(id)` by the push endpoint. `earlier[w]` holds the beats under way
that will be stored with a time before that of `w`. `req[r]` is a socket request
between two of its awaits, `call[c]` a push call. The ghosts `failures`,
`heard`, `unheard` and `forked` record what a user could have seen, `lost` the
objects that `startMonitors` took off the list without stopping them. The server
listens before that: an object is `found` while the query of `startMonitors` is
under way, and `FillList` then writes the list, whatever requests have put there. Requests
come in between only if the database serves several connections (`Pooled`: MariaDB's
pool; SQLite's has one connection, `database.js:273`, and this query is the first upon it). The
query reads the row as the crash left it: one that reads what a request has stored
since is not modelled.

Abstractions: `await stop()` has no await within and is one step with the
assignment after it. `previousBeat` is queried, and the heartbeat gets its
time, in one step; that query failing is not modelled, only those after it. The
check itself is one step with any of six outcomes. Time is not modelled: a
timer fires at any moment, and a push monitor whose newest heartbeat is good may
find it recent or old. The monitor has no parent; monitors influence each other
only through groups.

### Forest and MonitorTree

`Forest` has one variable, the parent of each monitor that exists, and four
operations. `Move(m, p)` asks for a set of monitors that is closed under
children, holds `m` and not `p` (`Apart`): `p` is not below `m`.

`MonitorTree` has the table (`tab`: parent, whether it is a group, active), up
to a few requests (`req[r]`: the handler's operation, its place `at`, the monitor,
the values sent, the sets `todo` and `seen` of the walk for descendants, and
`plan`, the single monitors still to visit, tell or remove), and a client
(`mirror`, `connected`, and `list`, the full list on its way). A request takes its values from what the
client has, so it may name a parent that is gone or no longer a group, or the monitor
itself: the page does not offer that, but no check refuses it. An edit
finds the row, walks down from it (`Walk`: one query per monitor), climbs from
the new parent to measure the depth (`NestingDepth`: one query per level), and
stores; a former group's children are unlinked in a step of its own
(`UnlinkChildren`); events follow, each computed from a row read steps before.

Ghosts: `changed[r]`, another request stored a row since `r` began, or the
parent it names was not a group then; `raced`, a
parent was stored although `changed`; `looped`, a monitor was stored as its own
parent; `mistyped`, an edit that had
read a monitor as none made a group none, whose children it leaves; `tall`, a group was moved with what is in
it; `late`, an event was sent that its row had overtaken; `silent`, rows that the
recursion deletes without an event; `under[r]`, what has been below the monitor of
`r` since it began; `kept`, the parents up to the first race or loop, which is the
variable of the refinement.

Abstractions: the two or three queries of `FindToDelete`, and those of
`Restart`, are one step each; a full walk's answers may come in any order;
the row keeps parent, type and activity only.

### UptimeCalculator

`Width` and `Limit` give the levels (minutes, hours, days in the code). A
calculator `calc[o]` has for each level a queue of keys, the counts under them,
the bucket it last touched and the bean of the row; `listed` is the one in the
registry. A call (`user[u]`) is an update, a read or a clear: it gets the
registered object or makes, registers and loads one, which is a query per level
during which another call may use the object (`at = "load"`); an update counts in
memory, then stores days first and minutes last, then prunes. A call keeps the
counts it will write even if the queue drops the bucket meanwhile (`frozen`). `update`
throws where the queue drops the bucket as soon as it is made (`Broken`), which a short
queue does when its first key is there twice.
Ghosts: `beats`, what was counted since the last clear; `hurt`, something was
lost on the way (a count during loading or into a dropped bucket, a failed or refused
or overtaken store, a restart); `mixed`, a call was under way during a clear.

### Maintenance

Time is in ticks, and a schedule is the set of ticks at which its cron pattern
fires. `bean` is the object in memory that `listed` puts into `maintenanceList`,
`row` what the table holds; `status`, `job` and `timer` are `beanMeta`; `jobs` are
the cron jobs that nobody stopped, `job` the one that `stop` knows. A run has two
halves with an await (the time zone) between them (`Run`, `NewJob`). What is left of
a running slot is counted in whole seconds, so a run in its last second begins it
again for its full duration: `NewJob` may do so one tick before the end. `MaxTimeout`
stands for 2^31-1 milliseconds; a longer timeout is due at once. Every store and the
deletion may fail, each after memory was changed: a request ends there, a slot
goes on. `End` and
the sets of `Plans` bound the instance. Ghosts: `overlap`, a run or pause that another run, pause or deletion
overtook; `unstored`, a store or the deletion failed; `unrun`, an edit or a resume
failed before its run; `overlong`, the status is from a run in the last second of a
slot; `began`, the ticks at which slots began.

### SettingsCache, DomainExpiry, GeoCache, BgpBridge, HeartbeatFeed

Five services of one or two hundred lines each. In `SettingsCache` the two
queries of a `get` and the store into the cache are steps; `setSettings` stores
keys side by side and empties the cache only if all its queries and stores succeeded; `cleanerKey` is the
parameter that the cleaner's loop overwrites. In `DomainExpiry` the days are
counted down to the expiry; each beat may start a sender, which reads the last
deadline, sends, and stores; a restart may come between any two of these
(`outages` counts the stores that did not follow their message). `GeoCache` has the memory as a sequence of entries (the
insertion order of the JavaScript `Map`), dates as ticks, and `Zone` for how
much later a date of the table reads; a call ends in the tick it began in or the
next. `BgpBridge` is the whole of its file: alerts, one timer for each that
nothing cancels, polls that may overlap.

`HeartbeatFeed` knows a beat by its number, which is its time. `beatAt[b]` is how
far it has come: in the loop it is sent and then stored, in the push handler the
other way round, and two of them may be under way. `login` is where `afterLogin`
is, `clear` where `clearHeartbeats` is, `wire` the events on their way, which keep
their order and are lost with the connection; `heartbeatList` is the browser's.
The list of a login is put before the beats that came since the join, so a beat
may be shown twice, and the property speaks of the set of what is shown and of
its last. `ReadLimit` and `Cap` stand for 100 and 150. The room is joined, and
what a browser showed before is forgotten, in one step; the restart within
a clear is `Monitor`'s. Ghosts: `overtaken`, a list was sent that misses a beat
sent or stored since its query, or tells of a deleted one, or the browser dropped
beats while the list of the login was still to come; `crossed`, a beat was sent
after a later one.

## 3. Runs

Passing runs:

| Run | Question | Bounds |
|---|---|---|
| `reconciler_faults` | is the safety of the mapping kept through every failure? | 1 probe, 2 monitors, 3 versions, 2 edits, 3 failures |
| `reconciler_converges` | does a probe come to mirror the master, and then rest; what stays behind? | 1 probe whose filter selects the child only, 2 monitors, 2 edits, 2 failures, lost answers, crashes and torn files among them |
| `reconciler_two_probes` | do two goroutines that share their monitors repair each other's damage; does a hash tell the truth? | 2 probes at once, one of which runs half of the monitors, 2 edits, 1 failure |
| `monitor_beats` | are outages announced, reminders in time, retries exhausted? | 2 objects, 1 request, 1 push call, 1 fault, one connection; counters to 2 |
| `monitor_lifecycle` | one loop, final stops, living loops, outages detected? | 2 objects, 2 requests at once, 1 fault, a pool of connections |
| `tree` | does the tree implement a forest; do deletions, depth, walks and mirrors hold? | 4 ids of monitors, 3 starting trees, depth 3, 2 requests at once or broken connections |
| `uptime` | are the tables the sum of the beats, and does a window tell what happened in it? | 2 levels, 2 calls at once, 3 beats, 1 failure, restart, clear or reader, 3 minutes |
| `maintenance` | are monitors told of a maintenance when the plan says so? | 5 plans, 3 requests, 2 at once, 1 restart, 6 ticks |
| `services` | five small services, each for itself | see below |

Two monitors are a group and its child, the least that has a parent; in
`reconciler_two_probes` the child comes before its group, so that a cycle meets it first; three
versions let an edit be undone and be redone; five probe ids suffice for all the
recreations that the failures allow. `NoLeftovers` is checked where it is in
danger, with lost answers, crashes and torn files; the group is in that run because
its child is selected, so a child that moves out leaves a group to delete. `Converges`
does not hold where a row is deleted on the probe and, later, the verification fails in
the very cycle that should repair it (section 5): no run of it has both, since
`reconciler_converges` has no failing verification and `reconciler_two_probes` one
failure. Two objects are an old beat and a new loop; three, what two requests at once can leave besides,
were looked at beside `monitor_lifecycle` (535,013 states). A retry and a reminder interval of 2 are the smallest that have
a boundary. `Saturation` merges the counts above both. Objects and requests
have no names of their own: a new one takes the first that is free.

`tree`: three levels are the least in which a deletion goes below a child and in
which a cycle of two groups can be closed by two edits; the second starting tree has the two
groups at the root for that, and the third leaves two ids, so that two adds can be
under way at once. A group that names itself as its parent closes a cycle by one edit. Depth 3 stands for ten: the limit is met and
passed. Two requests cover each pair of handlers; `mistyped` takes three, and was
looked at beside this run with three edits of two monitors (3,128,541 states, up to the order of the requests).

`uptime`: minutes and days of three minutes; hours are treated as minutes are.
The queue of minutes holds five, the least whose window (`Sure`) is longer than a bucket,
and the tables start empty or with rows whose loading another call may overtake, and
which fill that queue with them. All new beats are pending, which counts as down; rows of the initial
tables were up and under maintenance. With three beats a deletion can come a minute late, which
costs the window a place.

`maintenance`: three recurring plans, with slots back to back, with an end within
the run, and with a slot that no timeout can count to the end of; a single period, and a
manual one; three ticks are a day. Three requests are an add and two that overlap, and
each may be refused by the database.

`services`: the settings cache with two keys, two setters and a cleaner of one
tick; a domain with two monitors, two senders, two deadlines, a renewal and a store that is
refused or cut off by a restart; a geo cache whose memory holds one of two keys; a bridge with two types,
two prefixes and four alerts; a feed of three beats and two clears, refused stores
or broken connections, whose lists hold two rows and the browser three. They share no state, and a behaviour runs one of
them (`part`), so the states add up and do not multiply. A larger instance of the
settings cache, a minute of two ticks and queries that take one, was checked
beside (2,140,657 states), and two of the feed, with four beats and lists of two rows (2,333,942)
or of one (1,567,728).

Runs that TLC refutes, each against a sentence of the repository (quoted in
`PROJECT.json`, "findings"):

| Run | What happens |
|---|---|
| `claim_duplicates` | a row deleted on the probe is created twice, around a crash before the mapping is saved |
| `claim_stops` | a push monitor is paused in its first interval: its loop goes on for ever |
| `claim_interval` | a window of every few days begins once, and not again until the maintenance is edited or the server restarted |

`CHECK_DEADLOCK FALSE` is set where the system really may stop: a monitor that
is paused or deleted, and a tree, a statistic, a maintenance or a service whose
requests, beats, alerts or ticks are used up.

### What the properties allow

Where the code keeps a promise only up to a certain accident, the property names
the accident, and the accident is a state that TLC reaches:

* `NoLeftovers` leaves out the rows the service has lost track of (`strayed`).
* `OneLoop` leaves out the objects that `startMonitors` took off the list (`lost`).
* `Implements`, `OnlyGroupsHaveChildren`, `RequestsEnd` hold up to the first
  store whose check another store overtook (`raced`), the first and the last also up
  to the first monitor that is stored as its own parent (`looped`), the second up to the
  first edit that did not know the type it changed (`mistyped`); `DepthBounded` up to
  `raced`, `looped` and
  the first group that is moved with what is in it (`tall`); `MirrorFollows` up to
  the first event that its row had overtaken (`late`), and allows the rows that a
  recursion deletes silently. `DeletesOnlyBelow` allows a deletion what its stale lists
  name (`under`).
* `TablesExact` and `WindowCounted` hold up to the first count that was lost
  (`hurt`) or a call during a clear (`mixed`); `NeverMore` holds through all
  that is lost, up to `mixed`.
* `StatusTruthful` and `GapsOnlyInRuns` hold up to a run that was overtaken
  (`overlap`) or an edit or resume that failed before its run (`unrun`), for plans whose
  slots do not run into each other (back to back they do not), leave out no days and can be
  timed; what monitors are told beyond the plan comes from a run in the last second of a
  slot (`overlong`). `StoredAsSeen` holds up to a failed store or deletion (`unstored`).
* `DeadlineOnce` allows one notice more for each pair of senders at once and for
  each store that did not follow its message, refused or cut off by a restart.
* `UnhealthyForAReason` says that nothing stays unhealthy for ever; that an old timer makes
  a prefix healthy too early (section 5) it does not forbid.
* `FeedTruthful` holds at rest, up to a list that was out of date when it was sent
  (`overtaken`), and what it says of the newest beat up to a beat that a later one
  has overtaken (`crossed`). The list of a clear that is up to date mends what
  was wrong before it.
* The properties about notices of `Monitor` hold up to the first heartbeat that
  did not follow from the last (`forked`).

### Fairness

* `Reconciler`: the ticker fires, and each request of a cycle ends because it
  has a timeout: weak fairness of `FetchMasters`, `EndCycle` and of `Sync(pr)`.
  Failures and operators owe nothing.
* `Monitor`: timers fire and promises settle (every check has a timeout): weak
  fairness of each object's loop, of a request and a push call under way. New
  requests, calls, crashes and failing queries owe nothing.
* `MonitorTree`: the queries of a request under way settle, and so do those of a
  full list: weak fairness of `Go(r)` for each request, and of `ReadList` and
  `EmitList`. Users and connections owe nothing. `RequestsEnd` needs the first and
  says that no walk goes round for ever.
* The other modules state safety only and assume none.

## 4. Proofs

Each module proves its theorems for every value of the constants its
assumptions allow, so for any number of requests, failures and restarts. The
invariants the runs check are seldom inductive; what was missing is named here.
A theorem whose property needs more than the assumptions of its module states it
as a hypothesis with a name (`ASSUME NamesApart PROVE ...`), and each
hypothesis has a run that meets it and a behaviour that fails without it.

### `ReconcilerProofs`

`TypeCorrect` (`TypeOK`) and `MappingsStayAgreed` (`MappingsAgree`). That a theft or
a removal keeps the maps inverse needs the types of all that is planned, and that
the goroutines plan only monitors that were fetched (`PlansFetched`), since a name
or a parent is looked up in `snap`. `IInv` is the conjunction. One lemma per
action; those that change the cycle of a single probe rest on `StepOfOne`, those
that change its mapping on `MemOfOne`, and these on facts about `SetMapping`,
`RemoveByMasterID`, `SetHash` and `LoadFromFile`, which come first.

The second part is about which row is whose. Most steps change one probe (`Local`):
what is proved of a probe is proved of it alone.

* `MapsToOwn` (`MapsToOwnRow`) and `DeletesUnwanted` (`DeletesOnlyUnwanted`), from
  `NamesApart`: no two monitors are ever given the same name. (Two of one name take
  each other's row, section 5.) `OwnInv` says for every id that a mapping, a mapping
  file or a plan holds that the probe has given it out, and that its row, while
  there is one, has a name of that monitor (`Owns`): ids are not reused, so that
  what is gone stays gone. While a goroutine plans, its index of names must be
  true as well (`IndexOwn`), since what it adopts becomes an entry.
  What a probe is meant to run (`MeantFor`) is said without asking the goroutine: what
  the filters select of the monitors fetched and, where one probe has the objects for
  itself, the groups above. `MeantInv` keeps that the goroutine's own choice covers it,
  from shared objects that nobody has written to yet (`Unwritten`).
* `HashesTellTheTruth` (`HashMatchesRow`), from `NamesApart` and `NothingLost`: no
  answer is lost after its request was applied, and the process ends between
  cycles and with its files whole. (An edit that was applied and not answered leaves the old hash.)
  `HashInv` adds that a hash in a plan or in a shared object is that of what
  `snap` says (`Stamped`): another probe's create writes into the object, but not what is hashed.
* `NothingDuplicated` (`NoDuplicates`), from `NamesApart` and `RowsStayWanted`: names
  do not change, nothing is paused or left out on a probe, nobody deletes rows in the
  probe's interface. Answers, files and processes may be lost. `claim_duplicates` shows why
  the last is needed; a monitor that is renamed around a lost answer, or paused and
  resumed around a crash, ends in the same way. `OnceInv` says that a row a mapping
  names is there unless its monitor is gone for good (`RowsMapped`), that the index of
  names misses no row of what is still to be planned (`IndexComplete`), and that a create is planned
  once, and for what has no row (`CreatesNew`).

The constants of `reconciler_faults` meet `NamesApart` and `RowsStayWanted` (a lost answer, a
crash and a torn file are among its failures), those of
`reconciler_two_probes` `NamesApart` and `NothingLost`.

### `MonitorProofs`

`TypesHold` (`TypeOK`), `AtMostOneLoop` (`OneLoop`), and `StopsAreFinal`
(`StopIsFinal`) if no settings are those of a push monitor: `claim_stops` shows
that this hypothesis is needed. `OneLoop` is kept by a start only because the
object it replaces is the one in the list, and by a stop only because that is the
one that runs; what `FillList` writes over is `lost`; the types need `BeansMade`: a beat has a status when it is
announced, and what is stored is a row. `PulledStops` is `StopIsFinal` for
objects that are not push monitors.

The second part is about what a user hears. Its invariants tie what each beat under
way remembers to the newest row of the table, up to the first fork.

* `NoSilentOutage` (`OutagesAnnounced`). `SeenInv`: a beat that follows has
  the newest row for its previous one (`Chained`), is no longer following once it was
  overtaken, and has been heard of before it stores a DOWN.
* `RemindersComeInTime` (`RemindsInTime`), from `IntervalStays`: an edit does not change
  the interval of the reminders (one that does, in the middle of an outage, moves the reminder).
  `RemindInv`: a DOWN that is not announced is one more than the last, and the
  beats since the last notice are no more than the count of the newest row.
* `NoEarlyOutage` (`RetriesExhausted`), from `TableIsKept`: nothing empties the
  heartbeat table. (After a clear the loop of a push monitor keeps its count, section 5.)
  `RetryInv`: no loop and no row has counted more attempts than
  there were failures since the last good heartbeat.

`monitor_beats` meets all of these.

### `ForestProofs`, `MonitorTreeProofs`

`AlwaysAForest`: `Forest` keeps `Acyclic`, every set of monitors has one whose
parent is outside it. The step that matters is `Move`: from the closed set of
`Apart`, a set without such a monitor after the move gives one before it.

* `TreeTypes` (`TypeOK`) and `TreeImplementsForest` (`Implements`, the refinement
  with `kept` for the parent). `Inv` adds to the types that parents are rows
  (`Placed`: the foreign key), that `kept` is what the table says up to the first
  race or loop (`Keeps`), and what a check knows that nothing has overtaken (`Knows`):
  all whose children were asked for have them among those seen (`Explored`),
  and at the end the new parent is not among them. So the monitor and what was
  seen are the closed set that `Apart` asks for, unless the new parent is the monitor
  itself, and the store of an edit is a `Move`. A step that stores nothing maps to a stutter, an unlinking to
  `Free`, a removal to `Remove`. A walk survives other requests' removals and
  unlinkings, which add no children, and is marked `changed` by their stores.
* `GroupsHaveChildren` (`OnlyGroupsHaveChildren`). A type is stored before the
  children are unlinked, so `GroupInv` lets a parent be none if a request is about to
  unlink its children (`Pending`), and says that the parent a request has
  chosen is still a group unless another store came in between (`Chosen`).
* `DepthStaysBounded` (`DepthBounded`), if no line is too long at the start
  (`DepthAssumption`), and up to a monitor that is its own parent, whose line is endless. `DepthInv` says of a count that no store has overtaken that,
  on every line up from the new parent that has all the levels there may be, it is at the
  monitor it has counted to (`Counts`), so that none is left when it ends at the root. Other
  requests' removals and unlinkings, in the middle of the count, only shorten lines (`FewerLines`).
* `DeletesStayBelow` (`DeletesOnlyBelow`). `DeleteInv`: what a deletion is yet to
  visit, tell or remove has been below its monitor, or below what had been, since it began;
  `Under` is closed under the children that any row gets meanwhile.
* `MirrorCatchesUp` (`MirrorFollows`). `MirrorInv`: a client's copy has each
  monitor in its group, or a request that is under way will tell it (`Owed`), and
  beyond the table it has only what a recursion deletes silently.

### `UptimeProofs`, `TablesProofs`

`TypesHold` (`Inv`): the types, where a call can be, and that the bucket of each
level that a call has still to store is in the queue or kept by the call (`Has`), without
which `Bean` would write what is not there. The lemmas about queues come first
(`PushFacts`, `TouchFacts`, `CountedFacts`); of a load they say which bucket comes from a row
(`LoadedAllFacts`, by the least row that would break it).

`NoRowSaysMore` (`NeverMore`). A row is written from a bucket that a call took from a queue, or had kept of
it, or was about to store, and a queue is filled from rows; so all four are
under the beats (`AllUnder`). A clear empties the tables one after the other and the beats
with the last of them: unless `mixed`, nothing else is under way, and what is before the
table it has come to is empty (`ClearAlone`).

`QueuesKeepToLimits` (`Fits`, a part of `WindowCounted`) needs no more than the types.

`TablesAreExact` (`TablesExact`), from `LongQueues`: the queues of minutes and hours have
room for three buckets (1440 and 720 in the code; with room for two it fails:
the oldest buckets, made again by two deletions, push the current one out, and the next beat of that
minute is counted from nothing). `AllExact` says, as long as
nothing was lost, who has what: every bucket that is kept is in its table or a call will
store it (`Accounted`, `Owes`); what a call has in hand are the beats of its bucket (`HandsExact`);
the current bucket of each level that is loaded holds its beats, and after it in the
queue come at most the two oldest (`QueuesGood`, `Placed`); a row that is to be updated is there
(`StoresTrue`, `BeansTrue`); calls began a minute ago at most (`Recent`); and nothing
has a key that is yet to come (`KeysPast`). The proof is about what a push loses: a queue that is `Tidy` loses its
first key, and a key is pushed only if it is the current one or one of the two oldest.

`WindowIsCounted` (`WindowCounted`), from the same. `WindowInv` says of every bucket of the window
of `Sure(l)` buckets that it holds its beats, and which keys may come after it in the queue
(`Trails`): later ones, and the oldest that a deletion has asked for since (`After`). There
are fewer of these than the queue has places (`SureRoom`), so the bucket stays. `SureRoom` failed
for half the queue, which the property claimed before: a deletion a minute late takes
one place more, and TLC found the behaviour once the run had three beats. That a total
is the same for two tables that agree on the window (`TotalAgree`) is an induction over
data that needs no induction theorem: a smallest window for which it failed would, less one bucket,
be a smaller one (`LeastNat`).

### `MaintenanceProofs`

`MaintenanceTypes` (`TypeOK`), `JobsUnderControl` (`NoStrayJobs`), `MemoryIsTable`
(`StoredAsSeen`). `MInv` adds that there is a bean where a run is about to begin or
a job exists (`Used`), that at most the known job runs and none while a run is
between its halves, up to an overlap (`One`), and that memory and table agree up
to a store that failed (`Seen`).

`ToldWhenPlanned` (`StatusTruthful`) and `GapsExplained` (`GapsOnlyInRuns`). `InTime`
says that, when no run is to come that would schedule the plan anew (`Governed`), no pause
is to come either, and a plan with slots is between the halves of its run, its
status set back, or has exactly one job, with the starts of the plan
(`Scheduled`). Then a status that is on has a timeout by the end of a slot that has begun
(`Tells`), unless it is `overlong`, and a slot that goes on is told of until its end or is
about to be begun by the job (`Kept`). A timeout left by an older plan does no harm, since a slot that
begins sets its own; one that begins while another goes on would not, which is what
`Plain` excludes.

### `ServicesProofs`

* `DeadlinesOnce` (`DeadlineOnce`): each notice of a deadline that has gone out, and
  each that a call of `sendNotifications` may still send, is paid for by one of
  the overlaps and lost stores, and one is free (`Paid`). A restart ends the calls, and
  loses the stores of those that had sent: it pays for them at once.
* `StaleEntriesAreBrief` (`StaleBriefly`): `StaleInv` bounds the age of an entry and of
  the value a `get` holds (`EntriesAge`, `GetsAge`), and names for each stale entry
  the set, the failed store or the slow `get` that excuses it (`StaleExcused`).
* `AlwaysRecent` (`AnswersRecent`). `GeoInv` says that the table has true dates,
  that a date in memory is late by `Zone` at most, and that a call lasts a tick
  at most (`TableOK`, `MemoryOK`, `CallsOK`). That a lookup answers from what it
  found when it began is covered since the time to live is a tick at least
  (`GeoAssumption`).
* `AlertsEnd` (`UnhealthyForAReason`): `BridgeInv` is it, split into the range of the
  gauges and timers, that active alerts have a timer (`Timed`) and that unhealthy
  prefixes have an alert (`Reasons`).
* `FeedTellsTheTruth` (`FeedTruthful`). `FeedInv` looks at what the browser shows and
  the events on their way to it as one line of places, of which those before an
  overwriting list are lost and the list of a login goes first (`Lives`): every beat
  that is alive and later than one in the line comes after it (`InOrder`); the list
  of a login, read or on its way, misses no beat from its first on that is not in
  the line (`Covers`), so that it can go first; no beat that is sent and not stored is
  among the lost (`NoneLost`), since a list read later would miss it; and nothing is
  in the line but what is stored, sent or refused (`Only`), except while a clear is
  under way. The rest counts: rows that are read rise (`Rising`, from the ranks of the beats of a
  set, `Ranks`), all that is in the line has been made, and a login's list comes once.

The assumptions are those of the modules: ids are numbers where the code counts
with them, placeholders (`NoId`, `None`, `Unseen`, `Unsent`) are none of the values they stand
beside, sets of monitors are finite, starting trees are forests whose parents are groups and that are not
too deep, and bounds are numbers. TLC evaluates each of them in a run.

Only model-checked:

* liveness (`Converges`, `Settles`, `NoLeftovers`, `OutagesDetected`,
  `KeepsChecking`, `RequestsEnd`), which is out of the proof system's reach.

## 5. Not modelled, and further observations

Not modelled, because they keep no state that outlives a statement, or because
what they do is I/O, formatting or presentation: authentication, API keys,
notification providers, monitor types, conditions (a pure fold, covered by the
repository's unit tests), status pages, proxies and docker hosts, background
jobs, metrics, bootstrap and migrations, the pages of the web clients and the
vendored response cache. They are most of the lines of the repository (the
`.vue` pages, ninety providers, translations), which is why the share of mapped
lines is small although the components with concurrent state are covered. Of the
modelled components, what is left out is said in `PROJECT.json`.

Observed while modelling, and not a run of its own:

iris-sync

* a create whose answer was lost, then the master's monitor is deleted: its row stays
  on the probe (`reconciler.go:181`, against `iris-sync/README.md:97`: "If monitor exists
  in Probe but not Master -> DELETE"); so does the row of a mapping that died with the
  process or a torn file. `NoLeftovers` fails if it speaks of these rows too (`strayed`);
* a create writes its probe's parent id into the shared monitor; another probe's
  filter follows it and deletes a group that is needed (`reconciler.go:335`), and an
  update may send a row's own id as its parent, which the probe accepts (245);
* on a probe that runs a group only for its selected child, a group whose mapping is
  stale is created anew without a look at the index of names (148): with a lost answer
  there are two of it, as in `claim_duplicates`;
* two monitors of one name take each other's row (`reconciler.go:107`, against
  the comment at 117);
* the parent of a row may be verified against an id another probe wrote (788);
* the description and OAuth columns are not hashed, so their edits are not sent;
* an edit whose answer is lost and that is then undone keeps its settings on the probe;
* the child of a paused group is sent again in every cycle (260);
* drift is not repaired if the verification of that cycle fails (`main.go:329`): a group
  deleted on the probe leaves its child at the root, and once the hashes are stored
  nothing looks at it again. `Converges` fails with these two faults and one probe;
* not modelled: dry run, `delete_orphans: false`, `--force-resync`, and a request
  that the probe applies after a later one.

Beats and lifecycle

* "DOWN -> PENDING = this case not exists" (`monitor.js:1522`, 1557): it does
  (Docker, groups, manual monitors), and the recovery after it is announced to nobody;
* `clearHeartbeats` resumes a paused monitor, which stays in
  `server.monitorList` (`server.js:1712`, 2005);
* a pause between a resume's `UPDATE` and its start stops the old object only:
  the new one checks a monitor whose row is paused (2005-2015);
* `startMonitors` writes into `server.monitorList` what it queried before
  (`server.js:2051-2056`), while the server already listens: a resume, an edit or a
  clear in between has started an object that the list then forgets, and that no stop
  finds; a pause in between is overridden. It takes a pool of connections, MariaDB's;
* a delete between the query of a start and the start leaves a loop without a row
  whose every store fails;
* a notice of recovery precedes its heartbeat: if the store fails and the
  service goes down again, the new outage is the old one to the table and is
  announced by the next reminder at best (this is why `OutagesAnnounced` asks for a
  notice since the last heartbeat that was *stored* and not DOWN);
* two beats at once, of an old object and a new one or of a push call and the
  loop, each decide on the same previous heartbeat; a notice can be doubled or
  lost (`forked`);
* after a maintenance window a push call that says DOWN is announced without
  retries (`determineStatus`);
* the loop of a push monitor keeps its count of retries when the table is cleared;
* not modelled: the certificate notices and statistics within a beat.

Tree

* two edits that each move one group under the other both pass their checks and
  close a cycle (`raced`); every later walk over it that remembers nothing
  (`getNestingDepth`, `monitor.js:2361`; `isUnderMaintenance` in each beat, 1750)
  goes round for ever. `isParentActive` remembers, and takes a cycle for inactive;
* one edit that names the monitor itself as its parent does the same (`looped`): the check
  asks for the descendants only (`server.js:856-867`). The page does not offer it;
  iris-sync may send it (`reconciler.go:245`), and any client of the socket;
* the depth limit counts from the new parent upwards: a group moved with what is in
  it passes ten levels (`server.js:863`);
* an edit unlinks children only if it had read the monitor as a group: one that read
  it before another edit made it a group, and stores that it is none, leaves an
  ordinary monitor with children (`server.js:870`);
* a recursive deletion goes by lists it read before: what was put below a monitor
  that has been moved out since is deleted with it (`monitor.js:2310`);
* a recursive deletion announces the direct children only: clients keep what was
  below them until they connect again (`server.js:1187`);
* an edit that makes a group an ordinary monitor sets its children free without
  an event about them (`server.js:995`);
* an update that was read before a deletion and is sent after it puts the deleted
  monitor back on the clients' screens (`uptime-kuma-server.js:230`);
* `updateMonitorIntoList` builds its tree from the one monitor alone: a child is
  sent as inactive, with an empty path and no children (`uptime-kuma-server.js:255`).

Uptime calculator

* a 24-hour window of a running server is sure for less than half its length: the key of the
  oldest bucket, made again to delete older rows, takes every other place of the
  queue (`uptime-calculator.js:30`, 362);
* a beat counted while `init` is loading is overwritten by the row it loads (78);
* a queue whose first key is there twice, after a load, drops the bucket of the second
  with that of the first; if that is the current one, `update` throws (227), which
  takes shorter queues than those of the code;
* a clear during a beat is undone by it (849).

Maintenance

* `editMaintenance` changes the live bean before it validates: what is refused is
  in force until the next edit or restart (`maintenance-socket-handler.js:56`);
* pause, resume, delete and the begin of a slot change memory first, too: if the store
  fails, a maintenance is inactive in memory with its job running (267), active without
  a job (300), off the list with its row in the table (235), or has a last start the
  table has not (`maintenance.js:264`), until the next request or restart;
* a pause overtaken by a resume stops the job that the resume has made, and a
  run overtaken by a run leaves a job nobody can stop (`maintenance.js:284`);
* the links to monitors are deleted and then inserted one by one: beats in
  between see a part of them;
* a run in the last second of a slot takes the whole seconds that remain, none, for
  no duration given, and begins the slot for its full length (324, 368): `overlong`;
* a slot longer than 2^31-1 milliseconds, 24.8 days, ends as soon as it begins: its timeout
  is due at once (256).

Heartbeat feed

* each beat that is stored between the join and the query of a login is shown
  twice (`data.concat`, `socket.js:240`), and a list may hold up to 249 beats
  although a beat event keeps it below 150: the code drops one beat at a time;
* a beat that was sent before the join and stored after the query is not
  shown until the next connection (`monitor.js:1175`, 1180);
* the list of a clear wipes a beat that was sent between its query and its emission
  (`client.js:46`); a login that read before a clear and sends after it shows the deleted beats;
* `clearStatistics`, for all monitors, sends no list: other browsers go on showing what is deleted;
* a beat whose store fails stays on the screen.

Services

* the cleaner's `for (key in cacheList)` assigns the parameter of the `get` that
  started it (`settings.js:33`): if that `get`'s query outlives a minute, the value
  is filed under another key;
* of `setSettings` one store fails: the others are applied, and the cache is not
  emptied (133); nor if the query of a later key fails (119);
* the guard of the daily re-check subtracts now from the last check and always
  holds (`domain_expiry.js:215`): a domain is asked for once, its renewal is never
  noticed, and if the registry gave no answer then, "Invalid Date" is stored for good;
* beats of several monitors of one domain send the same deadline (258), and a restart
  between a message and its store (285-293) sends it again;
* a date that SQLite stores in UTC is read as local time (`geo-cache.js:89`): east of
  Greenwich rows look older than they are, west younger; and a row read before an await is put over a newer
  entry of the memory (93);
* the timer of an old alert resolves a renewed one, and with it the prefix that another
  type of alert has just made unhealthy (`bridge/index.js:191`: "Auto-resolve
  after 30 minutes if no update"); a slow poll overwrites the answer of a later one (210).

## 6. Plan

Done: all modules of section 2, and a theorem for each safety property of the
passing runs. What a further step would take up, most useful first:

1. Composition of `Monitor` with `Maintenance` and `UptimeCalculator`: what a beat
   asks of the one and feeds to the other, now choices of `Monitor`.
2. A request that the probe applies after the next one (`kuma.go:353`), and
   `--force-resync`, in `Reconciler`.

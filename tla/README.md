# FibreXWatch: TLA+ models, checks and proofs

FibreXWatch watches a home fibre connection. A worker samples the cumulative
WAN counters of a Huawei ONT and the devices connected to it and stores them in
PostgreSQL; an HTTP API serves usage, devices and settings from those tables to
a web dashboard; users sign in through sessions kept in Redis. This directory
holds TLA+ specifications of the parts of that system whose correctness depends
on the order of things, the TLC configurations that check them on small
instances, and proofs, checked by TLAPS, of their safety properties for every
value of the constants.

`PROJECT.json` lists the components, the runs, which lines of the source every
definition translates (`map`), the disagreements found between the code and its
documents (`findings`), the hazards of the code line by line (`hazards`) and the
theorems. Paths below are relative to `src/`.

## 1. The system

### Components, state and operations

| component | state | operations |
| --- | --- | --- |
| Worker process (`api/cmd/worker/main.go`) | the PostgreSQL session holding the advisory lock | take the lock or exit, prune raw data, log in to the router, run the collector |
| Collector (`api/internal/collector`) | `status` (attempts, failures), timer, two tickers; tables `worker_status`, `collection_requests` | collect on a timer with backoff, poll for device blocks and manual collections every 2 s, heartbeat every 10 s; one collection and exit (`-once`) |
| Ingestion (`store/ingestion.go`, `router/router.go`) | tables `router_readings`, `usage_intervals`, `collector_events` | record a reading and the interval it closes, prune |
| Huawei adapter (`router/huawei_adapter.go`) | `authenticated`, `authErr`, cookies; on the router the session, the counters and the MAC filters | log in, fetch pages, parse them, log in again once on an authentication error, block a device on one network |
| Huawei discovery (`router/huawei_discovery.go`) | none | with `ROUTER_DISCOVERY`, read the known pages and those they refer to when the worker starts, and log what is on them |
| Configuration (`internal/config`) | the environment, read once | among others, which network name a filter is set for (`FilterSSIDName`) |
| Simulated adapter (`router/simulated.go`) | start time | counters with uptime |
| Device control (`store/worker.go`, `httpapi/device_handlers.go`) | table `device_control_requests`, `devices.blocked_at` | queue, claim under a 30 s lease, complete |
| Device registry (`store/devices.go`) | tables `devices`, `device_readings`, `device_addresses` | upsert the devices of a snapshot, archive, restore, delete, rename, history |
| Usage reports, data plan (`store/usage.go`, `store/plan.go`) | table `data_plan` | sums over windows of intervals, billing period |
| Sign-in (`httpapi/auth.go`, `store/auth.go`, `cmd/users`) | table `app_users`; in Redis the sessions and the failed-login counters | create, disable, reset; log in, present a session, log out |
| Web dashboard (`web/src`) | React state of the shell (loading, login page, application) and of the application, list of known devices in local storage | find the session, log in and out, initial load, poll every 30 s, manual collection, history, chart, device actions |

The API and the worker share nothing but the database. A user's wish (block this
device, collect now) is a row the API inserts and the worker polls for; its
result, and the worker's health, are rows the worker writes and the API reads.
The operator's command line writes `app_users` behind the API's back; Redis
forgets everything when it restarts (`docker-compose.yml`).

### What is hard

- *Ingestion.* The transaction reads the latest reading, inserts a new one and
  charges the difference, at READ COMMITTED, next to pruning, to other workers
  and to a clock that may be stepped back; router counters restart.
- *Device control.* Claims under a lease, crashes in between, answers that are
  lost, deletion and rediscovery of the device meanwhile; a device that moves to
  another network after its filter was asked for.
- *Router session.* The firmware locks the account after repeated failures, so
  the adapter must tell refusals from accidents and cache them, while sessions
  expire, are displaced, and exchanges fail half-way.
- *Collector.* One goroutine does everything, so each activity delays the
  others; any statement may fail and is only logged; the dashboard infers the
  worker's health from ages.
- *Sign-in.* Every login is five steps against two stores; password resets,
  Redis restarts and other logins come between them.
- *Reports.* Sums over windows that must neither miss nor count twice what ends
  on their boundary; months that differ in length; truncating divisions.
- *Device list.* A page that names a device twice, in two kinds of record;
  snapshots under a clock that is stepped, next to pruning, deletion and
  rediscovery; a dashboard whose polls overlap and whose memory of known devices
  outlives it.
- *Dashboard.* Poll, history load, manual collection and chart overlap, and each
  writes the state that its closure captured when it began; a session may end
  under all of them, and a 401 of the last session may arrive in the next.

### What makes each part correct

Usage is charged at most once and for disjoint spans of time; a device is filtered
only on request and on the network it was on then, is shown as blocked only when
filtered, and requests are answered; a worker sees at most one login rejected,
never puts one answer together from two sessions, and recovers from everything but
a rejected login and what it takes for one; the
dashboard raises no false alarm, hides no failure, and never says a manual
collection is done before one that began later has succeeded; a session is
admitted only with the password it was opened with, and guesses are bounded; every
interval counts in one day, month and billing cycle, and the plan's page gives a
budget that can be kept; a device is shown online exactly if the latest page says
so, is announced once, and the dashboard comes to show the table; it shows the
history that was asked for, catches up with the server, finds out that its session
is gone, and gives its buttons back.

## 2. Modules

| module | contents |
| --- | --- |
| `UsageLedger` | abstract: what ingestion promises |
| `Ingestion`, `MCIngestion` | the pipeline; it implements `UsageLedger` |
| `BlockPromise` | abstract: what blocking promises |
| `DeviceControl`, `MCDeviceControl` | requests, leases and device rows; it implements `BlockPromise` |
| `HuaweiSession`, `MCHuaweiSession` | the adapter's session with the router |
| `Collector`, `MCCollector` | the worker's loop and what the dashboard shows of it |
| `AuthSessions`, `MCAuthSessions` | sign-in, sessions and throttle |
| `UsageReports`, `MCUsageReports` | usage windows and the data plan, over the history `Ingestion` writes |
| `DeviceList`, `MCDeviceList` | the router's device page, presence snapshots, the device list and the dashboard's alerts |
| `Dashboard`, `MCDashboard` | the shell, the session and the usage half of the dashboard |
| `IngestionProofs`, `DeviceControlProofs`, `HuaweiSessionProofs`, `CollectorProofs`, `AuthSessionsProofs`, `UsageReportsProofs`, `DeviceListProofs`, `DashboardProofs` | the theorems about the module they are named after |

Operators that carry the comment "mutant" are not used by any specification.
Each is a plausible wrong version of the definition that follows it; the
`mutants` of `PROJECT.json` say which property is violated when it is put in.

### Ingestion

One action per step at which another session can get in between. `Start` takes
the advisory lock (`pg_try_advisory_lock`) or the process exits; `PruneRawData`
deletes old readings; `Sample` is `ConnectionCounters`, stamped with the host's
clock `Wall = now + skew`; `SelectPrevious`, `LockPrevious` and `Record` are the
snapshot of the `FOR UPDATE` query, the row lock it waits for and the inserts
with their commit; `Rollback` any failure in between. `LockPrevious` keeps what
PostgreSQL does at READ COMMITTED: it waits for the row of the *snapshot*, and
returns that row although a later one was committed in the meantime (a row that
was deleted is dropped, and no row is returned). `Stop` is a crash or a signal;
`LoseSession` the end of the session that holds the lock, which the process
never notices. The router carries traffic (`Traffic`), restarts
(`RouterRestart`) and, with `PartialResets`, has single records in its sum of WAN
counters (`WanRecords`, after `parseHuaweiWANStats`): one starts again from zero
(`WanReconnect`), one is left out of the sum because it is missing or does not
parse (`SkipRecord`), counts on unread (`OmittedTraffic`), and raises the sum by
all it has counted when it is read again (`ReadRecordAgain`). `omitted` is what
the records left out have counted. `carried`, `restarts` (how often the reported
counters went down) and `billed`, and `truth`, `epoch` and `crossed` in the rows,
are history: the program cannot see them. The state is limited to one source; a
table that holds rows of another adapter is not modelled. A page none of whose
records parses is an error of the collection, a `Sample` that is not taken.

### DeviceControl

`pending` is the queue in order of `requested_at`. `QueueDeviceBlock` is split
at its snapshot (`SelectUnblocked`) and its insert (`InsertRequest`,
`RefuseRequest`), so two requests, a deletion or a completion come in between.
`PendingDeviceControl` claims the oldest row not leased; the answer may be lost.
A lease ends at any moment after the claim, which covers every relation between
the thirty seconds and the time the router takes. `BlockDevice` succeeds,
fails, or does its work and reports an error. Assumption: a success reported by
the adapter means the filter is set; the code takes any page that is not a
login page for success, and what the firmware makes of the form is not in the
repository. `RecordDevice` is the part of `RecordDevices` that touches `devices`.
A crash and a shutdown are both `Stop`.

A filter is a pair of a MAC address and a network. `blockDevice` reads the row
with the device's SSID first (`GetDevice`) and takes its snapshot of unblocked
rows later; both are `SelectUnblocked`, which is exact, because a row is never
unblocked again and the SSID used is that of the first read. `FilterSSIDName` is
the configuration's mapping from the name in the router's list to the one the
filter's form wants, which the parser completes where the list shortens it.
Asking again renews the request's place in the queue and not its network, as in
the code; `asked` holds the network of every asking. What `BlockPromise` promises
is per device and network: a filter is set only where one of them asked for it.

### HuaweiSession

One action is one HTTP exchange. `goal` says whether the login is that of
`configuredAdapter` (an error ends the process), the first of a call, or the one
repetition `reauthenticate` allows; `PageAnswer` is `requestPageBodyWithReferer`.
The three public calls of the adapter have the same shape and are one here: up to
`Pages` exchanges one after the other (the calls make two or three), all of them
repeated under the new session if one finds the old one gone. `Identity` asks for
the login page before anything else. Discovery (`DiscoverPages`,
`DiscoverCandidates`) comes between the login of the start and the first
collection; it never logs in again, an error of the menu or the WAN data ends the
process, and what it logs is left out. The router becomes unreachable or answers
5xx, ends the session, changes its password, or loses the answer to a login. The
history variable `refusal` says what a permanent error was made from: a rejected
password, a status of 5xx, or a session displaced before the landing page. A
router that refuses a page with 403 to a good session is not modelled.

### Collector

A tick is five seconds, the first backoff. Calls to the router take ticks,
statements against the database take none but may fail. The `select` of `Run` is
the choice among `TimerFires`, `PollDeviceControl` and `Heartbeat`; the timer and
the heartbeat are created after the first collection, whose backoff is dropped, as
in the code. `CollectorState` is the `status` handler, for a configured adapter
that has stored a reading (before, the handler says `awaiting-interface`).
`RunOnce` is a process of its own that may run while no worker does; it performs
at most one block and one collection, and exits. A request may be asked again
once it is answered (`POST /collect` inserts a new row); the code serves the
oldest row first, which with a single request comes to "any pending one".

### AuthSessions

One account, one client address. A login is `SubmitLogin` (the throttle),
`AuthenticateUser` (one select, then the hash), `RecordLoginFailure` or
`ClearLoginFailures`, and `CreateSession`; a request with a cookie is
`PresentSession` (Redis), `UserAuthVersion` (database), then `Serve` or
`EvictSession`. Redis commands and the database may fail at each. The field
`password` of a session is history: it is not stored.

### UsageReports

Extends `Ingestion`: the API's functions read the `intervals` its steps write. A
tick is a day, and readings are taken exactly at midnight, so that every
interval ends on a boundary, the hard case. `SummarizeUsage` is the sum over a
window; `Today`, `MonthUsage` and `UsageHistory` are the handlers. `CycleStart`,
`AddMonths` and `PlanPage` are `planUsage`, with the normalisation of `time.Date`
and `AddDate` and the truncation of its divisions; the page is read at midnight
or half a day later, for every billing day, allowance and usage within the
bounds, whatever the table holds. The calendar is a constant that begins a month
before the first day and ends after the last (`CoverAssumption`: there always is a
previous and a next month); the time zone is one throughout, as `a.location` is. `UsagePoints` groups by
`date_trunc`, closed at the start where the window is closed at the end, by the
day or the month; hours and weeks are the same code with another unit. The update
of the plan (one row, last writer wins) is not modelled. `allowance` and
`used` are small numbers: the products stay far below 2^63 in the code as long
as bytes times nanoseconds are formed in floating point, which they are.

### DeviceList

`ParseUserDevices` is the parser of the router's page, from the texts its patterns
match on: records of one kind before those of the other, the first record of a
device winning (`FirstRecord`; the rest of it is whatever that record says),
`realMAC` used unless it does not parse, addresses longer than six bytes skipped,
an error for a page with text but without devices. `RecordDevices`
stores any `Listing` of such a page; the history `snapshots` follows a definition
of what the page says that does not go through the parser (`SaysOnline`).
`RecordDevices` is one transaction and one action: readings marking every device
absent, the upsert of each listed device (which clears `archived_at`), a reading
for each. If a device is deleted under it the foreign key aborts it and nothing
changes. `ListDevices` takes the latest reading of each device. The browser's
requests in flight are a sequence; `Deliver(i)` may take a later answer first,
`LoseAnswer` drops one, `Reload` closes and reopens the page while local storage
stays. Archive, restore and delete act on the list as it is *shown*; the fetch
after them is one more `Answer`. The browser may show notifications. The history
from which `RepeatedOnlyIfHidden` is told is dropped once an answer has overtaken
another one, when the property says nothing more. Addresses and `DeviceHistory`
are not modelled.

### Dashboard

`shell` is the state of `AppShell`, the rest that of `App`, which is gone when
the shell unmounts it. The server's data is one `version` that grows: the
requests of one `Promise.all` are answered from some version between their being
sent and their arrival. An element of `inFlight` holds what the closure captured:
the whole state for a history load, the dates and the month for a manual
collection (kept through its POST and its timer), nothing for a poll, which uses
the functional form of `setState`. `NextView` says what each writes over what is
there. A 401 unmounts the application (`Unauthorized`); the answers that find no
application any more are `orphans`, which can throw a later session out
(`OrphanArrives`), since the event they raise is the window's. The user types
dates, selects months, applies ranges, changes the chart, collects, logs out and
reloads. `asked` and `mixed` are history. Left out: the plan's form, the device
dialog (their data is in `DeviceList` and `UsageReports`), and the end of a login
that fails.

## 3. Runs

| run | checks | shows |
| --- | --- | --- |
| `ingestion` | `TypeOK`, `NeverOvercounts`, `NoOverlap`, `GapsOnlyFromRetention`, `ExactBetweenRestarts`, `SingleActiveWorker`, `IInv`, `ImplementsLedger` | the accounting is right while the lock's session lives and counters restart together |
| `usage_reports` | `NoFalseRestart`, `ChargedInOneCycle`, `CardsAddUp`, `SustainableBudget`, `BelievableExhaustion` | what the API reports is consistent even when ingestion is degraded (the lock's session may end; single WAN records restart, are skipped and come back). The usage of an interval is then not exact (findings 1 and 2), but a restart is recorded only where the reported counters went down |
| `ingestion_two_workers` | `NoOverlap`, violated | finding 1 |
| `ingestion_wan_reset` | `NeverOvercounts`, violated | finding 2 |
| `device_control` | `TypeOK`, `DoneMeansBlocked`, `KeepsPromise` | a device that moves between networks; safe even with two workers that do not exclude each other |
| `device_control_live` | `RequestsAnswered` | with two devices queueing, no block request is stranded |
| `huawei_session` | `TypeOK`, `AtMostOneRejection`, `ReadUnderOneSession`, `RecoversUnlessTakenForRefused` | a process sees one rejected login at most, no answer mixes two sessions, and the worker is stopped only by a rejected login or by one of the two answers the adapter takes for one |
| `huawei_session_failing` | `Recovers`, violated | finding 3 |
| `collector` | `TypeOK`, `NoFalseAlarm`, `AnsweredAfterCollected`, `OneEventPerStreak`, `RequestsServed`, `FailuresShown` | status, answers and events under lost statements, crashes, slow calls and runs with `-once`; manual collections end, failures become visible |
| `auth_sessions` | `TypeOK`, `SessionsFaithful`, `GuessesBounded`, `AdmitsCurrentOnly` | resets and logins in any order |
| `device_list` | `TypeOK`, `OnlineMeansSeen`, `RepeatedOnlyIfHidden`, `Converges` | presence, alerts and the list shown, for any page and any order of snapshots, polls and user actions |
| `dashboard` | `TypeOK`, `HistoryAsAsked`, `Converges`, `LossShown`, `ButtonsComeBack` | the page shows what was asked for, catches up, notices a lost session and frees its buttons, in any order of answers |

### Findings

1. `ingestion_two_workers`. The lock is taken once, in one pooled session. When
   that session ends, the process goes on with the other connections of its pool;
   a second process gets the lock; both select the same previous reading and
   charge the same span. `api/cmd/worker/README.md:28` and `docs/RUNBOOK.md:180`
   say that only one process ever ingests.
2. `ingestion_wan_reset`. The reported total is a sum of WAN records, and a record
   that does not parse is skipped. If one restarts or is skipped and another
   counts on, the sum falls, `CalculateDelta` takes that for a restart, and the
   other record's whole count is charged again. When a skipped record is read
   again, the sum rises by its whole count, which is charged as usage although no
   counter fell; nothing marks such an interval. `docs/HUAWEI.md:91` calls the
   totals accurate.
3. `huawei_session_failing`. A 5xx from `login.cgi` becomes
   `ErrAuthenticationFailed`, which is cached for the life of the process; the
   comment of `Authenticate` says that transient failures are retried. A session
   displaced between `login.cgi` and the landing page ends in the same state
   (`huawei_adapter.go:207`); the passing run names both as exceptions
   (`TakenForRefused`) and shows that there is no third.

### Remarks without a run

- `AtMostOneRejection` is about one process. A supervisor that restarts a worker
  whose login is rejected at its start (`docker-compose.yml`) adds a rejected login
  with every restart, and nothing in the code keeps that from the firmware's
  lockout.
- `docs/RUNBOOK.md:172` speaks of five failed attempts; logins that overlap have
  all passed the check before the first is counted, so `GuessesBounded` adds one for
  every login under way.
- With the clock stepped back, the latest snapshot of the devices is still the one
  stamped last: a device that has left meanwhile is shown online until the clock has
  passed that stamp. `OnlineMeansSeen` is about the latest stamp and allows it.
- A request to block that is asked for again goes to the end of the queue. With
  users who keep asking, next to other requests that fail and are made anew, it
  could wait for ever; `RequestsAnswered` is about finitely many askings.
- Days are of 24 hours: a billing cycle with a change to or from summer time is not
  modelled.
- `api/cmd/worker/README.md:30` says the worker stops after the active
  collection finishes; the signal cancels the context that collection uses.
- Undercounting is possible and nowhere denied: a restart after which the
  counters have already passed their old values is not seen, as the Huawei
  adapter reports no uptime.
- `README.md:56` says that a notification appears when a browser sees a device
  for the first time and that the initial list does not alert. A device that was
  hidden and restored is announced again, because only active devices are
  remembered; so is one after an answer overtook a later one; the first list of
  a *later* visit does alert; and when all remembered devices are hidden
  newcomers are silent. `RepeatedOnlyIfHidden` states what is left.
- `RecordDevices` clears `archived_at` for every device the router lists, so a
  hidden device that is listed as offline returns although it did not reconnect.
- The dialog before a block says that the device is denied "on SSID-1"
  (`web/src/components/DeviceLifecycleDialog.tsx:83`); the filter goes to the
  network the device was last seen on, and to `ROUTER_SSID_NAME` only if that is
  not known.
- Asking for a block again does not renew its network: a device that moved after
  the first request is filtered where it was, and `KeepsPromise` allows that.
- A blank device page lists nobody and is no error, so it sends every device
  offline until the next collection.
- A page of discovery that fails ends the worker although the collections would
  not need it; the supervisor starts it again.
- The dashboard: the error page of a failed first load stays until the page is
  loaded anew, although the polls go on and succeed; the month selected falls back
  to the current one at the next poll; a load that overlaps another one may leave
  the older history on the page; a chart that cannot be loaded is shown nowhere,
  and it takes the dates typed in though they were not applied; a 401 that comes
  after a new login throws that one out. `HistoryAsAsked` and `Converges` state
  what is left.
- A reading at exactly midnight counts in the day that ends (the cards) but its
  bar is that of the next day, which can be a day beyond the range asked for.
- At exactly midnight `remainingDays` counts one day more than is left; the
  budget errs on the safe side, which is what `SustainableBudget` needs.

### Bounds, and why they are enough

- *Ingestion*: two workers, one direction, four ticks, retention of two,
  a clock step of one, one byte and one restart. Two of each is what an overlap,
  a gap or a double charge needs; four ticks leave room for a reading that
  expires while the worker is down. The two directions do not interact but in
  `IsReset`; the proofs cover any set of them.
- *UsageReports*: the same without clock steps, and readings on days 0 to 2. With
  one byte a WAN record can be skipped with its count and read again; sums that fall
  and stay above zero are left to `NoRestartInvented`, which covers any traffic, and
  to the run `ingestion_wan_reset`. Months of two and three
  days, two of which begin meanwhile, so billing days exist that fall on, before
  and after each reading, and one that only long months have. Allowances to three
  and usage to four give every order of the two, zero included, and every
  remainder of the divisions.
- *DeviceControl*: one device, two callers, two workers, two requests, one crash,
  and two row ids, so that the device can be deleted and come back. The router
  lists it without a network (the filter takes the default), under the second name
  of the 2.4 GHz network (it takes the first), or under the first name of the other.
  `device_control_live` has two devices, whose requests queue up, one caller and one
  worker, since liveness needs no race between users.
- *HuaweiSession*: three pages to a call, four faults of any kind. A history that
  ends in a second rejection would take two (a lost answer and a changed
  password), one that mixes sessions one; counts of logins saturate at six.
- *Collector*: interval of three ticks (so that the backoff of 1, 2, 4 is capped),
  one request, asked again and again, three failures, one block, one lost
  statement, and one process that stops or runs with `-once`. Waiting is limited by
  `MaxDuration`, one tick per call; `NoFalseAlarm` holds because two intervals leave
  room for one interval, two calls and a block; `Unhurried` in `CollectorProofs`
  says exactly how much room, for any constants. With a `COLLECTION_INTERVAL` not
  longer than the router's calls take, the dashboard does show `stale`, by the
  same reckoning. A second request adds only its place in the queue.
- *AuthSessions*: two requests at a time, two passwords, two tokens, a limit of
  two, one failure of Redis, three versions: one login, one reset and one
  more of each, in every order.
- *DeviceList*: two devices, pages of up to two records (two of one device, of the
  same kind or not, or one of each), two rows, two instants, two requests in flight:
  enough for one device to leave while the other stays, for two snapshots at one
  instant, and for one answer to overtake another. `SetClock` goes back as well as
  on, so two instants suffice for a history of any length.
- *Dashboard*: two months, two granularities, one change of the server's data, two
  acts of the user, one session that ends. Two acts make every pair of overlapping
  calls, next to any number of polls; the safety properties also hold with three.

Symmetry is used for sets of processes, devices, requests, tokens and passwords of
runs that check safety only. The deadlock check is on in every run: every model
can always step.

### Fairness

- `HuaweiSession`: an exchange that began ends (the client's timeout is eight
  seconds), outages end, and a supervisor starts an exited worker (weak fairness).
- `DeviceControl`: the worker is restarted and its ticker fires (weak), leases run
  out (weak), and neither the claim's answer nor the completion is lost for ever
  (strong fairness of claiming and completing: a retry comes every thirty seconds
  and the network is not down for good).
- `Collector`: calls return and time passes; Go's `select` chooses at random among
  the channels that are ready, so each of timer, poll and heartbeat is taken in
  the end (strong fairness). A statement that fails is bounded by `MaxLost`.
- `DeviceList`: the dashboard's timer fires every thirty seconds whatever became
  of earlier polls (weak fairness of `Answer`), and not every answer is lost
  (strong fairness of delivering the oldest).
- `Dashboard`: the question for the session is answered, the timer fires while the
  application is mounted, and calls end one way or another (weak fairness); not
  every poll fails, be it with data or with a 401 (strong fairness). What the user
  does is not assumed, and `Converges` is about a user who comes to rest.
- `Ingestion`, `UsageReports` and `AuthSessions` state safety only and assume none.

## 4. Proofs

Every safety invariant and action property that a passing run checks, and both
refinements, are proved for every value of the constants that satisfies the named
assumptions of the modules, under the hypotheses of the table.

| theorem | hypotheses | conclusion |
| --- | --- | --- |
| *IngestionProofs* | | |
| `TypeCorrect` | none | `TypeOK`, the unique instant per reading included |
| `OneWorker` | the lock's session lives | `SingleActiveWorker` |
| `NoOvercounting` | and counters restart together | `NeverOvercounts` |
| `OrderedHistory`, `OnlyPruningLeavesGaps`, `ExactHistory` | the same | `NoOverlap`, `GapsOnlyFromRetention`, `ExactBetweenRestarts` |
| `Invariance` | the same | `IInv` |
| `Refinement` | the same | `ImplementsLedger` |
| `ExactUnlessStepped` | `MaxSkew = 0`, counters restart together | `ExactBetweenRestarts` |
| `NoRestartInvented` | `MaxSkew = 0` | `NoFalseRestart` |
| *UsageReportsProofs* | | |
| `ChargedOnce`, `CardsAgree` | none | `ChargedInOneCycle`, `CardsAddUp` |
| `BudgetLasts`, `BelievableDates` | none | `SustainableBudget`, `BelievableExhaustion` |
| `ShownWasCarried` | the lock's session lives, counters restart together | no window shows more than was carried |
| *DeviceControlProofs* | | |
| `TypeCorrect`, `DoneIsBlocked` | none | `TypeOK`, `DoneMeansBlocked` |
| `Refinement` | none | `KeepsPromise` |
| *HuaweiSessionProofs* | | |
| `TypeCorrect`, `OneRejection`, `OneSessionPerRead` | none | `TypeOK`, `AtMostOneRejection`, `ReadUnderOneSession` |
| *CollectorProofs* | | |
| `TypeCorrect`, `FreshAnswers`, `OneFailureRecorded` | none | `TypeOK`, `AnsweredAfterCollected`, `OneEventPerStreak` |
| `HealthyIsShown` | `Unhurried` | `NoFalseAlarm` |
| *AuthSessionsProofs* | | |
| `TypeCorrect`, `FaithfulSessions`, `CurrentOnly`, `BoundedGuesses` | none | `TypeOK`, `SessionsFaithful`, `AdmitsCurrentOnly`, `GuessesBounded` |
| *DeviceListProofs* | | |
| `TypeCorrect`, `OnlineExactly`, `AnnouncedOnce` | none | `TypeOK`, `OnlineMeansSeen`, `RepeatedOnlyIfHidden` |
| *DashboardProofs* | | |
| `TypeCorrect`, `AskedIsShown` | none | `TypeOK`, `HistoryAsAsked` |

Each module proves an inductive invariant (`IInv`, unless another name is given)
and draws the properties from it. What it adds to them, and why it must:

- *Ingestion.* The hypotheses are the switches `SessionMayDrop` and
  `PartialResets`; the two violation runs show that they are needed. `LockInv`
  (whoever acts holds the lock) makes the actor alone, so the row selected is still
  the latest at the commit (`PreviousInv`). `ReadingInv` relates every reading to
  every later one: within an epoch counter differences are traffic, across a
  restart a counter is at most the traffic since, which bounds `CalculateDelta`
  (`DeltaBound`). `BilledInv` says that what is charged never exceeds the traffic
  at the *latest reading*, not only the traffic now: `NeverOvercounts` alone is not
  inductive, since the next interval charges from that reading on. `OrderInv` says
  where the history can go on: at the end of its last interval, or beyond what
  pruning spares, which is what an empty table means. The run `ingestion` checks
  this `IInv`. `Refinement` maps `Record` to `Charge` or a stutter, `Traffic` to
  `Carry` and everything else to a stutter. `NoRestartInvented` and `ExactUnlessStepped` do
  without the lock: with a clock that is not stepped, readings are stamped in the
  order in which they were taken (`Seen`), however many processes write them. Those
  of one epoch then do not fall, whatever WAN records restart, leave the sum and
  come back (`Agree`, `UpToNow`), so no restart is seen where there was none; the run
  `usage_reports` checks this under its constants. That they also agree on the
  traffic between them (`DeltaExact`), which makes intervals exact, needs
  counters that restart together: a record that is read again raises the sum without
  traffic.
- *UsageReports.* Every reading, sample and end of an interval is of a day of the
  history (`DaysInv`). The rest is about operators. The calendar: months are in
  order and one contains each day, so that consecutive cycles meet
  (`MonthsInOrder`, `DateInMonth`, `OneCycle`). The divisions: `Quotient` and what
  follows from it for the budget and the projection (`SharesFit`, `ExhaustedLater`,
  `ExhaustedBefore`). The sums: that the recursive function behind the community
  modules' sum exists and is one (`SumExists`, `SumsAgree`), then that any summand
  may be split off (`SumSplits`), that a sum is additive (`SumOfUnion`,
  `SumOfPairs`) and that what is additive is the sum of its parts (`SumOfParts`).
  Induction over subsets is stated for a *set* of good subsets
  (`SubsetInduction`), so that no operator is passed to a theorem.
  `ShownWasCarried` adds that the variable `billed` is what the table holds
  (`TableIsBilled`), which leads `NeverOvercounts` from the counters to the pages.
- *DeviceControl.* Row ids and request ids are given out once (`RowIds`,
  `RequestIds`); a request a worker holds is, whatever became of the row, one that
  was asked for on its network (`HeldRequests`, `PendingAsked`), without which
  completing it could mark, or filter, the wrong device; requests answered are of
  rows that exist (`AnsweredExist`), because the foreign key deletes them with the
  device. The refinement maps the worker's successful filter to `BlockPromise`'s,
  and the completion to its showing.
- *HuaweiSession.* `RejectionKnown`: what the router rejected beyond lost answers
  is one login and its error is cached. `PagesOfSession`: a call that has read a
  page has not logged in since.
- *Collector.* `LoopInv` and `Served` say what is true at each point of the loop;
  `Streak` which failures are recorded; `Timing` how old a heartbeat and a reading
  can be when the next one is due, in terms of the calls, blocks and lost
  statements that may have come in between. From `Timing` and `Unhurried` (the interval leaves
  room for the calls between two readings, the offline threshold for late and lost
  heartbeats) `NoFalseAlarm` follows. The run's constants satisfy `Unhurried`; an
  interval with less room can be shown as stale.
- *AuthSessions.* `SoundSessions`: what is said of stored sessions also holds of
  those a request carries between its steps. `GuessesBounded` has an invariant of
  its own, `ThrottleInv`: a wrong password that was compared is counted, lost, or
  about to be reported, and the counter leaves room for requests past its check.
- *DeviceList.* `Recorded`: readings and snapshots correspond exactly, which uses
  that the parser finds what the page says (`ParsedAsSaid`: the first record of a
  device is the one of least place). `Alerts`: as long as answers arrive in order,
  a device that some answer under way lists is listed by all later ones and by the
  table (`AnswersInOrder`), and what is steady is remembered (`Remembered`).
- *Dashboard.* `HistoryAsAsked` is about calls at rest; `ShownOrUnderWay` says what
  every call under way will write, and `OneAtATime` which calls exclude each other.

Least elements, of sets of numbers and of subsets, are taken with the library's
theorem about well-founded relations; where the argument is by induction, it is by
a least counterexample.

Only model-checked: the liveness properties (`RequestsAnswered`,
`RecoversUnlessTakenForRefused`, `RequestsServed`, `FailuresShown`, the two `Converges`,
`LossShown`, `ButtonsComeBack`), which depend on fairness and `ENABLED` and are out
of the prover's reach.

## 5. Not modelled, and why

The text of the router's pages below the records of the device page (patterns and
number formats; unit tests cover them), the reading of the environment, CORS and
routing, what discovery logs (it has no state of its own), formatting and
presentation in the dashboard, running the migrations. The health of an interval
that is short against the router's calls is a matter of configuration (see the
bounds of *Collector*). What has state or arithmetic worth checking and is not
there yet is the plan:

## 6. Plan

1. `DeviceHistory` (sessions counted from presence readings, with pruning and
   gaps), the addresses of a device, and the plan's form in the dashboard.
2. Each with its theorems; and the counts of `UsageReports` (readings per bar).

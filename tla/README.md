# Formal models of tabdock

TLA+ modules for the server (Go, package `main` and its sub-packages) and the
browser client (`home/*.js`) of tabdock, a self-hosted start page with accounts,
passkeys, shifts, schedules, subscriptions, wallpapers, weather and status
widgets.

## 1. The system: inventory

| Part | Source | State it keeps | Operations |
|---|---|---|---|
| IP score store | `log.go` | `ipScores` map, `json/ip_scores.json`, `ipScoreLastReset` timers | reload on every request, increment, reset, save, cleanup |
| Request gate | `log.go` | scores, `dynamicBlockMap`, `firstAccessIPs` (+ file), `rateLimitMap` | `secureHandler`: a pipeline of checks; cleanup every 10 minutes |
| Accounts | `logon.go` | `users` table of `acc.db` | register, login (with rehash of legacy passwords), change password |
| Passkey ceremonies | `logon.go` | `challengeStore`, `loginSessionStore`, credential columns, `webAuthnInstance` | register/login start and finish, cleanup ticker |
| Sessions and restore tokens | `logon.go`, `home/account.js` | signed cookies, signed restore token, device-id cookie, browser `localStorage` | issue, restore, logout |
| Shifts | `main.go` | `shift.db` | post (a batch), get, delete all; a post also rewrites schedule entries |
| Schedules | `schedule/` | `schedule.db`, attachment files | create, list, delete, delete by title prefix |
| Subscriptions | `subscription/` | `subscription.db` | create, replace, change status, delete, list, upcoming, renew overdue payments |
| Wallpapers | `wallpaper/`, `main.go` | rows of `wallpaper.db`, image files | upload, delete, list, repair at start |
| Weather | `main.go` | `weatherCache` under a mutex | fetch upstream, merge with the cached answer |
| Status and holidays | `main.go`, `getstatus/` | channels per request | collector goroutine with a timeout, fan-out and fan-in of commands |
| Legacy migration | `migration_schedule.go` | JSON files, `schedule.db` | import once at start, rename the source |
| Reminders of payments (client) | `home/subscription.js`, `home/script.js` | timers, `notifiedKeys`, `cachedUpcoming`, the one dialog of the page | (re)schedule every hour, on a new day, a log-in, a new payment; show what is due; go off |
| Full synchronisation (client) | `home/devtools.js` | `isFullSyncRunning` | run the loads and drawings of the page one after another, show the results |
| Calendar (client) | `home/calendar.js` | `schedules`, `selectedDate`, the lines drawn | load, refresh, enter a schedule, draw a day or the month, watch the date |
| Service worker | `home/sw.js` | cache | cache-first fetch |

How they interact.  Every HTTP request passes the gate before any handler runs,
except that for `/`, which is only redirected to `/home/` (`main.go:336`).
The gate reads and writes the score store; handlers take the user from the
session cookie and then work on one SQLite file each.  A shift post writes
`shift.db` and then replaces the `[シフト]` entries of `schedule.db`.  The client
keeps its own copy of user, schedules and subscriptions, refreshed by `fetch`
calls whose answers may arrive in any order, and is told about log-in and
log-out by custom events.

Where the difficulties are:

* concurrency: every request is a goroutine, the score file is rewritten without
  a lock, several handlers check a row and act on it later;
* failure: file and row are written one after the other in uploads, batches are
  a row per transaction, errors of the second database are only logged;
* restarts: timers, dynamic blocks, pending ceremonies and (without
  `SESSION_SECRET`) every token are gone;
* timeouts: the status collector outlives the request that started it;
* ordering: weather answers and client fetches overwrite newer state.

What makes each part correct:

| Part | Correct if |
|---|---|
| Score store | no interleaving, torn file or restart raises a score above the penalties given; requests that do not overlap see one atomic ledger; whoever behaves is forgiven, restarts or not; a block level on record is lost to nothing but a file cut off in writing |
| Gate | a grace period excuses what it is meant to; nothing but the loss of all scores takes a visitor from the block level; below it nobody is shut out for good |
| Rate limiter | at most twice the limit in any minute, no refusal without cause, forgetting idle visitors cannot be noticed |
| Accounts | one winner per name; a promised password stays the stored one |
| Passkeys | a challenge is spent once and in time; a session is opened by a passkey of its user only |
| Sessions | what the page shows, the cookies and the restore token belong together; absence and logging out end a session |
| Shifts, schedules | a confirmed post is stored; the calendar shows one post whole and nothing that never was; own entries stay; an uploaded attachment is there and complete |
| Subscriptions | payments stay on the schedule last entered, a renewal leaves none overdue (less the offset of a server west of UTC), and the page follows the server |
| Weather | values stay with their region and place, what was known is kept, the page ends with the region it names |
| Reminders | a payment has one timer for each reminder; nobody is reminded of another's; whoever keeps the page open is told the day before |
| Full synchronisation | it ends whatever fails, and leaves no call or dialog to the next one |
| Calendar (client) | the copy follows the server and the lines on the screen follow the copy; the page turns to the new day; a day has one cell, in its column |
| Wallpapers, migration | a row has its file and a user; nothing is imported twice or lost when the process stops half-way |
| Status collector | a request is answered in time and leaves nothing running |

## 2. The plan

Order of the work, the most important behaviour first:

1. **Done.** Score store (`ScorePolicy`, `ScoreLedger`, `ScoreStore`), the
   component with most concurrency and the least locking, with its abstract
   specification and proofs; then the gate and the rate limiter around it.
2. **Done.** The multi-statement handlers: `Accounts` (with proofs), `Passkeys`,
   `Shifts`.
3. **Done.** The parts that live in a browser and a server at the same time:
   `Sessions`, `Subscriptions`, `Weather`.
4. **Done.** The rest of the page: `Reminders` (timers against reschedules and
   dialogs), `FullSync` on top of it, `Calendar` with the grid in `MonthGrid`.
5. **Done.** Proofs of every safety property of these modules (section 5).
6. **Left.** `Boot`: creation of the databases, migration of `schedule.json`,
   repair of wallpaper rows, with a stop between any two steps, and the
   wallpaper handlers that produce the rows it repairs.
7. **Left.** `Status`: the collector, the request that waits for it and its
   timeout; a date change in `Weather`; the import of an iCalendar file in
   `Calendar`.
8. **Left.** Of the modules to come, `Boot` first: that nothing is imported twice or
   lost, and that a row has its file, as theorems beside the runs.

Composition.  `ScoreStore` and `RequestGate` share `ScorePolicy`; the gate takes
the store as the atomic ledger which `ScoreStore` is shown to implement, and the
rate limiter as an input that may object at any time.  `Shifts` composes the
shift table with the schedule handlers on one calendar.  `Sessions`,
`Subscriptions`, `Weather`, `Reminders` and `Calendar` each compose the server's
handlers with the page that calls them.  `FullSync` composes the synchronisation
with the reminders, with which it shares the one dialog of the page; `Calendar`
uses the grid of `MonthGrid`.

Abstract specifications: `ScoreLedger` (score and quiet time per visitor, and what
a restart would find) and `RateWindow` (a fixed window per visitor, never
forgotten).  One worth adding is an atomic replacement of the calendar by a post
of shifts.

## 3. Modules and the code they model

Common to all modules: one action is what one goroutine or browser callback does
between two points where another can run (a critical section, an SQL statement,
a file operation, a handler that shares nothing in between, a continuation of a
promise).  History variables are marked as such; they record what was promised
and are read by properties only.  Operators named "Mistaken variant" in the
comments are not used by any specification; each is a plausible slip in the code
next to it, under which a property of that module fails.

| Module | State | Actions and their code |
|---|---|---|
| `ScorePolicy` | - | `ResetWait`, `Expired`: `getResetDuration`, `thresholdDuration`, `shouldResetScore` |
| `ScoreLedger` | score and quiet time of a visitor, what is saved | the abstract specification: penalties, forgiveness, saving, passing time, restart |
| `ScoreStore` | `ipScores`, `ipScoreLastReset`, the score file, where each request is | `loadScores` as read and apply, `prepareScoreState` as read, judge and reset, `incrementScore` as score and timer, `saveScores` as snapshot, truncation and write; `cleanupMaps`; a stop of the process at any point |
| `RequestGate` | scores, timers, dynamic blocks, grace periods and their file | `secureHandler` as one action with all its checks in order, the same cut off by a stop of the process (`Interrupt`, with what it leaves of the score file), the bypass of the passkey routes, cleanup, restart, clock |
| `RateWindow`, `RateLimiter` | `rateLimitMap` | `checkRateLimit`, the part of `cleanupMaps` that forgets idle visitors |
| `Accounts` | `users` rows | the four handlers that write them, one SQL statement per action, any of which may fail |
| `Passkeys` | both session stores, the passkey column, responses on their way | start handlers, `Finish`/`Pop`/`Conclude...` for the finish handlers, cleanup ticker, restart |
| `Shifts` | shift rows, calendar rows, attachment files | `handleShiftPost` statement by statement, `deleteAllShiftsForUser`, the schedule handlers with the copy of an attachment or a name taken from the request, restart |
| `Sessions` | secret, cookies, `localStorage`, pending calls | log-in, passkey log-in, registration and restore from the form to the last continuation, `logout`, restart with a new secret |
| `Subscriptions` | rows, the page's list, its chains of requests | the handlers and the renewal transaction; loading, forms, buttons, reloads of the page; another client |
| `Reminders` | timers, list and keys of `SubscriptionManager`, calls under way, the dialog | `scheduleNotifications` up to its call and from the answer on, `showImmediateNotifications`, the timers' callbacks, what sets them going in `script.js` and `account.js`; `GetUpcoming` on the server |
| `FullSync` | how far `performFullSync` is | the button, the tasks, the table of results, the `finally` clause |
| `MonthGrid` | - | the 35 cells of `renderCalendar` |
| `Calendar` | rows of the server, the page's copy, the selected day and its lines, loads under way | `loadSchedules` in its five callers, `submitRegularSchedule`, clicks, `monitorDateChange`, other pages |
| `Weather` | cache per region, the page's title and texts, calls under way | `fetchWeather` of the page, `handleWeather`, `mergeWeatherResponse`, restart |

`PROJECT.json` maps every definition to the lines it stands for.

Abstractions worth knowing:

* Addresses in the score modules are public ones; private and trusted addresses
  return early and leave no trace.  The gate's requests are records of which
  check would object, in place of the patterns that decide it.
* Table rows in `Shifts` are what they say, not their ids, so equal rows are one.
* Hashing, signing and the passkey cryptography are what they guarantee: a hash
  remembers its text, a signature its secret, an accepted response its challenge
  and device.
* Time is counted in ticks and ages saturate where no comparison tells them
  apart.  `Subscriptions` has half days and real month lengths, since the
  overflow of `AddDate` matters.
* `Weather` counts places in a forecast from the day of each answer.
* `Reminders` counts half days.  A payment is due at a UTC midnight, which is
  taken to be in the second half of its local day (9 o'clock in Japan).  Keys of
  timers are left out of `notifiedKeys`, since nothing looks them up.  SweetAlert2
  has one dialog: a new one replaces it and releases whoever waits for the old.
* `Calendar` has the days of one month.  A schedule is a row of the server, so the
  same thing entered twice is two of them; times of the day are the order in
  which the server lists rows, those of one time in any order.  The
  holidays are an answer that comes or not.

## 4. What is checked

Bounds are CONSTANTS; a definition named `Max...` is a bound and not a limit of
the program, except where its comment says that a clock saturates.

| Run | Instance | Shows | States |
|---|---|---|---|
| `store_overlap` | two requests, two visitors, three penalty points each, levels 1 to 3, one stop | `NoInflation`, `BlockLevelStays` | 5.5 M (with symmetry) |
| `store_ledger` | one request at a time, two visitors, levels 2 to 4, two stops at any point | `ImplementsLedger`, `Forgiveness` | 97 k |
| `gate` | one visitor, every level, 16 kinds of request | `GraceExcuses`, `BlockLevelIsFinal`, `ServedInTheEnd` | 22 k |
| `rate_limit` | two visitors, limit 2, minute of 2 ticks | `Throttled`, `RefusedForCause`, `ImplementsWindow` | 94 k |
| `accounts` | three requests, a new and a legacy account | `WinnerOwnsAccount`, `PromiseLostOnlyToRehash` | 137 k |
| `passkeys` | three challenges, two devices, two finish requests, one restart | `SpentOnce`, `NeverTakenLate`, `LoginByOwnPasskey` | 228 k |
| `shifts` | one user, two requests, three batches, one attachment | the five relations between table, calendar and files | 2.9 M |
| `sessions` | two users, two calls pending, one restart, all lifetimes | `TokenFitsDevice`, `ShownAloneIsServed`, `LogoutStays`, `AbsenceEndsSession` | 5.4 M |
| `subscriptions` | west of UTC, one row, three writes, two chains | `OnSchedule`, `ListFollows`, `RenewalCatchesUp` | 2.7 M |
| `full_sync` | two users, one payment, two calls, four half days | `OneTimerEach`, `OwnReminders`, `AnnouncedInTime`, `OneSyncAtATime`, `SyncEnds` | 870 k |
| `calendar` | two schedules and the one the script begins with, two loads, two days | `ListFollows`, `LinesFollow`, `DayTurns` | 439 k |
| `weather` | two regions, two places, two calls | `ValuesInPlace`, `KnowledgeKept`, `TitleCatchesUp` | 74 k |

The runs `sessions` and `subscriptions` also check the type invariant `TypeOK` of
their module.  All type invariants are proved (section 5).

Why the bounds are enough for what is asked:

* **Scores.** A lost or invented penalty needs one stale copy and one writer:
  two requests.  In `store_overlap` the levels are one point apart, so that two
  overlapping requests take a visitor to the block level and the other visitor's
  requests rewrite the file meanwhile.  In `store_ledger` penalties of 1 and 2
  against levels 2, 3 and 4 reach every level from every other.  The waits keep
  the order of the program (the middle level waits least).  A stop may cut a
  request off between any two of its steps; the second one hits what the first has
  left.  What these runs check is proved for all values, but for `Forgiveness`.
* **Gate.** Visitors share none of the gate's state but the file, which a stop may
  leave empty; the loss is everybody's, so one is enough.  The levels
  15/25/50 are scaled to 3/4/5 and a tick is a quarter of an hour; the order of
  waits, block time and grace period is that of `security_config.json`.  The
  requests are the plain one, one for each single objection, and the pairs in
  which a first check lets a request go on to a second one.
* **Rate limit.** A limit of two distinguishes the first, the last permitted and
  the first refused request; a minute of two ticks has a beginning, a middle and
  an end; the retention time is twice the window.
* **Accounts.** Three requests: a log-in that holds an old plaintext and two
  changes, or three registrations of one name.
* **Passkeys.** A challenge to register, one to log in, and one to replace the
  passkey in between, or to register again after a restart.
* **Shifts.** Handlers touch rows of their own user only, so one user is
  enough; two posts that share an entry, one of which may be empty, overlap in
  every order.  A schedule without an upload names no file or one there has been,
  whole or cut short.
* **Sessions.** Lifetimes of 1, 2 and 3 days have the order of the program's, and
  the clock runs until the longest is over.  Two pending calls cross in all ways;
  three may be begun one after the other.
* **Subscriptions.** Months are those of 2024 to March 2026; the two dates are the
  31st of January and the 29th of February, so that the day of the month runs
  over, exists, and ceases to exist; one instant lies more than a year later.
  Three writes allow create, edit from an old copy, and another client.  The server
  is half a day behind UTC, where the query leaves out rows that are overdue; on one
  ahead of UTC it leaves out none.  That case, and more rows than one, are covered by
  `RenewalsCatchUp`, which holds for every offset.  The page in a state of being
  logged out is not modelled here.
* **Reminders and full synchronisation.** Two users exchange a list and timers;
  what is asked is asked of each payment by itself.  Two calls overlap, one of
  them the sync's.  The payment is due two days after the page was opened, so that
  the day of its announcement begins and ends within the run.
* **Calendar.** One schedule is on the server before the other and after it in the
  copy when it is entered here, so that order shows.  The month has 31 days and
  begins on a Saturday: the second of the two days has no cell and is reached by
  the change of date only.  Two loads, or a load and a post, cross in every way.
* **Weather.** Two calls are enough for one to overtake the other.

`CHECK_DEADLOCK FALSE` is set in `sessions` and `subscriptions`, whose clock and
numbers of calls end with the bounds.

### Fairness

* `ScoreStore!FairSpec`: weak fairness of each request's own steps (the Go
  scheduler runs a goroutine that can run) and of the clock.  Nothing is assumed
  of visitors: `Forgiveness` speaks of those who keep coming.  It is false of
  requests that overlap, with or without a restart: each may bring back from the
  file what another has just forgiven, for ever.
* `RequestGate!GateFairSpec`: weak fairness of the clock and of a plain request of
  each visitor.  The second is not a promise of the code but the assumption that
  makes the question meaningful: whether one who keeps trying gets through.
* `Weather!WeatherFairSpec`: weak fairness of the page's timer, of the server's merge
  and of the page's continuation; and strong fairness that a page which keeps
  asking gets a complete forecast again and again.  The latter is an assumption on
  the weather service, the network and whoever restarts the server.
* `FullSync!FairSpec`: weak fairness of the sync's own steps (callbacks run, and
  the table of results closes itself after six seconds), of each call (it is
  answered or fails) and of a visitor who closes the dialogs he is shown, without
  which `await Swal.fire` never ends.  Strong fairness of the sync's reschedule
  only because the bound on calls may hold it up; the program has no such bound.
* `Calendar!FairSpec`: weak fairness of the page's timer and of each load, which
  is answered or fails.
* The other modules are checked for safety only.

### Disagreements found

Met while modelling; the models contain the behaviour or name it as left out, and
no run is spent on showing it.

* A log-in that has read the plaintext password of a legacy account writes the hash
  of that password whatever the row holds by then (`logon.go:725`).  A password
  change answered 200 in between is undone, against "`200 OK`: Password updated."
  (`docs/api_en.md:54`).  `Accounts` has this; `PromisesAreKept` proves that nothing
  else can undo a change.
* A reset that judged an older score clears one that has reached the block level
  since (`log.go:987`), against "Score 50+: 0 (block, no reset)" (`log.go:304`).
  `ScoreStore` has this; `BlockLevelOutlastsOverlaps` proves that overlapping requests
  cannot take a level that was on record before the reset was under way.
* A stop of the process while `os.WriteFile` is at work on the score file leaves it
  empty or cut off, which `loadScores` ignores: every score is gone, block levels
  included (`log.go:578`).  `Interrupt` of `RequestGate` and `Crash` of `ScoreStore`
  have this.
* Increments made between another request's reading of the file and its taking over
  what it read are lost, and of two snapshots the older may reach the file last
  (`log.go:568`, `log.go:578`).
* A schedule posted without a file keeps the attachment its JSON names
  (`schedule/handler.go:72`, overwritten in line 116 only if a file came), so the
  calendar may link to one that does not exist (`home/calendar.js:963`).
* The query of overdue payments compares dates and the local time as text
  (`subscription/subscription.go:94`).  On a server west of UTC a payment overdue by
  less than the offset is left out; the next renewal catches up with it.
* A stop, or a failed statement, after a post has cleared the calendar leaves it
  without those shifts until the next post (`main.go:1505`).
* Registration opens no session and logging out leaves the session cookie, so after
  log-in as A, logout and registration of B the page says it is logged in as B
  (`home/account.js:1213`) while requests are served as A's (`Sessions`).
* The grid of a month has 35 cells: a month of 31 days that begins on a Friday or
  Saturday, and one of 30 that begins on a Saturday, lose their last days
  (`home/calendar.js:46`).  `GridComplete` proves that these are the only ones.
* Deleting all shifts reloads the schedules but draws nothing, so the deleted ones
  stay on the screen (`home/devtools.js:1993`, whose comment says that the calendar
  is reloaded); a schedule that arrives while a refresh awaits the holidays may be
  missing from the lines in the same way (`Calendar`).
* Logging out leaves the timers of reminders and the list behind them
  (`home/account.js:243`), and the `finally` clause of the full synchronisation
  closes whatever dialog is open, be it a reminder that has replaced its table
  (`home/devtools.js:1137`; `FullSync` has this).
* Two tabs that log in or restore at a time may end with the cookies of one answer
  and the restore token of the other (`home/account.js:1040`); `Sessions` marks such
  calls as crossed.
* A form filled before a renewal and saved after it puts the date back, and makes a
  subscription of a cycle it does not offer a monthly one (`subscription/handler.go:249`).
* A visitor whose entry was cleaned up gets a second grace period (`log.go:1002`,
  against "blocks all non-Cloudflare traffic after grace period", `log.go:150`).
* `handleSuspiciousPath` matches the server's own `/api/subscriptions/` ("script")
  and `/api/auth/login` ("login") for public addresses (`log.go`, about line 1150).
* Two overlapping registrations may get one mail address (`logon.go:1264`): only
  the user name is UNIQUE.
* A second passkey replaces the first (`logon.go:953`), there being one column.
* `HandleWebAuthnLoginStart` does not call `initWebAuthn` (`logon.go:1581`), so
  it breaks off after a restart until another handler has made the instance
  (the comment at `logon.go:1565` expects otherwise).
* An abandoned ceremony stays in memory until the ticker (`logon.go:889`).
* Refusals of a restore are plain text, so `clearRestoreToken` is never reached
  (`home/account.js:207`); a page that shows a user never restores his ended
  session (`home/account.js:191`); the passkey log-in saves no restore token; the
  device cookie of 180 days is never renewed.
* A shift post looks its user up in a `users` table of `shift.db` that no code
  fills (`main.go:691`, `main.go:1475`, against `docs/api_en.md:98`); `known` in
  `Shifts` is any set of users for that reason.  Deleting the shifts leaves the
  calendar as it is; a post repeated after a lost answer doubles its rows
  (`main.go:1485`).
* `shift_modal.js` awaits the result of `close()` on a value that has none, so a
  post that succeeded is shown as failed and the reload after it is never reached
  (`home/shift_modal.js:47`).
* `getUserIDFromSession` and `deleteAllShiftsForUser` open fixed paths, whatever
  `DB_ACC_PATH` says (`main.go:1586`).
* Docs and page say `cancelled`, the server `canceled` (`docs/api_en.md:166`).
* The page's edit form offers two of the four cycles the server knows
  (`subscription_calendar.js:918`, against `docs/release/temp/release_notes.md:298`).
* Payments are renewed at most once per page load, only if the wrapper is
  installed before `calendar.js` calls `monitorDateChange`, and not when the date
  changes (`subscription_calendar.js:1254`, against `release_notes.md:528`).
* `AddDate` moves a payment of the 31st of January to the beginning of March and
  keeps it there; the page has a function that would clamp it and never calls it
  (`subscription_calendar.js:1316`).
* A change whose answer is lost leaves the page's old list; a list that cannot be
  loaded empties it; an older answer may replace a newer list
  (`subscription_calendar.js:56`, `calendar.js:918`).
* Upcoming payments reach three days ahead, so a reminder three days before can
  hardly be set (`home/subscription.js:446`); `notifiedKeys` is extended only
  when the dialog closes (`:237`); overlapping `scheduleNotifications` set timers
  twice, and one in flight at the due time misses it (`:383`); `cachedUpcoming`
  survives logging out (`:150`).
* Passkey registration is shown as done whatever the finish call answered
  (`home/passkey.js:84`).
* After midnight a value missing for the new day is filled with yesterday's, as
  forecasts are merged by index (`main.go:1098`); of two answers for one region
  the older may be merged last (`main.go:874`); the title names a region before
  its forecast is there, and texts of the other region stay where the new answer
  has none (`weather.js:19`, `weather.js:120`).
* The status collector of a request that timed out blocks for ever
  (`main.go:814`).
* The migration asks again and again when its input ends
  (`migration_schedule.go:152`); a stop between import and rename imports
  everything again (`migration_schedule.go:219`).
* Wallpapers of users missing in `acc.db` go to everybody at the next start
  (`main.go:660`).
* `database/subscription.sql` and `subscription`'s older copy are used by nothing.

### The locks of `log.go`

There is no module for these, since the argument is short.  `cleanupMaps` holds
`ipScoresMutex` for reading while it takes `ipScoreResetMutex`, and
`rateLimitMutex` while it takes the mutex of an entry.  Of the other functions,
`checkRateLimit` takes `rateLimitMutex` and then the mutex of the entry, in the
same order, and all others hold one mutex at a time.  The order has no cycle, and
no function takes a mutex it holds, so nobody waits in a circle.

## 5. What is proved

Every safety invariant, action property and refinement that a run checks is also a
theorem, for every number of requests, visitors, users and every other value of
the constants that the named assumptions allow; a hypothesis beyond those is
named here.  `PROJECT.json` lists which theorem states which property.  Where two
independent components share a proof module, the names of one carry its own
(`GateSpec`, `AccountsSpec`, `WeatherSpec`).

Most properties are not inductive.  What is said below of each is what had to be
added and why.

`ScoreProofs`, of `ScoreStore`, from `PolicyAssumption` and `StoreAssumption`:

* `TypeCorrect`, `NeverInflated`.  The map is replaced by what a request read from
  the file, and the file by what a request took from the map.  The invariant
  `IInv` adds `CopiesBounded`, the same bound on the file and on every copy in a
  request's hands.
* `LoneRequestsImplementLedger`: with `Workers = {w}`, `Spec => ImplementsLedger`,
  stops of the process at any point included.  The invariant `Lone(w)` says what a
  request that is alone knows at each step: the file it reloads is the map it saved,
  or the map is empty after a restart (`Fresh`), and the score it judges is still the
  current one.  Each step is then a step of the ledger or leaves the ledger's state
  alone.  Between requests the ledger's score is what the file has, so that a restart
  shows at once and the reload that follows changes nothing; the timer which
  `incrementScore` is about to restart already counts as restarted.  With two
  requests the statement is false (a stale copy loses penalties, a stale judgement
  clears a score), which is why it is stated for one.
* `BlockLevelOutlastsOverlaps`: `Spec => BlockLevelStays`, for any number of requests.
  A block level is on record (`OnRecord`) when the file, every copy in a request's
  hands and the map, or else the file from which it is about to come back, have it
  and no request has judged a lower score.  From there it goes only if the process
  stops while the file is being written; every other step, torn reads, stale
  snapshots and restarts included, writes what has it.  The hypothesis that nobody is
  about to forgive a lower score is needed: without it `ResetScore` is a
  counterexample (section 4).

`ScoreProofs`, of `RequestGate`, from `PolicyAssumption` and `GateAssumption`:

* `GateTyped`, and `TheBlockLevelIsFinal`: outside relaxed mode whoever is at the
  block level reaches no handler but those of the passkey routes, and stays there
  however often maps are cleaned up and the process restarts, unless it stops in the
  middle of a request that was saving scores and comes back without any.  Requests
  do not overlap in this module; for those that do there is `BlockLevelStays`.
* `GracePeriodsExcuse`: in balanced mode no grace period runs while a block for the
  rate or the user agent lasts.  Besides the assumptions it needs two facts of the
  configuration: both objections cost something (`Priced`), and no wait for
  forgiveness other than zero is shorter than a block (`Patient`).  They hold of
  `security_config.json` (a block of 30 minutes, waits of 360, 720 and 1440).  The
  invariant `GraceInv` says why: as long as such a block lasts the visitor has a
  positive score whose clock is no older than the block, so it cannot be forgiven
  and he cannot be taken for somebody new.

`RateLimiterProofs`, from `LimiterAssumption`:

* `LimiterTyped`, `TwiceTheLimit` and `RefusalsHaveCause`.  The history is a set of
  the requests of the last minute with their ages.  While a window is open the
  invariant `Open` counts those made since it was opened, which are at least as many
  as the entry counts, and those let through: at most the limit since then and at
  most the limit before, so twice the limit together.  After a window has closed
  what was let through is one window's (`Closed`).  `Numbered` keeps requests of
  the same moment apart, without which adding one need not raise the count.
* `LimiterImplementsWindow`: `Spec => ImplementsWindow`.  The step that matters is
  the cleanup: an entry is forgotten when older than `Keep`, which is at least
  `Window`, so the abstract window is closed already and the step changes nothing.

`LogonProofs`, of `Passkeys`, from `PasskeysAssumption`:

* `CeremoniesTyped`, `ChallengesAreSpentOnce`, `ChallengesAreTakenInTime` and
  `LoginsAreByOwnPasskey`.  `IInv` adds that a stored challenge is stored once and
  has not been taken (`Unspent`), that nothing has happened to challenges still to
  be issued (`Untouched`), that what is left of a challenge's life complements its
  age (`Timed`), and that a passkey on record, or read by a request before another
  one replaced it, was registered for its user (`Owned`).

`LogonProofs`, of `Accounts`, from `AccountsAssumption`:

* `AccountsTyped`, `RegistrationHasOneWinner`, `PromisesAreKept`.  A rehash writes
  what was read some statements before, so `AccountsInv` must say what a request's
  reading is still worth: who has read a plaintext password has read the promised
  one or the last change overlapped him (`ReadAsPromised`), plaintext passwords
  belong to legacy accounts and a request about to rehash was given the same text
  (`OldPlaintext`), who has read a row is served while it exists (`SeenStored`), a
  winner has a row and no legacy account (`WinnersStored`), and a request stands at
  a statement of its own handler (`Purposeful`).

`SessionsProofs`, from `SessionsAssumption`:

* `SessionsTypes`; `OfCall` says of each place of a call what it holds there.
* `LogoutIsLasting`.  `Left` adds that from a log-out with nothing pending until a
  form is sent there is no restore token, in the browser or on its way.
* `SessionsEnd`.  `AllVouched`: a token in the browser, in a request or in an
  answer, if it is of the present secret, ends no later than `RestoreTTL` after
  its user was last handed a session.
* `ShownIsServed`.  `Lone` says that as long as no calls crossed there is at most
  one, and `ShownInv` that an answer on its way, unless it is a registration's,
  carries the session of the user the page is going to show.
* `TokensFit`, for `RestoreTTL <= DeviceTTL`.  `FitsInv`: a token that has not
  expired has its device cookie, and an answer on its way was made for the cookie
  the browser has.  The hypothesis is needed: a restore token that outlives the
  device cookie comes back in an answer under another device; with lifetimes of 2
  and 1 days TLC finds it.  The code has 30 and 180 days.

`ShiftsProofs`, from `ShiftsAssumption`:

* `ShiftsTyped`, `CreatedShiftsAreStored`, `CalendarShowsOnlyShifts`,
  `LastToClearIsShown`, `AttachmentsAreWhole` and `OwnEntriesAreKept`.  The one
  that is not evident is `LastToClearIsShown`: posts clear and fill the calendar
  row by row and in any order.  The invariant `Follows` is that, while nothing has
  failed, either one post of the round is shown whole, or the last to clear the
  calendar has shown all that it has created so far, or nobody has got as far as
  clearing it.  `Backed` says what a request that is under way may rely on: what
  it has registered is in the table, or a deletion has overlapped it.
  `AttachmentsAreWhole` is about files that came with a row; a name the client sent
  without one promises nothing.  `Uploads` says that an uploaded attachment about to
  be inserted has been copied to its end.

`SubscriptionsProofs`, from `SubscriptionsAssumption` (the months of the calendar,
in order) and `TableAssumption` (it reaches far enough for the payments that may
become due; the days of the model come from a table, the program's do not end):

* `SubscriptionsTyped`.
* `PaymentsOnSchedule`, `RenewalsCatchUp`.  The renewal loop is a recursive
  function of the date; that it is defined everywhere is `WalkExists`.  `SchedInv`:
  walking from the date last entered up to the present comes by the stored one, so
  it does not matter how often and when the loop ran on the way.  `RenewalsCatchUp`
  is about the state an answered renewal leaves, of every row whether it was moved or
  not (`RenewCatchesUp`): the loop ends past the present, and what the query does
  not select is not overdue, or west of UTC by less than the offset.
* `CopyFollows`.  `CopyInv`: as long as no chains of requests crossed there is at
  most one, and unless another client wrote, what it has read is what the server
  has.

`PageProofs`, of `FullSync` and `Reminders`, from `RemindersAssumption`:

* `TimersBounded`: types, and that no payment has more timers of a kind than there
  may be calls at once, for which `Room` counts timers and calls together.
* `RescheduleAloneSetsOneTimerEach`, `RescheduleAloneIsOwn`: a reschedule that
  began while no other one was waiting leaves one timer for each reminder, and only
  the reminders of the user logged in.  `Alone` says that such a reschedule is the
  only call, and that there is no timer until its list has come; `Own` that the
  list is that user's.
* `SyncsDoNotMix`: `Spec => OneSyncAtATime`.  Calls and dialogs of a sync exist only
  in the stages that wait for them, and there is one at most; the reschedule of the
  sync and the table of results are begun only when none is left.
* `PaymentsAreAnnounced`, for payments due two days or more after the page was
  opened (`PayDay[p] >= 2`): such a page sees the day before begin.  `Warned` says
  what the page has done by each half of that day: announced the payment, or not
  yet seen the new day, or sent a call whose list has it (`Announcing`);
  `KeysAnnounced` that a key which suppresses the announcement is there only after
  it; `Behind` that the page never sees a day before it comes.

`PageProofs`, of `Weather`:

* `ForecastsTyped`, `ForecastsStayInPlace` and `MergesForgetNothing`: a value shown
  or cached belongs to its region and place, and a known value is forgotten only in
  a restart or with an answer that has no forecast at all.  The invariant
  adds the same of a forecast on its way (`UpstreamInPlace`).

`CalendarProofs`, from `CalendarAssumption` and `NameAssumption` (the words that
stand for an answer not read or used up are no schedules):

* `GridInPlace`, `GridComplete`: for every month a day has one cell at most, in the
  column of its weekday, and all days have one exactly if five weeks are enough.
* `CalendarTyped`.  The length of the page's list is bounded together with the
  number of schedules that may still be appended to it (`Fits`, `Unsettled`).
* `CopyHasEachOnce`.  `CopyInv`: a copy nobody else touched and no load crossed
  has, between loads, exactly what is stored, each once; a load under way has read
  exactly what is stored, and nothing is being posted meanwhile.
* `LinesAreOfTheDay`.  `LinesInv`: the lines are the schedules of the selected day
  in the order of the copy, unless a change of the copy has not been drawn yet.

Recursion.  The induction theorems of the library take an operator as a parameter
and cannot be used here.  Induction over numbers is derived from well-founded
subsets instead: a set of counterexamples has a least element (`WFMin`).  That is
how the recursive functions `WalkExists` (the renewal loop) and `AmongExists` (the
schedules of a day) are shown to be defined for all arguments, and how facts pass
along a list.

Only model-checked is liveness, which is out of the prover's reach: `Forgiveness`,
`ServedInTheEnd`, `TitleCatchesUp`, `SyncEnds`, `DayTurns`.

## 6. What is not modelled, and why

* Planned: wallpapers, migration and start, the status collector, the import of an
  iCalendar file and the fields of the form in `Calendar` (section 2).
* Profile pictures: a file and a column, the same two steps as an attachment in
  `Shifts`.  Shift text parser, appearance settings, static pages, PWA detection:
  presentation or pure functions of one page.  Service worker: a cache filled once
  per version.  Developer tools: those that change something are in `FullSync` and
  `Calendar`, the others display diagnostics.
  Release and host scripts: operated by hand.
* Detection patterns, address parsing, formatting, logging and templates: inputs
  of the models, or left out.

## 7. Running it

Each run is `tlc -config <run>.cfg <MC module>`; each proof module is checked
with `tlapm`.  The longest runs take one to a little over three minutes with
two workers (`store_overlap`, `gate`, `shifts`, `sessions`, `subscriptions`,
`full_sync`, `calendar`); the larger
proof modules take a few minutes each.

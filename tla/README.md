# Smart Parking Prizren: a TLA+ model of the platform

The repository is a parking platform: a NestJS backend over PostgreSQL (Prisma, PostGIS)
and Redis, and a Next.js frontend with a live map. This directory holds TLA+ models of its
backend services and of the state its pages keep, the TLC configurations that check them on small
instances, and TLAPS proofs of what holds for every instance. Paths below are relative to
`smart-parking-backend/src/modules/`, or for `.tsx` files, hooks, `lib/` and `store/` to
`smart-parking-frontend/`, unless they say otherwise.

## The system

Each HTTP request, sensor tick and reminder check is an `async` function. Node runs one of
them at a time, but every `await` (a query, a Redis call) lets the others in, and several
instances of the backend may share the database. So the unit of atomicity is the query, or
the transaction where there is one.

| Component | State it keeps | Operations | Talks to |
|---|---|---|---|
| sessions | `parking_sessions` | check in, check out | spots (status), reservations (read), Redis, notifications |
| spots | `parking_spots.status`, code, zone | create, update, update status, remove | zones, audit log |
| zones | `parking_zones` | create, update, remove (cascades to spots) | audit log |
| sensor simulator | the list of the tick in progress | `tick` every 8 s | spots, `sensor_events`, Redis |
| reservations | `reservations` | create, cancel, upcoming windows | spots (read), notifications |
| notifications | `notifications` | create, mark read, mark all read, `checkReminders` every minute | reservations (flag), Redis |
| realtime gateway | rooms of connected sockets | join and leave a zone, private room, forward messages | Redis subscriber, browsers |
| redis | channels, counters | publish, subscribe, INCR/EXPIRE | gateway, rate limiter |
| auth | `users.hashedRefreshToken`, one-time tokens | register, login, Google, refresh, logout, verify, reset | users, e-mail, audit log |
| users | `users` | role change, token columns | auth, admin |
| rate limiting | one Redis counter per route, address and window | `canActivate` | redis |
| admin | none | statistics, heat map, peak hours, alerts | all tables (read) |
| audit log | `audit_logs` | record, list | staff handlers |
| e-mail | none | send | external service |
| frontend session | the store of each tab, its copy in local storage | sign-in, callback, sign-out, `apiFetch` with its one renewal on 401 | auth |
| frontend pages | React Query caches, dialogs, one socket | live map, bell, citizen pages, staff tables | everything above |

What makes each correct, and what is hard about it:

* **sessions**: a citizen holds one spot at most, a spot has one holder at most, the status of a
  spot agrees with that, a session never reopens, everybody is told once and truthfully. Hard:
  two requests of one citizen, two citizens on one spot, staff and sensors writing the same
  column, a spot removed in the middle, a failure after the commit.
* **spots, zones**: no lost updates, nothing left behind by a removal. Hard: `update` reads,
  then writes whole rows; cascades run under requests in flight.
* **sensor simulator**: never frees a spot somebody is checked in to. Hard: it decides from one
  read and writes several awaits later; ticks may overlap.
* **reservations**: no two confirmed windows of a spot overlap; a cancellation is announced
  only if it was made, and by no request that came after it. Hard: check and insert are separate statements without a transaction.
* **notifications**: one reminder, in time, for every reservation that is due. Hard: crash
  between the notification and the flag, overlapping checks, boundaries of the window.
* **realtime, live map, bell**: once everything on its way has arrived, what a connected page shows is
  what there is; private notifications reach nobody else. Hard: an update between the fetch and the
  join, reconnection, answers older than messages, a socket that outlives a session.
* **auth**: a session that was ended stays ended until the user signs in again, a link that was used is refused. Hard: refresh against
  logout or reset, links asked for again, 72 bytes of a token that are the same in all tokens.
* **users**: a demotion takes effect, and whoever acts on a role they have lost had it when it was read for
  their token. Hard: two changes at once; the guards believe a token that outlives the role; a renewal under
  way at the change.
* **rate limiting**: no more than the limit passes, nobody is locked out for long. Hard: a crash between
  INCR and EXPIRE, guards that overlap, a window that ends between the clock read and INCR.
* **catalogue (zones, spots)**: see above; `update` writes every column back.
* **admin**: figures that add up, alerts that are true, from queries with no common snapshot.
* **frontend session**: the tokens in the store are those of the user shown. Hard: several calls renewing
  at once, sign-in, sign-out and callback between a 401 and its renewal.
* **frontend pages**: caches that end up right. Hard: answers in any order, pages left and entered
  meanwhile, another user's cache.

`PROJECT.json` lists the hazards line by line with the properties that cover them.

## Modules

Backend core, each with a configuration module and proofs:

* `Parking.tla`: check-in, check-out, sensor ticks and the staff's writes, over the two tables
  they share, with the publications and notifications they cause.
* `ParkingLot.tla`: the abstract specification of check-in and check-out: a set of pairs
  (spot, citizen), and `Park`, `Leave`, `Remove`.
* `Booking.tla`: creating and cancelling reservations, and the reminder check, over a clock.
* `Platform.tla`: the two over one database, each the environment of the other.
* `MCParking.tla`, `MCBooking.tla`, `MCPlatform.tla`: values for the constants of the small instances.
* `ParkingProofs.tla` (with what the lot promises), `BookingProofs.tla`, `PlatformProofs.tla`.

Services and pages; they all extend `Common.tla` (`None`, `Faults`):

| Module | What it models | Checked in | Proofs |
|---|---|---|---|
| `Accounts.tla` | `AuthService` over the columns of `users`: registration, login, Google, refresh, logout, verification, reset | `MCServices` | `AccountsProofs` |
| `RateLimit.tla` | `RateLimitGuard` and its counters in Redis | `MCServices` | `AccountsProofs` |
| `Catalog.tla` | codes, names, outlines and zones under create, update, remove and what ticks write back | `MCServices` | `CatalogProofs` |
| `Monitor.tla` | alerts and overview of the admin panel, query by query | `MCServices` | `MonitorProofs` |
| `Browser.tla` | `useAuthStore`, local storage, `apiFetch` and the renewal of tokens | `MCServices` | `PagesProofs` |
| `Panels.tla` | the staff's tables of zones and of spots: cache, paging, dialogs | `MCServices` | `PagesProofs` |
| `Pages.tla` | the citizen's pages: active session and reservations, their caches and buttons | `MCServices` | `PagesProofs` |
| `Roles.tla` | roles in the row, in the token and in the store; changing them | `MCLive` | `LiveProofs` |
| `LiveMap.tla` | a page with the map of a zone: fetch, socket, room, updates | `MCLive` | `LiveProofs` |
| `Inbox.tla` | notifications, private room, the badge of the bell | `MCLive` | `LiveProofs` |

`MCServices` and `MCLive` put components that share no variable into one instance. The variable
`part` says which of them moves in a behaviour; it is chosen at the start and never changes, and the
others stay in one initial state. So the behaviours of the instance are those of each component,
one after another, and the number of states is a sum, not a product. Nothing is lost by it: these
modules meet only through what each has as actions of its environment, as the next sections say.
`MCLive` is apart because `DemotionBites` is a liveness property, which symmetry would spoil.

### Parking

| Variable | In the code |
|---|---|
| `row[s]` | `parking_spots.status` of the row; `unborn` and `deleted` when there is none yet or no more |
| `session[i]` | the row of `parking_sessions`: open when `checkOut IS NULL` |
| `booked` | the confirmed reservations that cover this instant |
| `notices[i][op]` | how many notifications of each kind a session has caused |
| `shown[s]` | the status on the live maps that show `s` |
| `tab[t]` | the local state of the request each tab waits for |
| `staff[w]`, `tick[k]` | the same for a staff request and for a sensor tick |

`checkIn` (sessions/sessions.service.ts 33-92) is `CheckInRequest` (404), `CheckInReadSession`,
`CheckInReadBooking`, then `CheckInClaim` or `CheckInRefused`, then `Reload`, `Publish`, `Notify`.
`checkOut` (94-121) is `CheckOutRequest`, `CheckOutRelease` or `CheckOutLost`, and the same three.
Transactions run at PostgreSQL's default READ COMMITTED: a read sees what is committed at that
moment and takes no lock, so reads are actions of their own. The UPDATE locks the row of the spot
until the commit. Everybody else who would change that row or refer to it waits for the lock, and
nobody sees the session before the commit, so UPDATE, INSERT (or the session's update) and COMMIT
are one action. A second check-out of the same session, waiting for the row lock, goes on after
the first commits: that order is in the model.

Staff handlers are a read and a write (`StaffUpdateRequest`, `StaffUpdateWrite` or
`StaffRefused`), or one statement (`StaffCreateSpot`, `StaffRemoveSpot`, `StaffRemoveZone`, with
the cascade `Drop` to sessions and to the reservations in force), then `StaffAudit`. A tick is `TickStart` (the query of candidates and what
each becomes), then per candidate `TickUpdate`, `TickRecord`, `TickPublish`. The read inside
`spotsService.update` is merged with the write for ticks: they always give a status, so of what
is read only the existence of the row matters, and the write finds that out again.

What is abstracted. Zone membership is not kept: `StaffRemoveZone` removes any set of spots. Codes,
locations and texts are left out; a refusal for a code or a zone is `StaffRefused`, at any time.
Rows of `sensor_events` and `audit_logs` are not kept, since nothing modelled reads them; the awaits
that write them are steps. A message from Redis reaches the maps at once, so the only reordering
is that of the handlers. `FailTab`, `FailStaff` and `FailTick` (where `Faults` is TRUE) are an
exception from a call or the death of the process between two awaits: no handler catches and
compensates, so what was committed stays and the rest does not happen.

### Booking

`create` (reservations/reservations.service.ts 33-82) is `CreateRequest`, `CreateReadSpot`,
`CreateReadConflict`, `CreateInsert` or `CreateLost`, `Notify`; `cancel` (91-118) is
`CancelRequest`, `CancelWrite` or `CancelLost`, `CancelReadSpot`, `Notify`; `checkReminders`
(notifications/notifications.service.ts 79-114) is `CheckQuery`, then per reservation `CheckSend`
and `CheckMark`. One query, one action: there is no transaction here. Time is a counter of
minutes. `Lead` stands for the 15 minutes of the window. With `Prompt`, the check of every minute
runs and ends within that minute, as it does unless the process is down or the list is long;
without it checks come at any time or never. Of a spot's status `create` asks only whether it is out of
service, so a spot is `unborn`, `usable`, `disabled` or `deleted`; `SpotToggle`, `SpotCreate` and `SpotsRemove` (one
spot, or those of a zone) are the environment of this module.

### Platform

`Parking` and `Booking` meet in three places: a check-in reads the reservations in force, a booking reads the
status of its spot, and a removed spot takes both its sessions and its reservations with it. `Platform` extends
`Parking` and takes in `Booking` by INSTANCE, with `spot` computed from `row` (`Condition`). Each step is one of
three kinds: the parking core moves (`ParkingTab`, `ParkingOther`), reservations or the clock move (`BookingStep`),
or both do (`Removal`, with `Cascade`). The actions are those of the two modules, none is written twice. What was
free in the environment of either is now what the other does:

* `booked` is no longer any set: after every step it is `InForce`, the pairs (spot, citizen) of the confirmed
  reservations with startTime <= now < endTime (sessions/sessions.service.ts 50-59);
* spots change their condition only by what staff, ticks, check-ins and check-outs do to `row`.

`readAt[t]` is history: the minute at which the check-in of tab t has asked for reservations. A citizen's tab may have
a check-in and a booking under way at once (`tab` and `form`): they are two pages.

### Accounts

`acct[u]` is the row of `users`: does it exist, has it a password, a Google identity, a verified
address, the hash of a refresh token, and the two mailed links. `link[l]` is a token of a mailed link
(`unused` until one is made; `expired` once its hours are over); `sent` the people to whom tokens were
ever given; `req[q]` the request in progress. `out`, `anew` (signed in since), `reopened`, `early` and `uses` are history.

Every handler is a read (`RegisterRead`, `LoginRead`, `GoogleRead`, `RefreshRead`, `ForgotRead`,
`ResendRead`, `VerifyRead`, `ResetRead`), then its writes one by one (`Create` or `CreateLost`,
`GoogleLink`, `Issue`, `Answer`, `SetLink`, `Mail`, `MarkVerified`, `ResetWrite`); hashing and signing,
which take time and change nothing, lie between the two. `Logout` is one UPDATE. `Digest` is what bcrypt
keeps of a refresh token: 72 bytes, in which all tokens of one user agree (auth.service.ts 255-256), so a
refresh succeeds with any token of the user while the row has a hash at all. Passwords are not kept,
only whether there is one: a wrong one is a refusal and changes nothing.

### RateLimit

One route and one address; others share no key. `win` and `sec` are the clock, `Key` its window, `count`
and `ttl` what Redis has under the key. `Stamp` (the clock is read and names the key, line 44), `Incr` (INCR reaches
Redis, 47), `Expire`, `Pass` and `Refuse` are `canActivate`
(`smart-parking-backend/src/common/guards/rate-limit.guard.ts` 30-60); between any two of them the window may
end. `gone` is history, the keys that have expired; `KeyGone` is Redis, `Second` the
clock, `Crash` the death of the process with all guards in progress.

### Roles

`role` is the row, `token` and `live` the access token of each person's browser, `shown` the role in the
store, `asked` the sign-in or renewal in progress: it reads the row (`SignInRead`, `RenewRead`) and brings the
tokens some time after (`TokensIssued`), whatever became of the row and of the session meanwhile. `behind`, `off`
and `lost` are history: the role was written since it was read. `ChangeRequest` is the choice in the list of users and the guards (`roles.guard.ts`), with the
refusal of one's own row; `ChangeWrite` the update. A renewal takes the role from the row, and leaves the
user in the store as it was. `Given` bounds the roles that are given.

### Catalog

`row[i]` is a zone or a spot: label (name or code), shape (outline or place), zone. A handler is its
reads (`Find`, `TickList`, `TickFind`, `CheckZone`), then `Insert`, `Update` or `Delete` with the cascade, then
`Record`. `Written` is what an update writes: what was asked for, or what was read; the shape only when
asked for. `CatFails` is every refusal and failure.

### LiveMap and Inbox

`LiveMap` is one page with one zone. `Change` commits and `Publish` follows later, as in `Parking`;
`SilentChange` is a status set by staff, which nobody publishes. `Connect` is `handleConnect`: join the
room, and fetch the list anew unless it is the first connection (useParkingSocket.ts 49-68). `Visit`,
`ZonesCome` and `LeavePage` are the page; `ServeList` and `ListComes` the two ends of the fetch.
React Query is modelled from how the hooks use it: an invalidated query starts anew except when its first
fetch is under way, a list older than 30 seconds is fetched on arrival or on focus, a list unused for
five minutes is forgotten.

`Inbox` is one browser. `ConnectAs` and `JoinOwnRoom` are the connection with the token that the store has
then; `Ring` is the push that raises the count; `CountUnread` and `CountComes` the fetch; `MarkRead` and
`MarkAnswered` marking as read with its invalidation; `SignsOutHere`, `SessionRefused`, `SessionBegins` the
ends and the beginning of a session. The history variables `wrong`, `amiss` and `kept` name the exceptions of
the properties, and are recorded where each of them happens.

### Monitor

`tally` is how many spots of a zone are occupied and how many are not, `booked` whether somebody reserved
within the hour, `services` what answers. A request (`Poll`) runs its queries (`Query`, `CheckService`) in any
order, with changes between them; `AnswerAlerts` and `AnswerStats` are the rules. `Level` has the thresholds
of admin.service.ts 139-165 as integers: a percentage p is reached when 100 times the occupied spots is
p times all of them, or more. `ever` and `always` are the alerts that were due at some moment of the request, and
during all of it.

### Browser

`store[t]` is the store of tab t, `disk` its copy in local storage, `open` the users with a hash in their
row (the part of `Accounts` that matters here), `call[c]` a call in progress. A call is `Start` (or `Login`,
`Callback`), `Serve` or `Deny`, then `Refresh`, `Refused` or `Renewed` and once more, then `FinishLogout`,
`FinishLogin`, `FinishMe` or `FinishOther`. `Refreshed` takes the refresh token that is in the store by
then, which may be another user's. `Reload` reads `disk` and kills the calls.

### Panels and Pages

`Panels` is one table (`table` says which): the rows in the database, in the cache and in the answer on
its way, the page, the dialog, the requests. The tables are built alike; what differs is how a row is
amended (`SubmitName` in a dialog, `ChooseStatus` in the row) and which hooks invalidate which list. `Pages`
is one cache (`desk` says which), what watches it, and the requests of the buttons. The header, which is on
every page (`app/layout.tsx` 57), watches the active session for its link (`Header.tsx` 92) as long as somebody is signed
in, and its watch begins with the sign-in (`VisitorComes`); the pages watch their cache while they are open. `owns` stands for what
`Parking` and `Booking` keep; a request of theirs is committed or declined in one step here (`Commit`,
`Decline`), for the page sees no more of it.

## What is checked

| Run | Properties | Bounds |
|---|---|---|
| `serial` | type, one spot per citizen, one car per spot, no parked spot free, harmless ticks, one notice per event, refinement of the lot | 2 citizens with a tab each, 2 spots, 2 sessions, 1 staff member, 1 tick, failures |
| `crowded` | true notices, sessions only move forward, check-in and check-out are announced | 3 tabs of 2 citizens, 1 spot, 2 sessions, 1 staff member, a reservation |
| `booking_prompt` | type, no double booking, one reminder, in time | 2 citizens, a spot each, 2 reservations, minutes 0 to 3, lead 2 |
| `booking_races` | flag only after the reminder, cancellation notice only after the cancellation, and only by a request that had read the reservation confirmed | 1 citizen with 2 tabs over 1 spot, 2 reservations, 2 overlapping checks, 1 reminder, removals, failures, minutes 0 to 2, lead 1 |
| `platform` | a check-in passes over a reservation only if that came after it asked; nothing is left of a removed spot; refinement of `Booking` and of `Parking` | 2 citizens with a tab each, of whom one books, 1 spot, 1 session, 1 reservation, 1 staff member, 1 tick, 1 reminder check, minutes 0 to 2, lead 1, 1 reminder, no failures |
| `services` | ended sessions stay ended until the next sign-in; a used link is refused; limit and lock-out; the store is one session; outlines, codes and zones are not undone; every spot has a zone; true alerts; figures that add up; true tables; true pages | two requests, links, calls, handlers, users, zones, names; 1 spot, 1 tab, 1 address; below |
| `live` | no outdated role is older than the token that carries it; a demotion takes effect; a live map is true; only one's own room; a true badge | 2 people of whom one is an administrator, roles citizen and admin given, 2 spots with 2 statuses, 2 messages on the wire, 2 users, 2 notifications |
| `two_tabs`, `stale_exit`, `stale_map`, `booking_twice`, `reminder_again` | each finds one disagreement, below | the smallest instance that shows it |

Two sessions are enough for the hazards of the passing runs: every race here is between two rows
or between a row and one request. Two spots let one citizen reach for two, and let a tick hold a
stale list while it handles another spot. Ids of rows are used once, which bounds the number of
check-ins and bookings; a check-in starts only while an id is left for it, so that none blocks
half-way. `MaxReminders` stops the checks after the second reminder, in `booking_races` after the first, of which two
checks at a time still have a copy each on their lists; its one citizen with two tabs cancels one reservation twice at once, or
one reservation while the other is being made. Session and reservation ids
are symmetric in the runs of Parking and Booking that check safety; where nothing tells
them apart, so are the two citizens with their tabs, in `serial` the two spots, and in `booking_races` the two tabs and the two
checks (`PairSymmetry`); that is what lets `serial` have failures.
`crowded` checks liveness, so it uses no symmetry. Deadlock is
not checked: when the ids are used up and everybody is idle, the system rests.

In `platform` one row of each kind is enough to show where the two modules meet: a reservation is made, begins, ends, is
cancelled or goes with its spot at every point of a check-in, and the spot is created, taken, freed, disabled and removed
at every point of a booking and of a reminder check. Races within one of the modules have runs of their own. It has
`Faults` FALSE, for with failures the instance takes TLC beyond its five minutes; the theorems about `Platform` make no such
assumption.

In `services`, two of whatever overlaps are enough, for each property is about a row, a store or a
cache and one thing that comes between the read and the write of another. The tallies lie below, at and
above the thresholds of 3 spots, 75 % and 90 %, and two of them have the same size, so that statuses change between two
queries while no spot comes or goes; `MaxCalls` is one above the limit of 2, over two
windows; one row per page makes the second page happen. `Browser` runs with one tab: two calls in it, and
what other devices do (`ClosedElsewhere`), are there, a second tab is not, so of local storage only the
reload and the callback matter. `MaxChanges`, `MaxSaves`, `MaxSent`, `MaxWire` and the sets of links and
notifications bound what would grow for ever. The pairs d1, d2 and e1, e2 are interchangeable in all
modules at once (`MCPairs`): nothing orders them or names one. Both runs have `Faults` TRUE. They rest in
states where the ids are used up, so deadlock is not checked.

**Exceptions.** Several pages are right only up to a point, and the properties say to which: the comment of
each of `ScreenTrue`, `BadgeTrue`, `TableTrue`, `PagesTrue`, `StoreIsOneSession`, `WithinLimit`, `AuthorityDated` and
`SignedOutStaysOut` lists the events after which the code promises nothing, one by one. Among those a reader of
the code would want to know:

* a status set by staff is not published, and the maps that are open do not learn of it (`SilentChange`);
* two administrators may demote each other at once, or the last one be demoted by one whose own demotion the token
  does not know of yet: no administrator remains, and only the seed makes one (`behind`, `lost`);
* two cancellations that overlap both announce it, and so do two check-outs;
* a refresh under way when its user signs out opens the session again (`reopened`), and once the user has signed in
  anew the tokens of the ended session are good again (`Digest`), though users.service.ts 105-107 says that a reset signs
  out every other session;
* a renewal that comes after a sign-out, or after a refusal, leaves its tokens in a store that shows nobody (`left`);
* a call whose INCR reaches Redis after the key of its window has expired makes the key anew and is not limited (`gone`);
* a socket that a map opened before the sign-in, or that outlived a session whose renewal was refused, is in no
  private room or in the wrong one until it reconnects (`kept`; lib/socket.ts 13-15 hopes otherwise);
* the query cache is not cleared at a sign-out: the next user sees the former one's data until the first
  answer (`doubt`, `amiss`);
* a blind update writes back the code and the zone it read (`stale` in `LabelsStick`).

**Regimes.** Several promises do not hold without conditions, and the conditions are named:
`OneTabPerUser` (a citizen has one request in flight, as with one page whose button is disabled
while it waits, `smart-parking-frontend/app/(public)/session/page.tsx` 138), `OneTickAtATime` and
`OneCheckAtATime` (the interval functions end before they fire again, in one instance of the
backend), `StaffNeverFrees` (staff neither set a spot free by hand nor send an update without a
status), `OneBookerPerSpot`. `Serial` is the conjunction for the parking core. Outside these the
handlers do fail, as the violation runs show for the first and the last.

**Fairness.** `Fairness` is weak fairness of the next step of a started handler, tick or staff
request: a query is answered, and the event loop runs the continuation. No request, tick or
failure is ever obliged to happen. `crowded` has `Faults` FALSE: after a failure nothing completes
a handler, and the code promises nothing there. `RolesFairness` is weak fairness of `TokenExpires`: 15
minutes pass. Nobody is obliged to call, to renew or to sign in.

**Disagreements with the documents.**

* `two_tabs`: one citizen gets two spots with two concurrent check-ins; an e2e test says a second
  spot is rejected (`smart-parking-backend/test/sessions.e2e-spec.ts` 94).
* `stale_exit`: two concurrent check-outs of one citizen free a spot that somebody else has taken
  since, and the next check-in, in the run by the citizen who checked out twice, gets it as well (`sessions.service.ts` 65-67 and 103, `sessions.e2e-spec.ts` 77).
* `stale_map`: two handlers publish in the opposite order of what they read, and the live map keeps
  the older status (root `README.md` 9).
* `booking_twice`: concurrent requests for one window are both confirmed (`README.md` 11,
  `reservations.e2e-spec.ts` 112).
* `reminder_again`: a crash between the notification and the flag repeats the reminder
  (`notifications.service.ts` 79-80).

## What is proved

For any numbers of citizens, tabs, spots, sessions, staff, ticks and minutes:

* **Every regime**: `TypeCorrect`, `NoOrphan`, `TrueNotices`, `MoveForward` (Parking), `TypeCorrect`,
  `FlagSent`, `CancelTrue`, `CancelledByThose` (Booking). They rest on `BaseInv`, which adds to the types what each
  program counter says of the local state and of the row it points to (`TabShape`, `StaffShape`,
  `TickShape`, `CheckShape`). Without these the actions could index a row by `None`, and
  `NoticesAreTrue` would not be inductive: a request about to announce a check-out must know that
  its session is closed or deleted.
* **One request per citizen**: one adds that what a check-in has read about its citizen
  still holds when it claims, that a session a check-out has read as open is not closed by another, and that
  what a request is about to announce has not been announced (`ReadsHold` in `UserInv`, for `OnePerUser` and
  `ToldOnce`).
* **The serial regime**: `OneCarOnSpot`, `NeverOfferedWhileParked`, `TicksHarmless`, by one invariant.
  `OneCarPerSpot` is inductive only together with
  `ParkedSpotNotFree` (the swap succeeds on a free row, so nobody may be parked there), and that
  only with `TickIsHarmless` and with the fact that no staff write pending is a `free`. The argument
  for the tick's stale list: a spot it is about to free is occupied with no session, and check-in
  needs a free one, so nobody can get in before the tick writes.
* `ImplementsLot`: in the serial regime `Parking` implements `ParkingLot`. A claim is `Park`, a
  release `Leave`, a cascade `Remove`, everything else a stutter. `LotExclusive` says what the
  lot promises.
* **Platform**, in every regime: `ImplementsParking` and `ImplementsBooking`, step by step, and what the two promise together,
  `RespectsReservations` and `NothingIsLeftBehind`. The invariant `PlatformInv` has what holds of each alone (`BaseInv` for the
  parking core, the shape of rows, forms and checks for reservations) and what they know of each other: `booked` is what is in force
  (`BookedIsTrue`), a reservation that is on record has its spot, and a check-in about to claim has asked at `readAt`, and any
  reservation of somebody else that is in force now was made, or began, after that. Proving the refinements corrected the two
  environments: `Parking` had to allow that several reservations change at once and that a removal takes those in force with it,
  `Booking` that spots are created and that a zone takes several. What is proved of `Parking` holds of the platform by
  `ImplementsParking`; `PlatformParks` carries `ImplementsLot` over. For `Booking` the same follows from `ImplementsBooking`, but as
  an argument only: this prover cannot cite a theorem of a module taken in by INSTANCE with a substitution.
* **Reservations**: `BookedOnce` (with `OneBookerPerSpot`, a read that found no conflict stays true until
  the insert) and `RemindedOnce` (with checks one at a time and none cut short, a reminder sent is
  flagged, about to be flagged, or its reservation is no longer confirmed). `AlwaysRemindedInTime`
  needs `Prompt`, checks one at a time, no failure, no removal of a spot (which would take the reservation off the
  check's list) and a window that is not empty. What is due at minute m was within the window of the
  check at m - 1 at the latest, so the invariant looks one minute ahead: a reservation that starts in the next minute and
  was made before this one has been sent, or is on the list of the check under way, once this minute's check has
  read (`LastMinute`); and the clock waits for that check (`OnTheMinute`).
* **Accounts**: `OutUntilSignedIn` and `UsedLinksRefused`. `AccInv` adds to the types that whoever is out and has a
  hash has signed in anew or was let in again by an early request (`OutUntilReopened`), which needs to know of each request under way
  whether it began before the sign-out; and that a link in a row has not been used (`LinksOnce`).
* **RateLimit**: `NeverMoreThanLimit` and `NobodyLockedOut` rest on `LimitInv`: a key outlives its
  window, since EXPIRE gives it a whole window from a moment in its own or later (`KeysOutlive`); it counts calls that were made in
  its window, each once, and some are still on their way (`CountsCalls`); and in the first life of a key each call has a number
  of its own, so no more than the limit are let through or about to be (`FewAdmitted`).
* **Roles**: `AuthorityAlwaysDated`. What a sign-in or a renewal under way has read is the role of the row, or the row was written
  since (`AskedDated`), and a change under way is about somebody else (`ChangeShape`), so its write cannot outdate the one who makes it.
* **Catalog**: `ShapesAlwaysStick` and `SpotsAlwaysHaveZones`. `CatInv` says that a handler under way has an id
  (`JobShape`) and that no zone lies in a zone, so a cascade takes spots only (`ZoneShape`); the foreign key at the write is what
  keeps a spot from a zone that has gone since it was checked. `LabelsAlwaysStick` rests on `ReadsInv`: what a handler has read
  of a row still is there, or somebody has written the row since and the handler is marked for it; nobody but its creator knows
  of a row before the insert; and a tick, which reads the row again before it writes, asks for no label.
* **LiveMap**: `ScreenAlwaysTrue`. The list may be wrong about a spot only where it is a named exception or something is still to
  come: a publication due, the fetch owed to the next connection, a message on the wire (`ListSound`). For the answer of a fetch a
  message is not enough, for it may be older than what the fetch has read: the last one about the spot must have the status there
  is (`Tells`, in `SnapSound`). That messages are on the wire only for a page in the room
  (`RoomTrue`), and that a first fetch, which a connection does not start anew, is known to be off (`FirstFetch`), are what
  reconnections need.
* **Inbox**: `OnlyOwnRoom`; `BadgeAlwaysTrue`. The badge is compared not with all that is unread but with what it stands for so far,
  without the pushes still to ring (`Counted`, `BellSound`), and the fetch with what it has counted or will still hear of (`CountSound`).
* **Browser**: `StoreAlwaysOneSession`, for any number of tabs. A renewal that nothing has overtaken brings tokens of the user in the
  store, one that another user or a clearing has overtaken knows by which (`RenewalsTrue`), a sign-in knows whom it signs in (`LoginsTrue`), and the copy on disk is as good as the store it is of.
* **Panels, Pages**: `TableAlwaysTrue`, `PagesAlwaysTrue`. A cache is right, or a fetch or an answer under way will make it so
  (`ListTold`, `CacheTrue`); a fetch brings what there is, unless a change has been committed whose answer is still out
  (`LookupTrue`); an invalidated cache that is watched is being fetched (`OverdueLoads`, `ExpiredFetched`). That the page number of a table
  is never beyond its last page is a matter of how many pages a set of rows takes, which never falls when rows are added.
* **Monitor**: `AlertsAlwaysTrue`, `FiguresAlwaysAddUp`. At every moment of a request what is due now was due at one, and what was due all
  the time is due now (`DueTrue`); what each query has read is true of a moment of the request (`ReadsTrue`). The rest is
  about data: that `ByLevel` keeps what was pushed and sorts it, and that sums over zones add up. Those are folds, and their
  lemmas are by induction over a finite set or the length of a sequence. The library's induction theorems are out of reach here (they
  have an operator for parameter), so `CountingUp` and `GrowingSets` state induction of a *set* of numbers or of subsets, and follow
  from the well-foundedness of the natural numbers.

The assumptions are those on the constants in the modules (types; `None` is no value, no number and no table of values; the rows
of a table, the zones, the notifications and the callers are finitely many) and the regimes named in the statements.

Model-checked only: `CheckInAnnounced`, `CheckOutAnnounced` and `DemotionBites`, for liveness is out of the prover's reach; and
`TypesOK`, which says of the instance `MCServices` that the component that moves keeps its types. Of each component, those of
`MCLive` included, that is a theorem by itself (`AccountsTyped`, `RateLimitTyped`, `CatalogTyped`, `BrowserTyped`, `MonitorTyped`,
`PanelsTyped`, `PagesTyped`, `RolesTyped`, `MapTyped`, `InboxTyped`).

## Not modelled, and what is left

Not modelled: GeoJSON validation (a pure check), drawing (the map canvas, charts, themes, the component
library), lists that only show (audit log, health, users' counts), the peak-hour and heat-map queries, the
text of e-mails, the subscriber's own reconnection to Redis.

Left to do, in this order:

1. A second tab in `Browser`, with fewer kinds of call, so that what tabs do to each other through local storage is
   model-checked as well as proved; `open` refined by the rows of `Accounts`.
2. The peak-hour sums as functions against a reference definition.

# Power dashboard: TLA+ models and proofs

The repository is a household power dashboard: a Go server polls energy
providers, stores what they report in PostgreSQL and streams it to browsers; a
React application shows it. This directory holds TLA+ modules that model the
server's concurrent core, its start-up beside the seed command, the client of the
Enphase API and the browser's hooks, TLC configurations that check them on small
instances and TLAPS proofs for every instance.

All source paths below are relative to `src/`.

## 1. The system

```
 time.Ticker --> RunPoller (one per provider) --> SaveReading, SaveBatteryStatus --> PostgreSQL
   (1 slot)           |                                                                |
                      v  eventBus (64)                                                 |
                  bridge goroutine                                                     |
                      v  Hub.broadcast (32)                                            |
                   Hub.Run --> one channel (16) per client --> ServeSSE --> browser    |
                                                                             ^         |
 main: SIGTERM -> cancel() -> srv.Shutdown (10 s) -> exit        REST handlers --------+
```

| Component | State it keeps | Operations | Interacts by |
|---|---|---|---|
| SSE hub, `backend/internal/api/sse.go` | the map of clients (local to `Run`), `connected`, three channels, one channel per client | `Run`, `Subscribe`, `Unsubscribe`, `Broadcast`, `ServeSSE` | rendezvous with handlers, buffered channel from the bridge, context |
| Pollers, `backend/internal/service/ingestion_service.go` | a backoff per poller, the event being built | `RunPoller`, `pollSafe`, `pollOnce` | shared ticker channel, provider and database calls, event bus |
| Backoff, same file | `cur`, `factor` | `increase`, `reset`, `current` | its poller only |
| Server process, `backend/cmd/server/main.go` | context, listener, bridge | start-up, bridge, shutdown | everything |
| Provider factory, `backend/internal/service/provider_factory.go` | none | `BuildProviders` | hands one trigger and one device id to each poller |
| Reading repository, `backend/internal/repository/reading_repository.go` | the tables | two inserts, three queries | SQL |
| REST API, `backend/internal/api/handler.go`, `routes.go` | none | status, history, battery, ready | repository |
| Enphase adapter, `backend/pkg/enphase` | the two tokens | `get`, `refresh` | HTTPS, with one refresh and one retry on 401 |
| Fake provider, `backend/pkg/fake` | none | curves of the time of day | clock |
| Authorisation command, `backend/cmd/enphase-auth` | two channels of one slot, an HTTP server on :8081 | the callback's handler, `main`'s wait, shutdown and exchange | the operator's browser, the OAuth server; the operator carries its tokens to the server |
| Seed command, `backend/cmd/seed` | none; several may run | fixtures, two bulk copies | SQL, the clock; the tables it shares with the pollers |
| Hooks, `frontend/src/hooks` | status, battery, history, last event | fetches and an `EventSource` | REST and SSE |

What is hard in it: the hub's channels have several senders and two places that
close them; a client channel, its handler and its connection die at different
moments and in any order; five bounded buffers lie between a poller and a
browser, two of which drop and two of which block; a poll cycle makes four calls
that can fail, panic, or take effect and lose their answer; the process can be
stopped or killed between any two of them; pollers share one ticker; a fresh
installation has a server that migrates, fails and is restarted, a seed command
that commits in five parts, and a poller that waits for what the seed command
registers. Section 7 says what is not modelled, and `PROJECT.json` lists all
hazards by source line.

## 2. Modules

| Module | What it is |
|---|---|
| `Hub` | `sse.go`: `Hub.Run`, the handlers and their connections |
| `EventFeed` | the abstract specification `Hub` implements: a feed that may skip but never repeats or reorders |
| `HubProofs` | theorems about `Hub`: types, channels, order, refinement |
| `HubDeliveryProofs` | theorems about `Hub`: what a browser misses, and why; what ends its stream |
| `ReadingLog` | the abstract specification `Ingestion` implements: rows stored in order, the latest reading announced |
| `Ingestion` | the pollers with ticker, database and event bus |
| `IngestionProofs` | theorems about `Ingestion` |
| `Backoff` | the backoff's arithmetic on 64-bit integers |
| `BackoffProofs` | the cap and the schedule, for any number of failures, and the failure at which it ends |
| `LiveView` | the abstract specification `Pipeline` implements: `ReadingLog`, and browsers that are shown what it announced |
| `Pipeline` | `main.go`: instances of `Ingestion` and `Hub` joined by the bridge, and the shutdown |
| `PipelineProofs` | theorems about `Pipeline`, from those of its two instances |
| `Startup` | `main.go` up to the listener: environment, database, migration, under docker compose |
| `HistoryQuery` | the rows of one device and the query behind the history chart |
| `Seed` | the seed command: fixtures, window, two bulk copies |
| `Deployment` | a fresh installation: instances of `Startup` and `Seed`, the fake poller and the clock |
| `DeploymentProofs` | theorems about `Deployment` |
| `EnphaseAdapter` | the Enphase client's tokens, with the OAuth server and the operator |
| `AuthCommand` | the authorisation command: callbacks, channels, shutdown, exchange |
| `EnphaseAccount` | the adapter and the authorisation command beside it |
| `EnphaseProofs` | theorems about `EnphaseAdapter` and `EnphaseAccount`, and that the second implements the first |
| `Dashboard` | the hooks in the browser, with the endpoints they fetch and the event stream |
| `DashboardProofs` | theorems about `Dashboard` |
| `MCHub`, `MCIngestion`, `MCBackoff`, `MCPipeline`, `MCDeployment`, `MCEnphase`, `MCDashboard` | small instances for TLC |

Definitions named in a comment `Mutant: ...` are plausible bugs. Each property of
a passing run is known to fail when one of them takes the place of the
definition that follows it (`PROJECT.json`, "mutants").

### Hub

A connection (`Conn`) is one request to `/api/v1/events`; `EventSource`
reconnecting is another connection. An event is the ordinal of its `Broadcast`.
`run` says where `Hub.Run` is: in its `select`, or within one of the cases;
`todo` holds the channels that case still has to deal with. `pc[c]` says where a
handler is. Sends on the unbuffered channels (`Subscribe`, `Unsubscribe`) are one
step of both sides, after which the handler goes on while `Run` still has to
touch its map (`Register`, `Unregister`): the two may be interleaved with
anything. Each non-blocking send of the fan-out (`Offer`) and each `close` of the
shutdown (`Close`) is a step of its own, in any order over the clients, as Go
iterates over maps.

The network is modelled from what `net/http` does with the server `main.go`
configures: `WriteTimeout` puts a deadline on the connection (`Expire`), a write
after it, or after the browser left, fails (`WriteLost`) and cancels the request's
context, although `ServeSSE` does not look at the error; the background read
notices a closed connection (`NoticeLeft`). A write before the deadline to a
browser that does not read simply does not happen yet: `Write` has no fairness.

`json.Marshal` of an event cannot fail (no field can be NaN or of an unsupported
type), so the `continue` at line 115 is not a step. The `Flusher` check at line 91
always succeeds behind `http.Server` and chi's logger.

History variables (`sent`, `subAt`, `dropped`, `lost`, `received`) exist to state
properties; no guard but the bound `sent < MaxEvents` reads them.

### Ingestion

A poller is named by its device id. `pc[d]` is the call it waits for. The four
calls return in one step each; a failing insert may have committed
(`ReadingFails`, `BatterySaveFails`: the connection broke after the commit). The
context matters as it does to pgx and net/http (and to the fake adapter, which
asks `ctx.Err()`): a call made after `cancel()` fails without effect, one that was
under way (`inFlight`) may still succeed. Rows are records of table, device and
timestamp; inserting a row again changes nothing, which is `ON CONFLICT DO
NOTHING`; the foreign key is `Registered`. `Crash` is a kill and a restart:
only `rows` survives, and the clock. A reading's timestamp is a counter that
every successful `GetSystemStatus` advances: the model's clock neither stands
still nor steps back between two cycles.

`ReadingLog` is what all this amounts to for a reader of the database and of the
event bus: a set of rows and a list of announcements. A row is stored only if it is
later than all rows of its device, a battery row only with the latest reading, and
an announcement is, when it is made, the latest reading there is. `LogRefined` says
that the pollers do no other thing to `rows` and `published`, under the mapping that
takes these two for `stored` and `announced`; it contains that every battery row has
the reading of its cycle. A reading that is stored and never announced is allowed:
the bus drops, saves lose their answers, processes die.

### Backoff

`time.Duration(math.Pow(2, factor)) * min` with `min` = 10^9 ns is exact float64
arithmetic up to 2^62, then a conversion whose result depends on the platform,
then a multiplication that wraps around. A duration is four 16-bit digits.

### Pipeline

`Pollers == INSTANCE Ingestion` and `Feed == INSTANCE Hub` share the context. The
bridge consumes from the bus of one and calls `Broadcast` of the other, so that
event n of the hub is, if the bridge is right, `published[n]` of the pollers:
`BridgeKeepsOrder` is that claim. `main` goes from `serving` over `cancelled`,
`draining` and `closing` to `exited`, where every goroutine is gone.
`db.Close()` waits for connections in use, hence the guard of `Exit`.

`LiveView` adds to `ReadingLog` what each browser is shown. The hub knows ordinals
only, so the refinement mapping (`shown`) looks each of them up in `published`.
`ViewRefined` is the promise of the whole server: a browser is shown announced
readings only, and those of one device in the order of their timestamps.

### Startup, HistoryQuery, Seed and Deployment

`Startup`: `server` is the call `main` waits for. What matters of the environment
is whether `config.Load` refuses it, accepts it though `time.NewTicker` will panic
on its interval, or accepts it for good (`Config`); it is chosen once, as nothing
changes it. golang-migrate is external: it marks the version dirty, runs the file,
marks it clean, and refuses a dirty version (`Migrate`, `Exit`). Each of these may
fail, with or without its effect. `pgxpool.New` and `migrate.New` fail like the
`Ping` between them and are one step with it. `Listen` is the rest of `main`: from
there on `Pipeline` has the process. It takes the goroutines and the listener
together; in the code the pollers start a moment before the listener.

`HistoryQuery`: a row is its table and its time, a bucket the time it begins with.
`DateTrunc` is the rounding of PostgreSQL for units that divide the day.

`Seed`: `step[s]` is the call a run of the command waits for. `EnsureFixtures` are
three calls in the order of their foreign keys; the `end` of the seeded window is
computed after the last of them, from the clock. `Copy` inserts all rows or none:
COPY is one statement and stops at the first row whose key exists. A call that
`Fails` may have had its effect; a run that is killed is one that fails at that
call. What a killed run has in flight takes effect in the step it is killed in or
never (section 7).

`Deployment` joins them over `tables` (the migration creates them, the command
needs them), `rows` and `clock`. The fake provider's poller receives a tick
(`Receive`), and its cycle succeeds or fails as a whole: `Ingestion` has its calls,
its events and its panics. Until the fake device is registered every cycle fails
(`CycleFails`); afterwards one may fail too, with or without its reading, or leave
a reading and mostly a battery row (`CycleSucceeds`, `Saved`). A failed cycle is
followed by a sleep (`Sleep`, `Wake`) that doubles with every failure up to
`MaxDelay`, and a new process begins with a new backoff (`NewPoller`). `factor` is
counted up to the one whose delay is the longest, from where on a sleep may also be
skipped, as the wrapped product has it (`Backoff`). The environment is the one of the
README's quick start, with `FAKE_PROVIDER=true`.

### EnphaseAdapter

A token is the number of the grant it came with, so that an older one is a smaller
one and the empty string is 0. `pc` is where `get` is: before its first request, in
`refresh`, or before its retry. The OAuth server may expire an access token, refuse
anything, and answer a refresh with no refresh token, with the one it was asked
with, or with a new one that ends the old (`Grant`); the answer may be lost after
the grant (`RefreshLost`), or have no access token, in which case the empty string
is stored (`StoreAccess`). One poller uses an adapter, so that one call runs at a
time and the mutex is never contended. A restart reads the environment again, which
only the operator writes: `Authorise` is a run of `cmd/enphase-auth` that succeeded
and what is done with its output. `steady` and `excused` are history variables:
whether the provider has, in this call, refused nothing but one access token and
answered the refresh in full, and whether the session was lost by something the
adapter could not help.

`AuthCommand` is that command step by step. `command` is where its `main` stands;
`handlers[k]` counts the goroutines about to send on `codeCh` or `errCh`, `queued[k]`
what the channel's one slot holds. The browser may come back any number of times, with
a code or without (`Callback`), also while `Shutdown` is under way; a handler whose
slot is taken stays (`Send`). `Shutdown` closes the listener (`CloseListener`) and
returns with all handlers or after its 15 s, which `main` does not tell apart
(`Drained`). `EnphaseAccount` puts it beside the adapter: what the abstract `Authorise`
does in one step is the last step of an exchange that was granted
(`ExchangeGranted`). A grant whose answer is lost changes nothing here, as nobody
has its tokens (`ExchangeFails`).

### Dashboard

A poll cycle is named by its index, which is its timestamp as well. Every handler,
every `.then` and every run of the effects is one step, as JavaScript runs one
callback at a time. A fetch is asked, then answered with what the database holds at
that moment (or fails), then delivered; several messages may come before React
renders, and the effects see the last. A click (`Click`, `SetHistoryInterval`) is
one step with the render of the new interval and the effect of that render, which
asks for the fetch: React does these at once and flushes the effects before it
handles the next click. The `loading` which that effect sets is rendered later, at a
lower priority (`RenderHistory`): `shown` is what the chart was last rendered with,
and in the `Gap` between the two it still has its buttons. A click there is `hasty`.
What a hook has set and what the chart shows differ only for the history; the cards'
renders are one step with their effects. `Device` contains the devices whose cycles
reach the browser. The instance has one: the device id of the Enphase adapter is
registered nowhere, so that nothing of it is saved or published
(`UnregisteredBacksOffForever`).

The build is the one of `Dockerfile.frontend`. In development, `StrictMode` runs
effects twice: two fetches of the history of an hour are under way, the first
answer brings the buttons back, and `ReadingsMatchInterval` would not hold.

## 3. Runs

| Run | Instance | What it shows |
|---|---|---|
| `hub` | 2 connections (symmetric), channels of 1, 3 events | no use of a closed channel, no leaked client, order, no silent gap, drops only when the buffer is full |
| `hub_live` | 1 connection, channels of 2, 4 events, fair | the refinement of `EventFeed`; no slow browser holds up `Run`; `Run` stops; handlers of browsers that left end |
| `hub_long_lived` | 1 connection | *violated*: `WriteTimeout` ends streams |
| `hub_drain` | 1 connection, fair | *violated*: handlers outlive `Run` and block |
| `ingestion` | 2 pollers, one unregistered; bus of 1, 3 ticks, 1 crash, fair | the refinement of `ReadingLog`; persistence before publication, order over restarts, cancellation, backoff of the unregistered, liveness of cycles and of shutdown |
| `ingestion_ticks` | 2 registered pollers, 2 ticks | *violated*: the ticker's channel is shared |
| `backoff` | 70 failures in a row | the schedule holds up to the 34th failure, the cap always |
| `backoff_min` | 70 failures | *violated* at the 35th failure |
| `pipeline` | 1 poller without battery, 1 browser, channels of 1, 2 ticks, fair | the refinement of `LiveView`; order over the bridge; published events reach the fan-out; the process exits, whatever it is stuck in |
| `deployment` | 2 runs of the seed command (one day, one instant), an hour of 2 intervals, a day of 2 hours, 2 instants, 1 kill, 1 successful cycle, any number of failed ones with delays of 1, 2, 2, ..., fair | a ready server has its schema and comes up again; seeded rows have no hole, no half and no future; the poller recovers from its failures once its device is there |
| `enphase` | 4 grants, 2 restarts, 3 callbacks, fair | an expired access token costs no poll; rotation loses no session; a session heals; the authorisation command ends |
| `dashboard` | 1 device, 2 intervals, 2 cycles, 2 clicks, 1 lost connection, fair | history belongs to the interval chosen but for hasty clicks, cards show what the header tells the time of, no step back in time, no endless skeleton |

Bounds. Every counter that grows is bounded by a constant in a guard: `MaxEvents`
(`Broadcast`), `MaxTicks` (`Tick`), `MaxCrashes` (`Crash`), `MaxFailures` (`Fail`),
`MaxGrants` (`Grant`, `Authorise`), `MaxRestarts` (`Restart`), `MaxCallbacks`
(`Callback`), `MaxCycles` (`Save`), `MaxClicks` (`SetHistoryInterval`), `MaxLosses`
(`Lose`), `MaxClock` (`Tick` of `Deployment`), `MaxPolls` (`Receive` of
`Deployment`). Capacities of 16, 32 and 64 become 1 or 2: what matters is that each
buffer is full and empty at some time, with one more event on the way. With channels
of one slot, three events put one in the channel, one in the hand of the handler and
one to be dropped. Two connections are needed for one to be served and one to be in
the way; nothing in `Run` depends on more than the one it deals with and the rest.
Two ticks are the least for which the bridge holds an event while another is on the
bus, three leave one cycle before and one after a crash with one to spare. 70
failures go past factors 34, 55 and 63, where the product is first negative, is
zero, and where the conversion overflows. Four grants are the first, a refresh that
may rotate, a new authorisation or a lost or incomplete answer, and one more that is
kept for a session that then has to heal: `Expire`, `Authorise`, `Restart`,
`RefreshLost` and an empty `StoreAccess` leave the last grant to it, so that `Heals`
is not cut off by the bound. Of three callbacks the first is received, the second
fills the slot and the third blocks its handler. Two restarts are one with a rotated
token in the environment and one after the operator has replaced it. The pipeline's
poller reports no battery: with one, the instance is too large to check liveness on,
and the battery's calls are in `ingestion` and in the proofs of `Pipeline`. Two runs
of the seed command are needed for one to conflict with the other; the one that
seeds an instant can also come after the one that seeds a day. The clock starts in
the middle of an interval and inside the second day, and its one step comes to the
end of an interval and of an hour. One kill suffices to start the server on a
database that is migrated already; starts that fail or are killed before it serves
are not bounded. One successful cycle may come before, between or after the seeded
rows of its instant; failed ones are not bounded, and a longest delay of two makes
the backoff both grow and stay. Of two cycles one may be in the answer to the first
fetch and the other in an event before or after it; two clicks may be far apart or
in one `Gap`, and one lost connection puts a gap between two events. The safety
invariants that are proved (section 5) hold for all bounds.

Deadlock is checked in `Backoff` and `EnphaseAccount`. Elsewhere a behaviour may
end: all events, ticks and connections are used up, or the process has stopped.

### Fairness

A goroutine that can run does (`WF` of the steps it takes by itself). Go's
`select` chooses at random among the ready cases, so that a case which is ready
again and again is taken (`SF`). Deadlines elapse, and a closed connection is
noticed. Provider calls return: the Enphase client has a timeout of 15 s
(`client.go:28-30`), the fake one does not wait. Database calls are assumed to
return as well; the code gives them no deadline of their own. Nothing obliges a
browser to connect, read or leave, the ticker to tick, anybody to send a signal,
or, in `Hub` and `Ingestion` alone, the bridge to do its part. `hub_live` runs
under fairness of `Hub.Run` alone, so that `BroadcastProgress` and `RunStops` owe
nothing to handlers or deadlines; `DepartedHandlerEnds` states the handlers'
fairness as its own hypothesis. `Pipeline!FairSpec` has only the conditions its two
liveness properties need.

`EnphaseAccount!FairAccount`: the ticker keeps the poller calling, and both HTTP
clients have a timeout of 15 s. Its strong fairness is an assumption about the
provider, not about this code: asked again and again, it accepts a valid token,
rejects a bad one and grants a refresh some time. Of the authorisation command the
three deadlines elapse; nobody has to start it, to come back from the browser or to
receive what its handlers send. `Dashboard!FairSpec`: every
request ends, by `TimeoutHandler` after 30 s (`routes.go:47`) at the latest, and the
browser runs the callbacks, effects and renders that are due. Nothing makes a poller save,
an event stream connect or anybody click.

`Deployment!FairSpec`: a process that runs goes on and docker compose restarts one
that ended (`restart: unless-stopped`, `docker-compose.yml:25`), which is weak fairness
of `Main`. That the calls of a start do not fail for ever is strong fairness of each
of them: an assumption about the database and the machine, without which no server
comes up. The ticker ticks, a cycle's calls return and a sleep ends (`WF` of
`Polling`, which any outcome of a cycle satisfies); and of infinitely many cycles
whose device is known not all fail (`SF` of `CycleSucceeds`), an assumption about the
database too. What `PollsResume` adds to it is the code's part: that the poller comes
back for another cycle after any number of failures, at every stage of its backoff
and in every process. Nobody has to run the seed command or to kill anything.

## 4. What the runs found

Four runs end in a violation, each of one sentence of the repository.

- `hub_drain`: after `cancel()`, `Run` returns at once. A handler that then leaves
  its loop, because its channel was closed or its browser left, blocks in `defer
  h.Unsubscribe(ch)`, on a channel nobody receives from (`sse.go:80, 102`). With a
  browser connected, `srv.Shutdown` therefore always waits out its 10 s and reports
  an error where `main.go:108` announces "draining". `ProcessExits` shows that the
  process exits all the same. `HandlersBlock` proves that such a handler never ends,
  for any number of browsers.
- `hub_long_lived`: `WriteTimeout: 30 * time.Second` (`main.go:92`) holds for the
  event stream too; the comment there and `sse.go:87` say it does not. The stream
  ends with the first event after 30 s, and the browser reconnects. It is the only
  cause: `LongLivedButForDeadline` proves the comment where no deadline passes.
- `ingestion_ticks`: two providers share the channel of one ticker (`main.go:83`),
  so each tick is received by one of them, while `ingestion_service.go:20` says "on
  every tick". `EveryTickOfOne` proves it for a server with one provider,
  `TicksAreShared` that it is false of any two.
- `backoff_min`: at the 35th failure in a row, that is at factor 34, the product of
  `increase` is -1266874889 s (`ingestion_service.go:160`), and `time.Sleep` returns
  at once, where lines 143-145 promise five minutes. Of the later factors up to 54
  the product is negative too, but for 37, 41, 42, 45, 47, 50, 51 and 53, where it
  wraps to a positive one and the cap makes five minutes of it: the sign is bit 54 -
  n of 5^9. From factor 55 on it is 0 (from 63 on, on arm64, -1 s). `Wraps` proves
  the 35th failure for any bound, `OnSchedule` and `LongEnough` that none before it
  is wrong. That is after about 2.2 hours without one success - which the poller of
  an unregistered device (`UnregisteredBacksOffForever`, `provider_factory.go:38`)
  always reaches.

Divergences no run is spent on, in the server and the browser: a slow client is not
dropped, only its event is (`sse.go:25` against 64-68); `Subscribe` returns at the
rendezvous, before the map is updated (`sse.go:35-36` against 54), though
`NoSilentGap` shows that the purpose given there is met; the `retry_in` that is
logged is the delay of the failure before (`ingestion_service.go:65, 73, 77`); a
live event that comes before the answer to the first fetch, or any after that fetch
failed, is thrown away (`usePowerStatus.ts:33`), while the header shows its time,
where `docs/frontend/DESIGN.md` promises "one source of truth"; the answer
`{"status": "no data"}` is taken for a status (`Dashboard.tsx:48` then computes with
missing fields), which `fetchBatteryStatus` guards against (`api.ts:32`) and
`fetchPowerStatus` does not; a second click on the chart's buttons, before React has
rendered the skeleton of the first, has two histories due at a time, and the earlier
one may come last and stay under the other interval (`usePowerHistory.ts:38-39`;
found by TLC without the `~hasty` of `ReadingsMatchInterval`); an event changes the
battery's flow and not its charge (`useBatteryStatus.ts`), which stays that of the
first fetch, where ticket 001 (`docs/tickets`, line 399) wants battery data in real
time.

In the seed command and around the database:

- `seedBattery` declares a new `chargePercent` in its loop (`main.go:222`), so that
  every row's charge is one step from 50 %; lines 190-193 and ticket 001
  (`docs/tickets`, line 353) want it carried through the day.
- A second `just seed` on a later day, or one after a run that failed between its two
  copies, is refused by the unique keys, as neither copy has an `ON CONFLICT`; ticket
  002, step 6, tells to re-seed. `BatteryRowsJoin` shows that what is left is at
  least consistent.
- `--seed=0` is "0 = random" (`main.go:32`, `README.md:71`), but only `NewAdapter`
  makes a random seed of 0, and the command does not call it. `FAKE_TIMEZONE` is read
  by neither the command nor `docker-compose.yml`.
- The seeded energy of the day and charge start anew at midnight UTC, the live
  adapter's charge at local midnight (`generator.go:74`).
- `GetAggregatedReadings` returns `SUM(energy_produced_today)`, the sum of a total that
  runs over the day; the rows of the poller hold 0 there (`ingestion_service.go:94-99`).
- `GetHistory` answers `null`, not `[]`, for no rows, and 500 for an unknown interval.
- An empty `ENPHASE_API_KEY` alone, `README.md:80`, does not select the fake provider;
  `FAKE_PROVIDER=true` does.

Around requests that take long:

- `TimeoutHandler` would answer 503 `request timeout` after 30 s (`routes.go:47`), but
  the connection's write deadline of 30 s (`main.go:92`) began before it, so that the
  answer is not written. To the hooks either is a fetch that failed.
- `enphase-auth` shows "Authorization successful!" when it has the code (`main.go:69`),
  before the exchange that may still fail (98-102).

## 5. Proofs

The theorems are of the form `Spec => []P` (or a refinement; some have a hypothesis
that says under which condition a refuted comment is true, `HandlersBlock` and
`CallbackBlocks` say what stays true from some state on) and hold for any
finite set of connections, any capacities of at least one, any providers and any
bounds; the named assumptions on the constants are all they use.

`HubProofs`

- `TypeCorrect`: types and capacities.
- `ChannelInvariant`, from which `NoPanic` (`NoUseOfClosedChannel`) and `NoLeak`
  (`ClientsAreSubscribers`). Neither is inductive: that a fan-out meets no closed
  channel needs that `todo` is part of the map, that needs the map to be the
  handlers between subscribing and unsubscribing, and in the middle of a case that
  equation is off by the one channel at hand. `MapOK` says by which, case by case,
  and that a closed channel's handler is done.
- `OrderInvariant`, from which `Order` (`InOrder`). `OrderOK` adds to "increasing"
  that everything a connection has, in its hand or in its channel, was offered to
  it (`Past`), so that the event being fanned out is newer; `BroadcastOK` that the
  broadcast channel holds exactly the events after the one `Run` took last.
- `Refinement` (`FeedRefined`): every step of the hub is a step of `EventFeed` or
  leaves it alone. `OrderInv` is what makes `Write` a `Show`.

`HubDeliveryProofs`

- `NoGap` (`NoSilentGap`) and `Burst` (`BurstAbsorbed`) from `DeliveryInv`. `Given(c)` is
  what a connection was ever given: read, in hand, buffered or lost in the write. No
  step takes from it, and `Offer` either adds the event or, if the channel is full,
  drops it; `OrderInv` then says that the buffered events, as many as the channel has
  slots, are distinct and older.
- `StreamsEndForCause` from `CauseInv`: whatever makes a handler return - the context
  of its request, or a channel that was closed - was caused by its own browser, its
  own deadline or the shutdown. A channel is closed by `Unregister` as well as by the
  shutdown; that the handler of the first kind has ended already is `MapOK` again.
  `LongLivedButForDeadline` is its corollary for behaviours in which no deadline passes.
- `HandlersBlock`: a handler that comes to its `Unsubscribe` after `Run` has returned is
  in it for ever, as no step takes it or `Run` out of where they are (`StuckStep`).

`IngestionProofs`

- `PersistInvariant`, from which `TypeCorrect`, `Persisted`
  (`PublishedArePersisted`), `BatteryRowsJoin` (`BatteryRowsHaveReadings`) and
  `Ordered` (`PublishedInOrder`). `CycleOK` carries through a poller's cycle what
  its earlier calls achieved: from the insert on its reading has a row, until the
  save its event has no battery fields, and its timestamp is newer than that of
  every event of the device.
- `CancelReachesWrites` (`AtMostOneRowAfterCancel`) from `CancelInv`: a poller whose
  call was under way at `cancel()` has written nothing since, and loses this status
  with the call's return, after which nothing it calls can succeed.
- `Unregistered` (`UnregisteredBacksOffForever`): the foreign key keeps such a
  poller from ever coming past its first insert.
- `Refinement` (`LogRefined`) from `LogInv`, which adds `RowsOK` to `PersistInv`: no
  row of a device is later than its poller's cycle, and of that cycle there is only
  what its calls may have stored by now. Each insert is then a `StoreReading` or a
  `StoreBattery`, or stutters, where its answer is an error and nothing was
  committed; `Publish` is an `Announce` or, on a full bus, stutters; a crash is a
  stutter.
- `EveryTickOfOne`: with one provider, every tick is waiting, was dropped or was
  received by it (`TicksOK`). `TicksAreShared`: of any two providers, both together
  were polled at most as often as the ticker ticked.

`PipelineProofs`

- A behaviour of the pipeline is one of `Ingestion` and one of `Hub`
  (`PollersBehave`, `FeedBehaves`), so that their theorems are cited, not repeated.
  `BridgeInv` joins the two ends: what is published is what was broadcast, then what
  the bridge holds, then what is on the bus. From it `BridgeOrder`
  (`BridgeKeepsOrder`) and `Shown` (`ShownIsPersisted`), also for providers with a
  battery.
- `Refinement` (`ViewRefined`): a step of a poller is a step of the log, by `LogStep` of
  `IngestionProofs`, and moves no browser's events, as `published` only grows
  (`PublishedStays`). The one step that shows something is the hub's `Write`. What a
  handler has in its hand is an ordinal of `published`, greater than those the browser
  read (`ReadWasPublished`, from the hub's `OrderOK` and the bridge's `PendingOK`), and
  in `published` the greater ordinal of a device has the later timestamp
  (`PublishedInOrder`): the three components' invariants together are the guard of `Show`.

`BackoffProofs`

- `Cap` (`NeverLongerThanMax`) from `SleepsShort`. Nothing is assumed of the product:
  what is above five minutes is capped, whatever the overflow made of it.
- `OnSchedule` (`SleepsOnSchedule`) from `RunOfFailures`: the factor counts the sleeps
  since the last success, so that a success which forgot to reset it would break it.
  The rest is about the digits. `TimesDigits` computes a multiplication carry by carry.
  `ShiftedRecursion` says that the recursive function `Shifted` satisfies its defining
  equation; the existence of such a function is proved by induction on the length of
  its beginnings, over a set of numbers, with the well-foundedness of `<` in the place
  of the library's induction theorem. `Delay` lists the products of the first 35
  failures.
- `Wraps` and `LongEnough`: the 35th sleep is negative in every behaviour that comes to
  it, and with at most 34 failures in a row none is shorter than a second.

`DeploymentProofs`, for any environment, runs, intervals that divide the hour, days
and bounds

- `SchemaComplete` (`ServedSchemaIsComplete`) from `ServerInv`: what the version says
  at each place of the start, dirty while the file runs, clean only after it.
- `SeedInvariant`, from which `NoFuture` (`NoRowFromTheFuture`) and `BatteryJoins`
  (`BatteryRowsJoin`): a run that copies battery rows has copied its readings
  (`SeededOK`), rows are never removed, and a window ends before the clock.
- `ChartIsWhole` (`SeededChartHasNoHole`): the bucket of every instant begins with, or
  contains, a point of the grid of intervals inside the window, by the arithmetic of
  `%` that the lemmas before it state.

`EnphaseProofs`

- `TypeCorrect`; `Session` (`SessionKept`); `ExpiryHealed` (`ExpiryCostsNoCall`).
  The invariant `CallOK` says what `steady` promises at each place of a call: that
  there is a refresh token the server accepts until the grant, and a live access
  token from then on; hence no way of returning `ErrAuthExpired` keeps `steady`. A call
  without a refresh token, or one whose refresh fails, is lost or incomplete, is not
  `steady` and may return it after a single refusal.
- `AccountSession`: `SessionKept` of the specification with the command, by the lemma
  `Implementation` - the modules are built such that the command's steps but one leave
  the adapter alone.
- `CallbackBlocks` (`BlockedForGood`): after the receive of a code the command's two
  channels are never emptied, so that a handler whose channel is full stays blocked
  whatever else happens, until the process ends.

`DashboardProofs`, for any devices, intervals and bounds

- `HistoryMatches` (`ReadingsMatchInterval`) from `HistoryInv`: unless a click was
  hasty, at most one history is asked or under way, it is of the interval chosen,
  and none is unless the chart is loading. `HistoryClick` is its only delicate step:
  a click that is not in the `Gap` finds a chart that is rendered and not loading,
  so that no other history is due. This is the chart's doing, not the hook's.
- `CardsFollow` (`CardsFollowHeader`) from `CardsInv`: there is one fetch of the
  status, and once `status` is not null it has been delivered.
- `HeaderForward` (`HeaderMovesForward`) from `HeaderInv`: on the one event stream a
  device's messages are in order and newer than what was seen, and what is saved and
  not yet sent, however much, is newer than all of them. `Lose` takes what was on
  the wire: that no old connection goes on delivering is the cleanup of the effect
  in `useSSE` (`Sources`) and `EventSource`'s own doing.
- `TypeCorrect` (`TypeOK`) from `TypeInv`: that effects run with an event takes
  `CardsInv`, that events are saved cycles `HeaderInv`, and that no fetch is asked
  for while its like is under way that the fetches of the history are numbered by
  their clicks. `NewestIsIn` says what the queries' `ORDER BY ... DESC LIMIT 1`
  answers, by the well-foundedness of `<`.

Every safety invariant, the action property and the three refinements that the passing
runs check are proved. Only model-checked: the liveness properties, which are beyond the
prover.

## 6. Correspondence

`PROJECT.json` ("map") gives for each definition the lines it stands for. In
short: one action per case of a `select`, per call and per outcome of a call;
the guard of an action is where its goroutine stands and what the case or the
`if` asks. Logging, headers, JSON and the measured values are left out; an event
is its place in the order, a row its key.

## 7. Not modelled, and what is left

Next, in this order:

1. A clock that steps back (NTP): `reading_repository.go:33` then loses a row whose
   event was published. It changes what `PublishedInOrder` may say, and with it its
   proof.
2. A killed seed command whose COPY commits after the next run has begun.
   golang-migrate's lock excludes this for the server; nothing does for the command.
3. Buckets of weeks and months, which are no multiples of each other.
4. `just reset` and other repairs by hand of a dirty migration.

Left out for good: rendering (`frontend/src/components`), which keeps no state
(the chart's skeleton, which decides whether there are buttons, is in `Dashboard`);
the curves of the fake provider, which are floating-point functions of the time
without state; the values in rows and buckets; the parsing of the environment and of
request parameters; middleware and metrics; the device repository, which nothing calls.

-------------------------------- MODULE Seed --------------------------------
(***************************************************************************)
(* The command backend/cmd/seed/main.go: three fixtures, then one bulk copy*)
(* of readings and one of battery rows.  A run of the command is a member  *)
(* of Seeder, "step" the call it waits for; several may run at a time.  A  *)
(* call fails, takes effect, or takes effect and loses its answer; a run   *)
(* that is killed has failed.  Time is counted from the zero time that     *)
(* time.Truncate and DATE_TRUNC round down to.                             *)
(***************************************************************************)
EXTENDS Integers, HistoryQuery

CONSTANTS Seeder,    \* runs of the command
          Interval,  \* its flag --interval
          Days       \* Days[s]: the flag --days of run s

VARIABLES
  step,      \* step[s]: where run s is
  end,       \* end[s]: the last instant it seeds
  fixtures,  \* which of the rows with a fixed id exist
  rows,      \* rows of power_readings and battery_status of the fake device
  tables,    \* the tables exist (see Startup)
  clock      \* the time

runVars == <<step, end>>
dbVars == <<fixtures, rows>>

\* The fixtures in the order of their foreign keys
Fixture == {"user", "household", "device"}
Parent == [user |-> {}, household |-> {"user"}, device |-> {"household"}]
Following == [user |-> "household", household |-> "device", device |-> "readings"]
Calls == Fixture \cup {"readings", "battery"}

Init == /\ step = [s \in Seeder |-> "idle"]
        /\ end = [s \in Seeder |-> 0]
        /\ fixtures = {} /\ rows = {}

\* Mutant: time.Round instead of time.Truncate, for an instant past the middle
TruncateUp(t) == t - (t % Interval) + Interval

\* time.Truncate
Truncate(t) == t - (t % Interval)

Start(s, e) == e - Days[s] * Day

\* Mutant: the loop runs while ts.Before(end)
WindowOpen(s, e) == {t \in Start(s, e)..(e - 1) : (t - Start(s, e)) % Interval = 0}

\* for ts := start; !ts.After(end); ts = ts.Add(interval)
Window(s, e) == {t \in Start(s, e)..e : (t - Start(s, e)) % Interval = 0}
-----------------------------------------------------------------------------
(* What the statements do, if they do anything.                            *)

\* INSERT ... ON CONFLICT (id) DO NOTHING, under its foreign key
InsertFixture(f) == /\ tables /\ Parent[f] \subseteq fixtures
                    /\ fixtures' = fixtures \cup {f}
                    /\ UNCHANGED rows

\* COPY inserts all its rows, or none if one of them violates a key.
Copy(new) == /\ tables /\ "device" \in fixtures
             /\ rows \cap new = {}
             /\ rows' = rows \cup new
             /\ UNCHANGED fixtures

Readings(s) == {Reading(t) : t \in Window(s, end[s])}
BatteryRows(s) == {BatteryStatus(t) : t \in Window(s, end[s])}
-----------------------------------------------------------------------------
(* A run.                                                                  *)

Goto(s, label) == step' = [step EXCEPT ![s] = label]

\* main has its flags, its DATABASE_URL and a connection.
Run(s) == /\ step[s] = "idle"
          /\ Goto(s, "user")
          /\ UNCHANGED <<end, dbVars>>

\* ensureFixtures, call by call; after the last one main looks at the clock.
EnsureFixtures(s) ==
  /\ step[s] \in Fixture
  /\ InsertFixture(step[s])
  /\ Goto(s, Following[step[s]])
  /\ end' = IF step[s] = "device" THEN [end EXCEPT ![s] = Truncate(clock)] ELSE end

SeedReadings(s) ==
  /\ step[s] = "readings"
  /\ Copy(Readings(s))
  /\ Goto(s, "battery")
  /\ UNCHANGED end

SeedBattery(s) ==
  /\ step[s] = "battery"
  /\ Copy(BatteryRows(s))
  /\ Goto(s, "done")
  /\ UNCHANGED end

\* Mutant: a failed seedReadings is logged, and main goes on to seedBattery
FailsUnlessReadings(s) ==
  /\ step[s] \in Calls
  /\ \/ UNCHANGED dbVars
     \/ step[s] \in Fixture /\ InsertFixture(step[s])
     \/ step[s] = "readings" /\ Copy(Readings(s))
     \/ step[s] = "battery" /\ Copy(BatteryRows(s))
  /\ Goto(s, IF step[s] = "readings" THEN "battery" ELSE "failed")
  /\ UNCHANGED end

\* The call fails - there may be no such table yet, or a row of the copy may exist
\* already -, its answer is lost, or the run is killed: os.Exit(1).
Fails(s) ==
  /\ step[s] \in Calls
  /\ \/ UNCHANGED dbVars
     \/ step[s] \in Fixture /\ InsertFixture(step[s])
     \/ step[s] = "readings" /\ Copy(Readings(s))
     \/ step[s] = "battery" /\ Copy(BatteryRows(s))
  /\ Goto(s, "failed")
  /\ UNCHANGED end

Seeding(s) == Run(s) \/ EnsureFixtures(s) \/ SeedReadings(s) \/ SeedBattery(s) \/ Fails(s)
-----------------------------------------------------------------------------
(* Properties.                                                             *)

RowType == [table : {"power_readings", "battery_status"}, at : Int]

\* Every variable of the command and of the database has its type.
TypeOK == /\ step \in [Seeder -> Calls \cup {"idle", "done", "failed"}]
          /\ end \in [Seeder -> Int]
          /\ fixtures \subseteq Fixture
          /\ rows \subseteq RowType

\* What a run has achieved where it stands
SeededOK(s) == /\ step[s] \in {"readings", "battery", "done"} => end[s] % Interval = 0
               /\ step[s] \in {"battery", "done"} => Readings(s) \subseteq rows
               /\ step[s] = "done" => BatteryRows(s) \subseteq rows
               /\ end[s] <= clock

\* A run that exits with success has left a chart without a hole: by hour and by
\* day, the history of the time it seeded has a bucket for every instant of it
\* (README.md:67, "so the history charts have data to display").
SeededChartHasNoHole ==
  \A s \in Seeder : step[s] = "done" =>
     \A unit \in Unit :
        LET start == Start(s, end[s])
            answer == GetHistory(rows, unit, start, end[s])
        IN \A t \in start..end[s] : DateTrunc(unit, t) \in answer.buckets

\* Every battery row has the reading of its instant, whichever runs failed, were
\* killed or refused half-way and whatever the poller saved meanwhile: the readings
\* are copied first, and a run that did not copy its own copies no battery rows.
BatteryRowsJoin == \A t \in {r.at : r \in {q \in rows : q.table = "battery_status"}} :
                      Reading(t) \in rows

\* No row is from the future: the seed ends in the past, so that what a poll saves
\* is the latest reading from then on (GetLatestReadings orders by timestamp).
NoRowFromTheFuture == \A r \in rows : r.at <= clock
=============================================================================

------------------------- MODULE DeploymentProofs -------------------------
(***************************************************************************)
(* Proofs about Deployment, for any number of runs of the seed command, any*)
(* interval that divides the hour, any days and any bounds.                *)
(***************************************************************************)
EXTENDS Deployment, TLAPS

\* Each step of main leaves the schema as the next step expects it, and so does a
\* start that breaks off in the middle.
LEMMA ServerStep == ServerInv /\ [Next]_vars => ServerInv'
<1> SUFFICES ASSUME ServerInv, [Next]_vars PROVE ServerInv'
  OBVIOUS
<1> USE BoundAssumption
    DEF ServerInv, Server!TypeOK, Server!SchemaOK, Server!Starting, Server!Config
<1>1. CASE Up
  <2>1. CASE Server!Launch \/ Server!Load \/ Server!Ping \/ Server!Listen
    BY <2>1 DEF Server!Launch, Server!Load, Server!Ping, Server!Listen, Server!Goto, Server!schema
  <2>2. CASE Server!Behind \/ Server!NoChange
    BY <2>2 DEF Server!Behind, Server!NoChange, Server!Goto, Server!schema
  <2>3. CASE Server!Migrate
    BY <2>3 DEF Server!Migrate, Server!Goto, Server!MarkDirty, Server!RunFile, Server!MarkClean
  <2>4. CASE Server!Exit
    <3>1. /\ server' = "down" /\ config' = config /\ crashes' = crashes
          /\ version' \in {"none", "dirty", "clean"} /\ tables' \in BOOLEAN
      BY <2>4 DEF Server!Exit, Server!schema, Server!MarkDirty, Server!RunFile, Server!MarkClean
    <3>2. version' = "clean" => tables'
      BY <2>4 DEF Server!Exit, Server!schema, Server!MarkDirty, Server!RunFile, Server!MarkClean
    <3> QED
      BY <3>1, <3>2
  <2>5. CASE Server!Crash
    BY <2>5 DEF Server!Crash, Server!schema
  <2> QED
    BY <1>1, <2>1, <2>2, <2>3, <2>4, <2>5 DEF Up, Server!Next, Server!Main
<1>2. CASE Tick \/ Polling \/ UNCHANGED vars
  BY <1>2 DEF Tick, Polling, Others, vars, serverOnly
<1>3. ASSUME NEW s \in Seeder, Seeding(s) PROVE ServerInv'
  BY <1>3 DEF Seeding, serverOnly
<1> QED
  BY <1>1, <1>2, <1>3 DEF Next

\* A server that says it is ready has its complete schema: no start, killed or failed
\* anywhere, makes a later one serve a schema that is not there.
THEOREM SchemaComplete == Spec => []ServedSchemaIsComplete
<1>1. Init => ServerInv
  <2> SUFFICES ASSUME Init PROVE ServerInv
    OBVIOUS
  <2>1. /\ config \in Server!Config /\ server = "down" /\ version = "none" /\ tables = FALSE
        /\ crashes = 0
    BY DEF Init, Server!Init
  <2>2. Server!TypeOK
    <3>1. server \in Server!Starting \cup {"down", "serving"} /\ crashes \in 0..MaxCrashes
      BY <2>1, BoundAssumption
    <3>2. tables \in BOOLEAN
      BY <2>1, Zenon
    <3> QED
      BY <2>1, <3>1, <3>2 DEF Server!TypeOK
  <2>3. Server!SchemaOK
    BY <2>1 DEF Server!SchemaOK
  <2> QED
    BY <2>2, <2>3 DEF ServerInv
<1>2. ServerInv => ServedSchemaIsComplete
  BY DEF ServerInv, Server!SchemaOK, ServedSchemaIsComplete, Server!ServedSchemaIsComplete, Server!Ready
<1> QED
  BY <1>1, <1>2, ServerStep, PTL DEF Spec
-----------------------------------------------------------------------------
\* Arithmetic the rounding rests on: a multiple by at least 1, ...
LEMMA Mono == ASSUME NEW n \in Nat \ {0}, NEW k \in Int, k >= 1
  PROVE n * k >= n
OBVIOUS

\* ... and one by at most -1.
LEMMA Mono2 == ASSUME NEW n \in Nat \ {0}, NEW k \in Int, k <= -1
  PROVE n * k <= -n
OBVIOUS

\* Quotient and remainder.
LEMMA DivMod == ASSUME NEW n \in Nat \ {0}, NEW t \in Int
  PROVE t = n * (t \div n) + (t % n) /\ t % n \in 0..(n-1) /\ t \div n \in Int
OBVIOUS

\* There is one remainder only.
LEMMA ModUnique == ASSUME NEW n \in Nat \ {0}, NEW q \in Int, NEW r \in 0..(n-1)
  PROVE (n*q + r) % n = r
<1> DEFINE a == n*q + r
<1>1. a \in Int
  OBVIOUS
<1>2. a = n * (a \div n) + (a % n) /\ a % n \in 0..(n-1) /\ a \div n \in Int
  BY <1>1, DivMod
<1> DEFINE d == q - (a \div n)
<1>3. d \in Int
  BY <1>2
<1>4. n * d = (a % n) - r
  BY <1>2
<1> HIDE DEF d
<1>5. d = 0
  BY <1>2, <1>3, <1>4, Mono, Mono2
<1> QED
  BY <1>2, <1>4, <1>5

\* A multiple leaves no remainder.
LEMMA MultipleMod == ASSUME NEW n \in Nat \ {0}, NEW q \in Int
  PROVE (n*q) % n = 0
<1>1. 0 \in 0..(n-1)
  OBVIOUS
<1>2. (n*q + 0) % n = 0
  BY <1>1, ModUnique
<1>3. n*q + 0 = n*q
  OBVIOUS
<1> QED
  BY <1>2, <1>3

\* Rounding down to an instant of the grid does not leave the bucket, if the grid divides
\* the bucket.
LEMMA SameBucket ==
  ASSUME NEW m \in Nat \ {0}, NEW u \in Nat \ {0}, u % m = 0, NEW t \in Int
  PROVE (t - (t % m)) - ((t - (t % m)) % u) = t - (t % u)
<1> DEFINE q == u \div m
           a == t \div m
           b == a \div q
           c == a % q
           r == t % m
<1>1. u = m * q /\ q \in Nat \ {0}
  <2>1. u = m * q /\ q \in Int
    BY DivMod
  <2>2. q > 0
    <3>1. CASE q = 0
      BY <2>1, <3>1
    <3>2. CASE q <= -1
      BY <2>1, <3>2, Mono2
    <3> QED
      BY <2>1, <3>1, <3>2
  <2> QED
    BY <2>1, <2>2
<1>2. t = m * a + r /\ a \in Int /\ r \in 0..(m-1)
  BY DivMod
<1>3. a = q * b + c /\ b \in Int /\ c \in 0..(q-1)
  <2> HIDE DEF q, a
  <2> QED
    BY <1>1, <1>2, DivMod
<1> HIDE DEF q, a, b, c, r
<1>4. m * a = u * b + m * c
  BY <1>1, <1>2, <1>3
<1>5. m * c \in 0..(u - m)
  <2>1. m * c >= 0 /\ m * c \in Int
    BY <1>3
  <2>2. m * (q - 1 - c) >= 0
    BY <1>1, <1>3
  <2>3. m * (q - 1 - c) = u - m - m * c
    BY <1>1, <1>3
  <2> QED
    BY <2>1, <2>2, <2>3
<1>6. (m * a) % u = m * c
  <2>1. m * c \in 0..(u - 1)
    BY <1>5
  <2> QED
    BY <1>3, <1>4, <2>1, ModUnique
<1>7. t % u = m * c + r
  <2>1. m * c + r \in 0..(u - 1)
    BY <1>2, <1>5
  <2>2. t = u * b + (m * c + r)
    BY <1>2, <1>3, <1>4, <1>5
  <2> QED
    BY <1>3, <2>1, <2>2, ModUnique
<1>8. t - (t % m) = m * a
  <2>1. t % m = r
    BY DEF r
  <2> QED
    BY <1>2, <2>1
<1> QED
  BY <1>2, <1>3, <1>4, <1>5, <1>6, <1>7, <1>8

-----------------------------------------------------------------------------
\* Rounding down yields an instant of the grid, and no later one.
LEMMA TruncateDown ==
  ASSUME NEW t \in Nat
  PROVE Seeds!Truncate(t) \in Int /\ Seeds!Truncate(t) <= t /\ Seeds!Truncate(t) % Interval = 0
<1>1. /\ t = Interval * (t \div Interval) + (t % Interval)
      /\ t % Interval \in 0..(Interval - 1) /\ t \div Interval \in Int
  BY UnitAssumption, DivMod
<1>2. Seeds!Truncate(t) = Interval * (t \div Interval)
  BY UnitAssumption, <1>1 DEF Seeds!Truncate
<1>3. (Interval * (t \div Interval)) % Interval = 0
  BY UnitAssumption, <1>1, MultipleMod
<1> QED
  BY UnitAssumption, <1>1, <1>2, <1>3

\* A window holds instants up to its end, and those only.
LEMMA WindowType == ASSUME NEW s \in Seeder, NEW e \in Int
                    PROVE \A t \in Seeds!Window(s, e) : t \in Int /\ t <= e
<1>1. Seeds!Start(s, e) \in Int
  BY UnitAssumption, DaysAssumption DEF Seeds!Start
<1> QED
  BY <1>1 DEF Seeds!Window

LEMMA NewRows == ASSUME NEW s \in Seeder, Seeds!TypeOK
                 PROVE \A r \in Seeds!Readings(s) \cup Seeds!BatteryRows(s) :
                          r \in Seeds!RowType /\ r.at <= end[s]
<1>1. end[s] \in Int
  BY DEF Seeds!TypeOK
<1> QED
  BY <1>1, WindowType DEF Seeds!Readings, Seeds!BatteryRows, Seeds!Reading, Seeds!BatteryStatus, Seeds!RowType

\* A step of a run changes the step and the end of that run only, adds to the
\* database and takes nothing from it; what it adds to the rows is one of its two
\* copies, whole.
LEMMA SeedingEffect ==
  ASSUME Seeds!TypeOK, clock \in Nat, NEW s \in Seeder, Seeding(s)
  PROVE /\ clock' = clock
        /\ rows' = rows \/ rows' = rows \cup Seeds!Readings(s) \/ rows' = rows \cup Seeds!BatteryRows(s)
        /\ fixtures' \subseteq Seeds!Fixture
        /\ step' = [step EXCEPT ![s] = step'[s]] /\ step'[s] \in Seeds!Calls \cup {"done", "failed"}
        /\ \/ end' = end
           \/ /\ step[s] = "device" /\ step'[s] = "readings"
              /\ end' = [end EXCEPT ![s] = Seeds!Truncate(clock)]
<1> USE DEF Seeds!TypeOK, Seeds!Calls, Seeds!Fixture, Seeds!Goto
<1>0. clock' = clock /\ Seeds!Seeding(s)
  BY DEF Seeding
<1>1. CASE Seeds!Run(s)
  <2>1. /\ step' = [step EXCEPT ![s] = "user"] /\ end' = end /\ rows' = rows /\ fixtures' = fixtures
    BY <1>1 DEF Seeds!Run, Seeds!dbVars
  <2> QED
    BY <1>0, <2>1
<1>2. CASE Seeds!EnsureFixtures(s)
  <2>1. /\ rows' = rows /\ fixtures' \subseteq Seeds!Fixture
        /\ step[s] \in {"user", "household", "device"}
        /\ step' = [step EXCEPT ![s] = Seeds!Following[step[s]]]
        /\ end' = IF step[s] = "device" THEN [end EXCEPT ![s] = Seeds!Truncate(clock)] ELSE end
    BY <1>2 DEF Seeds!EnsureFixtures, Seeds!InsertFixture
  <2>2. /\ Seeds!Following[step[s]] \in {"household", "device", "readings"}
        /\ step[s] = "device" => Seeds!Following[step[s]] = "readings"
    BY <2>1 DEF Seeds!Following
  <2> QED
    BY <1>0, <2>1, <2>2
<1>3. CASE Seeds!SeedReadings(s)
  <2>1. /\ step' = [step EXCEPT ![s] = "battery"] /\ end' = end /\ fixtures' = fixtures
        /\ rows' = rows \cup Seeds!Readings(s)
    BY <1>3 DEF Seeds!SeedReadings, Seeds!Copy
  <2> QED
    BY <1>0, <2>1
<1>4. CASE Seeds!SeedBattery(s)
  <2>1. /\ step' = [step EXCEPT ![s] = "done"] /\ end' = end /\ fixtures' = fixtures
        /\ rows' = rows \cup Seeds!BatteryRows(s)
    BY <1>4 DEF Seeds!SeedBattery, Seeds!Copy
  <2> QED
    BY <1>0, <2>1
<1>5. CASE Seeds!Fails(s)
  <2>1. end' = end /\ step' = [step EXCEPT ![s] = "failed"]
    BY <1>5 DEF Seeds!Fails
  <2>2. /\ rows' = rows \/ rows' = rows \cup Seeds!Readings(s) \/ rows' = rows \cup Seeds!BatteryRows(s)
        /\ fixtures' \subseteq Seeds!Fixture
    BY <1>5 DEF Seeds!Fails, Seeds!dbVars, Seeds!InsertFixture, Seeds!Copy
  <2> QED
    BY <1>0, <2>1, <2>2
<1> QED
  BY <1>0, <1>1, <1>2, <1>3, <1>4, <1>5 DEF Seeds!Seeding

\* A step of the poller leaves nothing, a reading of the present, or that and a battery row.
LEMMA PollEffect ==
  ASSUME clock \in Nat, Polling
  PROVE /\ UNCHANGED <<step, end, fixtures, clock>>
        /\ \/ rows' = rows
           \/ rows' = rows \cup {Seeds!Reading(clock)}
           \/ rows' = rows \cup {Seeds!Reading(clock), Seeds!BatteryStatus(clock)}
<1>1. UNCHANGED <<step, end, fixtures, clock>> /\ Poller
  BY DEF Polling, Others, seedOnly
<1>2. CASE Receive \/ Sleep \/ Wake
  BY <1>1, <1>2 DEF Receive, Sleep, Wake
<1>3. CASE CycleSucceeds
  BY <1>1, <1>3 DEF CycleSucceeds, Saved
<1>4. CASE CycleFails
  BY <1>1, <1>4 DEF CycleFails
<1> QED
  BY <1>1, <1>2, <1>3, <1>4 DEF Poller

\* Every other step leaves the command and the rows alone.
LEMMA OtherEffect ==
  ASSUME clock \in Nat, Up \/ Tick \/ UNCHANGED vars
  PROVE UNCHANGED <<step, end, fixtures, rows>> /\ clock' \in Nat /\ clock <= clock'
<1>1. CASE Up
  BY <1>1 DEF Up, seedOnly
<1>2. CASE Tick
  BY <1>2 DEF Tick, seedOnly
<1>3. CASE UNCHANGED vars
  BY <1>3 DEF vars, seedOnly
<1> QED
  BY <1>1, <1>2, <1>3

LEMMA SeedTypeStep == SeedType /\ [Next]_vars => SeedType'
<1> SUFFICES ASSUME SeedType, [Next]_vars PROVE SeedType'
  OBVIOUS
<1> USE DEF SeedType, Seeds!TypeOK
<1>1. CASE Up \/ Tick \/ UNCHANGED vars
  BY <1>1, OtherEffect
<1>2. CASE Polling
  <2>1. Seeds!Reading(clock) \in Seeds!RowType /\ Seeds!BatteryStatus(clock) \in Seeds!RowType
    BY DEF Seeds!RowType, Seeds!Reading, Seeds!BatteryStatus
  <2> QED
    BY <1>2, <2>1, PollEffect
<1>3. ASSUME NEW s \in Seeder, Seeding(s) PROVE SeedType'
  <2>1. rows' \subseteq Seeds!RowType /\ fixtures' \subseteq Seeds!Fixture /\ clock' \in Nat
    BY <1>3, SeedingEffect, NewRows
  <2>2. step' \in [Seeder -> Seeds!Calls \cup {"idle", "done", "failed"}]
    BY <1>3, SeedingEffect
  <2>3. end' \in [Seeder -> Int]
    BY <1>3, SeedingEffect, TruncateDown
  <2> QED
    BY <2>1, <2>2, <2>3
<1> QED
  BY <1>1, <1>2, <1>3 DEF Next
-----------------------------------------------------------------------------
\* Rows are never taken away.
LEMMA RowsStay == SeedType /\ [Next]_vars => rows \subseteq rows' /\ clock <= clock'
<1> SUFFICES ASSUME SeedType, [Next]_vars PROVE rows \subseteq rows' /\ clock <= clock'
  OBVIOUS
<1>1. CASE Up \/ Tick \/ UNCHANGED vars
  BY <1>1, OtherEffect DEF SeedType
<1>2. CASE Polling
  BY <1>2, PollEffect DEF SeedType
<1>3. ASSUME NEW s \in Seeder, Seeding(s) PROVE rows \subseteq rows' /\ clock <= clock'
  BY <1>3, SeedingEffect DEF SeedType
<1> QED
  BY <1>1, <1>2, <1>3 DEF Next

\* What a run copied stays copied, and a run goes on only past copies it made.
LEMMA SeededStep == SeedInv /\ [Next]_vars => \A s \in Seeder : Seeds!SeededOK(s)'
<1> SUFFICES ASSUME SeedInv, [Next]_vars, NEW s \in Seeder PROVE Seeds!SeededOK(s)'
  OBVIOUS
<1>1. /\ SeedType /\ Seeds!SeededOK(s)
      /\ rows \subseteq rows' /\ clock <= clock' /\ clock \in Nat /\ clock' \in Nat
      /\ step \in [Seeder -> Seeds!Calls \cup {"idle", "done", "failed"}]
      /\ end \in [Seeder -> Int]
  BY RowsStay, SeedTypeStep DEF SeedInv, SeedType, Seeds!TypeOK
<1>2. ASSUME step'[s] = step[s], end'[s] = end[s] PROVE Seeds!SeededOK(s)'
  BY <1>1, <1>2 DEF Seeds!SeededOK, Seeds!Readings, Seeds!BatteryRows
<1>3. CASE Up \/ Tick \/ Polling \/ UNCHANGED vars
  BY <1>1, <1>2, <1>3, OtherEffect, PollEffect
<1>4. ASSUME NEW q \in Seeder, Seeding(q) PROVE Seeds!SeededOK(s)'
  <2>1. CASE q # s
    <3>1. step'[s] = step[s] /\ end'[s] = end[s]
      BY <1>1, <1>4, <2>1, SeedingEffect DEF SeedType
    <3> QED
      BY <1>2, <3>1
  <2>2. CASE q = s
    <3>1. Seeds!Seeding(s)
      BY <1>4, <2>2 DEF Seeding
    <3>2. CASE Seeds!Run(s)
      <4>1. step'[s] = "user" /\ end'[s] = end[s]
        BY <1>1, <3>2 DEF Seeds!Run, Seeds!Goto
      <4> QED
        BY <1>1, <4>1 DEF Seeds!SeededOK
    <3>3. CASE Seeds!EnsureFixtures(s)
      <4>1. step'[s] \in {"household", "device", "readings"}
        BY <1>1, <3>3 DEF Seeds!EnsureFixtures, Seeds!Goto, Seeds!Fixture, Seeds!Following
      <4>2. /\ end'[s] \in {end[s], Seeds!Truncate(clock)}
            /\ step'[s] = "readings" => end'[s] = Seeds!Truncate(clock)
        BY <1>1, <3>3 DEF Seeds!EnsureFixtures, Seeds!Goto, Seeds!Fixture, Seeds!Following
      <4>3. end'[s] <= clock'
        <5>1. end[s] \in Int /\ end[s] <= clock
          BY <1>1 DEF Seeds!SeededOK
        <5> QED
          BY <1>1, <4>2, <5>1, TruncateDown
      <4> QED
        BY <1>1, <4>1, <4>2, <4>3, TruncateDown DEF Seeds!SeededOK
    <3>4. CASE Seeds!SeedReadings(s)
      <4>1. /\ step[s] = "readings" /\ step'[s] = "battery" /\ end' = end
            /\ Seeds!Readings(s) \subseteq rows'
        BY <1>1, <3>4 DEF Seeds!SeedReadings, Seeds!Goto, Seeds!Copy
      <4> QED
        BY <1>1, <4>1 DEF Seeds!SeededOK, Seeds!Readings
    <3>5. CASE Seeds!SeedBattery(s)
      <4>1. /\ step[s] = "battery" /\ step'[s] = "done" /\ end' = end
            /\ Seeds!BatteryRows(s) \subseteq rows'
        BY <1>1, <3>5 DEF Seeds!SeedBattery, Seeds!Goto, Seeds!Copy
      <4> QED
        BY <1>1, <4>1 DEF Seeds!SeededOK, Seeds!Readings, Seeds!BatteryRows
    <3>6. CASE Seeds!Fails(s)
      <4>1. step'[s] = "failed" /\ end' = end
        BY <1>1, <3>6 DEF Seeds!Fails, Seeds!Goto
      <4> QED
        BY <1>1, <4>1 DEF Seeds!SeededOK
    <3> QED
      BY <3>1, <3>2, <3>3, <3>4, <3>5, <3>6 DEF Seeds!Seeding
  <2> QED
    BY <2>1, <2>2
<1> QED
  BY <1>3, <1>4 DEF Next

\* New rows are never later than the clock: a run's are no later than its end, those of a
\* cycle are of the present.
LEMMA PastStep == SeedInv /\ [Next]_vars => NoRowFromTheFuture'
<1> SUFFICES ASSUME SeedInv, [Next]_vars, NEW r \in rows' PROVE r.at <= clock'
  BY DEF NoRowFromTheFuture, Seeds!NoRowFromTheFuture
<1>1. /\ SeedType /\ clock <= clock' /\ clock \in Nat /\ clock' \in Nat
  BY RowsStay, SeedTypeStep DEF SeedInv, SeedType
<1>2. CASE r \in rows
  <2>1. r.at \in Int /\ r.at <= clock
    BY <1>2 DEF SeedInv, SeedType, Seeds!TypeOK, Seeds!RowType, NoRowFromTheFuture, Seeds!NoRowFromTheFuture
  <2> QED
    BY <1>1, <2>1
<1>3. CASE r \notin rows
  <2>1. CASE Polling
    <3>1. r \in {Seeds!Reading(clock), Seeds!BatteryStatus(clock)}
      BY <1>1, <1>3, <2>1, PollEffect
    <3> QED
      BY <1>1, <3>1 DEF Seeds!Reading, Seeds!BatteryStatus
  <2>2. ASSUME NEW s \in Seeder, Seeding(s) PROVE r.at <= clock'
    <3>1. r \in Seeds!Readings(s) \cup Seeds!BatteryRows(s)
      BY <1>1, <1>3, <2>2, SeedingEffect DEF SeedType
    <3>2. r.at \in Int /\ r.at <= end[s] /\ end[s] \in Int /\ end[s] <= clock
      BY <3>1, NewRows DEF SeedInv, SeedType, Seeds!SeededOK, Seeds!RowType, Seeds!TypeOK
    <3> QED
      BY <1>1, <3>2
  <2>3. CASE Up \/ Tick \/ UNCHANGED vars
    BY <1>1, <1>3, <2>3, OtherEffect
  <2> QED
    BY <2>1, <2>2, <2>3 DEF Next
<1> QED
  BY <1>2, <1>3

\* A battery row comes with its reading: a cycle inserts that first, and a run whose
\* battery rows are copied has copied its readings.
LEMMA JoinStep == SeedInv /\ [Next]_vars => BatteryRowsJoin'
<1> SUFFICES ASSUME SeedInv, [Next]_vars, NEW b \in rows', b.table = "battery_status"
             PROVE Seeds!Reading(b.at) \in rows'
  BY DEF BatteryRowsJoin, Seeds!BatteryRowsJoin, Seeds!Reading
<1>1. SeedType /\ rows \subseteq rows'
  BY RowsStay DEF SeedInv
<1>2. CASE b \in rows
  BY <1>1, <1>2 DEF SeedInv, BatteryRowsJoin, Seeds!BatteryRowsJoin
<1>3. CASE b \notin rows
  <2>1. CASE Polling
    BY <1>1, <1>3, <2>1, PollEffect DEF SeedType, Seeds!Reading, Seeds!BatteryStatus
  <2>2. ASSUME NEW s \in Seeder, Seeding(s) PROVE Seeds!Reading(b.at) \in rows'
    <3>1. PICK t \in Seeds!Window(s, end[s]) : b = Seeds!BatteryStatus(t) /\ step[s] = "battery"
      <4>1. rows' = rows \cup Seeds!BatteryRows(s) /\ step[s] = "battery"
        <5>1. b \notin Seeds!Readings(s)
          BY DEF Seeds!Readings, Seeds!Reading
        <5> QED
          BY <1>3, <2>2, <5>1
          DEF Seeding, Seeds!Seeding, Seeds!Run, Seeds!EnsureFixtures, Seeds!InsertFixture,
              Seeds!SeedReadings, Seeds!SeedBattery, Seeds!Fails, Seeds!Copy, Seeds!dbVars
      <4> QED
        BY <1>3, <4>1 DEF Seeds!BatteryRows
    <3>2. Seeds!Reading(t) \in Seeds!Readings(s) /\ Seeds!Readings(s) \subseteq rows
      BY <3>1 DEF Seeds!Readings, SeedInv, Seeds!SeededOK
    <3> QED
      BY <1>1, <3>1, <3>2 DEF Seeds!BatteryStatus
  <2>3. CASE Up \/ Tick \/ UNCHANGED vars
    BY <1>1, <1>3, <2>3, OtherEffect DEF SeedType
  <2> QED
    BY <2>1, <2>2, <2>3 DEF Next
<1> QED
  BY <1>2, <1>3

\* The command's invariant holds however runs, polls, failures and restarts mix.
THEOREM SeedInvariant == Spec => []SeedInv
<1>1. Init => SeedInv
  <2> SUFFICES ASSUME Init PROVE SeedInv
    OBVIOUS
  <2>1. /\ step = [s \in Seeder |-> "idle"] /\ end = [s \in Seeder |-> 0]
        /\ fixtures = {} /\ rows = {} /\ clock = FirstClock
    BY DEF Init, Seeds!Init
  <2>2. SeedType
    BY <2>1, ClockAssumption DEF SeedType, Seeds!TypeOK
  <2>3. \A s \in Seeder : Seeds!SeededOK(s)
    BY <2>1, ClockAssumption DEF Seeds!SeededOK
  <2>4. BatteryRowsJoin /\ NoRowFromTheFuture
    BY <2>1 DEF BatteryRowsJoin, Seeds!BatteryRowsJoin, NoRowFromTheFuture, Seeds!NoRowFromTheFuture
  <2> QED
    BY <2>2, <2>3, <2>4 DEF SeedInv
<1>2. SeedInv /\ [Next]_vars => SeedInv'
  <2>1. SeedInv => SeedType
    BY DEF SeedInv
  <2> QED
    BY <2>1, SeedTypeStep, SeededStep, PastStep, JoinStep DEF SeedInv
<1> QED
  BY <1>1, <1>2, PTL DEF Spec

\* No row is ever later than the clock, whoever wrote it.
THEOREM NoFuture == Spec => []NoRowFromTheFuture
<1>1. SeedInv => NoRowFromTheFuture
  BY DEF SeedInv
<1> QED
  BY <1>1, SeedInvariant, PTL

\* Every battery row has its reading, whatever failed half-way.
THEOREM BatteryJoins == Spec => []BatteryRowsJoin
<1>1. SeedInv => BatteryRowsJoin
  BY DEF SeedInv
<1> QED
  BY <1>1, SeedInvariant, PTL
-----------------------------------------------------------------------------
\* The interval divides the day as well.
LEMMA DayOnGrid == Day % Interval = 0
<1> DEFINE p == Hour \div Interval
           q == Day \div Hour
<1>1. Hour = Interval * p /\ p \in Int
  BY UnitAssumption, DivMod
<1>2. Day = Hour * q /\ q \in Int
  BY UnitAssumption, DivMod
<1> HIDE DEF p, q
<1>3. (Interval * p) * q = Interval * (p * q) /\ p * q \in Int
  BY UnitAssumption, <1>1, <1>2
<1> QED
  BY UnitAssumption, <1>1, <1>2, <1>3, MultipleMod

\* Every instant between start and end has an instant of the window before it, on the
\* grid and no more than an interval away.
LEMMA GridPoint ==
  ASSUME NEW s \in Seeder, NEW e \in Int, e % Interval = 0, NEW t \in Seeds!Start(s, e)..e
  PROVE t - (t % Interval) \in Seeds!Window(s, e)
<1> DEFINE m == Interval
           z == Seeds!Start(s, e)
           a == t \div m
           x == z \div m
<1>1. m \in Nat \ {0} /\ z = e - Days[s] * Day /\ Days[s] \in Nat /\ Day \in Nat
  BY UnitAssumption, DaysAssumption DEF Seeds!Start
<1>2. z \in Int /\ t \in Int /\ z <= t /\ t <= e
  BY <1>1
<1>3. z = m * x /\ x \in Int
  <2> HIDE DEF z
  <2>1. /\ e = m * (e \div m) /\ e \div m \in Int
        /\ Day = m * (Day \div m) /\ Day \div m \in Int
    BY <1>1, DayOnGrid, DivMod
  <2> DEFINE y == (e \div m) - Days[s] * (Day \div m)
  <2>2. y \in Int /\ z = m * y
    <3> DEFINE p == e \div m
               q == Day \div m
    <3>1. /\ e = m * p /\ p \in Int /\ Day = m * q /\ q \in Int /\ y = p - Days[s] * q
      BY <2>1
    <3> HIDE DEF p, q, y, m
    <3>2. Days[s] * (m * q) = m * (Days[s] * q)
      BY <1>1, <3>1
    <3>3. Days[s] * q \in Int
      BY <1>1, <3>1
    <3> QED
      BY <1>1, <3>1, <3>2, <3>3
  <2> HIDE DEF y
  <2>3. z % m = 0
    BY <1>1, <2>2, MultipleMod
  <2>4. z = m * x + (z % m) /\ x \in Int
    <3> HIDE DEF m
    <3> QED
      BY <1>1, <1>2, DivMod
  <2> HIDE DEF m, x
  <2> QED
    BY <1>1, <2>3, <2>4
<1>4. t = m * a + (t % m) /\ a \in Int /\ t % m \in 0..(m - 1)
  BY <1>1, <1>2, DivMod
<1> HIDE DEF m, z, a, x
<1>5. x <= a
  <2> SUFFICES ASSUME ~(x <= a) PROVE FALSE
    OBVIOUS
  <2>0. x - a >= 1
    BY <1>3, <1>4
  <2>1. m * (x - a) >= m
    BY <1>1, <1>3, <1>4, <2>0, Mono
  <2>2. m * (x - a) = m * x - m * a
    BY <1>1, <1>3, <1>4
  <2> QED
    BY <1>1, <1>2, <1>3, <1>4, <2>1, <2>2
<1>6. t - (t % m) = m * a /\ m * a \in Int /\ m * a <= e
  BY <1>1, <1>2, <1>4
<1>7. z <= m * a
  <2>1. m * (a - x) >= 0
    BY <1>1, <1>3, <1>4, <1>5
  <2>2. m * (a - x) = m * a - m * x
    BY <1>1, <1>3, <1>4
  <2> QED
    BY <1>3, <1>6, <2>1, <2>2
<1>8. (m * a - z) % m = 0
  <2>1. m * a - z = m * (a - x)
    BY <1>1, <1>3, <1>4
  <2> QED
    BY <1>1, <1>3, <1>4, <2>1, MultipleMod
<1> QED
  BY <1>2, <1>6, <1>7, <1>8 DEF Seeds!Window, m, z

\* A run that exits with success leaves a chart without a hole, by hour and by day.
THEOREM ChartIsWhole == Spec => []SeededChartHasNoHole
<1>1. SeedInv => SeededChartHasNoHole
  <2> SUFFICES ASSUME SeedInv, NEW s \in Seeder, step[s] = "done", NEW unit \in Seeds!Unit,
                      NEW t \in Seeds!Start(s, end[s])..end[s]
               PROVE Seeds!DateTrunc(unit, t) \in
                       Seeds!GetHistory(rows, unit, Seeds!Start(s, end[s]), end[s]).buckets
    BY DEF SeededChartHasNoHole, Seeds!SeededChartHasNoHole
  <2> DEFINE g == t - (t % Interval)
  <2>1. end[s] \in Int /\ end[s] % Interval = 0 /\ Seeds!Readings(s) \subseteq rows
    BY DEF SeedInv, SeedType, Seeds!TypeOK, Seeds!SeededOK
  <2>2. g \in Seeds!Window(s, end[s])
    BY <2>1, GridPoint
  <2>3. g \in Seeds!Start(s, end[s])..end[s]
    BY <2>2 DEF Seeds!Window
  <2>4. Seeds!Reading(g) \in rows
    BY <2>1, <2>2 DEF Seeds!Readings
  <2>5. Seeds!DateTrunc(unit, g) = Seeds!DateTrunc(unit, t)
    <3>1. unit \in Nat \ {0} /\ unit % Interval = 0 /\ Interval \in Nat \ {0} /\ t \in Int
      BY UnitAssumption, DayOnGrid DEF Seeds!Unit
    <3> QED
      BY <3>1, SameBucket DEF Seeds!DateTrunc
  <2>6. Seeds!DateTrunc(unit, g) \in
          Seeds!GetAggregatedReadings(rows, unit, Seeds!Start(s, end[s]), end[s])
    <3> HIDE DEF g
    <3>1. Seeds!Reading(g).table = "power_readings" /\ Seeds!Reading(g).at = g
      BY DEF Seeds!Reading
    <3> QED
      BY <2>3, <2>4, <3>1 DEF Seeds!GetAggregatedReadings
  <2> QED
    BY <2>5, <2>6 DEF Seeds!GetHistory
<1> QED
  BY <1>1, SeedInvariant, PTL
=============================================================================

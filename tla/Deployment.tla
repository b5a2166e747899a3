---------------------------- MODULE Deployment ----------------------------
(***************************************************************************)
(* A fresh installation, as the README has it: docker compose starts the   *)
(* server (Startup), which migrates the empty database; somebody runs the  *)
(* seed command (Seed), maybe too early, maybe several times; the poller of*)
(* the fake provider, which fails and backs off until then, saves readings *)
(* once its device is known.  Of the poller's cycles only what they leave  *)
(* in the database is here; Ingestion has their calls, Backoff the         *)
(* arithmetic of the delays.                                               *)
(***************************************************************************)
EXTENDS Integers

CONSTANTS MaxCrashes,                         \* see Startup
          Seeder, Interval, Days, Hour, Day,  \* see Seed and HistoryQuery
          FirstClock,                         \* the time of the installation
          MaxDelay,                           \* the longest sleep, in units of the shortest
          MaxClock,                           \* bound: the last instant
          MaxPolls                            \* bound: polls that are saved

ASSUME BoundAssumption == MaxCrashes \in Nat /\ MaxClock \in Nat /\ MaxPolls \in Nat
ASSUME ClockAssumption == FirstClock \in Nat
ASSUME DelayAssumption == MaxDelay \in Nat \ {0}
\* The interval divides the hour, as the default of 5 minutes does.
ASSUME UnitAssumption == /\ Interval \in Nat \ {0} /\ Hour \in Nat \ {0} /\ Day \in Nat \ {0}
                         /\ Hour % Interval = 0 /\ Day % Hour = 0
ASSUME DaysAssumption == Days \in [Seeder -> Nat]

VARIABLES config, server, version, crashes  \* see Startup
VARIABLES step, end, fixtures, rows         \* see Seed
VARIABLES tables, clock                     \* shared
VARIABLES poller,                           \* where the poller is: "select", "cycle" or "asleep"
          factor,                           \* its backoff's
          asleep,                           \* how long it will sleep yet
          polls                             \* how many cycles succeeded

Server == INSTANCE Startup
Seeds == INSTANCE Seed

serverOnly == <<config, server, version, crashes>>
seedOnly == <<step, end, fixtures>>
pollerOnly == <<poller, factor, asleep, polls>>
vars == <<serverOnly, seedOnly, rows, tables, clock, pollerOnly>>


Init == /\ Server!Init /\ Seeds!Init
        /\ clock = FirstClock /\ poller = "select" /\ factor = 0 /\ asleep = 0 /\ polls = 0
-----------------------------------------------------------------------------
\* A process that ends takes its poller with it; the next begins with a new backoff.
NewPoller == poller' = "select" /\ factor' = 0 /\ asleep' = 0

Up == Server!Next /\ NewPoller /\ UNCHANGED <<seedOnly, rows, clock, polls>>

Seeding(s) == Seeds!Seeding(s) /\ UNCHANGED <<serverOnly, tables, clock, pollerOnly>>

Tick == /\ clock < MaxClock
        /\ clock' = clock + 1
        /\ UNCHANGED <<serverOnly, seedOnly, rows, tables, pollerOnly>>
-----------------------------------------------------------------------------
(* The poller of a server that serves.                                     *)

\* It receives a tick.
Receive == /\ server = "serving" /\ poller = "select"
           /\ polls < MaxPolls
           /\ poller' = "cycle"
           /\ UNCHANGED <<factor, asleep, polls, rows>>

\* The rows a cycle can leave: a reading, and a battery row unless that insert
\* failed; ON CONFLICT DO NOTHING if they are there.
Saved(t) == {{Seeds!Reading(t)}, {Seeds!Reading(t), Seeds!BatteryStatus(t)}}

\* Until the seed command has registered the fake device every insert violates the
\* foreign key.
CycleSucceeds == /\ poller = "cycle" /\ "device" \in fixtures
                 /\ \E new \in Saved(clock) : rows' = rows \cup new
                 /\ poller' = "select" /\ factor' = 0 /\ polls' = polls + 1
                 /\ UNCHANGED asleep

Delay == IF 2^factor < MaxDelay THEN 2^factor ELSE MaxDelay

\* Mutant: RunPoller returns the error of a cycle
CycleFailsForGood == /\ poller = "cycle"
                     /\ poller' = "returned"
                     /\ UNCHANGED <<factor, asleep, polls, rows>>

\* The call to the provider or the insert fails, the latter maybe after its commit.
\* The factor is counted up to the one whose delay is the longest; later on the
\* product wraps around, and a sleep may be skipped (see Backoff).
CycleFails == /\ poller = "cycle"
              /\ \/ UNCHANGED rows
                 \/ "device" \in fixtures /\ rows' = rows \cup {Seeds!Reading(clock)}
              /\ poller' = "asleep"
              /\ asleep' \in IF Delay < MaxDelay THEN {Delay} ELSE {MaxDelay, 0}
              /\ factor' = IF Delay < MaxDelay THEN factor + 1 ELSE factor
              /\ UNCHANGED polls

Sleep == /\ poller = "asleep" /\ asleep > 0
         /\ asleep' = asleep - 1
         /\ UNCHANGED <<poller, factor, polls, rows>>

Wake == /\ poller = "asleep" /\ asleep = 0
        /\ poller' = "select"
        /\ UNCHANGED <<factor, asleep, polls, rows>>

Poller == Receive \/ CycleSucceeds \/ CycleFails \/ Sleep \/ Wake

Others == <<serverOnly, seedOnly, tables, clock>>

Polling == Poller /\ UNCHANGED Others
-----------------------------------------------------------------------------
Next == Up \/ Tick \/ Polling \/ \E s \in Seeder : Seeding(s)

Spec == Init /\ [][Next]_vars

Still == NewPoller /\ UNCHANGED <<seedOnly, rows, clock, polls>>

\* The process and docker compose go on; what fails or kills a start does not come
\* between for ever.  The ticker ticks, calls return, sleeps end, and of the calls of
\* infinitely many cycles whose device is known not all fail.  Nobody has to run the
\* seed command.
FairSpec == /\ Spec
            /\ WF_vars(Server!Main /\ Still)
            /\ SF_vars(Server!Load /\ Still) /\ SF_vars(Server!Ping /\ Still)
            /\ SF_vars(Server!Behind /\ Still) /\ SF_vars(Server!NoChange /\ Still)
            /\ SF_vars(Server!Migrate /\ Still) /\ SF_vars(Server!Listen /\ Still)
            /\ WF_vars(Polling)
            /\ SF_vars(CycleSucceeds /\ UNCHANGED Others)
-----------------------------------------------------------------------------
(* Properties.                                                             *)

ServedSchemaIsComplete == Server!ServedSchemaIsComplete
SeededChartHasNoHole == Seeds!SeededChartHasNoHole
BatteryRowsJoin == Seeds!BatteryRowsJoin
NoRowFromTheFuture == Seeds!NoRowFromTheFuture

\* Why a server may never come up: an environment that nobody corrects, or a
\* migration that was interrupted, which nothing in the repository repairs
Broken == config # "good" \/ version = "dirty"

\* However often it is killed, the server serves in the end - also a database that
\* is migrated already -, but for an environment or a schema it cannot use.
ServerServes == <>[](server = "serving" \/ Broken)

\* The dashboard comes to life: once the seed command has registered its device a
\* cycle succeeds, however many have failed since the server came up and however long
\* the poller is asleep, even if that run of the command or the server dies right after.
PollsResume == "device" \in fixtures ~> (polls > 0 \/ Broken)

\* The inductive invariants of the safety properties: of the server, ...
ServerInv == Server!TypeOK /\ Server!SchemaOK

\* ... and of the command, the poller and the clock
SeedType == Seeds!TypeOK /\ clock \in Nat
SeedInv == /\ SeedType
           /\ \A s \in Seeder : Seeds!SeededOK(s)
           /\ BatteryRowsJoin /\ NoRowFromTheFuture
=============================================================================

------------------------------ MODULE Startup ------------------------------
(***************************************************************************)
(* How the server comes up: main() of backend/cmd/server/main.go as far as *)
(* the listener, under a docker-compose.yml that starts it again whenever  *)
(* it ends.  "server" is the call main waits for.  A call can fail, and a  *)
(* process can die in the middle of it, after which a statement it had sent*)
(* may be committed nevertheless; golang-migrate's lock keeps the next     *)
(* process from looking before that is decided.                            *)
(***************************************************************************)
EXTENDS Naturals

CONSTANT MaxCrashes  \* bound: how often a serving process is killed

VARIABLES
  config,   \* what Load makes of the environment
  server,   \* where main is
  version,  \* the row of schema_migrations: "none", "dirty" or "clean"
  tables,   \* the tables of 001_initial_schema.up.sql exist
  crashes   \* times a serving process was killed

schema == <<version, tables>>
vars == <<config, server, schema, crashes>>

\* Load returns an error or panics ("rejected"), accepts the environment though
\* POLL_INTERVAL_SECONDS is no positive number of nanoseconds ("nonPositive"), or
\* accepts it ("good").
Config == {"rejected", "nonPositive", "good"}
Starting == {"load", "ping", "version", "markDirty", "file", "markClean", "listen"}

Init == /\ config \in Config
        /\ server = "down"
        /\ version = "none" /\ tables = FALSE
        /\ crashes = 0

\* main goes on from one call to the next.
Goto(from, to) == /\ server = from /\ server' = to
                  /\ UNCHANGED <<config, crashes>>
-----------------------------------------------------------------------------
\* restart: unless-stopped
Launch == Goto("down", "load") /\ UNCHANGED schema

\* config.Load
Load == config # "rejected" /\ Goto("load", "ping") /\ UNCHANGED schema

\* pgxpool.New, db.Ping and migrate.New
Ping == Goto("ping", "version") /\ UNCHANGED schema

\* m.Up finds the schema as it was before the only migration, ...
Behind == version = "none" /\ Goto("version", "markDirty") /\ UNCHANGED schema

\* Mutant: ErrNoChange is an error like any other
NoChangeFails == version = "clean" /\ Goto("version", "down") /\ UNCHANGED schema

\* ... or finds nothing to do: ErrNoChange is no failure.
NoChange == version = "clean" /\ Goto("version", "listen") /\ UNCHANGED schema

\* What the three statements of a migration do.  The file is sent as one query,
\* that is in one transaction, and its CREATE TABLEs know no IF NOT EXISTS.
MarkDirty == version' = "dirty" /\ UNCHANGED tables
RunFile == ~tables /\ tables' = TRUE /\ UNCHANGED version
MarkClean == version' = "clean" /\ UNCHANGED tables

Migrate == \/ Goto("markDirty", "file") /\ MarkDirty
           \/ Goto("file", "markClean") /\ RunFile
           \/ Goto("markClean", "listen") /\ MarkClean

\* Mutant: a failed m.Up() is logged, and main goes on
ExitUnlessMigrating ==
  /\ server \in Starting
  /\ \/ UNCHANGED schema
     \/ server = "markDirty" /\ MarkDirty
     \/ server = "file" /\ RunFile
     \/ server = "markClean" /\ MarkClean
  /\ server' = IF server \in {"load", "ping", "listen"} THEN "down" ELSE "listen"
  /\ UNCHANGED <<config, crashes>>

\* The call fails, its answer is lost, or the process dies in it: os.Exit(1).
\* At "load" and "listen" this is also the panic of requireEnv or of NewTicker, at
\* "version" the ErrDirty of a migration that was not finished.
Exit ==
  /\ server \in Starting
  /\ \/ UNCHANGED schema
     \/ server = "markDirty" /\ MarkDirty
     \/ server = "file" /\ RunFile
     \/ server = "markClean" /\ MarkClean
  /\ server' = "down"
  /\ UNCHANGED <<config, crashes>>

\* NewTicker, BuildProviders and ListenAndServe
Listen == config = "good" /\ Goto("listen", "serving") /\ UNCHANGED schema

Crash == /\ server = "serving" /\ crashes < MaxCrashes
         /\ server' = "down" /\ crashes' = crashes + 1
         /\ UNCHANGED <<config, schema>>

Main == Launch \/ Load \/ Ping \/ Behind \/ NoChange \/ Migrate \/ Exit \/ Listen

Next == Main \/ Crash

Spec == Init /\ [][Next]_vars

\* GET /ready answers 200: there is a listener, and the database answers.
Ready == server = "serving"
-----------------------------------------------------------------------------
(* Properties.                                                             *)

\* Every variable has its type.
TypeOK == /\ config \in Config
          /\ server \in Starting \cup {"down", "serving"}
          /\ version \in {"none", "dirty", "clean"} /\ tables \in BOOLEAN
          /\ crashes \in 0..MaxCrashes

\* What the steps of main have achieved where it stands
SchemaOK == /\ version = "clean" => tables
            /\ server = "markDirty" => version = "none"
            /\ server = "file" => version = "dirty"
            /\ server = "markClean" => version = "dirty" /\ tables
            /\ server \in {"listen", "serving"} => version = "clean"

\* A server that tells docker compose it is ready has all its tables, however
\* often it failed or was killed while it migrated: what was left half done is
\* never taken for done (main.go:51-54; Ready itself only pings, handler.go:121).
ServedSchemaIsComplete == Ready => tables /\ version = "clean"
=============================================================================

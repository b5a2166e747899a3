----------------------------- MODULE ReadingLog -----------------------------
(***************************************************************************)
(* What the server promises of its readings, with no goroutines, no calls  *)
(* that fail and no restarts: rows are stored one by one, a battery status *)
(* only with the latest reading of its device, and what is announced is    *)
(* the latest reading of its device at that moment.  A reading may never   *)
(* be announced, but none is announced late, twice or out of order.        *)
(***************************************************************************)
EXTENDS Naturals, Sequences

CONSTANT Device

VARIABLES clock,     \* the last timestamp handed out
          stored,    \* the rows of power_readings and battery_status
          announced  \* the events, in the order they were published in

logVars == <<clock, stored, announced>>

Reading(d, t) == [table |-> "power_readings", device |-> d, at |-> t]
BatteryStatus(d, t) == [table |-> "battery_status", device |-> d, at |-> t]

\* d has a reading of time t, and no row of a later time.
Latest(d, t) == /\ Reading(d, t) \in stored
                /\ \A r \in stored : r.device = d => r.at <= t

LogInit == clock = 0 /\ stored = {} /\ announced = <<>>

Pass == clock' = clock + 1 /\ UNCHANGED <<stored, announced>>

StoreReading(d, t) == /\ \A r \in stored : r.device = d => r.at < t
                      /\ stored' = stored \cup {Reading(d, t)}
                      /\ UNCHANGED <<clock, announced>>

StoreBattery(d, t) == /\ Latest(d, t)
                      /\ BatteryStatus(d, t) \notin stored
                      /\ stored' = stored \cup {BatteryStatus(d, t)}
                      /\ UNCHANGED <<clock, announced>>

Announce(d, t, charged) ==
  /\ Latest(d, t)
  /\ charged => BatteryStatus(d, t) \in stored
  /\ \A n \in 1..Len(announced) : announced[n].device = d => announced[n].at < t
  /\ announced' = Append(announced, [device |-> d, at |-> t, charged |-> charged])
  /\ UNCHANGED <<clock, stored>>

LogNext == \/ Pass
           \/ \E d \in Device, t \in 0..clock :
                \/ StoreReading(d, t) \/ StoreBattery(d, t)
                \/ \E charged \in BOOLEAN : Announce(d, t, charged)

LogSpec == LogInit /\ [][LogNext]_logVars
=============================================================================

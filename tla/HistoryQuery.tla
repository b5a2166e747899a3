--------------------------- MODULE HistoryQuery ---------------------------
(***************************************************************************)
(* The rows of one device and the query behind its history chart:          *)
(* GetHistory of power_service.go over GetAggregatedReadings of            *)
(* reading_repository.go.  A bucket is the time it begins with; what the   *)
(* averages and sums in it are is left out.                                *)
(***************************************************************************)
EXTENDS Integers

CONSTANTS Hour, Day  \* the units the charts ask for; week and month are alike

Reading(t) == [table |-> "power_readings", at |-> t]
BatteryStatus(t) == [table |-> "battery_status", at |-> t]

Unit == {Hour, Day}

\* DATE_TRUNC(unit, t), in UTC
DateTrunc(unit, t) == t - (t % unit)

\* SELECT ... WHERE reading_timestamp BETWEEN start AND end GROUP BY bucket
GetAggregatedReadings(rows, unit, start, end) ==
  {DateTrunc(unit, r.at) : r \in {q \in rows : /\ q.table = "power_readings"
                                               /\ q.at \in start..end}}

\* An interval of another name is an error, which the handler answers with 500.
GetHistory(rows, unit, start, end) ==
  IF unit \in Unit THEN [status |-> 200, buckets |-> GetAggregatedReadings(rows, unit, start, end)]
                   ELSE [status |-> 500, buckets |-> {}]
=============================================================================

------------------------------ MODULE Backoff ------------------------------
(***************************************************************************)
(* The backoff of backend/internal/service/ingestion_service.go with the   *)
(* arithmetic it is compiled to: time.Duration is an int64 that counts     *)
(* nanoseconds, and time.Duration(math.Pow(2, factor)) * min is a          *)
(* conversion from float64 followed by a multiplication that wraps around. *)
(* A duration is the four 16-bit digits of its two's complement, the least *)
(* significant first, as TLC's own integers are too narrow for it.         *)
(***************************************************************************)
EXTENDS Naturals, Sequences

CONSTANT MaxFailures  \* bound: failed cycles in a row

ASSUME MaxFailuresAssumption == MaxFailures \in Nat

VARIABLES cur,     \* backoff.cur
          factor,  \* backoff.factor
          slept    \* the durations the poller slept since its last success

vars == <<cur, factor, slept>>

Base == 65536
Zero == <<0, 0, 0, 0>>

Negative(x) == x[4] >= Base \div 2

\* x < y for x and y that are not negative
Less(x, y) == \E i \in 1..4 : x[i] < y[i] /\ \A j \in i + 1 .. 4 : x[j] = y[j]

\* The low 64 bits of k * x, for a factor k of at most 2^14
Times(k, x) ==
  LET carry[i \in 0..4] == IF i = 0 THEN 0 ELSE (k * x[i] + carry[i - 1]) \div Base
  IN [i \in 1..4 |-> (k * x[i] + carry[i - 1]) % Base]

\* The low 64 bits of -x
Negate(x) ==
  LET carry[i \in 0..4] == IF i = 0 THEN 1 ELSE (Base - 1 - x[i] + carry[i - 1]) \div Base
  IN [i \in 1..4 |-> (Base - 1 - x[i] + carry[i - 1]) % Base]

Second == <<51712, 15258, 0, 0>>  \* 1 000 000 000 ns
min == Second
max == Times(300, Second)

\* The low 64 bits of 2^n * min
Shifted[n \in Nat] == IF n = 0 THEN min ELSE Times(2, Shifted[n - 1])

\* 2^63 and above is no int64: the conversion then yields the smallest int64 on
\* amd64 and the largest on arm64, and times min, which is even, that is 0 or -min.
Products == IF factor < 63 THEN {Shifted[factor]} ELSE {Zero, Negate(min)}

\* Mutant: the cap forgotten
Uncapped(next) == next

Capped(next) == IF ~Negative(next) /\ Less(max, next) THEN max ELSE next

\* newBackoff(time.Second, 5*time.Minute)
Init == cur = min /\ factor = 0 /\ slept = <<>>

\* The cycle failed or panicked: sleep for what increase returns.
Fail ==
  /\ factor < MaxFailures
  /\ \E next \in Products : /\ cur' = Capped(next)
                            /\ slept' = Append(slept, Capped(next))
  /\ factor' = factor + 1

\* Mutant: a reset that restores cur only
SucceedKeepsFactor ==
  /\ cur' = min
  /\ slept' = <<>>
  /\ UNCHANGED factor

\* The cycle succeeded: reset
Succeed ==
  /\ cur' = min /\ factor' = 0
  /\ slept' = <<>>

Next == Fail \/ Succeed

Spec == Init /\ [][Next]_vars
-----------------------------------------------------------------------------
(* Properties.                                                             *)

\* The schedule the comments give, in seconds: 1, 2, 4, ..., 256, 300, 300, ...
Schedule(n) == IF n <= 9 THEN <<1, 2, 4, 8, 16, 32, 64, 128, 256>>[n] ELSE 300

\* The first 34 failed cycles in a row sleep as scheduled, after any number of
\* runs of failures before (ingestion_service.go:27, 143-145): about 2.2 hours of
\* sleep, before the multiplication wraps around.
SleepsOnSchedule ==
  \A n \in 1..Len(slept) : n <= 34 => slept[n] = Times(Schedule(n), Second)

\* Wrapped around or not, no sleep is longer than five minutes.
NeverLongerThanMax ==
  \A n \in 1..Len(slept) : Negative(slept[n]) \/ ~Less(max, slept[n])
-----------------------------------------------------------------------------
(* What the comments say and the code does not do.                         *)

\* "exponential backoff with a cap ... 1s -> 2s -> 4s -> 8s -> ... -> 5min"
\* (ingestion_service.go:143-145): no failed cycle is followed by a sleep of less
\* than a second.  time.Sleep returns at once when its argument is not positive.
NeverShorterThanMin ==
  \A n \in 1..Len(slept) : ~Negative(slept[n]) /\ ~Less(slept[n], min)
=============================================================================

---------------------------- MODULE BackoffProofs ----------------------------
(***************************************************************************)
(* What Backoff guarantees, for any number of failures: the cap whatever   *)
(* the multiplication yields, the schedule up to the 34th failure in a     *)
(* row, and what the 35th does.                                            *)
(***************************************************************************)
EXTENDS Backoff, TLAPS, SequenceTheorems, WellFoundedInduction

-----------------------------------------------------------------------------
(* The multiplication.                                                     *)

\* What Times computes, digit by digit
LEMMA TimesDigits ==
  ASSUME NEW k \in Nat, NEW x1 \in Nat, NEW x2 \in Nat, NEW x3 \in Nat, NEW x4 \in Nat
  PROVE  LET c1 == (k * x1) \div Base
             c2 == (k * x2 + c1) \div Base
             c3 == (k * x3 + c2) \div Base
         IN  Times(k, <<x1, x2, x3, x4>>)
               = <<(k * x1) % Base, (k * x2 + c1) % Base,
                   (k * x3 + c2) % Base, (k * x4 + c3) % Base>>
<1> DEFINE x == <<x1, x2, x3, x4>>
           c1 == (k * x1) \div Base
           c2 == (k * x2 + c1) \div Base
           c3 == (k * x3 + c2) \div Base
           c4 == (k * x4 + c3) \div Base
           IsCarry(g) == g = [i \in 0..4 |-> IF i = 0 THEN 0 ELSE (k * x[i] + g[i - 1]) \div Base]
           carry == CHOOSE g : IsCarry(g)
           steps == [i \in 0..4 |-> CASE i = 0 -> 0 [] i = 1 -> c1 [] i = 2 -> c2 [] i = 3 -> c3
                                      [] OTHER -> c4]
<1>1. /\ k * x1 \in Nat /\ k * x2 \in Nat /\ k * x3 \in Nat /\ k * x4 \in Nat
      /\ k * x1 + 0 = k * x1
  OBVIOUS
<1>2. IsCarry(steps)
  <2>1. \A i \in 0..4 : steps[i] = IF i = 0 THEN 0 ELSE (k * x[i] + steps[i - 1]) \div Base
    <3> HIDE DEF c1, c2, c3, c4
    <3>1. /\ steps[0] = 0 /\ steps[1] = c1 /\ steps[2] = c2 /\ steps[3] = c3 /\ steps[4] = c4
      OBVIOUS
    <3> HIDE DEF steps
    <3> QED
      BY <1>1, <3>1 DEF c1, c2, c3, c4
  <2> QED
    BY <2>1
<1>3. Times(k, x) = [i \in 1..4 |-> (k * x[i] + carry[i - 1]) % Base]
  BY DEF Times
<1>4. IsCarry(carry)
  BY <1>2
<1> HIDE DEF steps, carry
<1>5. /\ carry[0] = 0
      /\ carry[1] = (k * x1 + carry[0]) \div Base
      /\ carry[2] = (k * x2 + carry[1]) \div Base
      /\ carry[3] = (k * x3 + carry[2]) \div Base
  BY <1>4
<1>6. carry[0] = 0 /\ carry[1] = c1 /\ carry[2] = c2 /\ carry[3] = c3
  BY <1>1, <1>5
<1> HIDE DEF c1, c2, c3, c4
<1>7. Times(k, x) = <<(k * x1 + carry[0]) % Base, (k * x2 + carry[1]) % Base,
                      (k * x3 + carry[2]) % Base, (k * x4 + carry[3]) % Base>>
  BY <1>3
<1> QED
  BY <1>1, <1>6, <1>7 DEF c1, c2, c3

\* Five minutes in nanoseconds: 69 * 65536^2 + 55652 * 65536 + 47104
LEMMA MaxDigits == max = <<47104, 55652, 69, 0>>
BY TimesDigits DEF max, Second, Base

-----------------------------------------------------------------------------
(* The recursion: that a function with the defining equation of Shifted    *)
(* exists is proved by induction on the length of its beginnings.          *)

Below == {mn \in Nat \X Nat : mn[1] < mn[2]}

LEMMA BelowWellFounded == IsWellFoundedOn(Below, Nat)
BY NatLessThanWellFounded DEF Below, OpToRel

\* Induction for a set of numbers
LEMMA SetInduction ==
  ASSUME NEW T, 0 \in T, \A n \in Nat : n \in T => n + 1 \in T
  PROVE  Nat \subseteq T
<1> SUFFICES ASSUME Nat \ T # {} PROVE FALSE
  OBVIOUS
<1> DEFINE U == Nat \ T
<1>1. PICK n \in U : \A m \in U : <<m, n>> \notin Below
  <2>1. U \subseteq Nat /\ U # {}
    OBVIOUS
  <2> HIDE DEF U
  <2> QED
    BY <2>1, BelowWellFounded, WFMin
<1>2. n \in Nat /\ n # 0 /\ n - 1 \in Nat /\ n - 1 < n
  OBVIOUS
<1>3. n - 1 \notin U
  BY <1>1, <1>2 DEF Below
<1> QED
  BY <1>2, <1>3

\* The first n + 1 values of Shifted
Beginning(n, g) ==
  /\ DOMAIN g = 0..n
  /\ g[0] = min
  /\ \A i \in 1..n : g[i] = Times(2, g[i - 1])

LEMMA BeginningsExist == \A n \in Nat : \E g : Beginning(n, g)
<1> DEFINE T == {n \in Nat : \E g : Beginning(n, g)}
<1>1. 0 \in T
  <2>1. Beginning(0, [i \in 0..0 |-> min])
    BY DEF Beginning
  <2> QED
    BY <2>1
<1>2. ASSUME NEW n \in Nat, n \in T PROVE n + 1 \in T
  <2>1. PICK g : Beginning(n, g)
    BY <1>2
  <2> DEFINE h == [i \in 0..n + 1 |-> IF i <= n THEN g[i] ELSE Times(2, g[n])]
  <2>2. DOMAIN h = 0..n + 1 /\ h[0] = g[0]
    OBVIOUS
  <2>3. ASSUME NEW i \in 1..n + 1 PROVE h[i] = Times(2, h[i - 1])
    <3>1. CASE i <= n
      BY <2>1, <3>1 DEF Beginning
    <3>2. CASE i = n + 1
      BY <3>2
    <3> QED
      BY <3>1, <3>2
  <2> HIDE DEF h
  <2>4. Beginning(n + 1, h)
    BY <2>1, <2>2, <2>3 DEF Beginning
  <2> QED
    BY <2>4
<1> HIDE DEF T
<1>3. Nat \subseteq T
  BY <1>1, <1>2, SetInduction
<1> QED
  BY <1>3 DEF T

\* Two beginnings agree where both are defined.
LEMMA BeginningsAgree ==
  \A i \in Nat : \A m, n \in Nat : \A g, h :
    i <= m /\ i <= n /\ Beginning(m, g) /\ Beginning(n, h) => g[i] = h[i]
<1> DEFINE Agree(i) == \A m, n \in Nat : \A g, h :
                         i <= m /\ i <= n /\ Beginning(m, g) /\ Beginning(n, h) => g[i] = h[i]
           T == {i \in Nat : Agree(i)}
<1>1. 0 \in T
  BY DEF Beginning
<1>2. ASSUME NEW i \in Nat, i \in T PROVE i + 1 \in T
  <2> SUFFICES ASSUME NEW m \in Nat, NEW n \in Nat, NEW g, NEW h,
                      i + 1 <= m, i + 1 <= n, Beginning(m, g), Beginning(n, h)
               PROVE  g[i + 1] = h[i + 1]
    OBVIOUS
  <2>1. g[i] = h[i]
    BY <1>2
  <2>2. g[i + 1] = Times(2, g[i]) /\ h[i + 1] = Times(2, h[i])
    <3>1. i + 1 \in 1..m /\ i + 1 \in 1..n /\ (i + 1) - 1 = i
      OBVIOUS
    <3> QED
      BY <3>1 DEF Beginning
  <2> QED
    BY <2>1, <2>2
<1> HIDE DEF T
<1>3. Nat \subseteq T
  BY <1>1, <1>2, SetInduction
<1> QED
  BY <1>3 DEF T

LEMMA ShiftedRecursion ==
  /\ Shifted[0] = min
  /\ \A m, n \in Nat : m = n + 1 => Shifted[m] = Times(2, Shifted[n])
<1> DEFINE IsShifted(g) == g = [n \in Nat |-> IF n = 0 THEN min ELSE Times(2, g[n - 1])]
           first(n) == CHOOSE g : Beginning(n, g)
           all == [n \in Nat |-> first(n)[n]]
<1>1. \A n \in Nat : Beginning(n, first(n))
  BY BeginningsExist
<1> HIDE DEF first
<1>2. IsShifted(all)
  <2>1. ASSUME NEW n \in Nat
        PROVE  all[n] = IF n = 0 THEN min ELSE Times(2, all[n - 1])
    <3>1. CASE n = 0
      BY <1>1, <3>1 DEF Beginning
    <3>2. CASE n # 0
      <4>1. n - 1 \in Nat /\ n - 1 <= n /\ n \in 1..n
        BY <3>2
      <4>2. first(n)[n] = Times(2, first(n)[n - 1])
        BY <1>1, <4>1 DEF Beginning
      <4>3. first(n)[n - 1] = first(n - 1)[n - 1]
        BY <1>1, <4>1, BeginningsAgree
      <4> QED
        BY <3>2, <4>1, <4>2, <4>3
    <3> QED
      BY <3>1, <3>2
  <2> HIDE DEF first
  <2>2. all = [n \in Nat |-> all[n]]
    OBVIOUS
  <2> HIDE DEF all
  <2> QED
    BY <2>1, <2>2
<1> HIDE DEF all
<1>3. Shifted = CHOOSE g : IsShifted(g)
  BY DEF Shifted
<1>4. IsShifted(Shifted)
  BY <1>2, <1>3
<1>5. Shifted[0] = min
  BY <1>4
<1>6. ASSUME NEW n \in Nat PROVE Shifted[n + 1] = Times(2, Shifted[n])
  BY <1>4
<1> QED
  BY <1>5, <1>6

\* Twice a number of four digits
LEMMA Twice ==
  ASSUME NEW x1 \in Nat, NEW x2 \in Nat, NEW x3 \in Nat, NEW x4 \in Nat
  PROVE  LET c1 == (2 * x1) \div 65536
             c2 == (2 * x2 + c1) \div 65536
             c3 == (2 * x3 + c2) \div 65536
         IN  Times(2, <<x1, x2, x3, x4>>)
               = <<(2 * x1) % 65536, (2 * x2 + c1) % 65536,
                   (2 * x3 + c2) % 65536, (2 * x4 + c3) % 65536>>
BY TimesDigits DEF Base

\* 2^k seconds in nanoseconds, for k from 0 to 34
Delay == <<
  <<51712, 15258, 0, 0>>,
  <<37888, 30517, 0, 0>>,
  <<10240, 61035, 0, 0>>,
  <<20480, 56534, 1, 0>>,
  <<40960, 47532, 3, 0>>,
  <<16384, 29529, 7, 0>>,
  <<32768, 59058, 14, 0>>,
  <<0, 52581, 29, 0>>,
  <<0, 39626, 59, 0>>,
  <<0, 13716, 119, 0>>,
  <<0, 27432, 238, 0>>,
  <<0, 54864, 476, 0>>,
  <<0, 44192, 953, 0>>,
  <<0, 22848, 1907, 0>>,
  <<0, 45696, 3814, 0>>,
  <<0, 25856, 7629, 0>>,
  <<0, 51712, 15258, 0>>,
  <<0, 37888, 30517, 0>>,
  <<0, 10240, 61035, 0>>,
  <<0, 20480, 56534, 1>>,
  <<0, 40960, 47532, 3>>,
  <<0, 16384, 29529, 7>>,
  <<0, 32768, 59058, 14>>,
  <<0, 0, 52581, 29>>,
  <<0, 0, 39626, 59>>,
  <<0, 0, 13716, 119>>,
  <<0, 0, 27432, 238>>,
  <<0, 0, 54864, 476>>,
  <<0, 0, 44192, 953>>,
  <<0, 0, 22848, 1907>>,
  <<0, 0, 45696, 3814>>,
  <<0, 0, 25856, 7629>>,
  <<0, 0, 51712, 15258>>,
  <<0, 0, 37888, 30517>>,
  <<0, 0, 10240, 61035>>>>

LEMMA DelaysDouble == \A k \in 1..34 : Times(2, Delay[k]) = Delay[k + 1]
<1>1. Times(2, Delay[1]) = Delay[2]
  BY Twice DEF Delay
<1>2. Times(2, Delay[2]) = Delay[3]
  BY Twice DEF Delay
<1>3. Times(2, Delay[3]) = Delay[4]
  BY Twice DEF Delay
<1>4. Times(2, Delay[4]) = Delay[5]
  BY Twice DEF Delay
<1>5. Times(2, Delay[5]) = Delay[6]
  BY Twice DEF Delay
<1>6. Times(2, Delay[6]) = Delay[7]
  BY Twice DEF Delay
<1>7. Times(2, Delay[7]) = Delay[8]
  BY Twice DEF Delay
<1>8. Times(2, Delay[8]) = Delay[9]
  BY Twice DEF Delay
<1>9. Times(2, Delay[9]) = Delay[10]
  BY Twice DEF Delay
<1>10. Times(2, Delay[10]) = Delay[11]
  BY Twice DEF Delay
<1>11. Times(2, Delay[11]) = Delay[12]
  BY Twice DEF Delay
<1>12. Times(2, Delay[12]) = Delay[13]
  BY Twice DEF Delay
<1>13. Times(2, Delay[13]) = Delay[14]
  BY Twice DEF Delay
<1>14. Times(2, Delay[14]) = Delay[15]
  BY Twice DEF Delay
<1>15. Times(2, Delay[15]) = Delay[16]
  BY Twice DEF Delay
<1>16. Times(2, Delay[16]) = Delay[17]
  BY Twice DEF Delay
<1>17. Times(2, Delay[17]) = Delay[18]
  BY Twice DEF Delay
<1>18. Times(2, Delay[18]) = Delay[19]
  BY Twice DEF Delay
<1>19. Times(2, Delay[19]) = Delay[20]
  BY Twice DEF Delay
<1>20. Times(2, Delay[20]) = Delay[21]
  BY Twice DEF Delay
<1>21. Times(2, Delay[21]) = Delay[22]
  BY Twice DEF Delay
<1>22. Times(2, Delay[22]) = Delay[23]
  BY Twice DEF Delay
<1>23. Times(2, Delay[23]) = Delay[24]
  BY Twice DEF Delay
<1>24. Times(2, Delay[24]) = Delay[25]
  BY Twice DEF Delay
<1>25. Times(2, Delay[25]) = Delay[26]
  BY Twice DEF Delay
<1>26. Times(2, Delay[26]) = Delay[27]
  BY Twice DEF Delay
<1>27. Times(2, Delay[27]) = Delay[28]
  BY Twice DEF Delay
<1>28. Times(2, Delay[28]) = Delay[29]
  BY Twice DEF Delay
<1>29. Times(2, Delay[29]) = Delay[30]
  BY Twice DEF Delay
<1>30. Times(2, Delay[30]) = Delay[31]
  BY Twice DEF Delay
<1>31. Times(2, Delay[31]) = Delay[32]
  BY Twice DEF Delay
<1>32. Times(2, Delay[32]) = Delay[33]
  BY Twice DEF Delay
<1>33. Times(2, Delay[33]) = Delay[34]
  BY Twice DEF Delay
<1>34. Times(2, Delay[34]) = Delay[35]
  BY Twice DEF Delay
<1> QED
  BY <1>1, <1>2, <1>3, <1>4, <1>5, <1>6, <1>7, <1>8, <1>9, <1>10, <1>11, <1>12,
     <1>13, <1>14, <1>15, <1>16, <1>17, <1>18, <1>19, <1>20, <1>21, <1>22, <1>23, <1>24,
     <1>25, <1>26, <1>27, <1>28, <1>29, <1>30, <1>31, <1>32, <1>33, <1>34

\* The first 35 products are these delays: none of them wrapped around but the last.
LEMMA Delays == \A n \in 0..34 : Shifted[n] = Delay[n + 1]
<1> DEFINE T == {n \in Nat : n <= 34 => Shifted[n] = Delay[n + 1]}
<1>1. 0 \in T
  <2>1. Delay[1] = min
    BY DEF Delay, min, Second
  <2>2. Shifted[0] = min
    BY ShiftedRecursion
  <2> HIDE DEF Delay
  <2> QED
    BY <2>1, <2>2
<1>2. ASSUME NEW n \in Nat, n \in T PROVE n + 1 \in T
  BY <1>2, DelaysDouble, ShiftedRecursion
<1> HIDE DEF T
<1>3. Nat \subseteq T
  BY <1>1, <1>2, SetInduction
<1> QED
  BY <1>3 DEF T

-----------------------------------------------------------------------------
(* The cap.                                                                *)

\* A duration the cap lets through
Short(d) == Negative(d) \/ ~Less(max, d)

\* The cap itself is not longer than the cap.
LEMMA MaxIsShort == Short(max)
BY MaxDigits DEF Short, Less

\* Whatever the product, what increase returns is negative or at most the cap.
LEMMA CappedIsShort == \A next : Short(Capped(next))
BY MaxIsShort DEF Capped, Short

\* The inductive invariant: all the sleeps are short.
SleepsShort == \E D : slept \in Seq(D) /\ \A d \in D : Short(d)

LEMMA SleepsNext == SleepsShort /\ [Next]_vars => SleepsShort'
<1> SUFFICES ASSUME SleepsShort, [Next]_vars PROVE SleepsShort'
  OBVIOUS
<1>1. PICK D : slept \in Seq(D) /\ \A d \in D : Short(d)
  BY DEF SleepsShort
<1>2. CASE Fail
  <2>1. PICK next : slept' = Append(slept, Capped(next))
    BY <1>2 DEF Fail
  <2>2. slept' \in Seq(D \cup {Capped(next)})
    BY <1>1, <2>1
  <2>3. \A d \in D \cup {Capped(next)} : Short(d)
    BY <1>1, CappedIsShort
  <2> QED
    BY <2>2, <2>3 DEF SleepsShort
<1>3. CASE Succeed
  <2>1. slept' = <<>> /\ <<>> \in Seq({})
    BY <1>3, EmptySeq DEF Succeed
  <2> QED
    BY <2>1 DEF SleepsShort
<1>4. CASE UNCHANGED vars
  BY <1>1, <1>4 DEF SleepsShort, vars
<1> QED
  BY <1>2, <1>3, <1>4 DEF Next

\* Wrapped around or not, no sleep is longer than five minutes
\* (ingestion_service.go:143-145).
THEOREM Cap == Spec => []NeverLongerThanMax
<1>1. Init => SleepsShort
  <2>1. <<>> \in Seq({})
    BY EmptySeq
  <2> QED
    BY <2>1 DEF Init, SleepsShort
<1>2. SleepsShort => NeverLongerThanMax
  <2> SUFFICES ASSUME SleepsShort PROVE \A n \in 1..Len(slept) : Short(slept[n])
    BY DEF NeverLongerThanMax, Short
  <2>1. PICK D : slept \in Seq(D) /\ \A d \in D : Short(d)
    BY DEF SleepsShort
  <2> QED
    BY <2>1, ElementOfSeq
<1> QED
  BY <1>1, <1>2, SleepsNext, PTL DEF Spec
-----------------------------------------------------------------------------
(* The schedule.                                                           *)

\* The first nine delays are the scheduled ones and pass the cap.
LEMMA EarlyDelays ==
  \A k \in 1..9 : Delay[k] = Times(Schedule(k), Second) /\ ~Less(max, Delay[k])
<1>1. Delay[1] = Times(1, Second)
  BY TimesDigits DEF Delay, Second, Base
<1>2. Delay[2] = Times(2, Second)
  BY TimesDigits DEF Delay, Second, Base
<1>3. Delay[3] = Times(4, Second)
  BY TimesDigits DEF Delay, Second, Base
<1>4. Delay[4] = Times(8, Second)
  BY TimesDigits DEF Delay, Second, Base
<1>5. Delay[5] = Times(16, Second)
  BY TimesDigits DEF Delay, Second, Base
<1>6. Delay[6] = Times(32, Second)
  BY TimesDigits DEF Delay, Second, Base
<1>7. Delay[7] = Times(64, Second)
  BY TimesDigits DEF Delay, Second, Base
<1>8. Delay[8] = Times(128, Second)
  BY TimesDigits DEF Delay, Second, Base
<1>9. Delay[9] = Times(256, Second)
  BY TimesDigits DEF Delay, Second, Base
<1>10. \A k \in 1..9 : Delay[k] = Times(Schedule(k), Second)
  BY <1>1, <1>2, <1>3, <1>4, <1>5, <1>6, <1>7, <1>8, <1>9 DEF Schedule
<1>11. \A k \in 1..9 : ~Less(max, Delay[k])
  BY MaxDigits DEF Delay, Less
<1> QED
  BY <1>10, <1>11

\* The next 25 are longer than the cap.
LEMMA LateDelays == \A k \in 10..34 : ~Negative(Delay[k]) /\ Less(max, Delay[k])
BY MaxDigits DEF Delay, Less, Negative, Base

\* What increase returns after n failures in a row is what the schedule says.
LEMMA Scheduled == \A n \in 1..34 : Capped(Shifted[n - 1]) = Times(Schedule(n), Second)
<1> SUFFICES ASSUME NEW n \in 1..34 PROVE Capped(Delay[n]) = Times(Schedule(n), Second)
  BY Delays
<1>1. CASE n <= 9
  BY <1>1, EarlyDelays DEF Capped
<1>2. CASE n > 9
  <2>1. Schedule(n) = 300
    BY <1>2 DEF Schedule
  <2> QED
    BY <1>2, <2>1, LateDelays DEF Capped, max
<1> QED
  BY <1>1, <1>2

\* The inductive invariant: the factor counts the sleeps since the last success,
\* and the n-th of them was computed from 2^(n - 1).
RunOfFailures ==
  /\ \E D : slept \in Seq(D)
  /\ factor \in Nat /\ factor = Len(slept)
  /\ \A n \in 1..Len(slept) : n <= 63 => slept[n] = Capped(Shifted[n - 1])

LEMMA RunStep == RunOfFailures /\ [Next]_vars => RunOfFailures'
<1> SUFFICES ASSUME RunOfFailures, [Next]_vars PROVE RunOfFailures'
  OBVIOUS
<1>1. PICK D : slept \in Seq(D)
  BY DEF RunOfFailures
<1>2. CASE Fail
  <2>1. PICK next \in Products : slept' = Append(slept, Capped(next))
    BY <1>2 DEF Fail
  <2> DEFINE E == D \cup {Capped(next)}
  <2>2. slept \in Seq(E) /\ Capped(next) \in E
    BY <1>1
  <2>3. /\ slept' \in Seq(E) /\ Len(slept') = Len(slept) + 1
        /\ \A n \in 1..Len(slept) : slept'[n] = slept[n]
        /\ slept'[Len(slept) + 1] = Capped(next)
    BY <2>1, <2>2, AppendProperties
  <2>4. factor' = factor + 1 /\ factor \in Nat /\ factor = Len(slept)
    BY <1>2 DEF Fail, RunOfFailures
  <2>5. factor < 63 => next = Shifted[factor]
    BY <2>1 DEF Products
  <2>6. ASSUME NEW n \in 1..Len(slept'), n <= 63 PROVE slept'[n] = Capped(Shifted[n - 1])
    <3>1. CASE n <= Len(slept)
      BY <2>3, <2>4, <2>6, <3>1 DEF RunOfFailures
    <3>2. CASE n = Len(slept) + 1
      BY <2>3, <2>4, <2>5, <2>6, <3>2
    <3> QED
      BY <2>3, <2>4, <3>1, <3>2
  <2> HIDE DEF E
  <2> QED
    BY <2>3, <2>4, <2>6 DEF RunOfFailures
<1>3. CASE Succeed
  <2>1. slept' = <<>> /\ factor' = 0 /\ slept' \in Seq({}) /\ Len(slept') = 0
    BY <1>3, EmptySeq DEF Succeed
  <2> QED
    BY <2>1 DEF RunOfFailures
<1>4. CASE UNCHANGED vars
  BY <1>4 DEF RunOfFailures, vars
<1> QED
  BY <1>2, <1>3, <1>4 DEF Next

LEMMA RunInvariant == Spec => []RunOfFailures
<1>1. Init => RunOfFailures
  <2>1. <<>> \in Seq({}) /\ Len(<<>>) = 0
    BY EmptySeq
  <2> QED
    BY <2>1 DEF Init, RunOfFailures
<1> QED
  BY <1>1, RunStep, PTL DEF Spec

\* After any number of runs of failures before, the first 34 failed cycles in a row
\* sleep 1, 2, 4, ..., 256, 300, 300, ... seconds (ingestion_service.go:27, 143-145).
THEOREM OnSchedule == Spec => []SleepsOnSchedule
<1>1. RunOfFailures => SleepsOnSchedule
  <2> SUFFICES ASSUME RunOfFailures, NEW n \in 1..Len(slept), n <= 34
               PROVE  slept[n] = Times(Schedule(n), Second)
    BY DEF SleepsOnSchedule
  <2>1. n \in 1..34
    BY DEF RunOfFailures
  <2>2. slept[n] = Capped(Shifted[n - 1])
    BY <2>1 DEF RunOfFailures
  <2> QED
    BY <2>1, <2>2, Scheduled
<1> QED
  BY <1>1, RunInvariant, PTL

\* The 35th failed cycle in a row does not sleep: its delay, 2^34 seconds in
\* nanoseconds, is 2^63 or more, a negative int64, which the cap lets through.
DoesNotSleep == Len(slept) >= 35 => Negative(slept[35])

THEOREM Wraps == Spec => []DoesNotSleep
<1>1. Negative(Delay[35])
  BY DEF Delay, Negative, Base
<1>2. RunOfFailures => DoesNotSleep
  <2> SUFFICES ASSUME RunOfFailures, Len(slept) >= 35 PROVE Negative(slept[35])
    BY DEF DoesNotSleep
  <2>1. 35 \in 1..Len(slept)
    BY DEF RunOfFailures
  <2>2. slept[35] = Capped(Delay[35])
    BY <2>1, Delays DEF RunOfFailures
  <2> QED
    BY <1>1, <2>2 DEF Capped
<1> QED
  BY <1>2, RunInvariant, PTL

\* Short of that, with at most 34 failures in a row, the comment is right: no failed
\* cycle is followed by a sleep of less than a second.
THEOREM LongEnough == MaxFailures <= 34 => (Spec => []NeverShorterThanMin)
<1> SUFFICES ASSUME MaxFailures <= 34 PROVE Spec => []NeverShorterThanMin
  OBVIOUS
<1> DEFINE Bounded == factor <= MaxFailures
<1>1. Init => Bounded
  BY MaxFailuresAssumption DEF Init
<1>2. RunOfFailures /\ Bounded /\ [Next]_vars => Bounded'
  BY MaxFailuresAssumption DEF RunOfFailures, Next, Fail, Succeed, vars
<1>3. \A n \in 1..34 : ~Negative(Capped(Delay[n])) /\ ~Less(Capped(Delay[n]), min)
  <2>1. \A n \in 1..9 : ~Negative(Delay[n]) /\ ~Less(Delay[n], min)
    BY DEF Delay, Negative, Less, min, Second, Base
  <2>2. ~Negative(max) /\ ~Less(max, min)
    BY MaxDigits DEF Negative, Less, min, Second, Base
  <2>3. \A n \in 1..34 : Capped(Delay[n]) = IF n <= 9 THEN Delay[n] ELSE max
    BY EarlyDelays, LateDelays DEF Capped
  <2> QED
    BY <2>1, <2>2, <2>3
<1>4. RunOfFailures /\ Bounded => NeverShorterThanMin
  <2> SUFFICES ASSUME RunOfFailures, Bounded, NEW n \in 1..Len(slept)
               PROVE  ~Negative(slept[n]) /\ ~Less(slept[n], min)
    BY DEF NeverShorterThanMin
  <2>1. n \in 1..34
    BY MaxFailuresAssumption DEF RunOfFailures
  <2>2. slept[n] = Capped(Delay[n])
    <3>1. slept[n] = Capped(Shifted[n - 1]) /\ n - 1 \in 0..34 /\ (n - 1) + 1 = n
      BY <2>1 DEF RunOfFailures
    <3> QED
      BY <3>1, Delays
  <2> QED
    BY <1>3, <2>1, <2>2
<1> QED
  BY <1>1, <1>2, <1>4, RunInvariant, PTL DEF Spec
=============================================================================

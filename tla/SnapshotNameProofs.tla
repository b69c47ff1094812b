--------------------------- MODULE SnapshotNameProofs ---------------------------
(***************************************************************************)
(* Proofs about the names of snapshots in Undo, for every second since     *)
(* 1970: they are in order, and the order of the names is that of time.    *)
(***************************************************************************)
EXTENDS Undo, SequenceTheorems, TLAPS

\* Six fields, from the year to the second.
Fields(n) == n \in Seq(Int) /\ Len(n) = 6

-----------------------------------------------------------------------------
\* Before is a strict total order of names.

LEMMA FieldsOf ==
  ASSUME NEW n, Fields(n)
  PROVE  n[1] \in Int /\ n[2] \in Int /\ n[3] \in Int /\ n[4] \in Int /\ n[5] \in Int /\ n[6] \in Int
<1>1. \A i \in 1..6 : n[i] \in Int
  BY ElementOfSeq DEF Fields
<1> QED
  BY <1>1

\* Before, field by field.
Less(m, n) ==
    \/ m[1] < n[1]
    \/ m[1] = n[1] /\ m[2] < n[2]
    \/ m[1] = n[1] /\ m[2] = n[2] /\ m[3] < n[3]
    \/ m[1] = n[1] /\ m[2] = n[2] /\ m[3] = n[3] /\ m[4] < n[4]
    \/ m[1] = n[1] /\ m[2] = n[2] /\ m[3] = n[3] /\ m[4] = n[4] /\ m[5] < n[5]
    \/ m[1] = n[1] /\ m[2] = n[2] /\ m[3] = n[3] /\ m[4] = n[4] /\ m[5] = n[5] /\ m[6] < n[6]

LEMMA BeforeIsLess == ASSUME NEW m, NEW n, Fields(m), Fields(n) PROVE Before(m, n) <=> Less(m, n)
<1>1. ASSUME Before(m, n) PROVE Less(m, n)
  <2>1. PICK i \in 1..6 : m[i] < n[i] /\ \A j \in 1..i - 1 : m[j] = n[j]
    BY <1>1 DEF Before, Fields
  <2> QED
    BY <2>1 DEF Less
<1>2. ASSUME Less(m, n) PROVE Before(m, n)
  <2>1. \E i \in 1..6 : m[i] < n[i] /\ \A j \in 1..i - 1 : m[j] = n[j]
    BY <1>2 DEF Less
  <2> QED
    BY <2>1 DEF Before, Fields
<1> QED
  BY <1>1, <1>2

LEMMA BeforeOrders ==
  ASSUME NEW l, NEW m, NEW n, Fields(l), Fields(m), Fields(n)
  PROVE  /\ ~Before(n, n)
         /\ Before(l, m) /\ Before(m, n) => Before(l, n)
         /\ m = n \/ Before(m, n) \/ Before(n, m)
<1>1. ~Less(n, n)
  BY FieldsOf DEF Less
<1>2. Less(l, m) /\ Less(m, n) => Less(l, n)
  BY FieldsOf DEF Less
<1>3. m = n \/ Less(m, n) \/ Less(n, m)
  <2>1. CASE \A i \in 1..6 : m[i] = n[i]
    BY <2>1, SeqEqual DEF Fields
  <2>2. CASE m[1] # n[1] \/ m[2] # n[2] \/ m[3] # n[3] \/ m[4] # n[4] \/ m[5] # n[5] \/ m[6] # n[6]
    BY <2>2, FieldsOf DEF Less
  <2> QED
    BY <2>1, <2>2
<1> QED
  BY <1>1, <1>2, <1>3, BeforeIsLess

-----------------------------------------------------------------------------
\* civil_from_days, part by part.

YearOfEra(doe) == (doe - doe \div 1460 + doe \div 36524 - doe \div 146096) \div 365
DayOfYear(doe) == LET yoe == YearOfEra(doe) IN doe - (365 * yoe + yoe \div 4 - yoe \div 100)
MarchMonth(doy) == (5 * doy + 2) \div 153
DayOfMonth(doy) == doy - (153 * MarchMonth(doy) + 2) \div 5 + 1

LEMMA YearRises ==
  ASSUME NEW c \in Nat, NEW d \in Nat, d <= 146096, c <= d
  PROVE  /\ YearOfEra(c) \in Nat /\ YearOfEra(d) <= 399 /\ YearOfEra(c) <= YearOfEra(d)
         /\ DayOfYear(c) \in Nat /\ DayOfYear(c) <= 365
         /\ YearOfEra(c) = YearOfEra(d) /\ c < d => DayOfYear(c) < DayOfYear(d)
<1>1. YearOfEra(c) \in Int /\ 0 <= YearOfEra(c) /\ YearOfEra(d) <= 399 /\ YearOfEra(d) \in Int
  BY DEF YearOfEra
<1>2. YearOfEra(c) <= YearOfEra(d)
  BY DEF YearOfEra
<1>3. DayOfYear(c) \in Int /\ 0 <= DayOfYear(c) /\ DayOfYear(c) <= 365
  BY DEF YearOfEra, DayOfYear
<1>4. YearOfEra(c) = YearOfEra(d) /\ c < d => DayOfYear(c) < DayOfYear(d)
  BY <1>1 DEF DayOfYear
<1> QED
  BY <1>1, <1>2, <1>3, <1>4

LEMMA MonthRises ==
  ASSUME NEW c \in Nat, NEW d \in Nat, d <= 365, c <= d
  PROVE  /\ MarchMonth(c) \in Nat /\ MarchMonth(d) \in Nat
         /\ MarchMonth(c) <= MarchMonth(d) /\ MarchMonth(d) <= 11
         /\ DayOfMonth(c) \in Int /\ DayOfMonth(d) \in Int
         /\ MarchMonth(c) = MarchMonth(d) /\ c < d => DayOfMonth(c) < DayOfMonth(d)
<1>1. MarchMonth(c) \in Int /\ 0 <= MarchMonth(c) /\ MarchMonth(d) \in Int /\ 0 <= MarchMonth(d)
  BY DEF MarchMonth
<1>2. MarchMonth(c) <= MarchMonth(d) /\ MarchMonth(d) <= 11
  BY DEF MarchMonth
<1> QED
  BY <1>1, <1>2 DEF DayOfMonth

\* The number of days since 1 March of the year 0.
Shifted(days) == days + 719468
EraOf(days) == Shifted(days) \div 146097
DayOfEra(days) == Shifted(days) % 146097
MonthIndex(days) == MarchMonth(DayOfYear(DayOfEra(days)))

LEMMA CivilParts ==
  ASSUME NEW days \in Nat
  PROVE  /\ Civil(days) = <<YearOfEra(DayOfEra(days)) + EraOf(days) * 400
                              + (IF Month(MonthIndex(days)) <= 2 THEN 1 ELSE 0),
                            Month(MonthIndex(days)), DayOfMonth(DayOfYear(DayOfEra(days)))>>
         /\ DayOfEra(days) \in Nat /\ DayOfEra(days) <= 146096 /\ EraOf(days) \in Nat
<1>1. DayOfEra(days) \in Nat /\ DayOfEra(days) <= 146096 /\ EraOf(days) \in Nat
  BY DEF DayOfEra, EraOf, Shifted
<1> QED
  BY <1>1 DEF Civil, YearOfEra, DayOfYear, MarchMonth, DayOfMonth, MonthIndex, EraOf, DayOfEra, Shifted

LEMMA ErasRise ==
  ASSUME NEW c \in Nat, NEW d \in Nat, c < d
  PROVE  EraOf(c) < EraOf(d) \/ (EraOf(c) = EraOf(d) /\ DayOfEra(c) < DayOfEra(d))
  BY DEF EraOf, DayOfEra, Shifted

LEMMA Concatenated ==
  ASSUME NEW x \in Seq(Int), NEW y \in Seq(Int), Len(x) = 3, Len(y) = 3
  PROVE  /\ Fields(x \o y)
         /\ (x \o y)[1] = x[1] /\ (x \o y)[2] = x[2] /\ (x \o y)[3] = x[3]
         /\ (x \o y)[4] = y[1] /\ (x \o y)[5] = y[2] /\ (x \o y)[6] = y[3]
<1>1. /\ x \o y \in Seq(Int) /\ Len(x \o y) = Len(x) + Len(y)
      /\ \A i \in 1..Len(x) + Len(y) :
           (x \o y)[i] = IF i <= Len(x) THEN x[i] ELSE y[i - Len(x)]
  BY ConcatProperties
<1>2. \A i \in 1..6 : (x \o y)[i] = IF i <= 3 THEN x[i] ELSE y[i - 3]
  BY <1>1
<1> QED
  BY <1>1, <1>2 DEF Fields

LEMMA PartsTyped ==
  ASSUME NEW days \in Nat
  PROVE  /\ EraOf(days) \in Nat
         /\ YearOfEra(DayOfEra(days)) \in Nat /\ YearOfEra(DayOfEra(days)) <= 399
         /\ DayOfYear(DayOfEra(days)) \in Nat /\ DayOfYear(DayOfEra(days)) <= 365
         /\ MonthIndex(days) \in Nat /\ MonthIndex(days) <= 11
         /\ DayOfMonth(DayOfYear(DayOfEra(days))) \in Int
<1>1. DayOfEra(days) \in Nat /\ DayOfEra(days) <= 146096 /\ EraOf(days) \in Nat
  BY CivilParts
<1>2. /\ YearOfEra(DayOfEra(days)) \in Nat /\ YearOfEra(DayOfEra(days)) <= 399
      /\ DayOfYear(DayOfEra(days)) \in Nat /\ DayOfYear(DayOfEra(days)) <= 365
  BY <1>1, YearRises
<1>3. /\ MonthIndex(days) \in Nat /\ MonthIndex(days) <= 11
      /\ DayOfMonth(DayOfYear(DayOfEra(days))) \in Int
  BY <1>2, MonthRises DEF MonthIndex
<1> QED
  BY <1>1, <1>2, <1>3

\* The date of a later day comes later, by year, month and day.
LEMMA CivilRises ==
  ASSUME NEW c \in Nat, NEW d \in Nat, c < d
  PROVE  LET x == Civil(c)  y == Civil(d)
         IN  /\ x \in Seq(Int) /\ y \in Seq(Int) /\ Len(x) = 3 /\ Len(y) = 3
             /\ x[1] < y[1] \/ (x[1] = y[1] /\ (x[2] < y[2] \/ (x[2] = y[2] /\ x[3] < y[3])))
<1> DEFINE v(days) == YearOfEra(DayOfEra(days)) + EraOf(days) * 400
           k(days) == DayOfMonth(DayOfYear(DayOfEra(days)))
<1>1. v(c) \in Nat /\ v(d) \in Nat
  BY PartsTyped
<1>2. v(c) < v(d) \/ (v(c) = v(d) /\ (MonthIndex(c) < MonthIndex(d)
                                      \/ (MonthIndex(c) = MonthIndex(d) /\ k(c) < k(d))))
  <2>1. CASE EraOf(c) < EraOf(d)
    BY <2>1, PartsTyped
  <2>2. CASE EraOf(c) = EraOf(d) /\ DayOfEra(c) < DayOfEra(d)
    <3>1. /\ YearOfEra(DayOfEra(c)) <= YearOfEra(DayOfEra(d))
          /\ YearOfEra(DayOfEra(c)) = YearOfEra(DayOfEra(d)) =>
               DayOfYear(DayOfEra(c)) < DayOfYear(DayOfEra(d))
      BY <2>2, CivilParts, YearRises
    <3>2. DayOfYear(DayOfEra(c)) < DayOfYear(DayOfEra(d)) =>
            /\ MonthIndex(c) <= MonthIndex(d)
            /\ MonthIndex(c) = MonthIndex(d) => k(c) < k(d)
      BY PartsTyped, MonthRises DEF MonthIndex
    <3>3. CASE YearOfEra(DayOfEra(c)) < YearOfEra(DayOfEra(d))
      BY <2>2, <3>3, PartsTyped
    <3>4. CASE YearOfEra(DayOfEra(c)) = YearOfEra(DayOfEra(d))
      <4>1. v(c) = v(d)
        BY <2>2, <3>4
      <4>2. MonthIndex(c) \in Nat /\ MonthIndex(d) \in Nat
        BY PartsTyped
      <4>3. MonthIndex(c) < MonthIndex(d) \/ MonthIndex(c) = MonthIndex(d)
        BY <3>1, <3>2, <3>4, <4>2
      <4> HIDE DEF v, k
      <4> QED
        BY <3>1, <3>2, <3>4, <4>1, <4>3
    <3>5. YearOfEra(DayOfEra(c)) \in Nat /\ YearOfEra(DayOfEra(d)) \in Nat
      BY PartsTyped
    <3> QED
      BY <3>1, <3>3, <3>4, <3>5
  <2> QED
    BY <2>1, <2>2, ErasRise
<1>3. /\ MonthIndex(c) \in Nat /\ MonthIndex(d) \in Nat
      /\ MonthIndex(c) <= 11 /\ MonthIndex(d) <= 11 /\ k(c) \in Int /\ k(d) \in Int
  BY PartsTyped
<1>4. /\ Civil(c) = <<v(c) + (IF Month(MonthIndex(c)) <= 2 THEN 1 ELSE 0), Month(MonthIndex(c)), k(c)>>
      /\ Civil(d) = <<v(d) + (IF Month(MonthIndex(d)) <= 2 THEN 1 ELSE 0), Month(MonthIndex(d)), k(d)>>
  BY CivilParts
<1> HIDE DEF v, k
<1> DEFINE f == v(c) + (IF Month(MonthIndex(c)) <= 2 THEN 1 ELSE 0)
           g == v(d) + (IF Month(MonthIndex(d)) <= 2 THEN 1 ELSE 0)
           m == Month(MonthIndex(c))
           n == Month(MonthIndex(d))
<1>5. /\ f \in Int /\ g \in Int /\ m \in Int /\ n \in Int
      /\ f < g \/ (f = g /\ (m < n \/ (m = n /\ k(c) < k(d))))
  BY <1>1, <1>2, <1>3 DEF Month
<1>6. Civil(c) = <<f, m, k(c)>> /\ Civil(d) = <<g, n, k(d)>>
  BY <1>4
<1> HIDE DEF f, g, m, n
<1> QED
  BY <1>3, <1>5, <1>6

DayNumber(u) == u \div 86400
Hour(u) == (u % 86400) \div 3600
Minute(u) == ((u % 86400) % 3600) \div 60
Second(u) == (u % 86400) % 60

LEMMA TimeTyped ==
  ASSUME NEW u \in Nat
  PROVE  DayNumber(u) \in Nat /\ Hour(u) \in Int /\ Minute(u) \in Int /\ Second(u) \in Int
  BY DEF DayNumber, Hour, Minute, Second

LEMMA NameParts ==
  ASSUME NEW u \in Nat
  PROVE  LET x == Civil(DayNumber(u))  n == Name(u)
         IN  /\ Fields(n)
             /\ n[1] = x[1] /\ n[2] = x[2] /\ n[3] = x[3]
             /\ n[4] = Hour(u) /\ n[5] = Minute(u) /\ n[6] = Second(u)
<1> DEFINE x == Civil(DayNumber(u))
           t == <<Hour(u), Minute(u), Second(u)>>
<1>1. x \in Seq(Int) /\ Len(x) = 3
  <2>1. DayNumber(u) + 1 \in Nat /\ DayNumber(u) < DayNumber(u) + 1
    BY TimeTyped
  <2> QED
    BY <2>1, TimeTyped, CivilRises
<1>2. t \in Seq(Int) /\ Len(t) = 3 /\ t[1] = Hour(u) /\ t[2] = Minute(u) /\ t[3] = Second(u)
  BY TimeTyped
<1>3. Name(u) = x \o t
  BY DEF Name, DayNumber, Hour, Minute, Second
<1> HIDE DEF x, t
<1>4. /\ Fields(x \o t)
      /\ (x \o t)[1] = x[1] /\ (x \o t)[2] = x[2] /\ (x \o t)[3] = x[3]
      /\ (x \o t)[4] = t[1] /\ (x \o t)[5] = t[2] /\ (x \o t)[6] = t[3]
  BY <1>1, <1>2, Concatenated
<1>5. Name(u)[1] = x[1] /\ Name(u)[2] = x[2] /\ Name(u)[3] = x[3]
  BY <1>3, <1>4
<1>6. Name(u)[4] = Hour(u) /\ Name(u)[5] = Minute(u) /\ Name(u)[6] = Second(u)
  BY <1>2, <1>3, <1>4
<1> QED
  BY <1>3, <1>4, <1>5, <1>6 DEF x

LEMMA ClockRises ==
  ASSUME NEW u \in Nat, NEW w \in Nat, u < w
  PROVE  \/ DayNumber(u) < DayNumber(w)
         \/ /\ DayNumber(u) = DayNumber(w)
            /\ \/ Hour(u) < Hour(w)
               \/ Hour(u) = Hour(w) /\ Minute(u) < Minute(w)
               \/ Hour(u) = Hour(w) /\ Minute(u) = Minute(w) /\ Second(u) < Second(w)
<1> DEFINE s == u % 86400
           t == w % 86400
<1>1. DayNumber(u) < DayNumber(w) \/ (DayNumber(u) = DayNumber(w) /\ s < t)
  BY DEF DayNumber
<1>2. s \in Nat /\ t \in Nat
  OBVIOUS
<1>3. Hour(u) = s \div 3600 /\ Minute(u) = (s % 3600) \div 60 /\ Second(u) = s % 60
  BY DEF Hour, Minute, Second
<1>4. Hour(w) = t \div 3600 /\ Minute(w) = (t % 3600) \div 60 /\ Second(w) = t % 60
  BY DEF Hour, Minute, Second
<1> HIDE DEF s, t
<1>5. s < t => s \div 3600 < t \div 3600 \/ (s \div 3600 = t \div 3600 /\ s % 3600 < t % 3600)
  BY <1>2
<1>6. ASSUME NEW a \in Nat, NEW b \in Nat, a < b
      PROVE  a \div 60 < b \div 60 \/ (a \div 60 = b \div 60 /\ a % 60 < b % 60)
  BY <1>6
<1>7. s % 3600 \in Nat /\ t % 3600 \in Nat
  BY <1>2
<1>8. (s % 3600) % 60 = s % 60 /\ (t % 3600) % 60 = t % 60
  BY <1>2
<1> QED
  BY <1>1, <1>3, <1>4, <1>5, <1>6, <1>7, <1>8

\* The name of a snapshot taken later is the same, within one second, or comes
\* later in the order of the file names (civil_from_days, timestamp_compact).
THEOREM NamesInOrderOfTime ==
  ASSUME NEW u \in Nat, NEW w \in Nat, u <= w
  PROVE  /\ Fields(Name(u)) /\ Fields(Name(w))
         /\ IF u = w THEN Name(u) = Name(w) ELSE Before(Name(u), Name(w))
<1>1. Fields(Name(u)) /\ Fields(Name(w))
  BY NameParts
<1>2. ASSUME u < w PROVE Less(Name(u), Name(w))
  <2> DEFINE x == Civil(DayNumber(u))
             y == Civil(DayNumber(w))
  <2>1. Name(u)[1] = x[1] /\ Name(u)[2] = x[2] /\ Name(u)[3] = x[3]
    BY NameParts
  <2>2. Name(w)[1] = y[1] /\ Name(w)[2] = y[2] /\ Name(w)[3] = y[3]
    BY NameParts
  <2>3. CASE DayNumber(u) < DayNumber(w)
    <3>1. x[1] < y[1] \/ (x[1] = y[1] /\ (x[2] < y[2] \/ (x[2] = y[2] /\ x[3] < y[3])))
      BY <2>3, TimeTyped, CivilRises
    <3> HIDE DEF x, y
    <3> QED
      BY <2>1, <2>2, <3>1 DEF Less
  <2>4. CASE DayNumber(u) = DayNumber(w)
    <3>1. /\ Name(u)[4] = Hour(u) /\ Name(u)[5] = Minute(u) /\ Name(u)[6] = Second(u)
          /\ Name(w)[4] = Hour(w) /\ Name(w)[5] = Minute(w) /\ Name(w)[6] = Second(w)
      BY NameParts
    <3>2. ~(DayNumber(u) < DayNumber(w))
      BY <2>4, TimeTyped
    <3>3. \/ Hour(u) < Hour(w)
          \/ Hour(u) = Hour(w) /\ Minute(u) < Minute(w)
          \/ Hour(u) = Hour(w) /\ Minute(u) = Minute(w) /\ Second(u) < Second(w)
      BY <1>2, <3>2, ClockRises
    <3>4. x = y
      BY <2>4
    <3> HIDE DEF x, y
    <3> QED
      BY <2>1, <2>2, <3>1, <3>3, <3>4 DEF Less
  <2> QED
    BY <1>2, <2>3, <2>4, ClockRises
<1> QED
  BY <1>1, <1>2, BeforeIsLess

=============================================================================

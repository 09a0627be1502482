-------------------------- MODULE DecoderKeyProofs --------------------------
(* Proofs that the keys which Decoder makes up are unique.                 *)
EXTENDS DecoderProofs

\* Numbers have the same bit b.
SameBit(n, m, b) == (n \div 2^b) % 2 = 1 <=> (m \div 2^b) % 2 = 1

\* The bits of a number below 2^31 tell it, from the highest down.
LEMMA BitsTell ==
    ASSUME NEW n \in Nat, NEW m \in Nat, n < 2^31, m < 2^31, Bits(n) = Bits(m)
    PROVE  n = m
<1>a. ASSUME NEW b \in 0 .. 30 PROVE SameBit(n, m, b)
  <2>1. b \in Bits(n) <=> (n \div 2^b) % 2 = 1
    BY DEF Bits
  <2>2. b \in Bits(m) <=> (m \div 2^b) % 2 = 1
    BY DEF Bits
  <2> QED
    BY <2>1, <2>2 DEF SameBit
<1>31. n \div 2^31 = m \div 2^31
  OBVIOUS
<1>29. n \div 2^29 = m \div 2^29
  <2>1. SameBit(n, m, 30) /\ SameBit(n, m, 29)
    BY <1>a
  <2> QED
    BY <1>31, <2>1 DEF SameBit
<1>27. n \div 2^27 = m \div 2^27
  <2>1. SameBit(n, m, 28) /\ SameBit(n, m, 27)
    BY <1>a
  <2> QED
    BY <1>29, <2>1 DEF SameBit
<1>25. n \div 2^25 = m \div 2^25
  <2>1. SameBit(n, m, 26) /\ SameBit(n, m, 25)
    BY <1>a
  <2> QED
    BY <1>27, <2>1 DEF SameBit
<1>23. n \div 2^23 = m \div 2^23
  <2>1. SameBit(n, m, 24) /\ SameBit(n, m, 23)
    BY <1>a
  <2> QED
    BY <1>25, <2>1 DEF SameBit
<1>21. n \div 2^21 = m \div 2^21
  <2>1. SameBit(n, m, 22) /\ SameBit(n, m, 21)
    BY <1>a
  <2> QED
    BY <1>23, <2>1 DEF SameBit
<1>19. n \div 2^19 = m \div 2^19
  <2>1. SameBit(n, m, 20) /\ SameBit(n, m, 19)
    BY <1>a
  <2> QED
    BY <1>21, <2>1 DEF SameBit
<1>17. n \div 2^17 = m \div 2^17
  <2>1. SameBit(n, m, 18) /\ SameBit(n, m, 17)
    BY <1>a
  <2> QED
    BY <1>19, <2>1 DEF SameBit
<1>15. n \div 2^15 = m \div 2^15
  <2>1. SameBit(n, m, 16) /\ SameBit(n, m, 15)
    BY <1>a
  <2> QED
    BY <1>17, <2>1 DEF SameBit
<1>13. n \div 2^13 = m \div 2^13
  <2>1. SameBit(n, m, 14) /\ SameBit(n, m, 13)
    BY <1>a
  <2> QED
    BY <1>15, <2>1 DEF SameBit
<1>11. n \div 2^11 = m \div 2^11
  <2>1. SameBit(n, m, 12) /\ SameBit(n, m, 11)
    BY <1>a
  <2> QED
    BY <1>13, <2>1 DEF SameBit
<1>9. n \div 2^9 = m \div 2^9
  <2>1. SameBit(n, m, 10) /\ SameBit(n, m, 9)
    BY <1>a
  <2> QED
    BY <1>11, <2>1 DEF SameBit
<1>7. n \div 2^7 = m \div 2^7
  <2>1. SameBit(n, m, 8) /\ SameBit(n, m, 7)
    BY <1>a
  <2> QED
    BY <1>9, <2>1 DEF SameBit
<1>5. n \div 2^5 = m \div 2^5
  <2>1. SameBit(n, m, 6) /\ SameBit(n, m, 5)
    BY <1>a
  <2> QED
    BY <1>7, <2>1 DEF SameBit
<1>3. n \div 2^3 = m \div 2^3
  <2>1. SameBit(n, m, 4) /\ SameBit(n, m, 3)
    BY <1>a
  <2> QED
    BY <1>5, <2>1 DEF SameBit
<1>1. n \div 2^1 = m \div 2^1
  <2>1. SameBit(n, m, 2) /\ SameBit(n, m, 1)
    BY <1>a
  <2> QED
    BY <1>3, <2>1 DEF SameBit
<1>0. n \div 2^0 = m \div 2^0
  <2>1. SameBit(n, m, 0)
    BY <1>a
  <2> QED
    BY <1>1, <2>1 DEF SameBit
<1> QED
  BY <1>0

\* The bits of a number below 2^w are the lowest w.
Above(n, b) ==
    /\ n < 4 /\ b >= 2 => b \notin Bits(n)
    /\ n < 2^8 /\ b >= 8 => b \notin Bits(n)
    /\ n < 2^24 /\ b >= 24 => b \notin Bits(n)
    /\ n < 2^30 /\ b >= 30 => b \notin Bits(n)

LEMMA BitsBelow ==
    ASSUME NEW n \in Nat
    PROVE  \A b \in 0 .. 63 : Above(n, b)
<1>1. /\ Above(n, 2) /\ Above(n, 3) /\ Above(n, 4) /\ Above(n, 5)
      /\ Above(n, 6) /\ Above(n, 7) /\ Above(n, 8)
  BY DEF Above, Bits
<1>2. /\ Above(n, 9) /\ Above(n, 10) /\ Above(n, 11) /\ Above(n, 12)
      /\ Above(n, 13) /\ Above(n, 14) /\ Above(n, 15)
  BY DEF Above, Bits
<1>3. /\ Above(n, 16) /\ Above(n, 17) /\ Above(n, 18) /\ Above(n, 19)
      /\ Above(n, 20) /\ Above(n, 21) /\ Above(n, 22)
  BY DEF Above, Bits
<1>4. /\ Above(n, 23) /\ Above(n, 24) /\ Above(n, 25) /\ Above(n, 26)
      /\ Above(n, 27) /\ Above(n, 28) /\ Above(n, 29) /\ Above(n, 30)
  BY DEF Above, Bits
<1>5. \A b \in 31 .. 63 : Above(n, b)
  BY DEF Above, Bits
<1>6. \A b \in 0 .. 1 : Above(n, b)
  BY DEF Above
<1> QED
  <2> SUFFICES ASSUME NEW b \in 2 .. 30 PROVE Above(n, b)
    BY <1>5, <1>6
  <2>1. \/ b = 2 \/ b = 3 \/ b = 4 \/ b = 5 \/ b = 6 \/ b = 7 \/ b = 8 \/ b = 9
        \/ b = 10 \/ b = 11 \/ b = 12 \/ b = 13 \/ b = 14 \/ b = 15 \/ b = 16 \/ b = 17
        \/ b = 18 \/ b = 19 \/ b = 20 \/ b = 21 \/ b = 22 \/ b = 23 \/ b = 24 \/ b = 25
        \/ b = 26 \/ b = 27 \/ b = 28 \/ b = 29 \/ b = 30
    OBVIOUS
  <2> QED
    BY <1>1, <1>2, <1>3, <1>4, <2>1

LEMMA BitsRange ==
    ASSUME NEW n \in Nat
    PROVE  /\ n < 4 => Bits(n) \subseteq 0 .. 1
           /\ n < 2^8 => Bits(n) \subseteq 0 .. 7
           /\ n < 2^24 => Bits(n) \subseteq 0 .. 23
           /\ n < 2^30 => Bits(n) \subseteq 0 .. 29
<1>1. \A b \in Bits(n) : b \in 0 .. 63 /\ Above(n, b)
  BY BitsBelow DEF Bits
<1>2. ASSUME n < 4 PROVE Bits(n) \subseteq 0 .. 1
  BY <1>1, <1>2 DEF Above
<1>3. ASSUME n < 2^8 PROVE Bits(n) \subseteq 0 .. 7
  BY <1>1, <1>3 DEF Above
<1>4. ASSUME n < 2^24 PROVE Bits(n) \subseteq 0 .. 23
  BY <1>1, <1>4 DEF Above
<1>5. ASSUME n < 2^30 PROVE Bits(n) \subseteq 0 .. 29
  BY <1>1, <1>5 DEF Above
<1> QED
  BY <1>2, <1>3, <1>4, <1>5

-----------------------------------------------------------------------------
(* The calendar. *)

YearDays(year) == 365 * year + year \div 4 - year \div 100 + year \div 400
MonthDays(month) == (153 * month + 2) \div 5

\* The year that begins with March, the month counted from March, and the days since then.
YearOf(date) == IF date[2] <= 2 THEN date[1] - 1 ELSE date[1]
DayOfYear(date) == MonthDays(SinceMarch(date[2])) + date[3]

LEMMA DateType ==
    ASSUME NEW d \in Date
    PROVE  /\ d[1] \in Nat /\ d[2] \in 1 .. 12 /\ d[3] \in 1 .. 31
           /\ d[4] \in 0 .. 23 /\ d[5] \in 0 .. 59 /\ d[6] \in 0 .. 59
           /\ YearOf(d) \in Int /\ SinceMarch(d[2]) \in 0 .. 11 /\ DayOfYear(d) \in Nat
<1>1. /\ d[1] \in Nat /\ d[2] \in 1 .. 12 /\ d[3] \in 1 .. 31
      /\ d[4] \in 0 .. 23 /\ d[5] \in 0 .. 59 /\ d[6] \in 0 .. 59
  BY DEF Date
<1>2. YearOf(d) \in Int /\ SinceMarch(d[2]) \in 0 .. 11
  BY <1>1 DEF YearOf, SinceMarch
<1>3. DayOfYear(d) \in Nat
  BY <1>1, <1>2 DEF DayOfYear, MonthDays
<1> QED
  BY <1>1, <1>2, <1>3

LEMMA YearType == \A y \in Int : YearDays(y) \in Int
  BY DEF YearDays

LEMMA DaysParts ==
    ASSUME NEW d \in Date
    PROVE  Days(d) = YearDays(YearOf(d)) + DayOfYear(d) - 719469
<1>1. PICK y \in Int, m \in 0 .. 11, n \in 1 .. 31 :
          y = YearOf(d) /\ m = SinceMarch(d[2]) /\ n = d[3]
  BY DateType
<1>2. PICK p \in Int : p = 365 * y + y \div 4 - y \div 100 + y \div 400
  OBVIOUS
<1>3. PICK q \in Int : q = (153 * m + 2) \div 5
  OBVIOUS
<1>4. Days(d) = p + q + n - 719469
  BY <1>1, <1>2, <1>3, SMT DEF Days, YearOf
<1>5. YearDays(YearOf(d)) = p
  BY <1>1, <1>2 DEF YearDays
<1>6. DayOfYear(d) = q + n
  BY <1>1, <1>3 DEF DayOfYear, MonthDays
<1>7. p + q + n - 719469 = p + (q + n) - 719469
  BY SMT
<1> QED
  BY <1>4, <1>5, <1>6, <1>7, SMT

\* A year has 365 days, or 366 if the February at its end is that of a leap year.
LEMMA YearLength ==
    ASSUME NEW y \in Int
    PROVE  YearDays(y + 1) = YearDays(y) + (IF Leap(y + 1) THEN 366 ELSE 365)
  BY DEF YearDays, Leap

LEMMA YearsGrow ==
    ASSUME NEW y \in Int, NEW z \in Int, y < z
    PROVE  YearDays(y + 1) <= YearDays(z)
  BY DEF YearDays

\* The days of a month come before those of the next.
LEMMA MonthLength ==
    ASSUME NEW d \in Date, InCalendar(d)
    PROVE  \A m \in 0 .. 11 : SinceMarch(d[2]) < m => DayOfYear(d) <= MonthDays(m)
<1>1. d[2] \in 1 .. 12 /\ d[3] <= 31 /\ d[3] \in Nat
  BY DateType
<1>2. d[2] \in {4, 6, 9, 11} => d[3] <= 30
  BY <1>1 DEF InCalendar, DaysOfMonth
<1> QED
  BY <1>1, <1>2 DEF DayOfYear, MonthDays, SinceMarch

LEMMA DayInYear ==
    ASSUME NEW d \in Date, InCalendar(d)
    PROVE  DayOfYear(d) > 0 /\ YearDays(YearOf(d)) + DayOfYear(d) <= YearDays(YearOf(d) + 1)
<1> DEFINE y == YearOf(d)
<1>1. d[1] \in Nat /\ d[2] \in 1 .. 12 /\ d[3] \in 1 .. 31 /\ y \in Int
  BY DateType
<1>2. DayOfYear(d) > 0
  BY <1>1 DEF DayOfYear, MonthDays, SinceMarch
<1>3. CASE d[2] # 2
  <2>1. DayOfYear(d) <= 365
    BY <1>1, <1>3 DEF DayOfYear, MonthDays, SinceMarch
  <2> QED
    BY <1>1, <1>2, <2>1, YearLength, YearType, DateType
<1>4. CASE d[2] = 2
  <2>1. y + 1 = d[1] /\ d[3] <= IF Leap(y + 1) THEN 29 ELSE 28
    BY <1>1, <1>4 DEF YearOf, InCalendar, DaysOfMonth
  <2>2. DayOfYear(d) = 337 + d[3]
    BY <1>1, <1>4 DEF DayOfYear, MonthDays, SinceMarch
  <2>3. DayOfYear(d) <= IF Leap(y + 1) THEN 366 ELSE 365
    BY <1>1, <2>1, <2>2
  <2>4. YearDays(y + 1) = YearDays(y) + (IF Leap(y + 1) THEN 366 ELSE 365)
    BY <1>1, YearLength
  <2> QED
    BY <1>1, <1>2, <2>3, <2>4, YearType, DateType
<1> QED
  BY <1>3, <1>4

LEMMA DaysType == \A d \in Date : Days(d) \in Int
  BY DateType, YearType, DaysParts, SMT

\* Different dates of the calendar have different days.
LEMMA DaysTell ==
    ASSUME NEW d \in Date, NEW e \in Date, InCalendar(d), InCalendar(e), Days(d) = Days(e)
    PROVE  d[1] = e[1] /\ d[2] = e[2] /\ d[3] = e[3]
<1>1. /\ YearOf(d) \in Int /\ YearOf(e) \in Int /\ DayOfYear(d) \in Nat /\ DayOfYear(e) \in Nat
      /\ \A y \in Int : YearDays(y) \in Int
  BY DateType, YearType
<1>2. YearDays(YearOf(d)) + DayOfYear(d) = YearDays(YearOf(e)) + DayOfYear(e)
  BY <1>1, DaysParts, SMT
<1>3. YearOf(d) = YearOf(e)
  <2>1. ~(YearOf(d) < YearOf(e))
    BY <1>1, <1>2, DayInYear, YearsGrow
  <2>2. ~(YearOf(e) < YearOf(d))
    BY <1>1, <1>2, DayInYear, YearsGrow
  <2> QED
    BY <1>1, <2>1, <2>2
<1>4. DayOfYear(d) = DayOfYear(e)
  BY <1>1, <1>2, <1>3
<1>5. SinceMarch(d[2]) = SinceMarch(e[2])
  <2>1. /\ SinceMarch(d[2]) \in 0 .. 11 /\ SinceMarch(e[2]) \in 0 .. 11
        /\ d[3] \in 1 .. 31 /\ e[3] \in 1 .. 31
    BY DateType
  <2>2. \A m \in 0 .. 11 : MonthDays(m) \in Nat
    BY DEF MonthDays
  <2>3. ~(SinceMarch(d[2]) < SinceMarch(e[2]))
    BY <1>4, <2>1, <2>2, MonthLength DEF DayOfYear
  <2>4. ~(SinceMarch(e[2]) < SinceMarch(d[2]))
    BY <1>4, <2>1, <2>2, MonthLength DEF DayOfYear
  <2> QED
    BY <2>1, <2>3, <2>4
<1>6. d[2] = e[2]
  BY <1>5, DateType DEF SinceMarch
<1>7. d[3] = e[3]
  <2>1. MonthDays(SinceMarch(d[2])) \in Nat
    BY DateType DEF MonthDays
  <2> QED
    BY <1>4, <1>5, <2>1, DateType DEF DayOfYear
<1> QED
  BY <1>3, <1>6, <1>7, DateType DEF YearOf

LEMMA TimeType ==
    ASSUME NEW d \in Date, NEW dst \in {0, 1}
    PROVE  mktime(d, dst) \in Int
<1>1. PICK c \in Int, h \in 0 .. 23, m \in 0 .. 59, s \in 0 .. 59, z \in Int :
          c = Days(d) /\ h = d[4] /\ m = d[5] /\ s = d[6] /\ z = TimeZone
  BY DateType, DaysType, DecoderAssumption
<1>2. mktime(d, dst) = 86400 * c + 3600 * h + 60 * m + s - z - 3600 * dst
  BY <1>1, SMT DEF mktime
<1> QED
  BY <1>2, SMT

\* Different dates of the calendar have different times.
LEMMA TimesTell ==
    ASSUME NEW d \in Date, NEW e \in Date, InCalendar(d), InCalendar(e),
           NEW dst \in {0, 1}, mktime(d, dst) = mktime(e, dst)
    PROVE  d = e
<1>1. PICK c \in Int, h \in 0 .. 23, m \in 0 .. 59, s \in 0 .. 59 :
          c = Days(d) /\ h = d[4] /\ m = d[5] /\ s = d[6]
  BY DateType, DaysType
<1>2. PICK c1 \in Int, h1 \in 0 .. 23, m1 \in 0 .. 59, s1 \in 0 .. 59 :
          c1 = Days(e) /\ h1 = e[4] /\ m1 = e[5] /\ s1 = e[6]
  BY DateType, DaysType
<1>3. PICK z \in Int : z = TimeZone
  BY DecoderAssumption
<1>4. 86400 * c + 3600 * h + 60 * m + s - z - 3600 * dst
          = 86400 * c1 + 3600 * h1 + 60 * m1 + s1 - z - 3600 * dst
  BY <1>1, <1>2, <1>3, SMT DEF mktime
<1>5. c = c1 /\ h = h1 /\ m = m1 /\ s = s1
  <2>1. 86400 * c + 3600 * h + 60 * m + s = 86400 * c1 + 3600 * h1 + 60 * m1 + s1
    BY <1>4, SMT
  <2>2. c = c1
    BY <2>1, SMT
  <2>3. h = h1
    BY <2>1, <2>2, SMT
  <2> QED
    BY <2>1, <2>2, <2>3, SMT
<1>6. d[1] = e[1] /\ d[2] = e[2] /\ d[3] = e[3]
  BY <1>1, <1>2, <1>5, DaysTell
<1>7. d = <<d[1], d[2], d[3], d[4], d[5], d[6]>> /\ e = <<e[1], e[2], e[3], e[4], e[5], e[6]>>
  BY DEF Date
<1> QED
  BY <1>1, <1>2, <1>5, <1>6, <1>7

-----------------------------------------------------------------------------
(* The fields of an id. *)

Key(c, xy, cam, t) == (Shift(c, 34) \cup Shift(xy, 10) \cup Shift(cam, 8) \cup Bits(t)) \cap 0 .. 63

\* Fields that have the bits they are given.
Narrow(c, xy, cam, t) == c < 2^30 /\ xy < 2^24 /\ cam < 4 /\ t < 2^8

\* The fields can be read off the key.
Readable(c, xy, cam, t) ==
    LET key == Key(c, xy, cam, t) IN
    /\ Bits(c) = {b \in 0 .. 29 : b + 34 \in key} /\ Bits(xy) = {b \in 0 .. 23 : b + 10 \in key}
    /\ Bits(cam) = {b \in 0 .. 1 : b + 8 \in key} /\ Bits(t) = {b \in 0 .. 7 : b \in key}

\* Fields that are narrow enough do not overlap.
LEMMA FieldsApart ==
    ASSUME NEW c \in Nat, NEW xy \in Nat, NEW cam \in Nat, NEW t \in Nat,
           Narrow(c, xy, cam, t)
    PROVE  Readable(c, xy, cam, t)
<1>1. /\ Bits(c) \subseteq 0 .. 29 /\ Bits(xy) \subseteq 0 .. 23
      /\ Bits(cam) \subseteq 0 .. 1 /\ Bits(t) \subseteq 0 .. 7
  BY BitsRange DEF Narrow
<1>2. \A b \in 0 .. 63 : b \in Key(c, xy, cam, t) <=>
          (\/ b - 34 \in Bits(c) \/ b - 10 \in Bits(xy) \/ b - 8 \in Bits(cam) \/ b \in Bits(t))
  <2>1. ASSUME NEW n \in {c, xy, cam}, NEW by \in {34, 10, 8}, NEW b \in 0 .. 63
        PROVE  b \in Shift(n, by) <=> b - by \in Bits(n)
    <3>1. \A a \in Bits(n) : a \in Int
      BY <1>1
    <3> QED
      BY <3>1 DEF Shift
  <2> QED
    BY <2>1 DEF Key
<1>3. \A b \in 0 .. 29 : b + 34 \in Key(c, xy, cam, t) <=> b \in Bits(c)
  BY <1>1, <1>2
<1>4. \A b \in 0 .. 23 : b + 10 \in Key(c, xy, cam, t) <=> b \in Bits(xy)
  BY <1>1, <1>2
<1>5. \A b \in 0 .. 1 : b + 8 \in Key(c, xy, cam, t) <=> b \in Bits(cam)
  BY <1>1, <1>2
<1>6. \A b \in 0 .. 7 : b \in Key(c, xy, cam, t) <=> b \in Bits(t)
  BY <1>1, <1>2
<1> QED
  BY <1>1, <1>3, <1>4, <1>5, <1>6 DEF Readable

LEMMA FieldsTell ==
    ASSUME NEW c \in Nat, NEW xy \in Nat, NEW cam \in Nat, NEW t \in Nat,
           Narrow(c, xy, cam, t),
           NEW c1 \in Nat, NEW xy1 \in Nat, NEW cam1 \in Nat, NEW t1 \in Nat,
           Narrow(c1, xy1, cam1, t1),
           Key(c, xy, cam, t) = Key(c1, xy1, cam1, t1)
    PROVE  c = c1 /\ xy = xy1 /\ cam = cam1 /\ t = t1
<1>1. Bits(c) = Bits(c1) /\ Bits(xy) = Bits(xy1) /\ Bits(cam) = Bits(cam1) /\ Bits(t) = Bits(t1)
  <2>1. Readable(c, xy, cam, t)
    BY FieldsApart
  <2>2. Readable(c1, xy1, cam1, t1)
    BY FieldsApart
  <2> QED
    BY <2>1, <2>2 DEF Readable
<1>2. c < 2^31 /\ xy < 2^31 /\ cam < 2^31 /\ t < 2^31
  BY DEF Narrow
<1>3. c1 < 2^31 /\ xy1 < 2^31 /\ cam1 < 2^31 /\ t1 < 2^31
  BY DEF Narrow
<1> QED
  BY <1>1, <1>2, <1>3, BitsTell

-----------------------------------------------------------------------------
(* The ids of a batch. *)

\* The hundredths of a picture, and where they come from.
LEMMA CentisecsParts ==
    ASSUME NEW name \in Name, Len(name.offset) > 1, NEW dst \in {0, 1},
           mktime(name.timestamp, dst) - experimentBeginTime >= 0
    PROVE  \E s \in Nat, u \in 0 .. 9, v \in 0 .. 9 :
               /\ s = mktime(name.timestamp, dst) - experimentBeginTime
               /\ u = name.offset[1] /\ v = name.offset[2]
               /\ Centisecs(name, dst) = 100 * s + (10 * u + v)
<1>1. name.offset[1] \in 0 .. 9 /\ name.offset[2] \in 0 .. 9 /\ Len(name.offset) # 1
  BY DEF Name
<1>2. mktime(name.timestamp, dst) \in Int /\ experimentBeginTime \in Int
  BY TimeType, DecoderAssumption DEF Name
<1>3. PICK s \in Nat : s = mktime(name.timestamp, dst) - experimentBeginTime
  BY <1>2
<1>4. Centisecs(name, dst) = 100 * s + (10 * name.offset[1] + name.offset[2])
  BY <1>1, <1>3 DEF Centisecs
<1> QED
  BY <1>1, <1>3, <1>4

\* Summer time is an hour ahead.
LEMMA AnHour == \A d \in Date : mktime(d, 1) = mktime(d, 0) - 3600
<1> SUFFICES ASSUME NEW d \in Date PROVE mktime(d, 1) = mktime(d, 0) - 3600
  OBVIOUS
<1>1. PICK c \in Int, h \in 0 .. 23, m \in 0 .. 59, s \in 0 .. 59, z \in Int :
          c = Days(d) /\ h = d[4] /\ m = d[5] /\ s = d[6] /\ z = TimeZone
  BY DateType, DaysType, DecoderAssumption
<1>2. \A dst \in {0, 1} : mktime(d, dst) = 86400 * c + 3600 * h + 60 * m + s - z - 3600 * dst
  BY <1>1, SMT DEF mktime
<1> QED
  BY <1>2, SMT

\* Pictures of the same second, but one in winter time and one in summer time, are an hour apart.
LEMMA HourTells ==
    ASSUME NEW d \in Date, NEW e \in Date, NEW dst \in {0, 1}, NEW dst1 \in {0, 1},
           dst # dst1, mktime(d, dst) = mktime(e, dst1)
    PROVE  AnHourApart(d, e)
<1>1. PICK m \in Int, n \in Int : m = mktime(d, 0) /\ n = mktime(e, 0)
  BY TimeType
<1>2. mktime(d, 1) = m - 3600 /\ mktime(e, 1) = n - 3600
  BY <1>1, AnHour, SMT
<1>3. m - n = 3600 \/ m - n = -3600
  BY <1>1, <1>2, SMT
<1> QED
  BY <1>1, <1>3, SMT DEF AnHourApart

\* What the same time of two pictures tells of them.
SameTime(a, dst, b, dst1) ==
    /\ dst = dst1 => a.timestamp = b.timestamp
    /\ dst # dst1 => AnHourApart(a.timestamp, b.timestamp)
    /\ \A n \in {1, 2} : a.offset[n] = b.offset[n]

LEMMA CentisecsTell ==
    ASSUME NEW a \in Name, NEW b \in Name, Len(a.offset) > 1, Len(b.offset) > 1,
           InCalendar(a.timestamp), InCalendar(b.timestamp),
           NEW dst \in {0, 1}, NEW dst1 \in {0, 1},
           mktime(a.timestamp, dst) - experimentBeginTime >= 0,
           mktime(b.timestamp, dst1) - experimentBeginTime >= 0,
           Centisecs(a, dst) = Centisecs(b, dst1)
    PROVE  SameTime(a, dst, b, dst1)
<1>1. PICK s \in Nat, u \in 0 .. 9, v \in 0 .. 9 :
          /\ s = mktime(a.timestamp, dst) - experimentBeginTime
          /\ u = a.offset[1] /\ v = a.offset[2]
          /\ Centisecs(a, dst) = 100 * s + (10 * u + v)
  BY CentisecsParts
<1>2. PICK t \in Nat, u1 \in 0 .. 9, v1 \in 0 .. 9 :
          /\ t = mktime(b.timestamp, dst1) - experimentBeginTime
          /\ u1 = b.offset[1] /\ v1 = b.offset[2]
          /\ Centisecs(b, dst1) = 100 * t + (10 * u1 + v1)
  BY CentisecsParts
<1>3. 100 * s + (10 * u + v) = 100 * t + (10 * u1 + v1)
  BY <1>1, <1>2
<1>4. s = t /\ u = u1 /\ v = v1
  <2>1. s = t
    BY <1>3
  <2> QED
    BY <1>3, <2>1
<1>5. mktime(a.timestamp, dst) = mktime(b.timestamp, dst1)
  <2>1. /\ mktime(a.timestamp, dst) \in Int /\ mktime(b.timestamp, dst1) \in Int
        /\ experimentBeginTime \in Int
    BY TimeType, DecoderAssumption DEF Name
  <2> QED
    BY <1>1, <1>2, <1>4, <2>1
<1>6. a.timestamp \in Date /\ b.timestamp \in Date
  BY DEF Name
<1>7. dst = dst1 => a.timestamp = b.timestamp
  BY <1>5, <1>6, TimesTell
<1>8. dst # dst1 => AnHourApart(a.timestamp, b.timestamp)
  BY <1>5, <1>6, HourTells
<1> QED
  BY <1>1, <1>2, <1>4, <1>7, <1>8 DEF SameTime

LEMMA PlaceFits ==
    ASSUME NEW x \in Nat, NEW y \in Nat, x < 4000, y * 4000 + x < 2^24
    PROVE  /\ Short(x) = x /\ Short(y) = y
           /\ y * 4000 + x \in Nat
<1>1. y < 4195
  OBVIOUS
<1>2. x < 2^15 /\ y < 2^15
  BY <1>1
<1>3. Short(x) = x /\ Short(y) = y
  BY <1>2 DEF Short
<1> QED
  BY <1>3

\* A line of a picture for which the fields of id are wide enough.
IdFits(name, l, dst) ==
    LET seconds == mktime(name.timestamp, dst) - experimentBeginTime IN
    /\ Len(name.offset) > 1 /\ InCalendar(name.timestamp)
    /\ name.camID < 4 /\ seconds >= 0 /\ seconds < 2^30 \div 100
    /\ Kept(l) /\ l.tag \in 0 .. MAX_TAGS_PRO_IMAGE - 1 /\ l.x < 4000 /\ l.y * 4000 + l.x < 2^24

\* Its id, field by field.
IdOf(name, l, dst, c, x, y, xy, cam, t) ==
    /\ c = Centisecs(name, dst) /\ x = l.x /\ y = l.y /\ cam = name.camID /\ t = TagBits(l.tag)
    /\ x < 4000 /\ xy = y * 4000 + x /\ Narrow(c, xy, cam, t)
    /\ Id(name, l, dst) = Key(c, xy, cam, t)

LEMMA IdFields ==
    ASSUME NEW name \in Name, NEW l \in Line, NEW dst \in {0, 1}, IdFits(name, l, dst)
    PROVE  \E c, x, y, xy, cam, t \in Nat : IdOf(name, l, dst, c, x, y, xy, cam, t)
<1>1. PICK x \in Nat, y \in Nat : x = l.x /\ y = l.y
  BY KeptFields DEF IdFits, Kept
<1>t. PICK tag \in 0 .. MAX_TAGS_PRO_IMAGE - 1 : tag = l.tag /\ Short(l.tag) = tag
  BY ShortKeeps DEF IdFits
<1>2. x < 4000 /\ y * 4000 + x < 2^24
  BY <1>1 DEF IdFits
<1>3. PICK cam \in Nat : cam = name.camID /\ cam < 4
  BY DEF IdFits, Name
<1>4. PICK t \in Nat : t = TagBits(l.tag) /\ t < 2^8
  <2>1. TagBits(tag) \in Nat /\ TagBits(tag) < 2^8
    BY DEF TagBits, MAX_TAGS_PRO_IMAGE
  <2> QED
    BY <1>t, <2>1
<1>5. PICK c \in Nat : c = Centisecs(name, dst) /\ c < 2^30
  <2>1. Len(name.offset) > 1 /\ mktime(name.timestamp, dst) - experimentBeginTime >= 0
    BY DEF IdFits
  <2>2. PICK s \in Nat, u \in 0 .. 9, v \in 0 .. 9 :
            /\ s = mktime(name.timestamp, dst) - experimentBeginTime
            /\ Centisecs(name, dst) = 100 * s + (10 * u + v)
    BY <2>1, CentisecsParts
  <2>3. s < 2^30 \div 100
    BY <2>2 DEF IdFits
  <2>4. 100 * s + (10 * u + v) \in Nat /\ 100 * s + (10 * u + v) < 2^30
    BY <2>3
  <2> QED
    BY <2>2, <2>4
<1>6. PICK xy \in Nat : xy = y * 4000 + x
  OBVIOUS
<1>7. Id(name, l, dst) = Key(c, xy, cam, t)
  <2>1. Short(x) = x /\ Short(y) = y
    BY <1>2, PlaceFits
  <2> QED
    BY <1>1, <1>t, <1>3, <1>4, <1>5, <1>6, <2>1 DEF Id, Key
<1>8. Narrow(c, xy, cam, t)
  BY <1>2, <1>3, <1>4, <1>5, <1>6 DEF Narrow
<1>9. IdOf(name, l, dst, c, x, y, xy, cam, t)
  BY <1>1, <1>2, <1>3, <1>4, <1>5, <1>6, <1>7, <1>8 DEF IdOf
<1> QED
  BY <1>9

LEMMA IdTells ==
    ASSUME NEW a \in Name, NEW l \in Line, NEW b \in Name, NEW k \in Line,
           NEW dst \in {0, 1}, NEW dst1 \in {0, 1},
           IdFits(a, l, dst), IdFits(b, k, dst1), Id(a, l, dst) = Id(b, k, dst1)
    PROVE  /\ a.camID = b.camID /\ SameTime(a, dst, b, dst1)
           /\ l.x = k.x /\ l.y = k.y /\ TagBits(l.tag) = TagBits(k.tag)
<1>a. \E c, x, y, xy, cam, t \in Nat : IdOf(a, l, dst, c, x, y, xy, cam, t)
  BY IdFields
<1>b. \E c, x, y, xy, cam, t \in Nat : IdOf(b, k, dst1, c, x, y, xy, cam, t)
  BY IdFields
<1>1. PICK c, x, y, xy, cam, t \in Nat : IdOf(a, l, dst, c, x, y, xy, cam, t)
  BY <1>a
<1>2. PICK c1, x1, y1, xy1, cam1, t1 \in Nat : IdOf(b, k, dst1, c1, x1, y1, xy1, cam1, t1)
  BY <1>b
<1>3. c = c1 /\ xy = xy1 /\ cam = cam1 /\ t = t1
  <2>1. Key(c, xy, cam, t) = Key(c1, xy1, cam1, t1)
    <3>1. Id(a, l, dst) = Key(c, xy, cam, t)
      BY <1>1 DEF IdOf
    <3>2. Id(b, k, dst1) = Key(c1, xy1, cam1, t1)
      BY <1>2 DEF IdOf
    <3> QED
      BY <3>1, <3>2
  <2>2. Narrow(c, xy, cam, t) /\ Narrow(c1, xy1, cam1, t1)
    BY <1>1, <1>2 DEF IdOf
  <2> QED
    BY <2>1, <2>2, FieldsTell
<1>4. x = x1 /\ y = y1
  <2>1. y * 4000 + x = y1 * 4000 + x1 /\ x < 4000 /\ x1 < 4000
    BY <1>1, <1>2, <1>3 DEF IdOf
  <2>2. y = y1
    BY <2>1
  <2> QED
    BY <2>1, <2>2
<1>5. SameTime(a, dst, b, dst1)
  <2>1. Centisecs(a, dst) = Centisecs(b, dst1)
    BY <1>1, <1>2, <1>3 DEF IdOf
  <2>2. /\ Len(a.offset) > 1 /\ InCalendar(a.timestamp) /\ mktime(a.timestamp, dst) - experimentBeginTime >= 0
        /\ Len(b.offset) > 1 /\ InCalendar(b.timestamp) /\ mktime(b.timestamp, dst1) - experimentBeginTime >= 0
    BY DEF IdFits
  <2> QED
    BY <2>1, <2>2, CentisecsTell
<1> QED
  BY <1>1, <1>2, <1>3, <1>4, <1>5 DEF IdOf

\* The id of a detection is that of one of its lines, read when the clock was set to winter time
\* or when it was set to summer time; as long as it does not change, that is the time now.
Keyed ==
    FewTags =>
        \A f \in Files : \A tag \in TagsOf(f) : \E n \in LinesOf(f, tag), dst \in {0, 1} :
            /\ data[Index(f, tag)].id = Id(fileNames[f], lines[f][n], dst)
            /\ ~changed => dst = isdst

\* A detection that the line does not begin keeps its id, and its lines.
LEMMA IdStays ==
    ASSUME TypeOK, Grouped, Keyed, FewTags, NEW l \in Lines, Read(l),
           NEW f \in Files, NEW tag \in TagsOf(f), data'[Index(f, tag)].id = data[Index(f, tag)].id
    PROVE  \E n \in LinesOf(f, tag)', dst \in {0, 1} :
               /\ data'[Index(f, tag)].id = Id(fileNames'[f], lines'[f][n], dst)
               /\ ~changed' => dst = isdst'
<1>1. PICK n \in LinesOf(f, tag), dst \in {0, 1} :
          /\ data[Index(f, tag)].id = Id(fileNames[f], lines[f][n], dst)
          /\ ~changed => dst = isdst
  BY DEF Keyed
<1>2. /\ n \in LinesOf(f, tag)' /\ lines'[f][n] = lines[f][n]
      /\ fileNames' = fileNames /\ isdst' = isdst
  BY LineAdded DEF LinesOf, KeptAt, Read
<1>3. changed' = changed
  BY DEF Read
<1> QED
  BY <1>1, <1>2, <1>3

LEMMA KeepKeepsKeys ==
    ASSUME TypeOK, Grouped, Keyed, NEW l \in Lines, KeepLine(l)
    PROVE  Keyed'
<1>1. Read(l) /\ Kept(l) /\ l \in Line
  BY DecoderAssumption DEF KeepLine
<1> SUFFICES ASSUME FewTags', NEW f \in Files', NEW tag \in TagsOf(f)'
             PROVE  \E n \in LinesOf(f, tag)', dst \in {0, 1} :
                        /\ data'[Index(f, tag)].id = Id(fileNames'[f], lines'[f][n], dst)
                        /\ ~changed' => dst = isdst'
  BY DEF Keyed
<1>2. /\ FewTags /\ l.tag \in Nat /\ l.tag < MAX_TAGS_PRO_IMAGE /\ Short(l.tag) = l.tag
      /\ isdst' = isdst /\ fileNames' = fileNames
  BY <1>1, FewTagsBefore DEF Read
<1>3. /\ f \in Files /\ file_num \in Files /\ file_num \in Nat
      /\ TagsOf(f)' = TagsOf(f) \cup {t \in {l.tag} : f = file_num}
      /\ LinesOf(f, tag)' = LinesOf(f, tag) \cup {n \in {Last} : f = file_num /\ l.tag = tag}
      /\ lines'[file_num][Last] = l
  BY <1>1, LineAdded DEF TypeOK, Files
<1>4. /\ data'[Index(file_num, l.tag)].id = Entry(l).id
      /\ \A i \in DOMAIN data \ {Index(file_num, l.tag)} : data'[i] = data[i]
  BY <1>1, <1>2, <1>3, Stored
<1>5. CASE tag \in TagsOf(f)
  <2>1. Index(f, tag) \in DOMAIN data
    BY <1>2, <1>3, <1>5, TagFits, TakenIndex
  <2>2. data'[Index(f, tag)].id = data[Index(f, tag)].id
    <3>1. CASE Index(f, tag) = Index(file_num, l.tag)
      BY <1>2, <1>4, <2>1, <3>1 DEF Entry
    <3>2. CASE Index(f, tag) # Index(file_num, l.tag)
      BY <1>4, <2>1, <3>2
    <3> QED
      BY <3>1, <3>2
  <2> QED
    BY <1>1, <1>2, <1>3, <1>5, <2>2, IdStays
<1>6. CASE tag \notin TagsOf(f)
  <2>1. f = file_num /\ tag = l.tag
    BY <1>3, <1>6
  <2>2. Index(f, tag) \notin DOMAIN data
    BY <1>2, <1>3, <1>6, <2>1, TakenIndex
  <2>3. data'[Index(f, tag)].id = Id(fileNames[f], l, isdst)
    BY <1>2, <1>4, <2>1, <2>2 DEF Entry
  <2>4. Last \in LinesOf(f, tag)' /\ lines'[f][Last] = l
    BY <1>3, <2>1
  <2>5. isdst \in {0, 1}
    BY DEF TypeOK
  <2> QED
    BY <1>2, <2>3, <2>4, <2>5
<1> QED
  BY <1>5, <1>6

LEMMA KeyedStep ==
    ASSUME TypeOK, Grouped, Keyed, [Next]_vars
    PROVE  Keyed'
<1>1. ASSUME NEW l \in Lines, SkipLine(l) \/ Throw(l) PROVE Keyed'
  <2>1. Read(l) /\ ~Kept(l) /\ UNCHANGED data
    BY <1>1 DEF SkipLine, Throw, Kept
  <2> SUFFICES ASSUME FewTags', NEW f \in Files', NEW tag \in TagsOf(f)'
               PROVE  \E n \in LinesOf(f, tag)', dst \in {0, 1} :
                          /\ data'[Index(f, tag)].id = Id(fileNames'[f], lines'[f][n], dst)
                          /\ ~changed' => dst = isdst'
    BY DEF Keyed
  <2>2. FewTags
    BY <2>1, FewTagsBefore
  <2>3. f \in Files /\ tag \in TagsOf(f)
    BY <2>1, LineAdded
  <2> QED
    BY <2>1, <2>2, <2>3, IdStays
<1>2. ASSUME NEW l \in Lines, KeepLine(l) PROVE Keyed'
  BY <1>2, KeepKeepsKeys
<1>3. ASSUME ClockChanges PROVE Keyed'
  <2>1. UNCHANGED <<fileNames, lines, data>> /\ changed'
    BY <1>3 DEF ClockChanges
  <2>2. /\ Files' = Files /\ FewTags' = FewTags
        /\ \A f : TagsOf(f)' = TagsOf(f)
        /\ \A f, tag : LinesOf(f, tag)' = LinesOf(f, tag)
    BY <2>1 DEF Files, FewTags, TagsOf, LinesOf, KeptAt
  <2> QED
    BY <2>1, <2>2 DEF Keyed
<1>4. ASSUME NextFile \/ UNCHANGED vars PROVE Keyed'
  <2>1. UNCHANGED <<fileNames, lines, data, isdst, changed>>
    BY <1>4 DEF NextFile, vars
  <2>2. /\ Files' = Files /\ FewTags' = FewTags
        /\ \A f : TagsOf(f)' = TagsOf(f)
        /\ \A f, tag : LinesOf(f, tag)' = LinesOf(f, tag)
    BY <2>1 DEF Files, FewTags, TagsOf, LinesOf, KeptAt
  <2> QED
    BY <2>1, <2>2 DEF Keyed
<1> QED
  BY <1>1, <1>2, <1>3, <1>4 DEF Next

LEMMA IdsTell ==
    ASSUME TypeOK, Grouped, Keyed
    PROVE  IdsUnique
<1> SUFFICES ASSUME IdsFit, FewTags,
                    NEW i \in DOMAIN data, NEW j \in DOMAIN data, data[i].id = data[j].id
             PROVE  i = j \/ (changed /\ AnHourApart(data[i].timestamp, data[j].timestamp))
  BY DEF IdsUnique
<1>1. PICK f \in Files : \E tag \in TagsOf(f) : i = Index(f, tag)
  BY DEF Grouped
<1>2. PICK tag \in TagsOf(f) : i = Index(f, tag)
  BY <1>1
<1>3. PICK g \in Files : \E t \in TagsOf(g) : j = Index(g, t)
  BY DEF Grouped
<1>4. PICK t \in TagsOf(g) : j = Index(g, t)
  BY <1>3
<1>5. PICK n \in LinesOf(f, tag), dst \in {0, 1} :
          data[i].id = Id(fileNames[f], lines[f][n], dst) /\ (~changed => dst = isdst)
  BY <1>2 DEF Keyed
<1>6. PICK m \in LinesOf(g, t), dst1 \in {0, 1} :
          data[j].id = Id(fileNames[g], lines[g][m], dst1) /\ (~changed => dst1 = isdst)
  BY <1>4 DEF Keyed
<1>7. n \in KeptAt(f) /\ m \in KeptAt(g) /\ lines[f][n].tag = tag /\ lines[g][m].tag = t
  BY DEF LinesOf
<1>8. PICK l \in Line, k \in Line : l = lines[f][n] /\ k = lines[g][m] /\ Kept(l) /\ Kept(k)
  <2>1. lines[f] \in Seq(Line) /\ lines[g] \in Seq(Line)
    BY DEF TypeOK
  <2> QED
    BY <1>7, <2>1 DEF KeptAt
<1>9. PICK a \in Name, b \in Name : a = fileNames[f] /\ b = fileNames[g]
  BY DecoderAssumption DEF TypeOK, Files
<1>10. IdFits(a, l, dst) /\ IdFits(b, k, dst1)
  <2>1. l.tag \in 0 .. MAX_TAGS_PRO_IMAGE - 1 /\ k.tag \in 0 .. MAX_TAGS_PRO_IMAGE - 1
    BY <1>7, <1>8 DEF FewTags, KeptAt
  <2>2. IdFits(a, l, dst)
    BY <1>7, <1>8, <1>9, <2>1 DEF IdsFit, IdFits
  <2>3. IdFits(b, k, dst1)
    BY <1>7, <1>8, <1>9, <2>1 DEF IdsFit, IdFits
  <2> QED
    BY <2>2, <2>3
<1>11. /\ a.camID = b.camID /\ SameTime(a, dst, b, dst1)
       /\ l.x = k.x /\ l.y = k.y /\ TagBits(l.tag) = TagBits(k.tag)
  <2>1. Id(a, l, dst) = Id(b, k, dst1)
    BY <1>5, <1>6, <1>8, <1>9
  <2> QED
    BY <1>10, <2>1, IdTells
<1>12. CASE dst = dst1
  <2>1. f = g
    BY <1>9, <1>11, <1>12 DEF IdsFit, SameTime
  <2>2. tag = t
    BY <1>7, <1>8, <1>11, <2>1 DEF IdsFit
  <2> QED
    BY <1>2, <1>4, <2>1, <2>2
<1>13. CASE dst # dst1
  <2>1. changed
    <3>1. ~changed => dst = isdst
      BY <1>5
    <3>2. ~changed => dst1 = isdst
      BY <1>6
    <3>3. ASSUME ~changed PROVE FALSE
      BY <1>13, <3>1, <3>2, <3>3
    <3> QED
      BY <3>3
  <2>2. AnHourApart(a.timestamp, b.timestamp)
    BY <1>11, <1>13 DEF SameTime
  <2>3. data[i].timestamp = a.timestamp /\ data[j].timestamp = b.timestamp
    BY <1>2, <1>4, <1>9 DEF Grouped
  <2> QED
    BY <2>1, <2>2, <2>3
<1> QED
  BY <1>12, <1>13

\* No two detections of a batch get the same id, whatever the batch holds, if its pictures and
\* tags are such that the fields of id are wide enough; if the clock changes while the batch is
\* read, only those of pictures that are an hour apart can.
THEOREM DecoderIdsUnique == Spec => []IdsUnique
<1>1. Init => Keyed
  BY DEF Init, Keyed, TagsOf, KeptAt
<1>2. TypeOK /\ Grouped /\ Keyed /\ [Next]_vars => Keyed'
  BY KeyedStep
<1>3. TypeOK /\ Grouped /\ Keyed => IdsUnique
  BY IdsTell
<1> QED
  BY <1>1, <1>2, <1>3, DecoderTypeOK, DecoderGrouped, PTL DEF Spec

-----------------------------------------------------------------------------

\* A candidateID tells the candidate and the grid, if there are four of each.
LEMMA CandidateFields ==
    ASSUME NEW l \in Line, NEW k \in Line, Kept(l), Kept(k),
           l.cand \in 0 .. 3, l.grid \in 0 .. 3, k.cand \in 0 .. 3, k.grid \in 0 .. 3,
           CandidateId(l) = CandidateId(k)
    PROVE  l.cand = k.cand /\ l.grid = k.grid
<1>1. \A c \in {l, k} : /\ c.cand \in Nat /\ c.cand < 4 /\ c.grid \in Nat /\ c.grid < 4
                        /\ c.tag \in Int
  BY KeptFields
<1>2. ASSUME NEW c \in {l, k}
      PROVE  /\ Bits(c.cand) = {b \in 0 .. 1 : b + 2 \in CandidateId(c)}
             /\ Bits(c.grid) = {b \in 0 .. 1 : b \in CandidateId(c)}
  <2>1. /\ Bits(c.cand) \subseteq 0 .. 1 /\ Bits(c.grid) \subseteq 0 .. 1
        /\ Bits(c.tag) \subseteq 0 .. 63
    BY <1>1, <1>2, BitsRange DEF Bits
  <2>2. \A b \in 0 .. 3 : b \in CandidateId(c) <=> b - 2 \in Bits(c.cand) \/ b \in Bits(c.grid)
    BY <2>1 DEF CandidateId, Shift
  <2> QED
    BY <2>1, <2>2
<1>3. Bits(l.cand) = Bits(k.cand) /\ Bits(l.grid) = Bits(k.grid)
  BY <1>2
<1>4. l.cand < 2^31 /\ l.grid < 2^31 /\ k.cand < 2^31 /\ k.grid < 2^31
  BY <1>1
<1> QED
  BY <1>1, <1>3, <1>4, BitsTell

\* No two candidates of a detection get the same candidateID, if each tag has at most four
\* candidates with four grids each.
THEOREM DecoderCandidateIdsUnique == Spec => []CandidateIdsUnique
<1>1. TypeOK /\ Grouped => CandidateIdsUnique
  <2> SUFFICES ASSUME TypeOK, Grouped, CandidateIdsFit, FewTags, NEW i \in DOMAIN data,
                      NEW p \in DOMAIN data[i].candidate, NEW q \in DOMAIN data[i].candidate,
                      data[i].candidate[p].tag = data[i].candidate[q].tag
               PROVE  p = q
    BY DEF CandidateIdsUnique
  <2>1. PICK f \in Files : \E tag \in TagsOf(f) : i = Index(f, tag)
    BY DEF Grouped
  <2>2. PICK tag \in TagsOf(f) : i = Index(f, tag)
    BY <2>1
  <2>3. StandsFor(data[i], lines[f], LinesOf(f, tag))
    BY <2>2 DEF Grouped
  <2>4. PICK nth \in [DOMAIN data[i].candidate -> LinesOf(f, tag)] :
            /\ \A k, m \in DOMAIN nth : k < m => nth[k] < nth[m]
            /\ \A k \in DOMAIN nth : data[i].candidate[k] = Candidate(lines[f][nth[k]])
    BY <2>3 DEF StandsFor
  <2> DEFINE l == lines[f][nth[p]]
             k == lines[f][nth[q]]
  <2>5. /\ nth[p] \in KeptAt(f) /\ nth[q] \in KeptAt(f) /\ l.tag = tag /\ k.tag = tag
        /\ CandidateId(l) = CandidateId(k)
    <3>1. data[i].candidate[p] = Candidate(l) /\ data[i].candidate[q] = Candidate(k)
      BY <2>4
    <3>2. Candidate(l).tag = CandidateId(l) /\ Candidate(k).tag = CandidateId(k)
      BY DEF Candidate
    <3>3. nth[p] \in LinesOf(f, tag) /\ nth[q] \in LinesOf(f, tag)
      OBVIOUS
    <3> QED
      BY <3>1, <3>2, <3>3 DEF LinesOf
  <2>6. l \in Line /\ k \in Line /\ Kept(l) /\ Kept(k)
    <3>1. lines[f] \in Seq(Line)
      BY DEF TypeOK
    <3> QED
      BY <2>5, <3>1 DEF KeptAt
  <2>7. l.cand = k.cand /\ l.grid = k.grid
    BY <2>5, <2>6, CandidateFields DEF CandidateIdsFit
  <2>8. nth[p] = nth[q]
    BY <2>5, <2>7 DEF CandidateIdsFit
  <2>9. p \in Nat /\ q \in Nat /\ nth[p] \in Nat
    <3>1. data[i].candidate \in Seq(DecoderCandidate) /\ lines[f] \in Seq(Line)
      BY DEF TypeOK, Detection
    <3> QED
      BY <2>5, <3>1 DEF KeptAt
  <2> QED
    BY <2>4, <2>8, <2>9
<1> QED
  BY <1>1, DecoderTypeOK, DecoderGrouped, PTL
=============================================================================

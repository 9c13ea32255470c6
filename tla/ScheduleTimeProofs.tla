------------------------- MODULE ScheduleTimeProofs -------------------------
(* Facts about the time arithmetic, for every length of day and minute.    *)
EXTENDS ScheduleTime, TLAPS

\* A day is a positive number of seconds, at least as long as a minute.
LEMMA DayType == DAY_TO_SECOND \in Nat /\ DAY_TO_SECOND > 0
<1>1. DAY_TO_MINUTE \in Nat /\ DAY_TO_MINUTE > 1 /\ MINUTE_TO_SECOND \in Nat \ {0}
  BY ScheduleTimeAssumption
<1>2. ASSUME NEW d \in Nat, d > 1, NEW m \in Nat \ {0}
      PROVE  d * m \in Nat /\ d * m > 0
  BY <1>2
<1> QED
  BY <1>1, <1>2 DEF DAY_TO_SECOND

\* A moment is a midnight plus a second of that day.
LEMMA DayDecomposition ==
    ASSUME NEW now \in Int
    PROVE  /\ Midnight(now) \in Int
           /\ SecondOfDay(now) \in 0 .. (DAY_TO_SECOND - 1)
           /\ now = Midnight(now) + SecondOfDay(now)
<1>1. ASSUME NEW d \in Nat, d > 0
      PROVE  /\ (now \div d) * d \in Int
             /\ now % d \in 0 .. (d - 1)
             /\ now = (now \div d) * d + (now % d)
  BY <1>1
<1> QED
  BY <1>1, DayType DEF Midnight, SecondOfDay

\* Minutes of a day are ordered like the seconds they begin at.
LEMMA MinuteOrder ==
    ASSUME NEW i \in Int, NEW j \in Int
    PROVE  /\ i * MINUTE_TO_SECOND \in Int
           /\ i < j <=> i * MINUTE_TO_SECOND < j * MINUTE_TO_SECOND
           /\ i <= j <=> i * MINUTE_TO_SECOND <= j * MINUTE_TO_SECOND
           /\ (i + j) * MINUTE_TO_SECOND = i * MINUTE_TO_SECOND + j * MINUTE_TO_SECOND
<1>1. ASSUME NEW m \in Nat \ {0}
      PROVE  /\ i * m \in Int
             /\ i < j <=> i * m < j * m
             /\ i <= j <=> i * m <= j * m
             /\ (i + j) * m = i * m + j * m
  BY Z3T(30)
<1> QED
  BY <1>1, ScheduleTimeAssumption

\* The moments SetTimerTriggerTime computes are whole numbers of seconds.
LEMMA TriggerType ==
    ASSUME NEW start \in Int, NEW end \in Int, NEW now \in Int
    PROVE  SetTimerTriggerTime(start, end, now) \in Int \X Int
<1>1. Midnight(now) \in Int /\ start * MINUTE_TO_SECOND \in Int /\ end * MINUTE_TO_SECOND \in Int
      /\ DAY_TO_SECOND \in Int
  BY DayDecomposition, MinuteOrder, DayType
<1> QED
  BY <1>1 DEF SetTimerTriggerTime

\* Multiples of a positive number keep the order of what they are multiples of.
LEMMA MultipleOrder ==
    ASSUME NEW d \in Nat \ {0}, NEW i \in Int, NEW j \in Int
    PROVE  i * d \in Int /\ (i <= j <=> i * d <= j * d) /\ (i - j) * d = i * d - j * d
BY Z3T(30)

\* A number is a multiple and a remainder.
LEMMA Division ==
    ASSUME NEW d \in Nat \ {0}, NEW x \in Int
    PROVE  /\ x \div d \in Int /\ x % d \in 0 .. d - 1
           /\ (x \div d) * d \in Int
           /\ x = (x \div d) * d + (x % d)
<1>1. ASSUME NEW e \in Nat, e > 0
      PROVE  /\ x \div e \in Int /\ x % e \in 0 .. e - 1
             /\ (x \div e) * e \in Int
             /\ x = (x \div e) * e + (x % e)
  BY <1>1
<1> QED
  BY <1>1

\* The next multiple, and the one before.
LEMMA NextMultiple ==
    ASSUME NEW d \in Nat \ {0}, NEW q \in Int
    PROVE  q * d \in Int /\ (q + 1) * d = q * d + d /\ (q - 1) * d = q * d - d
BY Z3T(30)

\* A number is divided in one way only.
LEMMA Remainder ==
    ASSUME NEW d \in Nat \ {0}, NEW q \in Int, NEW r \in 0 .. d - 1, NEW n \in Int, n = q * d + r
    PROVE  n % d = r /\ n \div d = q
<1> DEFINE p == n \div d
           m == n % d
<1>1. p \in Int /\ m \in 0 .. d - 1 /\ p * d \in Int /\ n = p * d + m
  BY Division
<1> HIDE DEF p, m
<1>2. q * d \in Int /\ (q + 1) * d = q * d + d /\ (p + 1) * d = p * d + d
  BY <1>1, NextMultiple
<1>3. (q + 1 <= p => (q + 1) * d <= p * d) /\ (p + 1 <= q => (p + 1) * d <= q * d)
  BY <1>1, MultipleOrder
<1>4. ASSUME NEW x \in Int, NEW y \in Int, x = q * d, y = p * d PROVE p = q
  <2>1. n = x + r /\ n = y + m /\ (q + 1 <= p => x + d <= y) /\ (p + 1 <= q => y + d <= x)
    BY <1>1, <1>2, <1>3, <1>4
  <2> QED
    BY <1>1, <2>1
<1>5. p = q
  BY <1>1, <1>2, <1>4
<1>6. m = r
  BY <1>1, <1>2, <1>5
<1> QED
  BY <1>5, <1>6 DEF p, m

\* Whole days later it is the same second of the day.
LEMMA SameRemainder ==
    ASSUME NEW d \in Nat \ {0}, NEW k \in Int, NEW x \in Int
    PROVE  k * d \in Int /\ (k * d + x) % d = x % d
<1> DEFINE q == x \div d
           r == x % d
<1>1. q \in Int /\ r \in 0 .. d - 1 /\ q * d \in Int /\ x = q * d + r
  BY Division
<1> HIDE DEF q, r
<1>2. k * d \in Int /\ k + q \in Int /\ (k + q) * d = k * d + q * d
  BY <1>1, Z3T(30)
<1>3. k * d + x = (k + q) * d + r /\ k * d + x \in Int
  <2>1. ASSUME NEW y \in Int, NEW z \in Int, y = k * d, z = q * d
        PROVE  k * d + x = (k + q) * d + r
    BY <1>1, <1>2, <2>1
  <2> QED
    BY <1>1, <1>2, <2>1
<1>4. (k * d + x) % d = r
  BY <1>1, <1>2, <1>3, Remainder
<1> QED
  BY <1>2, <1>4 DEF r

LEMMA SameSecond ==
    ASSUME NEW now \in Int, NEW x \in Int
    PROVE  /\ SecondOfDay(Midnight(now) + x) = SecondOfDay(x)
           /\ SecondOfDay(Midnight(now) + x + DAY_TO_SECOND) = SecondOfDay(x)
           /\ SecondOfDay((Midnight(now) + x) - DAY_TO_SECOND) = SecondOfDay(x)
<1> DEFINE D == DAY_TO_SECOND
           q == now \div D
<1>1. D \in Nat \ {0}
  BY DayType
<1> HIDE DEF D
<1>2. q \in Int
  BY <1>1, Division
<1> HIDE DEF q
<1>3. q + 1 \in Int /\ q - 1 \in Int
      /\ q * D \in Int /\ (q + 1) * D = q * D + D /\ (q - 1) * D = q * D - D
  BY <1>1, <1>2, NextMultiple
<1>4. /\ (q * D + x) % D = x % D
      /\ ((q + 1) * D + x) % D = x % D
      /\ ((q - 1) * D + x) % D = x % D
  BY <1>1, <1>2, <1>3, SameRemainder
<1>5. q * D + x + D = (q + 1) * D + x /\ (q * D + x) - D = (q - 1) * D + x
  <2>1. ASSUME NEW y \in Int, y = q * D
        PROVE q * D + x + D = (q + 1) * D + x /\ (q * D + x) - D = (q - 1) * D + x
    BY <1>1, <1>3, <2>1
  <2> QED
    BY <1>3, <2>1
<1>6. Midnight(now) = q * D
  BY DEF Midnight, q, D
<1> QED
  BY <1>4, <1>5, <1>6 DEF SecondOfDay, D

\* A repeating timer goes off at the same second of the next day.
LEMMA NextDay == ASSUME NEW x \in Int PROVE SecondOfDay(x + DAY_TO_SECOND) = SecondOfDay(x)
<1> DEFINE D == DAY_TO_SECOND
<1>1. D \in Nat \ {0}
  BY DayType
<1> HIDE DEF D
<1>2. ASSUME NEW k \in Int, k = 1 PROVE (k * D + x) % D = x % D /\ k * D + x = x + D
  <2>1. (k * D + x) % D = x % D
    BY <1>1, SameRemainder
  <2>2. k * D + x = x + D
    BY <1>1, <1>2
  <2> QED
    BY <2>1, <2>2
<1>3. (x + D) % D = x % D
  BY <1>2
<1> QED
  BY <1>3 DEF SecondOfDay, D

\* Every timer goes off at the second of the day its minute of the schedule begins.
LEMMA TriggerSecond ==
    ASSUME NEW start \in Int, NEW end \in Int, NEW now \in Int
    PROVE  /\ SecondOfDay(SetTimerTriggerTime(start, end, now)[1]) = SecondOfDay(start * MINUTE_TO_SECOND)
           /\ SecondOfDay(SetTimerTriggerTime(start, end, now)[2]) = SecondOfDay(end * MINUTE_TO_SECOND)
<1> DEFINE s == start * MINUTE_TO_SECOND
           e == end * MINUTE_TO_SECOND
<1>1. s \in Int /\ e \in Int
  BY MinuteOrder
<1> HIDE DEF s, e
<1>2. /\ SecondOfDay(Midnight(now) + s) = SecondOfDay(s)
      /\ SecondOfDay(Midnight(now) + s + DAY_TO_SECOND) = SecondOfDay(s)
      /\ SecondOfDay(Midnight(now) + e) = SecondOfDay(e)
      /\ SecondOfDay(Midnight(now) + e + DAY_TO_SECOND) = SecondOfDay(e)
      /\ SecondOfDay((Midnight(now) + e) - DAY_TO_SECOND) = SecondOfDay(e)
  BY <1>1, SameSecond
<1>3. SetTimerTriggerTime(start, end, now)[1] \in {Midnight(now) + s, Midnight(now) + s + DAY_TO_SECOND}
  BY DEF SetTimerTriggerTime, s
<1>4. SetTimerTriggerTime(start, end, now)[2]
          \in {Midnight(now) + e, Midnight(now) + e + DAY_TO_SECOND, (Midnight(now) + e) - DAY_TO_SECOND}
  <2>1. CASE now <= Midnight(now) + start * MINUTE_TO_SECOND
    BY <2>1 DEF SetTimerTriggerTime, e
  <2>2. CASE ~(now <= Midnight(now) + start * MINUTE_TO_SECOND)
    BY <2>2 DEF SetTimerTriggerTime, e
  <2> QED
    BY <2>1, <2>2
<1> QED
  BY <1>2, <1>3, <1>4 DEF s, e

\* A minute of the day has begun, or not, at the second it begins.
LEMMA MinuteBegins ==
    ASSUME NEW now \in Int, NEW i \in Int
    PROVE  /\ MinuteOfDay(now) \in Int
           /\ i <= MinuteOfDay(now) <=> i * MINUTE_TO_SECOND <= SecondOfDay(now)
<1> DEFINE s == SecondOfDay(now)
           M == MINUTE_TO_SECOND
           j == s \div M
<1>1. s \in Int /\ M \in Nat \ {0}
  BY DayDecomposition, DayType, ScheduleTimeAssumption
<1> HIDE DEF s, M
<1>2. j \in Int /\ s % M \in 0 .. M - 1 /\ s = j * M + (s % M)
  BY <1>1, Division
<1> HIDE DEF j
<1>3. j * M \in Int /\ i * M \in Int /\ (j + 1) * M = j * M + M
  BY <1>1, <1>2, NextMultiple
<1>4. (i <= j <=> i * M <= j * M) /\ (j + 1 <= i <=> (j + 1) * M <= i * M)
  BY <1>1, <1>2, MultipleOrder
<1>5. i <= j <=> i * M <= s
  <2>1. ASSUME NEW x \in Int, NEW y \in Int, NEW r \in 0 .. M - 1, x = i * M, y = j * M, r = s % M
        PROVE  i <= j <=> x <= s
    <3>1. s = y + r
      BY <1>2, <2>1
    <3>2. (i <= j <=> x <= y) /\ (j + 1 <= i <=> y + M <= x)
      BY <1>3, <1>4, <2>1
    <3> QED
      BY <1>1, <1>2, <2>1, <3>1, <3>2
  <2> QED
    BY <1>2, <1>3, <2>1
<1>6. MinuteOfDay(now) = j
  BY DEF MinuteOfDay, j, s, M
<1> QED
  BY <1>2, <1>5, <1>6 DEF s, M

\* Settings are far from the largest 64-bit value.
LEMMA SmallTime == ASSUME NEW x \in 0 .. UINT64_MODULUS - 1 PROVE ToUint64(x) = x
<1>1. UINT64_MODULUS \in Nat \ {0} /\ x = 0 * UINT64_MODULUS + x
  BY ScheduleTimeAssumption
<1>2. ASSUME NEW d \in Nat \ {0}, NEW y \in 0 .. d - 1 PROVE y % d = y
  BY <1>2
<1> QED
  BY <1>1, <1>2 DEF ToUint64

\* A schedule and a moment in seconds of the day, and what the dark interval is
\* in terms of these.
LEMMA InSeconds ==
    ASSUME NEW start \in 0 .. UINT64_MODULUS - 1, NEW end \in 0 .. UINT64_MODULUS - 1,
           IsValidScheduleTime(start, end), NEW now \in Int,
           NEW s, s = start * MINUTE_TO_SECOND, NEW e, e = end * MINUTE_TO_SECOND
    PROVE  /\ s \in Nat /\ e \in Nat /\ s < e /\ s < DAY_TO_SECOND /\ e < DAY_TO_SECOND + s
           /\ IsWithinTimeInterval(start, end, now) <=>
                IF e <= DAY_TO_SECOND THEN s <= SecondOfDay(now) /\ SecondOfDay(now) < e
                ELSE ~(e - DAY_TO_SECOND <= SecondOfDay(now) /\ SecondOfDay(now) < s)
<1> DEFINE D == DAY_TO_MINUTE
           M == MINUTE_TO_SECOND
           minute == MinuteOfDay(now)
           second == SecondOfDay(now)
<1>1. D \in Nat /\ M \in Nat \ {0} /\ DAY_TO_SECOND = D * M /\ D * M \in Nat /\ D \in Int
      /\ start \in Nat /\ end \in Nat /\ UINT64_MODULUS \in Nat
  BY ScheduleTimeAssumption, DayType DEF DAY_TO_SECOND
<1>2. start < end /\ start < D /\ end < D + start
  BY SmallTime DEF IsValidScheduleTime
<1>3. minute \in Int /\ second \in 0 .. DAY_TO_SECOND - 1
      /\ \A i \in Int : i <= minute <=> i * M <= second
  BY MinuteBegins, DayDecomposition
<1>4. IsWithinTimeInterval(start, end, now) <=>
          IF end <= D THEN start <= minute /\ minute < end
          ELSE ~(end - D <= minute /\ minute < start)
  BY SmallTime DEF IsWithinTimeInterval
<1> HIDE DEF D, M, minute, second
<1>5. s \in Int /\ e \in Int /\ (0 <= start <=> 0 * M <= s) /\ 0 * M = 0
      /\ (start < end <=> s < e) /\ (start < D <=> s < D * M)
      /\ (end <= D <=> e <= D * M)
  BY <1>1, MinuteOrder DEF M
<1>6. D + start \in Int /\ (D + start) * M = D * M + s /\ (end < D + start <=> e < D * M + s)
  BY <1>1, MinuteOrder DEF M
<1>7. end - D \in Int /\ (end - D) * M = e - D * M
  BY <1>1, MultipleOrder DEF M
<1>8. /\ start <= minute <=> s <= second
      /\ minute < end <=> second < e
      /\ minute < start <=> second < s
      /\ end - D <= minute <=> e - D * M <= second
  <2>1. second \in Int
    BY <1>3, DayType
  <2>2. /\ start <= minute <=> start * M <= second
        /\ end <= minute <=> end * M <= second
        /\ end - D <= minute <=> (end - D) * M <= second
    <3>1. start \in Int /\ end \in Int /\ end - D \in Int
      BY <1>1, <1>7
    <3> QED
      BY <1>3, <3>1, Zenon
  <2>3. start * M = s /\ end * M = e
    BY DEF M
  <2> QED
    BY <1>1, <1>3, <1>5, <1>7, <2>1, <2>2, <2>3
<1> QED
  BY <1>1, <1>2, <1>4, <1>5, <1>6, <1>8 DEF D, M, minute, second

\* IsWithinTimeInterval is the schedule taken literally: some day's dark interval
\* holds the moment (AlarmTimerManager::IsWithinTimeInterval).
THEOREM WithinMeansDark ==
    ASSUME NEW start \in 0 .. UINT64_MODULUS - 1, NEW end \in 0 .. UINT64_MODULUS - 1,
           IsValidScheduleTime(start, end), NEW now \in Int
    PROVE  IsWithinTimeInterval(start, end, now) <=> InDarkInterval(start, end, now)
<1> DEFINE s == start * MINUTE_TO_SECOND
           e == end * MINUTE_TO_SECOND
           D == DAY_TO_SECOND
           m == Midnight(now)
           second == SecondOfDay(now)
<1>1. /\ s \in Nat /\ e \in Nat /\ s < e /\ s < D /\ e < D + s
      /\ IsWithinTimeInterval(start, end, now) <=>
            IF e <= D THEN s <= second /\ second < e
            ELSE ~(e - D <= second /\ second < s)
  BY InSeconds
<1>2. D \in Nat /\ m \in Int /\ second \in 0 .. D - 1 /\ now = m + second
  BY DayType, DayDecomposition
<1>3. InDarkInterval(start, end, now) <=>
          \E day \in {-1, 0} : m + day * D + s <= now /\ now < m + day * D + e
  BY DEF InDarkInterval
<1> HIDE DEF s, e, D, m, second
<1>4. InDarkInterval(start, end, now) <=>
          \/ m - D + s <= now /\ now < m - D + e
          \/ m + s <= now /\ now < m + e
  <2>1. m + (-1) * D = m - D /\ m + 0 * D = m
    BY <1>2
  <2> QED
    BY <1>3, <2>1
<1> QED
  BY <1>1, <1>2, <1>4

\* The timers go off within a day, the end timer first exactly if it is dark now.
LEMMA TriggerOrder ==
    ASSUME NEW start \in 0 .. UINT64_MODULUS - 1, NEW end \in 0 .. UINT64_MODULUS - 1,
           IsValidScheduleTime(start, end), NEW now \in Int,
           NEW t, t = SetTimerTriggerTime(start, end, now)
    PROVE  /\ t[1] \in now .. now + DAY_TO_SECOND /\ t[2] \in now .. now + DAY_TO_SECOND
           /\ t[1] # now => (t[2] < t[1] <=> IsWithinTimeInterval(start, end, now))
<1> DEFINE s == start * MINUTE_TO_SECOND
           e == end * MINUTE_TO_SECOND
           D == DAY_TO_SECOND
           m == Midnight(now)
           second == SecondOfDay(now)
<1>1. /\ s \in Nat /\ e \in Nat /\ s < e /\ s < D /\ e < D + s
      /\ IsWithinTimeInterval(start, end, now) <=>
            IF e <= D THEN s <= second /\ second < e
            ELSE ~(e - D <= second /\ second < s)
  BY InSeconds
<1>2. D \in Nat /\ m \in Int /\ second \in 0 .. D - 1 /\ now = m + second
  BY DayType, DayDecomposition
<1>3. CASE now <= m + s
  <2>1. t[1] = m + s /\ t[2] = IF now < (m + e) - D THEN (m + e) - D ELSE m + e
    BY <1>3 DEF SetTimerTriggerTime
  <2> HIDE DEF s, e, D, m, second
  <2> QED
    BY <1>1, <1>2, <1>3, <2>1 DEF D
<1>4. CASE ~(now <= m + s)
  <2>1. t[1] = m + s + D /\ t[2] = IF now >= m + e THEN m + e + D ELSE m + e
    BY <1>4 DEF SetTimerTriggerTime
  <2> HIDE DEF s, e, D, m, second
  <2> QED
    BY <1>1, <1>2, <1>4, <2>1 DEF D
<1> QED
  BY <1>3, <1>4

\* A minute of the schedule begins once in the day after a moment.
LEMMA BeginsOnce ==
    ASSUME NEW minute \in Int, NEW now \in Int, NEW b \in Boundaries(minute, minute, now),
           now < b, b <= now + DAY_TO_SECOND
    PROVE  NextBegin(minute, now) = b
<1> DEFINE D == DAY_TO_SECOND
           x == Midnight(now) + minute * MINUTE_TO_SECOND
           c == NextBegin(minute, now)
<1>1. D \in Nat /\ D > 0 /\ x \in Int
  <2>1. Midnight(now) \in Int /\ minute * MINUTE_TO_SECOND \in Int
    BY DayDecomposition, MinuteOrder
  <2> QED
    BY <2>1, DayType
<1>2. \A a \in Boundaries(minute, minute, now) : \E i \in -2 .. 2 : a = x + i * D
  <2>1. ASSUME NEW i \in -2 .. 2, NEW y \in Int, NEW z \in Int, NEW d \in Nat
        PROVE  y + i * d + z = y + z + i * d
    BY <2>1, Z3T(30)
  <2>2. Midnight(now) \in Int /\ minute * MINUTE_TO_SECOND \in Int
    BY DayDecomposition, MinuteOrder
  <2> QED
    BY <1>1, <2>1, <2>2 DEF Boundaries
<1>3. c \in Boundaries(minute, minute, now) /\ now < c /\ c <= now + D
  BY DEF NextBegin
<1>4. PICK i \in -2 .. 2 : b = x + i * D
  BY <1>2
<1>5. PICK j \in -2 .. 2 : c = x + j * D
  BY <1>2, <1>3
<1>6. ASSUME NEW k \in Int, NEW l \in Int, k < l PROVE x + k * D + D <= x + l * D
  <2>1. k * D \in Int /\ l * D \in Int /\ (k + 1) * D = k * D + D
    BY <1>1, NextMultiple
  <2>2. (k + 1) * D <= l * D
    BY <1>1, <1>6, MultipleOrder
  <2> HIDE DEF D, x
  <2> QED
    BY <1>1, <2>1, <2>2
<1>7. b \in Int /\ c \in Int
  <2>1. i * D \in Int /\ j * D \in Int
    BY <1>1, MultipleOrder
  <2> HIDE DEF D, x, c
  <2> QED
    BY <1>1, <1>4, <1>5, <2>1
<1>8. i = j
  <2>1. i < j => b + D <= c
    BY <1>4, <1>5, <1>6
  <2>2. j < i => c + D <= b
    BY <1>4, <1>5, <1>6
  <2> HIDE DEF D, x, c
  <2> QED
    BY <1>1, <1>3, <1>7, <2>1, <2>2 DEF D
<1> QED
  BY <1>4, <1>5, <1>8

\* The window of a manual choice lasts through the present phase and the next one:
\* to where the other phase next gives way to the present one.
LEMMA WindowLasts ==
    ASSUME NEW start \in 0 .. UINT64_MODULUS - 1, NEW end \in 0 .. UINT64_MODULUS - 1,
           IsValidScheduleTime(start, end), NEW now \in Int,
           end <= DAY_TO_MINUTE \/ MinuteOfDay(now) # start
    PROVE  GetTempColorModeTimeInfo(start, end, now).keepEnd + 1
                = NextBegin(IF IsWithinTimeInterval(start, end, now) THEN start ELSE end, now)
<1> DEFINE s == start * MINUTE_TO_SECOND
           e == end * MINUTE_TO_SECOND
           D == DAY_TO_SECOND
           m == Midnight(now)
           second == SecondOfDay(now)
           within == IsWithinTimeInterval(start, end, now)
           pre == IsWithInPreInterval(start, now)
           night == end > DAY_TO_MINUTE
           minute == IF within THEN start ELSE end
           until == GetTempColorModeTimeInfo(start, end, now).keepEnd + 1
<1>1. /\ s \in Nat /\ e \in Nat /\ s < e /\ s < D /\ e < D + s
      /\ within <=> IF e <= D THEN s <= second /\ second < e
                    ELSE ~(e - D <= second /\ second < s)
  BY InSeconds
<1>2. D \in Nat /\ D > 0 /\ m \in Int /\ second \in 0 .. D - 1 /\ now = m + second
  BY DayType, DayDecomposition
<1>3. start \in Int /\ end \in Int /\ DAY_TO_MINUTE \in Int
  BY ScheduleTimeAssumption
<1>4. night <=> e > D
  BY <1>2, <1>3, MinuteOrder DEF DAY_TO_SECOND
<1>5. (start + DAY_TO_MINUTE) * MINUTE_TO_SECOND = s + D
      /\ (end + DAY_TO_MINUTE) * MINUTE_TO_SECOND = e + D
  BY <1>3, MinuteOrder DEF DAY_TO_SECOND
\* But for the excepted minute the code tells on which side of the start it is.
<1>6. night \/ ~within => (pre <=> second < s)
  <2>1. /\ MinuteOfDay(now) \in Int
        /\ start <= MinuteOfDay(now) <=> s <= second
        /\ end <= MinuteOfDay(now) <=> e <= second
    BY <1>3, MinuteBegins
  <2>2. (pre <=> MinuteOfDay(now) <= start) /\ (s < e => start < end)
    BY <1>3, MinuteOrder DEF IsWithInPreInterval
  <2>3. ~night \/ MinuteOfDay(now) # start
    BY <1>3
  <2> HIDE DEF s, e, D, second, within, pre, night
  <2> QED
    BY <1>1, <1>2, <1>3, <1>4, <2>1, <2>2, <2>3
<1>7. until = m + (IF night THEN IF ~within THEN e ELSE IF pre THEN s ELSE s + D
                   ELSE IF within THEN s + D ELSE IF pre THEN e ELSE e + D)
  <2> DEFINE offset == IF night THEN IF ~within THEN end ELSE IF pre THEN start ELSE start + DAY_TO_MINUTE
                       ELSE IF within THEN start + DAY_TO_MINUTE ELSE IF pre THEN end
                       ELSE end + DAY_TO_MINUTE
  <2>1. GetTempColorModeTimeInfo(start, end, now).keepEnd = m + offset * MINUTE_TO_SECOND - 1
    <3>1. GetTempColorModeTimeInfo(start, end, now)
              = [keepStart |-> now, keepEnd |-> m + offset * MINUTE_TO_SECOND - 1]
      BY DEF GetTempColorModeTimeInfo
    <3>2. ASSUME NEW window, NEW k, window = [keepStart |-> now, keepEnd |-> k]
          PROVE  window.keepEnd = k
      BY <3>2
    <3> HIDE DEF offset, m
    <3> QED
      BY <3>1, <3>2, Zenon
  <2>2. offset * MINUTE_TO_SECOND = IF night THEN IF ~within THEN e ELSE IF pre THEN s ELSE s + D
                                    ELSE IF within THEN s + D ELSE IF pre THEN e ELSE e + D
    <3>1. CASE night /\ ~within
      BY <3>1
    <3>2. CASE night /\ within /\ pre
      BY <3>2
    <3>3. CASE night /\ within /\ ~pre
      BY <3>3, <1>5
    <3>4. CASE ~night /\ within
      BY <3>4, <1>5
    <3>5. CASE ~night /\ ~within /\ pre
      BY <3>5
    <3>6. CASE ~night /\ ~within /\ ~pre
      BY <3>6, <1>5
    <3> QED
      BY <3>1, <3>2, <3>3, <3>4, <3>5, <3>6
  <2>3. offset * MINUTE_TO_SECOND \in Int
    <3>1. offset \in Int
      <4> HIDE DEF night, within, pre
      <4> QED
        BY <1>3
    <3> HIDE DEF offset
    <3> QED
      BY <3>1, MinuteOrder
  <2> HIDE DEF offset, m, night, within, pre, D, s, e
  <2>4. until = m + offset * MINUTE_TO_SECOND
    BY <1>2, <2>1, <2>3
  <2> QED
    BY <2>2, <2>4
<1>8. now < until /\ until <= now + D
      /\ until \in {m + minute * MINUTE_TO_SECOND, m + minute * MINUTE_TO_SECOND + D}
  <2>1. minute * MINUTE_TO_SECOND = IF within THEN s ELSE e
    OBVIOUS
  <2> HIDE DEF s, e, D, m, second, within, pre, night, minute, until
  <2> QED
    BY <1>1, <1>2, <1>4, <1>6, <1>7, <2>1
<1>9. until \in Boundaries(minute, minute, now)
  <2>1. m + 0 * D + minute * MINUTE_TO_SECOND = m + minute * MINUTE_TO_SECOND
        /\ m + 1 * D + minute * MINUTE_TO_SECOND = m + minute * MINUTE_TO_SECOND + D
    <3>1. minute * MINUTE_TO_SECOND \in Int
      BY <1>1
    <3> HIDE DEF m, D, minute
    <3> QED
      BY <1>2, <3>1
  <2>2. 0 \in -2 .. 2 /\ 1 \in -2 .. 2
    OBVIOUS
  <2> HIDE DEF until
  <2> QED
    BY <1>8, <2>1, <2>2 DEF Boundaries
<1>10. minute \in Int
  BY <1>3
<1>11. until = NextBegin(minute, now)
  <2> HIDE DEF until, minute
  <2> QED
    BY <1>8, <1>9, <1>10, BeginsOnce DEF D
<1> QED
  BY <1>11
=============================================================================

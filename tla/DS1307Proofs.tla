----------------------------- MODULE DS1307Proofs ------------------------------
(***************************************************************************)
(* The DS1307 driver and its chip, for any times, addresses, bytes, and    *)
(* transfers that fail anywhere: the conversions, the RAM, the calendar of *)
(* a century and its next second, and the time that is set, counted on by  *)
(* the chip and read.                                                      *)
(***************************************************************************)
EXTENDS DS1307, SequenceTheorems, TLAPS

\* Every number that fits in two digits survives the way to a register and
\* back, and the register holds the code that the chip's counters understand.
THEOREM CodesAreExact ==
  ASSUME NEW n \in 0 .. 99
  PROVE  DEC_TO_BCD(n) = Code(n) /\ BCD_TO_DEC(DEC_TO_BCD(n)) = n /\ DEC_TO_BCD(n) \in Byte
<1>1. PICK q \in 0 .. 9, r \in 0 .. 9 : n = 10 * q + r
  <2>1. \/ n - 0 \in 0 .. 9 \/ n - 10 \in 0 .. 9 \/ n - 20 \in 0 .. 9 \/ n - 30 \in 0 .. 9
        \/ n - 40 \in 0 .. 9 \/ n - 50 \in 0 .. 9 \/ n - 60 \in 0 .. 9 \/ n - 70 \in 0 .. 9
        \/ n - 80 \in 0 .. 9 \/ n - 90 \in 0 .. 9
    OBVIOUS
  <2>2. \E q \in 0 .. 9 : n - 10 * q \in 0 .. 9
    BY <2>1
  <2>3. QED
    BY <2>2
<1>2. n \div 10 = q /\ n % 10 = r
  BY <1>1
<1>3. DEC_TO_BCD(n) = 16 * q + r
  BY <1>1, <1>2 DEF DEC_TO_BCD
<1>4. (16 * q + r) \div 16 = q /\ (16 * q + r) % 16 = r
  OBVIOUS
<1>5. BCD_TO_DEC(16 * q + r) = r + 10 * q
  BY <1>4 DEF BCD_TO_DEC
<1>6. 16 * q + r \in Byte
  BY DEF Byte
<1>7. Code(n) = 16 * q + r
  BY <1>2 DEF Code
<1>8. QED
  BY <1>1, <1>3, <1>5, <1>6, <1>7

-----------------------------------------------------------------------------
(* The RAM.                                                                *)

Files == DOMAIN regs = 0 .. 63 /\ DOMAIN stored = Ram
IInv == Files /\ RamKept

\* A second changes the registers of the clock only.
LEMMA TickKeeps == ASSUME IInv, Tick PROVE IInv'
<1>1. stored' = stored /\ (regs' = regs \/ regs' = Counted(regs))
  BY DEF Tick
<1>2. DOMAIN Counted(regs) = DOMAIN regs
  BY DEF Counted
<1>3. \A a \in Ram : Counted(regs)[a] = regs[a]
  BY DEF Counted, IInv, Files, Ram
<1>4. QED
  BY <1>1, <1>2, <1>3 DEF IInv, Files, RamKept

\* Where a transfer that begins at address leaves the register a alone.
LEMMA TransferMisses ==
  ASSUME NEW address \in Nat, NEW data, NEW k \in Nat, NEW a \in 0 .. 63,
         (a - address) % 64 >= k
  PROVE  Arrived(address, data, k)[a] = regs[a]
BY DEF Arrived

LEMMA SetTimeKeeps ==
  ASSUME IInv, NEW t, ds1307_set_time(t)
  PROVE  IInv'
<1>1. PICK k \in 0 .. 7, err \in {"OK", "ERR_I2C"} :
        ds1307_write_registers(0, timeRegs(localtime(t)), k, err)
  BY DEF ds1307_set_time
<1>2. regs' = Arrived(0, timeRegs(localtime(t)), k) /\ stored' = stored
  BY <1>1 DEF ds1307_write_registers, ds1307_set_time
<1>3. \A a \in Ram : a \in 0 .. 63 /\ (a - 0) % 64 >= k
  BY DEF Ram
<1>4. \A a \in Ram : regs'[a] = regs[a]
  BY <1>2, <1>3, TransferMisses
<1>5. DOMAIN regs' = 0 .. 63
  BY <1>2 DEF Arrived
<1>6. QED
  BY <1>2, <1>4, <1>5 DEF IInv, Files, RamKept

LEMMA WriteRamKeeps ==
  ASSUME IInv, NEW address \in Nat, NEW n \in Nat, NEW data, Len(data) = n,
         Fits(address, n), ds1307_write_ram(address, data)
  PROVE  IInv'
<1>1. CASE OutOfRange(address)
  BY <1>1 DEF OutOfRange, IInv, Files, RamKept
<1>2. CASE ~OutOfRange(address)
  <2>1. PICK k \in 0 .. n, err \in {"OK", "ERR_I2C"} :
          /\ ds1307_write_registers(address, data, k, err)
          /\ stored' = Leaves(address, data, err)
          /\ InRange(address)
    BY <1>2 DEF ds1307_write_ram
  <2>2. regs' = Arrived(address, data, k) /\ (err = "OK" => k = n)
    BY <2>1 DEF ds1307_write_registers
  <2>3. address \in Ram /\ address + n <= 64
    BY <2>1 DEF InRange, Fits, Ram
  <2>4. DOMAIN regs' = 0 .. 63 /\ DOMAIN stored' = Ram
    BY <2>1, <2>2 DEF Arrived, Leaves
  <2>5. ASSUME NEW a \in Ram PROVE regs'[a] \in stored'[a]
    <3>1. a \in 0 .. 63 /\ regs[a] \in stored[a]
      <4>1. regs[a] \in stored[a]
        BY DEF IInv, RamKept
      <4>2. a \in 0 .. 63
        BY DEF Ram
      <4>3. QED
        BY <4>1, <4>2
    <3>2. stored'[a] = IF a \notin address .. address + n - 1 THEN stored[a]
                       ELSE {data[a - address + 1]} \cup (IF err = "OK" THEN {} ELSE stored[a])
      BY <2>1, <2>3 DEF Leaves
    <3>3. CASE (a - address) % 64 < k
      <4>1. a \in address .. address + n - 1 /\ (a - address) % 64 = a - address
        BY <2>1, <2>3, <3>3 DEF Ram
      <4>2. regs'[a] = data[a - address + 1]
        BY <2>2, <3>1, <3>3, <4>1 DEF Arrived
      <4>3. QED
        BY <3>2, <4>1, <4>2
    <3>4. CASE (a - address) % 64 >= k
      <4>1. regs'[a] = regs[a]
        <5>1. address \in Nat /\ k \in Nat
          BY <2>1
        <5>2. Arrived(address, data, k)[a] = regs[a]
          BY ONLY <3>1, <3>4, <5>1, TransferMisses
        <5>3. QED
          BY ONLY <2>2, <5>2
      <4>2. CASE a \in address .. address + n - 1
        <5>1. err # "OK"
          BY <2>1, <2>2, <2>3, <3>4, <4>2 DEF Ram
        <5>2. QED
          BY <3>1, <3>2, <4>1, <4>2, <5>1
      <4>3. CASE a \notin address .. address + n - 1
        BY <3>1, <3>2, <4>1, <4>3
      <4>4. QED
        BY <4>2, <4>3
    <3>5. QED
      BY <2>1, <2>3, <3>3, <3>4 DEF Ram
  <2>6. QED
    BY <2>4, <2>5 DEF IInv, Files, RamKept
<1>3. QED
  BY <1>1, <1>2

LEMMA StepKeeps == ASSUME IInv, Next PROVE IInv'
<1>1. CASE Tick
  BY <1>1, TickKeeps
<1>2. CASE ds1307_add_device \/ ds1307_remove_device \/ ds1307_get_time
  BY <1>2
  DEF ds1307_add_device, ds1307_remove_device, ds1307_get_time, ds1307_read_registers, IInv, Files,
      RamKept
<1>3. CASE \E t \in Times : ds1307_set_time(t)
  BY <1>3, SetTimeKeeps
<1>4. CASE \E a \in Addresses : ds1307_read_ram(a)
  BY <1>4 DEF ds1307_read_ram, OutOfRange, ds1307_read_registers, IInv, Files, RamKept
<1>5. ASSUME NEW a \in Addresses, NEW n \in Lengths, NEW b \in Bytes,
             Fits(a, n), ds1307_write_ram(a, [i \in 1 .. n |-> b])
      PROVE  IInv'
  <2>1. a \in Nat /\ n \in Nat
    <3>1. Addresses \subseteq Byte /\ Lengths \subseteq Nat
      BY ClockAssumption DEF ClockAssumption
    <3>2. QED
      BY <3>1 DEF Byte
  <2>2. Len([i \in 1 .. n |-> b]) = n
    BY <2>1
  <2>3. QED
    BY <1>5, <2>1, <2>2, WriteRamKeeps
<1>6. QED
  BY <1>1, <1>2, <1>3, <1>4, <1>5 DEF Next

\* The RAM keeps what is written there, whichever transfers fail and wherever,
\* and however the clock is set and counts, for callers that end their writes
\* where the RAM does.
THEOREM RamIsKept == Spec => []RamKept
<1>1. Init => IInv
  <2>1. ASSUME Init PROVE IInv
    <3>1. DOMAIN regs = 0 .. 63 /\ DOMAIN stored = Ram
      BY <2>1 DEF Init
    <3>2. \A a \in Ram : regs[a] = 0
      <4>1. \A a \in Ram : a \in 0 .. 63 /\ a \notin Clock /\ a # 0
        BY DEF Ram, Clock
      <4>2. CASE clock = Unset /\ regs = [a \in 0 .. 63 |-> IF a = 0 THEN 128 ELSE 0]
        BY <4>1, <4>2
      <4>3. CASE \E t \in Times :
              regs = [a \in 0 .. 63 |-> IF a \in Clock THEN Shown(t, TRUE)[a + 1] ELSE 0]
        BY <4>1, <4>3
      <4>4. QED
        BY <2>1, <4>2, <4>3 DEF Init
    <3>3. \A a \in Ram : stored[a] = {0}
      BY <2>1 DEF Init
    <3>4. QED
      BY <3>1, <3>2, <3>3 DEF IInv, Files, RamKept
  <2>2. QED
    BY <2>1
<1>2. ASSUME IInv, UNCHANGED vars PROVE IInv'
  BY <1>2 DEF vars, IInv, Files, RamKept
<1>3. IInv /\ [Next]_vars => IInv'
  BY <1>2, StepKeeps
<1>4. IInv => RamKept
  BY DEF IInv
<1>5. QED
  BY <1>1, <1>3, <1>4, PTL DEF Spec

-----------------------------------------------------------------------------
(* The calendar.                                                           *)

LastDay == 36524  \* 2099-12-31

Leap(y) == IF y % 4 = 0 THEN 1 ELSE 0

LEMMA YearLength ==
  ASSUME NEW y \in Nat
  PROVE  YearStart(y) \in Nat /\ YearStart(y + 1) = YearStart(y) + 365 + Leap(y)
<1>1. (y + 4) \div 4 = (y + 3) \div 4 + Leap(y)
  BY DEF Leap
<1>2. (y + 1) + 3 = y + 4
  OBVIOUS
<1>3. (y + 3) \div 4 \in Nat /\ Leap(y) \in Nat
  BY DEF Leap
<1>4. QED
  BY <1>1, <1>2, <1>3 DEF YearStart

LEMMA YearsGrow ==
  ASSUME NEW y \in Nat, NEW z \in Nat, y < z
  PROVE  YearStart(y + 1) <= YearStart(z)
<1>1. ((y + 1) + 3) \div 4 <= (z + 3) \div 4
  OBVIOUS
<1>2. ((y + 1) + 3) \div 4 \in Nat /\ (z + 3) \div 4 \in Nat
  OBVIOUS
<1>3. 365 * (y + 1) <= 365 * z
  OBVIOUS
<1>4. QED
  BY <1>1, <1>2, <1>3 DEF YearStart

IsYear(day, y) == y \in 0 .. 99 /\ YearStart(y) <= day /\ day < YearStart(y + 1)

\* Four years have 1461 days.
LEMMA YearExists ==
  ASSUME NEW day \in Nat, day <= 36524
  PROVE  \E y : IsYear(day, y)
<1>1. PICK c \in 0 .. 24, r \in Nat : r < 1461 /\ day = 1461 * c + r
  <2>1. day = 1461 * (day \div 1461) + (day % 1461)
    OBVIOUS
  <2>2. day \div 1461 \in Nat /\ day % 1461 \in Nat /\ day % 1461 < 1461
    OBVIOUS
  <2>3. \A c, r \in Nat : 1461 * c + r <= 36524 => c \in 0 .. 24
    OBVIOUS
  <2>4. day \div 1461 \in 0 .. 24
    BY <2>1, <2>2, <2>3
  <2> DEFINE c == day \div 1461
             r == day % 1461
  <2>5. c \in 0 .. 24 /\ r \in Nat /\ r < 1461 /\ day = 1461 * c + r
    BY <2>1, <2>2, <2>4
  <2> HIDE DEF c, r
  <2>6. QED
    BY <2>5
<1>2. /\ YearStart(4 * c) = 1461 * c
      /\ YearStart(4 * c + 1) = 1461 * c + 366
      /\ YearStart(4 * c + 2) = 1461 * c + 731
      /\ YearStart(4 * c + 3) = 1461 * c + 1096
      /\ YearStart(4 * c + 4) = 1461 * c + 1461
  <2>1. /\ (4 * c + 3) \div 4 = c
        /\ ((4 * c + 1) + 3) \div 4 = c + 1
        /\ ((4 * c + 2) + 3) \div 4 = c + 1
        /\ ((4 * c + 3) + 3) \div 4 = c + 1
        /\ ((4 * c + 4) + 3) \div 4 = c + 1
    OBVIOUS
  <2>2. QED
    BY <2>1 DEF YearStart
<1>3. /\ 4 * c \in 0 .. 99 /\ 4 * c + 1 \in 0 .. 99
      /\ 4 * c + 2 \in 0 .. 99 /\ 4 * c + 3 \in 0 .. 99
      /\ (4 * c + 1) + 1 = 4 * c + 2 /\ (4 * c + 2) + 1 = 4 * c + 3
      /\ (4 * c + 3) + 1 = 4 * c + 4
  OBVIOUS
<1>4. CASE r < 366
  BY <1>1, <1>2, <1>3, <1>4 DEF IsYear
<1>5. CASE 366 <= r /\ r < 731
  BY <1>1, <1>2, <1>3, <1>5 DEF IsYear
<1>6. CASE 731 <= r /\ r < 1096
  BY <1>1, <1>2, <1>3, <1>6 DEF IsYear
<1>7. CASE 1096 <= r
  BY <1>1, <1>2, <1>3, <1>7 DEF IsYear
<1>8. QED
  BY <1>4, <1>5, <1>6, <1>7

LEMMA Months ==
  ASSUME NEW y \in Nat
  PROVE  /\ MonthStart(y, 0) = 0 /\ MonthStart(y, 1) = 31
         /\ MonthStart(y, 2) = 59 + Leap(y) /\ MonthStart(y, 3) = 90 + Leap(y)
         /\ MonthStart(y, 4) = 120 + Leap(y) /\ MonthStart(y, 5) = 151 + Leap(y)
         /\ MonthStart(y, 6) = 181 + Leap(y) /\ MonthStart(y, 7) = 212 + Leap(y)
         /\ MonthStart(y, 8) = 243 + Leap(y) /\ MonthStart(y, 9) = 273 + Leap(y)
         /\ MonthStart(y, 10) = 304 + Leap(y) /\ MonthStart(y, 11) = 334 + Leap(y)
         /\ Leap(y) \in 0 .. 1
BY DEF MonthStart, Leap

LEMMA DaysOfMonths ==
  ASSUME NEW y \in Nat
  PROVE  /\ MonthDays(1, y) = 31 /\ MonthDays(2, y) = 28 + Leap(y) /\ MonthDays(3, y) = 31
         /\ MonthDays(4, y) = 30 /\ MonthDays(5, y) = 31 /\ MonthDays(6, y) = 30
         /\ MonthDays(7, y) = 31 /\ MonthDays(8, y) = 31 /\ MonthDays(9, y) = 30
         /\ MonthDays(10, y) = 31 /\ MonthDays(11, y) = 30 /\ MonthDays(12, y) = 31
BY DEF MonthDays, Leap

\* A month begins where the one before it ends.
LEMMA MonthLength ==
  ASSUME NEW y \in Nat, NEW m \in 0 .. 11
  PROVE  /\ MonthStart(y, m) \in Nat /\ MonthDays(m + 1, y) \in 28 .. 31
         /\ m < 11 => MonthStart(y, m + 1) = MonthStart(y, m) + MonthDays(m + 1, y)
         /\ m = 11 => 365 + Leap(y) = MonthStart(y, m) + MonthDays(m + 1, y)
<1>1. /\ m = 0 \/ m = 1 \/ m = 2 \/ m = 3 \/ m = 4 \/ m = 5
         \/ m = 6 \/ m = 7 \/ m = 8 \/ m = 9 \/ m = 10 \/ m = 11
  OBVIOUS
<1>2. QED
  BY <1>1, Months, DaysOfMonths

LEMMA MonthsGrow ==
  ASSUME NEW y \in Nat, NEW m \in 0 .. 11, NEW n \in 0 .. 11, m < n
  PROVE  MonthStart(y, m + 1) <= MonthStart(y, n)
<1>1. /\ m = 0 \/ m = 1 \/ m = 2 \/ m = 3 \/ m = 4 \/ m = 5
         \/ m = 6 \/ m = 7 \/ m = 8 \/ m = 9 \/ m = 10
  OBVIOUS
<1>2. /\ n = 1 \/ n = 2 \/ n = 3 \/ n = 4 \/ n = 5 \/ n = 6
         \/ n = 7 \/ n = 8 \/ n = 9 \/ n = 10 \/ n = 11
  OBVIOUS
<1>3. QED
  BY <1>1, <1>2, Months

\* The day is the date of this year and month.
IsDate(day, y, m, date) ==
  /\ y \in 0 .. 99 /\ m \in 0 .. 11 /\ date \in 1 .. MonthDays(m + 1, y)
  /\ day = YearStart(y) + MonthStart(y, m) + date - 1

LEMMA DateExists ==
  ASSUME NEW day \in Nat, day <= 36524
  PROVE  \E y, m, date : IsDate(day, y, m, date)
<1>1. PICK y : IsYear(day, y)
  BY YearExists
<1>2. y \in Nat /\ YearStart(y) \in Nat /\ YearStart(y + 1) = YearStart(y) + 365 + Leap(y)
      /\ Leap(y) \in 0 .. 1
  BY <1>1, YearLength, Months DEF IsYear
<1> DEFINE d == day - YearStart(y)
<1>3. d \in Nat /\ d < 365 + Leap(y)
  BY <1>1, <1>2 DEF IsYear
<1>4. \E m \in 0 .. 11 : MonthStart(y, m) <= d /\ d < MonthStart(y, m) + MonthDays(m + 1, y)
  <2> HIDE DEF d
  <2>1. /\ \/ (0 <= d /\ d < 31) \/ (31 <= d /\ d < 59 + Leap(y))
           \/ (59 + Leap(y) <= d /\ d < 90 + Leap(y)) \/ (90 + Leap(y) <= d /\ d < 120 + Leap(y))
           \/ (120 + Leap(y) <= d /\ d < 151 + Leap(y)) \/ (151 + Leap(y) <= d /\ d < 181 + Leap(y))
           \/ (181 + Leap(y) <= d /\ d < 212 + Leap(y)) \/ (212 + Leap(y) <= d /\ d < 243 + Leap(y))
           \/ (243 + Leap(y) <= d /\ d < 273 + Leap(y)) \/ (273 + Leap(y) <= d /\ d < 304 + Leap(y))
           \/ (304 + Leap(y) <= d /\ d < 334 + Leap(y)) \/ (334 + Leap(y) <= d)
    BY <1>2, <1>3
  <2>2. QED
    BY <1>2, <1>3, <2>1, Months, DaysOfMonths
<1>5. PICK m \in 0 .. 11 : MonthStart(y, m) <= d /\ d < MonthStart(y, m) + MonthDays(m + 1, y)
  BY <1>4
<1>6. IsDate(day, y, m, d - MonthStart(y, m) + 1)
  <2>1. MonthStart(y, m) \in Nat /\ MonthDays(m + 1, y) \in 28 .. 31
    <3>1. y \in Nat /\ m \in 0 .. 11
      BY <1>2
    <3>2. QED
      BY ONLY <3>1, MonthLength
  <2>2. d - MonthStart(y, m) + 1 \in 1 .. MonthDays(m + 1, y)
    BY <1>3, <1>5, <2>1
  <2>3. day = YearStart(y) + MonthStart(y, m) + (d - MonthStart(y, m) + 1) - 1
    BY <1>2, <2>1
  <2>4. QED
    BY <1>1, <2>2, <2>3 DEF IsDate, IsYear
<1>7. QED
  BY <1>6

LEMMA DateIsUnique ==
  ASSUME NEW day \in Nat, NEW y, NEW m, NEW date, IsDate(day, y, m, date)
  PROVE  /\ IsYear(day, y) /\ \A z \in 0 .. 99 : IsYear(day, z) => z = y
         /\ \A n \in 0 .. 11 :
              MonthStart(y, n) <= day - YearStart(y)
                /\ (n = 11 \/ day - YearStart(y) < MonthStart(y, n + 1))
              <=> n = m
         /\ date = day - YearStart(y) - MonthStart(y, m) + 1
<1>1. /\ y \in 0 .. 99 /\ m \in 0 .. 11 /\ date \in 1 .. MonthDays(m + 1, y)
      /\ day = YearStart(y) + MonthStart(y, m) + date - 1 /\ y \in Nat
  BY DEF IsDate
<1>2. /\ YearStart(y) \in Nat /\ YearStart(y + 1) = YearStart(y) + 365 + Leap(y)
      /\ Leap(y) \in 0 .. 1
  BY <1>1, YearLength, Months
<1>3. /\ MonthStart(y, m) \in Nat /\ MonthDays(m + 1, y) \in 28 .. 31
      /\ m < 11 => MonthStart(y, m + 1) = MonthStart(y, m) + MonthDays(m + 1, y)
      /\ m = 11 => 365 + Leap(y) = MonthStart(y, m) + MonthDays(m + 1, y)
  BY <1>1, MonthLength
<1> DEFINE d == day - YearStart(y)
<1>4. date \in Nat /\ 1 <= date /\ date <= MonthDays(m + 1, y)
  BY <1>1, <1>3
<1>5. d \in Nat /\ MonthStart(y, m) <= d /\ d < MonthStart(y, m) + MonthDays(m + 1, y)
      /\ date = d - MonthStart(y, m) + 1
  BY <1>1, <1>2, <1>3, <1>4
<1>6. m < 11 => MonthStart(y, m) + MonthDays(m + 1, y) <= 365 + Leap(y)
  <2>1. SUFFICES ASSUME m < 11 PROVE MonthStart(y, m + 1) <= 365 + Leap(y)
    BY <1>3
  <2>2. CASE m + 1 = 11
    BY <1>1, <1>2, <2>2, Months
  <2>3. CASE m + 1 < 11
    <3>1. m + 1 \in 0 .. 11 /\ 11 \in 0 .. 11
      BY <1>1, <2>1
    <3>2. MonthStart(y, (m + 1) + 1) <= MonthStart(y, 11)
      BY <1>1, <2>3, <3>1, MonthsGrow
    <3>3. /\ MonthStart(y, (m + 1) + 1) = MonthStart(y, m + 1) + MonthDays((m + 1) + 1, y)
          /\ MonthStart(y, m + 1) \in Nat /\ MonthDays((m + 1) + 1, y) \in 28 .. 31
      <4>1. y \in Nat /\ m + 1 < 11
        BY <1>1, <2>3
      <4>2. PICK k \in 0 .. 11 : k = m + 1 /\ k < 11
        BY ONLY <3>1, <4>1
      <4>3. /\ MonthStart(y, k + 1) = MonthStart(y, k) + MonthDays(k + 1, y)
            /\ MonthStart(y, k) \in Nat /\ MonthDays(k + 1, y) \in 28 .. 31
        BY ONLY <4>1, <4>2, MonthLength
      <4>4. QED
        BY ONLY <4>2, <4>3
    <3>4. MonthStart(y, 11) = 334 + Leap(y)
      BY <1>1, Months
    <3>5. QED
      BY <1>2, <3>2, <3>3, <3>4
  <2>4. QED
    BY <1>1, <2>1, <2>2, <2>3
<1>7. IsYear(day, y)
  <2>1. d < 365 + Leap(y)
    BY <1>1, <1>2, <1>3, <1>5, <1>6
  <2>2. YearStart(y) <= day /\ day < YearStart(y + 1)
    BY <1>2, <1>5, <2>1
  <2>3. QED
    BY <1>1, <2>2 DEF IsYear
<1>8. ASSUME NEW z \in 0 .. 99, IsYear(day, z) PROVE z = y
  <2>1. YearStart(z) <= day /\ day < YearStart(z + 1) /\ YearStart(y) <= day /\ day < YearStart(y + 1)
    BY <1>7, <1>8 DEF IsYear
  <2>2. z \in Nat /\ y \in Nat
    BY <1>1
  <2>3. /\ YearStart(z) \in Nat /\ YearStart(z + 1) \in Nat
        /\ YearStart(y) \in Nat /\ YearStart(y + 1) \in Nat
    BY <2>2, YearLength
  <2>4. CASE z < y
    <3>1. YearStart(z + 1) <= YearStart(y)
      BY <2>2, <2>4, YearsGrow
    <3>2. QED
      BY <2>1, <2>3, <3>1
  <2>5. CASE y < z
    <3>1. YearStart(y + 1) <= YearStart(z)
      BY <2>2, <2>5, YearsGrow
    <3>2. QED
      BY <2>1, <2>3, <3>1
  <2>6. QED
    BY <2>2, <2>4, <2>5
<1>9. ASSUME NEW n \in 0 .. 11, MonthStart(y, n) <= d, n = 11 \/ d < MonthStart(y, n + 1)
      PROVE  n = m
  <2>1. MonthStart(y, n) \in Nat /\ n \in Nat /\ m \in Nat
    <3>1. y \in Nat /\ n \in Nat /\ m \in Nat
      BY <1>1
    <3>2. MonthStart(y, n) \in Nat
      BY <3>1, MonthLength
    <3>3. QED
      BY <3>1, <3>2
  <2>2. CASE n < m
    <3>1. MonthStart(y, n + 1) <= MonthStart(y, m) /\ n < 11
      BY <1>1, <2>2, MonthsGrow
    <3>2. n + 1 \in 0 .. 11
      BY <1>1, <2>2
    <3>3. MonthStart(y, n + 1) \in Nat
      BY <1>1, <3>2, MonthLength
    <3>4. QED
      BY <1>3, <1>5, <1>9, <3>1, <3>3
  <2>3. CASE m < n
    <3>1. MonthStart(y, m + 1) <= MonthStart(y, n) /\ m < 11
      BY <1>1, <2>3, MonthsGrow
    <3>2. QED
      BY <1>3, <1>5, <1>9, <2>1, <3>1
  <2>4. QED
    BY <2>1, <2>2, <2>3
<1>10. MonthStart(y, m) <= d /\ (m = 11 \/ d < MonthStart(y, m + 1))
  BY <1>1, <1>3, <1>5
<1> HIDE DEF d
<1>11. \A n \in 0 .. 11 :
         MonthStart(y, n) <= d /\ (n = 11 \/ d < MonthStart(y, n + 1)) <=> n = m
  BY <1>9, <1>10
<1>12. QED
  BY <1>5, <1>7, <1>8, <1>11 DEF d

IsClock(sec, h, mi, s) ==
  h \in 0 .. 23 /\ mi \in 0 .. 59 /\ s \in 0 .. 59 /\ sec = 3600 * h + 60 * mi + s

LEMMA ClockExists ==
  ASSUME NEW sec \in Nat, sec < 86400
  PROVE  \E h, mi, s : IsClock(sec, h, mi, s)
<1> DEFINE q == sec \div 60
           s == sec % 60
<1>1. q \in Nat /\ s \in 0 .. 59 /\ sec = 60 * q + s
  <2>1. sec = 60 * (sec \div 60) + (sec % 60)
    OBVIOUS
  <2>2. QED
    BY <2>1
<1> HIDE DEF q, s
<1> DEFINE h == q \div 60
           mi == q % 60
<1>2. h \in Nat /\ mi \in 0 .. 59 /\ q = 60 * h + mi
  <2>1. q = 60 * (q \div 60) + (q % 60)
    BY <1>1
  <2>2. QED
    BY <1>1, <2>1
<1> HIDE DEF h, mi
<1>3. h \in 0 .. 23
  BY <1>1, <1>2
<1>4. sec = 3600 * h + 60 * mi + s
  BY <1>1, <1>2, <1>3
<1>5. IsClock(sec, h, mi, s)
  BY <1>1, <1>2, <1>3, <1>4 DEF IsClock
<1>6. QED
  BY <1>5

LEMMA ClockIsUnique ==
  ASSUME NEW sec, NEW h, NEW mi, NEW s, IsClock(sec, h, mi, s)
  PROVE  /\ sec % 60 = s /\ (sec \div 60) % 60 = mi /\ sec \div 3600 = h
         /\ sec \in Nat /\ sec < 86400
<1>1. h \in 0 .. 23 /\ mi \in 0 .. 59 /\ s \in 0 .. 59 /\ sec = 3600 * h + 60 * mi + s
  BY DEF IsClock
<1>2. PICK q \in Nat : q = 60 * h + mi
  BY <1>1
<1>3. sec = 60 * q + s /\ sec \in Nat /\ sec < 86400
  BY <1>1, <1>2
<1>4. (60 * q + s) % 60 = s /\ (60 * q + s) \div 60 = q
  <2>1. s \in 0 .. 59
    BY <1>1
  <2>2. QED
    BY ONLY <2>1, q \in Nat
<1>5. (60 * h + mi) % 60 = mi
  <2>1. h \in Nat /\ mi \in 0 .. 59
    BY <1>1
  <2>2. QED
    BY ONLY <2>1
<1>6. sec \div 3600 = h
  BY <1>1
<1>7. sec % 60 = s /\ sec \div 60 = q
  BY <1>3, <1>4
<1>8. (sec \div 60) % 60 = mi
  BY <1>2, <1>5, <1>7
<1>9. QED
  BY <1>3, <1>6, <1>7, <1>8

\* A time in years, months and so on.
IsTime(t, y, m, date, h, mi, s) ==
  t.day \in Nat /\ IsDate(t.day, y, m, date) /\ IsClock(t.sec, h, mi, s)

\* What localtime makes of a time.
LEMMA LocalTime ==
  ASSUME NEW t, NEW y, NEW m, NEW date, NEW h, NEW mi, NEW s, IsTime(t, y, m, date, h, mi, s)
  PROVE  localtime(t) =
           [tm_sec |-> s, tm_min |-> mi, tm_hour |-> h, tm_wday |-> (t.day + 6) % 7,
            tm_mday |-> date, tm_mon |-> m, tm_year |-> y + 100]
<1> DEFINE Y == CHOOSE z \in 0 .. 99 : YearStart(z) <= t.day /\ t.day < YearStart(z + 1)
           d == t.day - YearStart(Y)
           M == CHOOSE n \in 0 .. 11 :
                  MonthStart(Y, n) <= d /\ (n = 11 \/ d < MonthStart(Y, n + 1))
<1>1. y \in 0 .. 99 /\ m \in 0 .. 11
  BY DEF IsDate, IsTime
<1>2. Y = y
  <2>1. \A z \in 0 .. 99 : YearStart(z) <= t.day /\ t.day < YearStart(z + 1) <=> z = y
    BY <1>1, DateIsUnique DEF IsYear, IsTime
  <2>2. QED
    BY <1>1, <2>1
<1> HIDE DEF Y
<1>3. M = m
  <2>1. \A n \in 0 .. 11 :
          MonthStart(Y, n) <= d /\ (n = 11 \/ d < MonthStart(Y, n + 1)) <=> n = m
    BY <1>2, DateIsUnique DEF IsTime
  <2> HIDE DEF d
  <2>2. QED
    BY <1>1, <2>1
<1>4. date = d - MonthStart(Y, M) + 1
  <2>1. date = t.day - YearStart(y) - MonthStart(y, m) + 1
    BY DateIsUnique DEF IsTime
  <2> HIDE DEF M
  <2>2. QED
    BY <1>2, <1>3, <2>1
<1>5. localtime(t) =
        [tm_sec |-> t.sec % 60, tm_min |-> (t.sec \div 60) % 60, tm_hour |-> t.sec \div 3600,
         tm_wday |-> (t.day + 6) % 7, tm_mday |-> d - MonthStart(Y, M) + 1, tm_mon |-> M,
         tm_year |-> Y + 100]
  BY DEF localtime, Y
<1> HIDE DEF M, d
<1>6. t.sec % 60 = s /\ (t.sec \div 60) % 60 = mi /\ t.sec \div 3600 = h
  BY ClockIsUnique DEF IsTime
<1>7. QED
  BY ONLY <1>2, <1>3, <1>4, <1>5, <1>6

LEMMA TimeExists ==
  ASSUME NEW t, t.day \in Nat, t.day <= 36524, t.sec \in Nat, t.sec < 86400
  PROVE  \E y, m, date, h, mi, s : IsTime(t, y, m, date, h, mi, s)
<1>1. PICK y, m, date : IsDate(t.day, y, m, date)
  BY DateExists
<1>2. PICK h, mi, s : IsClock(t.sec, h, mi, s)
  BY ClockExists
<1>3. QED
  BY <1>1, <1>2 DEF IsTime

\* The ranges of the parts of a time.
LEMMA Parts ==
  ASSUME NEW t, NEW y, NEW m, NEW date, NEW h, NEW mi, NEW s, IsTime(t, y, m, date, h, mi, s)
  PROVE  /\ y \in 0 .. 99 /\ m \in 0 .. 11 /\ date \in 1 .. 31 /\ h \in 0 .. 23
         /\ mi \in 0 .. 59 /\ s \in 0 .. 59 /\ t.day \in Nat /\ t.sec \in Nat /\ t.sec < 86400
         /\ (t.day + 6) % 7 \in 0 .. 6 /\ date \in 1 .. MonthDays(m + 1, y)
         /\ MonthDays(m + 1, y) \in 28 .. 31
<1>1. y \in 0 .. 99 /\ m \in 0 .. 11 /\ date \in 1 .. MonthDays(m + 1, y) /\ t.day \in Nat
  BY DEF IsTime, IsDate
<1>2. MonthDays(m + 1, y) \in 28 .. 31
  <2>1. y \in Nat
    BY <1>1
  <2>2. QED
    BY <1>1, <2>1, MonthLength
<1>3. date \in 1 .. 31
  BY <1>1, <1>2
<1>4. h \in 0 .. 23 /\ mi \in 0 .. 59 /\ s \in 0 .. 59 /\ t.sec \in Nat /\ t.sec < 86400
  BY ClockIsUnique DEF IsTime, IsClock
<1>5. (t.day + 6) % 7 \in 0 .. 6
  BY <1>1
<1>6. QED
  BY <1>1, <1>2, <1>3, <1>4, <1>5

-----------------------------------------------------------------------------
(* The next second and the next day.                                       *)

LEMMA NextDate ==
  ASSUME NEW day \in Nat, NEW y, NEW m, NEW date, IsDate(day, y, m, date), day + 1 <= LastDay,
         NEW last, last = MonthDays(m + 1, y)
  PROVE  /\ date # last => IsDate(day + 1, y, m, date + 1)
         /\ date = last /\ m # 11 => IsDate(day + 1, y, m + 1, 1)
         /\ date = last /\ m = 11 => y # 99 /\ IsDate(day + 1, y + 1, 0, 1)
<1>1. /\ y \in 0 .. 99 /\ y \in Nat /\ m \in 0 .. 11 /\ date \in 1 .. last
      /\ day = YearStart(y) + MonthStart(y, m) + date - 1
  BY DEF IsDate
<1>2. /\ YearStart(y) \in Nat /\ YearStart(y + 1) = YearStart(y) + 365 + Leap(y)
      /\ Leap(y) \in 0 .. 1 /\ MonthStart(y, m) \in Nat /\ last \in 28 .. 31
      /\ m < 11 => MonthStart(y, m + 1) = MonthStart(y, m) + last
      /\ m = 11 => 365 + Leap(y) = MonthStart(y, m) + last
  <2>1. /\ YearStart(y) \in Nat /\ YearStart(y + 1) = YearStart(y) + 365 + Leap(y)
        /\ Leap(y) \in 0 .. 1
    BY <1>1, YearLength, Months
  <2>2. /\ MonthStart(y, m) \in Nat /\ MonthDays(m + 1, y) \in 28 .. 31
        /\ m < 11 => MonthStart(y, m + 1) = MonthStart(y, m) + MonthDays(m + 1, y)
        /\ m = 11 => 365 + Leap(y) = MonthStart(y, m) + MonthDays(m + 1, y)
    <3>1. y \in Nat /\ m \in 0 .. 11
      BY <1>1
    <3>2. QED
      BY ONLY <3>1, MonthLength
  <2>3. QED
    BY <2>1, <2>2
<1>3. date \in Nat /\ 1 <= date /\ date <= last
  BY <1>1, <1>2
<1>4. ASSUME date # last PROVE IsDate(day + 1, y, m, date + 1)
  <2>1. date + 1 \in 1 .. last /\ day + 1 = YearStart(y) + MonthStart(y, m) + (date + 1) - 1
    BY <1>1, <1>2, <1>3, <1>4
  <2>2. QED
    BY <1>1, <2>1 DEF IsDate
<1>5. ASSUME date = last, m # 11 PROVE IsDate(day + 1, y, m + 1, 1)
  <2>1. m + 1 \in 0 .. 11 /\ m < 11
    BY <1>1, <1>5
  <2>2. MonthDays((m + 1) + 1, y) \in 28 .. 31
    <3>1. y \in Nat
      BY <1>1
    <3>2. QED
      BY ONLY <2>1, <3>1, MonthLength
  <2>3. 1 \in 1 .. MonthDays((m + 1) + 1, y)
    BY <2>2
  <2>4. day + 1 = YearStart(y) + MonthStart(y, m + 1) + 1 - 1
    BY <1>1, <1>2, <1>3, <1>5, <2>1
  <2>5. QED
    BY <1>1, <2>1, <2>3, <2>4 DEF IsDate
<1>6. ASSUME date = last, m = 11 PROVE y # 99 /\ IsDate(day + 1, y + 1, 0, 1)
  <2>1. day + 1 = YearStart(y + 1)
    BY <1>1, <1>2, <1>3, <1>6
  <2>2. y # 99
    <3>1. YearStart(99 + 1) = 36525
      <4>1. ((99 + 1) + 3) \div 4 = 25
        OBVIOUS
      <4>2. QED
        BY <4>1 DEF YearStart
    <3>2. QED
      BY <2>1, <3>1 DEF LastDay
  <2>3. y + 1 \in 0 .. 99 /\ y + 1 \in Nat
    BY <1>1, <2>2
  <2>4. MonthStart(y + 1, 0) = 0 /\ MonthDays(0 + 1, y + 1) = 31 /\ YearStart(y + 1) \in Nat
    BY <2>3, Months, DaysOfMonths, YearLength
  <2>5. day + 1 = YearStart(y + 1) + MonthStart(y + 1, 0) + 1 - 1 /\ 1 \in 1 .. 31 /\ 0 \in 0 .. 11
    BY <2>1, <2>4
  <2>6. IsDate(day + 1, y + 1, 0, 1)
    BY <2>3, <2>4, <2>5 DEF IsDate
  <2>7. QED
    BY <2>2, <2>6
<1>7. QED
  BY ONLY <1>4, <1>5, <1>6

\* The seven counters of the chip, from one second to the next.
LEMMA NextSecond ==
  ASSUME NEW t, NEW y, NEW m, NEW date, NEW h, NEW mi, NEW s, IsTime(t, y, m, date, h, mi, s),
         Plus(t, 1).day <= LastDay,
         NEW s2, s2 = IF s = 59 THEN 0 ELSE s + 1,
         NEW mi2, mi2 = IF s # 59 THEN mi ELSE IF mi = 59 THEN 0 ELSE mi + 1,
         NEW h2, h2 = IF ~(s = 59 /\ mi = 59) THEN h ELSE IF h = 23 THEN 0 ELSE h + 1,
         NEW last, last = MonthDays(m + 1, y), NEW full \in BOOLEAN, full <=> s = 59 /\ mi = 59 /\ h = 23,
         NEW w2, w2 = IF ~full THEN ((t.day + 6) % 7) + 1
                      ELSE IF ((t.day + 6) % 7) + 1 = 7 THEN 1 ELSE ((t.day + 6) % 7) + 1 + 1,
         NEW date2, date2 = IF ~full THEN date ELSE IF date = last THEN 1 ELSE date + 1,
         NEW month2, month2 = IF ~(full /\ date = last) THEN m + 1
                              ELSE IF m + 1 = 12 THEN 1 ELSE m + 1 + 1,
         NEW y2, y2 = IF ~(full /\ date = last /\ m + 1 = 12) THEN y
                      ELSE IF y = 99 THEN 0 ELSE y + 1
  PROVE  IsTime(Plus(t, 1), y2, month2 - 1, date2, h2, mi2, s2) /\ ((Plus(t, 1).day + 6) % 7) + 1 = w2
<1>1. /\ h \in 0 .. 23 /\ mi \in 0 .. 59 /\ s \in 0 .. 59 /\ t.day \in Nat /\ t.sec \in Nat
      /\ t.sec < 86400 /\ m \in 0 .. 11 /\ date \in 1 .. 31 /\ y \in 0 .. 99
  BY Parts
<1>2. t.sec = 3600 * h + 60 * mi + s /\ IsDate(t.day, y, m, date)
  BY DEF IsTime, IsClock
<1>3. Plus(t, 1) = [day |-> t.day + (t.sec + 1) \div 86400, sec |-> (t.sec + 1) % 86400]
  BY DEF Plus
<1>4. CASE ~full
  <2>1. ~(s = 59 /\ mi = 59 /\ h = 23)
    BY <1>4
  <2>2. t.sec + 1 < 86400
    BY ONLY <1>1, <1>2, <2>1
  <2>3. Plus(t, 1).day = t.day /\ Plus(t, 1).sec = t.sec + 1
    <3>1. (t.sec + 1) \div 86400 = 0 /\ (t.sec + 1) % 86400 = t.sec + 1
      BY ONLY <1>1, <2>2
    <3>2. QED
      BY ONLY <1>1, <1>3, <3>1
  <2>4. IsClock(t.sec + 1, h2, mi2, s2)
    <3>1. CASE s # 59
      <4>1. h2 = h /\ mi2 = mi /\ s2 = s + 1
        BY <3>1
      <4>2. QED
        BY ONLY <1>1, <1>2, <3>1, <4>1 DEF IsClock
    <3>2. CASE s = 59 /\ mi # 59
      <4>1. h2 = h /\ mi2 = mi + 1 /\ s2 = 0
        BY <3>2
      <4>2. QED
        BY ONLY <1>1, <1>2, <3>2, <4>1 DEF IsClock
    <3>3. CASE s = 59 /\ mi = 59
      <4>1. h2 = h + 1 /\ mi2 = 0 /\ s2 = 0 /\ h # 23
        BY <2>1, <3>3
      <4>2. QED
        BY ONLY <1>1, <1>2, <3>3, <4>1 DEF IsClock
    <3>4. QED
      BY ONLY <3>1, <3>2, <3>3
  <2>5. IsClock(Plus(t, 1).sec, h2, mi2, s2)
    BY ONLY <2>3, <2>4, Zenon
  <2>6. y2 = y /\ month2 - 1 = m /\ date2 = date /\ w2 = ((t.day + 6) % 7) + 1
    <3>1. month2 = m + 1 /\ (m + 1) - 1 = m
      BY <1>1, <1>4
    <3>2. y2 = y /\ date2 = date /\ w2 = ((t.day + 6) % 7) + 1
      BY <1>4
    <3>3. QED
      BY ONLY <3>1, <3>2
  <2>7. QED
    BY ONLY <1>1, <1>2, <2>3, <2>5, <2>6 DEF IsTime
<1>5. CASE full
  <2>1. s = 59 /\ mi = 59 /\ h = 23 /\ s2 = 0 /\ mi2 = 0 /\ h2 = 0
    BY <1>5
  <2>2. Plus(t, 1).day = t.day + 1 /\ Plus(t, 1).sec = 0
    <3>1. t.sec + 1 = 86400
      BY ONLY <1>2, <2>1
    <3>2. 86400 \div 86400 = 1 /\ 86400 % 86400 = 0
      OBVIOUS
    <3>3. (t.sec + 1) \div 86400 = 1 /\ (t.sec + 1) % 86400 = 0
      BY ONLY <3>1, <3>2
    <3>4. QED
      BY ONLY <1>1, <1>3, <3>3
  <2>3. IsClock(0, 0, 0, 0)
    BY DEF IsClock
  <2>4. PICK day \in Nat : day = t.day
    BY <1>1
  <2>5. IsDate(day, y, m, date) /\ day + 1 <= LastDay
    BY <1>2, <2>2, <2>4
  <2>6. IsDate(day + 1, y2, month2 - 1, date2)
    <3>1. /\ date # last => IsDate(day + 1, y, m, date + 1)
          /\ date = last /\ m # 11 => IsDate(day + 1, y, m + 1, 1)
          /\ date = last /\ m = 11 => y # 99 /\ IsDate(day + 1, y + 1, 0, 1)
      BY <2>5, NextDate
    <3>2. y \in Nat /\ m \in 0 .. 11
      BY <1>1
    <3>3. CASE date # last
      <4>1. y2 = y /\ month2 - 1 = m /\ date2 = date + 1
        BY <1>5, <3>2, <3>3
      <4>2. QED
        BY ONLY <3>1, <3>3, <4>1
    <3>4. CASE date = last /\ m # 11
      <4>1. y2 = y /\ month2 - 1 = m + 1 /\ date2 = 1
        BY <1>5, <3>2, <3>4
      <4>2. QED
        BY ONLY <3>1, <3>4, <4>1
    <3>5. CASE date = last /\ m = 11
      <4>1. y # 99 /\ IsDate(day + 1, y + 1, 0, 1)
        BY ONLY <3>1, <3>5
      <4>2. y2 = y + 1 /\ month2 - 1 = 0 /\ date2 = 1
        BY <1>5, <3>2, <3>5, <4>1
      <4>3. QED
        BY ONLY <4>1, <4>2
    <3>6. QED
      BY ONLY <3>3, <3>4, <3>5
  <2>7. ((day + 1 + 6) % 7) + 1 = w2
    <3>1. ((day + 1 + 6) % 7) + 1
            = IF ((day + 6) % 7) + 1 = 7 THEN 1 ELSE ((day + 6) % 7) + 1 + 1
      BY ONLY day \in Nat
    <3>2. w2 = IF ((day + 6) % 7) + 1 = 7 THEN 1 ELSE ((day + 6) % 7) + 1 + 1
      BY <1>5, <2>4
    <3>3. QED
      BY ONLY <3>1, <3>2
  <2>8. day + 1 \in Nat
    OBVIOUS
  <2>9. QED
    BY ONLY <2>1, <2>2, <2>3, <2>4, <2>6, <2>7, <2>8 DEF IsTime
<1>6. QED
  BY ONLY <1>4, <1>5

-----------------------------------------------------------------------------
(* The registers of the clock.                                             *)

LEMMA Codes ==
  ASSUME NEW n \in 0 .. 99
  PROVE  /\ Code(n) \in Byte /\ Value(Code(n)) = n /\ BCD_TO_DEC(Code(n)) = n
         /\ DEC_TO_BCD(n) = Code(n) /\ Code(n) = 16 * (n \div 10) + (n % 10)
<1>1. DEC_TO_BCD(n) = Code(n) /\ BCD_TO_DEC(Code(n)) = n /\ Code(n) \in Byte
  BY CodesAreExact
<1>2. Value(Code(n)) = BCD_TO_DEC(Code(n))
  <2>1. Code(n) \in 0 .. 255
    BY <1>1 DEF Byte
  <2>2. QED
    BY <2>1 DEF Value, BCD_TO_DEC
<1>3. QED
  BY <1>1, <1>2 DEF Code

\* The small codes, by which the hours are kept apart from their mode.
LEMMA SmallCodes ==
  /\ \A n \in 0 .. 9 : Code(n) = n
  /\ \A n \in 10 .. 19 : Code(n) = n + 6
  /\ \A n \in 20 .. 23 : Code(n) = n + 12
  /\ \A n \in 0 .. 59 : Code(n) < 128
<1>1. ASSUME NEW n \in 0 .. 9 PROVE Code(n) = n
  BY DEF Code
<1>2. ASSUME NEW n \in 10 .. 19 PROVE Code(n) = n + 6
  BY DEF Code
<1>3. ASSUME NEW n \in 20 .. 23 PROVE Code(n) = n + 12
  BY DEF Code
<1>4. ASSUME NEW n \in 0 .. 59 PROVE Code(n) < 128
  BY DEF Code
<1>5. QED
  BY <1>1, <1>2, <1>3, <1>4

LEMMA Hours ==
  ASSUME NEW h \in 0 .. 23
  PROVE  /\ HourCode(h, FALSE) \in Byte /\ ~Twelve(HourCode(h, FALSE))
         /\ HourValue(HourCode(h, FALSE)) = h
         /\ hoursSinceMidnight(HourCode(h, FALSE)) = h
         /\ HourCode(h, TRUE) \in Byte /\ Twelve(HourCode(h, TRUE))
         /\ HourValue(HourCode(h, TRUE)) = h
         /\ h % 12 # 0 => hoursSinceMidnight(HourCode(h, TRUE)) = h
<1>1. PICK c \in 0 .. 63 : c = Code(h) /\ Value(c) = h /\ BCD_TO_DEC(c) = h
  <2>1. h \in 0 .. 99
    OBVIOUS
  <2>2. Code(h) \in 0 .. 63
    BY SmallCodes
  <2>3. QED
    BY ONLY <2>1, <2>2, Codes
<1>2. HourCode(h, FALSE) = c
  BY <1>1 DEF HourCode
<1>3. ~Twelve(c) /\ c % 64 = c /\ (c \div 64) % 2 = 0
  BY DEF Twelve
<1>4. /\ HourCode(h, FALSE) \in Byte /\ ~Twelve(HourCode(h, FALSE))
      /\ HourValue(HourCode(h, FALSE)) = h /\ hoursSinceMidnight(HourCode(h, FALSE)) = h
  <2>1. HourValue(c) = h /\ hoursSinceMidnight(c) = h
    BY ONLY <1>1, <1>3, c \in 0 .. 63 DEF HourValue, hoursSinceMidnight
  <2>2. c \in Byte
    BY ONLY c \in 0 .. 63 DEF Byte
  <2>3. QED
    BY ONLY <1>2, <1>3, <2>1, <2>2
<1>5. PICK n \in 1 .. 12 :
        /\ n = IF h % 12 = 0 THEN 12 ELSE h % 12
        /\ (n % 12) + (IF h >= 12 THEN 12 ELSE 0) = h
        /\ h % 12 # 0 => n < 12 /\ n + (IF h >= 12 THEN 12 ELSE 0) = h
  <2> DEFINE N == IF h % 12 = 0 THEN 12 ELSE h % 12
  <2>1. /\ N \in 1 .. 12 /\ (N % 12) + (IF h >= 12 THEN 12 ELSE 0) = h
        /\ h % 12 # 0 => N < 12 /\ N + (IF h >= 12 THEN 12 ELSE 0) = h
    OBVIOUS
  <2>2. QED
    BY <2>1
<1>6. PICK k \in 1 .. 18 : k = Code(n) /\ Value(k) = n /\ BCD_TO_DEC(k) = n
  <2>1. n \in 0 .. 99
    OBVIOUS
  <2>2. Code(n) \in 1 .. 18
    <3>1. n \in 1 .. 9 \/ n \in 10 .. 12
      OBVIOUS
    <3>2. QED
      BY <3>1, SmallCodes
  <2>3. QED
    BY ONLY <2>1, <2>2, Codes
<1>7. PICK code : /\ code = HourCode(h, TRUE)
                  /\ h >= 12 => code = 96 + k
                  /\ h < 12 => code = 64 + k
  <2>1. CASE h >= 12
    <3>1. HourCode(h, TRUE) = 64 + 32 + Code(n)
      BY ONLY <1>5, <2>1 DEF HourCode
    <3>2. 64 + 32 + Code(n) = 96 + k
      BY ONLY <1>6, k \in 1 .. 18
    <3>3. HourCode(h, TRUE) = 96 + k
      BY ONLY <3>1, <3>2, Zenon
    <3>4. h >= 12 /\ ~(h < 12)
      BY <2>1
    <3>5. QED
      BY ONLY <3>3, <3>4, Zenon
  <2>2. CASE h < 12
    <3>1. HourCode(h, TRUE) = 64 + 0 + Code(n)
      BY ONLY <1>5, <2>2, h \in 0 .. 23 DEF HourCode
    <3>2. 64 + 0 + Code(n) = 64 + k
      BY ONLY <1>6, k \in 1 .. 18
    <3>3. HourCode(h, TRUE) = 64 + k
      BY ONLY <3>1, <3>2, Zenon
    <3>4. h < 12 /\ ~(h >= 12)
      BY <2>2
    <3>5. QED
      BY ONLY <3>3, <3>4, Zenon
  <2>3. QED
    BY <2>1, <2>2
<1>8. CASE h >= 12
  <2>1. HourCode(h, TRUE) = 96 + k
    BY ONLY <1>7, <1>8, Zenon
  <2>2. /\ (96 + k) \in Byte /\ Twelve(96 + k)
        /\ (96 + k) % 32 = k /\ (96 + k) % 64 >= 32 /\ ((96 + k) \div 32) % 2 = 1
        /\ ((96 + k) \div 64) % 2 = 1 /\ (96 + k) \div 128 = 0 /\ k + 128 * 0 = k
    BY ONLY k \in 1 .. 18 DEF Twelve, Byte
  <2>3. HourValue(96 + k) = h
    <3>1. HourValue(96 + k) = (Value(k) % 12) + 12
      BY ONLY <2>2 DEF HourValue
    <3>2. (n % 12) + 12 = h
      BY ONLY <1>5, <1>8, h \in 0 .. 23
    <3>3. QED
      BY ONLY <1>6, <3>1, <3>2
  <2>4. h % 12 # 0 => hoursSinceMidnight(96 + k) = h
    <3>1. h % 12 # 0 => n < 12 /\ n + 12 = h
      BY ONLY <1>5, <1>8
    <3>2. hoursSinceMidnight(96 + k) =
            IF BCD_TO_DEC(k) < 12 THEN BCD_TO_DEC(k) + 12 ELSE 0
      BY ONLY <2>2 DEF hoursSinceMidnight
    <3>3. QED
      BY ONLY <1>6, <3>1, <3>2
  <2>5. QED
    BY ONLY <1>4, <2>1, <2>2, <2>3, <2>4
<1>9. CASE h < 12
  <2>1. HourCode(h, TRUE) = 64 + k
    BY ONLY <1>7, <1>9, Zenon
  <2>2. /\ (64 + k) \in Byte /\ Twelve(64 + k)
        /\ (64 + k) % 32 = k /\ ~((64 + k) % 64 >= 32) /\ ((64 + k) \div 32) % 2 = 0
        /\ ((64 + k) \div 64) % 2 = 1 /\ (64 + k) \div 128 = 0 /\ k + 128 * 0 = k
    BY ONLY k \in 1 .. 18 DEF Twelve, Byte
  <2>3. HourValue(64 + k) = h
    <3>1. (n % 12) + 0 = h
      BY ONLY <1>5, <1>9, h \in 0 .. 23
    <3>2. QED
      BY ONLY <1>6, <2>2, <3>1 DEF HourValue
  <2>4. h % 12 # 0 => hoursSinceMidnight(64 + k) = h
    <3>1. ASSUME h % 12 # 0 PROVE n = h
      <4>1. n = h % 12 /\ h % 12 = h
        BY ONLY <1>5, <1>9, <3>1, h \in 0 .. 23
      <4>2. QED
        BY ONLY <4>1
    <3>2. hoursSinceMidnight(64 + k) = BCD_TO_DEC(k)
      BY ONLY <2>2 DEF hoursSinceMidnight
    <3>3. QED
      BY ONLY <1>6, <3>1, <3>2
  <2>5. QED
    BY ONLY <1>4, <2>1, <2>2, <2>3, <2>4
<1>10. h < 12 \/ h >= 12
  OBVIOUS
<1>11. QED
  BY ONLY <1>8, <1>9, <1>10

\* What the registers r mean when they show the time t.
Shows(r, t) ==
  \E y, m, date, h, mi, s :
    /\ IsTime(t, y, m, date, h, mi, s)
    /\ r[0] = Code(s) /\ r[1] = Code(mi) /\ r[3] = ((t.day + 6) % 7) + 1
    /\ r[2] = HourCode(h, FALSE) \/ r[2] = HourCode(h, TRUE)
    /\ r[4] = Code(date) /\ r[5] = Code(m + 1) /\ r[6] = Code(y)

LEMMA ShownRegisters ==
  ASSUME NEW t, NEW y, NEW m, NEW date, NEW h, NEW mi, NEW s, IsTime(t, y, m, date, h, mi, s),
         NEW twelve \in BOOLEAN
  PROVE  Shown(t, twelve) = <<Code(s), Code(mi), HourCode(h, twelve), ((t.day + 6) % 7) + 1,
                              Code(date), Code(m + 1), Code(y)>>
<1> DEFINE tm == localtime(t)
<1>1. tm = [tm_sec |-> s, tm_min |-> mi, tm_hour |-> h, tm_wday |-> (t.day + 6) % 7,
            tm_mday |-> date, tm_mon |-> m, tm_year |-> y + 100]
  BY LocalTime
<1>2. Shown(t, twelve) =
        <<Code(tm.tm_sec), Code(tm.tm_min), HourCode(tm.tm_hour, twelve), tm.tm_wday + 1,
          Code(tm.tm_mday), Code(tm.tm_mon + 1), Code(tm.tm_year - 100)>>
  BY DEF Shown
<1> HIDE DEF tm
<1>3. /\ tm.tm_sec = s /\ tm.tm_min = mi /\ tm.tm_hour = h /\ tm.tm_wday = (t.day + 6) % 7
      /\ tm.tm_mday = date /\ tm.tm_mon = m /\ tm.tm_year = y + 100
  BY <1>1
<1>4. tm.tm_year - 100 = y
  <2>1. y \in 0 .. 99
    BY Parts
  <2>2. QED
    BY ONLY <1>3, <2>1
<1>5. QED
  BY ONLY <1>2, <1>3, <1>4

LEMMA ShowsMeans ==
  ASSUME NEW r, NEW t, Shows(r, t)
  PROVE  [i \in 1 .. 7 |-> r[i - 1]] = Shown(t, Twelve(r[2])) /\ r[0] < 128
<1>1. PICK y, m, date, h, mi, s :
        /\ IsTime(t, y, m, date, h, mi, s)
        /\ r[0] = Code(s) /\ r[1] = Code(mi) /\ r[3] = ((t.day + 6) % 7) + 1
        /\ r[2] = HourCode(h, FALSE) \/ r[2] = HourCode(h, TRUE)
        /\ r[4] = Code(date) /\ r[5] = Code(m + 1) /\ r[6] = Code(y)
  BY DEF Shows
<1>2. PICK twelve \in BOOLEAN : (twelve <=> Twelve(r[2])) /\ twelve = Twelve(r[2])
  BY DEF Twelve
<1>3. h \in 0 .. 23 /\ s \in 0 .. 59
  BY <1>1, Parts
<1>4. r[2] = HourCode(h, twelve)
  <2>1. ~Twelve(HourCode(h, FALSE)) /\ Twelve(HourCode(h, TRUE))
    BY <1>3, Hours
  <2>2. CASE twelve = TRUE
    BY <1>1, <1>2, <2>1, <2>2
  <2>3. CASE twelve = FALSE
    BY <1>1, <1>2, <2>1, <2>3
  <2>4. QED
    BY <2>2, <2>3
<1>5. Shown(t, twelve) = <<Code(s), Code(mi), HourCode(h, twelve), ((t.day + 6) % 7) + 1,
                           Code(date), Code(m + 1), Code(y)>>
  BY <1>1, ShownRegisters
<1>6. [i \in 1 .. 7 |-> r[i - 1]] = <<r[0], r[1], r[2], r[3], r[4], r[5], r[6]>>
  OBVIOUS
<1>7. [i \in 1 .. 7 |-> r[i - 1]] = Shown(t, twelve)
  BY ONLY <1>1, <1>4, <1>5, <1>6
<1>8. r[0] < 128
  BY <1>1, <1>3, SmallCodes
<1>9. QED
  BY <1>2, <1>7, <1>8

LEMMA ShowsBytes ==
  ASSUME NEW r, NEW t, Shows(r, t)
  PROVE  \A a \in Clock : r[a] \in Byte
<1>1. PICK y, m, date, h, mi, s :
        /\ IsTime(t, y, m, date, h, mi, s)
        /\ r[0] = Code(s) /\ r[1] = Code(mi) /\ r[3] = ((t.day + 6) % 7) + 1
        /\ r[2] = HourCode(h, FALSE) \/ r[2] = HourCode(h, TRUE)
        /\ r[4] = Code(date) /\ r[5] = Code(m + 1) /\ r[6] = Code(y)
  BY DEF Shows
<1>2. /\ y \in 0 .. 99 /\ m \in 0 .. 11 /\ date \in 1 .. 31 /\ h \in 0 .. 23
      /\ mi \in 0 .. 59 /\ s \in 0 .. 59 /\ (t.day + 6) % 7 \in 0 .. 6
  BY <1>1, Parts
<1>3. s \in 0 .. 99 /\ mi \in 0 .. 99 /\ date \in 0 .. 99 /\ m + 1 \in 0 .. 99
  BY ONLY <1>2
<1>4. r[0] \in Byte /\ r[1] \in Byte /\ r[4] \in Byte /\ r[5] \in Byte /\ r[6] \in Byte
  BY <1>1, <1>2, <1>3, Codes
<1>5. r[2] \in Byte
  <2>1. HourCode(h, FALSE) \in Byte /\ HourCode(h, TRUE) \in Byte
    BY <1>2, Hours
  <2>2. QED
    BY <1>1, <2>1
<1>6. r[3] \in Byte
  BY <1>1, <1>2 DEF Byte
<1>7. QED
  BY <1>4, <1>5, <1>6 DEF Clock

LEMMA ShowsIf ==
  ASSUME NEW r, NEW t, NEW y, NEW m, NEW date, NEW h, NEW mi, NEW s,
         IsTime(t, y, m, date, h, mi, s),
         r[0] = Code(s), r[1] = Code(mi), r[3] = ((t.day + 6) % 7) + 1,
         r[2] = HourCode(h, FALSE) \/ r[2] = HourCode(h, TRUE),
         r[4] = Code(date), r[5] = Code(m + 1), r[6] = Code(y)
  PROVE  Shows(r, t)
BY DEF Shows

\* A second later the registers show the next second.
LEMMA CountedShows ==
  ASSUME NEW r, DOMAIN r = 0 .. 63, NEW t, Shows(r, t), Plus(t, 1).day <= LastDay
  PROVE  /\ Shows(Counted(r), Plus(t, 1)) /\ DOMAIN Counted(r) = 0 .. 63
         /\ \A a \in (0 .. 63) \ Clock : Counted(r)[a] = r[a]
<1>1. PICK y, m, date, h, mi, s :
        /\ IsTime(t, y, m, date, h, mi, s)
        /\ r[0] = Code(s) /\ r[1] = Code(mi) /\ r[3] = ((t.day + 6) % 7) + 1
        /\ r[2] = HourCode(h, FALSE) \/ r[2] = HourCode(h, TRUE)
        /\ r[4] = Code(date) /\ r[5] = Code(m + 1) /\ r[6] = Code(y)
  BY DEF Shows
<1>2. /\ y \in 0 .. 99 /\ m \in 0 .. 11 /\ date \in 1 .. 31 /\ h \in 0 .. 23
      /\ mi \in 0 .. 59 /\ s \in 0 .. 59 /\ (t.day + 6) % 7 \in 0 .. 6
  BY <1>1, Parts
<1>3. /\ Value(r[0]) = s /\ Value(r[1]) = mi /\ Value(r[4]) = date
      /\ Value(r[5]) = m + 1 /\ Value(r[6]) = y
  <2>1. s \in 0 .. 99 /\ mi \in 0 .. 99 /\ date \in 0 .. 99 /\ m + 1 \in 0 .. 99
    BY ONLY <1>2
  <2>2. QED
    BY <1>1, <1>2, <2>1, Codes
<1>4. HourValue(r[2]) = h
  BY <1>1, <1>2, Hours
<1>5. PICK full \in BOOLEAN : full <=> s = 59 /\ mi = 59 /\ h = 23
  OBVIOUS
<1>6. PICK last : last = MonthDays(m + 1, y)
  OBVIOUS
<1>7. PICK s2 : s2 = IF s = 59 THEN 0 ELSE s + 1
  OBVIOUS
<1>8. PICK mi2 : mi2 = IF s # 59 THEN mi ELSE IF mi = 59 THEN 0 ELSE mi + 1
  OBVIOUS
<1>9. PICK h2 : h2 = IF ~(s = 59 /\ mi = 59) THEN h ELSE IF h = 23 THEN 0 ELSE h + 1
  OBVIOUS
<1>10. PICK w2 : w2 = IF ~full THEN ((t.day + 6) % 7) + 1
                      ELSE IF ((t.day + 6) % 7) + 1 = 7 THEN 1 ELSE ((t.day + 6) % 7) + 1 + 1
  OBVIOUS
<1>11. PICK date2 : date2 = IF ~full THEN date ELSE IF date = last THEN 1 ELSE date + 1
  OBVIOUS
<1>12. PICK month2 : month2 = IF ~(full /\ date = last) THEN m + 1
                              ELSE IF m + 1 = 12 THEN 1 ELSE m + 1 + 1
  OBVIOUS
<1>13. PICK y2 : y2 = IF ~(full /\ date = last /\ m + 1 = 12) THEN y
                      ELSE IF y = 99 THEN 0 ELSE y + 1
  OBVIOUS
<1>14. IsTime(Plus(t, 1), y2, month2 - 1, date2, h2, mi2, s2) /\ ((Plus(t, 1).day + 6) % 7) + 1 = w2
  BY <1>1, <1>5, <1>6, <1>7, <1>8, <1>9, <1>10, <1>11, <1>12, <1>13, NextSecond
<1>15. PICK c : c = Counted(r)
  OBVIOUS
<1>16. DOMAIN c = 0 .. 63 /\ \A a \in (0 .. 63) \ Clock : c[a] = r[a]
  BY <1>15 DEF Counted, Clock
<1>17. c[0] = Code(s2)
  <2>1. c[0] = Code(IF Value(r[0]) = 59 THEN 0 ELSE Value(r[0]) + 1)
    BY <1>15 DEF Counted, Count
  <2>2. QED
    BY ONLY <1>3, <1>7, <2>1
<1>18. c[1] = Code(mi2)
  <2>1. c[1] = Code(Count(Value(r[1]), Value(r[0]) = 59, 59, 0))
    BY <1>15 DEF Counted
  <2>2. Count(Value(r[1]), Value(r[0]) = 59, 59, 0) = mi2
    BY ONLY <1>3, <1>8 DEF Count
  <2>3. QED
    BY ONLY <2>1, <2>2
<1>19. c[2] = HourCode(h2, FALSE) \/ c[2] = HourCode(h2, TRUE)
  <2>1. c[2] = HourCode(Count(HourValue(r[2]), Value(r[0]) = 59 /\ Value(r[1]) = 59, 23, 0),
                        Twelve(r[2]))
    BY <1>15 DEF Counted
  <2>2. Count(HourValue(r[2]), Value(r[0]) = 59 /\ Value(r[1]) = 59, 23, 0) = h2
    BY ONLY <1>3, <1>4, <1>9 DEF Count
  <2>3. c[2] = HourCode(h2, Twelve(r[2]))
    BY ONLY <2>1, <2>2
  <2>4. QED
    BY ONLY <2>3 DEF HourCode
<1>20. c[3] = w2
  <2>1. c[3] = Count(r[3], (Value(r[0]) = 59 /\ Value(r[1]) = 59) /\ HourValue(r[2]) = 23, 7, 1)
    BY <1>15 DEF Counted
  <2>2. (Value(r[0]) = 59 /\ Value(r[1]) = 59) /\ HourValue(r[2]) = 23 <=> full
    BY ONLY <1>3, <1>4, <1>5
  <2>3. r[3] = ((t.day + 6) % 7) + 1
    BY <1>1
  <2>4. QED
    BY ONLY <1>10, <2>1, <2>2, <2>3 DEF Count
<1>21. c[4] = Code(date2)
  <2>1. c[4] = Code(Count(Value(r[4]), (Value(r[0]) = 59 /\ Value(r[1]) = 59) /\ HourValue(r[2]) = 23,
                          MonthDays(Value(r[5]), Value(r[6])), 1))
    BY <1>15 DEF Counted
  <2>2. (Value(r[0]) = 59 /\ Value(r[1]) = 59) /\ HourValue(r[2]) = 23 <=> full
    BY ONLY <1>3, <1>4, <1>5
  <2>3. MonthDays(Value(r[5]), Value(r[6])) = last
    BY ONLY <1>3, <1>6
  <2>4. Count(Value(r[4]), (Value(r[0]) = 59 /\ Value(r[1]) = 59) /\ HourValue(r[2]) = 23,
              MonthDays(Value(r[5]), Value(r[6])), 1) = date2
    BY ONLY <1>3, <1>11, <2>2, <2>3 DEF Count
  <2>5. QED
    BY ONLY <2>1, <2>4
<1>22. c[5] = Code(month2)
  <2>1. c[5] = Code(Count(Value(r[5]),
                          ((Value(r[0]) = 59 /\ Value(r[1]) = 59) /\ HourValue(r[2]) = 23)
                            /\ Value(r[4]) = MonthDays(Value(r[5]), Value(r[6])), 12, 1))
    BY <1>15 DEF Counted
  <2>2. ((Value(r[0]) = 59 /\ Value(r[1]) = 59) /\ HourValue(r[2]) = 23)
          /\ Value(r[4]) = MonthDays(Value(r[5]), Value(r[6])) <=> full /\ date = last
    BY ONLY <1>3, <1>4, <1>5, <1>6
  <2>3. Count(Value(r[5]), ((Value(r[0]) = 59 /\ Value(r[1]) = 59) /\ HourValue(r[2]) = 23)
                             /\ Value(r[4]) = MonthDays(Value(r[5]), Value(r[6])), 12, 1) = month2
    BY ONLY <1>3, <1>12, <2>2 DEF Count
  <2>4. QED
    BY ONLY <2>1, <2>3
<1>23. c[6] = Code(y2)
  <2>1. c[6] = Code(Count(Value(r[6]),
                          ((Value(r[0]) = 59 /\ Value(r[1]) = 59) /\ HourValue(r[2]) = 23)
                            /\ Value(r[4]) = MonthDays(Value(r[5]), Value(r[6]))
                            /\ Value(r[5]) = 12, 99, 0))
    BY <1>15 DEF Counted
  <2>2. ((Value(r[0]) = 59 /\ Value(r[1]) = 59) /\ HourValue(r[2]) = 23)
          /\ Value(r[4]) = MonthDays(Value(r[5]), Value(r[6])) /\ Value(r[5]) = 12
          <=> full /\ date = last /\ m + 1 = 12
    BY ONLY <1>3, <1>4, <1>5, <1>6
  <2>3. Count(Value(r[6]), ((Value(r[0]) = 59 /\ Value(r[1]) = 59) /\ HourValue(r[2]) = 23)
                             /\ Value(r[4]) = MonthDays(Value(r[5]), Value(r[6]))
                             /\ Value(r[5]) = 12, 99, 0) = y2
    BY ONLY <1>3, <1>13, <2>2 DEF Count
  <2>4. QED
    BY ONLY <2>1, <2>3
<1>24. (month2 - 1) + 1 = month2
  <2>1. m \in 0 .. 11
    BY <1>2
  <2>2. QED
    BY ONLY <1>12, <2>1
<1>25. Shows(c, Plus(t, 1))
  BY ONLY <1>14, <1>17, <1>18, <1>19, <1>20, <1>21, <1>22, <1>23, <1>24, ShowsIf
<1>26. QED
  BY ONLY <1>15, <1>16, <1>25

-----------------------------------------------------------------------------
(* What ds1307_set_time writes and ds1307_get_time reads.                  *)

LEMMA RegistersSet ==
  ASSUME NEW t, NEW y, NEW m, NEW date, NEW h, NEW mi, NEW s, IsTime(t, y, m, date, h, mi, s)
  PROVE  timeRegs(localtime(t)) =
           <<Code(s), Code(mi), HourCode(h, FALSE), ((t.day + 6) % 7) + 1,
             Code(date), Code(m + 1), Code(y)>>
<1> DEFINE tm == localtime(t)
<1>1. tm = [tm_sec |-> s, tm_min |-> mi, tm_hour |-> h, tm_wday |-> (t.day + 6) % 7,
            tm_mday |-> date, tm_mon |-> m, tm_year |-> y + 100]
  BY LocalTime
<1>2. timeRegs(tm) =
        <<DEC_TO_BCD(tm.tm_sec) % 128, DEC_TO_BCD(tm.tm_min), DEC_TO_BCD(tm.tm_hour) % 64,
          DEC_TO_BCD(tm.tm_wday + 1), DEC_TO_BCD(tm.tm_mday), DEC_TO_BCD(tm.tm_mon + 1),
          DEC_TO_BCD(tm.tm_year - 100)>>
  BY DEF timeRegs
<1> HIDE DEF tm
<1>3. /\ y \in 0 .. 99 /\ m \in 0 .. 11 /\ date \in 1 .. 31 /\ h \in 0 .. 23
      /\ mi \in 0 .. 59 /\ s \in 0 .. 59 /\ (t.day + 6) % 7 \in 0 .. 6
  BY Parts
<1>4. /\ tm.tm_sec = s /\ tm.tm_min = mi /\ tm.tm_hour = h /\ tm.tm_wday = (t.day + 6) % 7
      /\ tm.tm_mday = date /\ tm.tm_mon = m /\ tm.tm_year - 100 = y
  <2>1. /\ tm.tm_sec = s /\ tm.tm_min = mi /\ tm.tm_hour = h /\ tm.tm_wday = (t.day + 6) % 7
        /\ tm.tm_mday = date /\ tm.tm_mon = m /\ tm.tm_year = y + 100
    BY ONLY <1>1
  <2>2. tm.tm_year - 100 = y
    BY ONLY <1>3, <2>1
  <2>3. QED
    BY ONLY <2>1, <2>2
<1>5. PICK w \in 1 .. 7 : w = ((t.day + 6) % 7) + 1
  BY <1>3
<1>6. /\ s \in 0 .. 99 /\ mi \in 0 .. 99 /\ h \in 0 .. 99 /\ w \in 0 .. 99
      /\ date \in 0 .. 99 /\ m + 1 \in 0 .. 99
  BY ONLY <1>3, w \in 1 .. 7
<1>7. /\ DEC_TO_BCD(s) = Code(s) /\ DEC_TO_BCD(mi) = Code(mi) /\ DEC_TO_BCD(h) = Code(h)
      /\ DEC_TO_BCD(w) = Code(w) /\ DEC_TO_BCD(date) = Code(date)
      /\ DEC_TO_BCD(m + 1) = Code(m + 1) /\ DEC_TO_BCD(y) = Code(y)
  BY <1>3, <1>6, Codes
<1>8. Code(w) = w
  <2>1. w \in 0 .. 9
    OBVIOUS
  <2>2. QED
    BY <2>1, SmallCodes
<1>9. Code(s) % 128 = Code(s)
  <2>1. Code(s) < 128 /\ Code(s) \in 0 .. 255
    BY ONLY <1>3, <1>6, SmallCodes, Codes DEF Byte
  <2>2. QED
    BY ONLY <2>1
<1>10. Code(h) % 64 = Code(h) /\ HourCode(h, FALSE) = Code(h)
  <2>1. Code(h) \in 0 .. 63
    BY <1>3, SmallCodes
  <2>2. Code(h) % 64 = Code(h)
    BY ONLY <2>1
  <2>3. QED
    BY <2>2 DEF HourCode
<1>11. timeRegs(tm) =
         <<Code(s), Code(mi), HourCode(h, FALSE), w, Code(date), Code(m + 1), Code(y)>>
  BY ONLY <1>2, <1>4, <1>5, <1>7, <1>8, <1>9, <1>10
<1>12. QED
  BY ONLY <1>5, <1>11 DEF tm

\* mktime is the inverse of localtime.
LEMMA MakesTime ==
  ASSUME NEW t, NEW y, NEW m, NEW date, NEW h, NEW mi, NEW s, IsTime(t, y, m, date, h, mi, s),
         NEW tm, tm.tm_sec = s, tm.tm_min = mi, tm.tm_hour = h, tm.tm_mday = date, tm.tm_mon = m,
         tm.tm_year = y + 100
  PROVE  mktime(tm) = [day |-> t.day, sec |-> t.sec]
<1>1. /\ y \in 0 .. 99 /\ m \in 0 .. 11 /\ date \in 1 .. 31 /\ h \in 0 .. 23
      /\ mi \in 0 .. 59 /\ s \in 0 .. 59 /\ t.day \in Nat /\ t.sec \in Nat /\ t.sec < 86400
  BY Parts
<1>2. t.day = YearStart(y) + MonthStart(y, m) + date - 1 /\ t.sec = 3600 * h + 60 * mi + s
  BY DEF IsTime, IsDate, IsClock
<1>3. /\ tm.tm_year - 100 + tm.tm_mon \div 12 = y /\ tm.tm_mon % 12 = m
      /\ 3600 * tm.tm_hour + 60 * tm.tm_min + tm.tm_sec = t.sec
      /\ YearStart(y) + MonthStart(y, m) + tm.tm_mday - 1 = t.day
  <2>1. m \div 12 = 0 /\ m % 12 = m /\ y + 100 - 100 + 0 = y
    BY ONLY <1>1
  <2>2. tm.tm_mon \div 12 = 0 /\ tm.tm_mon % 12 = m
    BY <2>1
  <2>3. tm.tm_year - 100 + tm.tm_mon \div 12 = y
    BY ONLY <1>1, <2>2, tm.tm_year = y + 100
  <2>4. 3600 * tm.tm_hour + 60 * tm.tm_min + tm.tm_sec = t.sec
    BY ONLY <1>2, tm.tm_sec = s, tm.tm_min = mi, tm.tm_hour = h
  <2>5. YearStart(y) + MonthStart(y, m) + tm.tm_mday - 1 = t.day
    BY ONLY <1>2, tm.tm_mday = date
  <2>6. QED
    BY ONLY <2>2, <2>3, <2>4, <2>5
<1>4. mktime(tm) = Plus([day |-> t.day, sec |-> 0], t.sec)
  BY ONLY <1>3 DEF mktime
<1>5. (0 + t.sec) \div 86400 = 0 /\ (0 + t.sec) % 86400 = t.sec
  BY ONLY <1>1
<1>6. Plus([day |-> t.day, sec |-> 0], t.sec) = [day |-> t.day + 0, sec |-> t.sec]
  BY ONLY <1>5 DEF Plus
<1>7. QED
  BY ONLY <1>1, <1>4, <1>6

\* What get_time makes of registers that show a time.  In the 12-hour mode the
\* hours that begin at 12 come out wrong.
LEMMA TimeIsRead ==
  ASSUME NEW r, NEW t, Shows(r, t), Twelve(r[2]) => t.sec % 43200 >= 3600
  PROVE  mktime(timeStruct(r)) = [day |-> t.day, sec |-> t.sec]
<1>1. PICK y, m, date, h, mi, s :
        /\ IsTime(t, y, m, date, h, mi, s)
        /\ r[0] = Code(s) /\ r[1] = Code(mi) /\ r[3] = ((t.day + 6) % 7) + 1
        /\ r[2] = HourCode(h, FALSE) \/ r[2] = HourCode(h, TRUE)
        /\ r[4] = Code(date) /\ r[5] = Code(m + 1) /\ r[6] = Code(y)
  BY ONLY Shows(r, t) DEF Shows
<1>2. /\ y \in 0 .. 99 /\ m \in 0 .. 11 /\ date \in 1 .. 31 /\ h \in 0 .. 23
      /\ mi \in 0 .. 59 /\ s \in 0 .. 59
  BY ONLY <1>1, Parts
<1>3. hoursSinceMidnight(r[2]) = h
  <2>1. CASE r[2] = HourCode(h, FALSE)
    BY ONLY <1>2, <2>1, Hours
  <2>2. CASE r[2] = HourCode(h, TRUE)
    <3>1. Twelve(r[2])
      BY ONLY <1>2, <2>2, Hours
    <3>2. t.sec % 43200 >= 3600
      BY <3>1
    <3>3. t.sec = 3600 * h + 60 * mi + s
      BY ONLY <1>1 DEF IsTime, IsClock
    <3>4. h # 0
      <4>1. SUFFICES ASSUME h = 0 PROVE FALSE
        OBVIOUS
      <4>2. t.sec \in Nat /\ t.sec < 3600
        BY ONLY <1>2, <3>3, <4>1
      <4>3. QED
        BY ONLY <3>2, <4>2
    <3>5. h # 12
      <4>1. SUFFICES ASSUME h = 12 PROVE FALSE
        OBVIOUS
      <4>2. t.sec \in Nat /\ 43200 <= t.sec /\ t.sec < 46800
        BY ONLY <1>2, <3>3, <4>1
      <4>3. t.sec % 43200 = t.sec - 43200
        BY ONLY <4>2
      <4>4. QED
        BY ONLY <3>2, <4>2, <4>3
    <3>6. h % 12 # 0
      BY ONLY <1>2, <3>4, <3>5
    <3>7. hoursSinceMidnight(HourCode(h, TRUE)) = h
      BY ONLY <1>2, <3>6, Hours
    <3>8. QED
      BY ONLY <2>2, <3>7
  <2>3. QED
    BY ONLY <1>1, <2>1, <2>2
<1>4. /\ BCD_TO_DEC(r[0] % 128) = s /\ BCD_TO_DEC(r[1]) = mi /\ BCD_TO_DEC(r[4]) = date
      /\ BCD_TO_DEC(r[5]) = m + 1 /\ BCD_TO_DEC(r[6]) = y
  <2>1. s \in 0 .. 99 /\ mi \in 0 .. 99 /\ date \in 0 .. 99 /\ m + 1 \in 0 .. 99
    BY ONLY <1>2
  <2>2. Code(s) % 128 = Code(s)
    <3>1. Code(s) < 128 /\ Code(s) \in 0 .. 255
      BY ONLY <1>2, <2>1, SmallCodes, Codes DEF Byte
    <3>2. QED
      BY ONLY <3>1
  <2>3. r[0] % 128 = Code(s)
    BY ONLY <1>1, <2>2
  <2>4. QED
    BY <1>1, <1>2, <2>1, <2>3, Codes
<1>5. PICK tm : tm = timeStruct(r)
  OBVIOUS
<1>6. /\ tm.tm_sec = s /\ tm.tm_min = mi /\ tm.tm_hour = h /\ tm.tm_mday = date /\ tm.tm_mon = m
      /\ tm.tm_year = y + 100
  <2>1. m + 1 - 1 = m
    BY ONLY <1>2
  <2>2. tm = [tm_sec |-> BCD_TO_DEC(r[0] % 128), tm_min |-> BCD_TO_DEC(r[1]),
              tm_hour |-> hoursSinceMidnight(r[2]), tm_mday |-> BCD_TO_DEC(r[4]),
              tm_mon |-> BCD_TO_DEC(r[5]) - 1, tm_year |-> BCD_TO_DEC(r[6]) + 100]
    BY ONLY <1>5 DEF timeStruct
  <2>3. /\ tm.tm_sec = BCD_TO_DEC(r[0] % 128) /\ tm.tm_min = BCD_TO_DEC(r[1])
        /\ tm.tm_hour = hoursSinceMidnight(r[2]) /\ tm.tm_mday = BCD_TO_DEC(r[4])
        /\ tm.tm_mon = BCD_TO_DEC(r[5]) - 1 /\ tm.tm_year = BCD_TO_DEC(r[6]) + 100
    BY ONLY <2>2
  <2>4. tm.tm_mon = m
    BY ONLY <1>2, <1>4, <2>3
  <2>5. QED
    BY ONLY <1>3, <1>4, <2>3, <2>4
<1>7. mktime(tm) = [day |-> t.day, sec |-> t.sec]
  BY <1>1, <1>6, MakesTime
<1>8. QED
  BY ONLY <1>5, <1>7

-----------------------------------------------------------------------------
(* The clock.  The registers show the time that was set and the seconds    *)
(* since, in either mode of the hours.                                     *)

Registers == regs \in [0 .. 63 -> Byte]
Counts ==
  clock = Unset \/ (clock \in [set : Times, elapsed : 0 .. MaxElapsed] /\ Shows(regs, Now))
Others ==
  /\ device \in BOOLEAN
  /\ stored \in [Ram -> SUBSET (Bytes \cup {0})]
  /\ result.err \in {"OK", "ERR_ALLOC", "ERR_I2C", "ERR_ADDRESS_OUT_OF_RANGE"}

ClockInv == Registers /\ Counts /\ Others

LEMMA ShowsSame ==
  ASSUME NEW r, NEW r2, NEW t, Shows(r, t), \A a \in Clock : r2[a] = r[a]
  PROVE  Shows(r2, t)
<1>1. PICK y, m, date, h, mi, s :
        /\ IsTime(t, y, m, date, h, mi, s)
        /\ r[0] = Code(s) /\ r[1] = Code(mi) /\ r[3] = ((t.day + 6) % 7) + 1
        /\ r[2] = HourCode(h, FALSE) \/ r[2] = HourCode(h, TRUE)
        /\ r[4] = Code(date) /\ r[5] = Code(m + 1) /\ r[6] = Code(y)
  BY DEF Shows
<1>2. /\ r2[0] = r[0] /\ r2[1] = r[1] /\ r2[2] = r[2] /\ r2[3] = r[3] /\ r2[4] = r[4]
      /\ r2[5] = r[5] /\ r2[6] = r[6]
  BY DEF Clock
<1>3. QED
  BY ONLY <1>1, <1>2, ShowsIf

LEMMA TimesToSet ==
  ASSUME NEW t \in Times
  PROVE  /\ t.day \in Nat /\ t.day <= 36524 /\ t.sec \in Nat /\ t.sec < 86400
         /\ Plus(t, 0) = t
<1>1. t = [day |-> t.day, sec |-> t.sec] /\ t.day \in Days /\ t.sec \in Seconds
  BY DEF Times
<1>2. t.day \in Nat /\ t.day <= 36524 /\ t.sec \in Nat /\ t.sec < 86400
  BY <1>1, ClockAssumption DEF ClockAssumption
<1>3. (t.sec + 0) \div 86400 = 0 /\ (t.sec + 0) % 86400 = t.sec
  BY ONLY <1>2
<1>4. t.day + 0 = t.day
  BY ONLY <1>2
<1>5. Plus(t, 0) = [day |-> t.day, sec |-> t.sec]
  BY ONLY <1>3, <1>4 DEF Plus
<1>6. QED
  BY ONLY <1>1, <1>2, <1>5

LEMMA OneMore ==
  ASSUME NEW t, t.day \in Nat, t.sec \in Nat, NEW n \in Nat
  PROVE  Plus(Plus(t, n), 1) = Plus(t, n + 1)
<1>1. PICK x \in Nat : x = t.sec + n
  OBVIOUS
<1>2. Plus(t, n) = [day |-> t.day + x \div 86400, sec |-> x % 86400]
  BY ONLY <1>1 DEF Plus
<1>3. t.sec + (n + 1) = x + 1
  BY ONLY <1>1, t.sec \in Nat, n \in Nat
<1>4. Plus(t, n + 1) = [day |-> t.day + (x + 1) \div 86400, sec |-> (x + 1) % 86400]
  BY ONLY <1>3 DEF Plus
<1>5. PICK q \in Nat, r \in Nat : q = x \div 86400 /\ r = x % 86400 /\ r < 86400 /\ x = 86400 * q + r
  <2>1. x \div 86400 \in Nat /\ x % 86400 \in Nat /\ x % 86400 < 86400
        /\ x = 86400 * (x \div 86400) + (x % 86400)
    BY ONLY x \in Nat
  <2> DEFINE q == x \div 86400
             r == x % 86400
  <2>2. q \in Nat /\ r \in Nat /\ q = x \div 86400 /\ r = x % 86400 /\ r < 86400
        /\ x = 86400 * q + r
    BY ONLY <2>1
  <2> HIDE DEF q, r
  <2>3. QED
    BY ONLY <2>2
<1>6. Plus(Plus(t, n), 1) = [day |-> (t.day + q) + (r + 1) \div 86400, sec |-> (r + 1) % 86400]
  <2>1. Plus(t, n).day = t.day + q /\ Plus(t, n).sec = r
    BY ONLY <1>2, <1>5
  <2>2. QED
    BY ONLY <2>1 DEF Plus
<1>7. t.day + (x + 1) \div 86400 = (t.day + q) + (r + 1) \div 86400
      /\ (x + 1) % 86400 = (r + 1) % 86400
  <2>1. CASE r + 1 < 86400
    <3>1. (r + 1) \div 86400 = 0 /\ (r + 1) % 86400 = r + 1
      BY ONLY <2>1, r \in Nat
    <3>2. (x + 1) \div 86400 = q /\ (x + 1) % 86400 = r + 1
      BY ONLY <1>5, <2>1, r \in Nat, q \in Nat, x \in Nat
    <3>3. QED
      BY ONLY <3>1, <3>2, t.day \in Nat, q \in Nat
  <2>2. CASE r + 1 = 86400
    <3>1. (r + 1) \div 86400 = 1 /\ (r + 1) % 86400 = 0
      BY ONLY <2>2, r \in Nat
    <3>2. (x + 1) \div 86400 = q + 1 /\ (x + 1) % 86400 = 0
      BY ONLY <1>5, <2>2, r \in Nat, q \in Nat, x \in Nat
    <3>3. QED
      BY ONLY <3>1, <3>2, t.day \in Nat, q \in Nat
  <2>3. QED
    BY ONLY <1>5, <2>1, <2>2, r \in Nat
<1>8. QED
  BY ONLY <1>4, <1>6, <1>7

\* A function changed at seven places is still one.
LEMMA StillFunction ==
  ASSUME NEW r, NEW e0, NEW e1, NEW e2, NEW e3, NEW e4, NEW e5, NEW e6, NEW c,
         c = [r EXCEPT ![0] = e0, ![1] = e1, ![2] = e2, ![3] = e3, ![4] = e4, ![5] = e5, ![6] = e6]
  PROVE  c = [a \in DOMAIN r |-> c[a]]
OBVIOUS

LEMMA TickRuns == ASSUME ClockInv, Tick PROVE ClockInv'
<1>1. /\ clock # Unset /\ clock.elapsed < MaxElapsed
      /\ Plus(Now, 1).day <= LastDay
      /\ clock' = [clock EXCEPT !.elapsed = @ + 1]
      /\ regs' = IF regs[0] >= 128 THEN regs ELSE Counted(regs)
      /\ UNCHANGED <<device, stored, result>>
  BY DEF Tick, LastDay
<1>2. clock \in [set : Times, elapsed : 0 .. MaxElapsed] /\ Shows(regs, Now)
  BY <1>1 DEF ClockInv, Counts
<1>3. MaxElapsed \in Nat
  BY ClockAssumption DEF ClockAssumption
<1>4. PICK t \in Times, n \in Nat : clock = [set |-> t, elapsed |-> n] /\ n < MaxElapsed
  BY ONLY <1>1, <1>2, <1>3
<1>5. clock' = [set |-> t, elapsed |-> n + 1]
  BY ONLY <1>1, <1>4
<1>6. clock' \in [set : Times, elapsed : 0 .. MaxElapsed]
  BY ONLY <1>3, <1>4, <1>5, t \in Times, n \in Nat
<1>7. Now = Plus(t, n) /\ Now' = Plus(t, n + 1)
  BY ONLY <1>4, <1>5 DEF Now
<1>8. Plus(Now, 1) = Now'
  <2>1. t.day \in Nat /\ t.sec \in Nat
    BY TimesToSet
  <2>2. Plus(Plus(t, n), 1) = Plus(t, n + 1)
    BY <2>1, OneMore
  <2>3. QED
    BY ONLY <1>7, <2>2
<1>9. PICK r \in [0 .. 63 -> Byte] : r = regs
  BY DEF ClockInv, Registers
<1>10. PICK now : now = Now
  OBVIOUS
<1>11. Shows(r, now) /\ Plus(now, 1).day <= LastDay
  BY ONLY <1>1, <1>2, <1>9, <1>10
<1>12. r[0] < 128
  BY ONLY <1>11, ShowsMeans
<1>13. DOMAIN r = 0 .. 63
  OBVIOUS
<1>14. /\ Shows(Counted(r), Plus(now, 1)) /\ DOMAIN Counted(r) = 0 .. 63
       /\ \A a \in (0 .. 63) \ Clock : Counted(r)[a] = r[a]
  BY ONLY <1>11, <1>13, CountedShows
<1>15. regs' = Counted(r)
  <2>1. r[0] \in Byte
    OBVIOUS
  <2>2. ~(r[0] >= 128)
    <3>1. PICK b \in 0 .. 255 : b = r[0]
      BY ONLY <2>1 DEF Byte
    <3>2. ~(b >= 128)
      BY ONLY <1>12, <3>1
    <3>3. QED
      BY ONLY <3>1, <3>2
  <2>3. QED
    BY ONLY <1>1, <1>9, <2>2
<1>16. Shows(regs, Now)'
  BY ONLY <1>8, <1>10, <1>14, <1>15
<1>17. Registers'
  <2>1. PICK c : c = Counted(r)
    OBVIOUS
  <2>2. \A a \in Clock : c[a] \in Byte
    BY ONLY <1>14, <2>1, ShowsBytes
  <2>3. \A a \in 0 .. 63 : c[a] \in Byte
    BY ONLY <1>14, <2>1, <2>2, r \in [0 .. 63 -> Byte]
  <2>4. c = [a \in 0 .. 63 |-> c[a]]
    <3>1. Counted(r) = [a \in DOMAIN r |-> Counted(r)[a]]
      BY ONLY StillFunction, ZenonT(30) DEF Counted
    <3>2. QED
      BY ONLY <2>1, <3>1, <1>13
  <2>5. c \in [0 .. 63 -> Byte]
    BY ONLY <2>3, <2>4
  <2>6. QED
    BY ONLY <1>15, <2>1, <2>5 DEF Registers
<1>18. Counts'
  BY ONLY <1>6, <1>16 DEF Counts
<1>19. Others'
  BY <1>1 DEF ClockInv, Others
<1>20. QED
  BY ONLY <1>17, <1>18, <1>19 DEF ClockInv

\* The registers after a transfer of k bytes to the clock.
LEMMA ClockWritten ==
  ASSUME NEW data, NEW k \in 0 .. 7, NEW a \in 0 .. 63
  PROVE  Arrived(0, data, k)[a] = IF a < k THEN data[a + 1] ELSE regs[a]
<1>1. (a - 0) % 64 = a
  BY ONLY a \in 0 .. 63
<1>2. QED
  BY ONLY <1>1, a \in 0 .. 63 DEF Arrived

\* What ds1307_set_time writes shows the time that it sets.
LEMMA SetShows ==
  ASSUME NEW t \in Times, NEW r, \A a \in Clock : r[a] = timeRegs(localtime(t))[a + 1]
  PROVE  Shows(r, t)
<1>1. t.day \in Nat /\ t.day <= 36524 /\ t.sec \in Nat /\ t.sec < 86400
  BY TimesToSet
<1>2. PICK y, m, date, h, mi, s : IsTime(t, y, m, date, h, mi, s)
  BY <1>1, TimeExists
<1>3. timeRegs(localtime(t)) =
        <<Code(s), Code(mi), HourCode(h, FALSE), ((t.day + 6) % 7) + 1,
          Code(date), Code(m + 1), Code(y)>>
  BY <1>2, RegistersSet
<1>4. PICK d : d = timeRegs(localtime(t))
  OBVIOUS
<1>5. /\ r[0] = d[1] /\ r[1] = d[2] /\ r[2] = d[3] /\ r[3] = d[4] /\ r[4] = d[5]
      /\ r[5] = d[6] /\ r[6] = d[7]
  <2>1. \A a \in Clock : r[a] = d[a + 1]
    BY <1>4
  <2>2. r[0] = d[0 + 1] /\ r[1] = d[1 + 1] /\ r[2] = d[2 + 1] /\ r[3] = d[3 + 1]
        /\ r[4] = d[4 + 1] /\ r[5] = d[5 + 1] /\ r[6] = d[6 + 1]
    BY ONLY <2>1 DEF Clock
  <2>3. QED
    BY ONLY <2>2
<1>6. /\ d[1] = Code(s) /\ d[2] = Code(mi) /\ d[3] = HourCode(h, FALSE)
      /\ d[4] = ((t.day + 6) % 7) + 1 /\ d[5] = Code(date) /\ d[6] = Code(m + 1) /\ d[7] = Code(y)
  BY ONLY <1>3, <1>4
<1>7. QED
  BY ONLY <1>2, <1>5, <1>6, ShowsIf

\* A second set: all of it, or none, or parts, with which the chip counts on
\* from a time that nobody set.
LEMMA SetTimeRuns ==
  ASSUME ClockInv, NEW t \in Times, ds1307_set_time(t)
  PROVE  ClockInv'
<1>1. PICK data : data = timeRegs(localtime(t))
  OBVIOUS
<1>2. PICK k \in 0 .. 7, err \in {"OK", "ERR_I2C"} :
        /\ ds1307_write_registers(0, data, k, err)
        /\ clock' = IF err = "OK" \/ k = 7 THEN [set |-> t, elapsed |-> 0]
                    ELSE IF k = 0 THEN clock ELSE Unset
  BY <1>1 DEF ds1307_set_time
<1>3. /\ k = Len(data) \/ err = "ERR_I2C"
      /\ regs' = Arrived(0, data, k)
      /\ result' = [err |-> err, time |-> NoTime]
      /\ UNCHANGED <<device, stored>>
  BY <1>2 DEF ds1307_write_registers, Returns, ds1307_set_time
<1>4. \A a \in 0 .. 63 : regs'[a] = IF a < k THEN data[a + 1] ELSE regs[a]
  BY <1>3, ClockWritten
<1>5. Len(data) = 7
  BY <1>1 DEF timeRegs
<1>6. \A a \in Clock : data[a + 1] \in Byte
  <2>1. PICK r : r = [a \in Clock |-> data[a + 1]]
    OBVIOUS
  <2>2. \A a \in Clock : r[a] = timeRegs(localtime(t))[a + 1]
    BY ONLY <1>1, <2>1
  <2>3. Shows(r, t)
    BY ONLY <2>2, SetShows, t \in Times
  <2>4. QED
    BY ONLY <2>1, <2>3, ShowsBytes
<1>7. Registers'
  <2>1. regs \in [0 .. 63 -> Byte]
    BY DEF ClockInv, Registers
  <2>2. \A a \in 0 .. 63 : a < k => a \in Clock
    BY ONLY k \in 0 .. 7 DEF Clock
  <2>3. \A a \in 0 .. 63 : regs'[a] \in Byte
    BY ONLY <1>4, <1>6, <2>1, <2>2
  <2>4. regs' = [a \in 0 .. 63 |-> regs'[a]]
    BY ONLY <1>3 DEF Arrived
  <2>5. QED
    BY ONLY <2>3, <2>4 DEF Registers
<1>8. Counts'
  <2>1. CASE k = 7
    <3>1. clock' = [set |-> t, elapsed |-> 0]
      BY ONLY <1>2, <2>1
    <3>2. \A a \in Clock : a \in 0 .. 63 /\ a < 7
      BY DEF Clock
    <3>3. \A a \in Clock : regs'[a] = timeRegs(localtime(t))[a + 1]
      BY ONLY <1>1, <1>4, <2>1, <3>2
    <3>4. PICK r : r = regs'
      OBVIOUS
    <3>5. Shows(r, t)
      BY ONLY <3>3, <3>4, SetShows, t \in Times
    <3>6. Now' = Plus(t, 0)
      BY ONLY <3>1 DEF Now
    <3>7. Plus(t, 0) = t
      BY TimesToSet
    <3>8. Shows(regs, Now)'
      BY ONLY <3>4, <3>5, <3>6, <3>7
    <3>9. 0 \in 0 .. MaxElapsed
      BY ClockAssumption DEF ClockAssumption
    <3>10. clock' \in [set : Times, elapsed : 0 .. MaxElapsed]
      BY ONLY <3>1, <3>9, t \in Times
    <3>11. QED
      BY ONLY <3>8, <3>10 DEF Counts
  <2>2. CASE k # 7 /\ k = 0
    <3>1. clock' = clock
      BY ONLY <1>2, <1>3, <1>5, <2>2
    <3>2. CASE clock = Unset
      BY <3>1, <3>2 DEF Counts
    <3>3. CASE clock \in [set : Times, elapsed : 0 .. MaxElapsed] /\ Shows(regs, Now)
      <4>1. \A a \in Clock : a \in 0 .. 63 /\ ~(a < 0)
        BY DEF Clock
      <4>2. \A a \in Clock : regs'[a] = regs[a]
        BY ONLY <1>4, <2>2, <4>1
      <4>3. PICK r : r = regs
        OBVIOUS
      <4>4. PICK r2 : r2 = regs'
        OBVIOUS
      <4>5. PICK now : now = Now
        OBVIOUS
      <4>6. Shows(r2, now)
        BY ONLY <3>3, <4>2, <4>3, <4>4, <4>5, ShowsSame
      <4>7. Now' = now
        BY ONLY <3>1, <4>5 DEF Now
      <4>8. Shows(regs, Now)'
        BY ONLY <4>4, <4>6, <4>7
      <4>9. QED
        BY ONLY <3>1, <3>3, <4>8 DEF Counts
    <3>4. QED
      BY <3>2, <3>3 DEF ClockInv, Counts
  <2>3. CASE k # 7 /\ k # 0
    <3>1. clock' = Unset
      BY ONLY <1>2, <1>3, <1>5, <2>3
    <3>2. QED
      BY ONLY <3>1 DEF Counts, Unset
  <2>4. QED
    BY ONLY <2>1, <2>2, <2>3
<1>9. Others'
  BY <1>3 DEF ClockInv, Others
<1>10. QED
  BY ONLY <1>7, <1>8, <1>9 DEF ClockInv

\* A transfer to the RAM that ends where the RAM does leaves the clock alone.
LEMMA WriteRamRuns ==
  ASSUME ClockInv, NEW address \in Nat, NEW n \in Nat, NEW b \in Bytes, Fits(address, n),
         NEW data, data = [i \in 1 .. n |-> b], ds1307_write_ram(address, data)
  PROVE  ClockInv'
<1>1. CASE OutOfRange(address)
  <2>1. UNCHANGED <<regs, device, clock, stored>> /\ result'.err = "ERR_ADDRESS_OUT_OF_RANGE"
    BY <1>1 DEF OutOfRange, Returns
  <2>2. QED
    BY <2>1 DEF ClockInv, Registers, Counts, Others, Now
<1>2. CASE ~OutOfRange(address)
  <2>1. Len(data) = n
    OBVIOUS
  <2>2. PICK k \in 0 .. n, err \in {"OK", "ERR_I2C"} :
          /\ ds1307_write_registers(address, data, k, err)
          /\ stored' = Leaves(address, data, err)
          /\ clock' = clock
          /\ InRange(address)
    BY <1>2, <2>1 DEF ds1307_write_ram
  <2>3. /\ regs' = Arrived(address, data, k) /\ device' = device
        /\ result' = [err |-> err, time |-> NoTime]
    BY <2>2 DEF ds1307_write_registers, Returns
  <2>4. address \in Ram /\ address + n <= 64
    BY <2>2 DEF InRange, Fits, Ram
  <2>5. k \in Nat /\ k <= n
    OBVIOUS
  <2>6. \A a \in Clock : regs'[a] = regs[a]
    <3>1. SUFFICES ASSUME NEW a \in Clock PROVE regs'[a] = regs[a]
      OBVIOUS
    <3>2. a \in 0 .. 63 /\ (a - address) % 64 >= k
      <4>1. a \in 0 .. 6 /\ address \in 8 .. 63
        BY <2>4 DEF Clock, Ram
      <4>2. (a - address) % 64 = a - address + 64
        BY ONLY <4>1
      <4>3. QED
        BY ONLY <2>4, <2>5, <4>1, <4>2, n \in Nat
    <3>3. Arrived(address, data, k)[a] = regs[a]
      BY ONLY <2>5, <3>2, address \in Nat, TransferMisses
    <3>4. QED
      BY ONLY <2>3, <3>3
  <2>7. Registers'
    <3>1. regs \in [0 .. 63 -> Byte] /\ b \in Byte
      BY ClockAssumption DEF ClockInv, Registers, ClockAssumption
    <3>2. ASSUME NEW a \in 0 .. 63 PROVE regs'[a] \in Byte
      <4>1. PICK i \in Nat : i = (a - address) % 64
        BY ONLY a \in 0 .. 63, address \in Nat
      <4>2. regs'[a] = IF i < k THEN data[i + 1] ELSE regs[a]
        BY ONLY <2>3, <4>1, a \in 0 .. 63 DEF Arrived
      <4>3. i < k => data[i + 1] = b
        <5>1. i < k => i + 1 \in 1 .. n
          BY ONLY <2>5, i \in Nat, n \in Nat
        <5>2. QED
          BY ONLY <5>1, data = [j \in 1 .. n |-> b]
      <4>4. QED
        BY ONLY <3>1, <4>2, <4>3, a \in 0 .. 63
    <3>3. regs' = [a \in 0 .. 63 |-> regs'[a]]
      BY ONLY <2>3 DEF Arrived
    <3>4. QED
      BY ONLY <3>2, <3>3 DEF Registers
  <2>8. Counts'
    <3>1. CASE clock = Unset
      BY <2>2, <3>1 DEF Counts
    <3>2. CASE clock \in [set : Times, elapsed : 0 .. MaxElapsed] /\ Shows(regs, Now)
      <4>1. PICK r : r = regs
        OBVIOUS
      <4>2. PICK r2 : r2 = regs'
        OBVIOUS
      <4>3. PICK now : now = Now
        OBVIOUS
      <4>4. Shows(r2, now)
        BY ONLY <2>6, <3>2, <4>1, <4>2, <4>3, ShowsSame
      <4>5. Now' = now
        BY ONLY <2>2, <4>3 DEF Now
      <4>6. Shows(regs, Now)'
        BY ONLY <4>2, <4>4, <4>5
      <4>7. QED
        BY ONLY <2>2, <3>2, <4>6 DEF Counts
    <3>3. QED
      BY <3>1, <3>2 DEF ClockInv, Counts
  <2>9. Others'
    <3>1. stored \in [Ram -> SUBSET (Bytes \cup {0})] /\ device \in BOOLEAN
      BY DEF ClockInv, Others
    <3>2. ASSUME NEW a \in Ram PROVE stored'[a] \in SUBSET (Bytes \cup {0})
      <4>1. stored'[a] = IF a \notin address .. address + n - 1 THEN stored[a]
                         ELSE {data[a - address + 1]} \cup (IF err = "OK" THEN {} ELSE stored[a])
        BY <2>1, <2>2, <2>4 DEF Leaves
      <4>2. a \in address .. address + n - 1 => data[a - address + 1] = b
        <5>1. a \in address .. address + n - 1 => a - address + 1 \in 1 .. n
          BY ONLY a \in Ram, address \in Nat, n \in Nat DEF Ram
        <5>2. QED
          BY ONLY <5>1, data = [j \in 1 .. n |-> b]
      <4>3. QED
        BY ONLY <3>1, <4>1, <4>2, b \in Bytes, a \in Ram
    <3>3. stored' = [a \in Ram |-> stored'[a]]
      BY ONLY <2>2 DEF Leaves
    <3>4. stored' \in [Ram -> SUBSET (Bytes \cup {0})]
      BY ONLY <3>2, <3>3
    <3>5. QED
      BY <2>3, <3>1, <3>4 DEF Others
  <2>10. QED
    BY ONLY <2>7, <2>8, <2>9 DEF ClockInv
<1>3. QED
  BY <1>1, <1>2

\* The other calls change neither the registers nor the clock.
LEMMA OthersRun ==
  ASSUME ClockInv, UNCHANGED <<regs, clock, stored>>, device' \in BOOLEAN,
         result'.err \in {"OK", "ERR_ALLOC", "ERR_I2C", "ERR_ADDRESS_OUT_OF_RANGE"}
  PROVE  ClockInv'
<1>1. Registers' /\ Others'
  BY DEF ClockInv, Registers, Others
<1>2. Counts'
  BY DEF ClockInv, Counts, Now
<1>3. QED
  BY <1>1, <1>2 DEF ClockInv

LEMMA ClockStep == ASSUME ClockInv, Next PROVE ClockInv'
<1>1. CASE Tick
  BY <1>1, TickRuns
<1>2. CASE ds1307_add_device \/ ds1307_remove_device
  <2>1. UNCHANGED <<regs, clock, stored>>
    BY <1>2 DEF ds1307_add_device, ds1307_remove_device
  <2>2. device \in BOOLEAN
    BY DEF ClockInv, Others
  <2>3. device' \in BOOLEAN
    BY <1>2, <2>2 DEF ds1307_add_device, ds1307_remove_device
  <2>4. result' = [err |-> "OK", time |-> NoTime] \/ result' = [err |-> "ERR_ALLOC", time |-> NoTime]
    BY ONLY <1>2 DEF ds1307_add_device, ds1307_remove_device, Returns
  <2>5. result'.err \in {"OK", "ERR_ALLOC"}
    BY ONLY <2>4
  <2>6. QED
    BY ONLY ClockInv, <2>1, <2>3, <2>5, OthersRun
<1>3. CASE \E t \in Times : ds1307_set_time(t)
  BY <1>3, SetTimeRuns
<1>4. CASE ds1307_get_time
  <2>1. UNCHANGED <<regs, clock, stored>> /\ device' = device /\ result'.err \in {"OK", "ERR_I2C"}
    BY <1>4 DEF ds1307_get_time, ds1307_read_registers, Returns
  <2>2. device \in BOOLEAN
    BY DEF ClockInv, Others
  <2>3. QED
    BY <2>1, <2>2, OthersRun
<1>5. ASSUME NEW a \in Addresses, ds1307_read_ram(a) PROVE ClockInv'
  <2>1. UNCHANGED <<regs, clock, stored>> /\ device' = device
    BY ONLY <1>5 DEF ds1307_read_ram, OutOfRange, ds1307_read_registers
  <2>2. \E e \in {"OK", "ERR_I2C", "ERR_ADDRESS_OUT_OF_RANGE"} :
          result' = [err |-> e, time |-> NoTime]
    BY ONLY <1>5 DEF ds1307_read_ram, OutOfRange, ds1307_read_registers, Returns
  <2>3. result'.err \in {"OK", "ERR_I2C", "ERR_ADDRESS_OUT_OF_RANGE"}
    BY ONLY <2>2
  <2>4. device \in BOOLEAN
    BY DEF ClockInv, Others
  <2>5. QED
    BY ONLY ClockInv, <2>1, <2>3, <2>4, OthersRun
<1>6. ASSUME NEW a \in Addresses, NEW n \in Lengths, NEW b \in Bytes,
             Fits(a, n), ds1307_write_ram(a, [i \in 1 .. n |-> b])
      PROVE  ClockInv'
  <2>1. a \in Nat /\ n \in Nat
    <3>1. Addresses \subseteq Byte /\ Lengths \subseteq Nat
      BY ClockAssumption DEF ClockAssumption
    <3>2. QED
      BY <3>1 DEF Byte
  <2>2. QED
    BY <1>6, <2>1, WriteRamRuns
<1>7. QED
  BY <1>1, <1>2, <1>3, <1>4, <1>5, <1>6 DEF Next

LEMMA ClockBegins == ASSUME Init PROVE ClockInv
<1>1. Others
  BY DEF Init, Others, Ram
<1>2. CASE clock = Unset /\ regs = [a \in 0 .. 63 |-> IF a = 0 THEN 128 ELSE 0]
  <2>1. Registers
    BY <1>2 DEF Registers, Byte
  <2>2. QED
    BY <1>1, <1>2, <2>1 DEF ClockInv, Counts
<1>3. ASSUME NEW t \in Times, clock = [set |-> t, elapsed |-> 0],
             regs = [a \in 0 .. 63 |-> IF a \in Clock THEN Shown(t, TRUE)[a + 1] ELSE 0]
      PROVE  ClockInv
  <2>1. /\ t.day \in Nat /\ t.day <= 36524 /\ t.sec \in Nat /\ t.sec < 86400 /\ Plus(t, 0) = t
    BY TimesToSet
  <2>2. PICK y, m, date, h, mi, s : IsTime(t, y, m, date, h, mi, s)
    BY <2>1, TimeExists
  <2>3. PICK d : d = Shown(t, TRUE)
    OBVIOUS
  <2>4. d = <<Code(s), Code(mi), HourCode(h, TRUE), ((t.day + 6) % 7) + 1,
              Code(date), Code(m + 1), Code(y)>>
    BY <2>2, <2>3, ShownRegisters
  <2>5. /\ regs[0] = d[1] /\ regs[1] = d[2] /\ regs[2] = d[3] /\ regs[3] = d[4]
        /\ regs[4] = d[5] /\ regs[5] = d[6] /\ regs[6] = d[7]
    BY ONLY <1>3, <2>3 DEF Clock
  <2>6. PICK r : r = regs
    OBVIOUS
  <2>7. Shows(r, t)
    BY ONLY <2>2, <2>4, <2>5, <2>6, ShowsIf
  <2>8. Registers
    <3>1. \A a \in Clock : r[a] \in Byte
      BY ONLY <2>7, ShowsBytes
    <3>2. \A a \in 0 .. 63 : regs[a] \in Byte
      <4>1. \A a \in 0 .. 63 : a \notin Clock => regs[a] = 0
        BY ONLY <1>3
      <4>2. 0 \in Byte
        BY DEF Byte
      <4>3. QED
        BY ONLY <2>6, <3>1, <4>1, <4>2
    <3>3. regs = [a \in 0 .. 63 |-> regs[a]]
      BY ONLY <1>3
    <3>4. QED
      BY ONLY <3>2, <3>3 DEF Registers
  <2>9. Now = t
    BY ONLY <1>3, <2>1 DEF Now
  <2>10. 0 \in 0 .. MaxElapsed
    BY ClockAssumption DEF ClockAssumption
  <2>11. Counts
    BY ONLY <1>3, <2>6, <2>7, <2>9, <2>10 DEF Counts
  <2>12. QED
    BY ONLY <1>1, <2>8, <2>11 DEF ClockInv
<1>4. QED
  BY <1>2, <1>3 DEF Init

LEMMA ClockKeeps == ASSUME ClockInv, [Next]_vars PROVE ClockInv'
<1>1. CASE Next
  BY <1>1, ClockStep
<1>2. CASE UNCHANGED vars
  <2>1. UNCHANGED <<regs, clock, stored>> /\ device' = device /\ result' = result
    BY <1>2 DEF vars
  <2>2. QED
    BY <2>1, OthersRun DEF ClockInv, Others
<1>3. QED
  BY <1>1, <1>2

LEMMA ClockTyped == ASSUME ClockInv PROVE TypeOK
<1>1. clock.set \in Times \cup {Unset.set} /\ clock.elapsed \in -1 .. MaxElapsed
  <2>1. MaxElapsed \in Nat
    BY ClockAssumption DEF ClockAssumption
  <2>2. CASE clock = Unset
    <3>1. -1 \in -1 .. MaxElapsed
      BY <2>1
    <3>2. Unset.elapsed = -1
      BY DEF Unset
    <3>3. QED
      BY ONLY <2>2, <3>1, <3>2
  <2>3. CASE clock \in [set : Times, elapsed : 0 .. MaxElapsed]
    <3>1. clock.set \in Times /\ clock.elapsed \in 0 .. MaxElapsed
      BY ONLY <2>3
    <3>2. clock.elapsed \in -1 .. MaxElapsed
      BY ONLY <2>1, <3>1
    <3>3. QED
      BY ONLY <3>1, <3>2
  <2>4. QED
    BY <2>2, <2>3 DEF ClockInv, Counts
<1>2. QED
  BY <1>1 DEF ClockInv, Registers, Others, TypeOK

\* Registers, time and stored bytes stay in their ranges, whichever calls are
\* made and transfers fail: no second carries a counter of the chip out of its
\* byte, and no code of a date is too large for one.
THEOREM ClockTypes == Spec => []TypeOK
<1>1. ClockInv /\ [Next]_vars => ClockInv'
  BY ClockKeeps
<1>2. QED
  BY <1>1, ClockBegins, ClockTyped, PTL DEF Spec

\* The chip shows the time set and the seconds since, for every day of its
\* century and every second of the day, in either mode of its hours: what
\* ds1307_set_time writes is what the counters carry on from.
THEOREM ClockRunsOn == Spec => []ClockRuns
<1>1. ASSUME ClockInv PROVE ClockRuns
  <2>1. SUFFICES ASSUME clock # Unset
                 PROVE  [i \in 1 .. 7 |-> regs[i - 1]] = Shown(Now, Twelve(regs[2]))
    BY DEF ClockRuns
  <2>2. Shows(regs, Now)
    BY <1>1, <2>1 DEF ClockInv, Counts
  <2>3. QED
    BY ONLY <2>2, ShowsMeans
<1>2. ClockInv /\ [Next]_vars => ClockInv'
  BY ClockKeeps
<1>3. QED
  BY <1>1, <1>2, ClockBegins, PTL DEF Spec

\* Every time that ds1307_get_time returns is the one that was set and the
\* seconds since: its decoding undoes the encoding of ds1307_set_time and the
\* carries of the chip in between, but for the two hours of the 12-hour mode
\* that begin at 12.
THEOREM TimeIsKept == Spec => TimeKept
<1>1. ASSUME ClockInv, [Next]_vars, result' # result, result'.time # NoTime, clock # Unset,
             Twelve(regs[2]) => Now.sec % 43200 >= 3600
      PROVE  result'.time = Now
  <2>1. ds1307_get_time
    <3>1. Next
      BY <1>1 DEF vars
    <3>2. ~Tick
      BY ONLY <1>1 DEF Tick
    <3>3. \A e : result' = [err |-> e, time |-> NoTime] => FALSE
      BY ONLY <1>1
    <3>4. ~ds1307_add_device /\ ~ds1307_remove_device
      BY ONLY <3>3 DEF ds1307_add_device, ds1307_remove_device, Returns
    <3>5. \A t \in Times : ~ds1307_set_time(t)
      BY ONLY <3>3 DEF ds1307_set_time, ds1307_write_registers, Returns
    <3>6. \A a \in Addresses : ~ds1307_read_ram(a)
      BY ONLY <3>3 DEF ds1307_read_ram, OutOfRange, ds1307_read_registers, Returns
    <3>7. \A a \in Addresses, n \in Lengths, b \in Bytes :
            ~ds1307_write_ram(a, [i \in 1 .. n |-> b])
      BY ONLY <3>3 DEF ds1307_write_ram, OutOfRange, ds1307_write_registers, Returns
    <3>8. QED
      BY ONLY <3>1, <3>2, <3>4, <3>5, <3>6, <3>7 DEF Next
  <2>2. result'.time = mktime(timeStruct(regs))
    <3>1. \/ result' = [err |-> "OK", time |-> mktime(timeStruct(regs))]
          \/ result' = [err |-> "ERR_I2C", time |-> NoTime]
      BY ONLY <2>1 DEF ds1307_get_time, ds1307_read_registers, Returns
    <3>2. QED
      BY ONLY <1>1, <3>1
  <2>3. Shows(regs, Now)
    BY <1>1 DEF ClockInv, Counts
  <2>4. mktime(timeStruct(regs)) = [day |-> Now.day, sec |-> Now.sec]
    BY ONLY <1>1, <2>3, TimeIsRead
  <2>5. Now = [day |-> Now.day, sec |-> Now.sec]
    BY DEF Now, Plus
  <2>6. QED
    BY ONLY <2>2, <2>4, <2>5
<1>2. ClockInv /\ [Next]_vars =>
        [result'.time # NoTime /\ clock # Unset /\ (Twelve(regs[2]) => Now.sec % 43200 >= 3600)
         => result'.time = Now]_result
  BY <1>1
<1>3. ClockInv /\ [Next]_vars => ClockInv'
  BY ClockKeeps
<1>4. QED
  BY <1>2, <1>3, ClockBegins, PTL DEF Spec, TimeKept
=============================================================================

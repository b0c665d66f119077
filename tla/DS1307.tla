-------------------------------- MODULE DS1307 --------------------------------
(***************************************************************************)
(* rtc/ds1307.c: the driver of the DS1307 real-time clock, over a model of *)
(* the chip (its registers, its count of seconds, and an I2C bus on which  *)
(* a transfer may stop anywhere).  A time is a day since 2000-01-01 and a  *)
(* second of it, in a zone without summer time; localtime and mktime are   *)
(* external, and so is the chip.                                           *)
(***************************************************************************)
EXTENDS Integers, Sequences

CONSTANTS
  Days, Seconds,       \* the times that are set
  MaxElapsed,          \* bound: the seconds that pass after a time is set
  Cuts,                \* bound: the bytes that arrive before the bus fails
  Addresses, Lengths, Bytes,  \* the arguments of the RAM functions
  MayFail              \* TRUE if memory and the bus may fail

Byte == 0 .. 255
Clock == 0 .. 6        \* seconds, minutes, hours, day, date, month, year
Ram == 8 .. 63
Times == [day : Days, sec : Seconds]

ASSUME ClockAssumption ==
  /\ Days \subseteq Nat /\ \A d \in Days : d <= 36524
  /\ Seconds \subseteq Nat /\ \A s \in Seconds : s < 86400
  /\ MaxElapsed \in Nat
  /\ Cuts \subseteq Nat /\ Addresses \subseteq Byte /\ Lengths \subseteq Nat /\ Bytes \subseteq Byte
  /\ MayFail \in BOOLEAN

VARIABLES
  regs,      \* the registers of the chip
  device,    \* TRUE while there is a handle
  clock,     \* auxiliary: the time last set and the seconds since, or Unset
  stored,    \* auxiliary: stored[a]: the bytes that RAM address a may hold
  result     \* what the last call returned: an error code and a time

vars == <<regs, device, clock, stored, result>>

Unset == [set |-> [day |-> 0, sec |-> 0], elapsed |-> -1]
NoTime == [day |-> -1, sec |-> 0]
Returns(e, t) == result' = [err |-> e, time |-> t]

-----------------------------------------------------------------------------
(* Times.  The reference, on days and seconds, and the C library's.        *)

Plus(t, n) == [day |-> t.day + (t.sec + n) \div 86400, sec |-> (t.sec + n) % 86400]
Now == Plus(clock.set, clock.elapsed)

YearStart(y) == 365 * y + (y + 3) \div 4
MonthStart(y, m) ==
  <<0, 31, 59, 90, 120, 151, 181, 212, 243, 273, 304, 334>>[m + 1]
  + (IF m >= 2 /\ y % 4 = 0 THEN 1 ELSE 0)

localtime(t) ==
  LET y == CHOOSE y \in 0 .. 99 : YearStart(y) <= t.day /\ t.day < YearStart(y + 1)
      d == t.day - YearStart(y)
      m == CHOOSE m \in 0 .. 11 : MonthStart(y, m) <= d /\ (m = 11 \/ d < MonthStart(y, m + 1))
  IN  [tm_sec |-> t.sec % 60, tm_min |-> (t.sec \div 60) % 60, tm_hour |-> t.sec \div 3600,
       tm_wday |-> (t.day + 6) % 7, tm_mday |-> d - MonthStart(y, m) + 1, tm_mon |-> m,
       tm_year |-> y + 100]

mktime(tm) ==
  LET y == tm.tm_year - 100 + tm.tm_mon \div 12 IN
  Plus([day |-> YearStart(y) + MonthStart(y, tm.tm_mon % 12) + tm.tm_mday - 1, sec |-> 0],
       3600 * tm.tm_hour + 60 * tm.tm_min + tm.tm_sec)

-----------------------------------------------------------------------------
(* The chip, from its data sheet.                                          *)

Code(n) == 16 * (n \div 10) + (n % 10)
Value(r) == 10 * (r \div 16) + (r % 16)

\* Bit 6 of the hours is the 12-hour mode, in which bit 5 is PM.
Twelve(hours) == (hours \div 64) % 2 = 1
HourCode(h, twelve) ==
  IF twelve THEN 64 + (IF h >= 12 THEN 32 ELSE 0) + Code(IF h % 12 = 0 THEN 12 ELSE h % 12)
  ELSE Code(h)
HourValue(r) ==
  IF Twelve(r) THEN (Value(r % 32) % 12) + (IF r % 64 >= 32 THEN 12 ELSE 0) ELSE Value(r % 64)

\* The registers of a chip that shows t.
Shown(t, twelve) ==
  LET tm == localtime(t) IN
  <<Code(tm.tm_sec), Code(tm.tm_min), HourCode(tm.tm_hour, twelve), tm.tm_wday + 1,
    Code(tm.tm_mday), Code(tm.tm_mon + 1), Code(tm.tm_year - 100)>>

MonthDays(month, year) ==
  IF month = 2 THEN (IF year % 4 = 0 THEN 29 ELSE 28)
  ELSE IF month \in {4, 6, 9, 11} THEN 30 ELSE 31

Count(v, carry, top, bottom) == IF ~carry THEN v ELSE IF v = top THEN bottom ELSE v + 1

\* One second later.  Seven counters, each moved on by the carry of the ones
\* before it; bit 7 of the seconds (CH) stops them all.
Counted(r) ==
  LET s == Value(r[0])  m == Value(r[1])  h == HourValue(r[2])
      date == Value(r[4])  month == Value(r[5])  year == Value(r[6])
      minute == s = 59
      hour == minute /\ m = 59
      day == hour /\ h = 23
      last == MonthDays(month, year)
  IN  [r EXCEPT ![0] = Code(Count(s, TRUE, 59, 0)),
                ![1] = Code(Count(m, minute, 59, 0)),
                ![2] = HourCode(Count(h, hour, 23, 0), Twelve(r[2])),
                ![3] = Count(@, day, 7, 1),
                ![4] = Code(Count(date, day, last, 1)),
                ![5] = Code(Count(month, day /\ date = last, 12, 1)),
                ![6] = Code(Count(year, day /\ date = last /\ month = 12, 99, 0))]

\* A second passes.  The chip's calendar ends with 2099.
Tick ==
  /\ clock # Unset /\ clock.elapsed < MaxElapsed
  /\ Plus(Now, 1).day <= 36524
  /\ clock' = [clock EXCEPT !.elapsed = @ + 1]
  /\ regs' = IF regs[0] >= 128 THEN regs ELSE Counted(regs)
  /\ UNCHANGED <<device, stored, result>>

\* As found: stopped, or set by somebody else to the 12-hour mode.
Init ==
  /\ \/ /\ clock = Unset
        /\ regs = [a \in 0 .. 63 |-> IF a = 0 THEN 128 ELSE 0]
     \/ \E t \in Times :
          /\ clock = [set |-> t, elapsed |-> 0]
          /\ regs = [a \in 0 .. 63 |-> IF a \in Clock THEN Shown(t, TRUE)[a + 1] ELSE 0]
  /\ device = FALSE
  /\ stored = [a \in Ram |-> {0}]
  /\ result = [err |-> "OK", time |-> NoTime]

-----------------------------------------------------------------------------
(* Mutants of the definitions below, by which the properties are tested.   *)

TensDropped(x) == (x % 16) + 10 * ((x \div 16) % 2)
MonthFromZero(tm) ==
  <<Code(tm.tm_sec), Code(tm.tm_min), Code(tm.tm_hour), tm.tm_wday + 1,
    Code(tm.tm_mday), Code(tm.tm_mon), Code(tm.tm_year - 100)>>
InRangeOrControl(a) == a >= 7 /\ a <= 63

-----------------------------------------------------------------------------
(* Conversions.                                                            *)

BCD_TO_DEC(x) == (x % 16) + 10 * (x \div 16)
DEC_TO_BCD(x) == ((x % 10) + 16 * (x \div 10)) % 256   \* stored in a byte

\* The registers that ds1307_set_time writes.  The masks of CH and of the hour
\* mode clear bits that are 0 in the BCD of a second and of an hour.
timeRegs(tm) ==
  <<DEC_TO_BCD(tm.tm_sec) % 128, DEC_TO_BCD(tm.tm_min), DEC_TO_BCD(tm.tm_hour) % 64,
    DEC_TO_BCD(tm.tm_wday + 1), DEC_TO_BCD(tm.tm_mday), DEC_TO_BCD(tm.tm_mon + 1),
    DEC_TO_BCD(tm.tm_year - 100)>>

\* In the 12-hour mode twelve o'clock is not told apart as a clock has it:
\* 12 AM stays 12, and 12 PM becomes 0.
hoursSinceMidnight(hours) ==
  IF (hours \div 64) % 2 = 0 THEN BCD_TO_DEC(hours)
  ELSE LET h == BCD_TO_DEC((hours % 32) + 128 * (hours \div 128)) IN
       IF (hours \div 32) % 2 = 0 THEN h ELSE IF h < 12 THEN h + 12 ELSE 0

timeStruct(r) ==
  [tm_sec |-> BCD_TO_DEC(r[0] % 128), tm_min |-> BCD_TO_DEC(r[1]),
   tm_hour |-> hoursSinceMidnight(r[2]), tm_mday |-> BCD_TO_DEC(r[4]),
   tm_mon |-> BCD_TO_DEC(r[5]) - 1, tm_year |-> BCD_TO_DEC(r[6]) + 100]

-----------------------------------------------------------------------------
(* Transfers.  The chip moves its register pointer on after every byte,    *)
(* and from the last register to the first.                                *)

\* What is read of the RAM, or past its end of the clock, is the caller's.
ds1307_read_registers(time) ==
  /\ Returns("OK", time) \/ (MayFail /\ Returns("ERR_I2C", NoTime))
  /\ UNCHANGED <<regs, device, clock, stored>>

\* k bytes of data arrive: all of them, or any number when the bus fails (of
\* the numbers in Cuts).
Arrived(address, data, k) ==
  [a \in 0 .. 63 |-> LET i == (a - address) % 64 IN IF i < k THEN data[i + 1] ELSE regs[a]]

\* Mutant: the error of the bus is handed on as it is.
RawError(address, data, k, err) ==
  /\ k = Len(data) \/ (MayFail /\ k \in Cuts /\ k <= Len(data))
  /\ regs' = Arrived(address, data, k)
  /\ Returns(IF k = Len(data) THEN "OK" ELSE "ESP_FAIL", NoTime)
  /\ UNCHANGED device

ds1307_write_registers(address, data, k, err) ==
  /\ \/ k = Len(data) /\ err = "OK"
     \/ MayFail /\ k \in Cuts /\ k <= Len(data) /\ err = "ERR_I2C"
  /\ regs' = Arrived(address, data, k)
  /\ Returns(err, NoTime)
  /\ UNCHANGED device

-----------------------------------------------------------------------------
(* The functions.                                                          *)

ds1307_add_device ==
  /\ ~device
  /\ \/ device' = TRUE /\ Returns("OK", NoTime)
     \/ MayFail /\ UNCHANGED device /\ Returns("ERR_ALLOC", NoTime)
  /\ UNCHANGED <<regs, clock, stored>>

ds1307_remove_device ==
  /\ device
  /\ device' = FALSE
  /\ Returns("OK", NoTime)
  /\ UNCHANGED <<regs, clock, stored>>

ds1307_set_time(t) ==
  /\ device
  /\ \E k \in 0 .. 7, err \in {"OK", "ERR_I2C"} :
       /\ ds1307_write_registers(0, timeRegs(localtime(t)), k, err)
       /\ clock' = IF err = "OK" \/ k = 7 THEN [set |-> t, elapsed |-> 0]
                   ELSE IF k = 0 THEN clock ELSE Unset
  /\ UNCHANGED stored

\* A failed read leaves the caller's time as it is.
ds1307_get_time == device /\ ds1307_read_registers(mktime(timeStruct(regs)))

InRange(address) == ~(address < 8 \/ address > 63)

OutOfRange(address) ==
  /\ ~InRange(address)
  /\ Returns("ERR_ADDRESS_OUT_OF_RANGE", NoTime)
  /\ UNCHANGED <<regs, device, clock, stored>>

ds1307_read_ram(address) ==
  device /\ (OutOfRange(address) \/ (InRange(address) /\ ds1307_read_registers(NoTime)))

\* What a transfer to the RAM leaves there: its bytes, and after a failure
\* these or the ones of before.
Leaves(address, data, err) ==
  [a \in Ram |->
     IF address \notin Ram \/ a \notin address .. address + Len(data) - 1 THEN stored[a]
     ELSE {data[a - address + 1]} \cup (IF err = "OK" THEN {} ELSE stored[a])]

ds1307_write_ram(address, data) ==
  /\ device
  /\ \/ OutOfRange(address)
     \/ /\ InRange(address)
        /\ \E k \in 0 .. Len(data), err \in {"OK", "ERR_I2C"} :
             /\ ds1307_write_registers(address, data, k, err)
             /\ stored' = Leaves(address, data, err)
        /\ UNCHANGED clock

\* The caller's rule: what is written ends where the RAM does.  The function
\* looks at the first address only, and the clock is next.
Fits(address, n) == address \in Ram => address + n <= 64

Next ==
  \/ Tick
  \/ ds1307_add_device \/ ds1307_remove_device
  \/ \E t \in Times : ds1307_set_time(t)
  \/ ds1307_get_time
  \/ \E a \in Addresses :
       \/ ds1307_read_ram(a)
       \/ \E n \in Lengths, b \in Bytes : Fits(a, n) /\ ds1307_write_ram(a, [i \in 1 .. n |-> b])

Spec == Init /\ [][Next]_vars

-----------------------------------------------------------------------------
(* Correctness.                                                            *)

TypeOK ==
  /\ regs \in [0 .. 63 -> Byte]
  /\ device \in BOOLEAN
  /\ clock.set \in Times \cup {Unset.set} /\ clock.elapsed \in -1 .. MaxElapsed
  /\ stored \in [Ram -> SUBSET (Bytes \cup {0})]
  /\ result.err \in {"OK", "ERR_ALLOC", "ERR_I2C", "ERR_ADDRESS_OUT_OF_RANGE"}

\* The chip shows the time that was set and counts on from there, through the
\* ends of minutes, days, months, years and leap days, weekday included: what
\* set_time wrote is what its counters understand.
ClockRuns ==
  clock # Unset =>
    [i \in 1 .. 7 |-> regs[i - 1]] = Shown(Now, Twelve(regs[2]))

\* get_time returns the time that was set, moved on by the seconds since.
\* In the 12-hour mode, which only somebody else sets, this holds but for the
\* two hours that begin at 12.
TimeKept ==
  [][ result'.time # NoTime /\ clock # Unset /\ (Twelve(regs[2]) => Now.sec % 43200 >= 3600)
      => result'.time = Now ]_result

\* The RAM holds what was written there, by whole transfers and by ones that
\* failed on the way, and no call on the clock or at a refused address
\* changes it.
RamKept == \A a \in Ram : regs[a] \in stored[a]
=============================================================================

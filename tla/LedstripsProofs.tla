---------------------------- MODULE LedstripsProofs ----------------------------
(***************************************************************************)
(* The item buffer of a LED strip, for a strip of any length, any colours  *)
(* and any arrays: nobody writes outside of it, nobody writes into it      *)
(* while the peripheral reads it, and what it holds reaches the LEDs.      *)
(***************************************************************************)
EXTENDS Ledstrips, TLAPS

\* The strip ends where a repetition of the sequence does.  Without this the
\* last repetition is written past the end of the buffer.
WholeRounds == \A n \in Sequences \ {0} : \E rounds \in Nat : Length = rounds * Cut(n)

(* The inductive invariant: data is sent only while a call waits to send   *)
(* its reset, and a sequence is written at a multiple of its length.       *)

SendsData == channel = "data" => pc = "wait_reset"
HasBuffer == items = NoBuffer \/ DOMAIN items = Leds
Loops ==
  /\ amount \in 0 .. Length /\ led \in Nat /\ part \in Nat
  /\ pc = "sequence" /\ amount # 0 =>
       \E done, rounds \in Nat : led = done * amount /\ Length = rounds * amount

IInv == SendsData /\ HasBuffer /\ Loops /\ StaysInBuffer

LEMMA CutProperties ==
  ASSUME NEW n \in Nat
  PROVE  Cut(n) \in 0 .. Length /\ (Cut(n) = 0 => n = 0)
BY LedstripsAssumption DEF Cut, LedstripsAssumption

LEMMA InitialState == Init => IInv
BY LedstripsAssumption
DEF Init, IInv, SendsData, HasBuffer, Loops, StaysInBuffer, LedstripsAssumption

-----------------------------------------------------------------------------
(* The writes.                                                             *)

LEMMA WriteStays ==
  ASSUME HasBuffer, Running, NEW k \in Leds, NEW color, Write(k, color)
  PROVE  HasBuffer' /\ StaysInBuffer'
<1>1. CASE items = NoBuffer
  <2>1. k \notin DOMAIN items
    <3>1. DOMAIN items = {}
      BY <1>1 DEF NoBuffer
    <3>2. QED
      BY <3>1
  <2>2. QED
    BY <1>1, <2>1 DEF Write, HasBuffer, StaysInBuffer
<1>2. CASE DOMAIN items = Leds
  <2>1. items' = [items EXCEPT ![k] = ItemsForColor(color)] /\ fault' = fault
    BY <1>2 DEF Write
  <2>2. QED
    BY <1>2, <2>1 DEF HasBuffer, StaysInBuffer, Running
<1>3. QED
  BY <1>1, <1>2 DEF HasBuffer

LEMMA FillColorsKeeps == ASSUME IInv, FillColors PROVE IInv'
<1>1. /\ pc = "colors" /\ Running /\ led < amount /\ Write(led, colors[led])
      /\ led' = led + 1 /\ UNCHANGED <<channel, pc, amount, part>>
  BY DEF FillColors, hardware
<1>2. led \in Leds
  BY <1>1, LedstripsAssumption DEF IInv, Loops, Leds, LedstripsAssumption
<1>3. HasBuffer' /\ StaysInBuffer'
  BY <1>1, <1>2, WriteStays DEF IInv
<1>4. QED
  BY <1>1, <1>3 DEF IInv, SendsData, Loops

\* Where a repetition begins within the strip, it ends there too.
LEMMA RoundFits ==
  ASSUME NEW a \in Nat, NEW b \in Nat, NEW k \in Nat, NEW i \in Nat, a * k < b * k, i < k
  PROVE  a * k + i < b * k /\ a * k + k = (a + 1) * k
<1>1. a < b
  <2>1. SUFFICES ASSUME b <= a PROVE FALSE
    OBVIOUS
  <2>2. b * k <= a * k
    BY <2>1
  <2>3. a * k \in Nat /\ b * k \in Nat
    OBVIOUS
  <2>4. QED
    BY <2>2, <2>3
<1>2. PICK d \in Nat : b = a + 1 + d
  <2>1. b - (a + 1) \in Nat /\ b = a + 1 + (b - (a + 1))
    BY <1>1
  <2>2. QED
    BY <2>1
<1>3. b * k = a * k + k + d * k /\ d * k >= 0 /\ a * k \in Nat /\ d * k \in Nat
  BY <1>2
<1>4. QED
  BY <1>3

LEMMA FillSequenceKeeps == ASSUME IInv, FillSequence PROVE IInv'
<1>1. /\ pc = "sequence" /\ Running /\ led < Length
      /\ UNCHANGED <<channel, pc, amount>>
  BY DEF FillSequence, hardware
<1>2. amount \in Nat /\ led \in Nat /\ part \in Nat /\ Length \in Nat
  <2>1. Length \in Nat
    BY LedstripsAssumption DEF LedstripsAssumption
  <2>2. amount \in 0 .. Length /\ led \in Nat /\ part \in Nat
    BY DEF IInv, Loops
  <2>3. QED
    BY <2>1, <2>2
<1>3. CASE part < amount
  <2>1. Write(led + part, colors[part]) /\ part' = part + 1 /\ led' = led
    BY <1>3 DEF FillSequence
  <2>2. PICK done, rounds \in Nat : led = done * amount /\ Length = rounds * amount
    BY <1>1, <1>2, <1>3 DEF IInv, Loops
  <2>3. led + part \in Leds
    <3>1. led + part < Length
      BY <1>1, <1>2, <1>3, <2>2, RoundFits
    <3>2. QED
      BY <1>2, <3>1 DEF Leds
  <2>4. HasBuffer' /\ StaysInBuffer'
    BY <1>1, <2>1, <2>3, WriteStays DEF IInv
  <2>5. Loops'
    BY <1>1, <1>2, <2>1 DEF IInv, Loops
  <2>6. QED
    BY <1>1, <2>4, <2>5 DEF IInv, SendsData
<1>4. CASE ~(part < amount)
  <2>1. led' = led + amount /\ part' = 0 /\ items' = items /\ fault' = fault
    BY <1>4 DEF FillSequence, NextRound
  <2>2. ASSUME amount # 0
        PROVE  \E done, rounds \in Nat : led' = done * amount /\ Length = rounds * amount
    <3>1. PICK done, rounds \in Nat : led = done * amount /\ Length = rounds * amount
      BY <1>1, <2>2 DEF IInv, Loops
    <3>2. done + 1 \in Nat /\ done * amount + amount = (done + 1) * amount
      BY <1>2
    <3>3. QED
      BY <2>1, <3>1, <3>2
  <2>3. Loops'
    BY <1>1, <1>2, <2>1, <2>2 DEF IInv, Loops
  <2>4. QED
    BY <1>1, <2>1, <2>3 DEF IInv, SendsData, HasBuffer, StaysInBuffer
<1>5. QED
  BY <1>3, <1>4

-----------------------------------------------------------------------------
(* The other steps.                                                        *)

LEMMA AddKeeps ==
  ASSUME IInv, NEW chip \in Chips, ledstrips_add_device(chip)
  PROVE  IInv'
<1>1. Running /\ UNCHANGED <<channel, pc, amount, led, part>>
  BY DEF ledstrips_add_device, hardware, caller
<1>2. fault' # "overrun"
  BY <1>1 DEF ledstrips_add_device, Running
<1>3. items' = items \/ items' = [k \in Leds |-> Unwritten]
  BY DEF ledstrips_add_device, NewDevice, NewBuffer
<1>4. QED
  BY <1>1, <1>2, <1>3 DEF IInv, SendsData, HasBuffer, Loops, StaysInBuffer

LEMMA RemoveKeeps == ASSUME IInv, ledstrips_remove_device PROVE IInv'
BY DEF ledstrips_remove_device, IInv, SendsData, HasBuffer, Loops, StaysInBuffer

LEMMA SetColorsKeeps == ASSUME IInv, ledstrips_set_colors PROVE IInv'
<1>1. PICK n \in Given : \E array \in [0 .. n - 1 -> Colors] : Begin("colors", array, n)
  BY DEF ledstrips_set_colors
<1>2. n \in Nat
  BY LedstripsAssumption DEF LedstripsAssumption
<1>3. /\ pc = "idle" /\ pc' = "colors" /\ amount' = Cut(n) /\ led' = 0 /\ part' = 0
      /\ UNCHANGED <<items, channel, fault>>
  BY <1>1 DEF Begin, hardware
<1>4. QED
  BY <1>2, <1>3, CutProperties DEF IInv, SendsData, HasBuffer, Loops, StaysInBuffer

LEMMA SetSequenceKeeps ==
  ASSUME WholeRounds, IInv, ledstrips_set_sequence
  PROVE  IInv'
<1>1. PICK n \in Sequences : \E array \in [0 .. n - 1 -> Colors] : Begin("sequence", array, n)
  BY DEF ledstrips_set_sequence
<1>2. n \in Nat
  BY LedstripsAssumption DEF LedstripsAssumption
<1>3. /\ pc = "idle" /\ pc' = "sequence" /\ amount' = Cut(n) /\ led' = 0 /\ part' = 0
      /\ UNCHANGED <<items, channel, fault>>
  BY <1>1 DEF Begin, hardware
<1>4. Cut(n) \in 0 .. Length
  BY <1>2, CutProperties
<1>5. ASSUME Cut(n) # 0
      PROVE  \E done, rounds \in Nat : 0 = done * Cut(n) /\ Length = rounds * Cut(n)
  <2>1. n # 0
    BY <1>5, LedstripsAssumption DEF Cut, LedstripsAssumption
  <2>2. PICK rounds \in Nat : Length = rounds * Cut(n)
    BY <2>1 DEF WholeRounds
  <2>3. 0 = 0 * Cut(n)
    BY <1>4
  <2>4. QED
    BY <2>2, <2>3
<1>6. Loops'
  BY <1>3, <1>4, <1>5 DEF Loops
<1>7. QED
  BY <1>3, <1>6 DEF IInv, SendsData, HasBuffer, StaysInBuffer

LEMMA CallerKeeps ==
  ASSUME IInv, CallerStep, ~FillColors, ~FillSequence
  PROVE  IInv'
<1>1. CASE Filled
  BY <1>1 DEF Filled, hardware, devVars, IInv, SendsData, HasBuffer, Loops, StaysInBuffer
<1>2. CASE Wait("wait_data", "send_data")
  BY <1>2 DEF Wait, hardware, devVars, IInv, SendsData, HasBuffer, Loops, StaysInBuffer
<1>3. CASE SendItems
  BY <1>3 DEF SendItems, AfterItems, devVars, IInv, SendsData, HasBuffer, Loops, StaysInBuffer
<1>4. CASE Wait("wait_reset", "send_reset")
  BY <1>4 DEF Wait, hardware, devVars, IInv, SendsData, HasBuffer, Loops, StaysInBuffer
<1>5. CASE SendReset
  <2>1. 0 \in 0 .. Length
    BY LedstripsAssumption DEF LedstripsAssumption
  <2>2. QED
    BY <1>5, <2>1 DEF SendReset, devVars, IInv, SendsData, HasBuffer, Loops, StaysInBuffer
<1>6. QED
  BY <1>1, <1>2, <1>3, <1>4, <1>5 DEF CallerStep

LEMMA PeripheralKeeps == ASSUME IInv, Peripheral PROVE IInv'
BY DEF Peripheral, SendLed, AllSent, Latch, devVars, caller, IInv, SendsData, HasBuffer, Loops,
       StaysInBuffer

LEMMA StutterKeeps == ASSUME IInv, UNCHANGED vars PROVE IInv'
BY DEF vars, devVars, hardware, caller, IInv, SendsData, HasBuffer, Loops, StaysInBuffer

-----------------------------------------------------------------------------
(* The theorems.                                                           *)

\* The inductive invariant holds if the strip holds whole repetitions.
THEOREM Invariance == ASSUME WholeRounds PROVE Spec => []IInv
<1>1. ASSUME IInv, Next PROVE IInv'
  BY <1>1, AddKeeps, RemoveKeeps, SetColorsKeeps, SetSequenceKeeps, FillColorsKeeps,
     FillSequenceKeeps, CallerKeeps, PeripheralKeeps
  DEF Next
<1>2. IInv /\ [Next]_vars => IInv'
  BY <1>1, StutterKeeps
<1>3. QED
  BY <1>2, InitialState, PTL DEF Spec

\* set_colors and set_sequence write into the buffer of their device only,
\* for arrays of any length and sequences that divide the strip.
THEOREM WritesStayInBuffer == ASSUME WholeRounds PROVE Spec => []StaysInBuffer
<1>1. IInv => StaysInBuffer
  BY DEF IInv
<1>2. QED
  BY <1>1, Invariance, PTL

\* The buffer does not change while the peripheral transmits it, whatever the
\* caller passes: each call ends with a reset that waits for the transmission.
THEOREM BufferIsStable == Spec => BufferStable
<1>1. Init => SendsData
  BY DEF Init, SendsData
<1>2. ASSUME SendsData, Next PROVE SendsData' /\ (channel = "data" => items' = items)
  BY <1>2
  DEF SendsData, Next, ledstrips_add_device, ledstrips_remove_device, ledstrips_set_colors,
      ledstrips_set_sequence, Begin, CallerStep, FillColors, FillSequence, Filled, Wait, SendItems,
      AfterItems, SendReset, Peripheral, SendLed, AllSent, Latch, hardware, caller
<1>3. ASSUME SendsData, UNCHANGED vars PROVE SendsData' /\ UNCHANGED items
  BY <1>3 DEF SendsData, vars, hardware, caller
<1>4. SendsData /\ [Next]_vars => SendsData' /\ [channel = "data" => items' = items]_vars
  BY <1>2, <1>3
<1>5. QED
  BY <1>1, <1>4, PTL DEF Spec, BufferStable
-----------------------------------------------------------------------------
(* The wire, from ItemsForColor to Received.                               *)

\* The bits of a byte make it up again.
LEMMA BitsOfByte ==
  ASSUME NEW b \in 0 .. 255
  PROVE  b = 128 * Bit(b, 0) + 64 * Bit(b, 1) + 32 * Bit(b, 2) + 16 * Bit(b, 3)
               + 8 * Bit(b, 4) + 4 * Bit(b, 5) + 2 * Bit(b, 6) + Bit(b, 7)
<1>1. /\ Bit(b, 0) = (b \div 128) % 2 /\ Bit(b, 1) = (b \div 64) % 2
      /\ Bit(b, 2) = (b \div 32) % 2 /\ Bit(b, 3) = (b \div 16) % 2
      /\ Bit(b, 4) = (b \div 8) % 2 /\ Bit(b, 5) = (b \div 4) % 2
      /\ Bit(b, 6) = (b \div 2) % 2 /\ Bit(b, 7) = (b \div 1) % 2
  BY DEF Bit, Mask
<1>2. b \div 1 = b
  OBVIOUS
<1>4. ASSUME NEW n \in Nat
      PROVE  n \div 2 \in Nat /\ n % 2 \in 0 .. 1 /\ n = 2 * (n \div 2) + (n % 2)
  OBVIOUS
<1>5. \A k \in {1, 2, 4, 8, 16, 32, 64, 128} : b \div k \in Nat
  OBVIOUS
<1>6. /\ b \div 1 = 2 * (b \div 2) + ((b \div 1) % 2)
      /\ b \div 2 = 2 * (b \div 4) + ((b \div 2) % 2)
      /\ b \div 4 = 2 * (b \div 8) + ((b \div 4) % 2)
      /\ b \div 8 = 2 * (b \div 16) + ((b \div 8) % 2)
      /\ b \div 16 = 2 * (b \div 32) + ((b \div 16) % 2)
      /\ b \div 32 = 2 * (b \div 64) + ((b \div 32) % 2)
      /\ b \div 64 = 2 * (b \div 128) + ((b \div 64) % 2)
      /\ b \div 128 = (b \div 128) % 2
  <2>1. b \div 1 = 2 * (b \div 2) + ((b \div 1) % 2)
    OBVIOUS
  <2>2. b \div 2 = 2 * (b \div 4) + ((b \div 2) % 2)
    OBVIOUS
  <2>3. b \div 4 = 2 * (b \div 8) + ((b \div 4) % 2)
    OBVIOUS
  <2>4. b \div 8 = 2 * (b \div 16) + ((b \div 8) % 2)
    OBVIOUS
  <2>5. b \div 16 = 2 * (b \div 32) + ((b \div 16) % 2)
    OBVIOUS
  <2>6. b \div 32 = 2 * (b \div 64) + ((b \div 32) % 2)
    OBVIOUS
  <2>7. b \div 64 = 2 * (b \div 128) + ((b \div 64) % 2)
    OBVIOUS
  <2>8. b \div 128 = (b \div 128) % 2
    OBVIOUS
  <2>9. QED
    BY <2>1, <2>2, <2>3, <2>4, <2>5, <2>6, <2>7, <2>8
<1>7. \A q1, q2, q4, q8, q16, q32, q64, q128 \in Nat :
      \A r1, r2, r4, r8, r16, r32, r64, r128 \in 0 .. 1 :
        /\ q1 = 2 * q2 + r1 /\ q2 = 2 * q4 + r2 /\ q4 = 2 * q8 + r4 /\ q8 = 2 * q16 + r8
        /\ q16 = 2 * q32 + r16 /\ q32 = 2 * q64 + r32 /\ q64 = 2 * q128 + r64 /\ q128 = r128
        => q1 = 128 * r128 + 64 * r64 + 32 * r32 + 16 * r16 + 8 * r8 + 4 * r4 + 2 * r2 + r1
  OBVIOUS
<1>8. \A k \in {1, 2, 4, 8, 16, 32, 64, 128} : (b \div k) % 2 \in 0 .. 1
  BY <1>4, <1>5
<1>9. b \div 1 = 128 * ((b \div 128) % 2) + 64 * ((b \div 64) % 2) + 32 * ((b \div 32) % 2)
        + 16 * ((b \div 16) % 2) + 8 * ((b \div 8) % 2) + 4 * ((b \div 4) % 2)
        + 2 * ((b \div 2) % 2) + ((b \div 1) % 2)
  BY <1>5, <1>6, <1>7, <1>8
<1>10. QED
  BY <1>1, <1>2, <1>9

LEMMA Rounds ==
  ASSUME NEW m \in Nat \ {0}, NEW l \in Nat, l % m = 0, NEW r \in 0 .. m - 1
  PROVE  (l + r) % m = r /\ (l + m) % m = 0
<1>1. PICK d \in Nat : l = d * m
  <2>1. l = (l \div m) * m /\ l \div m \in Nat
    OBVIOUS
  <2>2. QED
    BY <2>1
<1>2. (d * m + r) % m = r
  OBVIOUS
<1>3. (d + 1) * m = d * m + m /\ ((d + 1) * m + 0) % m = 0
  OBVIOUS
<1>4. QED
  BY <1>1, <1>2, <1>3

\* Where the bits of a channel are in the buffer.
LEMMA BitsOfChannel ==
  ASSUME nrOfColors = 4, NEW color \in [0 .. 3 -> 0 .. 255], NEW c \in 0 .. 3
  PROVE  Byte(ItemsForColor(color), 8 * c) = color[colorSequence[c]]
<1> DEFINE bits == ItemsForColor(color)
           b == color[colorSequence[c]]
<1>1. colorSequence[c] \in 0 .. 3 /\ b \in 0 .. 255
  <2>1. colorSequence[c] \in 0 .. 3
    BY DEF colorSequence
  <2>2. QED
    BY <2>1
<1>2. ASSUME NEW i \in 0 .. 7 PROVE bits[8 * c + i] = Bit(b, i)
  <2>1. 8 * c + i \in 0 .. 8 * 4 - 1 /\ (8 * c + i) \div 8 = c /\ (8 * c + i) % 8 = i
    OBVIOUS
  <2>2. bits = [k \in 0 .. 8 * 4 - 1 |-> Bit(color[colorSequence[k \div 8]], k % 8)]
    BY DEF ItemsForColor
  <2>3. QED
    BY <2>1, <2>2
<1>3. bits[8 * c] = Bit(b, 0)
  <2>1. 8 * c + 0 = 8 * c
    OBVIOUS
  <2>2. QED
    BY <1>2, <2>1
<1>4. /\ bits[8 * c + 1] = Bit(b, 1) /\ bits[8 * c + 2] = Bit(b, 2)
      /\ bits[8 * c + 3] = Bit(b, 3) /\ bits[8 * c + 4] = Bit(b, 4)
      /\ bits[8 * c + 5] = Bit(b, 5) /\ bits[8 * c + 6] = Bit(b, 6)
      /\ bits[8 * c + 7] = Bit(b, 7)
  BY <1>2
<1> HIDE DEF bits, b
<1>5. Byte(bits, 8 * c) = b
  BY <1>1, <1>3, <1>4, BitsOfByte DEF Byte
<1>6. QED
  BY <1>5 DEF bits, b

\* The chips take from the line what the colour says.
LEMMA ReceivedExact ==
  ASSUME nrOfColors = 4, NEW color \in [0 .. 3 -> 0 .. 255]
  PROVE  Received(ItemsForColor(color)) = AsShown(color)
<1> DEFINE bits == ItemsForColor(color)
<1>1. /\ colorSequence[0] = 1 /\ colorSequence[1] = 0
      /\ colorSequence[2] = 2 /\ colorSequence[3] = 3
  BY DEF colorSequence
<1>2. /\ Byte(bits, 8 * 0) = color[1] /\ Byte(bits, 8 * 1) = color[0]
      /\ Byte(bits, 8 * 2) = color[2] /\ Byte(bits, 8 * 3) = color[3]
  <2>1. \A c \in 0 .. 3 : Byte(bits, 8 * c) = color[colorSequence[c]]
    BY BitsOfChannel
  <2> HIDE DEF bits
  <2>2. QED
    BY <1>1, <2>1
<1>3. bits # Unwritten
  <2>1. DOMAIN bits = 0 .. 8 * 4 - 1 /\ DOMAIN Unwritten = {}
    BY DEF ItemsForColor, Unwritten
  <2>2. 0 \in 0 .. 8 * 4 - 1
    OBVIOUS
  <2>3. QED
    BY <2>1, <2>2
<1> HIDE DEF bits
<1>4. /\ Byte(bits, 0) = color[1] /\ Byte(bits, 8) = color[0]
      /\ Byte(bits, 16) = color[2] /\ Byte(bits, 24) = color[3]
  BY <1>2
<1>5. Received(bits) = AsShown(color)
  BY <1>3, <1>4 DEF Received, AsShown
<1>6. QED
  BY <1>5 DEF bits

-----------------------------------------------------------------------------
(* What the strip shows.  The inductive invariant follows a colour from    *)
(* the caller's array into the buffer, over the wire and into the LED.  It *)
(* needs no WholeRounds: after an overrun the call goes no further.        *)

\* What the chips would make of the buffer.
Contents(k) == IF items = NoBuffer THEN Unknown ELSE Received(items[k])

BufferOK ==
  \/ items = NoBuffer
  \/ /\ device = "SK6812RGBW" /\ DOMAIN items = Leds
     /\ \A k \in Leds :
          items[k] = Unwritten \/ \E color \in Colors : items[k] = ItemsForColor(color)

DeviceOK ==
  /\ ~installed => device = "none"
  /\ items = NoBuffer => channel # "data" /\ \A k \in Leds : received[k] = Unknown

FieldsOK ==
  /\ installed \in BOOLEAN /\ device \in Chips \cup {"none"}
  /\ pc \in {"idle", "colors", "sequence", "wait_data", "send_data", "wait_reset", "send_reset"}
  /\ amount \in 0 .. Length /\ led \in 0 .. 2 * Length /\ part \in 0 .. amount
  /\ pc = "colors" => led <= amount
  /\ channel \in {"idle", "data", "reset"} /\ sent \in 0 .. Length
  /\ received \in [Leds -> Shades] /\ shown \in [Leds -> Shades] /\ goal \in [Leds -> Shades]
  /\ fault \in {"none", "overrun", "abort"}
  /\ fault = "overrun" => pc \in {"colors", "sequence"}

\* What was written so far is what the caller asked for; the rest of it is in
\* its array still.
FillOK ==
  fault # "overrun" =>
  /\ pc \in {"colors", "sequence"} => \A k \in 0 .. amount - 1 : colors[k] \in Colors
  /\ pc = "colors" =>
       \A k \in Leds :
         IF k \in led .. amount - 1 THEN goal[k] = AsShown(colors[k]) ELSE Contents(k) = goal[k]
  /\ pc = "sequence" /\ amount # 0 =>
       /\ led % amount = 0
       /\ \A k \in Leds :
            goal[k] = AsShown(colors[k % amount]) /\ (k < led + part => Contents(k) = goal[k])
  /\ pc = "sequence" /\ amount = 0 => \A k \in Leds : Contents(k) = goal[k]
  /\ pc \notin {"colors", "sequence"} => \A k \in Leds : Contents(k) = goal[k]

\* What was sent so far is what the buffer holds.
SendOK ==
  /\ channel = "data" => pc = "wait_reset" /\ \A k \in 0 .. sent - 1 : received[k] = Contents(k)
  /\ pc \in {"send_data", "send_reset"} => channel = "idle"
  /\ pc = "wait_reset" => channel # "reset"
  /\ pc \in {"idle", "send_reset"} \/ (pc = "wait_reset" /\ channel = "idle") =>
       \A k \in Leds : received[k] = Contents(k)
  /\ pc = "idle" /\ channel = "idle" => shown = goal

ShowInv == BufferOK /\ DeviceOK /\ FieldsOK /\ FillOK /\ SendOK

LEMMA ColorShades ==
  /\ \A color \in Colors : color \in [0 .. 3 -> 0 .. 255] /\ AsShown(color) \in Shades
  /\ Unknown \in Shades
<1>1. \A color \in Colors : color \in [0 .. 3 -> 0 .. 255]
  BY LedstripsAssumption DEF LedstripsAssumption
<1>2. \A b \in 0 .. 255 : b \in -1 .. 255
  OBVIOUS
<1>3. 0 \in -1 .. 255 /\ -1 \in -1 .. 255
  OBVIOUS
<1>4. ASSUME NEW color \in Colors PROVE AsShown(color) \in Shades
  <2>1. /\ color[0] \in -1 .. 255 /\ color[1] \in -1 .. 255
        /\ color[2] \in -1 .. 255 /\ color[3] \in -1 .. 255
    BY <1>1, <1>2
  <2>2. QED
    BY <1>3, <2>1 DEF AsShown, Shades
<1>5. QED
  BY <1>1, <1>3, <1>4 DEF Unknown, Shades

LEMMA NoBufferAt == DOMAIN NoBuffer = {} /\ Leds # {}
<1>1. 0 \in Leds
  BY LedstripsAssumption DEF Leds, LedstripsAssumption
<1>2. QED
  BY <1>1 DEF NoBuffer

LEMMA ContentsShades ==
  ASSUME BufferOK, NEW k \in Leds
  PROVE  Contents(k) \in Shades
<1>1. CASE items = NoBuffer
  BY <1>1, ColorShades DEF Contents
<1>2. CASE items # NoBuffer
  <2>1. nrOfColors = 4 /\ (items[k] = Unwritten \/ \E color \in Colors : items[k] = ItemsForColor(color))
    BY <1>2 DEF BufferOK, nrOfColors
  <2>2. CASE items[k] = Unwritten
    BY <1>2, <2>2, ColorShades DEF Contents, Received
  <2>3. ASSUME NEW color \in Colors, items[k] = ItemsForColor(color) PROVE Contents(k) \in Shades
    BY <1>2, <2>1, <2>3, ColorShades, ReceivedExact DEF Contents
  <2>4. QED
    BY <2>1, <2>2, <2>3
<1>3. QED
  BY <1>1, <1>2

LEMMA SameBuffer ==
  ASSUME UNCHANGED <<items, device>>
  PROVE  /\ \A k : Contents(k)' = Contents(k)
         /\ \A color : AsShown(color)' = AsShown(color)
         /\ BufferOK => BufferOK'
<1>1. nrOfColors' = nrOfColors
  BY DEF nrOfColors
<1>2. \A bits : Received(bits)' = Received(bits)
  BY <1>1 DEF Received
<1>3. \A color : AsShown(color)' = AsShown(color)
  BY <1>1 DEF AsShown
<1>4. \A color : ItemsForColor(color)' = ItemsForColor(color)
  BY <1>1 DEF ItemsForColor
<1>5. \A k : Contents(k)' = Contents(k)
  BY <1>2 DEF Contents
<1>6. BufferOK => BufferOK'
  BY <1>4 DEF BufferOK
<1>7. QED
  BY <1>3, <1>5, <1>6

\* A write changes what one LED will show, or goes outside of the buffer.
LEMMA WriteShows ==
  ASSUME BufferOK, NEW k \in Nat, NEW color \in Colors, Write(k, color), device' = device
  PROVE  /\ BufferOK'
         /\ \/ fault' = "overrun" /\ items' = items
            \/ /\ k \in Leds /\ fault' = fault /\ items # NoBuffer /\ items' # NoBuffer
               /\ Contents(k)' = AsShown(color)
               /\ \A j \in Leds \ {k} : Contents(j)' = Contents(j)
<1>1. CASE k \notin DOMAIN items
  BY <1>1, SameBuffer DEF Write
<1>2. CASE k \in DOMAIN items
  <2>1. items # NoBuffer
    BY <1>2, NoBufferAt
  <2>2. /\ device = "SK6812RGBW" /\ DOMAIN items = Leds
        /\ \A j \in Leds :
             items[j] = Unwritten \/ \E other \in Colors : items[j] = ItemsForColor(other)
    BY <2>1 DEF BufferOK
  <2>3. items' = [items EXCEPT ![k] = ItemsForColor(color)] /\ fault' = fault
    BY <1>2 DEF Write
  <2>4. /\ DOMAIN items' = Leds /\ k \in Leds /\ items'[k] = ItemsForColor(color)
        /\ \A j \in Leds \ {k} : items'[j] = items[j]
    BY <1>2, <2>2, <2>3
  <2>5. items' # NoBuffer
    BY <2>4, NoBufferAt
  <2>6. nrOfColors = 4 /\ nrOfColors' = 4
    BY <2>2 DEF nrOfColors
  <2>7. \A other : ItemsForColor(other)' = ItemsForColor(other)
    BY <2>6 DEF ItemsForColor
  <2>8. \A bits : Received(bits)' = Received(bits)
    BY <2>6 DEF Received
  <2>9. BufferOK'
    BY <2>2, <2>4, <2>7 DEF BufferOK
  <2>10. Contents(k)' = AsShown(color)
    <3>1. Contents(k)' = Received(ItemsForColor(color))
      BY <2>4, <2>5, <2>8 DEF Contents
    <3>2. QED
      BY <2>6, <3>1, ReceivedExact, ColorShades
  <2>11. \A j \in Leds \ {k} : Contents(j)' = Contents(j)
    BY <2>1, <2>4, <2>5, <2>8 DEF Contents
  <2>12. QED
    BY <2>1, <2>3, <2>4, <2>5, <2>9, <2>10, <2>11
<1>3. QED
  BY <1>1, <1>2

LEMMA BeforeStep ==
  ASSUME ShowInv
  PROVE  /\ Length \in Nat \ {0} /\ amount \in Nat /\ amount <= Length /\ led \in Nat
         /\ led <= 2 * Length /\ part \in Nat /\ part <= amount
         /\ sent \in Nat /\ sent <= Length
<1>1. Length \in Nat \ {0}
  BY LedstripsAssumption DEF LedstripsAssumption
<1>2. amount \in 0 .. Length /\ led \in 0 .. 2 * Length /\ part \in 0 .. amount /\ sent \in 0 .. Length
  BY DEF ShowInv, FieldsOK
<1>3. QED
  BY <1>1, <1>2

\* A write to the buffer while nothing is sent: what the chips have received
\* and show stays.
LEMMA FillColorsShows == ASSUME ShowInv, FillColors PROVE ShowInv'
<1>1. /\ pc = "colors" /\ fault = "none" /\ led < amount /\ Write(led, colors[led])
      /\ led' = led + 1
      /\ UNCHANGED <<installed, device, channel, sent, received, shown, pc, colors, amount, part, goal>>
  BY DEF FillColors, Running, devVars, hardware
<1>2. led \in 0 .. amount - 1 /\ led + 1 \in 0 .. amount /\ amount \in 0 .. Length /\ led \in Leds
      /\ amount \in Nat /\ Length \in Nat
  BY <1>1, BeforeStep DEF Leds
<1>3. colors[led] \in Colors
  BY <1>1, <1>2 DEF ShowInv, FillOK
<1> PICK at \in Leds, color \in Colors : at = led /\ color = colors[led] /\ Write(at, color)
  BY <1>1, <1>2, <1>3 DEF Write
<1>4. /\ BufferOK'
      /\ \/ fault' = "overrun" /\ items' = items
         \/ /\ fault' = fault /\ items # NoBuffer /\ items' # NoBuffer
            /\ Contents(at)' = AsShown(color)
            /\ \A j \in Leds \ {at} : Contents(j)' = Contents(j)
  BY <1>1, <1>2, WriteShows DEF ShowInv
<1>5. DeviceOK'
  BY <1>1, <1>4 DEF ShowInv, DeviceOK
<1>6. FieldsOK'
  <2>1. led + 1 \in 0 .. 2 * Length /\ led + 1 <= amount
    BY <1>2
  <2>2. fault' \in {"none", "overrun"}
    BY <1>1, <1>4
  <2>3. QED
    BY <1>1, <2>1, <2>2 DEF ShowInv, FieldsOK
<1>7. FillOK'
  <2>1. \A c : AsShown(c)' = AsShown(c)
    BY <1>1 DEF AsShown, nrOfColors
  <2>2. ASSUME fault' # "overrun", NEW k \in Leds
        PROVE  IF k \in led + 1 .. amount - 1 THEN goal[k] = AsShown(colors[k])
               ELSE Contents(k)' = goal[k]
    <3>1. IF k \in led .. amount - 1 THEN goal[k] = AsShown(colors[k]) ELSE Contents(k) = goal[k]
      BY <1>1 DEF ShowInv, FillOK
    <3>2. k \in Int
      BY <1>2 DEF Leds
    <3>3. CASE k = led
      BY <1>2, <1>4, <2>2, <3>1, <3>3
    <3>4. CASE k # led
      BY <1>2, <1>4, <2>2, <3>1, <3>2, <3>4
    <3>5. QED
      BY <3>3, <3>4
  <2>3. QED
    BY <1>1, <2>1, <2>2 DEF ShowInv, FillOK
<1>8. SendOK'
  BY <1>1 DEF ShowInv, SendOK
<1>9. QED
  BY <1>4, <1>5, <1>6, <1>7, <1>8 DEF ShowInv

LEMMA FillSequenceShows == ASSUME ShowInv, FillSequence PROVE ShowInv'
<1>1. /\ pc = "sequence" /\ fault = "none" /\ led < Length
      /\ UNCHANGED <<installed, device, channel, sent, received, shown, pc, colors, amount, goal>>
  BY DEF FillSequence, Running, devVars, hardware
<1>2. /\ Length \in Nat \ {0} /\ amount \in Nat /\ amount <= Length /\ led \in Nat
      /\ part \in Nat /\ part <= amount
  BY BeforeStep
<1>3. \A color : AsShown(color)' = AsShown(color)
  BY <1>1 DEF AsShown, nrOfColors
<1>4. SendOK'
  BY <1>1 DEF ShowInv, SendOK
<1>5. CASE part < amount
  <2>1. Write(led + part, colors[part]) /\ part' = part + 1 /\ led' = led
    BY <1>5 DEF FillSequence
  <2>2. part \in 0 .. amount - 1 /\ part + 1 \in 0 .. amount /\ amount # 0 /\ led + part \in Nat
    BY <1>2, <1>5
  <2>3. colors[part] \in Colors
    BY <1>1, <2>2 DEF ShowInv, FillOK
  <2> PICK at \in Nat, color \in Colors :
             at = led + part /\ color = colors[part] /\ Write(at, color)
    BY <2>1, <2>2, <2>3 DEF Write
  <2>4. /\ BufferOK'
        /\ \/ fault' = "overrun" /\ items' = items
           \/ /\ at \in Leds /\ fault' = fault /\ items # NoBuffer /\ items' # NoBuffer
              /\ Contents(at)' = AsShown(color)
              /\ \A j \in Leds \ {at} : Contents(j)' = Contents(j)
    BY <1>1, WriteShows DEF ShowInv
  <2>5. DeviceOK'
    BY <1>1, <2>4 DEF ShowInv, DeviceOK
  <2>6. FieldsOK'
    <3>1. fault' \in {"none", "overrun"}
      BY <1>1, <2>4
    <3>2. QED
      BY <1>1, <2>1, <2>2, <3>1 DEF ShowInv, FieldsOK
  <2>7. /\ led % amount = 0
        /\ \A k \in Leds :
             goal[k] = AsShown(colors[k % amount]) /\ (k < led + part => Contents(k) = goal[k])
    BY <1>1, <2>2 DEF ShowInv, FillOK
  <2>8. ASSUME fault' # "overrun", NEW k \in Leds, k < led + (part + 1)
        PROVE  Contents(k)' = goal[k]
    <3>1. CASE k = led + part
      <4>1. k % amount = part
        <5>1. led \in Nat /\ amount \in Nat \ {0} /\ led % amount = 0 /\ part \in 0 .. amount - 1
          BY <1>2, <2>2, <2>7
        <5>2. (led + part) % amount = part
          BY ONLY <5>1, Rounds
        <5>3. QED
          BY ONLY <3>1, <5>2
      <4>2. QED
        BY <2>4, <2>7, <2>8, <3>1, <4>1
    <3>2. CASE k # led + part
      <4>1. k < led + part
        BY <1>2, <2>8, <3>2 DEF Leds
      <4>2. QED
        BY <2>4, <2>7, <2>8, <3>2, <4>1
    <3>3. QED
      BY <3>1, <3>2
  <2>9. FillOK'
    <3>1. \A k \in 0 .. amount - 1 : colors[k] \in Colors
      BY <1>1 DEF ShowInv, FillOK
    <3>2. QED
      BY <1>1, <1>3, <2>1, <2>2, <2>7, <2>8, <3>1 DEF FillOK
  <2>10. QED
    BY <1>4, <2>4, <2>5, <2>6, <2>9 DEF ShowInv
<1>6. CASE ~(part < amount)
  <2>1. led' = led + amount /\ part' = 0 /\ items' = items /\ fault' = fault
    BY <1>6 DEF FillSequence, NextRound
  <2>2. /\ \A k : Contents(k)' = Contents(k)
        /\ BufferOK'
    BY <1>1, <2>1, SameBuffer DEF ShowInv
  <2>3. DeviceOK'
    BY <1>1, <2>1 DEF ShowInv, DeviceOK
  <2>4. FieldsOK'
    <3>1. led + amount \in 0 .. 2 * Length /\ 0 \in 0 .. amount
      BY <1>1, <1>2
    <3>2. QED
      BY <1>1, <2>1, <3>1 DEF ShowInv, FieldsOK
  <2>5. FillOK'
    <3>1. part = amount
      BY <1>2, <1>6
    <3>2. ASSUME amount # 0
          PROVE  /\ (led + amount) % amount = 0
                 /\ \A k \in Leds :
                      /\ goal[k] = AsShown(colors[k % amount])
                      /\ k < (led + amount) + 0 => Contents(k) = goal[k]
      <4>1. /\ led % amount = 0
            /\ \A k \in Leds :
                 goal[k] = AsShown(colors[k % amount]) /\ (k < led + part => Contents(k) = goal[k])
        BY <1>1, <3>2 DEF ShowInv, FillOK
      <4>2. (led + amount) % amount = 0
        <5>1. 0 \in 0 .. amount - 1
          BY <1>2, <3>2
        <5>2. QED
          BY <1>2, <3>2, <4>1, <5>1, Rounds
      <4>3. (led + amount) + 0 = led + part
        BY <1>2, <3>1
      <4>4. QED
        BY <4>1, <4>2, <4>3
    <3>3. /\ \A k \in 0 .. amount - 1 : colors[k] \in Colors
          /\ amount = 0 => \A k \in Leds : Contents(k) = goal[k]
      BY <1>1 DEF ShowInv, FillOK
    <3>4. QED
      BY <1>1, <1>3, <2>1, <2>2, <3>2, <3>3 DEF FillOK
  <2>6. QED
    BY <1>4, <2>2, <2>3, <2>4, <2>5 DEF ShowInv
<1>7. QED
  BY <1>5, <1>6

\* A device that is added has no buffer, or one that was not written yet.
LEMMA AddShows ==
  ASSUME ShowInv, NEW chip \in Chips, ledstrips_add_device(chip)
  PROVE  ShowInv'
<1>1. /\ pc = "idle" /\ fault = "none"
      /\ UNCHANGED <<channel, sent, received, shown, pc, colors, amount, led, part, goal>>
  BY DEF ledstrips_add_device, Running, hardware, caller
<1>2. /\ \A k \in Leds : Contents(k) = goal[k] /\ received[k] = Contents(k)
      /\ channel # "data" /\ (channel = "idle" => shown = goal)
  BY <1>1 DEF ShowInv, FillOK, SendOK
<1>3. CASE installed
  <2>1. fault' = "abort" /\ UNCHANGED <<installed, device, items>>
    BY <1>3 DEF ledstrips_add_device, devVars
  <2>2. (\A k : Contents(k)' = Contents(k)) /\ BufferOK'
    BY <2>1, SameBuffer DEF ShowInv
  <2>3. DeviceOK'
    BY <1>1, <2>1 DEF ShowInv, DeviceOK
  <2>4. FieldsOK'
    BY <1>1, <2>1 DEF ShowInv, FieldsOK
  <2>5. FillOK'
    BY <1>1, <1>2, <2>2 DEF FillOK
  <2>6. SendOK'
    BY <1>1, <1>2, <2>2 DEF SendOK
  <2>7. QED
    BY <2>2, <2>3, <2>4, <2>5, <2>6 DEF ShowInv
<1>4. CASE ~installed
  <2>1. /\ installed' = TRUE /\ fault' = fault
        /\ device' = chip \/ device' = device
        /\ items' = items \/ (device' = "SK6812RGBW" /\ items' = [k \in Leds |-> Unwritten])
    BY <1>4 DEF ledstrips_add_device, NewDevice, NewBuffer
  <2>2. items = NoBuffer /\ \A k \in Leds : received[k] = Unknown
    BY <1>4 DEF ShowInv, DeviceOK, BufferOK
  <2>3. \A k \in Leds : Contents(k)' = Unknown /\ Contents(k) = Unknown
    <3>1. CASE items' = items
      BY <2>2, <3>1 DEF Contents
    <3>2. CASE items' = [k \in Leds |-> Unwritten]
      BY <2>2, <3>2 DEF Contents, Received
    <3>3. QED
      BY <2>1, <3>1, <3>2
  <2>4. BufferOK'
    BY <2>1, <2>2 DEF BufferOK
  <2>5. DeviceOK'
    BY <1>1, <1>2, <2>1, <2>2 DEF DeviceOK
  <2>6. FieldsOK'
    BY <1>1, <2>1 DEF ShowInv, FieldsOK
  <2>7. FillOK'
    BY <1>1, <1>2, <2>3 DEF FillOK
  <2>8. SendOK'
    BY <1>1, <1>2, <2>3 DEF SendOK
  <2>9. QED
    BY <2>4, <2>5, <2>6, <2>7, <2>8 DEF ShowInv
<1>5. QED
  BY <1>3, <1>4

LEMMA RemoveShows == ASSUME ShowInv, ledstrips_remove_device PROVE ShowInv'
<1>1. /\ pc = "idle" /\ fault = "none"
      /\ installed' = FALSE /\ device' = "none" /\ items' = NoBuffer
      /\ channel' = "idle" /\ sent' = 0
      /\ received' = [k \in Leds |-> Unknown]
      /\ shown' = [k \in Leds |-> Unknown] /\ goal' = [k \in Leds |-> Unknown]
      /\ UNCHANGED <<pc, colors, amount, led, part, fault>>
  BY DEF ledstrips_remove_device, Running
<1>2. \A k \in Leds : Contents(k)' = Unknown
  BY <1>1 DEF Contents
<1>3. BufferOK' /\ DeviceOK'
  BY <1>1 DEF BufferOK, DeviceOK
<1>4. FieldsOK'
  <2>1. [k \in Leds |-> Unknown] \in [Leds -> Shades]
    BY ColorShades
  <2>2. 0 \in 0 .. Length
    BY BeforeStep
  <2>3. QED
    BY <1>1, <2>1, <2>2 DEF ShowInv, FieldsOK
<1>5. FillOK'
  BY <1>1, <1>2 DEF FillOK
<1>6. SendOK'
  BY <1>1, <1>2 DEF SendOK
<1>7. QED
  BY <1>3, <1>4, <1>5, <1>6 DEF ShowInv

\* The call begins with what it is to show, and with none of it written.
LEMMA SetColorsShows == ASSUME ShowInv, ledstrips_set_colors PROVE ShowInv'
<1>1. PICK n \in Given : \E array \in [0 .. n - 1 -> Colors] :
        /\ Begin("colors", array, n)
        /\ goal' = [k \in Leds |-> IF k < Cut(n) THEN AsShown(array[k]) ELSE goal[k]]
  BY DEF ledstrips_set_colors
<1>2. PICK array \in [0 .. n - 1 -> Colors] :
        /\ Begin("colors", array, n)
        /\ goal' = [k \in Leds |-> IF k < Cut(n) THEN AsShown(array[k]) ELSE goal[k]]
  BY <1>1
<1>3. /\ pc = "idle" /\ fault = "none" /\ pc' = "colors"
      /\ colors' = array /\ amount' = Cut(n) /\ led' = 0 /\ part' = 0
      /\ UNCHANGED <<installed, device, items, channel, sent, received, shown, fault>>
  BY <1>2 DEF Begin, Running, devVars, hardware
<1>4. n \in Nat /\ Cut(n) \in 0 .. Length /\ Length \in Nat
  <2>1. n \in Nat
    BY LedstripsAssumption DEF LedstripsAssumption
  <2>2. QED
    BY <2>1, CutProperties, BeforeStep
<1>5. \A k \in 0 .. Cut(n) - 1 : k \in 0 .. n - 1 /\ array[k] \in Colors
  BY <1>4 DEF Cut
<1>6. /\ \A k : Contents(k)' = Contents(k)
      /\ \A color : AsShown(color)' = AsShown(color)
      /\ BufferOK'
  BY <1>3, SameBuffer DEF ShowInv
<1>7. \A k \in Leds : Contents(k) = goal[k]
  BY <1>3 DEF ShowInv, FillOK
<1>8. DeviceOK'
  BY <1>3 DEF ShowInv, DeviceOK
<1>9. FieldsOK'
  <2>1. goal' \in [Leds -> Shades]
    <3>1. \A k \in Leds : k < Cut(n) => AsShown(array[k]) \in Shades
      BY <1>4, <1>5, ColorShades DEF Leds
    <3>2. goal \in [Leds -> Shades]
      BY DEF ShowInv, FieldsOK
    <3>3. QED
      BY <1>2, <3>1, <3>2
  <2>2. Cut(n) \in 0 .. Length /\ 0 \in 0 .. 2 * Length /\ 0 \in 0 .. Cut(n) /\ 0 <= Cut(n)
    BY <1>4
  <2>3. QED
    BY <1>3, <2>1, <2>2 DEF ShowInv, FieldsOK
<1>10. FillOK'
  <2>1. ASSUME NEW k \in Leds
        PROVE  IF k \in 0 .. Cut(n) - 1 THEN goal'[k] = AsShown(array[k])
               ELSE Contents(k) = goal'[k]
    <3>1. k \in 0 .. Cut(n) - 1 <=> k < Cut(n)
      BY <1>4 DEF Leds
    <3>2. QED
      BY <1>2, <1>7, <3>1
  <2>2. QED
    BY <1>3, <1>5, <1>6, <2>1 DEF FillOK
<1>11. SendOK'
  BY <1>3 DEF ShowInv, SendOK
<1>12. QED
  BY <1>6, <1>8, <1>9, <1>10, <1>11 DEF ShowInv

LEMMA SetSequenceShows == ASSUME ShowInv, ledstrips_set_sequence PROVE ShowInv'
<1>1. PICK n \in Sequences : \E array \in [0 .. n - 1 -> Colors] :
        /\ Begin("sequence", array, n)
        /\ goal' = [k \in Leds |-> IF n = 0 THEN goal[k] ELSE AsShown(array[k % Cut(n)])]
  BY DEF ledstrips_set_sequence
<1>2. PICK array \in [0 .. n - 1 -> Colors] :
        /\ Begin("sequence", array, n)
        /\ goal' = [k \in Leds |-> IF n = 0 THEN goal[k] ELSE AsShown(array[k % Cut(n)])]
  BY <1>1
<1>3. /\ pc = "idle" /\ fault = "none" /\ pc' = "sequence"
      /\ colors' = array /\ amount' = Cut(n) /\ led' = 0 /\ part' = 0
      /\ UNCHANGED <<installed, device, items, channel, sent, received, shown, fault>>
  BY <1>2 DEF Begin, Running, devVars, hardware
<1>4. n \in Nat /\ Cut(n) \in 0 .. Length /\ Length \in Nat /\ (n = 0 <=> Cut(n) = 0)
  <2>1. n \in Nat
    BY LedstripsAssumption DEF LedstripsAssumption
  <2>2. Cut(0) = 0
    BY BeforeStep DEF Cut
  <2>3. QED
    BY <2>1, <2>2, CutProperties, BeforeStep
<1>5. \A k \in 0 .. Cut(n) - 1 : k \in 0 .. n - 1 /\ array[k] \in Colors
  BY <1>4 DEF Cut
<1>6. /\ \A k : Contents(k)' = Contents(k)
      /\ \A color : AsShown(color)' = AsShown(color)
      /\ BufferOK'
  BY <1>3, SameBuffer DEF ShowInv
<1>7. \A k \in Leds : Contents(k) = goal[k]
  BY <1>3 DEF ShowInv, FillOK
<1>8. DeviceOK'
  BY <1>3 DEF ShowInv, DeviceOK
<1>9. FieldsOK'
  <2>1. goal' \in [Leds -> Shades]
    <3>1. ASSUME n # 0, NEW k \in Leds PROVE AsShown(array[k % Cut(n)]) \in Shades
      <4>1. \A c \in Nat \ {0} : k % c \in 0 .. c - 1
        BY DEF Leds
      <4>2. k % Cut(n) \in 0 .. Cut(n) - 1
        BY <1>4, <3>1, <4>1
      <4>3. QED
        BY <1>5, <4>2, ColorShades
    <3>2. goal \in [Leds -> Shades]
      BY DEF ShowInv, FieldsOK
    <3>3. QED
      BY <1>2, <3>1, <3>2
  <2>2. Cut(n) \in 0 .. Length /\ 0 \in 0 .. 2 * Length /\ 0 \in 0 .. Cut(n)
    BY <1>4
  <2>3. QED
    BY <1>3, <2>1, <2>2 DEF ShowInv, FieldsOK
<1>10. FillOK'
  <2>1. ASSUME Cut(n) # 0
        PROVE  /\ 0 % Cut(n) = 0
               /\ \A k \in Leds : goal'[k] = AsShown(array[k % Cut(n)]) /\ ~(k < 0 + 0)
    <3>1. \A c \in Nat \ {0} : 0 % c = 0
      OBVIOUS
    <3>2. 0 % Cut(n) = 0
      BY <1>4, <2>1, <3>1
    <3>3. \A k \in Leds : ~(k < 0 + 0)
      BY DEF Leds
    <3>4. QED
      BY <1>2, <1>4, <2>1, <3>2, <3>3
  <2>2. ASSUME Cut(n) = 0 PROVE \A k \in Leds : Contents(k) = goal'[k]
    BY <1>2, <1>4, <1>7, <2>2
  <2>3. QED
    BY <1>3, <1>5, <1>6, <2>1, <2>2 DEF FillOK
<1>11. SendOK'
  BY <1>3 DEF ShowInv, SendOK
<1>12. QED
  BY <1>6, <1>8, <1>9, <1>10, <1>11 DEF ShowInv

\* When the loops are over the buffer holds what the caller asked for.
LEMMA FilledShows == ASSUME ShowInv, Filled PROVE ShowInv'
<1>1. /\ fault = "none" /\ pc' = "wait_data"
      /\ (pc = "colors" /\ led >= amount) \/ (pc = "sequence" /\ led >= Length)
      /\ UNCHANGED <<installed, device, items, channel, sent, received, shown, colors, amount, led,
                     part, goal, fault>>
  BY DEF Filled, Running, devVars, hardware
<1>2. (\A k : Contents(k)' = Contents(k)) /\ BufferOK'
  BY <1>1, SameBuffer DEF ShowInv
<1>3. \A k \in Leds : Contents(k) = goal[k]
  <2>1. CASE pc = "colors"
    <3>1. \A k \in Leds : k \notin led .. amount - 1
      BY <1>1, <2>1, BeforeStep DEF Leds
    <3>2. QED
      BY <1>1, <2>1, <3>1 DEF ShowInv, FillOK
  <2>2. CASE pc = "sequence"
    <3>1. \A k \in Leds : k < led + part
      BY <1>1, <2>2, BeforeStep DEF Leds
    <3>2. QED
      BY <1>1, <2>2, <3>1 DEF ShowInv, FillOK
  <2>3. QED
    BY <1>1, <2>1, <2>2
<1>4. DeviceOK'
  BY <1>1 DEF ShowInv, DeviceOK
<1>5. FieldsOK'
  BY <1>1 DEF ShowInv, FieldsOK
<1>6. FillOK'
  BY <1>1, <1>2, <1>3 DEF FillOK
<1>7. SendOK'
  BY <1>1 DEF ShowInv, SendOK
<1>8. QED
  BY <1>2, <1>4, <1>5, <1>6, <1>7 DEF ShowInv

LEMMA WaitShows ==
  ASSUME ShowInv,
         Wait("wait_data", "send_data") \/ Wait("wait_reset", "send_reset")
  PROVE  ShowInv'
<1>1. /\ (pc = "wait_data" /\ pc' = "send_data") \/ (pc = "wait_reset" /\ pc' = "send_reset")
      /\ fault = "none" /\ channel = "idle"
      /\ UNCHANGED <<installed, device, items, channel, sent, received, shown, colors, amount, led,
                     part, goal, fault>>
  BY DEF Wait, Running, devVars, hardware
<1>2. (\A k : Contents(k)' = Contents(k)) /\ BufferOK'
  BY <1>1, SameBuffer DEF ShowInv
<1>3. \A k \in Leds : Contents(k) = goal[k]
  BY <1>1 DEF ShowInv, FillOK
<1>4. DeviceOK'
  BY <1>1 DEF ShowInv, DeviceOK
<1>5. FieldsOK'
  BY <1>1 DEF ShowInv, FieldsOK
<1>6. FillOK'
  BY <1>1, <1>2, <1>3 DEF FillOK
<1>7. SendOK'
  BY <1>1, <1>2 DEF ShowInv, SendOK
<1>8. QED
  BY <1>2, <1>4, <1>5, <1>6, <1>7 DEF ShowInv

\* What is to be sent is what the caller asked for, or nothing.
LEMMA SendItemsShows == ASSUME ShowInv, SendItems PROVE ShowInv'
<1>1. /\ pc = "send_data" /\ pc' = "wait_reset" /\ fault = "none" /\ channel = "idle"
      /\ UNCHANGED <<installed, device, items, received, shown, colors, amount, led, part, goal,
                     fault>>
  BY DEF SendItems, AfterItems, Running, devVars
<1>2. (\A k : Contents(k)' = Contents(k)) /\ BufferOK'
  BY <1>1, SameBuffer DEF ShowInv
<1>3. \A k \in Leds : Contents(k) = goal[k]
  BY <1>1 DEF ShowInv, FillOK
<1>4. \/ items = NoBuffer /\ channel' = channel /\ sent' = sent
      \/ items # NoBuffer /\ channel' = "data" /\ sent' = 0
  BY DEF SendItems
<1>5. DeviceOK'
  BY <1>1, <1>4 DEF ShowInv, DeviceOK
<1>6. FieldsOK'
  <2>1. 0 \in 0 .. Length
    BY BeforeStep
  <2>2. QED
    BY <1>1, <1>4, <2>1 DEF ShowInv, FieldsOK
<1>7. FillOK'
  BY <1>1, <1>2, <1>3 DEF FillOK
<1>8. SendOK'
  <2>1. CASE items = NoBuffer
    <3>1. \A k \in Leds : received[k] = Contents(k)
      BY <2>1 DEF ShowInv, DeviceOK, Contents
    <3>2. channel' = "idle"
      BY <1>1, <1>4, <2>1
    <3>3. QED
      BY <1>1, <1>2, <3>1, <3>2 DEF SendOK
  <2>2. CASE items # NoBuffer
    <3>1. channel' = "data" /\ sent' = 0
      BY <1>4, <2>2
    <3>2. 0 .. 0 - 1 = {}
      OBVIOUS
    <3>3. QED
      BY <1>1, <3>1, <3>2 DEF SendOK
  <2>3. QED
    BY <2>1, <2>2
<1>9. QED
  BY <1>2, <1>5, <1>6, <1>7, <1>8 DEF ShowInv

LEMMA SendResetShows == ASSUME ShowInv, SendReset PROVE ShowInv'
<1>1. /\ pc = "send_reset" /\ pc' = "idle" /\ fault = "none" /\ channel = "idle"
      /\ channel' = "reset" /\ amount' = 0 /\ led' = 0 /\ part' = 0
      /\ UNCHANGED <<installed, device, items, sent, received, shown, goal, fault>>
  BY DEF SendReset, Running, devVars
<1>2. (\A k : Contents(k)' = Contents(k)) /\ BufferOK'
  BY <1>1, SameBuffer DEF ShowInv
<1>3. \A k \in Leds : Contents(k) = goal[k] /\ received[k] = Contents(k)
  BY <1>1 DEF ShowInv, FillOK, SendOK
<1>4. DeviceOK'
  BY <1>1 DEF ShowInv, DeviceOK
<1>5. FieldsOK'
  <2>1. 0 \in 0 .. Length /\ 0 \in 0 .. 2 * Length /\ 0 \in 0 .. 0
    BY BeforeStep
  <2>2. QED
    BY <1>1, <2>1 DEF ShowInv, FieldsOK
<1>6. FillOK'
  BY <1>1, <1>2, <1>3 DEF FillOK
<1>7. SendOK'
  BY <1>1, <1>2, <1>3 DEF SendOK
<1>8. QED
  BY <1>2, <1>4, <1>5, <1>6, <1>7 DEF ShowInv

-----------------------------------------------------------------------------
(* The peripheral and the chips.                                           *)

\* One more LED has received what the buffer holds for it.
LEMMA SendLedShows == ASSUME ShowInv, SendLed PROVE ShowInv'
<1>1. /\ channel = "data" /\ fault = "none" /\ sent < Length
      /\ received' = [received EXCEPT ![sent] = Received(items[sent])]
      /\ sent' = sent + 1
      /\ UNCHANGED <<installed, device, items, channel, shown, pc, colors, amount, led, part, goal,
                     fault>>
  BY DEF SendLed, Running, devVars, caller
<1>2. (\A k : Contents(k)' = Contents(k)) /\ BufferOK'
  BY <1>1, SameBuffer DEF ShowInv
<1>3. pc = "wait_reset" /\ items # NoBuffer
  BY <1>1 DEF ShowInv, SendOK, DeviceOK
<1>4. sent \in Leds /\ sent \in Nat /\ Length \in Nat
  BY <1>1, BeforeStep DEF Leds
<1>5. Received(items[sent]) = Contents(sent) /\ Contents(sent) \in Shades
  BY <1>3, <1>4, ContentsShades DEF Contents, ShowInv
<1>6. DeviceOK'
  BY <1>1, <1>3 DEF ShowInv, DeviceOK
<1>7. FieldsOK'
  <2>1. received' \in [Leds -> Shades]
    BY <1>1, <1>4, <1>5 DEF ShowInv, FieldsOK
  <2>2. sent + 1 \in 0 .. Length
    BY <1>1, <1>4
  <2>3. QED
    BY <1>1, <2>1, <2>2 DEF ShowInv, FieldsOK
<1>8. FillOK'
  <2>1. \A k \in Leds : Contents(k) = goal[k]
    BY <1>1, <1>3 DEF ShowInv, FillOK
  <2>2. QED
    BY <1>1, <1>2, <1>3, <2>1 DEF FillOK
<1>9. SendOK'
  <2>1. ASSUME NEW k \in 0 .. sent + 1 - 1 PROVE received'[k] = Contents(k)
    <3>1. received \in [Leds -> Shades] /\ \A j \in 0 .. sent - 1 : received[j] = Contents(j)
      BY <1>1 DEF ShowInv, FieldsOK, SendOK
    <3>2. k \in Leds /\ (k = sent \/ k \in 0 .. sent - 1)
      BY <1>1, <1>4 DEF Leds
    <3>3. QED
      BY <1>1, <1>4, <1>5, <3>1, <3>2
  <2>2. ASSUME NEW k \in 0 .. sent' - 1 PROVE received'[k] = Contents(k)'
    <3>1. k \in 0 .. sent + 1 - 1
      <4>1. sent' = sent + 1
        BY <1>1
      <4>2. QED
        BY <1>4, <2>2, <4>1
    <3>2. received'[k] = Contents(k)
      BY <2>1, <3>1
    <3>3. QED
      BY <1>2, <3>2
  <2>3. pc' = "wait_reset" /\ channel' = "data"
    BY <1>1, <1>3
  <2>4. QED
    BY <2>2, <2>3 DEF SendOK
<1>10. QED
  BY <1>2, <1>6, <1>7, <1>8, <1>9 DEF ShowInv

LEMMA AllSentShows == ASSUME ShowInv, AllSent PROVE ShowInv'
<1>1. /\ channel = "data" /\ fault = "none" /\ sent = Length /\ channel' = "idle"
      /\ UNCHANGED <<installed, device, items, sent, received, shown, pc, colors, amount, led, part,
                     goal, fault>>
  BY DEF AllSent, Running, devVars, caller
<1>2. (\A k : Contents(k)' = Contents(k)) /\ BufferOK'
  BY <1>1, SameBuffer DEF ShowInv
<1>3. pc = "wait_reset" /\ \A k \in Leds : received[k] = Contents(k)
  BY <1>1 DEF ShowInv, SendOK, Leds
<1>4. DeviceOK'
  BY <1>1 DEF ShowInv, DeviceOK
<1>5. FieldsOK'
  BY <1>1 DEF ShowInv, FieldsOK
<1>6. FillOK'
  <2>1. \A k \in Leds : Contents(k) = goal[k]
    BY <1>1, <1>3 DEF ShowInv, FillOK
  <2>2. QED
    BY <1>1, <1>2, <1>3, <2>1 DEF FillOK
<1>7. SendOK'
  BY <1>1, <1>2, <1>3 DEF SendOK
<1>8. QED
  BY <1>2, <1>4, <1>5, <1>6, <1>7 DEF ShowInv

\* The reset comes after the data, when all of the strip has received it.
LEMMA LatchShows == ASSUME ShowInv, Latch PROVE ShowInv'
<1>1. /\ channel = "reset" /\ fault = "none" /\ channel' = "idle" /\ shown' = received
      /\ UNCHANGED <<installed, device, items, sent, received, pc, colors, amount, led, part, goal,
                     fault>>
  BY DEF Latch, Running, devVars, caller
<1>2. /\ \A k : Contents(k)' = Contents(k)
      /\ \A color : AsShown(color)' = AsShown(color)
      /\ BufferOK'
  BY <1>1, SameBuffer DEF ShowInv
<1>3. DeviceOK'
  BY <1>1 DEF ShowInv, DeviceOK
<1>4. FieldsOK'
  BY <1>1 DEF ShowInv, FieldsOK
<1>5. FillOK'
  <2>1. \A k : fault' # "overrun"
    BY <1>1
  <2>2. QED
    BY <1>1, <1>2 DEF ShowInv, FillOK
<1>6. SendOK'
  <2>1. pc # "wait_reset" /\ pc # "send_data" /\ pc # "send_reset"
    BY <1>1 DEF ShowInv, SendOK
  <2>2. ASSUME pc = "idle" PROVE received = goal /\ \A k \in Leds : received[k] = Contents(k)
    <3>1. \A k \in Leds : received[k] = Contents(k) /\ Contents(k) = goal[k]
      BY <1>1, <2>2 DEF ShowInv, FillOK, SendOK
    <3>2. received \in [Leds -> Shades] /\ goal \in [Leds -> Shades]
      BY DEF ShowInv, FieldsOK
    <3>3. QED
      BY <3>1, <3>2
  <2>3. QED
    BY <1>1, <1>2, <2>1, <2>2 DEF SendOK
<1>7. QED
  BY <1>2, <1>3, <1>4, <1>5, <1>6 DEF ShowInv

-----------------------------------------------------------------------------
LEMMA InitShows == Init => ShowInv
<1> SUFFICES ASSUME Init PROVE ShowInv
  OBVIOUS
<1>1. /\ installed = FALSE /\ device = "none" /\ items = NoBuffer /\ pc = "idle" /\ amount = 0
      /\ led = 0 /\ part = 0 /\ channel = "idle" /\ sent = 0 /\ fault = "none"
      /\ received = [k \in Leds |-> Unknown] /\ shown = [k \in Leds |-> Unknown]
      /\ goal = [k \in Leds |-> Unknown]
  BY DEF Init
<1>2. \A k \in Leds : Contents(k) = Unknown
  BY <1>1 DEF Contents
<1>3. BufferOK /\ DeviceOK
  BY <1>1 DEF BufferOK, DeviceOK
<1>4. FieldsOK
  <2>1. 0 \in 0 .. Length /\ 0 \in 0 .. 2 * Length /\ 0 \in 0 .. 0
    BY LedstripsAssumption DEF LedstripsAssumption
  <2>2. [k \in Leds |-> Unknown] \in [Leds -> Shades]
    BY ColorShades
  <2>3. QED
    BY <1>1, <2>1, <2>2 DEF FieldsOK
<1>5. FillOK /\ SendOK
  BY <1>1, <1>2 DEF FillOK, SendOK
<1>6. QED
  BY <1>3, <1>4, <1>5 DEF ShowInv

LEMMA StutterShows == ASSUME ShowInv, UNCHANGED vars PROVE ShowInv'
<1>1. UNCHANGED <<installed, device, items, channel, sent, received, shown, pc, colors, amount, led,
                  part, goal, fault>>
  BY DEF vars, devVars, hardware, caller
<1>2. /\ \A k : Contents(k)' = Contents(k)
      /\ \A color : AsShown(color)' = AsShown(color)
      /\ BufferOK'
  BY <1>1, SameBuffer DEF ShowInv
<1>3. DeviceOK' /\ FieldsOK'
  BY <1>1 DEF ShowInv, DeviceOK, FieldsOK
<1>4. FillOK'
  BY <1>1, <1>2 DEF ShowInv, FillOK
<1>5. SendOK'
  BY <1>1, <1>2 DEF ShowInv, SendOK
<1>6. QED
  BY <1>2, <1>3, <1>4, <1>5 DEF ShowInv

\* The colours that are on their way are those that were asked for, from the
\* caller's array to the LED.
THEOREM ShowInvariance == Spec => []ShowInv
<1>1. ASSUME ShowInv, Next PROVE ShowInv'
  BY <1>1, AddShows, RemoveShows, SetColorsShows, SetSequenceShows, FillColorsShows,
     FillSequenceShows, FilledShows, WaitShows, SendItemsShows, SendResetShows, SendLedShows,
     AllSentShows, LatchShows
  DEF Next, CallerStep, Peripheral
<1>2. ShowInv /\ [Next]_vars => ShowInv'
  BY <1>1, StutterShows
<1>3. QED
  BY <1>2, InitShows, PTL DEF Spec

\* The types of the driver's state: the caller never goes further in the
\* buffer than twice the strip, and the LEDs show colours.
THEOREM DriverTyped == Spec => []TypeOK
<1>1. ASSUME ShowInv PROVE TypeOK
  <2>1. items = NoBuffer \/ DOMAIN items = Leds
    BY <1>1 DEF ShowInv, BufferOK
  <2>2. \A k \in Leds : {received[k], shown[k], goal[k]} \subseteq Shades
    BY <1>1 DEF ShowInv, FieldsOK
  <2>3. QED
    BY <1>1, <2>1, <2>2 DEF ShowInv, FieldsOK, TypeOK
<1>2. QED
  BY <1>1, ShowInvariance, PTL

\* When all calls are over and all is sent, the strip shows the colours of the
\* last calls, whatever lengths they were given.
THEOREM StripShowsGoal == Spec => []ShowsGoal
<1>1. ShowInv => ShowsGoal
  BY DEF ShowInv, SendOK, ShowsGoal
<1>2. QED
  BY <1>1, ShowInvariance, PTL
=============================================================================

------------------------------- MODULE Ledstrips -------------------------------
(***************************************************************************)
(* ledstrips/ledstrips_rmt_driver.c: a buffer of RMT items that a caller   *)
(* fills and that the RMT peripheral reads while it transmits, on its own. *)
(* One action is one LED written by the caller, one LED sent by the        *)
(* peripheral, or one call into the RMT driver.  The peripheral and the    *)
(* chips on the strip are external.  One task calls the functions.         *)
(***************************************************************************)
EXTENDS Integers, Sequences

CONSTANTS
  Length,     \* LEDs on the strip
  Colors,     \* colours, each a function from channel 0..3 to a byte
  Given,      \* lengths of the arrays that the caller passes
  Sequences,  \* lengths of the sequences that the caller passes
  Chips,      \* chip types the caller adds devices for
  MayFail     \* TRUE if memory may run out

ASSUME LedstripsAssumption ==
  /\ Length \in Nat \ {0}
  /\ Colors \subseteq [0 .. 3 -> 0 .. 255]
  /\ Given \cup Sequences \subseteq Nat
  /\ Chips \subseteq {"WS2812", "SK6812", "SK6812RGBW"}
  /\ MayFail \in BOOLEAN

Leds == 0 .. Length - 1
NoBuffer == <<>>
Unwritten == <<>>  \* the bits of a LED whose place in the buffer was never written
Unknown == [red |-> -1, green |-> -1, blue |-> -1, white |-> -1]

VARIABLES
  installed,  \* the RMT driver is installed on RMT_CHANNEL_0
  device,     \* the chip type of the device, or "none"
  items,      \* what is in the buffer for each LED, or NoBuffer
  pc,         \* where the caller is
  colors,     \* the array it passed, from 0 on
  amount,     \* the length it passed, cut to that of the strip
  led, part,  \* i and j of its loops
  channel,    \* what the peripheral transmits: "idle", "data" or "reset"
  sent,       \* the number of LEDs the peripheral has sent
  received,   \* what the LEDs have received since the last reset
  shown,      \* what they show
  goal,       \* auxiliary: what the calls so far asked for, LED by LED
  fault       \* "overrun": a write outside of the buffer; "abort": by ESP_ERROR_CHECK

devVars == <<installed, device>>
hardware == <<channel, sent, received, shown>>
caller == <<pc, colors, amount, led, part, goal>>
vars == <<devVars, items, hardware, caller, fault>>

Init ==
  /\ installed = FALSE /\ device = "none" /\ items = NoBuffer
  /\ pc = "idle" /\ colors = <<>> /\ amount = 0 /\ led = 0 /\ part = 0
  /\ channel = "idle" /\ sent = 0
  /\ received = [k \in Leds |-> Unknown]
  /\ shown = [k \in Leds |-> Unknown]
  /\ goal = [k \in Leds |-> Unknown]
  /\ fault = "none"

Running == fault = "none"

\* Mutant of Cut: a longer array is not cut.
Uncut(n) == n

\* fmin of a length and that of the strip.
Cut(n) == IF n < Length THEN n ELSE Length

-----------------------------------------------------------------------------
(* The wire: every channel of a LED is sent from its highest bit down, in  *)
(* the order of colorSequence; the chips take green, red, blue and white.  *)

nrOfColors == IF device = "SK6812RGBW" THEN 4 ELSE 3
colorSequence == [c \in 0 .. 3 |-> CASE c = 0 -> 1 [] c = 1 -> 0 [] OTHER -> c]

\* 0x80 >> bitIdx.
Mask == <<128, 64, 32, 16, 8, 4, 2, 1>>
Bit(byte, bitIdx) == (byte \div Mask[bitIdx + 1]) % 2

\* Mutant of ItemsForColor: the low bit is sent first.
LowBitFirst(color) ==
  [k \in 0 .. 8 * nrOfColors - 1 |-> Bit(color[colorSequence[k \div 8]], 7 - (k % 8))]

ItemsForColor(color) ==
  [k \in 0 .. 8 * nrOfColors - 1 |-> Bit(color[colorSequence[k \div 8]], k % 8)]

\* What the chip makes of the bits, by its data sheet.
Byte(bits, i) ==
  128 * bits[i] + 64 * bits[i + 1] + 32 * bits[i + 2] + 16 * bits[i + 3]
    + 8 * bits[i + 4] + 4 * bits[i + 5] + 2 * bits[i + 6] + bits[i + 7]
Received(bits) ==
  IF bits = Unwritten THEN Unknown ELSE
  [red |-> Byte(bits, 8), green |-> Byte(bits, 0), blue |-> Byte(bits, 16),
   white |-> IF nrOfColors = 4 THEN Byte(bits, 24) ELSE 0]

AsShown(color) ==
  [red |-> color[0], green |-> color[1], blue |-> color[2],
   white |-> IF nrOfColors = 4 THEN color[3] ELSE 0]

-----------------------------------------------------------------------------
(* ledstrips_add_device and ledstrips_remove_device.                       *)

NewBuffer ==
  \/ items' = [k \in Leds |-> Unwritten]
  \/ MayFail /\ UNCHANGED items

\* Only the case of SK6812RGBW gives the device a buffer.
NewDevice(chip) ==
  \/ /\ device' = chip
     /\ IF chip = "SK6812RGBW" THEN NewBuffer ELSE UNCHANGED items
  \/ MayFail /\ UNCHANGED <<device, items>>

\* Every device is on RMT_CHANNEL_0: installing the RMT driver a second time,
\* for another device or after a call that failed, aborts by ESP_ERROR_CHECK.
ledstrips_add_device(chip) ==
  /\ pc = "idle" /\ Running
  /\ \/ installed /\ fault' = "abort" /\ UNCHANGED <<devVars, items>>
     \/ ~installed /\ installed' = TRUE /\ NewDevice(chip) /\ UNCHANGED fault
  /\ UNCHANGED <<hardware, caller>>

\* Uninstalling ends a transmission.
ledstrips_remove_device ==
  /\ pc = "idle" /\ device # "none" /\ Running
  /\ installed' = FALSE /\ device' = "none" /\ items' = NoBuffer
  /\ channel' = "idle" /\ sent' = 0
  /\ received' = [k \in Leds |-> Unknown]
  /\ shown' = [k \in Leds |-> Unknown] /\ goal' = [k \in Leds |-> Unknown]
  /\ UNCHANGED <<pc, colors, amount, led, part, fault>>

-----------------------------------------------------------------------------
(* ledstrips_set_colors and ledstrips_set_sequence fill the buffer, then   *)
(* send it and a reset.                                                    *)

Begin(loop, array, n) ==
  /\ pc = "idle" /\ device # "none" /\ Running
  /\ pc' = loop
  /\ colors' = array /\ amount' = Cut(n) /\ led' = 0 /\ part' = 0
  /\ UNCHANGED <<devVars, items, hardware, fault>>

ledstrips_set_colors ==
  \E n \in Given : \E array \in [0 .. n - 1 -> Colors] :
    /\ Begin("colors", array, n)
    /\ goal' = [k \in Leds |-> IF k < Cut(n) THEN AsShown(array[k]) ELSE goal[k]]

ledstrips_set_sequence ==
  \E n \in Sequences : \E array \in [0 .. n - 1 -> Colors] :
    /\ Begin("sequence", array, n)
    /\ goal' = [k \in Leds |-> IF n = 0 THEN goal[k] ELSE AsShown(array[k % Cut(n)])]

\* ledstrips_set_items_for_color.  Items past the end of the buffer, or of a
\* device that has none, are somebody else's memory.
Write(k, color) ==
  IF k \in DOMAIN items THEN items' = [items EXCEPT ![k] = ItemsForColor(color)] /\ UNCHANGED fault
  ELSE fault' = "overrun" /\ UNCHANGED items

FillColors ==
  /\ pc = "colors" /\ Running
  /\ led < amount
  /\ Write(led, colors[led])
  /\ led' = led + 1
  /\ UNCHANGED <<devVars, hardware, pc, colors, amount, part, goal>>

\* Mutant of NextRound: the outer loop does not go on.
SameRound(i, n) == i

NextRound(i, n) == i + n

\* The inner loop goes over the whole sequence, wherever the strip ends.
FillSequence ==
  /\ pc = "sequence" /\ Running
  /\ led < Length
  /\ IF part < amount
     THEN Write(led + part, colors[part]) /\ part' = part + 1 /\ UNCHANGED led
     ELSE led' = NextRound(led, amount) /\ part' = 0 /\ UNCHANGED <<items, fault>>
  /\ UNCHANGED <<devVars, hardware, pc, colors, amount, goal>>

Filled ==
  /\ Running
  /\ \/ pc = "colors" /\ led >= amount
     \/ pc = "sequence" /\ led >= Length
  /\ pc' = "wait_data"
  /\ UNCHANGED <<devVars, items, hardware, colors, amount, led, part, goal, fault>>

\* rmt_wait_tx_done: until the peripheral has sent what it was given.
Wait(from, to) ==
  /\ pc = from /\ Running
  /\ channel = "idle"
  /\ pc' = to
  /\ UNCHANGED <<devVars, items, hardware, colors, amount, led, part, goal, fault>>

\* Mutant of AfterItems: the call returns without the reset after the data.
NoReset == "idle"

AfterItems == "wait_reset"

\* rmt_write_items, which does not wait for what it starts, and refuses to send nothing.
SendItems ==
  /\ pc = "send_data" /\ Running
  /\ channel = "idle"
  /\ IF items = NoBuffer THEN UNCHANGED <<channel, sent>> ELSE channel' = "data" /\ sent' = 0
  /\ pc' = AfterItems
  /\ UNCHANGED <<devVars, items, received, shown, colors, amount, led, part, goal, fault>>

SendReset ==
  /\ pc = "send_reset" /\ Running
  /\ channel = "idle"
  /\ channel' = "reset"
  /\ pc' = "idle" /\ colors' = <<>> /\ amount' = 0 /\ led' = 0 /\ part' = 0
  /\ UNCHANGED <<devVars, items, sent, received, shown, goal, fault>>

-----------------------------------------------------------------------------
(* The peripheral reads the buffer while it sends it.  The chips show what *)
(* they received when the line is quiet for the length of a reset.         *)

SendLed ==
  /\ channel = "data" /\ Running
  /\ sent < Length
  /\ received' = [received EXCEPT ![sent] = Received(items[sent])]
  /\ sent' = sent + 1
  /\ UNCHANGED <<devVars, items, channel, shown, caller, fault>>

AllSent ==
  /\ channel = "data" /\ Running
  /\ sent = Length
  /\ channel' = "idle"
  /\ UNCHANGED <<devVars, items, sent, received, shown, caller, fault>>

Latch ==
  /\ channel = "reset" /\ Running
  /\ channel' = "idle"
  /\ shown' = received
  /\ UNCHANGED <<devVars, items, sent, received, caller, fault>>

-----------------------------------------------------------------------------
CallerStep ==
  \/ FillColors \/ FillSequence \/ Filled
  \/ Wait("wait_data", "send_data") \/ SendItems
  \/ Wait("wait_reset", "send_reset") \/ SendReset

Peripheral == SendLed \/ AllSent \/ Latch

Next ==
  \/ \E chip \in Chips : ledstrips_add_device(chip)
  \/ ledstrips_remove_device
  \/ ledstrips_set_colors \/ ledstrips_set_sequence
  \/ CallerStep \/ Peripheral

Spec == Init /\ [][Next]_vars

\* The caller's task is scheduled, and the peripheral transmits what it is given.
FairSpec == Spec /\ WF_vars(CallerStep) /\ WF_vars(Peripheral)

-----------------------------------------------------------------------------
(* Correctness.                                                            *)

Shades == [red : -1 .. 255, green : -1 .. 255, blue : -1 .. 255, white : -1 .. 255]

TypeOK ==
  /\ installed \in BOOLEAN /\ device \in Chips \cup {"none"}
  /\ items = NoBuffer \/ DOMAIN items = Leds
  /\ pc \in {"idle", "colors", "sequence", "wait_data", "send_data", "wait_reset", "send_reset"}
  /\ amount \in 0 .. Length /\ led \in 0 .. 2 * Length /\ part \in 0 .. amount
  /\ channel \in {"idle", "data", "reset"} /\ sent \in 0 .. Length
  /\ \A k \in Leds : {received[k], shown[k], goal[k]} \subseteq Shades
  /\ fault \in {"none", "overrun", "abort"}

\* A call for a device that has an item buffer writes into that buffer only:
\* not past its end, whatever lengths the caller passes, and "the sequence will
\* repeat if it is shorter then the amount of leds in the ledstrip".
StaysInBuffer == fault = "overrun" => items = NoBuffer

\* The buffer is not written while the peripheral reads it: the reset that
\* ends each call waits for the transmission before it.
BufferStable == [][channel = "data" => items' = items]_vars

\* When all calls are over and all is sent, each LED shows the colour that the
\* last call which gave it one asked for.
ShowsGoal == pc = "idle" /\ channel = "idle" => shown = goal

\* A call that began is over at some point, unless the program went wrong in it.
CallsReturn == pc # "idle" ~> pc = "idle" \/ ~Running
=============================================================================

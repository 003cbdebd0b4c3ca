------------------------------- MODULE PioPins -------------------------------
(***************************************************************************)
(* The pin helpers of hardware_pio/pio.c (lines 185-267).  Each one saves  *)
(* the victim state machine's PINCTRL and EXECCTRL, clears OUT_STICKY,     *)
(* then repeatedly rewrites PINCTRL.SET_BASE/SET_COUNT and forces a SET    *)
(* instruction of at most five data bits, and restores both registers.    *)
(* The victim is assumed idle, as the comment at line 186 asks, so a call  *)
(* is a function of the PIO state: an operator.                            *)
(*                                                                         *)
(* A 32-bit pin value or mask is the set of its 1 bits.  Pins are numbered *)
(* relative to the PIO's GPIO base, modulo 32, as the hardware maps them.  *)
(* PINCTRL and EXECCTRL are kept as integers so that field overflow is     *)
(* what the register does with it.                                         *)
(***************************************************************************)
EXTENDS Integers, FiniteSets, FiniteSetsExt, PicoError

CONSTANTS
    PioStates,     \* start states: [pins, pindirs, pinctrl, execctrl]
    PinValues,     \* pins / pinvals / pindirs arguments, as sets of bits
    PinMasks,      \* pin_mask arguments
    GpioBases,     \* pio_get_gpio_base(pio)
    PinArgs,       \* pin arguments of pio_sm_set_consecutive_pindirs
    PinCounts      \* count arguments

NumPins == 32
SET_BASE_LSB == 5          \* PIO_SM0_PINCTRL_SET_BASE_LSB
SET_COUNT_LSB == 26        \* PIO_SM0_PINCTRL_SET_COUNT_LSB
OUT_STICKY_LSB == 17       \* PIO_SM0_EXECCTRL_OUT_STICKY_LSB

SetBaseOf(pinctrl) == (pinctrl \div 2^SET_BASE_LSB) % 32
SetCountOf(pinctrl) == (pinctrl \div 2^SET_COUNT_LSB) % 8

(* pinctrl = (count << SET_COUNT_LSB) | (base << SET_BASE_LSB); a base of  *)
(* 32 or more spills into SIDESET_BASE, as the register would take it.    *)
SetPinctrl(count, base) == count * 2^SET_COUNT_LSB + base * 2^SET_BASE_LSB

(* hw_clear_bits(&execctrl, 1u << OUT_STICKY_LSB)                         *)
ClearSticky(execctrl) ==
    IF (execctrl \div 2^OUT_STICKY_LSB) % 2 = 1
    THEN execctrl - 2^OUT_STICKY_LSB ELSE execctrl

(* v >> k and v & 0x1f on a value kept as its set of bits; the bit of     *)
(* pin base, (v >> base) & 0x1u, as SET data.                              *)
ShiftDown(v, k) == {i - k : i \in {j \in v : j >= k}}

Low5_Mask4(v) == v \cap 0..3          \* mutant: masked with 0xf
Low5(v) == v \cap 0..4

BitOf_NoShift(v, base) == IF 0 \in v THEN {0} ELSE {}   \* mutant: not shifted
BitOf(v, base) == IF base \in v THEN {0} ELSE {}

(* pin -= pio_get_gpio_base(pio), unsigned: a pin below the base wraps to  *)
(* a value >= 32.                                                          *)
RelPin_NoBase(pin, gpio_base) == pin      \* mutant: the base not subtracted
RelPin(pin, gpio_base) == pin - gpio_base

(* pio_sm_exec of pio_encode_set(dest, data): the pins of the SET window   *)
(* take the data bits, bit i to pin SET_BASE + i.                          *)
ExecSet(s, dest, data) ==
    LET base   == SetBaseOf(s.pinctrl)
        window == {(base + i) % NumPins : i \in 0..SetCountOf(s.pinctrl) - 1}
        high   == {(base + i) % NumPins : i \in data \cap 0..SetCountOf(s.pinctrl) - 1}
    IN  [s EXCEPT ![dest] = (@ \ window) \cup high]

(* The saved PINCTRL and EXECCTRL written back.                            *)
Restore(s, saved) == [s EXCEPT !.pinctrl = saved.pinctrl, !.execctrl = saved.execctrl]

Prepare(s) == [s EXCEPT !.execctrl = ClearSticky(@)]

-----------------------------------------------------------------------------
(* pio_sm_set_pins, lines 189-209: five pins per SET, 32 pins in all.      *)
RECURSIVE SetPinsLoop(_, _, _, _)
SetPinsLoop(s, pins, remaining, base) ==
    IF remaining = 0 THEN s
    ELSE LET decrement == IF remaining > 5 THEN 5 ELSE remaining
             s1 == [s EXCEPT !.pinctrl = SetPinctrl(decrement, base)]
         IN  SetPinsLoop(ExecSet(s1, "pins", Low5(pins)), ShiftDown(pins, 5),
                         remaining - decrement, base + decrement)

pio_sm_set_pins(s, pins) == Restore(SetPinsLoop(Prepare(s), pins, 32, 0), s)

(* pio_sm_set_pins_with_mask and pio_sm_set_pindirs_with_mask, lines      *)
(* 211-245: one SET of one pin per set bit of the mask, lowest first.      *)
RECURSIVE MaskLoop(_, _, _, _)
MaskLoop(s, dest, vals, mask) ==
    IF mask = {} THEN s
    ELSE LET base == Min(mask)            \* __builtin_ctz(pin_mask)
             s1   == [s EXCEPT !.pinctrl = SetPinctrl(1, base)]
         IN  MaskLoop(ExecSet(s1, dest, BitOf(vals, base)),
                      dest, vals, mask \ {base})   \* pin_mask &= pin_mask - 1

pio_sm_set_pins_with_mask(s, pinvals, pin_mask) ==
    Restore(MaskLoop(Prepare(s), "pins", pinvals, pin_mask), s)

pio_sm_set_pindirs_with_mask(s, pindirs, pin_mask) ==
    Restore(MaskLoop(Prepare(s), "pindirs", pindirs, pin_mask), s)

(* pio_sm_set_consecutive_pindirs, lines 247-267: five pins per SET while *)
(* more than five remain, wrapping at 32.                                  *)
RECURSIVE PindirLoop(_, _, _, _)
PindirLoop(s, pin, count, val) ==
    IF count > 5
    THEN PindirLoop(ExecSet([s EXCEPT !.pinctrl = SetPinctrl(5, pin)], "pindirs", val),
                    (pin + 5) % 32, count - 5, val)
    ELSE ExecSet([s EXCEPT !.pinctrl = SetPinctrl(count, pin)], "pindirs", val)

pio_sm_set_consecutive_pindirs(s, gpio_base, pin, count, is_out) ==
    LET rel == RelPin(pin, gpio_base) IN
    IF rel < 0 \/ rel >= 32
    THEN [rc |-> PICO_ERROR_INVALID_ARG, s |-> s]
    ELSE [rc |-> PICO_OK,
          s  |-> Restore(PindirLoop(Prepare(s), rel, count,
                                    IF is_out THEN 0..4 ELSE {}), s)]

-----------------------------------------------------------------------------
(* One call of a helper, with any arguments, on a state machine in any of  *)
(* the start states; the call returns and the state stays.                 *)
VARIABLES
    before,   \* the PIO state when the call started
    pio,      \* the PIO state: [pins, pindirs, pinctrl, execctrl]
    call      \* the call made and its return value, or [op |-> "none"]

pinvars == <<before, pio, call>>

PinsInit ==
    /\ pio \in PioStates
    /\ before = pio
    /\ call = [op |-> "none"]

Idle == call.op = "none"

SetPins ==
    /\ Idle
    /\ \E pins \in PinValues :
          /\ pio' = pio_sm_set_pins(pio, pins)
          /\ call' = [op |-> "set_pins", vals |-> pins]
    /\ UNCHANGED before

SetMasked ==
    /\ Idle
    /\ \E vals \in PinValues, mask \in PinMasks, dest \in {"pins", "pindirs"} :
          /\ pio' = IF dest = "pins" THEN pio_sm_set_pins_with_mask(pio, vals, mask)
                    ELSE pio_sm_set_pindirs_with_mask(pio, vals, mask)
          /\ call' = [op |-> "masked", dest |-> dest, vals |-> vals, mask |-> mask]
    /\ UNCHANGED before

SetConsecutivePindirs ==
    /\ Idle
    /\ \E gb \in GpioBases, pin \in PinArgs, count \in PinCounts, is_out \in BOOLEAN :
          LET r == pio_sm_set_consecutive_pindirs(pio, gb, pin, count, is_out) IN
          /\ pio' = r.s
          /\ call' = [op |-> "consecutive", gb |-> gb, pin |-> pin, count |-> count,
                      is_out |-> is_out, rc |-> r.rc]
    /\ UNCHANGED before

PinsNext == SetPins \/ SetMasked \/ SetConsecutivePindirs

PinsSpec == PinsInit /\ [][PinsNext]_pinvars

-----------------------------------------------------------------------------
(* What each helper promises: the pins (or directions) named take the     *)
(* values given; every other pin and both registers are as before.        *)
MaskedRef(s, dest, vals, mask) == [s EXCEPT ![dest] = (@ \ mask) \cup (vals \cap mask)]

ConsecutiveRef(s, gpio_base, pin, count, is_out) ==
    LET w == {(pin - gpio_base + i) % NumPins : i \in 0..count - 1} IN
    IF pin < gpio_base \/ pin >= gpio_base + NumPins
    THEN [rc |-> PICO_ERROR_INVALID_ARG, s |-> s]
    ELSE [rc |-> PICO_OK, s |-> [s EXCEPT !.pindirs = IF is_out THEN @ \cup w ELSE @ \ w]]

(* pio_sm_set_pins leaves every one of the 32 pins at its bit of pins,    *)
(* although 32 is no multiple of the five bits a SET carries, and puts     *)
(* PINCTRL and EXECCTRL back.                                              *)
SetPinsExact ==
    call.op = "set_pins" => pio = [before EXCEPT !.pins = call.vals]

(* pio_sm_set_pins_with_mask and pio_sm_set_pindirs_with_mask change      *)
(* exactly the pins of the mask, each to its own bit of the value.         *)
MaskedSetExact ==
    call.op = "masked" => pio = MaskedRef(before, call.dest, call.vals, call.mask)

(* pio_sm_set_consecutive_pindirs sets the direction of count pins from   *)
(* pin on, wrapping within the PIO's 32-pin window above its GPIO base,    *)
(* and refuses a pin outside that window without touching anything.       *)
ConsecutivePindirsExact ==
    call.op = "consecutive" =>
        [rc |-> call.rc, s |-> pio]
            = ConsecutiveRef(before, call.gb, call.pin, call.count, call.is_out)
=============================================================================

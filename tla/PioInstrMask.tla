---------------------------- MODULE PioInstrMask ----------------------------
(***************************************************************************)
(* The word arithmetic of the PIO instruction-memory allocator             *)
(* (hardware_pio/pio.c lines 64-80, 109-120, 137-158) at the chip's full   *)
(* width: _used_instruction_space[pio] is a 32-bit word, kept as the set   *)
(* of its 1 bits, and a program's mask is (1u << length) - 1 shifted left  *)
(* by its offset, bits past 31 lost.                                       *)
(*                                                                         *)
(* For a 32-instruction program 1u << 32 is undefined.  The RP2350 builds  *)
(* for either core: Arm's LSL by a register amount of 32 gives 0, so the   *)
(* mask is all ones; RISC-V's SLL uses the amount modulo 32, so 1u << 32   *)
(* is 1 and the mask is 0.  Build selects which.                           *)
(***************************************************************************)
EXTENDS Integers, FiniteSets, FiniteSetsExt, PicoError

CONSTANTS
    Build,      \* "arm" or "riscv": the core the SDK is compiled for
    UsedMasks,  \* start values of _used_instruction_space[pio]
    MaskProgs,  \* pio_program_t descriptors: [length, origin]
    MaskOffsets \* offsets callers pass to pio_add_program_at_offset

ASSUME Build \in {"arm", "riscv"}

Word == 0..31

(* (1u << length) - 1 *)
LowMask(length) ==
    IF length < 32 THEN 0..length - 1
    ELSE IF Build = "arm" THEN Word ELSE {}

(* program_mask << offset, as a 32-bit word *)
Shl(m, k) == {b + k : b \in m} \cap Word

(* The first offset tried by the downward scan of line 73.                *)
FindTop_Off(length) == 31 - length      \* mutant: one below the top
FindTop(length) == 32 - length

(* for (int i = 32 - length; i >= 0; i--): the first free placement.       *)
RECURSIVE FindDown(_, _, _)
FindDown(used, pm, i) ==
    IF i < 0 THEN PICO_ERROR_INSUFFICIENT_RESOURCES
    ELSE IF used \cap Shl(pm, i) = {} THEN i
    ELSE FindDown(used, pm, i - 1)

(* find_offset_for_program: a fixed origin is tried alone and fails with   *)
(* -1; otherwise the scan from the top.                                    *)
find_offset_for_program(used, prog) ==
    LET pm == LowMask(prog.length) IN
    IF prog.origin >= 0
    THEN IF prog.origin > 32 - prog.length THEN -1
         ELSE IF used \cap Shl(pm, prog.origin) # {} THEN -1 ELSE prog.origin
    ELSE FindDown(used, pm, FindTop(prog.length))

(* The origin and overlap tests of add_program_at_offset_check; the        *)
(* version and GPIO tests are in PioProgramSpace.                          *)
add_program_at_offset_check(used, prog, offset) ==
    IF prog.origin >= 0 /\ prog.origin # offset THEN PICO_ERROR_BAD_ALIGNMENT
    ELSE IF used \cap Shl(LowMask(prog.length), offset) # {}
         THEN PICO_ERROR_INSUFFICIENT_RESOURCES
    ELSE PICO_OK

(* add_program_at_offset: the check, then the mask update of line 145;     *)
(* the result is the return value and the new word.                        *)
add_program_at_offset(used, prog, offset) ==
    LET rc == add_program_at_offset_check(used, prog, offset) IN
    IF rc # PICO_OK THEN [rc |-> rc, used |-> used]
    ELSE [rc |-> offset, used |-> used \cup Shl(LowMask(prog.length), offset)]

pio_add_program(used, prog) ==
    LET offset == find_offset_for_program(used, prog) IN
    IF offset >= 0 THEN add_program_at_offset(used, prog, offset)
    ELSE [rc |-> offset, used |-> used]

-----------------------------------------------------------------------------
(* One call, under the claim lock, on a PIO whose word is any start value. *)
VARIABLES
    wbefore,  \* the word when the call began
    used,     \* _used_instruction_space[pio]
    wcall     \* the call made and its result, or [op |-> "none"]

maskvars == <<wbefore, used, wcall>>

MaskInit ==
    /\ used \in UsedMasks
    /\ wbefore = used
    /\ wcall = [op |-> "none"]

AddProgram ==
    /\ wcall.op = "none"
    /\ \E prog \in MaskProgs :
          LET r == pio_add_program(used, prog) IN
          /\ used' = r.used
          /\ wcall' = [op |-> "add", prog |-> prog, rc |-> r.rc]
    /\ UNCHANGED wbefore

AddProgramAtOffset ==
    /\ wcall.op = "none"
    /\ \E prog \in MaskProgs, offset \in MaskOffsets :
          \* the documented range, which valid_params_if (lines 110-111)
          \* asserts only when parameter assertions are compiled in
          /\ offset + prog.length <= 32
          /\ LET r == add_program_at_offset(used, prog, offset)
             IN /\ used' = r.used
                /\ wcall' = [op |-> "add_at", prog |-> prog, offset |-> offset, rc |-> r.rc]
    /\ UNCHANGED wbefore

(* pio_can_add_program and pio_can_add_program_at_offset, lines 122-135:   *)
(* the same search and check under the lock, the word left alone.          *)
CanAddProgram ==
    /\ wcall.op = "none"
    /\ \E prog \in MaskProgs, at \in {-1} \cup MaskOffsets :
          LET found == IF at < 0 THEN find_offset_for_program(used, prog) ELSE at
              rc    == IF found >= 0 THEN add_program_at_offset_check(used, prog, found)
                       ELSE found
          IN  /\ at >= 0 => at + prog.length <= 32
              /\ wcall' = [op |-> "can_add", prog |-> prog, at |-> at, ok |-> rc = 0]
    /\ UNCHANGED <<used, wbefore>>

MaskNext == AddProgram \/ AddProgramAtOffset \/ CanAddProgram

-----------------------------------------------------------------------------
(* The placement the spec describes (section 3, findPlacement): the slots  *)
(* a program at offset occupies, and the best free offset for it.          *)
Window(length, offset) == {offset + i : i \in 0..length - 1}

Fits(w, prog, offset) ==
    Window(prog.length, offset) \subseteq Word /\ w \cap Window(prog.length, offset) = {}

BestOffset(w, prog) ==
    LET free == {i \in Word : Fits(w, prog, i)} IN
    IF prog.origin >= 0 THEN IF Fits(w, prog, prog.origin) THEN prog.origin ELSE -1
    ELSE IF free = {} THEN PICO_ERROR_INSUFFICIENT_RESOURCES ELSE Max(free)

(* An add returns an offset only where the whole program fits in the 32    *)
(* slots and none of them was in use, and marks exactly those slots; a     *)
(* failed add leaves the word alone; pio_add_program returns the highest   *)
(* free offset, or the origin when it is free, or fails when neither       *)
(* exists.  A mask that is wrong at the top of the word or for a full-     *)
(* length program loads one program over another.  pio_can_add_program    *)
(* and pio_can_add_program_at_offset answer yes exactly when that add      *)
(* would succeed, and change nothing.                                      *)
AddPlacesFree ==
    /\ wcall.op \in {"add", "add_at"} =>
          IF wcall.rc >= 0
          THEN /\ Fits(wbefore, wcall.prog, wcall.rc)
               /\ used = wbefore \cup Window(wcall.prog.length, wcall.rc)
          ELSE used = wbefore
    /\ wcall.op = "add" => wcall.rc = BestOffset(wbefore, wcall.prog)
    /\ wcall.op = "can_add" =>
          /\ used = wbefore
          /\ wcall.ok = IF wcall.at < 0 THEN BestOffset(wbefore, wcall.prog) >= 0
                        ELSE /\ Fits(wbefore, wcall.prog, wcall.at)
                             /\ wcall.prog.origin \in {-1, wcall.at}
=============================================================================

-------------------------- MODULE PioProgramSpace --------------------------
(***************************************************************************)
(* The PIO instruction-memory allocator of hardware_pio/pio.c.             *)
(*                                                                         *)
(* Each PIO block has InstrCount instruction slots (32 on the chip) and a  *)
(* software occupancy mask _used_instruction_space[pio], modelled as the   *)
(* set of occupied slots.  Every operation runs inside the global claim    *)
(* spin lock (hw_claim_lock / hw_claim_unlock), which disables interrupts  *)
(* and is not re-entrant: an operation is one atomic step that needs the   *)
(* lock free, and leaves it free again unless the code returns without     *)
(* unlocking.  The callers' own bookkeeping (the offsets pio_add_program   *)
(* returned to them) is the ghost variable handles.                        *)
(***************************************************************************)
EXTENDS Integers, Sequences, FiniteSets, FiniteSetsExt

CONSTANTS
    Pios,             \* PIO block indices
    Cores,            \* processor cores that call into the allocator
    NoCore,           \* lock holder when the claim lock is free
    InstrCount,       \* PIO_INSTRUCTION_COUNT (32 on silicon)
    Programs,         \* names of the pio_program_t descriptors callers load
    Prog,             \* Prog[n]: [instrs, origin, used_gpio_ranges, pio_version]
    GpioBases,        \* gpio_base values callers pass to pio_set_gpio_base
    PICO_PIO_VERSION, \* 0 on RP2040, 1 on RP2350
    ParamAssertions,  \* PARAM_ASSERTIONS_ENABLED(PIO): valid_params_if active
    AtOffsetInputs(_), \* AtOffsetInputs(n): offsets callers pass for program n
    AssertsEnabled    \* assert() compiled in (NDEBUG not defined)

ASSUME InstrCount \in {2^k : k \in 1..5}
ASSUME NoCore \notin Cores
ASSUME PICO_PIO_VERSION \in {0, 1}
ASSUME ParamAssertions \in BOOLEAN /\ AssertsEnabled \in BOOLEAN

VARIABLES
    used,       \* used[p]: _used_instruction_space[p] as a set of slots
    instr_mem,  \* instr_mem[p][s]: the 16-bit word in instruction slot s
    gpiobase,   \* gpiobase[p]: the PIO's GPIOBASE register (0 or 16)
    lock,       \* core holding the claim spin lock, or NoCore
    clobbered,  \* a write went past instr_mem into the following registers
    panicked,   \* an assert fired: the system has halted
    handles     \* loaded programs as the callers recorded them

vars == <<used, instr_mem, gpiobase, lock, clobbered, panicked, handles>>

Slots == 0..InstrCount-1

(* pico/error.h *)
PICO_OK == 0
PICO_ERROR_TIMEOUT == -1
PICO_ERROR_INSUFFICIENT_RESOURCES == -9
PICO_ERROR_BAD_ALIGNMENT == -11
PICO_ERROR_INVALID_STATE == -12
PICO_ERROR_VERSION_MISMATCH == -20

(***************************************************************************)
(* Instruction encoding (pio_instructions.h): the major opcode is in bits  *)
(* 15:13 and is 0 for JMP; a JMP keeps its condition above the address    *)
(* field, whose width is log2(InstrCount).                                 *)
(***************************************************************************)
JmpMajor == 0
MajorBits(instr) == instr \div 8192
pio_encode_jmp(addr) == addr
JmpAddr(instr) == instr % InstrCount
JmpCond(instr) == (instr \div InstrCount) % 8

(* add_program_at_offset: a JMP is relocated by adding the load offset to  *)
(* the whole instruction word, which the 16-bit slot then truncates.       *)
Relocate(instr, offset) ==
    IF MajorBits(instr) = JmpMajor THEN (instr + offset) % 65536 ELSE instr

Length(n) == Len(Prog[n].instrs)

(* (1u << length) - 1, shifted left by offset: bits past bit 31 are lost.  *)
ProgramMask(n, offset) == {offset + i : i \in 0..Length(n)-1} \cap Slots

(***************************************************************************)
(* find_offset_for_program: a fixed origin is tried alone; otherwise the   *)
(* highest offset whose range is free, working down from the top.          *)
(***************************************************************************)
find_offset_for_program(p, n) ==
    LET origin == Prog[n].origin
        free   == {i \in 0..(InstrCount - Length(n)) :
                       used[p] \cap ProgramMask(n, i) = {}}
    IN  IF origin >= 0
        THEN IF origin > InstrCount - Length(n) THEN PICO_ERROR_TIMEOUT
             ELSE IF used[p] \cap ProgramMask(n, origin) # {}
                  THEN PICO_ERROR_TIMEOUT ELSE origin
        ELSE IF free = {} THEN PICO_ERROR_INSUFFICIENT_RESOURCES ELSE Max(free)

(* pio_get_gpio_base(pio) is non-zero; bit 0 of used_gpio_ranges means the *)
(* program uses GPIOs 0..15 and bit 2 GPIOs 32..47.                        *)
is_gpio_compatible(base, n) ==
    \/ PICO_PIO_VERSION = 0
    \/ LET r == Prog[n].used_gpio_ranges
       IN  ~((base # 0 /\ r % 2 = 1) \/ (base = 0 /\ (r \div 4) % 2 = 1))

(* valid_params_if(PIO, ...) only asserts when parameter assertions are on *)
ParamsInvalid(n, offset) ==
    ~(offset < InstrCount /\ offset + Length(n) <= InstrCount)

(* Mutant: the check without the test against the used-instruction mask. *)
add_program_at_offset_check_NoOverlap(p, n, offset) ==
    IF PICO_PIO_VERSION = 0 /\ Prog[n].pio_version # 0
        THEN PICO_ERROR_VERSION_MISMATCH
    ELSE IF ~is_gpio_compatible(gpiobase[p], n) THEN PICO_ERROR_BAD_ALIGNMENT
    ELSE IF Prog[n].origin >= 0 /\ Prog[n].origin # offset
        THEN PICO_ERROR_BAD_ALIGNMENT
    ELSE PICO_OK

add_program_at_offset_check(p, n, offset) ==
    IF PICO_PIO_VERSION = 0 /\ Prog[n].pio_version # 0
        THEN PICO_ERROR_VERSION_MISMATCH
    ELSE IF ~is_gpio_compatible(gpiobase[p], n) THEN PICO_ERROR_BAD_ALIGNMENT
    ELSE IF Prog[n].origin >= 0 /\ Prog[n].origin # offset
        THEN PICO_ERROR_BAD_ALIGNMENT
    ELSE IF used[p] \cap ProgramMask(n, offset) # {}
        THEN PICO_ERROR_INSUFFICIENT_RESOURCES
    ELSE PICO_OK

(* The copy loop of add_program_at_offset and the mask update after it.    *)
LoadAt(p, n, offset) ==
    /\ instr_mem' = [instr_mem EXCEPT ![p] =
          [s \in Slots |-> IF s - offset \in 0..Length(n)-1
                           THEN Relocate(Prog[n].instrs[s - offset + 1], offset)
                           ELSE @[s]]]
    /\ used' = [used EXCEPT ![p] = @ \cup ProgramMask(n, offset)]
    /\ clobbered' = (clobbered \/ offset + Length(n) > InstrCount)
    /\ handles' = handles \cup {[pio |-> p, prog |-> n, offset |-> offset]}

Free(c) == lock = NoCore /\ ~panicked

(***************************************************************************)
(* pio_add_program: find a placement and load there, all under the lock.   *)
(***************************************************************************)
pio_add_program(c, p, n) ==
    LET offset == find_offset_for_program(p, n) IN
    /\ Free(c)
    /\ offset >= 0
    /\ add_program_at_offset_check(p, n, offset) = PICO_OK
    /\ LoadAt(p, n, offset)
    /\ UNCHANGED <<gpiobase, lock, panicked>>

(* pio_add_program_at_offset, whose parameter check asserts when enabled.  *)
pio_add_program_at_offset(c, p, n, offset) ==
    /\ Free(c)
    /\ IF AssertsEnabled /\ ParamAssertions /\ ParamsInvalid(n, offset)
       THEN /\ panicked' = TRUE
            /\ UNCHANGED <<used, instr_mem, gpiobase, lock, clobbered, handles>>
       ELSE /\ add_program_at_offset_check(p, n, offset) = PICO_OK
            /\ LoadAt(p, n, offset)
            /\ UNCHANGED <<gpiobase, lock, panicked>>

(***************************************************************************)
(* pio_remove_program(pio, program, loaded_offset): asserts that every bit *)
(* of the program's mask is set, then clears them.  The caller passes the  *)
(* offset it was given; h is that record.                                  *)
(***************************************************************************)
pio_remove_program(c, h) ==
    LET mask == ProgramMask(h.prog, h.offset) IN
    /\ Free(c)
    /\ IF AssertsEnabled /\ ~(mask \subseteq used[h.pio])
       THEN /\ panicked' = TRUE
            /\ UNCHANGED <<used, instr_mem, gpiobase, lock, clobbered, handles>>
       ELSE /\ used' = [used EXCEPT ![h.pio] = @ \ mask]
            /\ handles' = handles \ {h}
            /\ UNCHANGED <<instr_mem, gpiobase, lock, clobbered, panicked>>

(* pio_clear_instruction_memory: empty mask, every slot a JMP to itself.   *)
(* The caller drops every offset it held for that PIO.                     *)
pio_clear_instruction_memory(c, p) ==
    /\ Free(c)
    /\ used' = [used EXCEPT ![p] = {}]
    /\ instr_mem' = [instr_mem EXCEPT ![p] = [s \in Slots |-> pio_encode_jmp(s)]]
    /\ handles' = {h \in handles : h.pio # p}
    /\ UNCHANGED <<gpiobase, lock, clobbered, panicked>>

(***************************************************************************)
(* pio_set_gpio_base: a bad base returns before locking; with programs     *)
(* loaded it returns PICO_ERROR_INVALID_STATE from inside the locked       *)
(* region, without hw_claim_unlock, so the lock stays with core c.         *)
(***************************************************************************)
(* Mutants: no check for loaded programs; no validation of the base.      *)
pio_set_gpio_base_NoUsedCheck(c, p, base) ==
    /\ Free(c)
    /\ base = 0 \/ (PICO_PIO_VERSION # 0 /\ base = 16)
    /\ PICO_PIO_VERSION # 0
    /\ gpiobase' = [gpiobase EXCEPT ![p] = base]
    /\ UNCHANGED <<used, instr_mem, lock, clobbered, panicked, handles>>

pio_set_gpio_base_NoBaseCheck(c, p, base) ==
    /\ Free(c)
    /\ PICO_PIO_VERSION # 0
    /\ IF used[p] # {}
       THEN /\ lock' = c
            /\ UNCHANGED <<used, instr_mem, gpiobase, clobbered, panicked, handles>>
       ELSE /\ gpiobase' = [gpiobase EXCEPT ![p] = base]
            /\ UNCHANGED <<used, instr_mem, lock, clobbered, panicked, handles>>

pio_set_gpio_base(c, p, base) ==
    /\ Free(c)
    /\ base = 0 \/ (PICO_PIO_VERSION # 0 /\ base = 16)
    /\ PICO_PIO_VERSION # 0
    /\ IF used[p] # {}
       THEN /\ lock' = c
            /\ UNCHANGED <<used, instr_mem, gpiobase, clobbered, panicked, handles>>
       ELSE /\ gpiobase' = [gpiobase EXCEPT ![p] = base]
            /\ UNCHANGED <<used, instr_mem, lock, clobbered, panicked, handles>>

Init ==
    /\ used = [p \in Pios |-> {}]
    /\ instr_mem = [p \in Pios |-> [s \in Slots |-> 0]]
    /\ gpiobase = [p \in Pios |-> 0]
    /\ lock = NoCore
    /\ clobbered = FALSE
    /\ panicked = FALSE
    /\ handles = {}

(* RemoveInputs: the offsets callers hand back to pio_remove_program.      *)
NextWith(RemoveInputs) ==
    \E c \in Cores :
        \/ \E p \in Pios, n \in Programs : pio_add_program(c, p, n)
        \/ \E p \in Pios, n \in Programs :
              \E off \in AtOffsetInputs(n) : pio_add_program_at_offset(c, p, n, off)
        \/ \E h \in RemoveInputs : pio_remove_program(c, h)
        \/ \E p \in Pios : pio_clear_instruction_memory(c, p)
        \/ \E p \in Pios, b \in GpioBases : pio_set_gpio_base(c, p, b)

Next == NextWith(handles)

Spec == Init /\ [][Next]_vars

-----------------------------------------------------------------------------
TypeOK ==
    /\ used \in [Pios -> SUBSET Slots]
    /\ instr_mem \in [Pios -> [Slots -> 0..65535]]
    /\ gpiobase \in [Pios -> {0, 16}]
    /\ lock \in Cores \cup {NoCore}
    /\ clobbered \in BOOLEAN
    /\ panicked \in BOOLEAN
    /\ handles \subseteq [pio : Pios, prog : Programs, offset : Slots]


(***************************************************************************)
(* Every program a caller holds an offset for is still in instruction      *)
(* memory as pio_add_program put it there: its slots are marked used, each *)
(* JMP jumps to the same instruction of the same program with the same     *)
(* condition, and every other instruction is unchanged.  It breaks if a    *)
(* later add, remove or clear disturbs a program its owner still uses.     *)
(***************************************************************************)
SlotIntact(h, i) ==
    LET s    == h.offset + i
        orig == Prog[h.prog].instrs[i + 1]
    IN  /\ s \in used[h.pio]
        /\ IF MajorBits(orig) = JmpMajor
           THEN /\ MajorBits(instr_mem[h.pio][s]) = JmpMajor
                /\ JmpCond(instr_mem[h.pio][s]) = JmpCond(orig)
                /\ JmpAddr(instr_mem[h.pio][s]) = h.offset + JmpAddr(orig)
           ELSE instr_mem[h.pio][s] = orig

ProgramsIntact ==
    \A h \in handles : \A i \in 0..Length(h.prog)-1 : SlotIntact(h, i)

(***************************************************************************)
(* Every loaded program can use the GPIO window its PIO is set to: a       *)
(* pio_set_gpio_base never moves the window under a loaded program, and no *)
(* add places a program that needs the other window.                       *)
(***************************************************************************)
GpioCompatible ==
    \A h \in handles : is_gpio_compatible(gpiobase[h.pio], h.prog)

(* No operation returns with the claim spin lock still held.               *)
ClaimLockReleased == lock = NoCore

=============================================================================

---------------------------- MODULE RuntimeInit ----------------------------
(***************************************************************************)
(* The part of runtime_init (pico_runtime/runtime.c lines 191-264) that    *)
(* runs once clocks_init has returned and every block is out of reset:    *)
(* input enable cleared on pads 26-29, the static mutexes initialised by   *)
(* walking the linker's __mutex_array, the RAM vector table filled and     *)
(* VTOR moved to it, the check that the core is not in an exception, and   *)
(* the calls that follow.  Core 1 is not running: runtime_init is one     *)
(* step.  The reset and clock part is in ClockConfigure, the stack guard   *)
(* in StackGuard.                                                          *)
(*                                                                         *)
(* __mutex_array holds mutex_t and recursive_mutex_t objects, each         *)
(* starting with lock_core_t.spin_lock: 0 for a mutex, 1 for a recursive   *)
(* mutex, as auto_init_mutex and auto_init_recursive_mutex place them.     *)
(***************************************************************************)
EXTENDS Integers, Sequences, SequencesExt

CONSTANTS
    StoredVectorTable, \* !PICO_NO_STORED_VECTOR_TABLE
    VTABLE_FIRST_IRQ,  \* the first IRQ entry of the vector table
    NUM_IRQS,
    FlashVector,       \* the table VTOR points at when runtime_init starts
    UNHANDLED,         \* (uintptr_t)__unhandled_user_irq
    RamGarbage,        \* what the NOLOAD .ram_vector_table section may hold
    PadsIeAtReset,     \* the GPIO pads with IE set as BANK0 leaves reset
    MutexArrays,       \* the kinds in __mutex_array, in link order
    Layouts            \* [mutex, recursive]: sizeof of each, in bytes

PICO_RAM_VECTOR_TABLE_SIZE == VTABLE_FIRST_IRQ + NUM_IRQS
Entries == 0..PICO_RAM_VECTOR_TABLE_SIZE - 1

(* The words of __mutex_array, as the static initialisers leave them: the  *)
(* spin_lock marker, then owner = LOCK_INVALID_OWNER_ID (-1), then 0       *)
(* (enter_count and padding).                                              *)
SizeOf(kind, lay) == IF kind = "recursive" THEN lay.recursive ELSE lay.mutex
Offset(arr, lay, i) ==
    FoldLeft(LAMBDA acc, k : acc + SizeOf(k, lay), 0, SubSeq(arr, 1, i - 1))
ArrayBytes(arr, lay) == Offset(arr, lay, Len(arr) + 1)
MutexMemory(arr, lay) ==
    [a \in {4 * w : w \in 0..ArrayBytes(arr, lay) \div 4 - 1} |->
        LET i == CHOOSE j \in 1..Len(arr) :
                    Offset(arr, lay, j) <= a /\ a < Offset(arr, lay, j + 1)
        IN  CASE a = Offset(arr, lay, i) -> IF arr[i] = "recursive" THEN 1 ELSE 0
              [] a = Offset(arr, lay, i) + 4 -> -1
              [] OTHER -> 0]

(* l = &rm[1].core or &m[1].core: the next object after one of this kind.  *)
NextObject_Swapped(l, kind, lay) ==                  \* mutant: the other size
    l + SizeOf(IF kind = "recursive" THEN "mutex" ELSE "recursive", lay)
NextObject(l, kind, lay) == l + SizeOf(kind, lay)

(* for (l = &__mutex_array_start; l < &__mutex_array_end; ): a nonzero     *)
(* spin_lock must be 1 (the assert of line 211) and is a recursive mutex.  *)
(* The result is the init calls made, in order, and how the walk ended.   *)
RECURSIVE MutexWalk(_, _, _, _, _)
MutexWalk(mem, end, lay, l, done) ==
    IF l >= end THEN [inits |-> done, rc |-> "ok"]
    ELSE IF mem[l] = 0
    THEN MutexWalk(mem, end, lay, NextObject(l, "mutex", lay),
                   Append(done, [at |-> l, kind |-> "mutex"]))
    ELSE IF mem[l] = 1
    THEN MutexWalk(mem, end, lay, NextObject(l, "recursive", lay),
                   Append(done, [at |-> l, kind |-> "recursive"]))
    ELSE [inits |-> done, rc |-> "assert"]

(* sizeof(ram_vector_table), in bytes                                     *)
VectorBytes_Entries == PICO_RAM_VECTOR_TABLE_SIZE     \* mutant: count_of
VectorBytes == 4 * PICO_RAM_VECTOR_TABLE_SIZE

(* __builtin_memcpy(ram_vector_table, vtor, n) copies n bytes: n \div 4    *)
(* words.  Without a stored table n is MIN(VTABLE_FIRST_IRQ, sizeof) and   *)
(* the IRQ entries are set to __unhandled_user_irq.                        *)
CopyBytes ==
    IF StoredVectorTable THEN VectorBytes
    ELSE IF VTABLE_FIRST_IRQ < VectorBytes THEN VTABLE_FIRST_IRQ ELSE VectorBytes

FillVectors(ram) ==
    [i \in Entries |->
        CASE i < CopyBytes \div 4                      -> FlashVector[i]
          [] ~StoredVectorTable /\ i >= VTABLE_FIRST_IRQ -> UNHANDLED
          [] OTHER                                       -> ram[i]]

-----------------------------------------------------------------------------
VARIABLES
    pads_ie,   \* the GPIOs whose pad has IE set
    mutexes,   \* [layout, array, mem]: __mutex_array as linked
    vectors,   \* ram_vector_table
    vtor,      \* "flash" or "ram": the table SCB->VTOR points at
    icall      \* [op |-> "none"], or the call and its outcome

initvars == <<pads_ie, mutexes, vectors, vtor, icall>>

InitInit ==
    /\ pads_ie = PadsIeAtReset
    /\ mutexes \in {[layout |-> lay, array |-> arr, mem |-> MutexMemory(arr, lay)] :
                      lay \in Layouts, arr \in MutexArrays}
    /\ vectors \in [Entries -> RamGarbage]
    /\ vtor = "flash"
    /\ icall = [op |-> "none"]

(* runtime_init from line 191, with the core in thread mode or in an       *)
(* exception (a debugger that started it from a handler); in the latter    *)
(* the debug build stops at __breakpoint() after the vector table is set.  *)
runtime_init ==
    /\ icall.op = "none"
    /\ \E in_exception \in BOOLEAN :
          LET walk == MutexWalk(mutexes.mem, ArrayBytes(mutexes.array, mutexes.layout),
                                mutexes.layout, 0, <<>>)
          IN  /\ pads_ie' = pads_ie \ 26..29
              /\ vectors' = IF walk.rc = "ok" THEN FillVectors(vectors) ELSE vectors
              /\ vtor' = IF walk.rc = "ok" THEN "ram" ELSE vtor
              /\ icall' = [op |-> "init", inits |-> walk.inits,
                           rc |-> CASE walk.rc # "ok" -> walk.rc
                                    [] in_exception  -> "breakpoint"
                                    [] OTHER         -> "returned"]
    /\ UNCHANGED mutexes

-----------------------------------------------------------------------------
(* Every mutex and recursive mutex the linker put in __mutex_array is      *)
(* initialised once, as its own kind, in link order, and the walk stops    *)
(* at the end of the array, with either owner-id width: a step by the      *)
(* wrong object size reads an owner field as a spin_lock and initialises   *)
(* memory that is no mutex, or skips one.                                  *)
MutexesInitialised ==
    icall.op = "init" =>
        /\ icall.rc # "assert"
        /\ icall.inits = [i \in 1..Len(mutexes.array) |->
                            [at |-> Offset(mutexes.array, mutexes.layout, i),
                             kind |-> mutexes.array[i]]]

(* Once runtime_init has moved VTOR to the RAM table, every entry of it is *)
(* a vector: the sixteen system vectors are the ones VTOR pointed at, and  *)
(* each IRQ vector is the stored one, or __unhandled_user_irq when there   *)
(* is no stored table.  An entry left as RAM garbage sends that exception  *)
(* to a random address.                                                    *)
VectorTableComplete ==
    vtor = "ram" =>
        \A i \in Entries :
            vectors[i] = IF i < VTABLE_FIRST_IRQ \/ StoredVectorTable
                         THEN FlashVector[i] ELSE UNHANDLED
=============================================================================

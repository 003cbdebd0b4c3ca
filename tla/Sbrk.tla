-------------------------------- MODULE Sbrk --------------------------------
(***************************************************************************)
(* The heap break of pico_runtime/runtime.c: _sbrk, which newlib's malloc  *)
(* calls under its own lock to grow the heap by incr bytes (or to give     *)
(* bytes back, with a negative incr).  heap_end starts null and is set to  *)
(* the linker's end on the first call; the heap may not pass the stack's  *)
(* lower limit __StackLimit.  Addresses are small integers.                *)
(***************************************************************************)
EXTENDS Integers

CONSTANTS
    Null,        \* the null pointer
    End,         \* &end: the first address after .bss
    StackLimit,  \* &__StackLimit
    Incrs,       \* the increments malloc passes
    Optimistic   \* PICO_USE_OPTIMISTIC_SBRK

\* (char *) -1
Fail == -1

VARIABLES
    heap_end,    \* the static heap_end
    last         \* ghost: the last call, [incr, ret]

sbrkvars == <<heap_end, last>>

(* Mutant: heap_end never set to &end.                                     *)
_sbrk_NoInit(incr) ==
    LET he   == heap_end
        next == he + incr
    IN  IF next > StackLimit
        THEN heap_end' = he /\ last' = [incr |-> incr, ret |-> Fail]
        ELSE heap_end' = next /\ last' = [incr |-> incr, ret |-> he]

(* Mutant: the old break compared with the limit instead of the new one.   *)
_sbrk_OldBreak(incr) ==
    LET he   == IF heap_end = Null THEN End ELSE heap_end
        next == he + incr
    IN  IF he > StackLimit
        THEN heap_end' = he /\ last' = [incr |-> incr, ret |-> Fail]
        ELSE heap_end' = next /\ last' = [incr |-> incr, ret |-> he]

(***************************************************************************)
(* _sbrk, lines 278-303.  The first call sets heap_end to &end, even when  *)
(* it then fails.  Past the limit the call fails, or, optimistic, grants   *)
(* what is left up to the limit unless nothing is.                         *)
(***************************************************************************)
_sbrk(incr) ==
    LET he   == IF heap_end = Null THEN End ELSE heap_end
        next == he + incr
    IN  CASE next <= StackLimit ->
               heap_end' = next /\ last' = [incr |-> incr, ret |-> he]
          [] Optimistic /\ he # StackLimit ->
               heap_end' = StackLimit /\ last' = [incr |-> incr, ret |-> he]
          [] OTHER ->
               heap_end' = he /\ last' = [incr |-> incr, ret |-> Fail]

(* malloc gives back only bytes it obtained: the break never drops below   *)
(* &end through a negative incr.                                           *)
MallocMay(incr) ==
    (IF heap_end = Null THEN End ELSE heap_end) + incr >= End

SbrkInit == heap_end = Null /\ last = [incr |-> 0, ret |-> Null]

SbrkNext == \E incr \in Incrs : MallocMay(incr) /\ _sbrk(incr)

-----------------------------------------------------------------------------
(***************************************************************************)
(* The break is null before the first call and then stays between &end and *)
(* the stack limit, whatever sequence of calls malloc makes.               *)
(***************************************************************************)
SbrkTypeOK ==
    /\ heap_end \in {Null} \cup End..StackLimit
    /\ last.incr \in Incrs \cup {0}

(***************************************************************************)
(* A call that does not fail returns the start of a block of incr bytes    *)
(* that ends at or below the stack limit: malloc never receives memory     *)
(* that overlaps the stack.                                                *)
(***************************************************************************)
GrantedFits ==
    [][last' # last /\ last'.ret # Fail => last'.ret + last'.incr <= StackLimit]_sbrkvars
=============================================================================

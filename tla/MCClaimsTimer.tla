---------------------------- MODULE MCClaimsTimer ---------------------------
(***************************************************************************)
(* The two pieces of shared hardware state that two cores reach without    *)
(* the other modules: the PIO state-machine claim bitmap (PioSmClaim) and *)
(* the powman timer and alarm (PowmanTimer), checked in one run.  They     *)
(* share no variable and no code path, so a behaviour exercises one of     *)
(* them, chosen by mode at the start, while the other keeps its initial    *)
(* state: the states are the two models' states side by side, not their   *)
(* product.                                                                *)
(*                                                                         *)
(* Claims: two cores, two PIOs of two state machines each (four on the    *)
(* chip), enough for a mask claim that meets the other core at its first  *)
(* or last bit and for index arithmetic that crosses from one PIO to the  *)
(* next.  Timer: one-bit SET_TIME parts, a 4-bit count read as two 2-bit   *)
(* halves, so a carry from LOWER into UPPER happens every four ticks.      *)
(***************************************************************************)
EXTENDS TLC

CONSTANTS
    Cores, NUM_PIOS, NUM_PIO_STATE_MACHINES, SmMasks,
    PartBits, SetValues, MaxTicksPerRead, AlarmValues, Concurrent

VARIABLES
    claimed, mask_pc, held, panicked,
    time, running, spc, was_running, setval, set_old, rpc, raw, ticks, seen,
    alarm, alarm_enab, fired, apc, alarmval, armed,
    mode   \* "claims" or "timer": the component this behaviour exercises

Claims == INSTANCE PioSmClaim
Timer == INSTANCE PowmanTimer

claimvars == <<claimed, mask_pc, held, panicked>>
timervars == <<time, running, spc, was_running, setval, set_old, rpc, raw, ticks, seen,
               alarm, alarm_enab, fired, apc, alarmval, armed>>

\* a mask of both state machines, as drivers claim them in pairs
MCSmMasks == {3}

\* set values whose halves both differ from each other and from a zero
\* count; alarm time 5 lies between 4 and 9 on the way powman_timer_set
\* writes the parts, and 6 is also a set value
MCSetValues == {6, 9}
MCAlarmValues == {5, 6}

\* the two cores run the same code, and the timer does not name them
CoreSymmetry == Permutations(Cores)

(* In a claims behaviour the timer stays in one of its initial states.      *)
Init ==
    /\ Claims!Init
    /\ Timer!Init
    /\ \/ mode = "timer"
       \/ mode = "claims" /\ time = 0 /\ ~running

Next ==
    \/ mode = "claims" /\ Claims!Next /\ UNCHANGED <<timervars, mode>>
    \/ mode = "timer" /\ Timer!Next /\ UNCHANGED <<claimvars, mode>>

allvars == <<claimvars, timervars, mode>>

Spec == Init /\ [][Next]_allvars

-----------------------------------------------------------------------------
(* The type invariants of both models.                                     *)
TypeOK == Claims!TypeOK /\ Timer!TypeOK /\ mode \in {"claims", "timer"}

(* pio_sm_claim, pio_claim_sm_mask, pio_claim_unused_sm and pio_sm_unclaim *)
(* keep the claimed[] bitmap equal to what callers hold: no state machine  *)
(* given to two callers, no bit left set or cleared by an index computed   *)
(* differently on claim and unclaim.                                       *)
ClaimsAgree == Claims!ClaimsAgree

(* powman_get_time_msec returns a count the timer held as a whole at some *)
(* instant of the call, across carries from LOWER into UPPER.              *)
TimeReadConsistent == Timer!TimeReadConsistent

(* powman_timer_set leaves the timer holding exactly the value set.       *)
SetExact == Timer!SetExact

(* The alarm latches only at the ALARM_TIME of the last completed          *)
(* powman_set_alarm, never at a partly written one.                        *)
AlarmAtArmed == Timer!AlarmAtArmed
=============================================================================

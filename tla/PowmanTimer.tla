---------------------------- MODULE PowmanTimer ----------------------------
(***************************************************************************)
(* The always-on timer of hardware_powman/powman.c: powman_timer_set,      *)
(* powman_timer_start/stop and powman_get_time_msec, run by a setter and a *)
(* reader against the counting hardware.                                   *)
(*                                                                         *)
(* The 64-bit count is written as four 16-bit SET_TIME parts and read as  *)
(* two 32-bit halves, READ_TIME_LOWER then READ_TIME_UPPER.  Here a part   *)
(* has PartBits bits, so the count has 4 * PartBits bits and a half two    *)
(* parts.  Each register access is one step; the counter ticks between     *)
(* them while RUN is set.  A SET_TIME write goes straight into the count.  *)
(***************************************************************************)
EXTENDS Integers, FiniteSets

CONSTANTS
    PartBits,         \* width of a SET_TIME part (16 on the chip)
    SetValues,        \* time_msec arguments of powman_timer_set
    MaxTicksPerRead,  \* ticks during one iteration of the read loop
    AlarmValues,      \* alarm_time arguments of powman_set_alarm
    Concurrent        \* setter and reader on different cores

Part == 2^PartBits
Half == Part * Part
Wrap == Half * Half
Times == 0..Wrap-1

VARIABLES
    time,        \* the counter
    running,     \* TIMER.RUN
    spc,         \* setter: next step of powman_timer_set, or "idle"
    was_running, \* its local was_running
    setval,      \* its argument
    set_old,     \* ghost: the count when the SET_TIME writes began
    rpc,         \* reader: next step of powman_get_time_msec, or "idle"
    raw,         \* its locals: lower/upper halves of time1 and time2
    ticks,       \* ticks since the reader's loop iteration began
    seen,        \* ghost: counts the timer held as a whole during the read
    alarm,       \* ALARM_TIME
    alarm_enab,  \* TIMER.ALARM_ENAB
    fired,       \* INTR.TIMER: the alarm has latched
    apc,         \* alarm setter: next step of powman_set_alarm, or "idle"
    alarmval,    \* its argument
    armed        \* ghost: the argument of the last completed powman_set_alarm

timervars == <<time, running, spc, was_running, setval, set_old, rpc, raw, ticks, seen>>
alarmvars == <<alarm, alarm_enab, apc, alarmval, armed>>
vars == <<timervars, alarmvars, fired>>

NoAlarm == -1

LowerOf(t) == t % Half
UpperOf(t) == t \div Half
PartOf(t, k) == (t \div Part^k) % Part
(* Mutant: a part written without & 0xffff.                               *)
WithPartUnmasked(t, k, v) == t - PartOf(t, k) * Part^k + (v \div Part^k) * Part^k

WithPart(t, k, v) == t - PartOf(t, k) * Part^k + PartOf(v, k) * Part^k

(* The count as callers see it: mid-way through the SET_TIME writes it is  *)
(* the value from before the set.                                          *)
WriteSteps == {"w0", "w1", "w2", "w3"}
Visible == IF spc \in WriteSteps THEN set_old ELSE time

(* Every step records the visible count into seen while a read runs.       *)
Observe ==
    seen' = IF rpc' = "idle" THEN seen
            ELSE seen \cup {IF spc' \in WriteSteps THEN set_old' ELSE time'}

-----------------------------------------------------------------------------
(* Hardware: the counter advances while RUN is set.                        *)
Tick ==
    /\ running
    /\ rpc # "idle" => ticks < MaxTicksPerRead
    /\ time' = (time + 1) % Wrap
    /\ ticks' = IF rpc = "idle" THEN 0 ELSE ticks + 1
    /\ UNCHANGED <<running, spc, was_running, setval, set_old, rpc, raw>>
    /\ Observe

SetterFree == Concurrent \/ (rpc = "idle" /\ apc = "idle")
ReaderFree == Concurrent \/ (spc = "idle" /\ apc = "idle")
AlarmFree == Concurrent \/ (spc = "idle" /\ rpc = "idle")

(* powman_timer_start / powman_timer_stop, lines 36-42.                    *)
powman_timer_start ==
    /\ spc = "idle" /\ SetterFree
    /\ running' = TRUE
    /\ UNCHANGED <<time, spc, was_running, setval, set_old, rpc, raw, ticks, seen>>

powman_timer_stop ==
    /\ spc = "idle" /\ SetterFree
    /\ running' = FALSE
    /\ UNCHANGED <<time, spc, was_running, setval, set_old, rpc, raw, ticks, seen>>

(***************************************************************************)
(* powman_timer_set, lines 44-52: read RUN, stop if it was running, write  *)
(* the four parts low to high, restart if it was running.                  *)
(***************************************************************************)
(* Mutant: the count written without stopping the timer first.           *)
SetStartNoStop(v) ==
    /\ spc = "idle" /\ SetterFree
    /\ was_running' = running
    /\ setval' = v
    /\ spc' = "w0"
    /\ set_old' = time
    /\ UNCHANGED <<time, running, rpc, raw, ticks, seen>>

SetStart(v) ==
    /\ spc = "idle" /\ SetterFree
    /\ was_running' = running
    /\ setval' = v
    /\ spc' = IF running THEN "stop" ELSE "w0"
    /\ set_old' = time
    /\ UNCHANGED <<time, running, rpc, raw, ticks, seen>>

SetStop ==
    /\ spc = "stop"
    /\ running' = FALSE
    /\ spc' = "w0"
    /\ set_old' = time
    /\ UNCHANGED <<time, was_running, setval, rpc, raw, ticks, seen>>

NextWrite == [w0 |-> "w1", w1 |-> "w2", w2 |-> "w3", w3 |-> "start"]
PartNo == [w0 |-> 0, w1 |-> 1, w2 |-> 2, w3 |-> 3]

SetWrite ==
    /\ spc \in WriteSteps
    /\ time' = WithPart(time, PartNo[spc], setval)
    /\ spc' = NextWrite[spc]
    /\ UNCHANGED <<running, was_running, setval, set_old, rpc, raw, ticks>>
    /\ Observe

SetRestart ==
    /\ spc = "start"
    /\ running' = IF was_running THEN TRUE ELSE running
    /\ spc' = "idle"
    /\ was_running' = FALSE /\ setval' = 0 /\ set_old' = 0
    /\ UNCHANGED <<time, rpc, raw, ticks, seen>>

-----------------------------------------------------------------------------
(***************************************************************************)
(* powman_get_time_msec, lines 59-71: read LOWER then UPPER twice, and     *)
(* repeat until the two 64-bit values agree.                               *)
(***************************************************************************)
NextRead == [l1 |-> "u1", u1 |-> "l2", l2 |-> "u2"]

GetTimeStart ==
    /\ rpc = "idle" /\ ReaderFree
    /\ rpc' = "l1"
    /\ ticks' = 0
    /\ seen' = {Visible}
    /\ UNCHANGED <<time, running, spc, was_running, setval, set_old, raw>>

ReadHalf ==
    /\ rpc \in DOMAIN NextRead
    /\ raw' = [raw EXCEPT ![rpc] = IF rpc \in {"l1", "l2"} THEN LowerOf(time)
                                                         ELSE UpperOf(time)]
    /\ rpc' = NextRead[rpc]
    /\ UNCHANGED <<time, running, spc, was_running, setval, set_old, ticks, seen>>

NoRaw == [l1 |-> 0, u1 |-> 0, l2 |-> 0, u2 |-> 0]

(* After the comparison time1 and time2 are dead: returned, or overwritten *)
(* by the next iteration before they are read.                             *)
DropLocals ==
    /\ raw' = NoRaw
    /\ ticks' = 0
    /\ seen' = IF rpc' = "idle" THEN {} ELSE seen
    /\ UNCHANGED <<time, running, spc, was_running, setval, set_old>>

Time1 == raw.l1 + raw.u1 * Half
\* time2 as the read of READ_TIME_UPPER in progress completes it
Time2 == raw.l2 + UpperOf(time) * Half

(* Mutant: only the lower words compared.                                 *)
ReadLastHalfLowerOnly ==
    /\ rpc = "u2"
    /\ rpc' = IF raw.l1 = raw.l2 THEN "idle" ELSE "l1"
    /\ DropLocals

(* The last read and the comparison: return time2, or go round again.      *)
ReadLastHalf ==
    /\ rpc = "u2"
    /\ rpc' = IF Time1 = Time2 THEN "idle" ELSE "l1"
    /\ DropLocals

Init ==
    /\ time \in Times
    /\ running \in BOOLEAN
    /\ spc = "idle"
    /\ was_running = FALSE
    /\ setval = 0
    /\ set_old = 0
    /\ rpc = "idle"
    /\ raw = NoRaw
    /\ ticks = 0
    /\ seen = {}
    /\ alarm = 0 /\ alarm_enab = FALSE /\ fired = FALSE
    /\ apc = "idle" /\ alarmval = 0 /\ armed = NoAlarm

TimerStep ==
    \/ Tick
    \/ powman_timer_start \/ powman_timer_stop
    \/ \E v \in SetValues : SetStart(v)
    \/ SetStop \/ SetWrite \/ SetRestart
    \/ GetTimeStart \/ ReadHalf \/ ReadLastHalf

-----------------------------------------------------------------------------
(***************************************************************************)
(* powman_set_alarm, lines 171-181: enable the interrupt, clear ALARM_ENAB, *)
(* write the four ALARM_TIME parts low to high, set ALARM_ENAB.             *)
(* powman_clear_wakeups, lines 205-210, clears ALARM_ENAB (and the GPIO    *)
(* power-up enables, not modelled).                                        *)
(***************************************************************************)
(* Mutant: ALARM_TIME written while the alarm stays enabled.               *)
AlarmStartNoDisable(v) ==
    /\ apc = "idle" /\ AlarmFree
    /\ apc' = "a0" /\ alarmval' = v
    /\ UNCHANGED <<alarm, alarm_enab, armed>>

AlarmStart(v) ==
    /\ apc = "idle" /\ AlarmFree
    /\ alarm_enab' = FALSE
    /\ apc' = "a0" /\ alarmval' = v
    /\ UNCHANGED <<alarm, armed>>

NextAlarmWrite == [a0 |-> "a1", a1 |-> "a2", a2 |-> "a3", a3 |-> "enab"]
AlarmPartNo == [a0 |-> 0, a1 |-> 1, a2 |-> 2, a3 |-> 3]

AlarmWrite ==
    /\ apc \in DOMAIN NextAlarmWrite
    /\ alarm' = WithPart(alarm, AlarmPartNo[apc], alarmval)
    /\ apc' = NextAlarmWrite[apc]
    /\ UNCHANGED <<alarm_enab, alarmval, armed>>

AlarmEnable ==
    /\ apc = "enab"
    /\ alarm_enab' = TRUE
    /\ armed' = alarmval
    /\ apc' = "idle" /\ alarmval' = 0
    /\ UNCHANGED alarm

powman_clear_wakeups ==
    /\ apc = "idle" /\ AlarmFree
    /\ alarm_enab' = FALSE
    /\ UNCHANGED <<alarm, apc, alarmval, armed>>

AlarmStep ==
    \/ \E v \in AlarmValues : AlarmStart(v)
    \/ AlarmWrite \/ AlarmEnable \/ powman_clear_wakeups

(* Hardware: the alarm latches whenever it is enabled and the count equals *)
(* ALARM_TIME, whatever step brought that about; the application's        *)
(* interrupt handler clears the latch.                                     *)
AlarmLatch == fired' = (fired \/ (alarm_enab' /\ time' = alarm'))

AlarmAck ==
    /\ fired /\ fired' = FALSE
    /\ UNCHANGED <<timervars, alarmvars>>

Next ==
    \/ TimerStep /\ UNCHANGED alarmvars /\ AlarmLatch
    \/ AlarmStep /\ UNCHANGED timervars /\ AlarmLatch
    \/ AlarmAck

Spec == Init /\ [][Next]_vars

-----------------------------------------------------------------------------
TypeOK ==
    /\ time \in Times /\ set_old \in Times /\ seen \subseteq Times
    /\ running \in BOOLEAN /\ was_running \in BOOLEAN
    /\ spc \in {"idle", "stop", "start"} \cup WriteSteps
    /\ rpc \in {"idle", "l1", "u1", "l2", "u2"}
    /\ raw \in [{"l1", "u1", "l2", "u2"} -> 0..Half-1]
    /\ ticks \in 0..MaxTicksPerRead
    /\ alarm \in Times /\ alarm_enab \in BOOLEAN /\ fired \in BOOLEAN
    /\ apc \in {"idle", "enab"} \cup DOMAIN NextAlarmWrite
    /\ armed \in AlarmValues \cup {NoAlarm}

(***************************************************************************)
(* powman_get_time_msec returns a count the timer really held, as a whole, *)
(* at some instant of the call: never a LOWER from before a carry into     *)
(* UPPER combined with an UPPER from after it, nor a half-written set.     *)
(***************************************************************************)
TimeReadConsistent ==
    [][rpc = "u2" /\ rpc' = "idle" => Time2 \in seen]_vars

(***************************************************************************)
(* When powman_timer_set has written its last part the timer holds exactly *)
(* the value set: no tick has carried into a part already written.         *)
(***************************************************************************)
SetExact == [][spc = "w3" /\ spc' = "start" => time' = setval]_vars

(***************************************************************************)
(* The alarm goes off only at the time the last completed powman_set_alarm *)
(* asked for: never at a partly written ALARM_TIME, nor at the time of an *)
(* alarm it replaced.                                                      *)
(***************************************************************************)
AlarmAtArmed == [][~fired /\ fired' => time' = armed']_vars
=============================================================================

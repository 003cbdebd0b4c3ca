-------------------------------- MODULE Trng --------------------------------
(***************************************************************************)
(* The hardware random number source of pico_rand/rand_hardware.c:        *)
(* get_rand_32, get_rand_64 and get_rand_128 each run                      *)
(* trng_generate_entropy (a software reset of the TRNG, then a poll for    *)
(* EHR_VALID) and read the entropy holding registers (EHR), ending with    *)
(* ehr_data[5], whose read clears the EHR and EHR_VALID.  Both waits are   *)
(* bounded by escape times on time_us_32, compared through a signed       *)
(* difference so that they survive the counter wrapping.  A failed wait    *)
(* ends in hard_assert, which panics (runtime.c hard_assertion_failure).  *)
(*                                                                         *)
(* Each register access is one step of the calling core.  The hardware    *)
(* finishes the reset, fills the EHR or raises an error bit between them, *)
(* or never does: a wedged TRNG is what the escape times are for.  The     *)
(* microsecond timer is now, of TimeBits bits.                            *)
(***************************************************************************)
EXTENDS Integers, Sequences

CONSTANTS
    Callers,        \* cores calling get_rand_*
    TimeBits,       \* width of time_us_32 (32 on the chip)
    EscapeReset,    \* ESCAPE_TIME_US_POST_RESET
    EscapeValid,    \* ESCAPE_TIME_US_TRNG_VALID
    MaxTicks,       \* timer ticks between two steps of a caller
    ReadOrders      \* orders in which a 64-bit OR's two EHR loads are emitted

W == 2^TimeBits

VARIABLES
    now,        \* the microsecond timer
    resetting,  \* TRNG_SW_RESET has not yet self-cleared
    source,     \* RND_SOURCE_ENABLE
    isr,        \* RNG_ISR: a subset of {"valid", "error"}
    ehr,        \* the EHR holds a fresh sample ("full") or not ("empty")
    pc,         \* pc[c]: the next step of caller c
    words,      \* words[c]: the EHR words c still has to read
    esc,        \* esc[c]: its local esc_time
    waited,     \* waited[c]: ghost, microseconds since esc_time was taken
    ticks,      \* ticks[c]: ticks since c's last step
    fresh       \* fresh[c]: ghost, every word c read came from a full EHR

trngvars == <<now, resetting, source, isr, ehr, pc, words, esc, waited, ticks, fresh>>

(* (int)(x) > 0 for a difference x of two time_us_32 values.               *)
SignedPositive(x) == LET r == x % W IN r > 0 /\ r < W \div 2

(* The EHR words each entry point reads: (uint64_t) ehr[hi] << 32 | ehr[lo]  *)
(* loads hi and lo in the order the compiler emits; the two statements of  *)
(* get_rand_128 are sequenced.                                             *)
Pair(hi, lo, order) == IF order = "hi_first" THEN <<hi, lo>> ELSE <<lo, hi>>

ReadsOf(kind, o1, o2) ==
    CASE kind = 32  -> <<5>>
      [] kind = 64  -> Pair(4, 5, o1)
      [] kind = 128 -> Pair(2, 3, o1) \o Pair(4, 5, o2)

Busy(c) == pc[c] \notin {"idle", "panic"}

(* One step of caller c: it moves from pc l to pc nxt; its tick budget     *)
(* starts again.                                                           *)
Step(c, l, nxt) ==
    /\ pc[c] = l
    /\ pc' = [pc EXCEPT ![c] = nxt]
    /\ ticks' = [ticks EXCEPT ![c] = 0]

-----------------------------------------------------------------------------
(***************************************************************************)
(* get_rand_32/64/128, lines 90-106: trng_generate_entropy, then reads.  *)
(***************************************************************************)
GetRand(c, kind) ==
    /\ \E o1, o2 \in ReadOrders : words' = [words EXCEPT ![c] = ReadsOf(kind, o1, o2)]
    /\ Step(c, "idle", "icr")
    /\ fresh' = [fresh EXCEPT ![c] = TRUE]
    /\ UNCHANGED <<now, resetting, source, isr, ehr, esc, waited>>

(* trng_sw_reset, lines 21-40: clear the interrupt status, take the escape *)
(* time, start the reset, then write SAMPLE_CNT1 until it reads back.      *)
ClearIcr(c) ==
    /\ Step(c, "icr", "esc_reset")
    /\ isr' = {}
    /\ UNCHANGED <<now, resetting, source, ehr, words, esc, waited, fresh>>

TakeEscape(c, l, nxt, t) ==
    /\ Step(c, l, nxt)
    /\ esc' = [esc EXCEPT ![c] = (now + t) % W]
    /\ waited' = [waited EXCEPT ![c] = 0]
    /\ UNCHANGED <<now, resetting, source, isr, ehr, words, fresh>>

(* The reset also stops the source and empties the EHR.                    *)
SwReset(c) ==
    /\ Step(c, "sw_reset", "sample_cnt")
    /\ resetting' = TRUE /\ source' = FALSE /\ ehr' = "empty"
    /\ UNCHANGED <<now, isr, words, esc, waited, fresh>>

(* The write is lost while the reset runs, and the read-back differs.      *)
SampleCnt(c) ==
    /\ Step(c, "sample_cnt", IF resetting THEN "reset_escape" ELSE "config")
    /\ UNCHANGED <<now, resetting, source, isr, ehr, words, esc, waited, fresh>>

(* } while (0 < (int) (esc_time - time_us_32())); then hard_assert(pass).   *)
ResetEscape(c) ==
    /\ Step(c, "reset_escape", IF SignedPositive(esc[c] - now) THEN "sample_cnt" ELSE "panic")
    /\ UNCHANGED <<now, resetting, source, isr, ehr, words, esc, waited, fresh>>

(* trng_generate_entropy, lines 43-84: configure, enable the source, take *)
(* the escape time, poll RNG_ISR; then disable the source.                 *)
EnableSource(c) ==
    /\ Step(c, "config", "esc_valid")
    /\ source' = TRUE
    /\ UNCHANGED <<now, resetting, isr, ehr, words, esc, waited, fresh>>

(* Mutant: any status bit taken as a valid result.                         *)
PollIsr_AnyBit(c) ==
    /\ Step(c, "poll", IF isr # {} THEN "disable" ELSE "valid_escape")
    /\ UNCHANGED <<now, resetting, source, isr, ehr, words, esc, waited, fresh>>

(* Mutant: no escape check; the poll spins until a status bit appears.    *)
PollIsr_NoEscape(c) ==
    /\ Step(c, "poll", CASE isr = {"valid"}  -> "disable"
                         [] "error" \in isr  -> "panic"
                         [] OTHER            -> "poll")
    /\ UNCHANGED <<now, resetting, source, isr, ehr, words, esc, waited, fresh>>

(* EHR_VALID alone is a result; any other bit is an error.                 *)
PollIsr(c) ==
    /\ Step(c, "poll", CASE isr = {"valid"}  -> "disable"
                         [] "error" \in isr  -> "panic"
                         [] OTHER            -> "valid_escape")
    /\ UNCHANGED <<now, resetting, source, isr, ehr, words, esc, waited, fresh>>

(* Mutant: the difference compared unsigned.                               *)
ValidEscape_Unsigned(c) ==
    /\ Step(c, "valid_escape", IF (now - esc[c]) % W > 0 THEN "panic" ELSE "poll")
    /\ UNCHANGED <<now, resetting, source, isr, ehr, words, esc, waited, fresh>>

(* if (0 < (int) (time_us_32() - esc_time)) break; then hard_assert(pass). *)
ValidEscape(c) ==
    /\ Step(c, "valid_escape", IF SignedPositive(now - esc[c]) THEN "panic" ELSE "poll")
    /\ UNCHANGED <<now, resetting, source, isr, ehr, words, esc, waited, fresh>>

DisableSource(c) ==
    /\ Step(c, "disable", "read")
    /\ source' = FALSE
    /\ UNCHANGED <<now, resetting, isr, ehr, words, esc, waited, fresh>>

(* One EHR load; the load of ehr_data[5] clears the EHR and EHR_VALID.     *)
ReadWord(c) ==
    /\ words[c] # <<>>
    /\ Step(c, "read", IF Len(words[c]) = 1 THEN "idle" ELSE "read")
    /\ words' = [words EXCEPT ![c] = Tail(@)]
    /\ fresh' = [fresh EXCEPT ![c] = @ /\ ehr = "full"]
    /\ IF Head(words[c]) = 5
       THEN ehr' = "empty" /\ isr' = isr \ {"valid"}
       ELSE UNCHANGED <<ehr, isr>>
    /\ UNCHANGED <<now, resetting, source, esc, waited>>

-----------------------------------------------------------------------------
(* The hardware and the timer.                                             *)
ResetDone ==
    /\ resetting /\ resetting' = FALSE
    /\ UNCHANGED <<now, source, isr, ehr, pc, words, esc, waited, ticks, fresh>>

Fill ==
    /\ source /\ ~resetting /\ "valid" \notin isr
    /\ isr' = isr \cup {"valid"} /\ ehr' = "full"
    /\ UNCHANGED <<now, resetting, source, pc, words, esc, waited, ticks, fresh>>

RaiseError ==
    /\ source /\ ~resetting /\ "error" \notin isr
    /\ isr' = isr \cup {"error"}
    /\ UNCHANGED <<now, resetting, source, ehr, pc, words, esc, waited, ticks, fresh>>

Tick ==
    /\ \A c \in Callers : Busy(c) => ticks[c] < MaxTicks
    /\ now' = (now + 1) % W
    /\ ticks' = [c \in Callers |-> IF Busy(c) THEN ticks[c] + 1 ELSE 0]
    /\ waited' = [c \in Callers |-> IF Busy(c) /\ waited[c] < W THEN waited[c] + 1
                                    ELSE IF Busy(c) THEN W ELSE 0]
    /\ UNCHANGED <<resetting, source, isr, ehr, pc, words, esc, fresh>>

CallerStep(c) ==
    \/ \E kind \in {32, 64, 128} : GetRand(c, kind)
    \/ ClearIcr(c)
    \/ TakeEscape(c, "esc_reset", "sw_reset", EscapeReset)
    \/ SwReset(c) \/ SampleCnt(c) \/ ResetEscape(c)
    \/ EnableSource(c)
    \/ TakeEscape(c, "esc_valid", "poll", EscapeValid)
    \/ PollIsr(c) \/ ValidEscape(c) \/ DisableSource(c) \/ ReadWord(c)

TrngInit ==
    /\ now \in 0..W-1
    /\ resetting = FALSE /\ source = FALSE /\ isr = {} /\ ehr = "empty"
    /\ pc = [c \in Callers |-> "idle"]
    /\ words = [c \in Callers |-> <<>>]
    /\ esc = [c \in Callers |-> 0]
    /\ waited = [c \in Callers |-> 0]
    /\ ticks = [c \in Callers |-> 0]
    /\ fresh = [c \in Callers |-> TRUE]

TrngNext ==
    \/ \E c \in Callers : CallerStep(c)
    \/ ResetDone \/ Fill \/ RaiseError \/ Tick

(* The timer always runs; the reset self-clears within four cycles; a     *)
(* core that is not halted keeps executing.  Fill is not fair: the TRNG    *)
(* may wedge.                                                              *)
TrngFairness ==
    /\ WF_trngvars(Tick) /\ WF_trngvars(ResetDone)
    /\ \A c \in Callers : WF_trngvars(CallerStep(c) /\ pc[c] # "idle")

-----------------------------------------------------------------------------
TrngTypeOK ==
    /\ now \in 0..W-1
    /\ resetting \in BOOLEAN /\ source \in BOOLEAN
    /\ isr \subseteq {"valid", "error"} /\ ehr \in {"full", "empty"}
    /\ \A c \in Callers :
         /\ words[c] \in Seq(2..5) /\ esc[c] \in 0..W-1
         /\ ticks[c] \in 0..MaxTicks /\ fresh[c] \in BOOLEAN

(***************************************************************************)
(* Every word a get_rand_* call returns was read from an EHR filled since   *)
(* the call's own reset: not the zeros of a cleared EHR, nor a sample from *)
(* before the reset, whatever the TRNG does meanwhile.                     *)
(***************************************************************************)
ReturnsFresh ==
    [][\A c \in Callers : pc[c] = "read" /\ pc'[c] = "idle" => fresh'[c]]_trngvars

(***************************************************************************)
(* The escape loops give up only once their escape time has really passed, *)
(* also when esc_time wrapped past zero: the reset wait after at least     *)
(* ESCAPE_TIME_US_POST_RESET, the result wait after more than             *)
(* ESCAPE_TIME_US_TRNG_VALID microseconds.                                 *)
(***************************************************************************)
EscapeNotEarly ==
    [][\A c \in Callers :
         /\ pc[c] = "reset_escape" /\ pc'[c] = "panic" => waited[c] >= EscapeReset
         /\ pc[c] = "valid_escape" /\ pc'[c] = "panic" => waited[c] > EscapeValid]_trngvars

(***************************************************************************)
(* Every call ends: it returns, or panics through hard_assert, even when  *)
(* the TRNG never produces a result.                                       *)
(***************************************************************************)
CallEnds == \A c \in Callers : Busy(c) ~> ~Busy(c)
=============================================================================

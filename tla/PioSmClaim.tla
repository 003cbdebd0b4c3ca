----------------------------- MODULE PioSmClaim -----------------------------
(***************************************************************************)
(* State-machine claims of hardware_pio/pio.c (lines 20-59) over the       *)
(* hw_claim bitmap claimed[], one bit per (PIO, state machine) at index    *)
(* which * NUM_PIO_STATE_MACHINES + sm.  Each hw_claim_* call is one       *)
(* section under the claim spin lock and so one atomic step of a core;     *)
(* pio_claim_sm_mask makes one such call per bit of its mask, and another  *)
(* core can run between them.  held is the callers' bookkeeping: the       *)
(* state machines each core believes it owns.  A core that panics halts;   *)
(* the other keeps running.                                                *)
(***************************************************************************)
EXTENDS Integers, FiniteSets, FiniteSetsExt

CONSTANTS
    Cores,
    NUM_PIOS,
    NUM_PIO_STATE_MACHINES,
    SmMasks          \* sm_mask arguments callers pass to pio_claim_sm_mask

VARIABLES
    claimed,   \* the set bits of claimed[]
    mask_pc,   \* mask_pc[c]: PIO, bits pio_claim_sm_mask still has to claim,
               \* the bits this call has claimed so far, and whether all of
               \* the mask was free when it began (history)
    held,      \* held[c]: [pio, sm, how] records core c was given
    panicked   \* cores halted by panic / hw_claim_or_assert

vars == <<claimed, mask_pc, held, panicked>>

Pios == 0..NUM_PIOS-1
SMs == 0..NUM_PIO_STATE_MACHINES-1
Index(p, sm) == p * NUM_PIO_STATE_MACHINES + sm
Indices == 0..(NUM_PIOS * NUM_PIO_STATE_MACHINES - 1)

(* The set bits of an sm_mask, as the loop of lines 35-37 visits them.     *)
MaskBits(m) == {i \in 0..7 : (m \div 2^i) % 2 = 1}

Idle == [pio |-> 0, rest |-> {}, done |-> {}, free |-> FALSE]

Running(c) == c \notin panicked /\ mask_pc[c].rest = {}

(***************************************************************************)
(* hw_claim_or_assert: panic if the bit is set, else set it.  The caller   *)
(* then records the state machine as its own, claimed by name.            *)
(***************************************************************************)
Explicit(p, sm) == [pio |-> p, sm |-> sm, how |-> "explicit"]

ClaimIndex(c, p, sm) ==
    IF Index(p, sm) \in claimed
    THEN /\ panicked' = panicked \cup {c}
         /\ UNCHANGED <<claimed, held>>
    ELSE /\ claimed' = claimed \cup {Index(p, sm)}
         /\ held' = [held EXCEPT ![c] = @ \cup {Explicit(p, sm)}]
         /\ UNCHANGED panicked

(* pio_sm_claim, lines 22-32.                                              *)
pio_sm_claim(c, p, sm) ==
    /\ Running(c)
    /\ ClaimIndex(c, p, sm)
    /\ UNCHANGED mask_pc

(* The loop's step for the set bit i: one pio_sm_claim, then the bit is    *)
(* done; a panic leaves the loop where it stopped.                         *)
MaskStep(c, p, bits, done, free, i) ==
    /\ ClaimIndex(c, p, i)
    /\ mask_pc' = [mask_pc EXCEPT ![c] =
          IF Index(p, i) \in claimed
          THEN [pio |-> p, rest |-> bits, done |-> done, free |-> free]
          ELSE IF bits = {i} THEN Idle
          ELSE [pio |-> p, rest |-> bits \ {i}, done |-> done \cup {i}, free |-> free]]

(* pio_claim_sm_mask, lines 34-38: the call and the claim of its lowest    *)
(* set bit (the loop does nothing else before it); each later bit is a    *)
(* ClaimMaskBit, under its own hold of the claim lock.  A zero mask does   *)
(* nothing.                                                                *)
pio_claim_sm_mask(c, p, m) ==
    /\ Running(c)
    /\ MaskBits(m) # {}
    /\ MaskStep(c, p, MaskBits(m), {},
                \A i \in MaskBits(m) : Index(p, i) \notin claimed, Min(MaskBits(m)))

ClaimMaskBit(c) ==
    /\ c \notin panicked
    /\ mask_pc[c].rest # {}
    /\ MaskStep(c, mask_pc[c].pio, mask_pc[c].rest, mask_pc[c].done,
                mask_pc[c].free, Min(mask_pc[c].rest))

(* Mutant: the bit index computed without the PIO's base.                 *)
pio_sm_unclaim_NoPioBase(c, h) ==
    /\ Running(c)
    /\ claimed' = claimed \ {h.sm}
    /\ held' = [held EXCEPT ![c] = @ \ {h}]
    /\ UNCHANGED <<mask_pc, panicked>>

(* pio_sm_unclaim, lines 40-44: a caller gives back one it holds.          *)
pio_sm_unclaim(c, h) ==
    /\ Running(c)
    /\ claimed' = claimed \ {Index(h.pio, h.sm)}
    /\ held' = [held EXCEPT ![c] = @ \ {h}]
    /\ UNCHANGED <<mask_pc, panicked>>

(***************************************************************************)
(* hw_claim_unused_from_range: the lowest clear bit in lsb..msb is set and *)
(* returned, else -1, and a panic when required.                           *)
(***************************************************************************)
ClaimUnusedFromRange(c, required, lsb, msb) ==
    LET free == {i \in lsb..msb : i \notin claimed} IN
    IF free # {}
    THEN /\ claimed' = claimed \cup {Min(free)}
         /\ UNCHANGED panicked
    ELSE /\ panicked' = IF required THEN panicked \cup {c} ELSE panicked
         /\ UNCHANGED claimed

FoundBit(lsb, msb) ==
    LET free == {i \in lsb..msb : i \notin claimed} IN
    IF free = {} THEN -1 ELSE Min(free)

(* Mutant: the range one state machine too wide.                          *)
pio_claim_unused_sm_WideRange(c, p, required) ==
    LET base  == p * NUM_PIO_STATE_MACHINES
        msb   == base + NUM_PIO_STATE_MACHINES
        index == FoundBit(base, msb)
        r     == IF index >= base THEN index - base ELSE -1
    IN
    /\ Running(c)
    /\ ClaimUnusedFromRange(c, required, base, msb)
    /\ held' = IF r >= 0
               THEN [held EXCEPT ![c] = @ \cup {[pio |-> p, sm |-> r, how |-> "unused"]}]
               ELSE held
    /\ UNCHANGED mask_pc

(* pio_claim_unused_sm, lines 46-53.                                       *)
pio_claim_unused_sm(c, p, required) ==
    LET base  == p * NUM_PIO_STATE_MACHINES
        msb   == base + NUM_PIO_STATE_MACHINES - 1
        index == FoundBit(base, msb)
        r     == IF index >= base THEN index - base ELSE -1
    IN
    /\ Running(c)
    /\ ClaimUnusedFromRange(c, required, base, msb)
    /\ held' = IF r >= 0
               THEN [held EXCEPT ![c] = @ \cup {[pio |-> p, sm |-> r, how |-> "unused"]}]
               ELSE held
    /\ UNCHANGED mask_pc

Init ==
    /\ claimed = {}
    /\ mask_pc = [c \in Cores |-> Idle]
    /\ held = [c \in Cores |-> {}]
    /\ panicked = {}

Next ==
    \E c \in Cores :
        \/ \E p \in Pios, sm \in SMs : pio_sm_claim(c, p, sm)
        \/ \E p \in Pios, m \in SmMasks : pio_claim_sm_mask(c, p, m)
        \/ ClaimMaskBit(c)
        \/ \E h \in held[c] : pio_sm_unclaim(c, h)
        \/ \E p \in Pios, required \in BOOLEAN : pio_claim_unused_sm(c, p, required)

Spec == Init /\ [][Next]_vars

-----------------------------------------------------------------------------
TypeOK ==
    /\ claimed \subseteq Indices
    /\ \A c \in Cores :
          /\ held[c] \subseteq [pio : Pios, sm : SMs, how : {"explicit", "unused"}]
          /\ mask_pc[c].pio \in Pios /\ mask_pc[c].rest \subseteq 0..7
          /\ mask_pc[c].done \subseteq 0..7
          /\ mask_pc[c].free \in BOOLEAN
    /\ panicked \subseteq Cores

HeldIndices(c) == {Index(h.pio, h.sm) : h \in held[c]}

(***************************************************************************)
(* The claimed[] bitmap and the callers' own records agree: a bit is set   *)
(* exactly when some caller was given that state machine, and no state     *)
(* machine was given to two callers, or twice to one.  It breaks if an     *)
(* index is computed differently on claim and on unclaim or return.        *)
(***************************************************************************)
ClaimsAgree ==
    /\ claimed = UNION {HeldIndices(c) : c \in Cores}
    /\ \A c, d \in Cores : c # d => HeldIndices(c) \cap HeldIndices(d) = {}
    /\ \A c \in Cores : Cardinality(HeldIndices(c)) = Cardinality(held[c])

(***************************************************************************)
(* A claim of a whole mask is atomic, as spec 4.2 states of every claim    *)
(* under the lock: once pio_claim_sm_mask has found all of its state       *)
(* machines free, it panics only if another caller claims one of them by   *)
(* name (the callers' bookkeeping conflict), never because a core's        *)
(* pio_claim_unused_sm took one while it held part of the mask (pio.c      *)
(* lines 35-37 take the lock once per bit).                                *)
(***************************************************************************)
MaskClaimAtomic ==
    [][\A c \in Cores :
         (c \notin panicked /\ c \in panicked' /\ mask_pc[c].rest # {}
          /\ mask_pc[c].free)
         => \E d \in Cores \ {c} : \E h \in held[d] :
               /\ Index(h.pio, h.sm) = Index(mask_pc[c].pio, Min(mask_pc[c].rest))
               /\ h.how = "explicit"]_vars
=============================================================================

------------------------------ MODULE FlashLayout ------------------------------
(***************************************************************************)
(* What loxboot_init accepts (src/src/loxboot_core.c:28-56, 91-160): the   *)
(* checks that the two slots and the two copies of the boot state do not   *)
(* overlap, in the arithmetic of uint32_t.                                 *)
(*                                                                         *)
(* The checks of the callbacks (flash and fatal functions not NULL) say    *)
(* nothing of addresses and are taken as passed.                           *)
(***************************************************************************)
EXTENDS Naturals

CONSTANTS
  MaxWord,    \* UINT32_MAX
  StateSize   \* sizeof(loxboot_state_t)

ASSUME LayoutAssumption ==
  /\ MaxWord \in Nat
  /\ StateSize \in 1 .. MaxWord

VARIABLES
  platform,   \* ctx->platform
  verdict     \* what loxboot_init returned

vars == <<platform, verdict>>

Word == 0 .. MaxWord
Region == {"slot_a", "slot_b", "primary", "backup"}
Platform == [base : [Region -> Word], slot_size : Word]

SizeOf(p, r) == IF r \in {"slot_a", "slot_b"} THEN p.slot_size ELSE StateSize

-----------------------------------------------------------------------------
\* loxboot_u32_add_checked, loxboot_range_end_checked: the end fits a word.
EndFits(base, size) == base + size <= MaxWord

\* loxboot_ranges_overlap: no overlap is reported if an end does not fit.
RangesOverlap(baseA, sizeA, baseB, sizeB) ==
  /\ EndFits(baseA, sizeA) /\ EndFits(baseB, sizeB)
  /\ sizeA # 0 /\ sizeB # 0
  /\ baseA < baseB + sizeB /\ baseB < baseA + sizeA

Overlapping(p, r, q) ==
  RangesOverlap(p.base[r], SizeOf(p, r), p.base[q], SizeOf(p, q))

\* The pairs that loxboot_init compares, in its order.
Pairs ==
  {<<"slot_a", "slot_b">>, <<"primary", "backup">>, <<"primary", "slot_a">>,
   <<"primary", "slot_b">>, <<"backup", "slot_a">>, <<"backup", "slot_b">>}

\* Faulty variant: the ends are not checked before the overlaps.
AcceptsUnchecked(p) ==
  /\ p.slot_size # 0
  /\ p.base["slot_a"] # p.base["slot_b"]
  /\ p.base["primary"] # p.base["backup"]
  /\ \A pair \in Pairs : ~Overlapping(p, pair[1], pair[2])

Accepts(p) ==
  /\ p.slot_size # 0
  /\ p.base["slot_a"] # p.base["slot_b"]
  /\ p.base["primary"] # p.base["backup"]
  /\ \A r \in Region : EndFits(p.base[r], SizeOf(p, r))
  /\ \A pair \in Pairs : ~Overlapping(p, pair[1], pair[2])

-----------------------------------------------------------------------------
Init == platform \in Platform /\ verdict = "none"

LoxbootInit ==
  /\ verdict = "none"
  /\ verdict' = IF Accepts(platform) THEN "OK" ELSE "INVALID_ARG"
  /\ UNCHANGED platform

Next == LoxbootInit
Spec == Init /\ [][Next]_vars

-----------------------------------------------------------------------------
(* Properties *)

\* The bytes of a region, in unbounded arithmetic.
Bytes(base, size) == {a \in 0 .. 2 * MaxWord : base <= a /\ a < base + size}

\* A layout is sound if no two regions share a byte and no region is empty or
\* reaches past the last word.
Sound(p) ==
  /\ p.slot_size # 0
  /\ \A r \in Region : EndFits(p.base[r], SizeOf(p, r))
  /\ \A r, q \in Region : r # q =>
       Bytes(p.base[r], SizeOf(p, r)) \cap Bytes(p.base[q], SizeOf(p, q)) = {}

\* loxboot_init accepts the sound layouts and no others: the shortcut of
\* loxboot_ranges_overlap for ends that overflow never hides an overlap.
VerdictRight == verdict # "none" => (verdict = "OK" <=> Sound(platform))
=============================================================================

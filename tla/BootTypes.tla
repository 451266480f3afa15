------------------------------ MODULE BootTypes -------------------------------
(***************************************************************************)
(* The boot state of src/include/loxboot/loxboot.h and the edits the code  *)
(* makes to it: pure operators, no behaviour.                              *)
(*                                                                         *)
(* Abstractions:                                                           *)
(*  - a firmware image and the pair (firmware_size, firmware_crc32) that   *)
(*    describes it are one value of Firmware; NoFirmware is the pair (0,0) *)
(*    and Junk the contents of a slot that matches no description;         *)
(*  - two kinds of slot record fail loxboot_slot_record_is_valid while the *)
(*    CRC of the whole state holds: "UNSEALED" is a VALID record whose only *)
(*    defect is its own CRC, which loxboot_state_finalize recomputes when   *)
(*    the state is written, and "BAD" one that stays bad (magic, slot_id,   *)
(*    flags, state, or an active_slot out of range);                        *)
(*  - magic, slot_id, flags, reserved and the CRCs are not modelled: every *)
(*    edit below sets them right and every read checks them.               *)
(***************************************************************************)
EXTENDS Naturals

CONSTANTS
  Firmware,     \* firmware images (their size and CRC32)
  NoFirmware,   \* firmware_size = 0, firmware_crc32 = 0
  Junk,         \* slot contents that match no description
  MaxAttempts,  \* LOXBOOT_MAX_BOOT_ATTEMPTS
  Chunks,       \* slot_size, in chunks of one UART frame
  Size          \* firmware_size of a firmware, in chunks

ASSUME TypesAssumption ==
  /\ Chunks \in Nat \ {0}
  /\ Size \in [Firmware -> 1 .. Chunks]
  /\ NoFirmware \notin Firmware
  /\ Junk \notin Firmware \cup {NoFirmware}
  /\ MaxAttempts \in 1 .. 255

Slot == {"A", "B"}
Other(s) == IF s = "A" THEN "B" ELSE "A"

SlotState == {"EMPTY", "PENDING", "VALID", "INVALID", "ACTIVE", "ROLLBACK"}
Reason    == {"NORMAL", "ROLLBACK", "UPDATE", "FORCED", "UNKNOWN"}

RecordOf(states) ==
  [state : states, attempts : 0 .. MaxAttempts, fw : Firmware \cup {NoFirmware}]
StateOf(states) ==
  [active : Slot, reason : Reason, slots : [Slot -> RecordOf(states)]]

Good       == StateOf(SlotState)
HeaderOnly == StateOf(SlotState \cup {"BAD", "UNSEALED"}) \ Good

\* A record after memset to zero and the header fields.
BlankRecord(st) == [state |-> st, attempts |-> 0, fw |-> NoFirmware]

\* loxboot_state_make_default
DefaultState(slot) ==
  [active |-> slot, reason |-> "UNKNOWN", slots |-> [s \in Slot |-> BlankRecord("EMPTY")]]

\* ctx->state after loxboot_init: all bytes zero.
ZeroState ==
  [active |-> "A", reason |-> "NORMAL", slots |-> [s \in Slot |-> BlankRecord("EMPTY")]]

-----------------------------------------------------------------------------
(* loxboot_uart_session_t (src/include/loxboot/loxboot_transport.h) and the *)
(* frames of the host.  A WRITE carries one chunk of a firmware, the one    *)
(* that ends at offset end, other data, or none (at an offset that a COMMIT *)
(* can name); a COMMIT the size and CRC32 of a firmware (NoFirmware: size  *)
(* 0); "refused" stands for any frame that the   *)
(* command switch refuses: an unknown command, a payload too short, a WRITE *)
(* out of bounds.                                                           *)

DataFrames ==
  [cmd : {"write"}, fw : {Junk}, end : 1 .. Chunks] \cup
  UNION {[cmd : {"write"}, fw : {f}, end : 1 .. Size[f]] : f \in Firmware}
Frames ==
  [cmd : {"hello", "abort", "status", "reboot", "refused"}, fw : {NoFirmware}, end : {0}] \cup
  [cmd : {"write"}, fw : {NoFirmware}, end : {0} \cup {Size[f] : f \in Firmware}] \cup
  [cmd : {"commit"}, fw : Firmware \cup {NoFirmware}, end : {0}] \cup
  DataFrames
NoFrame == [cmd |-> "none", fw |-> NoFirmware, end |-> 0]

\* What was written to each chunk of the target slot since it was erased.
Draft == [1 .. Chunks -> Firmware \cup {NoFirmware, Junk}]
Unknown == [i \in 1 .. Chunks |-> Junk]
Erased  == [i \in 1 .. Chunks |-> NoFirmware]

Session ==
  [target    : Slot,                  \* target_slot
   active    : BOOLEAN,               \* _session_active
   erased    : BOOLEAN,               \* _slot_erased
   written   : 0 .. Chunks,           \* _bytes_written
   committed : BOOLEAN,               \* _commit_done; _committed_slot is target
   reboot    : BOOLEAN,               \* _reboot_requested
   draft     : Draft,                 \* see above
   frame     : Frames \cup {NoFrame}, \* the frame that is handled
   reply     : {"none", "OK", "ERROR", "STATUS"},   \* the response to it
   back      : {"app", "listen", "committed", "verified", "refused", "aborted"},
                                      \* where the call under way returns to
   err       : {"OK", "FLASH", "CORRUPT", "TRANSPORT"}]   \* what run_session returns

\* memset of the session; calls of the API are the application's.
NoSession ==
  [target |-> "A", active |-> FALSE, erased |-> FALSE, written |-> 0, committed |-> FALSE,
   reboot |-> FALSE, draft |-> Unknown, frame |-> NoFrame, reply |-> "none",
   back |-> "app", err |-> "OK"]

-----------------------------------------------------------------------------
(* Edits *)

\* state.slots[slot].state = v
SetSlotState(st, slot, v) == [st EXCEPT !.slots[slot].state = v]

\* Boot sequence [2], the branch that falls back to the other slot.
FallbackEdit(st) ==
  [SetSlotState(st, Other(st.active), "ACTIVE") EXCEPT !.active = Other(st.active)]

\* Boot sequence [4].
AttemptEdit(st) == [st EXCEPT !.slots[st.active].attempts = @ + 1]

\* Faulty variant: the slot that is rolled back stays selectable.
RollbackEditKeepsValid(st, slot) ==
  [SetSlotState(SetSlotState(st, slot, "VALID"), Other(slot), "ACTIVE")
     EXCEPT !.active = Other(slot), !.reason = "ROLLBACK"]

\* loxboot_run_rollback, given that the other slot is VALID.
RollbackEdit(st, slot) ==
  [SetSlotState(SetSlotState(st, slot, "ROLLBACK"), Other(slot), "ACTIVE")
     EXCEPT !.active = Other(slot), !.reason = "ROLLBACK"]

\* loxboot_commit_slot: loxboot_slot_record_set_pending.
CommitEdit(st, slot, fw) ==
  [st EXCEPT !.slots[slot] = [state |-> "PENDING", attempts |-> 0, fw |-> fw],
             !.reason = "UNKNOWN"]

\* loxboot_invalidate_slot, and its repair of a state read by header only:
\* the record of the other slot is written back as it is, with a CRC that fits.
InvalidateEdit(st, slot) ==
  [SetSlotState(st, slot, "INVALID") EXCEPT !.slots[slot].attempts = 0]
Seal(rec) == IF rec.state = "UNSEALED" THEN [rec EXCEPT !.state = "VALID"] ELSE rec
RepairEdit(st, slot) ==
  [st EXCEPT !.slots = [s \in Slot |-> IF s = slot THEN BlankRecord("INVALID")
                                      ELSE Seal(st.slots[s])]]

\* loxboot_confirm_boot
ConfirmEdit(st) ==
  [SetSlotState(st, st.active, "VALID") EXCEPT !.slots[st.active].attempts = 0]

\* Faulty variant: the slot that was active stays ACTIVE.
DemoteNothing(st) == st

\* loxboot_request_slot: the slot that was active gives up the state ACTIVE.
DemoteActive(st) ==
  IF st.slots[st.active].state = "ACTIVE" THEN SetSlotState(st, st.active, "VALID") ELSE st
\* Faulty variant: the requested slot gets fresh attempts.
RequestEditFreshAttempts(st, slot) ==
  [SetSlotState(IF st.active # slot THEN DemoteActive(st) ELSE st, slot, "ACTIVE")
     EXCEPT !.slots[slot].attempts = 0, !.active = slot, !.reason = "FORCED"]

RequestEdit(st, slot) ==
  [SetSlotState(IF st.active # slot THEN DemoteActive(st) ELSE st, slot, "ACTIVE")
     EXCEPT !.active = slot, !.reason = "FORCED"]
=============================================================================

------------------------------- MODULE BootApi --------------------------------
(***************************************************************************)
(* The calls of loxboot.h that change the boot state, as the application   *)
(* or a UART session makes them (src/src/loxboot_core.c): loxboot_confirm_boot, *)
(* loxboot_commit_slot, loxboot_verify_slot, loxboot_invalidate_slot,      *)
(* loxboot_request_slot and loxboot_format_state.                          *)
(*                                                                         *)
(* Each reads the boot state, edits it, writes it and updates the context, *)
(* except format (no read, no update) and verify (no write).  The context  *)
(* is the bootloader's: it survives the jump (docs/PORTING.md:140).  Calls *)
(* refused for a NULL or uninitialised context or an unknown slot change   *)
(* nothing and are left out; NoFirmware stands for every size that         *)
(* loxboot_commit_slot refuses (0, or larger than the slot).               *)
(***************************************************************************)
EXTENDS BootRun

CONSTANT Calls   \* the calls this application makes, a subset of AllCalls

\* call is the call under way; ret is what the last one returned, "none" before
\* and during one.
NoCall   == [name |-> "none", slot |-> "A", fw |-> NoFirmware]
AllCalls ==
  [name : {"confirm"}, slot : {"A"}, fw : {NoFirmware}] \cup
  [name : {"verify", "invalidate", "request", "format"}, slot : Slot, fw : {NoFirmware}] \cup
  [name : {"commit"}, slot : Slot, fw : Firmware \cup {NoFirmware}]

ASSUME CallsAssumption == Calls \subseteq AllCalls

CallLabel == {"opRead", "opHeader", "opWrite"}
Result    == {"none", "OK", "FLASH", "CORRUPT", "INVALID_ARG", "INVALID_STATE", "CRC_MISMATCH"}

-----------------------------------------------------------------------------
\* History: the attempts of these slots are cleared, by a new, a refused or a
\* confirmed firmware or by formatting.
ClearBoots(slots) == boots' = [s \in Slot |-> IF s \in slots THEN 0 ELSE boots[s]]

Return(label, r) ==
  /\ Goto(label)
  /\ ret' = r
  /\ call' = NoCall

\* The call returns to the application or to the session that made it.
Finish(r) == Return(sess.back, r)

\* A call is made, to return to s.back; loxboot_commit_slot checks the size
\* first.
Begin(c, s) ==
  /\ sess' = s
  /\ IF c.name = "commit" /\ c.fw = NoFirmware
       THEN Return(s.back, "INVALID_ARG")
       ELSE call' = c /\ ret' = "none" /\ Read("opRead")

\* The application calls.
Invoke(c) ==
  /\ At("app")
  /\ c.name # "format"
  /\ Begin(c, sess)
  /\ UNCHANGED <<image, ctx, history>>

\* loxboot_format_state does not look at what is there.
Format(c) ==
  /\ At("app")
  /\ c.name = "format"
  /\ call' = c
  /\ ret' = "none"
  /\ Write(DefaultState(c.slot), "opWrite")
  /\ ClearBoots(Slot)
  /\ UNCHANGED <<image, sess, ctx, trouble, refused>>

-----------------------------------------------------------------------------
\* A call of this name has read the state into buf.
HasRead(name) == At("opRead") /\ res = "OK" /\ call.name = name

\* It writes an edit of that state, which clears the attempts of some slots,
\* or returns LOXBOOT_ERR_INVALID_STATE.
WriteIf(allowed, st, cleared) ==
  IF allowed
    THEN Write(st, "opWrite") /\ ClearBoots(cleared) /\ UNCHANGED <<call, ret>>
    ELSE Finish("INVALID_STATE") /\ UNCHANGED boots

\* loxboot_confirm_boot: the slot that flash calls active, not ctx->active_slot.
Confirm ==
  /\ HasRead("confirm")
  /\ WriteIf(buf.slots[buf.active].state \in {"ACTIVE", "VALID"}, ConfirmEdit(buf), {buf.active})
  /\ UNCHANGED <<image, sess, ctx, trouble, refused>>

\* Faulty variant: the active slot may be committed.
CommitActive ==
  /\ HasRead("commit")
  /\ WriteIf(TRUE, CommitEdit(buf, call.slot, call.fw), {call.slot})
  /\ refused' = refused \ {call.slot}
  /\ UNCHANGED <<image, sess, ctx, trouble>>

\* loxboot_commit_slot: never the active slot.
Commit ==
  /\ HasRead("commit")
  /\ WriteIf(buf.active # call.slot, CommitEdit(buf, call.slot, call.fw), {call.slot})
  /\ refused' = IF buf.active # call.slot THEN refused \ {call.slot} ELSE refused
  /\ UNCHANGED <<image, sess, ctx, trouble>>

\* loxboot_invalidate_slot, when the state is readable.
Invalidate ==
  /\ HasRead("invalidate")
  /\ WriteIf(TRUE, InvalidateEdit(buf, call.slot), {call.slot})
  /\ UNCHANGED <<image, sess, ctx, trouble, refused>>

\* Faulty variant: a slot of any state may be requested.
RequestAnyState ==
  /\ HasRead("request")
  /\ WriteIf(TRUE, RequestEdit(buf, call.slot), {})
  /\ UNCHANGED <<image, sess, ctx, trouble, refused>>

\* loxboot_request_slot: it keeps the attempts of the slot.
Request ==
  /\ HasRead("request")
  /\ WriteIf(buf.slots[call.slot].state \in {"VALID", "ACTIVE"}, RequestEdit(buf, call.slot), {})
  /\ UNCHANGED <<image, sess, ctx, trouble, refused>>

\* The rest of loxboot_verify_slot.
Check ==
  /\ HasRead("verify")
  /\ \/ /\ buf.slots[call.slot].fw = NoFirmware
        /\ Finish("INVALID_ARG")
        /\ UNCHANGED trouble
     \/ /\ buf.slots[call.slot].fw # NoFirmware
        /\ Finish(IF ImageMatches(buf, call.slot) THEN "OK" ELSE "CRC_MISMATCH")
        /\ UNCHANGED trouble
     \/ /\ buf.slots[call.slot].fw # NoFirmware
        /\ FlashMayFail
        /\ Finish("FLASH")
        /\ trouble' = TRUE
  /\ UNCHANGED <<image, sess, ctx, boots, refused>>

\* The state cannot be read: only loxboot_invalidate_slot tries to repair it.
ReadFailed ==
  /\ At("opRead")
  /\ res # "OK"
  /\ IF res = "CORRUPT" /\ call.name = "invalidate"
       THEN /\ pc' = "opHeader"
            /\ Store!BeginHeaderRead
            /\ UNCHANGED <<call, ret>>
       ELSE Finish(res)
  /\ UNCHANGED <<image, sess, ctx, history>>

Repair ==
  /\ At("opHeader")
  /\ IF res = "OK"
       THEN /\ Write(RepairEdit(buf, call.slot), "opWrite")
            /\ ClearBoots({call.slot})
            /\ UNCHANGED <<call, ret>>
       ELSE Finish(res) /\ UNCHANGED boots
  /\ UNCHANGED <<image, sess, ctx, trouble, refused>>

\* The write has returned; loxboot_format_state leaves the context alone.
Written ==
  /\ At("opWrite")
  /\ Finish(res)
  /\ IF res = "OK" /\ call.name # "format"
       THEN ctx' = [ctx EXCEPT !.state = buf,
                               !.reason = IF call.name = "request" THEN "FORCED" ELSE @]
       ELSE UNCHANGED ctx
  /\ refused' = IF res = "OK" /\ call.name = "invalidate"
                  THEN refused \cup {call.slot} ELSE refused
  /\ UNCHANGED <<image, sess, trouble, boots>>

CallStep ==
  \/ Confirm
  \/ Commit
  \/ Invalidate
  \/ Request
  \/ Check
  \/ ReadFailed
  \/ Repair
  \/ Written
=============================================================================

--------------------------- MODULE DeviceBoot_proofs ----------------------------
(***************************************************************************)
(* Proofs about the boot sequence: CrashLoopBound, HandOffVerified,        *)
(* RefusedNeverRuns, GivesUpOnlyWithoutSlot, OneActiveSlot and             *)
(* RollbackUpToDate hold in every state of Device.  The invariant relates  *)
(* every copy of the boot state, the structure in RAM and the context to   *)
(* the hand-offs there have been (boots) and the refusals on record        *)
(* (refused).                                                              *)
(***************************************************************************)
EXTENDS DeviceCalls_proofs

\* A boot state that may lie in flash: well formed, it counts for each slot at least the
\* hand-offs that the slot has had, and names no refused slot as one to boot.
Fit(st, b, r) ==
  /\ st \in Store!State
  /\ WellFormed(st)
  /\ \A s \in Slot : st.slots[s].attempts >= b[s]
  /\ \A s \in r : st.slots[s].state \in {"EMPTY", "INVALID", "ROLLBACK"}

\* All there is of the boot state fits, the copies and the structure in RAM: whichever
\* of them a fault leaves to be read, no attempt and no refusal is forgotten.
FlashInv ==
  /\ primary # Corrupt => Fit(primary, boots, refused)
  /\ backup # Corrupt => Fit(backup, boots, refused)
  /\ buf # Corrupt => Fit(buf, boots, refused)

\* The labels of the boot sequence at which ctx.state is what was read or written last.
ContextLabel == BootLabel \ {"read", "format", "reread", "rereadUart"}

\* The labels behind step [4], at which the attempt is counted.
CountedLabel == {"attempt", "verify", "promote", "promoted", "record", "recorded"}

\* The labels behind step [5], at which the image is verified.
AcceptedLabel == {"promote", "promoted", "record", "recorded"}

\* How the context relates to flash in the boot sequence: it may run ahead of it only
\* by a slot that was recorded INVALID with a write that failed (the code ignores the
\* result of that write).
ContextInv ==
  /\ pc \in ContextLabel => ctx.state \in Good /\ Fit(ctx.state, boots, refused)
  /\ pc \in {"fallback", "attempt", "spoiled", "promoted", "recorded"} => buf = ctx.state
  /\ pc \in {"check", "rbRead"} => primary = ctx.state
  /\ pc = "select" => primary = ctx.state \/ (trouble /\ ActiveRecord.state = "INVALID")
  /\ pc = "recorded" => ctx.state.reason = ctx.reason

\* What the boot sequence has established about the active slot at each label.
LimitInv ==
  /\ pc \in {"rbRead", "rbWrite"} => ActiveRecord.attempts >= MaxAttempts
  /\ pc = "rbWrite" => buf = RollbackEdit(ctx.state, Active)
  /\ pc \in CountedLabel =>
       /\ ActiveRecord.attempts \in 1 .. MaxAttempts
       /\ ActiveRecord.attempts >= boots[Active] + 1
  /\ pc \in AcceptedLabel => ImageMatches(ctx.state, Active)
  /\ pc \in {"promote"} => ActiveRecord.state \notin {"EMPTY", "INVALID", "ROLLBACK"}
  /\ pc \in {"promoted", "record", "recorded"} => ActiveRecord.state \in {"ACTIVE", "VALID"}
  /\ pc \in {"fallback", "check", "rbRead", "attempt", "verify"} =>
       ActiveRecord.state \notin {"EMPTY", "INVALID"}

\* The writes that refuse a slot do record it as INVALID.
RefusalInv ==
  /\ pc = "spoiled" => ActiveRecord.state = "INVALID"
  /\ pc = "opWrite" /\ call.name = "invalidate" => buf.slots[call.slot].state = "INVALID"

\* A session ends with an error only if flash or the line failed, or if there was no boot
\* state to read.
EndInv ==
  pc = "uartEnd" /\ sess.err # "OK" =>
    trouble \/ (primary \notin Good /\ backup \notin Good)

\* What holds at a hand-off.
JumpedInv == HandOffVerified /\ RefusedNeverRuns /\ CrashLoopBound

-----------------------------------------------------------------------------
\* What the edits leave in the members of a state.
LEMMA SetFields ==
  ASSUME NEW st \in Store!State, NEW slot \in Slot, NEW v
  PROVE  /\ SetSlotState(st, slot, v).active = st.active
         /\ SetSlotState(st, slot, v).reason = st.reason
         /\ \A s \in Slot : /\ SetSlotState(st, slot, v).slots[s].state =
                                IF s = slot THEN v ELSE st.slots[s].state
                           /\ SetSlotState(st, slot, v).slots[s].attempts = st.slots[s].attempts
                           /\ SetSlotState(st, slot, v).slots[s].fw = st.slots[s].fw
BY StateTypes DEF StateOf, RecordOf, SetSlotState

\* An assignment to the members that are not records.
LEMMA HeadFields ==
  ASSUME NEW st \in Store!State, NEW a, NEW r
  PROVE  /\ [st EXCEPT !.active = a].active = a
         /\ [st EXCEPT !.active = a].slots = st.slots
         /\ [st EXCEPT !.reason = r].active = st.active
         /\ [st EXCEPT !.reason = r].slots = st.slots
         /\ [st EXCEPT !.reason = r].reason = r
         /\ [st EXCEPT !.active = a, !.reason = r].active = a
         /\ [st EXCEPT !.active = a, !.reason = r].slots = st.slots
BY StateTypes DEF StateOf

\* What step [2], the fallback to the other slot, leaves in the members of a state.
LEMMA FallbackFields ==
  ASSUME NEW st \in Store!State
  PROVE  /\ FallbackEdit(st).active = Other(st.active)
         /\ \A s \in Slot :
              /\ FallbackEdit(st).slots[s].state = IF s = st.active THEN st.slots[s].state ELSE "ACTIVE"
              /\ FallbackEdit(st).slots[s].attempts = st.slots[s].attempts
              /\ FallbackEdit(st).slots[s].fw = st.slots[s].fw
<1>1. st.active \in Slot /\ Other(st.active) \in Slot
  BY StateParts, Slots
<1>2. SetSlotState(st, Other(st.active), "ACTIVE") \in Store!State
  BY <1>1, EditStates DEF SlotState
<1> QED
  BY <1>1, <1>2, SetFields, HeadFields, Slots DEF FallbackEdit

\* What step [4], the counting of an attempt, leaves in them.
LEMMA AttemptFields ==
  ASSUME NEW st \in Store!State
  PROVE  /\ AttemptEdit(st).active = st.active
         /\ \A s \in Slot :
              /\ AttemptEdit(st).slots[s].state = st.slots[s].state
              /\ AttemptEdit(st).slots[s].attempts = st.slots[s].attempts + IF s = st.active THEN 1 ELSE 0
              /\ AttemptEdit(st).slots[s].fw = st.slots[s].fw
BY StateTypes DEF StateOf, RecordOf, AttemptEdit

\* What loxboot_run_rollback leaves in them.
LEMMA RollbackFields ==
  ASSUME NEW st \in Store!State, NEW slot \in Slot
  PROVE  /\ RollbackEdit(st, slot).active = Other(slot)
         /\ \A s \in Slot :
              /\ RollbackEdit(st, slot).slots[s].state = IF s = slot THEN "ROLLBACK" ELSE "ACTIVE"
              /\ RollbackEdit(st, slot).slots[s].attempts = st.slots[s].attempts
              /\ RollbackEdit(st, slot).slots[s].fw = st.slots[s].fw
<1>1. Other(slot) \in Slot
  BY Slots
<1>2. SetSlotState(st, slot, "ROLLBACK") \in Store!State
  BY <1>1, EditStates DEF SlotState
<1>3. SetSlotState(SetSlotState(st, slot, "ROLLBACK"), Other(slot), "ACTIVE") \in Store!State
  BY <1>1, <1>2, EditStates DEF SlotState
<1> QED
  BY <1>1, <1>2, <1>3, SetFields, HeadFields, Slots DEF RollbackEdit

\* What loxboot_commit_slot leaves in them.
LEMMA CommitFields ==
  ASSUME NEW st \in Store!State, NEW slot \in Slot, NEW fw \in Firmware \cup {NoFirmware}
  PROVE  /\ CommitEdit(st, slot, fw).active = st.active
         /\ CommitEdit(st, slot, fw).slots[slot] = [state |-> "PENDING", attempts |-> 0, fw |-> fw]
         /\ CommitEdit(st, slot, fw).slots[slot].state = "PENDING"
         /\ CommitEdit(st, slot, fw).slots[slot].attempts = 0
         /\ \A s \in Slot \ {slot} : CommitEdit(st, slot, fw).slots[s] = st.slots[s]
BY StateTypes DEF StateOf, CommitEdit

\* What loxboot_invalidate_slot leaves in them.
LEMMA InvalidateFields ==
  ASSUME NEW st \in Store!State, NEW slot \in Slot
  PROVE  /\ InvalidateEdit(st, slot).active = st.active
         /\ InvalidateEdit(st, slot).slots[slot].state = "INVALID"
         /\ InvalidateEdit(st, slot).slots[slot].attempts = 0
         /\ \A s \in Slot \ {slot} : InvalidateEdit(st, slot).slots[s] = st.slots[s]
BY StateTypes DEF StateOf, RecordOf, InvalidateEdit, SetSlotState

\* What its repair of a boot state with a bad record leaves in them.
LEMMA RepairFields ==
  ASSUME NEW st \in Store!State, NEW slot \in Slot
  PROVE  /\ RepairEdit(st, slot).active = st.active
         /\ RepairEdit(st, slot).slots[slot].state = "INVALID"
         /\ RepairEdit(st, slot).slots[slot].attempts = 0
         /\ \A s \in Slot \ {slot} :
              /\ RepairEdit(st, slot).slots[s].state =
                   IF st.slots[s].state = "UNSEALED" THEN "VALID" ELSE st.slots[s].state
              /\ RepairEdit(st, slot).slots[s].attempts = st.slots[s].attempts
BY StateTypes DEF StateOf, RecordOf, RepairEdit, Seal, BlankRecord

\* What loxboot_confirm_boot leaves in them.
LEMMA ConfirmFields ==
  ASSUME NEW st \in Store!State
  PROVE  /\ ConfirmEdit(st).active = st.active
         /\ ConfirmEdit(st).slots[st.active].state = "VALID"
         /\ ConfirmEdit(st).slots[st.active].attempts = 0
         /\ \A s \in Slot \ {st.active} : ConfirmEdit(st).slots[s] = st.slots[s]
BY StateTypes DEF StateOf, RecordOf, ConfirmEdit, SetSlotState

\* What loxboot_request_slot leaves in them.
LEMMA RequestFields ==
  ASSUME NEW st \in Store!State, NEW slot \in Slot
  PROVE  /\ RequestEdit(st, slot).active = slot
         /\ \A s \in Slot :
              /\ RequestEdit(st, slot).slots[s].state =
                   CASE s = slot -> "ACTIVE"
                     [] s # slot /\ s = st.active /\ st.slots[s].state = "ACTIVE" -> "VALID"
                     [] OTHER -> st.slots[s].state
              /\ RequestEdit(st, slot).slots[s].attempts = st.slots[s].attempts
<1>1. st.active \in Slot
  BY StateParts
<1> DEFINE st1 == IF st.active # slot THEN DemoteActive(st) ELSE st
<1>2. st1 \in Store!State
  BY <1>1, EditStates DEF SlotState, DemoteActive
<1>3. \A s \in Slot :
        /\ st1.slots[s].state =
             IF s # slot /\ s = st.active /\ st.slots[s].state = "ACTIVE"
               THEN "VALID" ELSE st.slots[s].state
        /\ st1.slots[s].attempts = st.slots[s].attempts
  BY <1>1, SetFields DEF DemoteActive
<1> HIDE DEF st1
<1>4. SetSlotState(st1, slot, "ACTIVE") \in Store!State
  BY <1>2, EditStates DEF SlotState
<1>5. RequestEdit(st, slot) =
        [SetSlotState(st1, slot, "ACTIVE") EXCEPT !.active = slot, !.reason = "FORCED"]
  BY DEF RequestEdit, st1
<1> QED
  BY <1>2, <1>3, <1>4, <1>5, SetFields, HeadFields

-----------------------------------------------------------------------------
\* The hand-offs that each slot has had.
Counts == [Slot -> Nat]

\* A state that fits goes on to fit when attempts are cleared or refusals forgotten.
LEMMA FitLess ==
  ASSUME NEW b \in Counts, NEW c \in Counts, NEW r, NEW q,
         \A s \in Slot : c[s] <= b[s], q \subseteq r, r \subseteq Slot,
         NEW st, Fit(st, b, r)
  PROVE  Fit(st, c, q)
<1>1. \A s \in Slot : st.slots[s].attempts \in Nat
  BY StateParts, TypesAssumption DEF Fit
<1> QED
  BY <1>1 DEF Fit, Counts

\* What the boot sequence writes fits, if it starts from what fits.
LEMMA FitBoot ==
  ASSUME NEW b \in Counts, NEW r \in SUBSET Slot, NEW st, Fit(st, b, r)
  PROVE  /\ /\ st.slots[st.active].state \in {"EMPTY", "INVALID"}
            /\ st.slots[Other(st.active)].state \in {"VALID", "ACTIVE"}
            => Fit(FallbackEdit(st), b, r)
         /\ st.slots[st.active].attempts < MaxAttempts => Fit(AttemptEdit(st), b, r)
         /\ st.slots[Other(st.active)].state = "VALID" => Fit(RollbackEdit(st, st.active), b, r)
         /\ Fit(SetSlotState(st, st.active, "INVALID"), b, r)
         /\ st.slots[st.active].state = "PENDING" => Fit(SetSlotState(st, st.active, "ACTIVE"), b, r)
         /\ \A v \in Reason : Fit([st EXCEPT !.reason = v], b, r)
<1>1. /\ st \in Store!State /\ st.active \in Slot /\ Other(st.active) \in Slot
      /\ Other(st.active) # st.active /\ Slot = {st.active, Other(st.active)}
      /\ Other(Other(st.active)) = st.active
      /\ \A s \in Slot : st.slots[s].attempts \in Nat
  BY StateParts, Slots, TypesAssumption DEF Fit
<1>2. /\ st.slots[Other(st.active)].state # "ACTIVE"
      /\ st.slots[st.active].state # "ROLLBACK"
      /\ \A s \in Slot : st.slots[s].attempts >= b[s]
      /\ \A s \in r : st.slots[s].state \in {"EMPTY", "INVALID", "ROLLBACK"}
  BY DEF Fit, WellFormed
<1>3. ASSUME st.slots[st.active].state \in {"EMPTY", "INVALID"},
             st.slots[Other(st.active)].state \in {"VALID", "ACTIVE"}
      PROVE  Fit(FallbackEdit(st), b, r)
  BY <1>1, <1>2, <1>3, FallbackFields, EditStates DEF Fit, WellFormed
<1>4. ASSUME st.slots[st.active].attempts < MaxAttempts PROVE Fit(AttemptEdit(st), b, r)
  BY <1>1, <1>2, <1>4, AttemptFields, EditStates DEF Fit, WellFormed, Counts
<1>5. ASSUME st.slots[Other(st.active)].state = "VALID" PROVE Fit(RollbackEdit(st, st.active), b, r)
  BY <1>1, <1>2, <1>5, RollbackFields, EditStates DEF Fit, WellFormed
<1>6. Fit(SetSlotState(st, st.active, "INVALID"), b, r)
  BY <1>1, <1>2, SetFields, EditStates DEF Fit, WellFormed, SlotState
<1>7. ASSUME st.slots[st.active].state = "PENDING" PROVE Fit(SetSlotState(st, st.active, "ACTIVE"), b, r)
  BY <1>1, <1>2, <1>7, SetFields, EditStates DEF Fit, WellFormed, SlotState
<1>8. \A v \in Reason : Fit([st EXCEPT !.reason = v], b, r)
  <2> TAKE v \in Reason
  <2>1. [st EXCEPT !.reason = v] \in Store!State
    BY <1>1, EditStates
  <2>2. [st EXCEPT !.reason = v].active = st.active /\ [st EXCEPT !.reason = v].slots = st.slots
    BY <1>1, HeadFields
  <2> QED
    BY <1>1, <1>2, <2>1, <2>2 DEF Fit, WellFormed
<1> QED
  BY <1>3, <1>4, <1>5, <1>6, <1>7, <1>8

\* What the calls of the API write fits, with the history they leave.
Cleared(b, slots) == [s \in Slot |-> IF s \in slots THEN 0 ELSE b[s]]

\* What a call of the API writes fits, if it starts from what fits.
LEMMA FitCall ==
  ASSUME NEW b \in Counts, NEW r \in SUBSET Slot, NEW st, Fit(st, b, r), NEW slot \in Slot
  PROVE  /\ \A fw \in Firmware \cup {NoFirmware} : st.active # slot =>
              Fit(CommitEdit(st, slot, fw), Cleared(b, {slot}), r \ {slot})
         /\ Fit(InvalidateEdit(st, slot), Cleared(b, {slot}), r)
         /\ Fit(RepairEdit(st, slot), Cleared(b, {slot}), r)
         /\ st.slots[st.active].state \in {"ACTIVE", "VALID"} =>
              Fit(ConfirmEdit(st), Cleared(b, {st.active}), r)
         /\ st.slots[slot].state \in {"VALID", "ACTIVE"} => Fit(RequestEdit(st, slot), Cleared(b, {}), r)
<1>1. /\ st \in Store!State /\ st.active \in Slot /\ Other(st.active) \in Slot
      /\ Other(st.active) # st.active /\ Slot = {st.active, Other(st.active)}
      /\ Other(Other(st.active)) = st.active
      /\ Slot = {slot, Other(slot)} /\ Other(slot) \in Slot /\ Other(slot) # slot
      /\ \A s \in Slot : st.slots[s].attempts \in Nat
  BY StateParts, Slots, TypesAssumption DEF Fit
<1>2. /\ st.slots[Other(st.active)].state # "ACTIVE"
      /\ st.slots[st.active].state # "ROLLBACK"
      /\ \A s \in Slot : st.slots[s].attempts >= b[s]
      /\ \A s \in r : st.slots[s].state \in {"EMPTY", "INVALID", "ROLLBACK"}
  BY DEF Fit, WellFormed
<1>3. ASSUME NEW fw \in Firmware \cup {NoFirmware}, st.active # slot
      PROVE  Fit(CommitEdit(st, slot, fw), Cleared(b, {slot}), r \ {slot})
  <2>1. CommitEdit(st, slot, fw) \in Store!State
    BY <1>1, EditStates
  <2>2. /\ CommitEdit(st, slot, fw).active = st.active
        /\ CommitEdit(st, slot, fw).slots[slot].state = "PENDING"
        /\ CommitEdit(st, slot, fw).slots[slot].attempts = 0
        /\ CommitEdit(st, slot, fw).slots[st.active] = st.slots[st.active]
    <3>1. st \in Store!State /\ slot \in Slot /\ st.active \in Slot \ {slot}
      BY <1>1, <1>3
    <3>2. CommitEdit(st, slot, fw).active = st.active
      BY <3>1, CommitFields
    <3>3. CommitEdit(st, slot, fw).slots[slot].state = "PENDING"
      BY <3>1, CommitFields
    <3>4. CommitEdit(st, slot, fw).slots[slot].attempts = 0
      BY <3>1, CommitFields
    <3>5. \A s \in Slot \ {slot} : CommitEdit(st, slot, fw).slots[s] = st.slots[s]
      BY <3>1, CommitFields
    <3> QED
      BY <3>1, <3>2, <3>3, <3>4, <3>5
  <2> QED
    BY <1>1, <1>2, <1>3, <2>1, <2>2 DEF Fit, WellFormed, Cleared
<1>4. Fit(InvalidateEdit(st, slot), Cleared(b, {slot}), r)
  BY <1>1, <1>2, InvalidateFields, EditStates DEF Fit, WellFormed, Cleared
<1>5. Fit(RepairEdit(st, slot), Cleared(b, {slot}), r)
  BY <1>1, <1>2, RepairFields, EditStates DEF Fit, WellFormed, Cleared
<1>6. ASSUME st.slots[st.active].state \in {"ACTIVE", "VALID"}
      PROVE  Fit(ConfirmEdit(st), Cleared(b, {st.active}), r)
  BY <1>1, <1>2, <1>6, ConfirmFields, EditStates DEF Fit, WellFormed, Cleared
<1>7. ASSUME st.slots[slot].state \in {"VALID", "ACTIVE"}
      PROVE  Fit(RequestEdit(st, slot), Cleared(b, {}), r)
  BY <1>1, <1>2, <1>7, RequestFields, EditStates DEF Fit, WellFormed, Cleared
<1> QED
  BY <1>3, <1>4, <1>5, <1>6, <1>7

\* A new boot state fits once all attempts are cleared.
LEMMA FitDefault ==
  ASSUME NEW slot \in Slot, NEW r \in SUBSET Slot
  PROVE  Fit(DefaultState(slot), Cleared(boots, Slot), r)
BY DefaultTypes, StateTypes, Slots DEF DefaultState, BlankRecord, Fit, WellFormed, Cleared

-----------------------------------------------------------------------------
\* The invariant of the boot sequence.  None of the properties is inductive by itself:
\* CrashLoopBound at the jump needs that every copy that can be read counts the attempt,
\* HandOffVerified what was established at each label before, RefusedNeverRuns that no
\* stale copy forgets a refusal.
BootInv ==
  CallInv /\ FlashInv /\ ContextInv /\ LimitInv /\ RefusalInv /\ EndInv /\ JumpedInv
    /\ GivesUpOnlyWithoutSlot

\* Nothing that the store does while a call is under way concerns its client.
LEMMA StoreMoves ==
  ASSUME Store!TypeOK, WaitInv, CopyInv, StoreStep \/ FlashError
  PROVE  /\ pc \in StoreLabel
         /\ {primary', backup', buf'} \subseteq {primary, backup, buf, Corrupt}
         /\ pc \in WriteLabel => buf' = buf
         /\ pc \in ReadLabel /\ primary \in Good => primary' = primary /\ backup' = backup
         /\ UNCHANGED <<pc, ctx, image, call, ret, sess, boots, refused>>
         /\ trouble => trouble'
<1>a. /\ pc \in StoreLabel
  BY DEF WaitInv, StoreStep, FlashError, Store!Step, Store!FlashError, Store!ReadPrimary,
     Store!ReadBackup, Store!HeaderPrimary, Store!HeaderBackup, Store!ErasePrimary,
        Store!WritePrimary,
     Store!RestorePrimary, Store!EraseBackup, Store!WriteBackup, Store!ErasingPrimary
<1>b. UNCHANGED <<pc, ctx, image, call, ret, sess, boots, refused>> /\ (trouble => trouble')
  BY DEF StoreStep, FlashError, appVars, history
<1>1. CASE StoreStep
  <2>1. Store!Step
    BY <1>1 DEF StoreStep
  <2>2. CASE Store!ReadPrimary \/ Store!HeaderPrimary
    BY <1>a, <1>b, <2>2 DEF Store!ReadPrimary, Store!HeaderPrimary, WaitInv,
       RestorePhase, WritePhase, ReadLabel, WriteLabel
  <2>3. CASE Store!ReadBackup \/ Store!HeaderBackup
    BY <1>a, <1>b, <2>3 DEF Store!ReadBackup, Store!HeaderBackup, WaitInv, CopyInv,
       RestorePhase, WritePhase, ReadLabel, WriteLabel
  <2>4. CASE Store!ErasePrimary \/ Store!WritePrimary \/ Store!RestorePrimary
    BY <1>a, <1>b, <2>4 DEF Store!ErasePrimary, Store!WritePrimary, Store!RestorePrimary,
       Store!ErasingPrimary, WaitInv, CopyInv, RestorePhase, WritePhase, ReadLabel,
       WriteLabel
  <2>5. CASE Store!EraseBackup \/ Store!WriteBackup
    BY <1>a, <1>b, <2>5 DEF Store!EraseBackup, Store!WriteBackup, WaitInv, CopyInv,
       RestorePhase, WritePhase, ReadLabel, WriteLabel
  <2> QED
    BY <2>1, <2>2, <2>3, <2>4, <2>5 DEF Store!Step
<1>2. CASE FlashError
  <2>1. buf' = buf /\ Store!CutShort
    BY <1>2 DEF FlashError, Store!FlashError
  <2>2. /\ primary' \in {primary, buf, Corrupt} /\ backup' \in {backup, buf, Corrupt}
        /\ phase \notin Store!ErasingPrimary \cup Store!WritingPrimary => primary' = primary
        /\ phase \notin {"eraseB", "writeB"} => backup' = backup
    BY <2>1, CutShortCases
  <2>3. ASSUME pc \in ReadLabel, primary \in Good PROVE primary' = primary /\ backup' = backup
    BY <2>2, <2>3 DEF WaitInv, CopyInv, RestorePhase, ReadLabel, WriteLabel,
       Store!ErasingPrimary, Store!WritingPrimary
  <2> QED
    BY <1>a, <1>b, <2>1, <2>2, <2>3
<1> QED
  BY <1>1, <1>2

\* So it is for the device.
LEMMA QuietMoves ==
  ASSUME CallInv, StoreStep \/ FlashError
  PROVE  /\ pc \in StoreLabel
         /\ {primary', backup', buf'} \subseteq {primary, backup, buf, Corrupt}
         /\ pc \in WriteLabel => buf' = buf
         /\ pc \in ReadLabel /\ primary \in Good => primary' = primary /\ backup' = backup
         /\ UNCHANGED <<pc, ctx, image, call, ret, sess, boots, refused>>
         /\ trouble => trouble'
BY StoreMoves DEF CallInv, TypeOK

\* The steps and the errors of the store keep the invariant.
LEMMA QuietKeeps == BootInv /\ (StoreStep \/ FlashError) => BootInv'
<1> SUFFICES ASSUME BootInv, StoreStep \/ FlashError PROVE BootInv'
  OBVIOUS
<1>a. CallInv'
  BY StoreKeeps, ErrorKeeps DEF BootInv
<1>b. /\ pc \in StoreLabel
      /\ {primary', backup', buf'} \subseteq {primary, backup, buf, Corrupt}
      /\ pc \in WriteLabel => buf' = buf
      /\ pc \in ReadLabel /\ primary \in Good => primary' = primary /\ backup' = backup
      /\ pc' = pc /\ ctx' = ctx /\ image' = image /\ call' = call /\ sess' = sess
      /\ boots' = boots /\ refused' = refused
      /\ trouble => trouble'
  BY QuietMoves DEF BootInv
<1>1. FlashInv'
  BY <1>b DEF BootInv, FlashInv
<1>2. ContextInv'
  BY <1>b DEF BootInv, ContextInv, ContextLabel, BootLabel, StoreLabel, ReadLabel, WriteLabel,
     ActiveRecord, Active
<1>3. LimitInv'
  BY <1>b DEF BootInv, LimitInv, CountedLabel, AcceptedLabel, StoreLabel, ReadLabel,
     WriteLabel, ActiveRecord, Active, ImageMatches
<1>4. RefusalInv' /\ EndInv'
  BY <1>b DEF BootInv, RefusalInv, EndInv, StoreLabel, ReadLabel, WriteLabel, ActiveRecord, Active
<1>5. JumpedInv' /\ GivesUpOnlyWithoutSlot'
  BY <1>b DEF BootInv, JumpedInv, HandOffVerified, RefusedNeverRuns, CrashLoopBound,
     GivesUpOnlyWithoutSlot, StoreLabel, ReadLabel, WriteLabel
<1> QED
  BY <1>a, <1>1, <1>2, <1>3, <1>4, <1>5 DEF BootInv

\* So does a power cut: what is torn is Corrupt, and the rest fits as before.
LEMMA PowerCutKeeps == BootInv /\ PowerCut => BootInv'
<1> SUFFICES ASSUME BootInv, PowerCut PROVE BootInv'
  OBVIOUS
<1>a. CallInv'
  BY CutKeeps DEF BootInv
<1>b. /\ {primary', backup', buf'} \subseteq {primary, backup, buf, Corrupt}
      /\ pc' = "off" /\ boots' = boots /\ refused' = refused
  BY CutShortCases DEF BootInv, CallInv, TypeOK, PowerCut, Store!PowerCut, history
<1>1. FlashInv'
  BY <1>b DEF BootInv, FlashInv
<1>2. ContextInv' /\ LimitInv' /\ RefusalInv' /\ EndInv' /\ GivesUpOnlyWithoutSlot'
  BY <1>b DEF ContextInv, ContextLabel, BootLabel, LimitInv, CountedLabel, AcceptedLabel,
     RefusalInv, EndInv, GivesUpOnlyWithoutSlot
<1>3. JumpedInv'
  BY <1>b DEF BootInv, JumpedInv, HandOffVerified, RefusedNeverRuns, CrashLoopBound
<1> QED
  BY <1>a, <1>1, <1>2, <1>3 DEF BootInv

\* At the labels outside the boot sequence there is nothing to say.
LEMMA Elsewhere ==
  ASSUME pc' \notin ContextLabel \cup {"uartEnd", "jumped", "fatal"}, CrashLoopBound'
  PROVE  ContextInv' /\ LimitInv' /\ EndInv' /\ JumpedInv' /\ GivesUpOnlyWithoutSlot'
         /\ (pc' # "opWrite" => RefusalInv')
BY DEF ContextInv, ContextLabel, BootLabel, LimitInv, CountedLabel, AcceptedLabel, EndInv,
   JumpedInv,
   HandOffVerified, RefusedNeverRuns, GivesUpOnlyWithoutSlot, RefusalInv

\* A session calls the API, to go on at l.
LEMMA AskParts ==
  ASSUME NEW name, NEW fw, NEW s \in Session, NEW l, Ask(name, fw, s, l)
  PROVE  /\ pc' \in {l, "opRead"}
         /\ sess' = [s EXCEPT !.back = l] /\ sess'.back = l
BY DEF Ask, Begin, Return, Goto, Read, Session

\* Only these steps end a session.
LEMMA SessionEnds ==
  ASSUME CallInv, SessionStep \/ HostStep \/ Timeout, pc' = "uartEnd"
  PROVE  \/ SessionStart \/ Timeout \/ ReceiveError \/ SendError
         \/ \E f \in Frames : RebootFrame(f)
<1>a. /\ sess \in Session /\ sess.draft \in Draft /\ sess.frame \in Frames \cup {NoFrame}
      /\ \A f \in Frames : Received(f) \in Session
      /\ \A d \in Draft : [sess EXCEPT !.draft = d] \in Session
  BY SessionParts DEF CallInv, TypeOK, Received
<1>b. \A s \in Session : Refuse(s) => pc' # "uartEnd"
  BY AskParts DEF Refuse
<1>1. CASE Inquired \/ Refused \/ Aborted \/ Sent \/ EraseSlot \/ ProgramChunk
  BY <1>1 DEF Inquired, Refused, Aborted, Sent, EraseSlot, ProgramChunk, Answer, Goto
<1>2. CASE EraseFails
  BY <1>2, <1>a, <1>b DEF EraseFails
<1>3. CASE ProgramFails
  <2>1. PICK d \in {sess.draft, Torn(sess.draft, sess.frame), Programmed(sess.draft, sess.frame)} :
          Refuse([sess EXCEPT !.draft = d])
    BY <1>3 DEF ProgramFails
  <2>2. d \in Draft
    BY <1>a, DraftTypes
  <2> QED
    BY <1>a, <1>b, <2>1, <2>2
<1>4. CASE Committed \/ Verified
  BY <1>4, <1>a, <1>b, AskParts DEF Committed, Verified, Answer, Goto
<1>5. CASE DropFrame
  <2>1. Ask("invalidate", NoFirmware, sess, "listen")
    BY <1>5 DEF DropFrame
  <2> QED
    BY <2>1, <1>a, AskParts
<1>6. ASSUME NEW f \in Frames, RefuseFrame(f) \/ Inquire(f) \/ WriteFrame(f) PROVE FALSE
  BY <1>6 DEF RefuseFrame, Inquire, WriteFrame, Answer, Goto, Read
<1>7. ASSUME NEW f \in Frames, CommitFrame(f) \/ AbortFrame(f) PROVE FALSE
  <2>1. Received(f) \in Session
    BY <1>a
  <2>2. \/ Ask("commit", f.fw, Received(f), "committed")
        \/ Refuse(Received(f))
        \/ Ask("invalidate", NoFirmware, Received(f), "aborted")
    BY <1>7 DEF CommitFrame, AbortFrame
  <2>3. CASE Ask("commit", f.fw, Received(f), "committed")
    BY <2>1, <2>3, AskParts
  <2>4. CASE Ask("invalidate", NoFirmware, Received(f), "aborted")
    BY <2>1, <2>4, AskParts
  <2> QED
    BY <2>1, <2>2, <2>3, <2>4, <1>b
<1> QED
  BY <1>1, <1>2, <1>3, <1>4, <1>5, <1>6, <1>7 DEF SessionStep, HostStep, Command

\* So do the steps of a session, which leave flash to the calls they make.
LEMMA SessionKeeps == BootInv /\ (SessionStep \/ HostStep \/ Timeout) => BootInv'
<1> SUFFICES ASSUME BootInv, SessionStep \/ HostStep \/ Timeout PROVE BootInv'
  OBVIOUS
<1>a. CallInv' /\ ClientStep
  BY ClientKeeps DEF BootInv, Client
<1>b. pc' \in SessionLabel \cup {"opRead"} /\ boots' = boots /\ refused' = refused
  BY SessionClient, SessionAt DEF BootInv
<1>c. primary' = primary /\ backup' = backup /\ buf' = buf
  BY <1>a, <1>b DEF ClientStep, SessionLabel, WriteLabel
<1>1. FlashInv' /\ CrashLoopBound'
  BY <1>b, <1>c DEF BootInv, FlashInv, JumpedInv, CrashLoopBound
<1>2. EndInv'
  <2> SUFFICES ASSUME pc' = "uartEnd", sess'.err # "OK"
               PROVE  trouble' \/ (primary' \notin Good /\ backup' \notin Good)
    BY DEF EndInv
  <2>1. CASE SessionStart
    <3>1. res # "OK" /\ sess' = [NoSession EXCEPT !.err = res] /\ trouble' = trouble
      BY <2>1 DEF SessionStart, EndSession, Goto, history
    <3> QED
      BY <2>1, <3>1, <1>c DEF SessionStart, At, BootInv, CallInv, ReturnInv, ReadLabel
  <2>2. CASE Timeout \/ \E f \in Frames : RebootFrame(f)
    <3>1. sess' \in Session /\ sess'.err = "OK"
      BY <1>a, <2>2 DEF CallInv, TypeOK, Timeout, RebootFrame, EndSession, Session
    <3> QED
      BY <3>1
  <2>3. CASE ReceiveError \/ SendError
    BY <2>3 DEF ReceiveError, SendError
  <2> QED
    BY <2>1, <2>2, <2>3, SessionEnds DEF BootInv
<1>3. ContextInv' /\ LimitInv' /\ JumpedInv' /\ GivesUpOnlyWithoutSlot' /\ RefusalInv'
  BY <1>b, <1>1 DEF ContextInv, ContextLabel, BootLabel, LimitInv, CountedLabel,
     AcceptedLabel, JumpedInv,
   HandOffVerified, RefusedNeverRuns, GivesUpOnlyWithoutSlot, RefusalInv, SessionLabel
<1> QED
  BY <1>a, <1>1, <1>2, <1>3 DEF BootInv

-----------------------------------------------------------------------------
\* Attempts that are cleared and refusals that are forgotten do not hurt.
LEMMA FlashLess ==
  ASSUME TypeOK, FlashInv, NEW slots, boots' = Cleared(boots, slots), refused' \subseteq refused,
         primary' = primary, backup' = backup, buf' # Corrupt => Fit(buf', boots', refused')
  PROVE  FlashInv' /\ \A s \in Slot : boots'[s] <= boots[s]
<1>1. boots \in Counts /\ refused \in SUBSET Slot
  BY DEF TypeOK, Counts
<1>2. boots' \in Counts /\ \A s \in Slot : boots'[s] <= boots[s]
  BY <1>1 DEF Counts, Cleared
<1>3. \A st : Fit(st, boots, refused) => Fit(st, boots', refused')
  BY <1>1, <1>2, FitLess
<1> QED
  BY <1>2, <1>3 DEF FlashInv

\* A call of the API keeps the invariant.
LEMMA CallKeeps == BootInv /\ CallStep => BootInv'
<1> SUFFICES ASSUME BootInv, CallStep PROVE BootInv'
  OBVIOUS
<1>a. CallInv' /\ ClientStep
  BY ClientKeeps DEF BootInv, Client
<1>b. /\ phase = "idle" /\ pc \in CallLabel /\ pc' \in CallLabel \cup {sess.back}
      /\ primary' = primary /\ backup' = backup
      /\ sess.back \notin BootLabel \cup CallLabel \cup {"uartEnd", "jumped", "fatal"}
  <2>1. CallInv /\ sess \in Session
    BY DEF BootInv, CallInv, TypeOK
  <2>2. sess.back \notin BootLabel \cup CallLabel \cup {"uartEnd", "jumped", "fatal"}
    BY <2>1 DEF Session, BootLabel, CallLabel
  <2> QED
    BY <1>a, <2>1, <2>2, CallAt, CallClient DEF ClientStep
<1>c. /\ boots \in Counts /\ refused \in SUBSET Slot /\ call \in AllCalls /\ call.slot \in Slot
      /\ call.fw \in Firmware \cup {NoFirmware}
      /\ buf # Corrupt => Fit(buf, boots, refused)
      /\ boots = Cleared(boots, {})
  BY <1>b, CallParts DEF BootInv, CallInv, TypeOK, RunningInv, Counts, FlashInv, Cleared
<1>d. /\ pc = "opRead" /\ res = "OK" => buf # Corrupt /\ buf \in Store!State
      /\ pc = "opHeader" /\ res = "OK" => buf # Corrupt /\ buf \in Store!State
      /\ pc = "opWrite" => buf \in Store!State
  BY <1>b, StateTypes DEF BootInv, CallInv, ReturnInv, CopyInv, ReadLabel, WriteLabel
<1> DEFINE Keeps == FlashInv' /\ (\A s \in Slot : boots'[s] <= boots[s]) /\ RefusalInv'
<1>e. ASSUME NEW slots, boots' = Cleared(boots, slots), refused' \subseteq refused,
             buf' # Corrupt => Fit(buf', boots', refused'), RefusalInv'
      PROVE  Keeps
  BY <1>b, <1>e, FlashLess DEF BootInv, CallInv
<1>f. ASSUME UNCHANGED <<boots, refused, buf>>, pc' # "opWrite" PROVE Keeps
  <2>1. RefusalInv'
    BY <1>b, <1>f DEF RefusalInv, BootLabel, CallLabel
  <2> QED
    BY <1>c, <1>e, <1>f, <2>1
<1>h. Keeps => BootInv'
  <2> SUFFICES ASSUME Keeps PROVE BootInv'
    OBVIOUS
  <2>1. boots' \in [Slot -> Nat]
    BY <1>a DEF CallInv, TypeOK
  <2>2. CrashLoopBound'
    BY <1>c, <2>1, TypesAssumption DEF BootInv, JumpedInv, CrashLoopBound, Counts
  <2>3. pc' \notin ContextLabel \cup {"uartEnd", "jumped", "fatal"}
    BY <1>b DEF CallLabel, ContextLabel, BootLabel
  <2> QED
    BY <1>a, <2>2, <2>3, Elsewhere DEF BootInv
<1> SUFFICES Keeps
  BY <1>h
<1>g. ASSUME NEW r, Finish(r) PROVE pc' # "opWrite" /\ buf' = buf
  BY <1>b, <1>g DEF Finish, Return, Goto, storeVars, CallLabel
<1> USE DEF At, history
<1>1. CASE Confirm
  <2>1. CASE buf.slots[buf.active].state \in {"ACTIVE", "VALID"}
    <3>1. /\ buf' = ConfirmEdit(buf) /\ boots' = Cleared(boots, {buf.active}) /\ refused' = refused
          /\ pc' = "opWrite" /\ call' = call /\ call.name = "confirm"
      BY <1>1, <2>1 DEF Confirm, WriteIf, Write, Store!BeginWrite, ClearBoots, Cleared, HasRead
    <3>2. RefusalInv'
      BY <3>1 DEF RefusalInv
    <3>3. Fit(ConfirmEdit(buf), Cleared(boots, {buf.active}), refused)
      BY <1>1, <1>c, <1>d, <2>1, FitCall DEF Confirm, HasRead
    <3> QED
      BY <1>e, <3>1, <3>2, <3>3
  <2>2. CASE buf.slots[buf.active].state \notin {"ACTIVE", "VALID"}
    BY <1>1, <2>2, <1>f, <1>g DEF Confirm, WriteIf
  <2> QED
    BY <2>1, <2>2
<1>2. CASE Commit
  <2>1. CASE buf.active # call.slot
    <3>1. /\ buf' = CommitEdit(buf, call.slot, call.fw) /\ boots' = Cleared(boots, {call.slot})
          /\ refused' = refused \ {call.slot}
          /\ pc' = "opWrite" /\ call' = call /\ call.name = "commit"
      BY <1>2, <2>1 DEF Commit, WriteIf, Write, Store!BeginWrite, ClearBoots, Cleared, HasRead
    <3>2. RefusalInv'
      BY <3>1 DEF RefusalInv
    <3>3. Fit(CommitEdit(buf, call.slot, call.fw), Cleared(boots, {call.slot}), refused \ {call.slot})
      BY <1>2, <1>c, <1>d, <2>1, FitCall DEF Commit, HasRead
    <3> QED
      BY <1>e, <3>1, <3>2, <3>3
  <2>2. CASE buf.active = call.slot
    BY <1>2, <2>2, <1>f, <1>g DEF Commit, WriteIf
  <2> QED
    BY <2>1, <2>2
<1>3. CASE Invalidate
  <2>1. /\ buf' = InvalidateEdit(buf, call.slot)
        /\ boots' = Cleared(boots, {call.slot}) /\ refused' = refused
        /\ pc' = "opWrite" /\ call' = call
    BY <1>3 DEF Invalidate, WriteIf, Write, Store!BeginWrite, ClearBoots, Cleared, HasRead
  <2>2. RefusalInv'
    BY <1>3, <1>c, <1>d, <2>1, InvalidateFields DEF RefusalInv, Invalidate, HasRead
  <2>3. Fit(InvalidateEdit(buf, call.slot), Cleared(boots, {call.slot}), refused)
    BY <1>3, <1>c, <1>d, FitCall DEF Invalidate, HasRead
  <2> QED
    BY <1>e, <2>1, <2>2, <2>3
<1>4. CASE Request
  <2>1. CASE buf.slots[call.slot].state \in {"VALID", "ACTIVE"}
    <3>1. /\ buf' = RequestEdit(buf, call.slot) /\ boots' = Cleared(boots, {}) /\ refused' = refused
          /\ pc' = "opWrite" /\ call' = call /\ call.name = "request"
      BY <1>4, <2>1 DEF Request, WriteIf, Write, Store!BeginWrite, ClearBoots, Cleared, HasRead
    <3>2. RefusalInv'
      BY <3>1 DEF RefusalInv
    <3>3. Fit(RequestEdit(buf, call.slot), Cleared(boots, {}), refused)
      BY <1>4, <1>c, <1>d, <2>1, FitCall DEF Request, HasRead
    <3> QED
      BY <1>e, <3>1, <3>2, <3>3
  <2>2. CASE buf.slots[call.slot].state \notin {"VALID", "ACTIVE"}
    BY <1>4, <2>2, <1>f, <1>g DEF Request, WriteIf
  <2> QED
    BY <2>1, <2>2
<1>5. CASE Check
  <2>1. \E r : Finish(r)
    BY <1>5 DEF Check
  <2> QED
    BY <1>5, <2>1, <1>f, <1>g DEF Check
<1>6. CASE ReadFailed
  <2>1. CASE res = "CORRUPT" /\ call.name = "invalidate"
    BY <1>6, <2>1, <1>f DEF ReadFailed, Store!BeginHeaderRead
  <2>2. CASE ~(res = "CORRUPT" /\ call.name = "invalidate")
    BY <1>6, <2>2, <1>f, <1>g DEF ReadFailed
  <2> QED
    BY <2>1, <2>2
<1>7. CASE Repair
  <2>1. CASE res = "OK"
    <3>1. /\ buf' = RepairEdit(buf, call.slot)
          /\ boots' = Cleared(boots, {call.slot}) /\ refused' = refused
          /\ pc' = "opWrite" /\ call' = call
      BY <1>7, <2>1 DEF Repair, Write, Store!BeginWrite, ClearBoots, Cleared
    <3>2. RefusalInv'
      BY <1>7, <1>c, <1>d, <2>1, <3>1, RepairFields DEF RefusalInv, Repair
    <3>3. Fit(RepairEdit(buf, call.slot), Cleared(boots, {call.slot}), refused)
      BY <1>7, <1>c, <1>d, <2>1, FitCall DEF Repair
    <3> QED
      BY <1>e, <3>1, <3>2, <3>3
  <2>2. CASE res # "OK"
    BY <1>7, <2>2, <1>f, <1>g DEF Repair
  <2> QED
    BY <2>1, <2>2
<1>8. CASE Written
  <2>1. boots' = boots /\ buf' = buf /\ pc' # "opWrite"
    BY <1>8, <1>g DEF Written
  <2>2. CASE res = "OK" /\ call.name = "invalidate"
    <3>1. primary = buf /\ backup = buf /\ buf.slots[call.slot].state = "INVALID" /\ buf # Corrupt
      BY <1>8, <2>2, <1>d, StateTypes DEF Written, BootInv, CallInv, ReturnInv, WriteLabel,
         RefusalInv
    <3>2. Fit(buf, boots, refused \cup {call.slot})
      BY <1>c, <3>1 DEF Fit
    <3>3. refused' = refused \cup {call.slot}
      BY <1>8, <2>2 DEF Written
    <3>4. RefusalInv'
      BY <1>b, <2>1 DEF RefusalInv, BootLabel, CallLabel
    <3>5. \A s \in Slot : boots'[s] <= boots[s]
      BY <1>c, <2>1 DEF Counts
    <3> QED
      BY <1>b, <2>1, <3>1, <3>2, <3>3, <3>4, <3>5 DEF FlashInv
  <2>3. CASE ~(res = "OK" /\ call.name = "invalidate")
    BY <1>8, <2>1, <2>3, <1>f DEF Written
  <2> QED
    BY <2>2, <2>3
<1> QED
  BY <1>1, <1>2, <1>3, <1>4, <1>5, <1>6, <1>7, <1>8 DEF CallStep

\* So do the application and what starts the device.
LEMMA AppKeeps == BootInv /\ AppStep => BootInv'
<1> SUFFICES ASSUME BootInv, AppStep PROVE BootInv'
  OBVIOUS
<1>a. CallInv' /\ ClientStep
  BY ClientKeeps DEF BootInv, Client
<1>b. /\ phase = "idle" /\ pc \in {"off", "jumped", "app"}
      /\ pc' \in {"read", "app", "opRead", "opWrite", sess.back}
      /\ primary' = primary /\ backup' = backup
      /\ sess.back \notin ContextLabel \cup CallLabel \cup {"uartEnd", "jumped", "fatal"}
  <2>1. CallInv /\ sess \in Session
    BY DEF BootInv, CallInv, TypeOK
  <2>2. sess.back \notin ContextLabel \cup CallLabel \cup {"uartEnd", "jumped", "fatal"}
    BY <2>1 DEF Session, ContextLabel, BootLabel, CallLabel
  <2> QED
    BY <1>a, <2>1, <2>2, AppAt, AppClient DEF ClientStep
<1>c. boots \in Counts /\ boots' \in Counts /\ refused \in SUBSET Slot
  BY <1>a DEF BootInv, CallInv, TypeOK, Counts
<1> DEFINE Keeps == FlashInv' /\ (\A s \in Slot : boots'[s] <= boots[s]) /\ RefusalInv'
<1>d. Keeps => BootInv'
  <2> SUFFICES ASSUME Keeps PROVE BootInv'
    OBVIOUS
  <2>2. CrashLoopBound'
    BY <1>c, TypesAssumption DEF BootInv, JumpedInv, CrashLoopBound, Counts
  <2>3. pc' \notin ContextLabel \cup {"uartEnd", "jumped", "fatal"}
    BY <1>b DEF ContextLabel, BootLabel
  <2> QED
    BY <1>a, <2>2, <2>3, Elsewhere DEF BootInv
<1>e. ASSUME UNCHANGED <<boots, refused, buf>>, pc' # "opWrite" PROVE BootInv'
  <2>1. RefusalInv'
    BY <1>b, <1>e DEF RefusalInv, ContextLabel, BootLabel
  <2>2. \A s \in Slot : boots'[s] <= boots[s]
    BY <1>c, <1>e DEF Counts
  <2> QED
    BY <1>b, <1>d, <1>e, <2>1, <2>2 DEF BootInv, FlashInv
<1> USE DEF At, history
<1>1. CASE PowerOn
  BY <1>1, <1>e DEF PowerOn, Read, Store!BeginRead
<1>2. CASE AppStart \/ UpdaterStart
  BY <1>2, <1>e DEF AppStart, UpdaterStart, Goto, storeVars
<1>3. ASSUME NEW c \in Calls, Invoke(c) PROVE BootInv'
  <2>1. pc' \in {"opRead", sess.back} /\ buf' = buf
    BY <1>3 DEF Invoke, Begin, Return, Goto, Read, Store!BeginRead, storeVars
  <2>2. UNCHANGED <<boots, refused>> /\ pc' # "opWrite"
    BY <1>3, <1>b, <2>1 DEF Invoke, CallLabel
  <2> QED
    BY <1>e, <2>1, <2>2
<1>4. ASSUME NEW c \in Calls, Format(c) PROVE BootInv'
  <2>1. /\ buf' = DefaultState(c.slot) /\ boots' = Cleared(boots, Slot) /\ refused' = refused
        /\ call' = c /\ c.name = "format" /\ pc' = "opWrite"
    BY <1>4 DEF Format, Write, Store!BeginWrite, ClearBoots, Cleared
  <2>2. c.slot \in Slot
    BY CallParts, CallsAssumption
  <2>3. Fit(buf', boots', refused')
    BY <1>c, <2>1, <2>2, FitDefault
  <2>4. FlashInv' /\ (\A s \in Slot : boots'[s] <= boots[s])
    BY <1>b, <2>1, <2>3, FlashLess DEF BootInv, CallInv
  <2>5. RefusalInv'
    BY <2>1 DEF RefusalInv
  <2> QED
    BY <1>d, <2>4, <2>5
<1>5. ASSUME NEW f \in Firmware \cup {Junk}, AppWritesImage(f) PROVE BootInv'
  BY <1>5, <1>e DEF AppWritesImage, storeVars
<1> QED
  BY <1>1, <1>2, <1>3, <1>4, <1>5 DEF AppStep

-----------------------------------------------------------------------------
\* What every step of the boot sequence finds.
LEMMA BootFacts ==
  ASSUME BootInv, BootStep
  PROVE  /\ CallInv' /\ pc' \in BootNext /\ phase = "idle"
         /\ image' = image /\ primary' = primary /\ backup' = backup
         /\ ctx \in Context /\ boots \in Counts /\ refused \in SUBSET Slot
         /\ pc \in ContextLabel =>
              /\ ctx.state \in Good /\ ctx.state \in Store!State /\ ctx.state # Corrupt
              /\ Fit(ctx.state, boots, refused)
         /\ pc \in ReadLabel /\ res # "OK" =>
              trouble \/ (primary \notin Good /\ backup \notin Good)
         /\ pc \in WriteLabel /\ res # "OK" => trouble
<1>1. CallInv' /\ ClientStep
  BY ClientKeeps DEF BootInv, Client
<1>2. pc' \in BootNext /\ phase = "idle" /\ image' = image
  BY BootClient, BootAt DEF BootInv
<1> QED
  BY <1>1, <1>2, StateTypes DEF BootInv, CallInv, TypeOK, ReturnInv, ContextInv, Counts,
     ClientStep

\* When the boot sequence gives up, nothing could have been selected.
LEMMA BootFatal == BootInv /\ BootStep /\ pc' = "fatal" => GivesUpOnlyWithoutSlot'
<1> SUFFICES ASSUME BootInv, BootStep, pc' = "fatal", ~trouble',
                    NEW s \in Slot, (Store!Readable # Corrupt /\ Selectable(Store!Readable, s))'
             PROVE  FALSE
  BY DEF GivesUpOnlyWithoutSlot
<1>a. image' = image /\ primary' = primary /\ backup' = backup /\ phase = "idle"
  BY BootFacts
<1>b. Store!Readable # Corrupt /\ Selectable(Store!Readable, s)
  BY <1>a DEF Store!Readable, Store!Meaning, Selectable, ImageMatches
<1>c. trouble' = trouble => primary \in Good \/ backup \in Good
  BY <1>b DEF Store!Readable, Store!Meaning
<1>d. /\ pc \in ReadLabel /\ res # "OK" => trouble \/ (primary \notin Good /\ backup \notin Good)
      /\ pc \in WriteLabel /\ res # "OK" => trouble
  BY BootFacts
<1>e. pc \in ContextLabel /\ primary = ctx.state => Selectable(ctx.state, s)
  BY <1>b, BootFacts DEF Store!Readable
<1>f. pc \in ContextLabel => /\ ctx.state.slots[Other(Active)].state # "ACTIVE"
                             /\ s \in {Active, Other(Active)} /\ Active \in Slot /\ Other(Active) # Active
  BY BootFacts, StateParts, Slots DEF Fit, WellFormed, Active
<1> USE DEF At, history, Fatal, Goto
<1>1. CASE AfterRead \/ AfterReread \/ AfterSessionReread
  BY <1>1, <1>c, <1>d
     DEF AfterRead, AfterReread, AfterSessionReread, Listen, Read, Write, ReadLabel
<1>2. CASE AfterFormat \/ AfterFallback \/ RollbackWrite \/ AfterAttempt \/ AfterPromote \/ RecordFailed
  BY <1>2, <1>d
     DEF AfterFormat, AfterFallback, RollbackWrite, AfterAttempt, AfterPromote, RecordFailed,
        Read, WriteLabel
<1>3. CASE AfterSession
  BY <1>3, <1>c DEF AfterSession, Read, BootInv, EndInv
<1>4. CASE Select
  <2>1. /\ pc = "select" /\ trouble' = trouble
        /\ ActiveRecord.state \in {"EMPTY", "INVALID"}
        /\ ctx.state.slots[Other(Active)].state \notin {"VALID", "ACTIVE"}
    BY <1>4 DEF Select, Write
  <2>2. primary = ctx.state
    BY <2>1 DEF BootInv, ContextInv
  <2> QED
    BY <2>1, <2>2, <1>e, <1>f DEF Selectable, ActiveRecord, Active, ContextLabel, BootLabel
<1>5. CASE RollbackRead
  <2>1. pc = "rbRead" /\ trouble' = trouble
    BY <1>5 DEF RollbackRead
  <2>2. res = "OK"
    BY <2>1, <1>c, <1>d DEF ReadLabel
  <2>3. primary = ctx.state /\ buf = ctx.state
    BY <1>a, <2>1, <2>2 DEF BootInv, ContextInv, CallInv, ReturnInv, ReadLabel
  <2>4. ctx.state.slots[Other(Active)].state # "VALID"
    BY <1>5, <2>2, <2>3 DEF RollbackRead, Write
  <2>5. ActiveRecord.attempts >= MaxAttempts
    BY <2>1 DEF BootInv, LimitInv
  <2>6. s = Active
    BY <2>1, <2>3, <2>4, <1>e, <1>f DEF Selectable, Active, ContextLabel, BootLabel
  <2>7. ActiveRecord.attempts < MaxAttempts /\ ActiveRecord.attempts \in Nat
    BY <2>1, <2>3, <2>6, <1>e, <1>f, BootFacts, StateParts, TypesAssumption
       DEF Selectable, ActiveRecord, ContextLabel, BootLabel
  <2> QED
    BY <2>5, <2>7, TypesAssumption
<1>6. CASE HandOff \/ VerifyReadError
  BY <1>6 DEF HandOff, VerifyReadError
<1>7. CASE CheckAttempts \/ Verify \/ AfterSpoil \/ Promote \/ RecordReason
  BY <1>7 DEF CheckAttempts, Verify, AfterSpoil, Promote, RecordReason, Spoil, Read, Write
<1> QED
  BY <1>1, <1>2, <1>3, <1>4, <1>5, <1>6, <1>7 DEF BootStep

\* An assignment to the context.
LEMMA ContextFields ==
  ASSUME ctx \in Context
  PROVE  /\ \A st : SetState(st) => ctx'.state = st /\ ctx'.reason = ctx.reason
         /\ \A r : ctx' = [ctx EXCEPT !.reason = r] => ctx'.state = ctx.state /\ ctx'.reason = r
         /\ \A a : ctx' = [ctx EXCEPT !.active = a] =>
              ctx'.state = ctx.state /\ ctx'.reason = ctx.reason /\ ctx'.active = a
BY DEF Context, SetState

\* A step of the boot sequence keeps the invariant.
LEMMA BootKeeps == BootInv /\ BootStep => BootInv'
<1> SUFFICES ASSUME BootInv, BootStep PROVE BootInv'
  OBVIOUS
<1>a. /\ CallInv' /\ pc' \in BootNext /\ phase = "idle"
      /\ image' = image /\ primary' = primary /\ backup' = backup
      /\ ctx \in Context /\ boots \in Counts /\ refused \in SUBSET Slot
  BY BootFacts
<1>b. pc \in ContextLabel =>
        /\ ctx.state \in Good /\ ctx.state \in Store!State /\ ctx.state # Corrupt
        /\ Fit(ctx.state, boots, refused)
        /\ Active \in Slot /\ Other(Active) \in Slot
        /\ ActiveRecord.attempts \in 0 .. MaxAttempts
        /\ ActiveRecord.state \in SlotState \ {"ROLLBACK"}
        /\ ActiveRecord.attempts >= boots[Active]
  BY BootFacts, StateParts, Slots DEF Fit, WellFormed, Active, ActiveRecord
<1>c. pc' = "fatal" => GivesUpOnlyWithoutSlot'
  BY BootFatal
<1>d. pc \in ReadLabel /\ res = "OK" =>
        buf \in Good /\ buf \in Store!State /\ primary = buf /\ buf # Corrupt /\ Fit(buf, boots, refused)
  BY <1>a, StateTypes DEF BootInv, CallInv, ReturnInv, FlashInv
<1>e. pc \in WriteLabel /\ res = "OK" => primary = buf /\ backup = buf
  BY <1>a DEF BootInv, CallInv, ReturnInv
<1>f. ASSUME UNCHANGED <<boots, refused>>, buf' = buf \/ Fit(buf', boots, refused)
      PROVE  FlashInv' /\ CrashLoopBound'
  BY <1>a, <1>f DEF BootInv, FlashInv, JumpedInv, CrashLoopBound
<1>g. ASSUME FlashInv', CrashLoopBound', pc' \notin ContextLabel \cup {"jumped"}
      PROVE  BootInv'
  <2>1. pc' # "uartEnd" /\ pc' # "opWrite"
    BY <1>a DEF BootNext, BootLabel
  <2>2. ContextInv' /\ LimitInv' /\ RefusalInv' /\ EndInv' /\ JumpedInv'
    BY <1>g, <2>1
       DEF ContextInv, ContextLabel, BootLabel, LimitInv, CountedLabel, AcceptedLabel,
          RefusalInv, EndInv,
           JumpedInv, HandOffVerified, RefusedNeverRuns
  <2>3. GivesUpOnlyWithoutSlot'
    BY <1>c DEF GivesUpOnlyWithoutSlot
  <2> QED
    BY <1>a, <1>g, <2>2, <2>3 DEF BootInv
<1>h. ASSUME FlashInv', CrashLoopBound', pc' \in ContextLabel, ContextInv', LimitInv',
             pc' = "spoiled" => ActiveRecord'.state = "INVALID"
      PROVE  BootInv'
  <2>1. pc' \notin {"uartEnd", "opWrite", "jumped", "fatal"}
    BY <1>h DEF ContextLabel, BootLabel
  <2>2. RefusalInv' /\ EndInv' /\ JumpedInv' /\ GivesUpOnlyWithoutSlot'
    BY <1>h, <2>1 DEF RefusalInv, EndInv, JumpedInv, HandOffVerified, RefusedNeverRuns,
       GivesUpOnlyWithoutSlot
  <2> QED
    BY <1>a, <1>h, <2>2 DEF BootInv
<1>i. ASSUME Fatal, UNCHANGED <<boots, refused>> PROVE BootInv'
  BY <1>f, <1>g, <1>i DEF Fatal, Goto, storeVars, ContextLabel, BootLabel
<1>j. ASSUME NEW l \in ReadLabel, l \notin ContextLabel, Read(l), UNCHANGED <<boots, refused>>
      PROVE  BootInv'
  <2>1. l # "jumped"
    BY DEF ReadLabel
  <2> QED
    BY <2>1, <1>f, <1>g, <1>j DEF Read, Store!BeginRead
<1>k. ASSUME SetState(buf), Goto("select"), UNCHANGED <<boots, refused>>, pc \in ReadLabel, res = "OK"
      PROVE  BootInv'
  <2>1. FlashInv' /\ CrashLoopBound'
    BY <1>f, <1>k DEF Goto, storeVars
  <2>2. ctx'.state = buf /\ primary' = buf /\ buf \in Good /\ Fit(buf, boots, refused) /\ pc' = "select"
    BY <1>a, <1>d, <1>k, ContextFields DEF Goto
  <2>3. ContextInv'
    BY <1>k, <2>2 DEF ContextInv
  <2>4. LimitInv'
    BY <2>2 DEF LimitInv, CountedLabel, AcceptedLabel
  <2> QED
    BY <1>h, <2>1, <2>2, <2>3, <2>4 DEF ContextLabel, BootLabel
<1>l. ASSUME SetState(buf), Listen, UNCHANGED <<boots, refused>>, pc \in ReadLabel, res = "OK"
      PROVE  BootInv'
  <2>1. CASE Uart
    BY <1>j, <1>l, <2>1 DEF Listen, ReadLabel, ContextLabel, BootLabel
  <2>2. CASE ~Uart
    BY <1>k, <1>l, <2>2 DEF Listen
  <2> QED
    BY <2>1, <2>2
<1> USE DEF At, history
<1>1. CASE AfterRead
  <2>1. CASE res = "OK"
    BY <1>1, <1>l, <2>1 DEF AfterRead, ReadLabel
  <2>2. CASE res = "CORRUPT"
    <3>1. /\ buf' = DefaultState("A") /\ boots' = Cleared(boots, Slot) /\ refused' = refused
          /\ pc' = "format"
      BY <1>1, <2>2 DEF AfterRead, Write, Store!BeginWrite, Cleared
    <3>2. Fit(buf', boots', refused')
      BY <1>a, <3>1, FitDefault DEF Slot
    <3>3. FlashInv' /\ \A s \in Slot : boots'[s] <= boots[s]
      BY <1>a, <3>1, <3>2, FlashLess DEF BootInv, CallInv
    <3>4. CrashLoopBound'
      BY <3>1, TypesAssumption DEF CrashLoopBound, Cleared
    <3> QED
      BY <1>g, <3>1, <3>3, <3>4 DEF ContextLabel, BootLabel
  <2>3. CASE res = "FLASH"
    BY <1>1, <1>i, <2>3 DEF AfterRead
  <2> QED
    BY <1>1, <2>1, <2>2, <2>3 DEF AfterRead
<1>2. CASE AfterFormat
  BY <1>2, <1>i, <1>j DEF AfterFormat, ReadLabel, ContextLabel, BootLabel
<1>3. CASE AfterReread
  BY <1>3, <1>i, <1>l DEF AfterReread, ReadLabel
<1>4. CASE AfterSession
  BY <1>4, <1>i, <1>j DEF AfterSession, ReadLabel, ContextLabel, BootLabel
<1>5. CASE AfterSessionReread
  BY <1>5, <1>i, <1>k DEF AfterSessionReread, ReadLabel
<1>6. CASE Select
  <2>0. pc = "select" /\ UNCHANGED <<boots, refused>>
    BY <1>6 DEF Select
  <2>1. CASE ActiveRecord.state \notin {"EMPTY", "INVALID"}
    <3>1. pc' = "check" /\ ctx' = ctx /\ buf' = buf
      BY <1>6, <2>1 DEF Select, Goto, storeVars
    <3>2. FlashInv' /\ CrashLoopBound'
      BY <2>0, <3>1, <1>f
    <3>3. ContextInv'
      BY <1>a, <1>b, <2>0, <2>1, <3>1 DEF BootInv, ContextInv, ContextLabel, BootLabel
    <3>4. LimitInv'
      BY <2>1, <3>1 DEF LimitInv, CountedLabel, AcceptedLabel, ActiveRecord, Active
    <3> QED
      BY <1>h, <3>1, <3>2, <3>3, <3>4 DEF ContextLabel, BootLabel
  <2>2. CASE /\ ActiveRecord.state \in {"EMPTY", "INVALID"}
             /\ ctx.state.slots[Other(Active)].state \in {"VALID", "ACTIVE"}
    <3> DEFINE st == FallbackEdit(ctx.state)
    <3>1. pc' = "fallback" /\ ctx'.state = st /\ buf' = st
      BY <1>6, <1>a, <2>2, ContextFields DEF Select, Write, Store!BeginWrite
    <3>2. st \in Good /\ Fit(st, boots, refused)
      BY <1>a, <1>b, <2>0, <2>2, FitBoot, EditStates DEF ContextLabel, BootLabel,
         ActiveRecord, Active
    <3>3. st.slots[st.active].state = "ACTIVE"
      BY <1>b, <2>0, FallbackFields, Slots DEF ContextLabel, BootLabel, Active
    <3> HIDE DEF st
    <3>4. FlashInv' /\ CrashLoopBound'
      BY <2>0, <3>1, <3>2, <1>f
    <3>5. ContextInv'
      BY <2>0, <3>1, <3>2 DEF ContextInv
    <3>6. LimitInv'
      BY <3>1, <3>3 DEF LimitInv, CountedLabel, AcceptedLabel, ActiveRecord, Active
    <3> QED
      BY <1>h, <3>1, <3>4, <3>5, <3>6 DEF ContextLabel, BootLabel
  <2>3. CASE /\ ActiveRecord.state \in {"EMPTY", "INVALID"}
             /\ ctx.state.slots[Other(Active)].state \notin {"VALID", "ACTIVE"}
    BY <1>6, <1>i, <2>3 DEF Select
  <2> QED
    BY <2>1, <2>2, <2>3
<1>7. CASE AfterFallback
  <2>1. CASE res = "OK"
    <3>1. /\ pc = "fallback" /\ pc' = "check" /\ UNCHANGED <<ctx, buf, boots, refused>>
      BY <1>7, <2>1 DEF AfterFallback, Goto, storeVars
    <3>2. FlashInv' /\ CrashLoopBound'
      BY <3>1, <1>f
    <3>3. ContextInv'
      BY <1>a, <1>b, <1>e, <2>1, <3>1 DEF BootInv, ContextInv, ContextLabel, BootLabel, WriteLabel
    <3>4. LimitInv'
      BY <3>1 DEF BootInv, LimitInv, CountedLabel, AcceptedLabel, ActiveRecord, Active
    <3> QED
      BY <1>h, <3>1, <3>2, <3>3, <3>4 DEF ContextLabel, BootLabel
  <2>2. CASE res # "OK"
    BY <1>7, <1>i, <2>2 DEF AfterFallback
  <2> QED
    BY <2>1, <2>2
<1>8. CASE CheckAttempts
  <2>0. pc = "check" /\ UNCHANGED <<boots, refused>>
    BY <1>8 DEF CheckAttempts
  <2>1. CASE ActiveRecord.attempts >= MaxAttempts
    <3>1. pc' = "rbRead" /\ ctx' = ctx /\ buf' = buf
      BY <1>8, <2>1 DEF CheckAttempts, Read, Store!BeginRead
    <3>2. FlashInv' /\ CrashLoopBound'
      BY <2>0, <3>1, <1>f
    <3>3. ContextInv'
      BY <1>a, <1>b, <2>0, <3>1 DEF BootInv, ContextInv, ContextLabel, BootLabel
    <3>4. LimitInv'
      BY <2>0, <2>1, <3>1 DEF BootInv, LimitInv, CountedLabel, AcceptedLabel, ActiveRecord, Active
    <3> QED
      BY <1>h, <3>1, <3>2, <3>3, <3>4 DEF ContextLabel, BootLabel
  <2>2. CASE ~(ActiveRecord.attempts >= MaxAttempts)
    <3> DEFINE st == AttemptEdit(ctx.state)
    <3>0. ActiveRecord.attempts < MaxAttempts /\ pc \in ContextLabel
      BY <1>b, <2>0, <2>2, TypesAssumption DEF ContextLabel, BootLabel
    <3>1. pc' = "attempt" /\ ctx'.state = st /\ buf' = st
      BY <1>8, <1>a, <2>2, ContextFields DEF CheckAttempts, Write, Store!BeginWrite
    <3>2. st \in Good /\ Fit(st, boots, refused)
      BY <1>a, <1>b, <3>0, FitBoot, EditStates DEF ActiveRecord, Active
    <3>3. /\ st.slots[st.active].attempts = ActiveRecord.attempts + 1
          /\ st.slots[st.active].state = ActiveRecord.state
          /\ st.active = Active
      BY <1>b, <3>0, AttemptFields DEF Active, ActiveRecord
    <3>4. ActiveRecord.state \notin {"EMPTY", "INVALID"} /\ boots[Active] \in Nat
      BY <1>a, <1>b, <2>0 DEF BootInv, LimitInv, Counts, ContextLabel, BootLabel
    <3> HIDE DEF st
    <3>5. FlashInv' /\ CrashLoopBound'
      BY <2>0, <3>1, <3>2, <1>f
    <3>6. ContextInv'
      BY <2>0, <3>1, <3>2 DEF ContextInv
    <3>7. LimitInv'
      <4>1. ActiveRecord' = st.slots[st.active] /\ Active' = st.active /\ boots' = boots
        BY <2>0, <3>1 DEF ActiveRecord, Active
      <4>2. /\ ActiveRecord'.attempts \in 1 .. MaxAttempts
            /\ ActiveRecord'.attempts >= boots'[Active'] + 1
        BY <1>b, <3>0, <3>3, <3>4, <4>1, TypesAssumption
      <4> QED
        BY <3>1, <3>3, <3>4, <4>1, <4>2 DEF LimitInv, AcceptedLabel
    <3> QED
      BY <1>h, <3>1, <3>5, <3>6, <3>7 DEF ContextLabel, BootLabel
  <2> QED
    BY <2>1, <2>2
<1>9. CASE RollbackRead
  <2>0. pc = "rbRead" /\ UNCHANGED <<boots, refused, ctx>>
    BY <1>9 DEF RollbackRead
  <2>1. CASE res = "OK" /\ buf.slots[Other(Active)].state = "VALID"
    <3> DEFINE st == RollbackEdit(ctx.state, Active)
    <3>0. buf = ctx.state /\ pc \in ContextLabel
      BY <1>d, <2>0, <2>1 DEF BootInv, ContextInv, ReadLabel, ContextLabel, BootLabel
    <3>1. pc' = "rbWrite" /\ buf' = st
      BY <1>9, <2>1, <3>0 DEF RollbackRead, Write, Store!BeginWrite
    <3>2. Fit(st, boots, refused)
      BY <1>a, <1>b, <2>1, <3>0, FitBoot DEF Active
    <3>3. FlashInv' /\ CrashLoopBound'
      BY <2>0, <3>1, <3>2, <1>f
    <3>4. ContextInv'
      BY <1>b, <2>0, <3>0, <3>1 DEF ContextInv
    <3>5. LimitInv'
      BY <2>0, <3>1 DEF BootInv, LimitInv, CountedLabel, AcceptedLabel, ActiveRecord, Active
    <3> QED
      BY <1>h, <3>1, <3>3, <3>4, <3>5 DEF ContextLabel, BootLabel
  <2>2. CASE ~(res = "OK" /\ buf.slots[Other(Active)].state = "VALID")
    BY <1>9, <1>i, <2>2 DEF RollbackRead
  <2> QED
    BY <2>1, <2>2
<1>10. CASE RollbackWrite
  <2>1. CASE res = "OK"
    <3>1. /\ pc = "rbWrite" /\ pc' = "select" /\ buf' = buf /\ boots' = boots
          /\ ctx' = [reason |-> "ROLLBACK", active |-> buf.active, state |-> buf]
          /\ refused' = refused \cup {Other(buf.active)}
      BY <1>10, <2>1 DEF RollbackWrite, Goto, storeVars
    <3>2. /\ buf = RollbackEdit(ctx.state, Active) /\ primary = buf /\ backup = buf
          /\ buf # Corrupt /\ pc \in ContextLabel
      BY <1>b, <1>e, <2>1, <3>1, StateTypes
         DEF BootInv, LimitInv, CallInv, CopyInv, WriteLabel, ContextLabel, BootLabel
    <3>3. /\ buf \in Good /\ Other(buf.active) \in Slot
          /\ buf.slots[Other(buf.active)].state = "ROLLBACK"
      <4>1. ctx.state \in Store!State /\ ctx.state \in Good /\ Active \in Slot
        BY <1>b, <3>2
      <4>2. buf \in Good
        BY <3>2, <4>1, EditStates
      <4>3. buf.active = Other(Active)
        BY <3>2, <4>1, RollbackFields
      <4>4. Other(buf.active) = Active
        BY <4>1, <4>3 DEF Slot, Other
      <4>5. buf.slots[Active].state = "ROLLBACK"
        BY <3>2, <4>1, RollbackFields
      <4> QED
        BY <4>1, <4>2, <4>4, <4>5
    <3>4. Fit(buf, boots, refused)
      BY <3>2 DEF BootInv, FlashInv
    <3>5. Fit(buf, boots', refused')
      BY <3>1, <3>3, <3>4 DEF Fit
    <3>6. FlashInv' /\ CrashLoopBound'
      BY <1>a, <3>1, <3>2, <3>5 DEF BootInv, FlashInv, JumpedInv, CrashLoopBound
    <3>7. ctx'.state = buf
      BY <3>1
    <3>8. ContextInv'
      BY <1>a, <3>1, <3>2, <3>3, <3>5, <3>7 DEF ContextInv
    <3>9. LimitInv'
      BY <3>1 DEF LimitInv, CountedLabel, AcceptedLabel
    <3> QED
      BY <1>h, <3>1, <3>6, <3>8, <3>9 DEF ContextLabel, BootLabel
  <2>2. CASE res # "OK"
    BY <1>10, <1>i, <2>2 DEF RollbackWrite
  <2> QED
    BY <2>1, <2>2
<1>11. CASE AfterAttempt
  <2>1. CASE res = "OK"
    <3>1. pc = "attempt" /\ pc' = "verify" /\ UNCHANGED <<ctx, buf, boots, refused>>
      BY <1>11, <2>1 DEF AfterAttempt, Goto, storeVars
    <3>2. FlashInv' /\ CrashLoopBound'
      BY <3>1, <1>f
    <3>3. ContextInv'
      BY <1>b, <3>1 DEF ContextInv, ContextLabel, BootLabel
    <3>4. LimitInv'
      BY <3>1 DEF BootInv, LimitInv, CountedLabel, AcceptedLabel, ActiveRecord, Active
    <3> QED
      BY <1>h, <3>1, <3>2, <3>3, <3>4 DEF ContextLabel, BootLabel
  <2>2. CASE res # "OK"
    BY <1>11, <1>i, <2>2 DEF AfterAttempt
  <2> QED
    BY <2>1, <2>2
<1>12. ASSUME pc = "verify", Spoil, UNCHANGED <<boots, refused>> PROVE BootInv'
  <2> DEFINE st == SetSlotState(ctx.state, Active, "INVALID")
  <2>1. pc' = "spoiled" /\ ctx'.state = st /\ buf' = st /\ pc \in ContextLabel
    BY <1>12, <1>a, ContextFields DEF Spoil, Write, Store!BeginWrite, ContextLabel, BootLabel
  <2>2. st \in Good /\ Fit(st, boots, refused)
    BY <1>a, <1>b, <2>1, FitBoot, EditStates DEF Active, SlotState
  <2>3. st.slots[st.active].state = "INVALID"
    BY <1>b, <2>1, SetFields DEF Active
  <2> HIDE DEF st
  <2>4. FlashInv' /\ CrashLoopBound'
    BY <1>12, <2>1, <2>2, <1>f
  <2>5. ContextInv'
    BY <1>12, <2>1, <2>2 DEF ContextInv
  <2>6. LimitInv' /\ ActiveRecord'.state = "INVALID"
    BY <2>1, <2>3 DEF LimitInv, CountedLabel, AcceptedLabel, ActiveRecord, Active
  <2> QED
    BY <1>h, <2>1, <2>4, <2>5, <2>6 DEF ContextLabel, BootLabel
<1>13. CASE Verify
  <2>1. CASE ImageMatches(ctx.state, Active)
    <3>1. pc = "verify" /\ pc' = "promote" /\ UNCHANGED <<ctx, buf, boots, refused>>
      BY <1>13, <2>1 DEF Verify, Goto, storeVars
    <3>2. FlashInv' /\ CrashLoopBound'
      BY <3>1, <1>f
    <3>3. ContextInv'
      BY <1>b, <3>1 DEF ContextInv, ContextLabel, BootLabel
    <3>4. ImageMatches(ctx.state, Active)' /\ ActiveRecord' = ActiveRecord /\ Active' = Active
      BY <1>a, <2>1, <3>1 DEF ImageMatches, ActiveRecord, Active
    <3>5. ActiveRecord.state \notin {"EMPTY", "INVALID", "ROLLBACK"}
      BY <1>b, <3>1 DEF BootInv, LimitInv, ContextLabel, BootLabel
    <3>6. LimitInv'
      BY <3>1, <3>4, <3>5 DEF BootInv, LimitInv, CountedLabel, AcceptedLabel
    <3> QED
      BY <1>h, <3>1, <3>2, <3>3, <3>6 DEF ContextLabel, BootLabel
  <2>2. CASE ~ImageMatches(ctx.state, Active)
    BY <1>12, <1>13, <2>2 DEF Verify
  <2> QED
    BY <2>1, <2>2
<1>14. CASE VerifyReadError
  BY <1>12, <1>14 DEF VerifyReadError
<1>15. CASE AfterSpoil
  <2>1. /\ pc = "spoiled" /\ pc' = "select" /\ UNCHANGED <<ctx, buf, boots>> /\ trouble' = trouble
        /\ pc \in ContextLabel
        /\ buf = ctx.state /\ ActiveRecord.state = "INVALID"
    BY <1>15 DEF AfterSpoil, Goto, storeVars, BootInv, ContextInv, RefusalInv, ContextLabel,
       BootLabel
  <2>2. LimitInv'
    BY <2>1 DEF LimitInv, CountedLabel, AcceptedLabel
  <2>3. CASE res = "OK"
    <3>1. refused' = refused \cup {Active} /\ primary = buf /\ backup = buf
      BY <1>15, <1>e, <2>1, <2>3 DEF AfterSpoil, WriteLabel
    <3>2. Fit(ctx.state, boots', refused')
      BY <1>b, <2>1, <3>1 DEF Fit, ActiveRecord
    <3>3. FlashInv' /\ CrashLoopBound'
      BY <1>a, <2>1, <3>1, <3>2 DEF BootInv, FlashInv, JumpedInv, CrashLoopBound
    <3>4. ContextInv'
      BY <1>a, <1>b, <2>1, <3>1, <3>2 DEF ContextInv
    <3> QED
      BY <1>h, <2>1, <2>2, <3>3, <3>4 DEF ContextLabel, BootLabel
  <2>4. CASE res # "OK"
    <3>1. refused' = refused /\ trouble
      BY <1>15, <2>1, <2>4, BootFacts DEF AfterSpoil, WriteLabel
    <3>2. FlashInv' /\ CrashLoopBound'
      BY <2>1, <3>1, <1>f
    <3>3. ActiveRecord'.state = "INVALID"
      BY <2>1 DEF ActiveRecord, Active
    <3>4. ContextInv'
      BY <1>b, <2>1, <3>1, <3>3 DEF ContextInv
    <3> QED
      BY <1>h, <2>1, <2>2, <3>2, <3>4 DEF ContextLabel, BootLabel
  <2> QED
    BY <2>3, <2>4
<1>16. CASE Promote
  <2>0. /\ pc = "promote" /\ UNCHANGED <<boots, refused>> /\ pc \in ContextLabel
        /\ ImageMatches(ctx.state, Active)
        /\ ActiveRecord.state \in {"PENDING", "VALID", "ACTIVE"}
        /\ ActiveRecord.attempts \in 1 .. MaxAttempts
        /\ ActiveRecord.attempts >= boots[Active] + 1
    BY <1>16, <1>b
       DEF Promote, BootInv, LimitInv, CountedLabel, AcceptedLabel, SlotState, ContextLabel,
          BootLabel
  <2>1. CASE ActiveRecord.state = "PENDING"
    <3> DEFINE st == SetSlotState(ctx.state, Active, "ACTIVE")
    <3>1. pc' = "promoted" /\ ctx'.state = st /\ buf' = st
      BY <1>16, <1>a, <2>1, ContextFields DEF Promote, Write, Store!BeginWrite
    <3>2. st \in Good /\ Fit(st, boots, refused)
      BY <1>a, <1>b, <2>0, <2>1, FitBoot, EditStates DEF Active, ActiveRecord, SlotState
    <3>3. /\ st.active = Active
          /\ st.slots[Active].state = "ACTIVE"
          /\ st.slots[Active].attempts = ActiveRecord.attempts
          /\ st.slots[Active].fw = ActiveRecord.fw
      BY <1>b, <2>0, SetFields DEF Active, ActiveRecord
    <3> HIDE DEF st
    <3>4. FlashInv' /\ CrashLoopBound'
      BY <2>0, <3>1, <3>2, <1>f
    <3>5. ContextInv'
      BY <3>1, <3>2, <2>0 DEF ContextInv
    <3>6. LimitInv'
      <4>1. ActiveRecord' = st.slots[Active] /\ Active' = Active
        BY <3>1, <3>3 DEF ActiveRecord, Active
      <4>2. ImageMatches(ctx.state, Active)'
        BY <1>a, <2>0, <3>1, <3>3, <4>1 DEF ImageMatches, ActiveRecord
      <4> QED
        BY <2>0, <3>1, <3>3, <4>1, <4>2 DEF LimitInv
    <3> QED
      BY <1>h, <3>1, <3>4, <3>5, <3>6 DEF ContextLabel, BootLabel
  <2>2. CASE ActiveRecord.state # "PENDING"
    <3>1. pc' = "record" /\ ctx'.state = ctx.state /\ buf' = buf
      BY <1>16, <1>a, <2>2, ContextFields DEF Promote, Goto, storeVars
    <3>2. FlashInv' /\ CrashLoopBound'
      BY <2>0, <3>1, <1>f
    <3>3. ContextInv'
      BY <1>b, <2>0, <3>1 DEF ContextInv
    <3>4. ActiveRecord' = ActiveRecord /\ Active' = Active /\ ImageMatches(ctx.state, Active)'
      BY <1>a, <2>0, <3>1 DEF ImageMatches, ActiveRecord, Active
    <3>5. LimitInv'
      BY <2>0, <2>2, <3>1, <3>4 DEF LimitInv
    <3> QED
      BY <1>h, <3>1, <3>2, <3>3, <3>5 DEF ContextLabel, BootLabel
  <2> QED
    BY <2>1, <2>2
<1>m. pc \in {"promoted", "record", "recorded"} =>
        /\ pc \in ContextLabel
        /\ ImageMatches(ctx.state, Active)
        /\ ActiveRecord.state \in {"VALID", "ACTIVE"}
        /\ ActiveRecord.attempts \in 1 .. MaxAttempts
        /\ ActiveRecord.attempts >= boots[Active] + 1
  BY DEF BootInv, LimitInv, CountedLabel, AcceptedLabel, ContextLabel, BootLabel
<1>17. CASE AfterPromote
  <2>1. CASE res = "OK"
    <3>1. /\ pc = "promoted" /\ pc' = "record" /\ ctx'.state = ctx.state
          /\ UNCHANGED <<buf, boots, refused>>
      BY <1>17, <1>a, <2>1, ContextFields DEF AfterPromote, Goto, storeVars
    <3>2. FlashInv' /\ CrashLoopBound'
      BY <3>1, <1>f
    <3>3. ContextInv'
      BY <1>b, <1>m, <3>1 DEF ContextInv
    <3>4. ActiveRecord' = ActiveRecord /\ Active' = Active /\ ImageMatches(ctx.state, Active)'
      BY <1>a, <1>m, <3>1 DEF ImageMatches, ActiveRecord, Active
    <3>5. LimitInv'
      BY <1>m, <3>1, <3>4 DEF LimitInv
    <3> QED
      BY <1>h, <3>1, <3>2, <3>3, <3>5 DEF ContextLabel, BootLabel
  <2>2. CASE res # "OK"
    BY <1>17, <1>i, <2>2 DEF AfterPromote
  <2> QED
    BY <2>1, <2>2
<1>18. CASE RecordReason
  <2> DEFINE st == [ctx.state EXCEPT !.reason = ctx.reason]
  <2>0. pc = "record" /\ pc \in ContextLabel /\ UNCHANGED <<boots, refused>> /\ ctx.reason \in Reason
    BY <1>18, <1>a DEF RecordReason, ContextLabel, BootLabel, Context
  <2>1. pc' = "recorded" /\ ctx'.state = st /\ ctx'.reason = ctx.reason /\ buf' = st
    BY <1>18, <1>a, ContextFields DEF RecordReason, Write, Store!BeginWrite
  <2>2. st \in Good
    BY <1>b, <2>0, EditStates
  <2>3. Fit(st, boots, refused)
    BY <1>a, <1>b, <2>0, FitBoot
  <2>4. st.active = Active /\ st.slots = ctx.state.slots /\ st.reason = ctx.reason
    BY <1>b, <2>0, HeadFields DEF Active
  <2> HIDE DEF st
  <2>5. FlashInv' /\ CrashLoopBound'
    BY <2>0, <2>1, <2>3, <1>f
  <2>6. ContextInv'
    BY <2>0, <2>1, <2>2, <2>3, <2>4 DEF ContextInv
  <2>7. ActiveRecord' = ActiveRecord /\ Active' = Active
    BY <2>1, <2>4 DEF ActiveRecord, Active
  <2>8. ImageMatches(ctx.state, Active)'
    BY <1>a, <1>m, <2>0, <2>1, <2>4, <2>7 DEF ImageMatches
  <2>9. LimitInv'
    BY <1>m, <2>0, <2>1, <2>7, <2>8 DEF LimitInv
  <2> QED
    BY <1>h, <2>1, <2>5, <2>6, <2>9 DEF ContextLabel, BootLabel
<1>19. CASE HandOff
  <2>0. /\ pc = "recorded" /\ res = "OK" /\ pc \in ContextLabel /\ refused' = refused /\ buf' = buf
        /\ ctx'.state = ctx.state /\ ctx'.reason = ctx.reason /\ ctx'.active = Active
    BY <1>19, <1>a, ContextFields DEF HandOff, Goto, storeVars, Fatal, ContextLabel, BootLabel
  <2>1. CASE pc' = "jumped"
    <3>1. boots' = [boots EXCEPT ![Active] = @ + 1]
      BY <1>19, <2>1 DEF HandOff, Fatal, Goto
    <3>2. /\ buf = ctx.state /\ primary = ctx.state /\ backup = ctx.state
          /\ ctx.state.reason = ctx.reason
      BY <1>e, <2>0 DEF BootInv, ContextInv, WriteLabel
    <3>3. \A s \in Slot : /\ boots'[s] = boots[s] + IF s = Active THEN 1 ELSE 0
                          /\ boots[s] \in Nat
      BY <1>a, <3>1 DEF Counts
    <3>4. Fit(ctx.state, boots', refused')
      BY <1>b, <1>m, <2>0, <3>3 DEF Fit, ActiveRecord
    <3>5. FlashInv'
      BY <1>a, <2>0, <3>2, <3>4 DEF FlashInv
    <3>6. ActiveRecord' = ActiveRecord /\ Active' = Active /\ ImageMatches(ctx.state, Active)'
      BY <1>a, <1>m, <2>0 DEF ImageMatches, ActiveRecord, Active
    <3>7. HandOffVerified'
      BY <1>a, <1>m, <2>0, <3>2, <3>6 DEF HandOffVerified
    <3>8. RefusedNeverRuns'
      BY <1>b, <1>m, <2>0 DEF RefusedNeverRuns, Fit, ActiveRecord
    <3>9. CrashLoopBound'
      BY <1>b, <1>m, <2>0, <3>3, TypesAssumption DEF CrashLoopBound, BootInv, JumpedInv
    <3>10. ContextInv' /\ LimitInv' /\ RefusalInv' /\ EndInv' /\ GivesUpOnlyWithoutSlot'
      BY <2>1 DEF ContextInv, ContextLabel, BootLabel, LimitInv, CountedLabel, AcceptedLabel,
                  RefusalInv, EndInv, GivesUpOnlyWithoutSlot
    <3> QED
      BY <1>a, <3>5, <3>7, <3>8, <3>9, <3>10 DEF BootInv, JumpedInv
  <2>2. CASE pc' # "jumped"
    BY <1>19, <1>i, <2>2 DEF HandOff, Goto
  <2> QED
    BY <2>1, <2>2
<1>20. CASE RecordFailed
  BY <1>20, <1>i DEF RecordFailed
<1> QED
  BY <1>1, <1>2, <1>3, <1>4, <1>5, <1>6, <1>7, <1>8, <1>9, <1>10, <1>11, <1>13, <1>14, <1>15,
     <1>16,
     <1>17, <1>18, <1>19, <1>20 DEF BootStep

-----------------------------------------------------------------------------
\* A device that is switched on for the first time satisfies it.
LEMMA BootInit == Init => BootInv
<1> SUFFICES ASSUME Init PROVE BootInv
  OBVIOUS
<1>1. CallInv
  BY CallInit
<1>2. /\ backup = primary /\ buf = Corrupt /\ pc = "off"
      /\ boots = [s \in Slot |-> 0] /\ refused = {}
      /\ primary # Corrupt => primary \in Store!State /\ WellFormed(primary)
  BY ProvisionedAssumption DEF Init, Store!Init, Store!State
<1>3. primary # Corrupt => \A s \in Slot : primary.slots[s].attempts \in Nat
  BY <1>2, StateParts, TypesAssumption
<1>4. FlashInv /\ CrashLoopBound
  BY <1>2, <1>3, TypesAssumption DEF FlashInv, Fit, CrashLoopBound
<1>5. ContextInv /\ LimitInv /\ RefusalInv /\ EndInv /\ JumpedInv /\ GivesUpOnlyWithoutSlot
  BY <1>2, <1>4
     DEF ContextInv, ContextLabel, BootLabel, LimitInv, CountedLabel, AcceptedLabel,
        RefusalInv, EndInv,
         JumpedInv, HandOffVerified, RefusedNeverRuns, GivesUpOnlyWithoutSlot
<1> QED
  BY <1>1, <1>4, <1>5 DEF BootInv

\* Every step keeps the invariant.
LEMMA BootNextKeeps == BootInv /\ [Next]_vars => BootInv'
<1> SUFFICES ASSUME BootInv, [Next]_vars PROVE BootInv'
  OBVIOUS
<1>1. CASE UNCHANGED vars
  <2>1. CallInv'
    BY CallNext DEF BootInv
  <2> QED
    BY <1>1, <2>1
       DEF vars, storeVars, appVars, history, BootInv, FlashInv, ContextInv, LimitInv,
          RefusalInv, EndInv,
           JumpedInv, HandOffVerified, RefusedNeverRuns, CrashLoopBound, GivesUpOnlyWithoutSlot,
           ActiveRecord, Active, ImageMatches, Store!Readable, Store!Meaning, Selectable
<1> QED
  BY <1>1, StepKinds, QuietKeeps, BootKeeps, CallKeeps, SessionKeeps, AppKeeps,
     PowerCutKeeps DEF Client

\* The invariant holds for every set of firmwares, every limit of attempts and every
\* number of faults, with and without flash errors.
THEOREM BootInvariant == Spec => []BootInv
BY BootInit, BootNextKeeps, PTL DEF Spec

\* Step [3] bounds the hand-offs to a firmware that was neither confirmed nor replaced by
\* LOXBOOT_MAX_BOOT_ATTEMPTS, wherever power fails and flash errors fall.
THEOREM BootBounded == Spec => []CrashLoopBound
<1>1. BootInv => CrashLoopBound
  BY DEF BootInv, JumpedInv
<1> QED
  BY BootInvariant, <1>1, PTL

\* Step [7] hands off to the slot that both copies name, with a verified image, a counted
\* attempt and the reason on record.
THEOREM BootVerified == Spec => []HandOffVerified
<1>1. BootInv => HandOffVerified
  BY DEF BootInv, JumpedInv
<1> QED
  BY BootInvariant, <1>1, PTL

\* A firmware that was recorded as refused never gets control again before another one is
\* committed to its slot.
THEOREM BootRefuses == Spec => []RefusedNeverRuns
<1>1. BootInv => RefusedNeverRuns
  BY DEF BootInv, JumpedInv
<1> QED
  BY BootInvariant, <1>1, PTL

\* on_fatal is reached without a flash error only if no slot that may be selected has a
\* good image and an attempt left.
THEOREM BootGivesUp == Spec => []GivesUpOnlyWithoutSlot
<1>1. BootInv => GivesUpOnlyWithoutSlot
  BY DEF BootInv
<1> QED
  BY BootInvariant, <1>1, PTL

\* No reader of the boot state ever sees the inactive slot ACTIVE, or the active one
\* ROLLBACK.
THEOREM StoreWellFormed == Spec => []OneActiveSlot
<1>1. BootInv => OneActiveSlot
  BY DEF BootInv, OneActiveSlot, FlashInv, Fit, Store!Readable, Store!Meaning
<1> QED
  BY BootInvariant, <1>1, PTL

\* loxboot_run_rollback reads back the state that the context holds, although the code
\* ignores the results of two writes before it.
THEOREM RollbackReadsContext == Spec => []RollbackUpToDate
<1>1. BootInv => RollbackUpToDate
  BY DEF BootInv, ContextInv, CallInv, ReturnInv, ReadLabel, RollbackUpToDate, At
<1> QED
  BY BootInvariant, <1>1, PTL
=============================================================================

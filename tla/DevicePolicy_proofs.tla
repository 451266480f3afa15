--------------------------- MODULE DevicePolicy_proofs --------------------------
(***************************************************************************)
(* Proof that the device implements BootPolicy (Device, ImplementsPolicy). *)
(* The store's own steps map to steps of the one record; the steps of the  *)
(* boot sequence, of the sessions and of the calls map to edits that the   *)
(* policy allows them.  What the maps need of the state is PolicyInv.      *)
(***************************************************************************)
EXTENDS DeviceSession_proofs

\* BootPolicy extends BootTypes on its own: its copies of the definitions are the device's.
LEMMA PolicyTypes ==
  /\ Policy!Slot = Slot /\ Policy!Reason = Reason /\ Policy!Good = Good
  /\ Policy!HeaderOnly = HeaderOnly
  /\ \A s : Policy!Other(s) = Other(s)
BY DEF Policy!Slot, Policy!Reason, Policy!Good, Policy!HeaderOnly, Policy!Other, Slot, Reason,
       Good, HeaderOnly, Other, Policy!StateOf, StateOf, Policy!RecordOf, RecordOf,
       Policy!SlotState, SlotState

\* And so are the edits.
LEMMA PolicyEdits ==
  /\ \A s : Policy!DefaultState(s) = DefaultState(s)
  /\ \A st : Policy!FallbackEdit(st) = FallbackEdit(st)
  /\ \A st : Policy!AttemptEdit(st) = AttemptEdit(st)
  /\ \A st, s : Policy!RollbackEdit(st, s) = RollbackEdit(st, s)
  /\ \A st, s, v : Policy!SetSlotState(st, s, v) = SetSlotState(st, s, v)
  /\ \A st, s : Policy!InvalidateEdit(st, s) = InvalidateEdit(st, s)
  /\ \A st, s, f : Policy!CommitEdit(st, s, f) = CommitEdit(st, s, f)
  /\ \A st : Policy!ConfirmEdit(st) = ConfirmEdit(st)
  /\ \A st, s : Policy!RequestEdit(st, s) = RequestEdit(st, s)
BY DEF Policy!DefaultState, DefaultState, Policy!BlankRecord, BlankRecord, Policy!FallbackEdit,
       FallbackEdit, Policy!AttemptEdit, AttemptEdit, Policy!RollbackEdit, RollbackEdit,
       Policy!SetSlotState, SetSlotState, Policy!InvalidateEdit, InvalidateEdit, Policy!CommitEdit,
       CommitEdit, Policy!ConfirmEdit, ConfirmEdit, Policy!RequestEdit, RequestEdit,
       Policy!DemoteActive, DemoteActive, Policy!Other, Other, Policy!Slot, Slot

\* Between two calls no write is under way, and the record is intact if both copies mean it.
LEMMA IdleRecord ==
  phase = "idle" => /\ Store!Stage = "idle" /\ Store!Pending = Corrupt
                    /\ Store!Intact = (Store!Readable = Store!Meaning(backup))
BY DEF Store!Stage, Store!Pending, Store!Intact, Store!Writing

\* A step of a client that begins no write leaves the record alone.
LEMMA SameRecord ==
  ASSUME ClientStep, phase' # "eraseP"
  PROVE  UNCHANGED Policy!recordVars
BY DEF ClientStep, Policy!recordVars, Store!Stage, Store!Pending, Store!Intact, Store!Writing,
       Store!Effective, Store!Readable, Store!Meaning

\* One that begins a write begins one of the record.
LEMMA BeginsWrite ==
  ASSUME ClientStep, phase' = "eraseP"
  PROVE  Policy!Record!Begin(buf')
BY DEF ClientStep, Policy!Record!Begin, Store!Stage, Store!Pending, Store!Intact, Store!Writing,
       Store!Effective, Store!Readable, Store!Meaning

\* What the phase of a write says of the copy it has erased.
ErasedInv ==
  /\ phase = "writeP" => primary = Corrupt
  /\ phase = "writeB" => backup = Corrupt

\* The record that a call of the store goes on with.
LEMMA RecordTypes ==
  TypeOK => /\ Store!Readable \in Good \cup {Corrupt} /\ Store!Intact \in BOOLEAN
            /\ Store!Meaning(buf) \in Good \cup {Corrupt}
            /\ Policy!Record!AsRead(buf) = Store!Meaning(buf)
            /\ Corrupt \notin Good
BY ProvisionedAssumption, PolicyTypes
   DEF TypeOK, Store!TypeOK, Store!Readable, Store!Meaning, Store!Intact, Policy!Record!AsRead

\* What the phase of a write means for the record.
LEMMA WriteStages ==
  ASSUME CallInv, ErasedInv
  PROVE  /\ phase \in {"eraseP", "writeP"} => Store!Stage = "begun" /\ Store!Pending = buf
         /\ phase = "eraseP" => Store!Intact = (Store!Readable = Store!Meaning(backup))
         /\ phase = "writeP" => Store!Intact = TRUE /\ Store!Readable = Store!Meaning(backup)
         /\ phase = "eraseB" => Store!Pending = buf
         /\ phase = "eraseB" /\ buf \in Good =>
              Store!Stage = "effective" /\ Store!Readable = buf /\ Store!Intact = FALSE
         /\ phase = "eraseB" /\ buf \notin Good =>
              /\ Store!Stage = "begun" /\ Store!Readable = Store!Meaning(backup)
              /\ Store!Intact = TRUE
         /\ phase = "writeB" =>
              /\ Store!Stage = "effective" /\ Store!Pending = buf
              /\ Store!Readable = Store!Meaning(buf) /\ Store!Intact = FALSE
BY RecordTypes
   DEF CallInv, ErasedInv, CopyInv, RestorePhase, Store!Stage, Store!Pending, Store!Writing,
       Store!Effective, Store!Intact, Store!Readable, Store!Meaning

\* No write is under way.
LEMMA NoStages ==
  phase \notin {"eraseP", "writeP", "eraseB", "writeB"} =>
    /\ Store!Stage = "idle" /\ Store!Pending = Corrupt
    /\ Store!Intact = (Store!Readable = Store!Meaning(backup))
BY DEF Store!Stage, Store!Pending, Store!Intact, Store!Writing

\* Erasing the primary loses nothing that the backup holds; otherwise, after a write that was
\* cut short, it is the moment at which the record decays.
LEMMA EraseIsDecay ==
  ASSUME CallInv, ErasedInv, Store!ErasePrimary, phase = "eraseP"
  PROVE  Policy!Record!Decay \/ UNCHANGED Policy!recordVars
<1>1. phase' = "writeP" /\ backup' = backup /\ buf' = buf /\ res' = res /\ primary' = Corrupt
  BY DEF Store!ErasePrimary
<1>2. Store!Stage = "begun" /\ Store!Stage' = "begun" /\ Store!Pending' = Store!Pending
  BY <1>1, WriteStages DEF Store!Stage, Store!Pending, Store!Writing, Store!Effective
<1>3. Store!Intact' = TRUE /\ Store!Readable' = Store!Meaning(backup)
  BY <1>1, RecordTypes
     DEF CallInv, Store!Intact, Store!Readable, Store!Meaning, Store!Writing, Store!Effective
<1>4. Store!Readable' \in Good \cup {Corrupt} /\ Store!Intact \in BOOLEAN
  BY <1>3, RecordTypes DEF Store!Meaning, CallInv
<1>5. CASE Store!Intact
  BY <1>1, <1>2, <1>3, <1>4, <1>5, WriteStages DEF Policy!recordVars
<1>6. CASE ~Store!Intact
  BY <1>1, <1>2, <1>3, <1>4, <1>6, PolicyTypes DEF Policy!Record!Decay
<1> QED
  BY <1>5, <1>6

\* A write takes effect when the primary is written, if a read accepts it ...
LEMMA WriteTakesEffect ==
  ASSUME CallInv, ErasedInv, Store!WritePrimary
  PROVE  Policy!Record!TakeEffect \/ UNCHANGED Policy!recordVars
<1>1. /\ phase = "writeP" /\ phase' = "eraseB"
      /\ primary' = buf /\ backup' = backup /\ buf' = buf /\ res' = res
  BY DEF Store!WritePrimary
<1>2. Store!Stage = "begun" /\ Store!Pending' = Store!Pending /\ Store!Pending = buf /\ Store!Intact = TRUE
  BY <1>1, WriteStages DEF Store!Pending, Store!Writing
<1>3. Store!Readable = Store!Meaning(backup) /\ Store!Meaning(buf) = Policy!Record!AsRead(buf)
  BY <1>1, WriteStages, RecordTypes DEF CallInv
<1>4. CASE buf \in Good
  <2>1. Store!Stage' = "effective" /\ Store!Intact' = FALSE /\ Store!Readable' = Store!Meaning(buf)
    BY <1>1, <1>4
       DEF Store!Stage, Store!Intact, Store!Writing, Store!Effective, Store!Readable, Store!Meaning
  <2> QED
    BY <1>1, <1>2, <1>3, <2>1 DEF Policy!Record!TakeEffect
<1>5. CASE buf \notin Good
  <2>1. Store!Stage' = "begun" /\ Store!Intact' = TRUE /\ Store!Readable' = Store!Readable
    BY <1>1, <1>3, <1>5
       DEF Store!Stage, Store!Intact, Store!Writing, Store!Effective, Store!Readable, Store!Meaning
  <2> QED
    BY <1>1, <1>2, <2>1 DEF Policy!recordVars
<1> QED
  BY <1>4, <1>5

\* ... and when the backup is erased, if none does: until then the backup is read.
LEMMA EraseTakesEffect ==
  ASSUME CallInv, ErasedInv, Store!EraseBackup
  PROVE  Policy!Record!TakeEffect \/ UNCHANGED Policy!recordVars
<1>1. /\ phase = "eraseB" /\ phase' = "writeB" /\ primary = buf
      /\ primary' = primary /\ backup' = Corrupt /\ buf' = buf /\ res' = res
  BY DEF Store!EraseBackup, CallInv, CopyInv
<1>2. Store!Pending' = buf /\ Store!Stage' = "effective" /\ Store!Intact' = FALSE
  BY <1>1 DEF Store!Pending, Store!Stage, Store!Intact, Store!Writing, Store!Effective
<1>3. Store!Readable' = Store!Meaning(buf) /\ Store!Meaning(buf) = Policy!Record!AsRead(buf)
  BY <1>1, RecordTypes DEF CallInv, Store!Readable, Store!Meaning
<1>4. CASE buf \in Good
  BY <1>1, <1>2, <1>3, <1>4, WriteStages DEF Store!Meaning, Policy!recordVars
<1>5. CASE buf \notin Good
  BY <1>1, <1>2, <1>3, <1>5, WriteStages DEF Policy!Record!TakeEffect
<1> QED
  BY <1>4, <1>5

\* It is acknowledged when the backup is written.
LEMMA WriteAcknowledged ==
  ASSUME CallInv, ErasedInv, Store!WriteBackup
  PROVE  Policy!Record!Acknowledge
<1>1. /\ phase = "writeB" /\ phase' = "idle" /\ primary = buf
      /\ primary' = primary /\ backup' = buf /\ buf' = buf /\ res' = "OK"
  BY DEF Store!WriteBackup, Store!Return, CallInv, CopyInv
<1>2. Store!Readable' = Store!Meaning(buf) /\ Store!Meaning(backup)' = Store!Meaning(buf)
  BY <1>1 DEF Store!Readable, Store!Meaning
<1>3. Store!Stage' = "idle" /\ Store!Pending' = Corrupt /\ Store!Intact' = TRUE
  BY <1>1, <1>2 DEF Store!Stage, Store!Pending, Store!Intact, Store!Writing, Store!Effective
<1> QED
  BY <1>1, <1>2, <1>3, WriteStages DEF Policy!Record!Acknowledge

\* A read, or the restore at the end of one, leaves the record as it is.
LEMMA ReadIsRead ==
  ASSUME phase \notin {"eraseP", "writeP", "eraseB", "writeB"},
         phase' \notin {"eraseP", "writeP", "eraseB", "writeB"},
         backup' = backup,
         primary' = primary \/ (primary \notin Good /\ primary' \in {primary, Corrupt, backup}),
         \/ res' = res
         \/ res' \in {"OK", "FLASH", "CUT"}
         \/ res' = "CORRUPT" /\ Store!Readable = Corrupt
  PROVE  Policy!Record!Read \/ UNCHANGED Policy!recordVars
<1>1. Store!Readable' = Store!Readable /\ Store!Meaning(backup)' = Store!Meaning(backup)
  BY ProvisionedAssumption DEF Store!Readable, Store!Meaning
<1>2. /\ Store!Stage = "idle" /\ Store!Pending = Corrupt
      /\ Store!Intact = (Store!Readable = Store!Meaning(backup))
      /\ Store!Stage' = "idle" /\ Store!Pending' = Corrupt
      /\ Store!Intact' = (Store!Readable' = Store!Meaning(backup)')
  BY DEF Store!Stage, Store!Pending, Store!Intact, Store!Writing
<1> QED
  BY <1>1, <1>2 DEF Policy!Record!Read, Policy!recordVars

\* Every step of the store makes progress on the record, or leaves it alone.
LEMMA StepIsProgress ==
  ASSUME CallInv, ErasedInv, Store!Step
  PROVE  \/ Policy!Record!Read \/ Policy!Record!Decay \/ Policy!Record!TakeEffect
         \/ Policy!Record!Acknowledge \/ UNCHANGED Policy!recordVars
<1> USE DEF CallInv, CopyInv, RestorePhase, Store!Return
<1>1. CASE Store!ReadPrimary \/ Store!HeaderPrimary
  BY <1>1, ReadIsRead DEF Store!ReadPrimary, Store!HeaderPrimary
<1>2. CASE Store!ReadBackup \/ Store!HeaderBackup
  <2>1. primary \notin Good
    BY <1>2 DEF Store!ReadBackup, Store!HeaderBackup
  <2>2. backup \notin Good => Store!Readable = Corrupt
    BY <2>1 DEF Store!Readable, Store!Meaning
  <2>3. backup \notin Store!State => backup \notin Good
    BY StateTypes
  <2> QED
    BY <1>2, <2>2, <2>3, ReadIsRead DEF Store!ReadBackup, Store!HeaderBackup
<1>3. CASE Store!ErasePrimary
  <2>1. CASE phase = "eraseP"
    BY <1>3, <2>1, EraseIsDecay
  <2>2. CASE phase = "eraseR"
    BY <1>3, <2>2, ReadIsRead DEF Store!ErasePrimary
  <2> QED
    BY <1>3, <2>1, <2>2 DEF Store!ErasePrimary, Store!ErasingPrimary
<1>4. CASE Store!RestorePrimary
  BY <1>4, ReadIsRead DEF Store!RestorePrimary
<1> QED
  BY <1>1, <1>2, <1>3, <1>4, WriteTakesEffect, EraseTakesEffect, WriteAcknowledged DEF Store!Step

\* A call that power cuts short ...
LEMMA CutIsAbort ==
  ASSUME CallInv, ErasedInv, Store!PowerCut
  PROVE  (Policy!Record!Read \/ Policy!Record!Abort) /\ res' = "CUT"
<1> DEFINE W == {"eraseP", "writeP", "eraseB", "writeB"}
<1>a. /\ phase' = "idle" /\ res' = "CUT" /\ Store!CutShort
      /\ primary' \in {primary, buf, Corrupt} /\ backup' \in {backup, buf, Corrupt}
      /\ phase \notin Store!ErasingPrimary \cup Store!WritingPrimary => primary' = primary
      /\ phase \notin {"eraseB", "writeB"} => backup' = backup
  BY CutShortCases DEF CallInv, TypeOK, Store!PowerCut
<1>b. Store!Stage' = "idle" /\ Store!Pending' = Corrupt
  BY <1>a DEF Store!Stage, Store!Pending, Store!Writing
<1>c. Store!Readable' \in Good \cup {Corrupt} /\ Store!Intact' \in BOOLEAN
  BY DEF Store!Readable, Store!Meaning, Store!Intact
<1>1. CASE phase \notin W
  <2>1. primary' = primary \/ (primary \notin Good /\ primary' \in {primary, Corrupt, backup})
    BY <1>a, <1>1 DEF CallInv, CopyInv, RestorePhase, Store!ErasingPrimary, Store!WritingPrimary
  <2>2. backup' = backup
    BY <1>a, <1>1
  <2>3. Policy!Record!Read \/ UNCHANGED Policy!recordVars
    BY <1>a, <1>1, <2>1, <2>2, ReadIsRead
  <2>4. Store!Stage = "idle"
    BY <1>1, NoStages
  <2> QED
    BY <1>a, <2>3, <2>4 DEF Policy!Record!Read, Policy!recordVars
<1>2. CASE phase = "writeB" \/ (phase = "eraseB" /\ buf \in Good)
  <2>1. primary' = primary /\ primary = buf /\ backup' \in {backup, buf, Corrupt}
    BY <1>a, <1>2 DEF CallInv, CopyInv, Store!ErasingPrimary, Store!WritingPrimary
  <2>2. buf \notin Good => phase = "writeB" /\ backup' \notin Good
    BY <1>2, <1>a, RecordTypes DEF CallInv, ErasedInv
  <2>3. Store!Readable' = Store!Meaning(buf)
    BY <2>1, <2>2 DEF Store!Readable, Store!Meaning
  <2>4. Store!Stage = "effective" /\ Store!Readable = Store!Meaning(buf)
    BY <1>2, WriteStages DEF Store!Meaning
  <2> QED
    BY <1>a, <1>b, <1>c, <2>3, <2>4 DEF Policy!Record!Abort
<1>3. CASE phase \in {"eraseP", "writeP"} \/ (phase = "eraseB" /\ buf \notin Good)
  <2>1. Store!Stage = "begun" /\ Store!Pending = buf
    BY <1>3, WriteStages
  <2>2. CASE Store!Intact
    <3>1. Store!Readable = Store!Meaning(backup)
      BY <1>3, <2>2, WriteStages
    <3>2. Store!Readable' \in {Store!Readable, Store!Meaning(buf)}
      <4>1. CASE phase \in {"eraseP", "writeP"}
        BY <1>a, <3>1, <4>1, RecordTypes DEF CallInv, Store!Readable, Store!Meaning
      <4>2. CASE phase = "eraseB" /\ buf \notin Good
        <5>1. primary' = primary /\ primary = buf /\ backup' \in {backup, buf, Corrupt}
          BY <1>a, <4>2 DEF CallInv, CopyInv, Store!ErasingPrimary, Store!WritingPrimary
        <5> QED
          BY <3>1, <4>2, <5>1, RecordTypes DEF CallInv, Store!Readable, Store!Meaning
      <4> QED
        BY <1>3, <4>1, <4>2
    <3>3. Policy!Record!AsRead(Store!Pending) = Store!Meaning(buf)
      BY <2>1, RecordTypes DEF CallInv
    <3> QED
      BY <1>a, <1>b, <1>c, <2>1, <2>2, <3>2, <3>3 DEF Policy!Record!Abort
  <2>3. CASE ~Store!Intact
    BY <1>a, <1>b, <1>c, <2>1, <2>3, PolicyTypes DEF Policy!Record!Abort
  <2> QED
    BY <2>2, <2>3
<1> QED
  BY <1>1, <1>2, <1>3


-----------------------------------------------------------------------------
\* Without flash errors every call of the boot sequence finds a boot state.
FoundInv ==
  ~trouble =>
    /\ pc = "format" => buf \in Good
    /\ pc \in {"reread", "rereadUart", "uartRead", "uartEnd"} => primary \in Good
    /\ pc = "uartEnd" => sess.err = "OK"

\* Once it is counted, the attempt is in flash when the sequence goes on.
HeldInv == pc \in {"verify", "promote", "record"} => primary = ctx.state

\* loxboot_invalidate_slot repairs a boot state only if there is none to read,
\* and loxboot_commit_slot is called for a firmware.
RepairInv ==
  /\ pc = "opHeader" => primary \notin Good /\ backup \notin Good
  /\ pc \in CallLabel /\ call.name = "commit" => call.fw \in Firmware

\* The inductive invariant of the refinement.
PolicyInv == SessionInv /\ ErasedInv /\ FoundInv /\ HeldInv /\ RepairInv

\* The store keeps it.
LEMMA QuietHolds ==
  PolicyInv /\ (StoreStep \/ FlashError) => ErasedInv' /\ FoundInv' /\ HeldInv' /\ RepairInv'
<1> SUFFICES ASSUME PolicyInv, StoreStep \/ FlashError
             PROVE  ErasedInv' /\ FoundInv' /\ HeldInv' /\ RepairInv'
  OBVIOUS
<1>a. CallInv /\ TypeOK
  BY DEF PolicyInv, SessionInv, BootInv, CallInv
<1>b. /\ pc \in StoreLabel
      /\ pc \in WriteLabel => buf' = buf
      /\ pc \in ReadLabel /\ primary \in Good => primary' = primary /\ backup' = backup
      /\ UNCHANGED <<pc, ctx, call, sess>>
      /\ trouble => trouble'
  BY <1>a, QuietMoves
<1>1. ErasedInv'
  <2>1. CASE StoreStep
    BY <2>1
       DEF StoreStep, ErasedInv, Store!Step, Store!ReadPrimary, Store!ReadBackup,
           Store!HeaderPrimary,
       Store!HeaderBackup, Store!ErasePrimary, Store!WritePrimary, Store!RestorePrimary,
       Store!EraseBackup, Store!WriteBackup, Store!Return
  <2>2. CASE FlashError
    BY <2>2 DEF FlashError, Store!FlashError, Store!CutShort, ErasedInv
  <2> QED
    BY <2>1, <2>2
<1>2. FoundInv'
  BY <1>b DEF PolicyInv, FoundInv, StoreLabel, ReadLabel, WriteLabel
<1>3. HeldInv'
  BY <1>b DEF HeldInv, StoreLabel, ReadLabel, WriteLabel
<1>4. RepairInv'
  <2>1. ASSUME pc = "opHeader" PROVE primary' \notin Good /\ backup' \notin Good
    <3>1. /\ phase \in {"idle", "headerP", "headerB"} \cup RestorePhase
          /\ phase \in RestorePhase => buf = backup
          /\ primary \notin Good /\ backup \notin Good /\ Corrupt \notin Good
      BY <2>1, <1>a, RecordTypes DEF CallInv, WaitInv, CopyInv, PolicyInv, RepairInv
    <3>2. CASE StoreStep
      BY <3>1, <3>2 DEF StoreStep, RestorePhase, Store!Step, Store!ReadPrimary, Store!ReadBackup,
         Store!HeaderPrimary, Store!HeaderBackup, Store!ErasePrimary, Store!WritePrimary,
         Store!RestorePrimary, Store!EraseBackup, Store!WriteBackup, Store!Return
    <3>3. CASE FlashError
      <4>1. /\ primary' \in {primary, buf, Corrupt}
            /\ phase \notin Store!ErasingPrimary \cup Store!WritingPrimary => primary' = primary
            /\ phase \notin {"eraseB", "writeB"} => backup' = backup
        BY <3>3, <1>a, CutShortCases DEF FlashError, Store!FlashError, TypeOK
      <4> QED
        BY <3>1, <4>1 DEF RestorePhase, Store!ErasingPrimary, Store!WritingPrimary
    <3> QED
      BY <3>2, <3>3
  <2> QED
    BY <1>b, <2>1 DEF PolicyInv, RepairInv
<1> QED
  BY <1>1, <1>2, <1>3, <1>4

\* No client is in a write when it makes a step.
LEMMA ClientErased == ClientStep => ErasedInv'
BY DEF ClientStep, ErasedInv

\* The boot sequence keeps it.
LEMMA BootHolds ==
  PolicyInv /\ BootStep => FoundInv' /\ HeldInv' /\ RepairInv'
<1> SUFFICES ASSUME PolicyInv, BootStep PROVE FoundInv' /\ HeldInv' /\ RepairInv'
  OBVIOUS
<1>a. CallInv /\ TypeOK /\ BootInv
  BY DEF PolicyInv, SessionInv, BootInv, CallInv
<1>b. /\ pc' \in BootNext /\ phase = "idle" /\ ctx \in Context
      /\ primary' = primary /\ backup' = backup
  BY <1>a, BootFacts
<1>c. /\ pc \in ReadLabel /\ res = "OK" => buf \in Good /\ primary = buf
      /\ pc \in WriteLabel /\ res = "OK" => primary = buf
  BY <1>a, <1>b DEF CallInv, ReturnInv
<1>d. /\ "read" \in ReadLabel /\ "reread" \in ReadLabel /\ "rereadUart" \in ReadLabel
      /\ {"format", "attempt", "promoted"} \subseteq WriteLabel
  BY DEF ReadLabel, WriteLabel
<1>e. pc' \notin CallLabel \cup {"uartEnd"}
  BY <1>b DEF BootNext, BootLabel, CallLabel
<1>1. RepairInv'
  BY <1>e DEF RepairInv, CallLabel
<1>f. pc \in {"attempt", "promoted"} => buf = ctx.state
  BY <1>a DEF BootInv, ContextInv
<1> USE DEF At, Fatal, Goto, Listen, Read, Write, Store!BeginRead, Store!BeginWrite, storeVars, history
<1>2. CASE AfterRead
  BY <1>2, <1>b, <1>c, <1>d, DefaultTypes
     DEF AfterRead, FoundInv, HeldInv, RepairInv, Slot, PolicyInv, CallLabel
<1>3. CASE AfterFormat
  BY <1>1, <1>3, <1>b, <1>c, <1>d DEF AfterFormat, FoundInv, HeldInv, PolicyInv
<1>4. CASE AfterReread \/ AfterSessionReread
  BY <1>1, <1>4, <1>b, <1>c, <1>d DEF AfterReread, AfterSessionReread, FoundInv, HeldInv
<1>5. CASE AfterSession
  BY <1>1, <1>5, <1>b DEF AfterSession, FoundInv, HeldInv, PolicyInv
<1>6. CASE Select \/ AfterFallback \/ CheckAttempts \/ RollbackRead \/ RollbackWrite
  BY <1>1, <1>6
     DEF Select, AfterFallback, CheckAttempts, RollbackRead, RollbackWrite, FoundInv, HeldInv
<1>7. CASE AfterAttempt
  BY <1>1, <1>7, <1>b, <1>c, <1>d, <1>f DEF AfterAttempt, FoundInv, HeldInv
<1>8. CASE Verify
  BY <1>1, <1>8, <1>b DEF Verify, Spoil, FoundInv, HeldInv, PolicyInv
<1>9. CASE VerifyReadError \/ AfterSpoil \/ RecordReason \/ HandOff \/ RecordFailed
  BY <1>1, <1>9
     DEF VerifyReadError, Spoil, AfterSpoil, RecordReason, HandOff, RecordFailed, FoundInv, HeldInv
<1>10. CASE Promote
  BY <1>1, <1>10, <1>b, ContextFields DEF Promote, FoundInv, HeldInv, PolicyInv
<1>11. CASE AfterPromote
  BY <1>1, <1>11, <1>b, <1>c, <1>d, <1>f, ContextFields DEF AfterPromote, FoundInv, HeldInv
<1> QED
  BY <1>2, <1>3, <1>4, <1>5, <1>6, <1>7, <1>8, <1>9, <1>10, <1>11 DEF BootStep

\* So does a call of the API.
LEMMA CallHolds ==
  PolicyInv /\ CallStep => FoundInv' /\ HeldInv' /\ RepairInv'
<1> SUFFICES ASSUME PolicyInv, CallStep PROVE FoundInv' /\ HeldInv' /\ RepairInv'
  OBVIOUS
<1>a. CallInv /\ TypeOK
  BY DEF PolicyInv, SessionInv, BootInv, CallInv
<1>b. /\ phase = "idle" /\ pc \in CallLabel /\ pc' \in CallLabel \cup {sess.back}
      /\ ClientStep /\ sess \in Session
  BY <1>a, CallClient, CallAt DEF TypeOK
<1>c. pc' \notin BootLabel \cup {"uartRead", "uartEnd"}
  BY <1>b, BackLabel DEF CallLabel, BootLabel
<1>1. FoundInv' /\ HeldInv'
  BY <1>c DEF FoundInv, HeldInv, BootLabel
<1>2. ASSUME pc' \in CallLabel PROVE call' = call
  <2>1. sess.back \notin CallLabel
    BY <1>b, BackLabel
  <2> QED
    BY <1>2, <2>1
       DEF CallStep, Confirm, Commit, Invalidate, Request, Check, ReadFailed, Repair, Written,
           WriteIf,
           Finish, Return, Goto
<1>3. ASSUME pc' = "opHeader" PROVE primary \notin Good /\ backup \notin Good
  <2>1. sess.back # "opHeader"
    BY <1>b, BackLabel DEF CallLabel
  <2>2. ReadFailed /\ res = "CORRUPT" /\ pc = "opRead"
    BY <1>3, <2>1
       DEF CallStep, Confirm, Commit, Invalidate, Request, Check, ReadFailed, Repair, Written,
           WriteIf,
           Finish, Return, Goto, Write, At
  <2> QED
    BY <1>a, <1>b, <2>2 DEF CallInv, ReturnInv, ReadLabel
<1>4. primary' = primary /\ backup' = backup
  BY <1>b DEF ClientStep
<1> QED
  BY <1>1, <1>b, <1>2, <1>3, <1>4 DEF PolicyInv, RepairInv

\* So does a session: what it commits is a firmware.
LEMMA AskHolds ==
  ASSUME NEW name, NEW fw, NEW s, NEW l, Ask(name, fw, s, l),
         name = "commit" => fw \in Firmware \cup {NoFirmware},
         l \notin CallLabel, s \in Session
  PROVE  pc' \in CallLabel /\ call'.name = "commit" => call'.fw \in Firmware
BY AskParts DEF Ask, Begin, Return, Goto, Read

\* So do the steps of a session, the host and the clock.
LEMMA SessionHolds ==
  PolicyInv /\ (SessionStep \/ HostStep \/ Timeout) => FoundInv' /\ HeldInv' /\ RepairInv'
<1> SUFFICES ASSUME PolicyInv, SessionStep \/ HostStep \/ Timeout
             PROVE  FoundInv' /\ HeldInv' /\ RepairInv'
  OBVIOUS
<1>a. CallInv /\ TypeOK /\ sess \in Session
  BY DEF PolicyInv, SessionInv, BootInv, CallInv, TypeOK
<1>b. /\ phase = "idle" /\ pc \in SessionLabel /\ pc' \in SessionLabel \cup {"opRead"}
      /\ ClientStep
  BY <1>a, SessionClient, SessionAt
<1>c. primary' = primary /\ backup' = backup
  BY <1>b DEF ClientStep
<1>d. /\ sess.draft \in Draft /\ sess.frame \in Frames \cup {NoFrame}
      /\ \A f \in Frames : Received(f) \in Session
      /\ \A d \in Draft : [sess EXCEPT !.draft = d] \in Session
  BY <1>a, SessionParts DEF Received
<1>1. HeldInv'
  BY <1>b DEF HeldInv, SessionLabel
<1>2. ASSUME pc' = "uartEnd", ~trouble' PROVE primary \in Good /\ sess'.err = "OK"
  <2>1. CASE SessionStart
    <3>1. res # "OK" /\ trouble' = trouble /\ pc = "uartRead"
      BY <1>2, <2>1 DEF SessionStart, Goto, At, history
    <3> QED
      BY <1>a, <1>b, <1>2, <3>1 DEF CallInv, ReturnInv, ReadLabel, PolicyInv, FoundInv
  <2>2. CASE Timeout \/ \E f \in Frames : RebootFrame(f)
    <3>1. pc \in Serving /\ trouble' = trouble
      BY <2>2 DEF Timeout, RebootFrame, At, Serving, SessionLabel, history
    <3>2. primary \in Good
      BY <1>2, <3>1 DEF PolicyInv, SessionInv, ServeInv, TargetInv, Asking
    <3>3. \A s \in Session : EndSession(s, "OK") => sess'.err = "OK"
      BY DEF EndSession, Session
    <3>4. sess'.err = "OK"
      <4>1. \A f \in Frames : [Received(f) EXCEPT !.reboot = TRUE] \in Session
        BY <1>d, SessionParts
      <4> QED
        BY <2>2, <3>3, <4>1, <1>a DEF Timeout, RebootFrame
    <3> QED
      BY <3>2, <3>4
  <2>3. CASE ReceiveError \/ SendError
    BY <1>2, <2>3 DEF ReceiveError, SendError
  <2> QED
    BY <1>a, <1>2, <2>1, <2>2, <2>3, SessionEnds
<1>3. pc' # "uartRead" /\ pc' \notin BootLabel
  <2>1. pc' # "uartRead"
    <3>1. ASSUME NEW name, NEW fw, NEW s, NEW l, Ask(name, fw, s, l), l # "uartRead"
          PROVE  pc' # "uartRead"
      BY <3>1, <1>a DEF Ask, Begin, Return, Goto, Read
    <3> QED
      BY <3>1
         DEF SessionStep, HostStep, Command, SessionStart, EraseSlot, EraseFails, ProgramChunk,
             ProgramFails,
         Inquired, Committed, Verified, Refused, Aborted, Sent, RefuseFrame, Inquire, WriteFrame,
         CommitFrame, AbortFrame, RebootFrame, DropFrame, ReceiveError, SendError, Timeout, Answer,
         Refuse,
         EndSession, Goto, Read
  <2> QED
    BY <1>b, <2>1 DEF SessionLabel, BootLabel
<1>4. FoundInv'
  BY <1>2, <1>3, <1>c DEF FoundInv, BootLabel
<1>5. ASSUME pc' \in CallLabel, call'.name = "commit" PROVE call'.fw \in Firmware
  <2>a. {"listen", "committed", "verified", "refused", "aborted"} \cap CallLabel = {}
    BY DEF CallLabel
  <2>b. \A s \in Session : /\ ~Refuse(s)
                          /\ ~Ask("verify", NoFirmware, s, "verified")
                          /\ ~Ask("invalidate", NoFirmware, s, "listen")
                          /\ ~Ask("invalidate", NoFirmware, s, "aborted")
    BY <1>5, <2>a, AskHolds, AskParts DEF Refuse, Ask, Begin, Return, Goto, Read
  <2>c. \A l : Goto(l) => l \in CallLabel
    BY <1>5 DEF Goto
  <2>1. ASSUME NEW f \in Frames, CommitFrame(f) PROVE call'.fw \in Firmware
    <3>1. Ask("commit", f.fw, Received(f), "committed")
      BY <2>1, <2>b, <1>d DEF CommitFrame
    <3> QED
      BY <3>1, <1>5, <2>1, <2>a, <1>d, FrameTypes, AskHolds DEF CommitFrame
  <2>2. ASSUME NEW f \in Frames, Command(f), ~CommitFrame(f) PROVE FALSE
    BY <2>2, <2>a, <2>b, <2>c, <1>d, <1>5
       DEF Command, RefuseFrame, Inquire, WriteFrame, AbortFrame, RebootFrame, Answer, EndSession,
           Read,
           CallLabel
  <2>3. CASE SessionStart \/ EraseSlot \/ EraseFails \/ ProgramChunk \/ Inquired \/ Committed
    BY <2>3, <2>b, <2>c, <1>a
       DEF SessionStart, EraseSlot, EraseFails, ProgramChunk, Inquired, Committed, Answer,
           EndSession,
           CallLabel
  <2>4. CASE ProgramFails
    <3>1. PICK draft \in {sess.draft, Torn(sess.draft, sess.frame), Programmed(sess.draft, sess.frame)} :
            Refuse([sess EXCEPT !.draft = draft])
      BY <2>4 DEF ProgramFails
    <3> QED
      BY <3>1, <2>b, <1>d, DraftTypes
  <2>5. CASE Verified \/ Refused \/ Aborted \/ Sent \/ DropFrame \/ ReceiveError \/ SendError \/ Timeout
    BY <2>5, <2>b, <2>c, <1>a
       DEF Verified, Refused, Aborted, Sent, DropFrame, ReceiveError, SendError, Timeout, Answer,
           EndSession, CallLabel
  <2> QED
    BY <2>1, <2>2, <2>3, <2>4, <2>5 DEF SessionStep, HostStep
<1> QED
  BY <1>1, <1>4, <1>b, <1>5 DEF RepairInv, SessionLabel
\* So does the application.
LEMMA AppHolds ==
  PolicyInv /\ AppStep => FoundInv' /\ HeldInv' /\ RepairInv'
<1> SUFFICES ASSUME PolicyInv, AppStep PROVE FoundInv' /\ HeldInv' /\ RepairInv'
  OBVIOUS
<1>a. CallInv /\ TypeOK /\ sess.back = "app"
  BY AppAt DEF PolicyInv, SessionInv, BootInv, CallInv, ServeInv, OwnerInv, SessionLabel, CallLabel,
     NoSession
<1>b. pc' \in {"read", "app", "opRead", "opWrite"}
  BY <1>a, AppClient
<1>1. ASSUME pc' \in CallLabel, call'.name = "commit" PROVE call'.fw \in Firmware
  <2>1. ASSUME NEW c \in Calls, Invoke(c) PROVE call'.fw \in Firmware
    <3>1. call' = c /\ ~(c.name = "commit" /\ c.fw = NoFirmware)
      BY <2>1, <1>1, <1>a DEF Invoke, Begin, Return, Goto, Read, CallLabel
    <3> QED
      BY <3>1, <1>1, CallsAssumption, CallParts
  <2>2. ASSUME NEW c \in Calls, Format(c) PROVE FALSE
    BY <2>2, <1>1 DEF Format
  <2> QED
    BY <2>1, <2>2, <1>1
       DEF AppStep, PowerOn, AppStart, UpdaterStart, AppWritesImage, Goto, Read, CallLabel, At
<1> QED
  BY <1>b, <1>1 DEF FoundInv, HeldInv, RepairInv, BootLabel

\* A power cut ends everything.
LEMMA CutHolds == PolicyInv /\ PowerCut => ErasedInv' /\ FoundInv' /\ HeldInv' /\ RepairInv'
BY DEF PowerCut, Store!PowerCut, Store!CutShort, ErasedInv, FoundInv, HeldInv, RepairInv, CallLabel

\* The device starts with it.
LEMMA PolicyInit == Init => PolicyInv
<1> SUFFICES ASSUME Init PROVE PolicyInv
  OBVIOUS
<1>1. SessionInv
  BY SessionInit
<1>2. pc = "off" /\ phase = "idle"
  BY DEF Init, Store!Init
<1> QED
  BY <1>1, <1>2 DEF PolicyInv, ErasedInv, FoundInv, HeldInv, RepairInv, CallLabel

\* Every step keeps it.
LEMMA PolicyNextKeeps == PolicyInv /\ [Next]_vars => PolicyInv'
<1> SUFFICES ASSUME PolicyInv, [Next]_vars PROVE PolicyInv'
  OBVIOUS
<1>1. SessionInv' /\ CallInv
  BY SessionNextKeeps DEF PolicyInv, SessionInv, BootInv
<1>2. CASE StoreStep \/ FlashError
  BY <1>1, <1>2, QuietHolds DEF PolicyInv
<1>3. CASE PowerCut
  BY <1>1, <1>3, CutHolds DEF PolicyInv
<1>4. CASE Client
  BY <1>1, <1>4, ClientKeeps, ClientErased, BootHolds, CallHolds, SessionHolds, AppHolds
     DEF PolicyInv, Client
<1>5. CASE UNCHANGED vars
  BY <1>1, <1>5
     DEF PolicyInv, ErasedInv, FoundInv, HeldInv, RepairInv, vars, storeVars, appVars, history
<1> QED
  BY <1>2, <1>3, <1>4, <1>5, StepKinds

-----------------------------------------------------------------------------
\* Who has the processor, before and after a step.
LEMMA Modes ==
  /\ pc = "off" => Mode = "off"
  /\ pc = "fatal" => Mode = "dead"
  /\ pc \in CountedLabel => Mode = "counted"
  /\ pc \in BootLabel \ CountedLabel => Mode = "boot"
  /\ pc \in SessionLabel => Mode = "session"
  /\ pc \in CallLabel => Mode = IF sess.back = "app" THEN "app" ELSE "session"
  /\ pc \in {"jumped", "app"} => Mode = "app"
BY DEF Mode, CountedLabel, BootLabel, SessionLabel, CallLabel

\* The same after a step.
LEMMA ModesAfter ==
  /\ pc' = "off" => Mode' = "off"
  /\ pc' = "fatal" => Mode' = "dead"
  /\ pc' \in CountedLabel => Mode' = "counted"
  /\ pc' \in BootLabel \ CountedLabel => Mode' = "boot"
  /\ pc' \in SessionLabel => Mode' = "session"
  /\ pc' \in CallLabel => Mode' = IF sess'.back = "app" THEN "app" ELSE "session"
  /\ pc' \in {"jumped", "app"} => Mode' = "app"
BY DEF Mode, CountedLabel, BootLabel, SessionLabel, CallLabel

\* A step of the device is a step of the policy, or none.
PolicyStep == [Policy!Next]_(Policy!policyVars)

\* A step that writes nothing and keeps the processor where it was.
LEMMA Stutters ==
  ASSUME ClientStep, phase' # "eraseP", image' = image, Mode' = Mode
  PROVE  PolicyStep
BY SameRecord DEF PolicyStep, Policy!policyVars

\* A step that hands the processor on.
LEMMA HandsOn ==
  ASSUME ClientStep, phase' # "eraseP", image' = image,
         \/ Mode = "boot" /\ Mode' = "session"
         \/ Mode = "session" /\ Mode' = "boot"
         \/ Mode = "off" /\ Mode' \in {"boot", "app"}
  PROVE  PolicyStep
<1>1. Store!Stage = "idle"
  BY IdleRecord DEF ClientStep
<1> QED
  BY <1>1, SameRecord DEF PolicyStep, Policy!Next, Policy!Turns, Policy!PowerOn, Policy!Control

\* A step that begins a write.
LEMMA Edits ==
  ASSUME ClientStep, phase' = "eraseP", image' = image,
         \/ Mode = "boot" /\ Mode' = "boot" /\ buf' \in Policy!SelectEdits
         \/ Mode = "boot" /\ Mode' = "counted" /\ buf' \in Policy!AttemptEdits
         \/ Mode = "counted" /\ Mode' = "boot" /\ buf' \in Policy!RefuseEdits
         \/ Mode = "counted" /\ Mode' = "counted" /\ buf' \in Policy!AcceptEdits
         \/ Mode = "session" /\ Mode' = "session" /\ buf' \in Policy!SessionEdits
         \/ Mode = "app" /\ Mode' = "app" /\ buf' \in Policy!AppEdits
  PROVE  PolicyStep
BY BeginsWrite DEF PolicyStep, Policy!Next, Policy!Edit

\* The record, when the boot sequence knows it.
LEMMA KnownRecord ==
  ASSUME primary = ctx.state, ctx.state \in Good
  PROVE  /\ Store!Readable = ctx.state /\ Policy!Readable
         /\ Policy!Activated = ActiveRecord
         /\ Policy!Standby = ctx.state.slots[Other(Active)]
         /\ Policy!Verified(Active) = ImageMatches(ctx.state, Active)
         /\ Policy!Attempted = (ActiveRecord.attempts \in 1 .. MaxAttempts)
BY PolicyTypes, StateTypes
   DEF Policy!Readable, Policy!Activated, Policy!Standby, Policy!Verified, Policy!Attempted,
       Store!Readable, Store!Meaning, Active, ActiveRecord, ImageMatches

-----------------------------------------------------------------------------
\* The boot sequence does what the policy allows it.
LEMMA BootImplements ==
  ASSUME PolicyInv, BootStep, trouble = FALSE, ~FlashMayFail
  PROVE  PolicyStep
<1>a. CallInv /\ TypeOK /\ BootInv /\ trouble \in BOOLEAN
  BY DEF PolicyInv, SessionInv, BootInv, CallInv, TypeOK
<1>b. /\ pc' \in BootNext /\ phase = "idle" /\ ctx \in Context /\ ClientStep /\ image' = image
      /\ pc \in ReadLabel /\ res # "OK" => primary \notin Good /\ backup \notin Good
      /\ pc \in WriteLabel => res = "OK"
      /\ Store!Stage = "idle"
  BY <1>a, BootFacts, BootClient, IdleRecord
<1>c. /\ pc \in ReadLabel /\ res = "OK" => buf \in Good /\ primary = buf
      /\ pc \in WriteLabel => primary = buf
  BY <1>a, <1>b DEF CallInv, ReturnInv
<1>d. /\ ReadLabel \cap BootLabel = {"read", "reread", "rereadUart", "rbRead"}
      /\ WriteLabel \cap BootLabel =
           {"format", "fallback", "rbWrite", "attempt", "spoiled", "promoted", "recorded"}
      /\ BootLabel \ CountedLabel =
           {"read", "format", "reread", "rereadUart", "select", "fallback", "check", "rbRead", "rbWrite",
            "spoiled"}
      /\ CountedLabel = {"attempt", "verify", "promote", "promoted", "record", "recorded"}
      /\ "uartRead" \in SessionLabel /\ "uartEnd" \in SessionLabel
  BY DEF ReadLabel, WriteLabel, BootLabel, CountedLabel, SessionLabel
<1>e. pc \in {"select", "check", "rbRead", "verify", "promote", "record", "recorded"} =>
        primary = ctx.state /\ ctx.state \in Good
  BY <1>a, <1>c, <1>d DEF PolicyInv, HeldInv, BootInv, ContextInv, ContextLabel, BootLabel
<1>m. /\ phase' # "eraseP" /\ Mode' = Mode => PolicyStep
      /\ phase' # "eraseP" /\ {Mode, Mode'} = {"boot", "session"} => PolicyStep
  BY <1>b, Stutters, HandsOn
<1> USE <1>b DEF At
<1>1. CASE AfterRead
  <2>1. pc = "read" /\ res \in {"OK", "CORRUPT"} /\ Mode = "boot"
    BY <1>1, <1>a, <1>d, Modes DEF AfterRead, CallInv, ReturnInv
  <2>2. CASE res = "OK"
    BY <1>1, <1>d, <1>m, <2>1, <2>2, ModesAfter
       DEF AfterRead, Listen, Read, Goto, Store!BeginRead, storeVars
  <2>3. CASE res = "CORRUPT"
    <3>1. /\ pc' = "format" /\ phase' = "eraseP" /\ buf' = DefaultState("A")
      BY <1>1, <2>1, <2>3 DEF AfterRead, Write, Store!BeginWrite
    <3>2. Mode' = "boot"
      BY <3>1, <1>d, ModesAfter
    <3>3. Store!Readable = Corrupt
      BY <1>c, <1>d, <2>1, <2>3 DEF Store!Readable, Store!Meaning
    <3>4. buf' \in Policy!SelectEdits
      BY <3>1, <3>3, PolicyEdits DEF Policy!SelectEdits, Policy!Readable
    <3> QED
      BY <2>1, <3>1, <3>2, <3>4, Edits
  <2> QED
    BY <2>1, <2>2, <2>3
<1>2. CASE AfterFormat
  BY <1>2, <1>d, <1>m, Modes, ModesAfter DEF AfterFormat, Read, Store!BeginRead
<1>3. CASE AfterReread
  <2>1. res = "OK" /\ pc = "reread"
    BY <1>3, <1>d DEF AfterReread, PolicyInv, FoundInv
  <2> QED
    BY <1>3, <1>d, <1>m, <2>1, Modes, ModesAfter
       DEF AfterReread, Listen, Read, Goto, Store!BeginRead, storeVars
<1>4. CASE AfterSession
  <2>1. sess.err = "OK" /\ pc = "uartEnd"
    BY <1>4 DEF AfterSession, PolicyInv, FoundInv
  <2> QED
    BY <1>4, <1>d, <1>m, <2>1, Modes, ModesAfter DEF AfterSession, Read, Store!BeginRead
<1>5. CASE AfterSessionReread
  <2>1. res = "OK" /\ pc = "rereadUart"
    BY <1>5, <1>d DEF AfterSessionReread, PolicyInv, FoundInv
  <2> QED
    BY <1>5, <1>d, <1>m, <2>1, Modes, ModesAfter DEF AfterSessionReread, Goto, storeVars
<1>6. CASE Select
  <2>1. pc = "select" /\ Mode = "boot" /\ primary = ctx.state /\ ctx.state \in Good
    BY <1>6, <1>d, <1>e, Modes DEF Select
  <2>2. CASE pc' = "check"
    BY <1>6, <2>1, <2>2, <1>d, <1>m, ModesAfter DEF Select, Goto, Write, Fatal, storeVars
  <2>3. CASE pc' = "fallback"
    <3>1. /\ phase' = "eraseP" /\ buf' = FallbackEdit(ctx.state)
          /\ ActiveRecord.state \in {"EMPTY", "INVALID"}
          /\ ctx.state.slots[Other(Active)].state \in {"VALID", "ACTIVE"}
      BY <1>6, <2>3 DEF Select, Goto, Write, Fatal, Store!BeginWrite
    <3>2. buf' \in Policy!SelectEdits
      BY <2>1, <3>1, KnownRecord, PolicyEdits DEF Policy!SelectEdits, Policy!When
    <3> QED
      BY <2>1, <2>3, <3>1, <3>2, <1>d, Edits, ModesAfter
  <2>4. CASE pc' = "fatal"
    <3>1. /\ phase' # "eraseP"
          /\ ActiveRecord.state \in {"EMPTY", "INVALID"}
          /\ ctx.state.slots[Other(Active)].state \notin {"VALID", "ACTIVE"}
      BY <1>6, <2>4 DEF Select, Goto, Write, Fatal, storeVars
    <3>2. Mode' = "dead"
      BY <2>4, ModesAfter
    <3> QED
      BY <2>1, <3>1, <3>2, SameRecord, KnownRecord
         DEF PolicyStep, Policy!Next, Policy!GiveUp, Policy!Control
  <2> QED
    BY <1>6, <2>2, <2>3, <2>4 DEF Select, Goto, Write, Fatal
<1>7. CASE AfterFallback
  BY <1>7, <1>d, <1>m, Modes, ModesAfter DEF AfterFallback, Goto, storeVars
<1>8. CASE CheckAttempts
  <2>1. pc = "check" /\ Mode = "boot" /\ primary = ctx.state /\ ctx.state \in Good
    BY <1>8, <1>d, <1>e, Modes DEF CheckAttempts
  <2>2. ActiveRecord.state \notin {"EMPTY", "INVALID"}
    BY <2>1, <1>a DEF BootInv, LimitInv
  <2>3. CASE ActiveRecord.attempts >= MaxAttempts
    BY <1>8, <2>1, <2>3, <1>d, <1>m, ModesAfter DEF CheckAttempts, Read, Store!BeginRead
  <2>4. CASE ~(ActiveRecord.attempts >= MaxAttempts)
    <3>1. pc' = "attempt" /\ phase' = "eraseP" /\ buf' = AttemptEdit(ctx.state)
      BY <1>8, <2>4 DEF CheckAttempts, Write, Store!BeginWrite
    <3>2. ActiveRecord.attempts < MaxAttempts
      <4>1. ctx.state \in Store!State
        BY <2>1, StateTypes
      <4>2. ActiveRecord.attempts \in 0 .. MaxAttempts
        BY <4>1, StateParts DEF ActiveRecord, Active
      <4> QED
        BY <2>4, <4>2, TypesAssumption
    <3>3. buf' \in Policy!AttemptEdits
      BY <2>1, <2>2, <3>1, <3>2, KnownRecord, PolicyEdits DEF Policy!AttemptEdits, Policy!When
    <3> QED
      BY <2>1, <3>1, <3>3, <1>d, Edits, ModesAfter
  <2> QED
    BY <2>3, <2>4
<1>9. CASE RollbackRead
  <2>1. pc = "rbRead" /\ Mode = "boot" /\ primary = ctx.state /\ ctx.state \in Good /\ res = "OK"
    BY <1>9, <1>d, <1>e, Modes DEF RollbackRead
  <2>2. buf = ctx.state /\ ActiveRecord.attempts >= MaxAttempts
    BY <2>1, <1>a, <1>c, <1>d DEF BootInv, LimitInv
  <2>3. CASE buf.slots[Other(Active)].state = "VALID"
    <3>1. pc' = "rbWrite" /\ phase' = "eraseP" /\ buf' = RollbackEdit(ctx.state, Active)
      BY <1>9, <2>1, <2>2, <2>3 DEF RollbackRead, Write, Store!BeginWrite
    <3>2. buf' \in Policy!SelectEdits
      BY <2>1, <2>2, <2>3, <3>1, KnownRecord, PolicyEdits
         DEF Policy!SelectEdits, Policy!When, Active
    <3> QED
      BY <2>1, <3>1, <3>2, <1>d, Edits, ModesAfter
  <2>4. CASE buf.slots[Other(Active)].state # "VALID"
    <3>1. pc' = "fatal" /\ phase' # "eraseP"
      BY <1>9, <2>4 DEF RollbackRead, Fatal, Goto, storeVars
    <3>2. Mode' = "dead"
      BY <3>1, ModesAfter
    <3> QED
      BY <2>1, <2>2, <2>4, <3>1, <3>2, SameRecord, KnownRecord
         DEF PolicyStep, Policy!Next, Policy!GiveUp, Policy!Control
  <2> QED
    BY <2>3, <2>4
<1>10. CASE RollbackWrite
  BY <1>10, <1>d, <1>m, Modes, ModesAfter DEF RollbackWrite, Goto, storeVars
<1>11. CASE AfterAttempt
  BY <1>11, <1>d, <1>m, Modes, ModesAfter DEF AfterAttempt, Goto, storeVars
<1>12. CASE Verify
  <2>1. pc = "verify" /\ Mode = "counted" /\ primary = ctx.state /\ ctx.state \in Good
    BY <1>12, <1>d, <1>e, Modes DEF Verify
  <2>2. CASE ImageMatches(ctx.state, Active)
    BY <1>12, <2>1, <2>2, <1>d, <1>m, ModesAfter DEF Verify, Goto, storeVars
  <2>3. CASE ~ImageMatches(ctx.state, Active)
    <3>1. pc' = "spoiled" /\ phase' = "eraseP" /\ buf' = SetSlotState(ctx.state, Active, "INVALID")
      BY <1>12, <2>3 DEF Verify, Spoil, Write, Store!BeginWrite
    <3>2. ActiveRecord.attempts \in 1 .. MaxAttempts
      BY <2>1, <1>a, <1>d DEF BootInv, LimitInv
    <3>3. buf' \in Policy!RefuseEdits
      BY <2>1, <2>3, <3>1, <3>2, KnownRecord, PolicyEdits
         DEF Policy!RefuseEdits, Policy!When, Active
    <3> QED
      BY <2>1, <3>1, <3>3, <1>d, Edits, ModesAfter
  <2> QED
    BY <2>2, <2>3
<1>13. CASE VerifyReadError \/ RecordFailed
  BY <1>13, <1>d DEF VerifyReadError, RecordFailed
<1>14. CASE AfterSpoil
  BY <1>14, <1>d, <1>m, Modes, ModesAfter DEF AfterSpoil, Goto, storeVars
<1>15. CASE Promote \/ RecordReason
  <2>1. pc \in {"promote", "record"} /\ Mode = "counted" /\ primary = ctx.state /\ ctx.state \in Good
    BY <1>15, <1>d, <1>e, Modes DEF Promote, RecordReason
  <2>2. ActiveRecord.attempts \in 1 .. MaxAttempts /\ ImageMatches(ctx.state, Active)
    BY <2>1, <1>a, <1>d DEF BootInv, LimitInv, AcceptedLabel
  <2>3. CASE Promote /\ ActiveRecord.state # "PENDING"
    BY <2>1, <2>3, <1>d, <1>m, ModesAfter DEF Promote, Goto, storeVars
  <2>4. CASE Promote /\ ActiveRecord.state = "PENDING"
    <3>1. pc' = "promoted" /\ phase' = "eraseP" /\ buf' = SetSlotState(ctx.state, Active, "ACTIVE")
      BY <2>4 DEF Promote, Write, Store!BeginWrite
    <3>2. buf' \in Policy!AcceptEdits
      BY <2>1, <2>2, <2>4, <3>1, KnownRecord, PolicyEdits
         DEF Policy!AcceptEdits, Policy!When, Active
    <3> QED
      BY <2>1, <3>1, <3>2, <1>d, Edits, ModesAfter
  <2>5. CASE RecordReason
    <3>1. pc' = "recorded" /\ phase' = "eraseP" /\ buf' = [ctx.state EXCEPT !.reason = ctx.reason]
      BY <2>5 DEF RecordReason, Write, Store!BeginWrite
    <3>2. ActiveRecord.state \in {"ACTIVE", "VALID"} /\ ctx.reason \in Reason
      BY <2>5, <1>a DEF RecordReason, BootInv, LimitInv, Context
    <3>3. buf' \in Policy!AcceptEdits
      BY <2>1, <2>2, <3>1, <3>2, KnownRecord, PolicyTypes DEF Policy!AcceptEdits, Active
    <3> QED
      BY <2>1, <3>1, <3>3, <1>d, Edits, ModesAfter
  <2> QED
    BY <1>15, <2>3, <2>4, <2>5
<1>16. CASE AfterPromote
  BY <1>16, <1>d, <1>m, Modes, ModesAfter DEF AfterPromote, Goto, storeVars
<1>17. CASE HandOff
  <2>1. /\ pc = "recorded" /\ Mode = "counted" /\ primary = ctx.state /\ ctx.state \in Good
        /\ pc' = "jumped" /\ phase' # "eraseP"
    BY <1>17, <1>d, <1>e, Modes DEF HandOff, Goto, storeVars
  <2>2. /\ ActiveRecord.attempts \in 1 .. MaxAttempts /\ ImageMatches(ctx.state, Active)
        /\ ActiveRecord.state \in {"ACTIVE", "VALID"}
    BY <2>1, <1>a, <1>d DEF BootInv, LimitInv, AcceptedLabel
  <2>3. Mode' = "app"
    BY <2>1, ModesAfter
  <2> QED
    BY <2>1, <2>2, <2>3, SameRecord, KnownRecord
       DEF PolicyStep, Policy!Next, Policy!HandOff, Policy!Control, Active
<1> QED
  BY <1>1, <1>2, <1>3, <1>4, <1>5, <1>6, <1>7, <1>8, <1>9, <1>10, <1>11, <1>12, <1>13, <1>14, <1>15,
     <1>16, <1>17 DEF BootStep

-----------------------------------------------------------------------------
\* What a repair writes.
LEMMA RepairIsEdit ==
  ASSUME NEW st \in Store!State, NEW slot \in Slot
  PROVE  RepairEdit(st, slot) \in Policy!RepairEdits(Slot)
<1> DEFINE o == Seal(st.slots[Other(slot)])
           E(a, r, t, q) ==
             [active |-> a, reason |-> r, slots |-> [s \in Slot |-> IF s = t THEN BlankRecord("INVALID") ELSE q]]
<1>1. st.slots[Other(slot)] \in RecordOf(SlotState \cup {"BAD", "UNSEALED"})
  BY StateTypes, Slots, AssignTypes
<1>2. o \in RecordOf(SlotState \cup {"BAD"})
  BY <1>1 DEF Seal, RecordOf, SlotState
<1>3. RepairEdit(st, slot) = E(st.active, st.reason, slot, o)
  <2>1. st = [active |-> st.active, reason |-> st.reason, slots |-> st.slots]
    BY StateTypes DEF StateOf
  <2>2. \A s \in Slot : s # slot => s = Other(slot)
    BY Slots
  <2> QED
    BY <2>1, <2>2 DEF RepairEdit
<1>4. st.active \in Slot /\ st.reason \in Reason
  BY StateParts
<1>5. Policy!RepairEdits(Slot) = {E(a, r, t, q) : a \in Slot, r \in Reason, t \in Slot,
                                                  q \in RecordOf(SlotState \cup {"BAD"})}
  BY PolicyTypes
     DEF Policy!RepairEdits, Policy!BlankRecord, BlankRecord, Policy!RecordOf, RecordOf,
         Policy!SlotState,
         SlotState
<1> HIDE DEF E, o
<1> QED
  BY <1>2, <1>3, <1>4, <1>5

\* The calls of the API do what the policy allows their caller.
LEMMA CallImplements ==
  ASSUME PolicyInv, CallStep, trouble = FALSE, ~FlashMayFail
  PROVE  PolicyStep
<1>a. CallInv /\ TypeOK /\ sess \in Session
  BY DEF PolicyInv, SessionInv, BootInv, CallInv, TypeOK
<1>b. /\ phase = "idle" /\ pc \in CallLabel /\ pc' \in CallLabel \cup {sess.back}
      /\ ClientStep /\ image' = image /\ sess' = sess
      /\ sess.back \in SessionLabel \cup {"app"}
      /\ call \in AllCalls /\ call.slot \in Slot
  BY <1>a, CallClient, CallAt, BackLabel, CallParts DEF CallInv, RunningInv
<1>c. /\ Mode = IF sess.back = "app" THEN "app" ELSE "session"
      /\ Mode' = Mode
  BY <1>b, Modes, ModesAfter DEF SessionLabel, CallLabel
<1>d. phase' # "eraseP" => PolicyStep
  BY <1>b, <1>c, Stutters
<1>e. ASSUME pc = "opRead", res = "OK"
      PROVE  /\ buf \in Good /\ Store!Readable = buf /\ Policy!Readable
             /\ sess.back # "app" => /\ buf.active \in Slot /\ call.slot = Other(buf.active)
                                     /\ call.name \in {"commit", "verify", "invalidate"}
  <2>1. buf \in Good /\ primary = buf
    BY <1>a, <1>b, <1>e DEF CallInv, ReturnInv, ReadLabel
  <2>2. sess.back # "app" =>
          primary.active # sess.target /\ call.slot = sess.target
            /\ call.name \in {"commit", "verify", "invalidate"}
    BY <1>b, <1>e DEF PolicyInv, SessionInv, ServeInv, TargetInv, AskInv, Asking
  <2>3. buf.active \in Slot
    BY <2>1, StateTypes, StateParts
  <2> QED
    BY <2>1, <2>2, <2>3, <1>b, Slots, StateTypes DEF Policy!Readable, Store!Readable, Store!Meaning
<1>f. ASSUME phase' = "eraseP", buf' \in Policy!SessionEdits \/ sess.back = "app",
             buf' \in Policy!AppEdits \/ sess.back # "app"
      PROVE  PolicyStep
  BY <1>b, <1>c, <1>f, Edits
<1>1. CASE Confirm
  <2>1. CASE phase' = "eraseP"
    <3>1. /\ pc = "opRead" /\ res = "OK" /\ call.name = "confirm"
          /\ buf.slots[buf.active].state \in {"ACTIVE", "VALID"} /\ buf' = ConfirmEdit(buf)
      BY <1>1, <2>1, <1>b
         DEF Confirm, HasRead, At, WriteIf, Write, Store!BeginWrite, Finish, Return, Goto,
         storeVars
    <3>2. buf' \in Policy!AppEdits
      BY <3>1, <1>e, PolicyEdits DEF Policy!AppEdits, Policy!When, Policy!Activated
    <3> QED
      BY <3>1, <3>2, <2>1, <1>e, <1>f
  <2> QED
    BY <2>1, <1>d
<1>2. CASE Commit
  <2>1. CASE phase' = "eraseP"
    <3>1. /\ pc = "opRead" /\ res = "OK" /\ call.name = "commit"
          /\ buf.active # call.slot /\ buf' = CommitEdit(buf, call.slot, call.fw)
      BY <1>2, <2>1, <1>b
         DEF Commit, HasRead, At, WriteIf, Write, Store!BeginWrite, Finish, Return, Goto,
         storeVars
    <3>2. call.fw \in Firmware
      BY <3>1, <1>b DEF PolicyInv, RepairInv
    <3>3. buf' \in Policy!AppEdits
      BY <3>1, <3>2, <1>b, <1>e, PolicyEdits, PolicyTypes DEF Policy!AppEdits, Policy!UpdateEdits
    <3>4. sess.back # "app" => buf' \in Policy!SessionEdits
      BY <3>1, <3>2, <1>b, <1>e, PolicyEdits, PolicyTypes
         DEF Policy!SessionEdits, Policy!UpdateEdits
    <3> QED
      BY <3>3, <3>4, <2>1, <1>f
  <2> QED
    BY <2>1, <1>d
<1>3. CASE Invalidate
  <2>1. CASE phase' = "eraseP"
    <3>1. /\ pc = "opRead" /\ res = "OK" /\ call.name = "invalidate"
          /\ buf' = InvalidateEdit(buf, call.slot)
      BY <1>3, <2>1, <1>b
         DEF Invalidate, HasRead, At, WriteIf, Write, Store!BeginWrite, Finish, Return, Goto,
         storeVars
    <3>2. buf' \in Policy!AppEdits
      BY <3>1, <1>b, <1>e, PolicyEdits, PolicyTypes DEF Policy!AppEdits, Policy!UpdateEdits
    <3>3. sess.back # "app" => buf' \in Policy!SessionEdits
      BY <3>1, <1>b, <1>e, PolicyEdits, PolicyTypes DEF Policy!SessionEdits, Policy!UpdateEdits
    <3> QED
      BY <3>2, <3>3, <2>1, <1>f
  <2> QED
    BY <2>1, <1>d
<1>4. CASE Request
  <2>1. CASE phase' = "eraseP"
    <3>1. /\ pc = "opRead" /\ res = "OK" /\ call.name = "request"
          /\ buf.slots[call.slot].state \in {"VALID", "ACTIVE"} /\ buf' = RequestEdit(buf, call.slot)
      BY <1>4, <2>1, <1>b
         DEF Request, HasRead, At, WriteIf, Write, Store!BeginWrite, Finish, Return, Goto,
         storeVars
    <3>2. buf' \in Policy!AppEdits
      BY <3>1, <1>b, <1>e, PolicyEdits, PolicyTypes DEF Policy!AppEdits
    <3> QED
      BY <3>1, <3>2, <2>1, <1>e, <1>f
  <2> QED
    BY <2>1, <1>d
<1>5. CASE Check \/ ReadFailed \/ Written
  <2>1. phase' # "eraseP"
    BY <1>5, <1>b DEF Check, ReadFailed, Written, HasRead, At, Finish, Return, Goto, storeVars,
       Store!BeginHeaderRead
  <2> QED
    BY <2>1, <1>d
<1>6. CASE Repair
  <2>1. CASE phase' = "eraseP"
    <3>1. pc = "opHeader" /\ res = "OK" /\ buf' = RepairEdit(buf, call.slot)
      BY <1>6, <2>1, <1>b DEF Repair, At, Write, Store!BeginWrite, Finish, Return, Goto, storeVars
    <3>2. /\ sess.back = "app" /\ Store!Readable = Corrupt /\ buf \in Store!State
      BY <3>1, <1>a, <1>b
         DEF PolicyInv, SessionInv, ServeInv, TargetInv, RepairInv, CallInv, ReturnInv,
             Store!Readable,
             Store!Meaning
    <3>3. buf' \in Policy!AppEdits
      BY <3>1, <3>2, <1>b, RepairIsEdit, PolicyTypes
         DEF Policy!AppEdits, Policy!UpdateEdits, Policy!Readable
    <3> QED
      BY <3>2, <3>3, <2>1, <1>f
  <2> QED
    BY <2>1, <1>d
<1> QED
  BY <1>1, <1>2, <1>3, <1>4, <1>5, <1>6 DEF CallStep

-----------------------------------------------------------------------------
\* A call that a session makes returns to the session.
LEMMA SessionAsks ==
  ASSUME CallInv, SessionStep \/ HostStep \/ Timeout, pc' = "opRead"
  PROVE  sess'.back # "app"
<1>a. sess \in Session /\ phase = "idle" /\ pc \in SessionLabel
  BY SessionAt DEF CallInv, TypeOK
<1>b. /\ sess.draft \in Draft /\ sess.frame \in Frames \cup {NoFrame}
      /\ \A f \in Frames : Received(f) \in Session
      /\ \A d \in Draft : [sess EXCEPT !.draft = d] \in Session
  BY <1>a, SessionParts DEF Received
<1>c. \A l : Goto(l) => l = "opRead"
  BY DEF Goto
<1>d. \A s \in Session : \A name, fw, l : Ask(name, fw, s, l) => sess'.back = l
  BY AskParts
<1>e. \A s \in Session : Refuse(s) => sess'.back # "app"
  BY <1>d DEF Refuse
<1>1. ASSUME NEW f \in Frames, Command(f) PROVE sess'.back # "app"
  BY <1>1, <1>b, <1>c, <1>d, <1>e
     DEF Command, RefuseFrame, Inquire, WriteFrame, CommitFrame, AbortFrame, RebootFrame, Answer,
         EndSession, Read
<1>2. CASE SessionStart \/ EraseSlot \/ ProgramChunk \/ Inquired \/ Refused \/ Aborted \/ Sent \/ Timeout
  BY <1>2, <1>c
     DEF SessionStart, EraseSlot, ProgramChunk, Inquired, Refused, Aborted, Sent, Timeout, Answer,
         EndSession
<1>3. CASE EraseFails \/ Committed \/ Verified \/ DropFrame \/ ReceiveError \/ SendError
  BY <1>3, <1>a, <1>c, <1>d, <1>e
     DEF EraseFails, Committed, Verified, DropFrame, ReceiveError, SendError, Answer, EndSession
<1>4. CASE ProgramFails
  <2>1. PICK draft \in {sess.draft, Torn(sess.draft, sess.frame), Programmed(sess.draft, sess.frame)} :
          Refuse([sess EXCEPT !.draft = draft])
    BY <1>4 DEF ProgramFails
  <2> QED
    BY <2>1, <1>b, <1>e, DraftTypes
<1> QED
  BY <1>1, <1>2, <1>3, <1>4 DEF SessionStep, HostStep

\* A session writes images where the policy allows it, and no record itself.
LEMMA SessionImplements ==
  ASSUME PolicyInv, SessionStep \/ HostStep \/ Timeout, trouble = FALSE, ~FlashMayFail
  PROVE  PolicyStep
<1>a. CallInv /\ TypeOK /\ sess \in Session /\ image \in Image
  BY DEF PolicyInv, SessionInv, BootInv, CallInv, TypeOK
<1>b. /\ phase = "idle" /\ pc \in SessionLabel /\ pc' \in SessionLabel \cup {"opRead"}
      /\ ClientStep
  BY <1>a, SessionClient, SessionAt
<1>c. Mode = "session" /\ Mode' = "session"
  BY <1>a, <1>b, SessionAsks, Modes, ModesAfter DEF CallLabel
<1>d. phase' # "eraseP" /\ Store!Stage = "idle"
  BY <1>b, IdleRecord DEF ClientStep, WriteLabel, SessionLabel
<1>1. CASE image' = image
  BY <1>1, <1>b, <1>c, <1>d, Stutters
<1>2. ASSUME pc \in {"erase", "program"}, NEW c \in Firmware \cup {Junk}, SetTarget(c)
      PROVE  PolicyStep
  <2>1. primary \in Good /\ primary.active # sess.target
    BY <1>2 DEF PolicyInv, SessionInv, ServeInv, TargetInv, Asking, Serving, SessionLabel
  <2>2. Store!Readable = primary /\ primary # Corrupt
    BY <2>1, StateTypes DEF Store!Readable, Store!Meaning
  <2>3. sess.target \in Slot
    BY <1>a, SessionParts
  <2> QED
    BY <1>2, <2>1, <2>2, <2>3, <1>b, <1>c, <1>d, SameRecord, PolicyTypes
       DEF PolicyStep, Policy!Next, Policy!WriteImage, Policy!Readable, SetTarget
<1>3. CASE EraseSlot
  BY <1>2, <1>3 DEF EraseSlot, At
<1>4. CASE ProgramChunk \/ ProgramFails
  <2>1. sess.draft \in Draft /\ sess.frame \in Frames \cup {NoFrame} /\ pc = "program"
    BY <1>4, <1>a, SessionParts DEF ProgramChunk, ProgramFails, At
  <2>2. \E draft \in Draft : SetTarget(Contents(draft))
    BY <1>4, <2>1, DraftTypes DEF ProgramChunk, ProgramFails
  <2> QED
    BY <1>2, <2>1, <2>2, DraftTypes
<1>5. CASE ~(EraseSlot \/ ProgramChunk \/ ProgramFails)
  <2>1. ASSUME NEW f \in Frames, Command(f) PROVE image' = image
    BY <2>1
       DEF Command, RefuseFrame, Inquire, WriteFrame, CommitFrame, AbortFrame, RebootFrame
  <2>2. image' = image
    BY <2>1, <1>5
       DEF SessionStep, HostStep, SessionStart, EraseFails, Inquired, Committed, Verified, Refused,
           Aborted,
           Sent, DropFrame, ReceiveError, SendError, Timeout
  <2> QED
    BY <1>1, <2>2
<1> QED
  BY <1>3, <1>4, <1>5

\* The application and whatever starts it.
LEMMA AppImplements ==
  ASSUME PolicyInv, AppStep
  PROVE  PolicyStep
<1>a. /\ CallInv /\ TypeOK /\ sess.back = "app" /\ phase = "idle" /\ pc \in {"off", "jumped", "app"}
      /\ ctx.active \in Slot /\ Store!Stage = "idle"
  BY AppAt, IdleRecord
     DEF PolicyInv, SessionInv, BootInv, CallInv, ServeInv, OwnerInv, SessionLabel, CallLabel,
         NoSession,
         TypeOK, Context
<1>b. ClientStep /\ pc' \in {"read", "app", "opRead", "opWrite"}
  BY <1>a, AppClient
<1>c. /\ pc = "off" => Mode = "off"
      /\ pc \in {"jumped", "app"} => Mode = "app"
      /\ pc' = "read" => Mode' = "boot"
      /\ pc' = "app" => Mode' = "app"
      /\ pc' \in CallLabel /\ sess'.back = "app" => Mode' = "app"
  BY Modes, ModesAfter DEF BootLabel, CountedLabel
<1>1. CASE PowerOn \/ UpdaterStart
  BY <1>1, <1>b, <1>c, HandsOn
     DEF PowerOn, UpdaterStart, At, Read, Goto, Store!BeginRead, storeVars, appVars
<1>2. CASE AppStart
  BY <1>2, <1>b, <1>c, Stutters DEF AppStart, At, Goto, storeVars, appVars
<1>3. ASSUME NEW c \in Calls, Invoke(c) PROVE PolicyStep
  <2>1. /\ pc = "app" /\ image' = image /\ sess' = sess /\ pc' \in {"app", "opRead"}
        /\ phase' # "eraseP"
    BY <1>3, <1>a DEF Invoke, Begin, At, Return, Goto, Read, Store!BeginRead, storeVars
  <2> QED
    BY <2>1, <1>a, <1>b, <1>c, Stutters DEF CallLabel
<1>4. ASSUME NEW c \in Calls, Format(c) PROVE PolicyStep
  <2>1. /\ pc = "app" /\ image' = image /\ sess' = sess /\ pc' = "opWrite"
        /\ phase' = "eraseP" /\ buf' = DefaultState(c.slot)
    BY <1>4 DEF Format, At, Write, Store!BeginWrite
  <2>2. c.slot \in Slot
    BY CallsAssumption, CallParts
  <2>3. buf' \in Policy!AppEdits
    BY <2>1, <2>2, PolicyEdits, PolicyTypes DEF Policy!AppEdits
  <2> QED
    BY <2>1, <2>3, <1>a, <1>b, <1>c, Edits DEF CallLabel
<1>5. ASSUME NEW f \in Firmware \cup {Junk}, AppWritesImage(f) PROVE PolicyStep
  <2>1. /\ pc = "app" /\ pc' = "app" /\ phase' # "eraseP"
        /\ image' = [image EXCEPT ![Other(ctx.active)] = f] /\ Other(ctx.active) \in Slot
    BY <1>5, <1>a, Slots DEF AppWritesImage, At, storeVars
  <2> QED
    BY <2>1, <1>a, <1>b, <1>c, SameRecord, PolicyTypes
       DEF PolicyStep, Policy!Next, Policy!WriteImage
<1> QED
  BY <1>1, <1>2, <1>3, <1>4, <1>5 DEF AppStep

-----------------------------------------------------------------------------
\* The store at work, and what cuts it short.
LEMMA QuietImplements ==
  ASSUME PolicyInv, StoreStep \/ PowerCut
  PROVE  PolicyStep
<1>a. CallInv /\ TypeOK /\ ErasedInv
  BY DEF PolicyInv, SessionInv, BootInv, CallInv
<1>1. pc # "off" => Mode # "off"
  BY <1>a, Modes DEF TypeOK
<1>2. CASE StoreStep
  <2>1. pc \in StoreLabel /\ pc' = pc /\ sess' = sess /\ image' = image /\ Store!Step
    BY <1>a, <1>2, QuietMoves DEF StoreStep
  <2>2. Mode' = Mode /\ Mode # "off"
    BY <2>1, <1>1 DEF Mode, StoreLabel, ReadLabel, WriteLabel
  <2> QED
    BY <2>1, <2>2, <1>a, StepIsProgress
       DEF PolicyStep, Policy!Next, Policy!Progress, Policy!policyVars
<1>3. CASE PowerCut
  <2>1. pc # "off" /\ pc' = "off" /\ image' = image /\ Store!PowerCut
    BY <1>3 DEF PowerCut
  <2> QED
    BY <2>1, <1>1, <1>a, CutIsAbort, ModesAfter DEF PolicyStep, Policy!Next, Policy!Reset
<1> QED
  BY <1>2, <1>3

\* The device starts as the policy does.
LEMMA InitImplements == Init => Policy!Init
<1> SUFFICES ASSUME Init PROVE Policy!Init
  OBVIOUS
<1>1. /\ primary = backup /\ phase = "idle" /\ res = "OK" /\ pc = "off" /\ image \in Image
  BY ProvisionedAssumption DEF Init, Store!Init
<1>2. Mode = "off"
  BY <1>1, Modes
<1>3. Store!Readable \in Good \cup {Corrupt} /\ Store!Readable = Store!Meaning(backup)
  BY <1>1 DEF Store!Readable, Store!Meaning
<1> QED
  BY <1>1, <1>2, <1>3, IdleRecord, PolicyTypes DEF Policy!Init, Policy!Record!Init, Image

\* Every step, when flash, platform and transport return no errors.
LEMMA NextImplements ==
  ASSUME PolicyInv, [Next]_vars, trouble = FALSE, ~FlashMayFail
  PROVE  PolicyStep
<1>1. CASE UNCHANGED vars
  BY <1>1
     DEF vars, storeVars, appVars, history, PolicyStep, Policy!policyVars, Policy!recordVars, Mode,
         Store!Readable, Store!Meaning, Store!Pending, Store!Stage, Store!Intact, Store!Writing,
         Store!Effective
<1>2. CASE Client
  BY <1>2, BootImplements, CallImplements, SessionImplements, AppImplements DEF Client
<1>3. ~FlashError
  BY DEF FlashError
<1> QED
  BY <1>1, <1>2, <1>3, QuietImplements, StepKinds

\* The invariant of the refinement holds.
THEOREM PolicyInvariant == Spec => []PolicyInv
<1>1. Init => PolicyInv
  BY PolicyInit
<1>2. PolicyInv /\ [Next]_vars => PolicyInv'
  BY PolicyNextKeeps
<1> QED
  BY <1>1, <1>2, PTL DEF Spec

\* The boot sequence, the sessions and the calls, on two flash copies that power cuts tear, do
\* what BootPolicy promises of one record: every write is an edit that the policy allows who
\* makes it, made of what flash holds then, and no firmware gets control unless that record
\* shows it accepted and counted, and it matches.  For any number of power cuts, attempts and firmwares.
THEOREM PolicyImplemented == ~FlashMayFail => (Spec => ImplementsPolicy)
<1> SUFFICES ASSUME ~FlashMayFail PROVE Spec => ImplementsPolicy
  OBVIOUS
<1>1. Init => Calm /\ (Calm /\ TypeOK <=> trouble = FALSE /\ TypeOK)
  BY DEF Init, Calm
<1>2. PolicyInv => TypeOK
  BY DEF PolicyInv, SessionInv, BootInv, CallInv
<1>3. TypeOK /\ Calm /\ [Next]_vars => Calm'
  BY CalmKeeps
<1>4. PolicyInv /\ Calm /\ [Next]_vars => [Policy!Next]_(Policy!policyVars)
  BY NextImplements DEF Calm, PolicyStep
<1>5. Init => Policy!Init
  BY InitImplements
<1> QED
  BY <1>1, <1>2, <1>3, <1>4, <1>5, PolicyInvariant, PTL DEF Spec, ImplementsPolicy, Policy!Spec

=============================================================================

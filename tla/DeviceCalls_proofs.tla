--------------------------- MODULE DeviceCalls_proofs ---------------------------
(***************************************************************************)
(* Proofs about Device, for every set of firmwares, every attempt limit,   *)
(* every host and any number of faults.  Here: its type invariant, what    *)
(* the calls of the store return to the boot sequence and to the calls of  *)
(* the API, and that a call that returned OK is durable (CallsAreDurable). *)
(* The other two modules add what a boot (DeviceBoot_proofs) and a session *)
(* (DeviceSession_proofs) rely on.                                         *)
(***************************************************************************)
EXTENDS Device, TLAPS

\* The labels at which a call of the store may be under way, by the call.  The last two
\* of each kind are those of Esp32Updater.
ReadLabel   == {"read", "reread", "rereadUart", "rbRead", "uartRead", "inquired", "opRead",
                "mainRead", "syncRead"}
WriteLabel  == {"format", "fallback", "rbWrite", "attempt", "spoiled", "promoted", "recorded",
                "opWrite", "mainFormat", "syncWrite"}
StoreLabel  == ReadLabel \cup WriteLabel \cup {"opHeader"}
RestorePhase == {"eraseR", "writeR"}
WritePhase   == {"eraseP", "writeP", "eraseB", "writeB"}

\* The processor waits for the call it made, and for no other.
WaitInv ==
  /\ pc \in ReadLabel => phase \in {"idle", "readP", "readB"} \cup RestorePhase
  /\ pc \in WriteLabel => phase \in {"idle"} \cup WritePhase
  /\ pc = "opHeader" => phase \in {"idle", "headerP", "headerB"} \cup RestorePhase
  /\ pc \notin StoreLabel => phase = "idle"

\* What the phase says of the copies.
CopyInv ==
  /\ phase \in {"readB", "headerB"} \cup RestorePhase => primary \notin Good
  /\ phase \in RestorePhase => buf = backup /\ (pc \in ReadLabel => buf \in Good)
  /\ phase \in {"eraseB", "writeB"} => primary = buf
  /\ pc \in WriteLabel => buf \in Store!State

\* What the result of a call says of them when it has returned.
ReturnInv ==
  phase = "idle" =>
    /\ pc \in ReadLabel =>
         /\ res \in {"OK", "FLASH", "CORRUPT"}
         /\ res = "OK" => buf \in Good /\ primary = buf
         /\ res = "CORRUPT" => primary \notin Good /\ backup \notin Good
         /\ res = "FLASH" => trouble
    /\ pc \in WriteLabel =>
         /\ res \in {"OK", "FLASH"}
         /\ res = "OK" => primary = buf /\ backup = buf
         /\ res = "FLASH" => trouble
    /\ pc = "opHeader" =>
         /\ res \in {"OK", "FLASH", "CORRUPT"}
         /\ res = "OK" => buf \in Store!State /\ primary = buf
         /\ res = "FLASH" => trouble

\* A call of the API is under way at the labels of BootApi and nowhere else.
RunningInv ==
  /\ pc \in CallLabel => call \in AllCalls /\ ret = "none"
  /\ pc \notin CallLabel => call = NoCall

\* The invariant of a device whose processor makes one call of the store at a time and
\* reads no result of it before it has returned.
CallInv == TypeOK /\ WaitInv /\ CopyInv /\ ReturnInv /\ RunningInv

-----------------------------------------------------------------------------
\* A boot state that some read accepts is a record of records.
LEMMA StateTypes ==
  /\ Store!State = StateOf(SlotState \cup {"BAD", "UNSEALED"})
  /\ Good \subseteq Store!State
  /\ Corrupt \notin Store!State /\ Corrupt \notin Good
BY ProvisionedAssumption DEF Store!State, Good, HeaderOnly, StateOf, RecordOf

\* The two slots.
LEMMA Slots == \A s \in Slot : Other(s) \in Slot /\ Other(s) # s /\ Slot = {s, Other(s)}
BY DEF Slot, Other

\* An assignment to one member of the state keeps the types.
LEMMA AssignTypes ==
  ASSUME NEW S, NEW st \in StateOf(S)
  PROVE  /\ \A a \in Slot : [st EXCEPT !.active = a] \in StateOf(S)
         /\ \A r \in Reason : [st EXCEPT !.reason = r] \in StateOf(S)
         /\ \A s \in Slot, v \in S : [st EXCEPT !.slots[s].state = v] \in StateOf(S)
         /\ \A s \in Slot, n \in 0 .. MaxAttempts : [st EXCEPT !.slots[s].attempts = n] \in StateOf(S)
         /\ \A s \in Slot, r \in RecordOf(S) : [st EXCEPT !.slots[s] = r] \in StateOf(S)
         /\ st.active \in Slot /\ st.reason \in Reason
         /\ \A s \in Slot : /\ st.slots[s] \in RecordOf(S)
                           /\ st.slots[s].state \in S
                           /\ st.slots[s].attempts \in 0 .. MaxAttempts
                           /\ st.slots[s].fw \in Firmware \cup {NoFirmware}
BY DEF StateOf, RecordOf

\* Every edit turns a boot state into a boot state.
LEMMA EditTypes ==
  ASSUME NEW S, SlotState \subseteq S, NEW st \in StateOf(S), NEW slot \in Slot
  PROVE  /\ \A v \in S : SetSlotState(st, slot, v) \in StateOf(S)
         /\ FallbackEdit(st) \in StateOf(S)
         /\ st.slots[st.active].attempts < MaxAttempts => AttemptEdit(st) \in StateOf(S)
         /\ RollbackEdit(st, slot) \in StateOf(S)
         /\ \A fw \in Firmware \cup {NoFirmware} : CommitEdit(st, slot, fw) \in StateOf(S)
         /\ InvalidateEdit(st, slot) \in StateOf(S)
         /\ RepairEdit(st, slot) \in StateOf(S)
         /\ ConfirmEdit(st) \in StateOf(S)
         /\ RequestEdit(st, slot) \in StateOf(S)
<1> DEFINE T == StateOf(S)
<1>a. \A x \in T : /\ x.active \in Slot
                  /\ \A s \in Slot : /\ x.slots[s] \in RecordOf(S)
                                    /\ x.slots[s].attempts \in 0 .. MaxAttempts
  BY AssignTypes
<1>b. \A x \in T, s \in Slot, v \in S : SetSlotState(x, s, v) \in T
  BY AssignTypes DEF SetSlotState
<1>c. \A x \in T, s \in Slot, n \in 0 .. MaxAttempts : [x EXCEPT !.slots[s].attempts = n] \in T
  BY AssignTypes
<1>d. \A x \in T, s \in Slot : [x EXCEPT !.active = s] \in T
  BY AssignTypes
<1>e. \A x \in T, s \in Slot, r \in Reason : [x EXCEPT !.active = s, !.reason = r] \in T
  BY DEF StateOf
<1>f. \A s \in Slot : Other(s) \in Slot
  BY Slots
<1>g. /\ SlotState \subseteq S
      /\ SlotState = {"EMPTY", "PENDING", "VALID", "INVALID", "ACTIVE", "ROLLBACK"}
      /\ {"ROLLBACK", "FORCED", "UNKNOWN"} \subseteq Reason
      /\ 0 \in 0 .. MaxAttempts
  BY TypesAssumption DEF SlotState, Reason
<1>h. st \in T /\ slot \in Slot
  OBVIOUS
<1> HIDE DEF T
<1>1. \A v \in S : SetSlotState(st, slot, v) \in T
  BY <1>b, <1>h
<1>2. FallbackEdit(st) \in T
  BY <1>a, <1>b, <1>d, <1>f, <1>g, <1>h DEF FallbackEdit
<1>3. ASSUME st.slots[st.active].attempts < MaxAttempts PROVE AttemptEdit(st) \in T
  <2>1. st.slots[st.active].attempts + 1 \in 0 .. MaxAttempts
    BY <1>3, <1>a, <1>h, TypesAssumption
  <2> QED
    BY <2>1, <1>a, <1>c, <1>h DEF AttemptEdit
<1>4. RollbackEdit(st, slot) \in T
  BY <1>b, <1>e, <1>f, <1>g, <1>h DEF RollbackEdit
<1>6. \A fw \in Firmware \cup {NoFirmware} : CommitEdit(st, slot, fw) \in T
  BY <1>g, TypesAssumption DEF CommitEdit, T, StateOf, RecordOf
<1>7. InvalidateEdit(st, slot) \in T
  BY <1>b, <1>c, <1>g, <1>h DEF InvalidateEdit
<1>8. RepairEdit(st, slot) \in T
  <2>1. BlankRecord("INVALID") \in RecordOf(S)
    BY <1>g DEF BlankRecord, RecordOf
  <2>2. \A r \in RecordOf(S) : Seal(r) \in RecordOf(S)
    BY <1>g DEF Seal, RecordOf
  <2>3. \A f \in [Slot -> RecordOf(S)] : [st EXCEPT !.slots = f] \in T
    BY DEF T, StateOf
  <2> QED
    BY <2>1, <2>2, <2>3, <1>a, <1>h DEF RepairEdit
<1>9. ConfirmEdit(st) \in T
  BY <1>a, <1>b, <1>c, <1>g, <1>h DEF ConfirmEdit
<1>10. RequestEdit(st, slot) \in T
  <2>1. DemoteActive(st) \in T
    BY <1>a, <1>b, <1>g, <1>h DEF DemoteActive
  <2> QED
    BY <2>1, <1>b, <1>e, <1>g, <1>h DEF RequestEdit
<1> QED
  BY <1>1, <1>2, <1>3, <1>4, <1>6, <1>7, <1>8, <1>9, <1>10 DEF T

\* The boot states that loxboot_init and loxboot_format start from are good ones.
LEMMA DefaultTypes == ZeroState \in Good /\ \A slot \in Slot : DefaultState(slot) \in Good
BY TypesAssumption DEF ZeroState, DefaultState, BlankRecord, Good, StateOf, RecordOf,
   SlotState, Slot, Reason
-----------------------------------------------------------------------------
\* What a flash operation that is cut short leaves in the copies.
LEMMA CutShortCases ==
  ASSUME Store!TypeOK, Store!CutShort
  PROVE  /\ phase' = "idle" /\ formatted' = formatted
         /\ faults' \in 0 .. MaxFaults
         /\ primary' \in {primary, buf, Corrupt} /\ primary' \in Store!Contents
         /\ backup' \in {backup, buf, Corrupt} /\ backup' \in Store!Contents
         /\ phase \notin Store!ErasingPrimary \cup Store!WritingPrimary => primary' = primary
         /\ phase \notin {"eraseB", "writeB"} => backup' = backup
<1> USE ProvisionedAssumption DEF Store!TypeOK, Store!CutShort, Store!PrimaryCutShort,
   Store!BackupCutShort,
        Store!Phase, Store!Mutating, Store!ErasingPrimary, Store!WritingPrimary, Store!Reading,
        Store!Contents, Store!State
<1>1. CASE phase \notin Store!Mutating
  BY <1>1
<1>2. CASE phase \in Store!ErasingPrimary
  BY <1>2
<1>3. CASE phase \in Store!WritingPrimary
  BY <1>3
<1>4. CASE phase = "eraseB"
  BY <1>4
<1>5. CASE phase = "writeB"
  BY <1>5
<1> QED
  BY <1>1, <1>2, <1>3, <1>4, <1>5

\* A step of a call of the store.
LEMMA StoreStepTypes ==
  ASSUME Store!TypeOK, CopyInv, WaitInv, Store!Step, pc' = pc
  PROVE  Store!TypeOK' /\ CopyInv' /\ WaitInv'
<1> USE ProvisionedAssumption DEF Store!TypeOK, CopyInv, WaitInv, Store!Contents, Store!State,
   Store!Phase,
        Store!Reading, Store!Mutating, Store!ErasingPrimary, Store!WritingPrimary, Store!Return,
        Store!Synced, RestorePhase, WritePhase, ReadLabel, WriteLabel, StoreLabel
<1>1. CASE Store!ReadPrimary
  BY <1>1 DEF Store!ReadPrimary
<1>2. CASE Store!ReadBackup
  BY <1>2 DEF Store!ReadBackup
<1>3. CASE Store!HeaderPrimary
  BY <1>3 DEF Store!HeaderPrimary
<1>4. CASE Store!HeaderBackup
  BY <1>4 DEF Store!HeaderBackup
<1>5. CASE Store!ErasePrimary
  BY <1>5 DEF Store!ErasePrimary
<1>6. CASE Store!WritePrimary
  BY <1>6 DEF Store!WritePrimary
<1>7. CASE Store!RestorePrimary
  BY <1>7 DEF Store!RestorePrimary
<1>8. CASE Store!EraseBackup
  BY <1>8 DEF Store!EraseBackup
<1>9. CASE Store!WriteBackup
  BY <1>9 DEF Store!WriteBackup
<1> QED
  BY <1>1, <1>2, <1>3, <1>4, <1>5, <1>6, <1>7, <1>8, <1>9 DEF Store!Step

\* The step that returns from a call of the store has the result that the call
\* promises.
LEMMA StoreStepReturns ==
  ASSUME Store!TypeOK, CopyInv, WaitInv, Store!Step, pc' = pc
  PROVE  ReturnInv'
<1> USE ProvisionedAssumption DEF Store!TypeOK, CopyInv, WaitInv, ReturnInv, Store!Contents,
   Store!State,
        Store!Mutating, Store!WritingPrimary, Store!Return, RestorePhase, WritePhase, ReadLabel,
        WriteLabel, StoreLabel
<1>1. CASE Store!ReadPrimary
  BY <1>1 DEF Store!ReadPrimary
<1>2. CASE Store!ReadBackup
  BY <1>2 DEF Store!ReadBackup
<1>3. CASE Store!HeaderPrimary
  BY <1>3 DEF Store!HeaderPrimary
<1>4. CASE Store!HeaderBackup
  BY <1>4 DEF Store!HeaderBackup
<1>5. CASE Store!ErasePrimary \/ Store!WritePrimary \/ Store!EraseBackup
  BY <1>5 DEF Store!ErasePrimary, Store!WritePrimary, Store!EraseBackup
<1>7. CASE Store!RestorePrimary
  BY <1>7 DEF Store!RestorePrimary
<1>9. CASE Store!WriteBackup
  BY <1>9 DEF Store!WriteBackup
<1> QED
  BY <1>1, <1>2, <1>3, <1>4, <1>5, <1>7, <1>9 DEF Store!Step

-----------------------------------------------------------------------------
\* What a step of the client does to the store: nothing, or it makes a call.
ClientStep ==
  /\ phase = "idle"
  /\ UNCHANGED <<primary, backup, res, faults, formatted>>
  /\ \/ phase' = "idle" /\ buf' = buf /\ pc' \notin StoreLabel
     \/ phase' = "readP" /\ buf' = buf /\ pc' \in ReadLabel
     \/ phase' = "headerP" /\ buf' = buf /\ pc' = "opHeader"
     \/ phase' = "eraseP" /\ buf' \in Store!State /\ pc' \in WriteLabel

\* The types of what the store does not hold.
ClientTypes ==
  /\ image \in Image
  /\ pc \in BootLabel \cup CallLabel \cup SessionLabel \cup {"off", "jumped", "app", "fatal"}
  /\ ctx \in Context
  /\ trouble \in BOOLEAN
  /\ call \in AllCalls \cup {NoCall}
  /\ ret \in Result
  /\ sess \in Session
  /\ boots \in [Slot -> Nat]
  /\ refused \subseteq Slot

\* TypeOK is the type invariant of the store and that of its clients.
LEMMA TypeParts ==
  /\ TypeOK <=> Store!TypeOK /\ ClientTypes
  /\ TypeOK' <=> Store!TypeOK' /\ ClientTypes'
BY DEF TypeOK, ClientTypes

\* A step of a client leaves the store in order, whichever call it makes.
LEMMA ClientStore ==
  ASSUME Store!TypeOK, ClientStep
  PROVE  Store!TypeOK' /\ CopyInv' /\ WaitInv' /\ ReturnInv'
BY ProvisionedAssumption
   DEF Store!TypeOK, ClientStep, CopyInv, WaitInv, ReturnInv, Store!Contents, Store!State,
      Store!Phase,
       Store!Reading, Store!Mutating, Store!ErasingPrimary, Store!WritingPrimary, RestorePhase,
       WritePhase, ReadLabel, WriteLabel, StoreLabel

\* The edits of a boot state, valid or not.
LEMMA EditStates ==
  ASSUME NEW K, K = Good \/ K = Store!State, NEW st \in K, NEW slot \in Slot
  PROVE  /\ \A v \in SlotState : SetSlotState(st, slot, v) \in K
         /\ FallbackEdit(st) \in K
         /\ st.slots[st.active].attempts < MaxAttempts => AttemptEdit(st) \in K
         /\ RollbackEdit(st, slot) \in K
         /\ \A r \in Reason : [st EXCEPT !.reason = r] \in K
         /\ \A fw \in Firmware \cup {NoFirmware} : CommitEdit(st, slot, fw) \in K
         /\ InvalidateEdit(st, slot) \in K
         /\ RepairEdit(st, slot) \in K
         /\ ConfirmEdit(st) \in K
         /\ RequestEdit(st, slot) \in K
<1>1. PICK S : SlotState \subseteq S /\ K = StateOf(S)
  BY StateTypes DEF Good
<1> QED
  BY <1>1, EditTypes, AssignTypes

\* The parts of a boot state.
LEMMA StateParts ==
  ASSUME NEW st \in Store!State
  PROVE  /\ st.active \in Slot /\ st.reason \in Reason
         /\ \A s \in Slot : st.slots[s].attempts \in 0 .. MaxAttempts
         /\ \A s \in Slot : st.slots[s].fw \in Firmware \cup {NoFirmware}
         /\ \A s \in Slot : st.slots[s].state \in SlotState \cup {"BAD", "UNSEALED"}
         /\ st \in Good => \A s \in Slot : st.slots[s].state \in SlotState
BY StateTypes, AssignTypes DEF Good

\* The three ways in which a step of the client uses the store.
LEMMA Uses ==
  ASSUME phase = "idle", NEW l
  PROVE  /\ Goto(l) /\ l \notin StoreLabel => ClientStep
         /\ Read(l) /\ l \in ReadLabel => ClientStep
         /\ \A st \in Store!State : Write(st, l) /\ l \in WriteLabel => ClientStep
         /\ Goto(l) \/ Read(l) \/ (\E st : Write(st, l)) => pc' = l
BY DEF ClientStep, Goto, Read, Write, storeVars, Store!BeginRead, Store!BeginWrite

\* Where the steps of the boot sequence, of a call and of a session start, and
\* what none of them touches.
LEMMA BootAt ==
  BootStep => /\ phase = "idle" /\ pc \in BootLabel \cup {"uartEnd"}
              /\ image' = image /\ call' = call /\ ret' = ret
BY DEF BootStep, At, appVars, AfterRead, AfterFormat, AfterReread, AfterSession,
   AfterSessionReread,
   Select, AfterFallback, CheckAttempts, RollbackRead, RollbackWrite, AfterAttempt, Verify,
   VerifyReadError, AfterSpoil, Promote, AfterPromote, RecordReason, HandOff, RecordFailed,
      BootLabel,
   Spoil

\* Where the steps of a call of the API start, and what none of them touches.
LEMMA CallAt ==
  CallStep => /\ phase = "idle" /\ pc \in CallLabel
              /\ image' = image /\ sess' = sess
BY DEF CallStep, At, HasRead, Confirm, Commit, Invalidate, Request, Check, ReadFailed, Repair,
   Written,
   CallLabel

\* Where the steps of a UART session start, and what none of them touches.
LEMMA SessionAt ==
  SessionStep \/ HostStep \/ Timeout =>
    /\ phase = "idle" /\ pc \in SessionLabel
    /\ ctx' = ctx /\ boots' = boots /\ refused' = refused
BY DEF SessionStep, HostStep, Command, At, history, SessionLabel, SessionStart, Timeout,
   ReceiveError,
   DropFrame, RefuseFrame, Inquire, Inquired, WriteFrame, EraseSlot, EraseFails, ProgramChunk,
   ProgramFails, CommitFrame, Committed, Verified, Refused, AbortFrame, Aborted, RebootFrame,
      Sent,
   SendError

\* What the application and its start do.
AppStep ==
  \/ PowerOn \/ AppStart \/ UpdaterStart
  \/ \E c \in Calls : Invoke(c) \/ Format(c)
  \/ \E f \in Firmware \cup {Junk} : AppWritesImage(f)

\* Where they start.
LEMMA AppAt == AppStep => phase = "idle" /\ pc \in {"off", "jumped", "app"}
BY DEF AppStep, PowerOn, AppStart, UpdaterStart, Invoke, Format, AppWritesImage, At

\* Where the boot sequence may go.
BootNext == BootLabel \cup {"uartRead", "fatal", "jumped"}

\* The locals of a session that is not running are those of a session.
LEMMA NoSessionType == NoSession \in Session
<1>1. Unknown \in Draft
  BY DEF Unknown, Draft
<1>2. NoFrame \in Frames \cup {NoFrame} /\ 0 \in 0 .. Chunks
  BY TypesAssumption
<1> QED
  BY <1>1, <1>2 DEF NoSession, Session, Slot

\* Every step of the boot sequence.
LEMMA BootClient ==
  ASSUME CallInv, BootStep
  PROVE  ClientStep /\ ClientTypes' /\ RunningInv' /\ pc' \in BootNext
<1> DEFINE T == Store!State
           Types == /\ ctx' \in Context
                    /\ trouble' \in BOOLEAN
                    /\ boots' \in [Slot -> Nat] /\ refused' \subseteq Slot
                    /\ sess' \in {sess, NoSession}
                    /\ pc' \in BootNext
<1>a. /\ phase = "idle" /\ pc \in BootLabel \cup {"uartEnd"}
      /\ image' = image /\ call' = call /\ ret' = ret
  BY BootAt
<1>b. /\ image \in Image /\ call = NoCall /\ ret \in Result
  BY <1>a DEF CallInv, TypeOK, RunningInv, BootLabel, CallLabel
<1>c. /\ ctx \in Context /\ trouble \in BOOLEAN /\ sess \in Session
      /\ boots \in [Slot -> Nat] /\ refused \subseteq Slot
  BY DEF CallInv, TypeOK
<1>d. /\ ctx.state \in T /\ ctx.active \in Slot /\ ctx.reason \in Reason
      /\ Active \in Slot /\ Other(Active) \in Slot
  BY <1>c, StateParts, Slots DEF Context, Store!State, Active
<1>e. /\ \A st \in T : [ctx EXCEPT !.state = st] \in Context
      /\ \A r \in Reason : [ctx EXCEPT !.reason = r] \in Context
      /\ \A s \in Slot : [ctx EXCEPT !.active = s] \in Context
      /\ \A r \in Reason, s \in Slot, st \in T : [reason |-> r, active |-> s, state |-> st] \in Context
  BY <1>c DEF Context, Store!State
<1>f. /\ \A l : Goto(l) /\ l \notin StoreLabel => ClientStep
      /\ \A l \in ReadLabel : Read(l) => ClientStep
      /\ \A l \in WriteLabel, st \in T : Write(st, l) => ClientStep
      /\ \A l : Goto(l) \/ Read(l) \/ (\E st : Write(st, l)) => pc' = l
  BY <1>a, Uses
<1>g. pc \in ReadLabel /\ res = "OK" => buf \in Good /\ buf \in T
  BY <1>a, StateTypes DEF CallInv, ReturnInv
<1>h. pc \in WriteLabel => buf \in T
  BY <1>a DEF CallInv, CopyInv
<1>i. Types => ClientTypes' /\ RunningInv'
  BY <1>a, <1>b, <1>c, NoSessionType
     DEF ClientTypes, RunningInv, BootNext, BootLabel, CallLabel, SessionLabel
<1>j. /\ ReadLabel = {"read", "reread", "rereadUart", "rbRead", "uartRead", "inquired", "opRead",
                       "mainRead", "syncRead"}
      /\ StoreLabel \cap {"select", "check", "verify", "promote", "record", "fatal", "jumped"} = {}
      /\ {"format", "fallback", "rbWrite", "attempt", "spoiled", "promoted", "recorded"}
           \subseteq WriteLabel
      /\ BootNext = BootLabel \cup {"uartRead", "fatal", "jumped"}
  BY DEF ReadLabel, WriteLabel, StoreLabel, BootNext
<1> SUFFICES ClientStep /\ Types
  BY <1>i
<1> USE DEF Fatal, Listen, SetState, appVars, history, At, BootLabel
<1>1. CASE AfterRead
  <2>1. res \in {"OK", "CORRUPT", "FLASH"}
    BY <1>1 DEF AfterRead
  <2>2. CASE res = "OK"
    <3>1. ctx' = [ctx EXCEPT !.state = buf] /\ buf \in T /\ boots' = boots
      BY <1>1, <1>g, <1>j, <2>2 DEF AfterRead
    <3>2. Read("uartRead") \/ Goto("select")
      BY <1>1, <2>2 DEF AfterRead
    <3> QED
      BY <1>1, <1>c, <1>e, <1>f, <1>j, <3>1, <3>2 DEF AfterRead
  <2>3. CASE res = "CORRUPT"
    <3>1. DefaultState("A") \in T
      BY DefaultTypes, StateTypes DEF Slot
    <3>2. [s \in Slot |-> 0] \in [Slot -> Nat]
      OBVIOUS
    <3> QED
      BY <1>1, <1>c, <1>f, <1>j, <2>3, <3>1, <3>2 DEF AfterRead
  <2>4. CASE res = "FLASH"
    BY <1>1, <1>c, <1>f, <1>j, <2>4 DEF AfterRead
  <2> QED
    BY <2>1, <2>2, <2>3, <2>4
<1>2. CASE AfterFormat
  BY <1>2, <1>c, <1>f, <1>j DEF AfterFormat
<1>3. CASE AfterReread
  <2>1. Read("uartRead") \/ Goto("select") \/ Goto("fatal")
    BY <1>3 DEF AfterReread
  <2> QED
    BY <2>1, <1>3, <1>c, <1>e, <1>f, <1>g, <1>j DEF AfterReread
<1>4. CASE AfterSession
  BY <1>4, <1>c, <1>f, <1>j DEF AfterSession
<1>5. CASE AfterSessionReread
  BY <1>5, <1>c, <1>e, <1>f, <1>g, <1>j DEF AfterSessionReread
<1>6. CASE Select
  <2>1. FallbackEdit(ctx.state) \in T
    BY <1>d, EditStates
  <2> QED
    BY <2>1, <1>6, <1>c, <1>e, <1>f, <1>j DEF Select
<1>7. CASE AfterFallback
  BY <1>7, <1>c, <1>f, <1>j DEF AfterFallback
<1>8. CASE CheckAttempts
  <2>1. ActiveRecord.attempts >= MaxAttempts \/ AttemptEdit(ctx.state) \in T
    <3>1. ctx.state.slots[ctx.state.active].attempts \in 0 .. MaxAttempts
      <4>1. \A s \in Slot : ctx.state.slots[s].attempts \in 0 .. MaxAttempts
        BY <1>d, StateParts
      <4> QED
        BY <4>1, <1>d DEF Active
    <3>2. CASE ctx.state.slots[ctx.state.active].attempts < MaxAttempts
      <4>1. T = Store!State /\ ctx.state \in T /\ Active \in Slot
        BY <1>d
      <4> QED
        BY <3>2, <4>1, EditStates, Zenon
    <3> QED
      BY <3>1, <3>2, TypesAssumption DEF ActiveRecord, Active
  <2> QED
    BY <2>1, <1>8, <1>c, <1>e, <1>f, <1>j DEF CheckAttempts
<1>9. CASE RollbackRead
  <2>1. res = "OK" => RollbackEdit(buf, Active) \in T
    BY <1>9, <1>d, <1>g, <1>j, EditStates DEF RollbackRead
  <2> QED
    BY <2>1, <1>9, <1>c, <1>f, <1>j DEF RollbackRead
<1>10. CASE RollbackWrite
  <2>1. buf \in T /\ buf.active \in Slot /\ Other(buf.active) \in Slot
    BY <1>10, <1>h, <1>j, StateParts, Slots DEF RollbackWrite
  <2>2. "ROLLBACK" \in Reason
    BY DEF Reason
  <2> QED
    BY <2>1, <2>2, <1>10, <1>c, <1>e, <1>f, <1>j DEF RollbackWrite
<1>11. CASE AfterAttempt
  BY <1>11, <1>c, <1>f, <1>j DEF AfterAttempt
<1>a12. /\ SetSlotState(ctx.state, Active, "INVALID") \in T
        /\ SetSlotState(ctx.state, Active, "ACTIVE") \in T
  BY <1>d, EditStates DEF SlotState
<1>12. CASE Verify
  BY <1>12, <1>a12, <1>c, <1>e, <1>f, <1>j DEF Verify, Spoil
<1>13. CASE VerifyReadError
  BY <1>13, <1>a12, <1>c, <1>e, <1>f, <1>j DEF VerifyReadError, Spoil
<1>14. CASE AfterSpoil
  BY <1>14, <1>c, <1>d, <1>f, <1>j DEF AfterSpoil
<1>15. CASE Promote
  <2>1. KeptReason \in Reason
    BY <1>d DEF KeptReason, Reason
  <2> QED
    BY <2>1, <1>15, <1>a12, <1>c, <1>e, <1>f, <1>j DEF Promote
<1>16. CASE AfterPromote
  <2>1. "UPDATE" \in Reason
    BY DEF Reason
  <2> QED
    BY <2>1, <1>16, <1>c, <1>e, <1>f, <1>j DEF AfterPromote
<1>17. CASE RecordReason
  <2>1. [ctx.state EXCEPT !.reason = ctx.reason] \in T
    BY <1>d, EditStates
  <2> QED
    BY <2>1, <1>17, <1>c, <1>e, <1>f, <1>j DEF RecordReason
<1>18. CASE HandOff
  <2>1. [boots EXCEPT ![Active] = @ + 1] \in [Slot -> Nat]
    BY <1>c, <1>d
  <2> QED
    BY <2>1, <1>18, <1>c, <1>d, <1>e, <1>f, <1>j DEF HandOff
<1>19. CASE RecordFailed
  BY <1>19, <1>c, <1>f, <1>j DEF RecordFailed
<1> QED
  BY <1>1, <1>2, <1>3, <1>4, <1>5, <1>6, <1>7, <1>8, <1>9, <1>10, <1>11, <1>12, <1>13, <1>14,
     <1>15,
     <1>16, <1>17, <1>18, <1>19 DEF BootStep

-----------------------------------------------------------------------------
\* The members of a call.
LEMMA CallParts ==
  /\ \A c \in AllCalls \cup {NoCall} : c.slot \in Slot /\ c.fw \in Firmware \cup {NoFirmware}
  /\ \A c \in AllCalls : c.name \in {"confirm", "verify", "invalidate", "request", "format", "commit"}
  /\ \A s \in Slot : [name |-> "invalidate", slot |-> s, fw |-> NoFirmware] \in AllCalls
  /\ \A s \in Slot : [name |-> "verify", slot |-> s, fw |-> NoFirmware] \in AllCalls
  /\ \A s \in Slot, f \in Firmware \cup {NoFirmware} :
       [name |-> "commit", slot |-> s, fw |-> f] \in AllCalls
BY DEF AllCalls, NoCall, Slot

\* A call returns to a label that waits for no store call.
LEMMA BackLabel ==
  ASSUME sess \in Session
  PROVE  /\ sess.back \notin StoreLabel \cup CallLabel \cup BootLabel \cup {"uartRead", "uartEnd"}
         /\ sess.back \in SessionLabel \cup {"app"}
BY DEF Session, StoreLabel, ReadLabel, WriteLabel, CallLabel, SessionLabel, BootLabel

\* Every step of a call of the API.
LEMMA CallClient ==
  ASSUME CallInv, CallStep
  PROVE  ClientStep /\ ClientTypes' /\ RunningInv' /\ pc' \in CallLabel \cup {sess.back}
<1> DEFINE T == Store!State
           Types == /\ ctx' \in Context
                    /\ trouble' \in BOOLEAN
                    /\ boots' \in [Slot -> Nat] /\ refused' \subseteq Slot
                    /\ \/ pc' \in CallLabel /\ call' = call /\ ret' = ret
                       \/ pc' = sess.back /\ call' = NoCall /\ ret' \in Result
<1>a. /\ phase = "idle" /\ pc \in CallLabel
      /\ image' = image /\ sess' = sess
  BY CallAt
<1>b. /\ image \in Image /\ call \in AllCalls /\ ret = "none" /\ ret \in Result
  BY <1>a DEF CallInv, TypeOK, RunningInv
<1>c. /\ ctx \in Context /\ trouble \in BOOLEAN /\ sess \in Session
      /\ boots \in [Slot -> Nat] /\ refused \subseteq Slot
      /\ call.slot \in Slot /\ call.fw \in Firmware \cup {NoFirmware}
  BY <1>b, CallParts DEF CallInv, TypeOK
<1>d. \A slots : ClearBoots(slots) => boots' \in [Slot -> Nat]
  BY <1>c DEF ClearBoots
<1>e. /\ \A st \in T : [ctx EXCEPT !.state = st] \in Context
      /\ \A st \in T, r \in Reason : [ctx EXCEPT !.state = st, !.reason = r] \in Context
      /\ ctx.reason \in Reason /\ "FORCED" \in Reason
  BY <1>c DEF Context, Store!State, Reason
<1>f. \A r : Finish(r) => ClientStep /\ pc' = sess.back /\ ret' = r /\ call' = NoCall
  BY <1>a, <1>c, Uses, BackLabel DEF Finish, Return
<1>g. \A st \in T : Write(st, "opWrite") => ClientStep /\ pc' = "opWrite"
  BY <1>a, Uses DEF WriteLabel
<1>h. /\ pc = "opRead" => res \in {"OK", "FLASH", "CORRUPT"}
      /\ pc = "opRead" /\ res = "OK" => buf \in Good /\ buf \in T
      /\ pc = "opHeader" => res \in {"OK", "FLASH", "CORRUPT"} /\ (res = "OK" => buf \in T)
      /\ pc = "opWrite" => res \in {"OK", "FLASH"} /\ buf \in T
  BY <1>a, StateTypes DEF CallInv, ReturnInv, CopyInv, ReadLabel, WriteLabel
<1>i. Types => ClientTypes' /\ RunningInv'
  BY <1>a, <1>b, <1>c, BackLabel DEF ClientTypes, RunningInv, CallLabel
<1>j. \A allowed \in BOOLEAN, st \in T : \A cleared : WriteIf(allowed, st, cleared) =>
         ClientStep /\ boots' \in [Slot -> Nat] /\
           (\/ pc' \in CallLabel /\ call' = call /\ ret' = ret
            \/ pc' = sess.back /\ call' = NoCall /\ ret' \in Result)
  BY <1>c, <1>d, <1>f, <1>g DEF WriteIf, CallLabel, Result
<1> SUFFICES ClientStep /\ Types
  BY <1>i
<1> USE DEF HasRead, At
<1>1. CASE Confirm
  <2>1. ConfirmEdit(buf) \in T
    BY <1>1, <1>h, <1>c, EditStates DEF Confirm
  <2> QED
    BY <2>1, <1>1, <1>c, <1>d, <1>f, <1>g DEF Confirm, WriteIf, CallLabel, Result
<1>2. CASE Commit
  <2>1. CommitEdit(buf, call.slot, call.fw) \in T
    BY <1>2, <1>h, <1>c, EditStates DEF Commit
  <2>2. refused' \subseteq Slot
    BY <1>2, <1>c DEF Commit
  <2> QED
    BY <2>1, <2>2, <1>2, <1>c, <1>j DEF Commit
<1>3. CASE Invalidate
  <2>1. InvalidateEdit(buf, call.slot) \in T
    BY <1>3, <1>h, <1>c, EditStates DEF Invalidate
  <2> QED
    BY <2>1, <1>3, <1>c, <1>j DEF Invalidate
<1>4. CASE Request
  <2>1. RequestEdit(buf, call.slot) \in T
    BY <1>4, <1>h, <1>c, EditStates DEF Request
  <2> QED
    BY <2>1, <1>4, <1>c, <1>d, <1>f, <1>g DEF Request, WriteIf, CallLabel, Result
<1>5. CASE Check
  BY <1>5, <1>c, <1>f DEF Check, Result
<1>6. CASE ReadFailed
  <2>1. CASE res = "CORRUPT" /\ call.name = "invalidate"
    BY <2>1, <1>6, <1>a, <1>c DEF ReadFailed, ClientStep, Store!BeginHeaderRead, CallLabel,
       history
  <2>2. CASE ~(res = "CORRUPT" /\ call.name = "invalidate")
    BY <2>2, <1>6, <1>c, <1>f, <1>h DEF ReadFailed, Result, history
  <2> QED
    BY <2>1, <2>2
<1>7. CASE Repair
  <2>1. CASE res = "OK"
    <3>1. RepairEdit(buf, call.slot) \in T
      BY <2>1, <1>7, <1>h, <1>c, EditStates DEF Repair
    <3> QED
      BY <3>1, <2>1, <1>7, <1>c, <1>d, <1>g DEF Repair, CallLabel
  <2>2. CASE res # "OK"
    BY <2>2, <1>7, <1>c, <1>f, <1>h DEF Repair, Result
  <2> QED
    BY <2>1, <2>2
<1>8. CASE Written
  <2>1. ctx' \in Context
    BY <1>8, <1>c, <1>e, <1>h DEF Written
  <2>2. refused' \subseteq Slot
    BY <1>8, <1>c DEF Written
  <2> QED
    BY <2>1, <2>2, <1>8, <1>c, <1>f, <1>h DEF Written, Result
<1> QED
  BY <1>1, <1>2, <1>3, <1>4, <1>5, <1>6, <1>7, <1>8 DEF CallStep

-----------------------------------------------------------------------------
\* The members of a frame.
LEMMA FrameTypes ==
  ASSUME NEW f \in Frames \cup {NoFrame}
  PROVE  /\ f.fw \in Firmware \cup {NoFirmware, Junk}
         /\ f.end \in 0 .. Chunks
         /\ f.cmd = "commit" => f.fw \in Firmware \cup {NoFirmware}
BY TypesAssumption DEF Frames, NoFrame, DataFrames

\* An assignment to one member of the session keeps the types.
LEMMA SessionParts ==
  ASSUME NEW s \in Session
  PROVE  /\ s.target \in Slot /\ s.draft \in Draft /\ s.frame \in Frames \cup {NoFrame}
         /\ \A v \in BOOLEAN : /\ [s EXCEPT !.active = v] \in Session
                              /\ [s EXCEPT !.erased = v] \in Session
                              /\ [s EXCEPT !.committed = v] \in Session
                              /\ [s EXCEPT !.reboot = v] \in Session
         /\ \A t \in Slot : [s EXCEPT !.target = t] \in Session
         /\ \A n \in 0 .. Chunks : [s EXCEPT !.written = n] \in Session
         /\ \A d \in Draft : [s EXCEPT !.draft = d] \in Session
         /\ \A f \in Frames \cup {NoFrame} : [s EXCEPT !.frame = f] \in Session
         /\ \A r \in {"none", "OK", "ERROR", "STATUS"} : [s EXCEPT !.reply = r] \in Session
         /\ \A b \in {"app", "listen", "committed", "verified", "refused", "aborted"} :
              [s EXCEPT !.back = b] \in Session
         /\ \A e \in {"OK", "FLASH", "CORRUPT", "TRANSPORT"} : [s EXCEPT !.err = e] \in Session
BY DEF Session

\* Writing a chunk, whole or torn, leaves a draft; a draft stands for an image.
LEMMA DraftTypes ==
  ASSUME NEW d \in Draft, NEW f \in Frames \cup {NoFrame}
  PROVE  /\ Programmed(d, f) \in Draft
         /\ Torn(d, f) \in Draft
         /\ Contents(d) \in Firmware \cup {Junk}
         /\ Erased \in Draft
<1>1. f.fw \in Firmware \cup {NoFirmware, Junk}
  BY FrameTypes
<1>2. Programmed(d, f) \in Draft /\ Torn(d, f) \in Draft /\ Erased \in Draft
  BY <1>1 DEF Programmed, Torn, Draft, Erased
<1>3. Contents(d) \in Firmware \cup {Junk}
  BY DEF Contents
<1> QED
  BY <1>2, <1>3

\* Every step of a session, the host and the line included.
LEMMA SessionClient ==
  ASSUME CallInv, SessionStep \/ HostStep \/ Timeout
  PROVE  ClientStep /\ ClientTypes' /\ RunningInv' /\ pc' \in SessionLabel \cup {"opRead"}
<1> DEFINE Types == /\ image' \in Image
                    /\ trouble' \in BOOLEAN
                    /\ sess' \in Session
                    /\ ClientStep
                    /\ \/ pc' \in SessionLabel /\ call' = NoCall /\ ret' \in Result
                       \/ pc' = "opRead" /\ call' \in AllCalls /\ ret' = "none"
<1>a. /\ phase = "idle" /\ pc \in SessionLabel
      /\ ctx' = ctx /\ boots' = boots /\ refused' = refused
  BY SessionAt
<1>b. /\ image \in Image /\ call = NoCall /\ ret \in Result /\ trouble \in BOOLEAN
      /\ sess \in Session /\ sess.target \in Slot
      /\ sess.draft \in Draft /\ sess.frame \in Frames \cup {NoFrame}
  BY <1>a, SessionParts DEF CallInv, TypeOK, RunningInv, SessionLabel, CallLabel
<1>c. ctx \in Context /\ boots \in [Slot -> Nat] /\ refused \subseteq Slot
  BY DEF CallInv, TypeOK
<1>d. /\ \A l \in SessionLabel \ {"uartRead", "inquired"} : Goto(l) => ClientStep /\ pc' = l
      /\ Read("inquired") => ClientStep /\ pc' = "inquired"
      /\ Read("opRead") => ClientStep /\ pc' = "opRead"
  BY <1>a, Uses DEF StoreLabel, ReadLabel, WriteLabel, SessionLabel
<1>e. \A s \in Session, r \in {"none", "OK", "ERROR", "STATUS"} : Answer(s, r) =>
         ClientStep /\ pc' = "reply" /\ sess' \in Session
  BY <1>d, SessionParts DEF Answer, SessionLabel
<1>f. \A s \in Session, e \in {"OK", "FLASH", "CORRUPT", "TRANSPORT"} : EndSession(s, e) =>
         ClientStep /\ pc' = "uartEnd" /\ sess' \in Session
  BY <1>d, SessionParts DEF EndSession, SessionLabel
<1>g. ASSUME NEW s \in Session, NEW fw \in Firmware \cup {NoFirmware},
             NEW name \in {"invalidate", "verify", "commit"},
             NEW l \in {"listen", "committed", "verified", "refused", "aborted"},
             name # "commit" => fw = NoFirmware,
             Ask(name, fw, s, l)
      PROVE  /\ ClientStep /\ sess' \in Session
             /\ \/ pc' \in SessionLabel /\ call' = NoCall /\ ret' \in Result
                \/ pc' = "opRead" /\ call' \in AllCalls /\ ret' = "none"
  <2>1. sess' = [s EXCEPT !.back = l] /\ sess' \in Session
    BY <1>g, SessionParts DEF Ask, Begin
  <2>2. [name |-> name, slot |-> sess.target, fw |-> fw] \in AllCalls
    BY <1>b, <1>g, CallParts
  <2>3. [s EXCEPT !.back = l].back = l
    BY DEF Session
  <2> QED
    BY <1>d, <1>g, <2>1, <2>2, <2>3 DEF Ask, Begin, Return, SessionLabel, Result
<1>h. \A s \in Session : Refuse(s) =>
         /\ ClientStep /\ sess' \in Session
         /\ \/ pc' \in SessionLabel /\ call' = NoCall /\ ret' \in Result
            \/ pc' = "opRead" /\ call' \in AllCalls /\ ret' = "none"
  BY <1>g DEF Refuse
<1>i. \A f \in Frames : Received(f) \in Session
  BY <1>b, SessionParts DEF Received
<1>j. \A c \in Firmware \cup {Junk} : SetTarget(c) => image' \in Image
  BY <1>b DEF SetTarget, Image
<1>k. Types => ClientStep /\ ClientTypes' /\ RunningInv'
  BY <1>a, <1>b, <1>c DEF ClientTypes, RunningInv, SessionLabel, CallLabel, Result
<1> SUFFICES Types
  BY <1>k
<1> USE DEF At, history
<1>1. CASE SessionStart
  <2>1. res \in {"OK", "FLASH", "CORRUPT"} /\ (res = "OK" => buf.active \in Slot)
    BY <1>1, <1>a, StateTypes, StateParts DEF CallInv, ReturnInv, ReadLabel, SessionStart
  <2>2. res = "OK" => [NoSession EXCEPT !.target = Other(buf.active), !.back = "listen"] \in Session
    BY <2>1, Slots, NoSessionType DEF Session
  <2> QED
    BY <2>1, <2>2, <1>1, <1>b, <1>d, <1>f, NoSessionType DEF SessionStart, SessionLabel
<1>2. CASE Timeout
  BY <1>2, <1>b, <1>f DEF Timeout, SessionLabel
<1>3. CASE ReceiveError \/ SendError
  BY <1>3, <1>b, <1>f DEF ReceiveError, SendError, SessionLabel
<1>4. CASE DropFrame
  BY <1>4, <1>b, <1>g DEF DropFrame
<1>5. ASSUME NEW f \in Frames, Command(f) PROVE Types
  <2>1. CASE RefuseFrame(f)
    BY <2>1, <1>b, <1>e, <1>i DEF RefuseFrame, SessionLabel
  <2>2. CASE Inquire(f)
    <3>1. [Received(f) EXCEPT !.active = @ \/ f.cmd = "hello"] \in Session
      BY <1>i DEF Session
    <3> QED
      BY <2>2, <3>1, <1>b, <1>d DEF Inquire, SessionLabel
  <2>3. CASE WriteFrame(f)
    BY <2>3, <1>b, <1>d, <1>i DEF WriteFrame, SessionLabel
  <2>4. CASE CommitFrame(f)
    <3>1. f.fw \in Firmware \cup {NoFirmware}
      BY <2>4, FrameTypes DEF CommitFrame
    <3> QED
      BY <2>4, <3>1, <1>b, <1>g, <1>h, <1>i DEF CommitFrame
  <2>5. CASE AbortFrame(f)
    BY <2>5, <1>b, <1>g, <1>i DEF AbortFrame
  <2>6. CASE RebootFrame(f)
    <3>1. [Received(f) EXCEPT !.reboot = TRUE] \in Session
      BY <1>i, SessionParts
    <3> QED
      BY <2>6, <3>1, <1>b, <1>f DEF RebootFrame, SessionLabel
  <2> QED
    BY <1>5, <2>1, <2>2, <2>3, <2>4, <2>5, <2>6 DEF Command
<1>6. CASE EraseSlot
  <2>1. [sess EXCEPT !.erased = TRUE, !.draft = Erased] \in Session
    BY <1>b, DraftTypes DEF Session
  <2> QED
    BY <2>1, <1>6, <1>b, <1>d, <1>j DEF EraseSlot, SessionLabel
<1>7. CASE EraseFails
  <2>1. image' \in Image
    BY <1>7, <1>b, <1>j DEF EraseFails, Image
  <2> QED
    BY <2>1, <1>7, <1>b, <1>h DEF EraseFails
<1>8. CASE ProgramChunk
  <2>1. Programmed(sess.draft, sess.frame) \in Draft /\ sess.frame.end \in 0 .. Chunks
    BY <1>b, DraftTypes, FrameTypes
  <2>2. [sess EXCEPT !.draft = Programmed(sess.draft, sess.frame), !.written = sess.frame.end]
          \in Session
    BY <2>1, <1>b DEF Session
  <2>3. image' \in Image
    BY <2>1, <1>8, <1>b, <1>j, DraftTypes DEF ProgramChunk
  <2> QED
    BY <2>2, <2>3, <1>8, <1>b, <1>e DEF ProgramChunk, SessionLabel
<1>9. CASE ProgramFails
  <2>1. PICK draft \in {sess.draft, Torn(sess.draft, sess.frame), Programmed(sess.draft, sess.frame)} :
          SetTarget(Contents(draft)) /\ Refuse([sess EXCEPT !.draft = draft])
    BY <1>9 DEF ProgramFails
  <2>2. draft \in Draft
    BY <1>b, DraftTypes
  <2>3. [sess EXCEPT !.draft = draft] \in Session
    BY <2>2, <1>b, SessionParts
  <2>4. image' \in Image
    BY <2>1, <2>2, <1>b, <1>j, DraftTypes
  <2>5. trouble' \in BOOLEAN
    BY <1>9, <1>b DEF ProgramFails
  <2> QED
    BY <2>1, <2>3, <2>4, <2>5, <1>b, <1>h
<1>10. CASE Inquired
  BY <1>10, <1>b, <1>e DEF Inquired, SessionLabel
<1>11. CASE Committed
  BY <1>11, <1>b, <1>g, <1>h DEF Committed
<1>12. CASE Verified
  <2>1. [sess EXCEPT !.committed = TRUE] \in Session
    BY <1>b, SessionParts
  <2> QED
    BY <2>1, <1>12, <1>b, <1>e, <1>h DEF Verified, SessionLabel
<1>13. CASE Refused
  BY <1>13, <1>b, <1>e DEF Refused, SessionLabel
<1>14. CASE Aborted
  <2>1. [sess EXCEPT !.active = FALSE] \in Session
    BY <1>b, SessionParts
  <2> QED
    BY <2>1, <1>14, <1>b, <1>e DEF Aborted, SessionLabel
<1>15. CASE Sent
  <2>1. [sess EXCEPT !.reply = "none", !.frame = NoFrame] \in Session
    BY <1>b DEF Session
  <2> QED
    BY <2>1, <1>15, <1>b, <1>d DEF Sent, SessionLabel, Result
<1> QED
  BY <1>1, <1>2, <1>3, <1>4, <1>5, <1>6, <1>7, <1>8, <1>9, <1>10, <1>11, <1>12, <1>13, <1>14,
     <1>15
     DEF SessionStep, HostStep

-----------------------------------------------------------------------------
\* A call of the application, and what the environment does.
LEMMA AppClient ==
  ASSUME CallInv, AppStep
  PROVE  /\ ClientStep /\ ClientTypes' /\ RunningInv'
         /\ pc' \in {"read", "app", "opRead", "opWrite", sess.back}
<1> DEFINE Goal == /\ ClientStep /\ ClientTypes' /\ RunningInv'
                   /\ pc' \in {"read", "app", "opRead", "opWrite", sess.back}
<1>a. /\ image \in Image /\ call \in AllCalls \cup {NoCall} /\ ret \in Result /\ trouble \in BOOLEAN
      /\ sess \in Session /\ sess.back \in SessionLabel \cup {"app"}
      /\ sess.back \notin StoreLabel \cup CallLabel
      /\ ctx \in Context /\ boots \in [Slot -> Nat] /\ refused \subseteq Slot
      /\ pc \notin CallLabel => call = NoCall
  BY BackLabel DEF CallInv, TypeOK, RunningInv
<1>b. InitContext \in Context /\ Other(ctx.active) \in Slot
  BY <1>a, DefaultTypes, StateTypes, Slots DEF InitContext, Context, Store!State, Reason, Slot
<1>c. /\ pc \in {"off", "jumped", "app"} /\ phase = "idle"
  BY AppAt
<1> USE DEF At, appVars, history
<1>1. CASE PowerOn
  BY <1>1, <1>a, <1>b, <1>c, Uses
     DEF PowerOn, ClientTypes, RunningInv, BootLabel, CallLabel, SessionLabel, ReadLabel
<1>2. CASE AppStart
  BY <1>2, <1>a, <1>c, Uses
     DEF AppStart, ClientTypes, RunningInv, CallLabel, SessionLabel, StoreLabel, ReadLabel,
        WriteLabel
<1>3. CASE UpdaterStart
  BY <1>3, <1>a, <1>b, <1>c, Uses
     DEF UpdaterStart, ClientTypes, RunningInv, CallLabel, SessionLabel, StoreLabel,
        ReadLabel, WriteLabel
<1>4. ASSUME NEW c \in Calls, Invoke(c) PROVE Goal
  <2>1. c \in AllCalls /\ sess' = sess
    BY <1>4, CallsAssumption DEF Invoke, Begin
  <2>2. CASE c.name = "commit" /\ c.fw = NoFirmware
    BY <1>4, <2>1, <2>2, <1>a, <1>c, Uses
       DEF Invoke, Begin, Return, Result, ClientTypes, RunningInv, CallLabel
  <2>3. CASE ~(c.name = "commit" /\ c.fw = NoFirmware)
    BY <1>4, <2>1, <2>3, <1>a, <1>c, Uses
       DEF Invoke, Begin, Result, ClientTypes, RunningInv, CallLabel, ReadLabel
  <2> QED
    BY <2>2, <2>3
<1>5. ASSUME NEW c \in Calls, Format(c) PROVE Goal
  <2>1. c \in AllCalls /\ DefaultState(c.slot) \in Store!State
    BY CallsAssumption, CallParts, DefaultTypes, StateTypes
  <2>2. boots' \in [Slot -> Nat]
    BY <1>5, <1>a DEF Format, ClearBoots
  <2> QED
    BY <1>5, <2>1, <2>2, <1>a, <1>c, Uses
       DEF Format, Result, ClientTypes, RunningInv, CallLabel, WriteLabel
<1>6. ASSUME NEW f \in Firmware \cup {Junk}, AppWritesImage(f)
      PROVE  Goal
  <2>1. image' \in Image
    BY <1>6, <1>a DEF AppWritesImage, Image
  <2> QED
    BY <1>6, <2>1, <1>a, <1>c
       DEF AppWritesImage, ClientStep, storeVars, ClientTypes, RunningInv, CallLabel,
          StoreLabel, ReadLabel,
           WriteLabel
<1> QED
  BY <1>1, <1>2, <1>3, <1>4, <1>5, <1>6 DEF AppStep

\* A step of the device is one of a store call, one of its client, or a fault.
Client ==
  BootStep \/ CallStep \/ SessionStep \/ HostStep \/ Timeout \/ AppStep

\* Every step is one of these, and no other.
LEMMA StepKinds == [Next]_vars <=> StoreStep \/ Client \/ FlashError \/ PowerCut \/ UNCHANGED vars
BY DEF Next, Work, Client, AppStep

\* A step of a client keeps the invariant.
LEMMA ClientKeeps == CallInv /\ Client => ClientStep /\ CallInv'
<1> SUFFICES ASSUME CallInv, Client PROVE ClientStep /\ CallInv'
  OBVIOUS
<1>1. ClientStep /\ ClientTypes' /\ RunningInv'
  BY BootClient, CallClient, SessionClient, AppClient DEF Client
<1> QED
  BY <1>1, ClientStore, TypeParts DEF CallInv

\* A flash operation fails: the call returns FLASH.
LEMMA ErrorStore ==
  ASSUME Store!TypeOK, WaitInv, CopyInv, FlashError
  PROVE  /\ Store!TypeOK' /\ WaitInv' /\ CopyInv' /\ ReturnInv'
         /\ trouble' = TRUE
         /\ UNCHANGED <<pc, ctx, image, call, ret, sess, boots, refused>>
<1>1. /\ phase' = "idle" /\ faults' \in 0 .. MaxFaults /\ formatted' = formatted
      /\ primary' \in Store!Contents /\ backup' \in Store!Contents
      /\ res' = "FLASH" /\ trouble' = TRUE /\ buf' = buf /\ phase # "idle"
      /\ UNCHANGED <<pc, ctx, image, call, ret, sess, boots, refused>>
  BY CutShortCases DEF FlashError, Store!FlashError, appVars
<1>2. Store!TypeOK'
  BY <1>1 DEF Store!TypeOK, Store!Phase, Store!Mutating, Store!ErasingPrimary,
     Store!WritingPrimary
<1>3. WaitInv' /\ CopyInv' /\ ReturnInv'
  BY <1>1 DEF WaitInv, CopyInv, ReturnInv, RestorePhase
<1> QED
  BY <1>1, <1>2, <1>3

\* So the invariant stays true.
LEMMA ErrorKeeps == CallInv /\ FlashError => CallInv'
<1> SUFFICES ASSUME CallInv, FlashError PROVE CallInv'
  OBVIOUS
<1>1. /\ Store!TypeOK' /\ WaitInv' /\ CopyInv' /\ ReturnInv'
      /\ trouble' = TRUE
      /\ UNCHANGED <<pc, ctx, image, call, ret, sess, boots, refused>>
  BY ErrorStore DEF CallInv, TypeOK
<1>2. ClientTypes' /\ RunningInv'
  BY <1>1, TypeParts DEF CallInv, ClientTypes, RunningInv
<1> QED
  BY <1>1, <1>2, TypeParts DEF CallInv

\* Power fails: nothing is left of the call.
LEMMA CutStore ==
  ASSUME Store!TypeOK, PowerCut
  PROVE  /\ Store!TypeOK' /\ WaitInv' /\ CopyInv' /\ ReturnInv'
         /\ pc' = "off" /\ ctx' = InitContext /\ ctx' \in Context
         /\ call' = NoCall /\ ret' = "none" /\ sess' = NoSession
         /\ UNCHANGED <<image, trouble, boots, refused>>
<1>1. /\ phase' = "idle" /\ faults' \in 0 .. MaxFaults /\ formatted' = formatted
      /\ primary' \in Store!Contents /\ backup' \in Store!Contents
      /\ res' = "CUT" /\ buf' = Corrupt /\ pc' = "off" /\ ctx' = InitContext
      /\ call' = NoCall /\ ret' = "none" /\ sess' = NoSession
      /\ UNCHANGED <<image, trouble, boots, refused>>
  BY CutShortCases DEF PowerCut, Store!PowerCut, history
<1>2. Store!TypeOK'
  BY <1>1 DEF Store!TypeOK, Store!Phase, Store!Mutating, Store!ErasingPrimary,
     Store!WritingPrimary, Store!Contents
<1>3. InitContext \in Context
  BY DefaultTypes, StateTypes DEF InitContext, Context, Store!State, Reason, Slot
<1>4. WaitInv' /\ CopyInv' /\ ReturnInv'
  BY <1>1 DEF WaitInv, CopyInv, ReturnInv, RestorePhase, StoreLabel, ReadLabel, WriteLabel
<1> QED
  BY <1>1, <1>2, <1>3, <1>4

\* So the invariant stays true.
LEMMA CutKeeps == CallInv /\ PowerCut => CallInv'
<1> SUFFICES ASSUME CallInv, PowerCut PROVE CallInv'
  OBVIOUS
<1>1. /\ Store!TypeOK' /\ WaitInv' /\ CopyInv' /\ ReturnInv'
      /\ pc' = "off" /\ ctx' \in Context
      /\ call' = NoCall /\ ret' = "none" /\ sess' = NoSession
      /\ UNCHANGED <<image, trouble, boots, refused>>
  BY CutStore DEF CallInv, TypeOK
<1>2. ClientTypes' /\ RunningInv'
  BY <1>1, NoSessionType, TypeParts DEF CallInv, ClientTypes, RunningInv, CallLabel, Result
<1> QED
  BY <1>1, <1>2, TypeParts DEF CallInv

\* A step of the store keeps the invariant.
LEMMA StoreKeeps == CallInv /\ StoreStep => CallInv'
<1> SUFFICES ASSUME CallInv, StoreStep PROVE CallInv'
  OBVIOUS
<1>1. Store!Step /\ UNCHANGED <<pc, ctx, image, call, ret, sess, trouble, boots, refused>>
  BY DEF StoreStep, appVars, history
<1>2. ClientTypes' /\ RunningInv'
  BY <1>1, TypeParts DEF CallInv, ClientTypes, RunningInv
<1> QED
  BY <1>1, <1>2, StoreStepTypes, StoreStepReturns, TypeParts DEF CallInv

\* Every step keeps the invariant.
LEMMA CallNext == CallInv /\ [Next]_vars => CallInv'
<1> SUFFICES ASSUME CallInv, [Next]_vars PROVE CallInv'
  OBVIOUS
<1>1. CASE UNCHANGED vars
  BY <1>1 DEF vars, storeVars, appVars, history, CallInv, TypeOK, Store!TypeOK, WaitInv,
     CopyInv, ReturnInv, RunningInv
<1> QED
  BY <1>1, StepKinds, StoreKeeps, ClientKeeps, ErrorKeeps, CutKeeps

\* A device that is switched on for the first time satisfies it.
LEMMA CallInit == Init => CallInv
<1> SUFFICES ASSUME Init PROVE CallInv
  OBVIOUS
<1>1. /\ primary \in Store!Contents /\ image \in Image
      /\ backup = primary /\ phase = "idle" /\ buf = Corrupt /\ res = "OK" /\ faults = 0
      /\ formatted = (primary # Corrupt)
      /\ pc = "off" /\ ctx = InitContext /\ trouble = FALSE /\ call = NoCall /\ ret = "none"
      /\ sess = NoSession /\ boots = [s \in Slot |-> 0] /\ refused = {}
  BY ProvisionedAssumption DEF Init, Store!Init, Store!Contents, Store!State
<1>2. formatted \in BOOLEAN
  BY <1>1, Zenon
<1>3. Store!TypeOK
  BY <1>1, <1>2, ProvisionedAssumption
     DEF Store!TypeOK, Store!Phase, Store!Mutating, Store!ErasingPrimary,
        Store!WritingPrimary, Store!Contents
<1>4. InitContext \in Context
  BY DefaultTypes, StateTypes DEF InitContext, Context, Store!State, Reason, Slot
<1>5. ClientTypes /\ RunningInv
  BY <1>1, <1>4, NoSessionType DEF ClientTypes, RunningInv, CallLabel, Result
<1>6. WaitInv /\ CopyInv /\ ReturnInv
  BY <1>1 DEF WaitInv, CopyInv, ReturnInv, RestorePhase, StoreLabel, ReadLabel, WriteLabel
<1> QED
  BY <1>3, <1>5, <1>6, TypeParts DEF CallInv

\* The processor waits for one call of the store at a time, wherever flash fails or power
\* is cut, and what a call returns is true of the copies: OK after a write means that both
\* copies hold what was written, OK after a read that the primary copy is what was read.
THEOREM CallInvariant == Spec => []CallInv
BY CallInit, CallNext, PTL DEF Spec

\* Every variable has its type in every state of the device.  In particular no copy of the
\* boot state, whatever was cut short or repaired, counts more attempts than
\* LOXBOOT_MAX_BOOT_ATTEMPTS, and there is no write of a state that no read accepts.
THEOREM DeviceTypes == Spec => []TypeOK
<1>1. CallInv => TypeOK
  BY DEF CallInv
<1> QED
  BY CallInvariant, <1>1, PTL

\* A call of the API that returns OK (other than loxboot_verify_slot, which only reads,
\* and loxboot_format) has left in both copies the state that the context now holds.
THEOREM CallsDurable == Spec => CallsAreDurable
<1>1. CallInv /\ [Next]_vars => [DurableStep]_vars
  <2> SUFFICES ASSUME CallInv, [Next]_vars, call.name \notin {"none", "verify", "format"}, ret' = "OK"
               PROVE  primary' = ctx'.state /\ backup' = ctx'.state
    BY DEF DurableStep
  <2>1. pc \in CallLabel /\ ret = "none"
    BY DEF CallInv, RunningInv, NoCall
  <2>2. CASE CallStep
    <3>1. CASE Written
      <4>1. res = "OK" /\ ctx'.state = buf
        BY <2>1, <3>1 DEF Written, At, Finish, Return, Goto, CallInv, TypeOK, Context
      <4> QED
        BY <3>1, <4>1 DEF Written, At, Finish, Return, Goto, storeVars, CallInv, ReturnInv,
           WriteLabel
    <3>2. CASE Repair
      BY <2>1, <3>2 DEF Repair, At, Finish, Return, Goto
    <3>3. CASE ReadFailed
      BY <2>1, <3>3 DEF ReadFailed, At, Finish, Return
    <3>4. CASE Confirm \/ Commit \/ Invalidate \/ Request
      BY <2>1, <3>4 DEF Confirm, Commit, Invalidate, Request, WriteIf, Finish, Return
    <3>5. CASE Check
      BY <3>5 DEF Check, HasRead
    <3> QED
      BY <2>2, <3>1, <3>2, <3>3, <3>4, <3>5 DEF CallStep
  <2>3. CASE BootStep \/ SessionStep \/ HostStep \/ Timeout \/ AppStep
    BY <2>1, <2>3, BootAt, SessionAt, AppAt DEF BootLabel, SessionLabel, CallLabel
  <2>6. CASE StoreStep \/ FlashError \/ PowerCut \/ UNCHANGED vars
    BY <2>1, <2>6 DEF StoreStep, FlashError, PowerCut, vars, appVars
  <2> QED
    BY <2>2, <2>3, <2>6, StepKinds DEF Client
<1> QED
  BY CallInvariant, <1>1, PTL DEF Spec, CallsAreDurable
=============================================================================

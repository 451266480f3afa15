--------------------------- MODULE Esp32Updater_proofs ---------------------------
(***************************************************************************)
(* Proofs about the ESP32 application: its type invariant, that a UART     *)
(* session works on the slot that does not run (ActiveIsRunning), and that *)
(* what a session tells the host is true (AcknowledgedCommit,              *)
(* RefusalsHold).  The store, the calls and the sessions are those of the  *)
(* device, and so are the lemmas about their steps; the invariant says     *)
(* what loxboot_esp32_sync_state_from_ota achieves until the next reset.   *)
(***************************************************************************)
EXTENDS Esp32Updater, DeviceSession_proofs

\* The labels of the updater.
EspLabel ==
  CallLabel \cup SessionLabel \cup
    {"off", "start", "mainRead", "mainFormat", "syncRead", "syncWrite", "loop"}

\* The types of what belongs to ESP-IDF.
IdfTypes == ota \in [Slot -> OtaState] /\ chosen \in Slot /\ running \in Slot

\* The type invariant.
EspTypeOK ==
  /\ Store!TypeOK
  /\ image \in Image
  /\ pc \in EspLabel
  /\ ctx \in Context
  /\ trouble \in BOOLEAN
  /\ call \in AllCalls \cup {NoCall}
  /\ ret \in Result
  /\ sess \in Session
  /\ boots \in [Slot -> Nat]
  /\ refused \subseteq Slot
  /\ IdfTypes

\* The processor uses the store as that of the device does.
EspCallInv == EspTypeOK /\ WaitInv /\ CopyInv /\ ReturnInv /\ RunningInv

\* Only sessions call the API.
EspOwnerInv ==
  pc \in CallLabel =>
    sess.back # "app" /\ call.name \in {"invalidate", "verify", "commit"}

\* A boot state whose active slot is the one that runs.
Synchronised(st) == st \in Good /\ st.active = running

\* What holds from the synchronisation on, as long as no flash call fails: flash can be
\* read and names the slot that runs, and so does what a call of the API writes.
SyncInv ==
  ~trouble =>
    /\ pc = "syncRead" => primary \in Good
    /\ pc = "mainFormat" => buf \in Good
    /\ pc = "syncWrite" => Synchronised(buf)
    /\ pc \in SessionLabel \cup {"loop", "opRead"} => Synchronised(primary)
    /\ pc = "opWrite" => Synchronised(buf)
    /\ pc # "opHeader"
    /\ pc \in Serving \cup CallLabel => sess.target # running

\* The invariant behind ActiveIsRunning.
EspInv == EspCallInv /\ EspOwnerInv /\ SyncInv

-----------------------------------------------------------------------------
\* While a call or a session is under way, the updater is a device like the others.
LEMMA EspIsDevice == EspCallInv /\ pc \in CallLabel \cup SessionLabel => CallInv
BY DEF EspCallInv, EspTypeOK, CallInv, TypeOK

\* A step that leaves the store in order and what ESP-IDF holds in its types.
LEMMA EspParts ==
  ASSUME Store!TypeOK', WaitInv', CopyInv', ReturnInv', RunningInv', IdfTypes',
         pc' \in EspLabel, image' \in Image, ctx' \in Context, trouble' \in BOOLEAN,
         call' \in AllCalls \cup {NoCall}, ret' \in Result, sess' \in Session,
         boots' \in [Slot -> Nat], refused' \subseteq Slot
  PROVE  EspCallInv'
BY DEF EspCallInv, EspTypeOK

\* What loxboot_esp32_sync_state_from_ota makes of a boot state is one that can be read,
\* with the running slot as the active one.
LEMMA SyncTypes ==
  ASSUME IdfTypes, NEW st \in Good
  PROVE  Synchronised(SyncEdit(st))
<1>1. \A o \in OtaState : MapOtaState(o) \in SlotState
  BY DEF MapOtaState, OtaState, SlotState
<1>2. \A s \in Slot : /\ st.slots[s] \in RecordOf(SlotState)
                      /\ ota[s] \in OtaState
  BY DEF IdfTypes, Good, StateOf
<1>3. \A r \in RecordOf(SlotState), v \in SlotState : [r EXCEPT !.state = v] \in RecordOf(SlotState)
  BY DEF RecordOf
<1>4. MapStates(st) \in [Slot -> RecordOf(SlotState)]
  BY <1>1, <1>2, <1>3 DEF MapStates
<1>5. SyncEdit(st) \in Good /\ SyncEdit(st).active = running
  BY <1>4 DEF SyncEdit, Good, StateOf, IdfTypes
<1> QED
  BY <1>5 DEF Synchronised

\* A failure is not forgotten before the next start.
LEMMA TroubleLasts ==
  CallStep \/ SessionStep \/ HostStep \/ Timeout => (trouble => trouble')
<1> USE DEF history
<1>1. CASE CallStep
  BY <1>1 DEF CallStep, Confirm, Commit, Invalidate, Request, Check, ReadFailed, Repair, Written
<1>2. CASE SessionStep \/ HostStep \/ Timeout
  BY <1>2 DEF SessionStep, HostStep, Command, SessionStart, Timeout, ReceiveError, DropFrame, RefuseFrame,
     Inquire, Inquired, WriteFrame, EraseSlot, EraseFails, ProgramChunk, ProgramFails, CommitFrame,
     Committed, Verified, Refused, AbortFrame, Aborted, RebootFrame, Sent, SendError
<1> QED
  BY <1>1, <1>2

-----------------------------------------------------------------------------
\* The steps and the errors of the store.
LEMMA EspQuiet == EspInv /\ (StoreStep \/ FlashError) /\ UNCHANGED idf => EspInv'
<1> SUFFICES ASSUME EspInv, StoreStep \/ FlashError, UNCHANGED idf PROVE EspInv'
  OBVIOUS
<1>a. Store!TypeOK /\ WaitInv /\ CopyInv /\ ReturnInv
  BY DEF EspInv, EspCallInv, EspTypeOK
<1>b. /\ pc \in StoreLabel
      /\ pc \in WriteLabel => buf' = buf
      /\ pc \in ReadLabel /\ primary \in Good => primary' = primary /\ backup' = backup
      /\ UNCHANGED <<pc, ctx, image, call, ret, sess, boots, refused, ota, chosen, running>>
      /\ trouble => trouble'
  BY <1>a, StoreMoves DEF idf
<1>1. Store!TypeOK' /\ WaitInv' /\ CopyInv' /\ ReturnInv'
  BY <1>a, ErrorStore, StoreStepTypes, StoreStepReturns DEF StoreStep
<1>2. trouble' \in BOOLEAN
  BY ErrorStore, <1>a DEF StoreStep, history, EspInv, EspCallInv, EspTypeOK
<1>3. EspCallInv'
  BY <1>b, <1>1, <1>2 DEF EspInv, EspCallInv, EspTypeOK, IdfTypes, RunningInv
<1>4. EspOwnerInv'
  BY <1>b DEF EspInv, EspOwnerInv
<1>5. SyncInv'
  BY <1>b DEF EspInv, SyncInv, Synchronised, StoreLabel, ReadLabel, WriteLabel, SessionLabel
<1> QED
  BY <1>3, <1>4, <1>5 DEF EspInv

\* A power cut, and a reset that hands a slot to ESP-IDF.
LEMMA EspCut ==
  ASSUME EspInv, PowerCut, IdfTypes'
  PROVE  EspInv'
<1>1. /\ Store!TypeOK' /\ WaitInv' /\ CopyInv' /\ ReturnInv'
      /\ pc' = "off" /\ ctx' \in Context
      /\ call' = NoCall /\ ret' = "none" /\ sess' = NoSession
      /\ UNCHANGED <<image, trouble, boots, refused>>
  BY CutStore DEF EspInv, EspCallInv, EspTypeOK
<1>2. EspCallInv'
  BY <1>1, NoSessionType DEF EspInv, EspCallInv, EspTypeOK, EspLabel, RunningInv, CallLabel, Result
<1>3. EspOwnerInv' /\ SyncInv'
  BY <1>1 DEF EspOwnerInv, SyncInv, CallLabel, SessionLabel, Serving
<1> QED
  BY <1>2, <1>3 DEF EspInv

-----------------------------------------------------------------------------
\* A call of the API: what it writes has the active slot that it read.
LEMMA EspCalls == EspInv /\ CallStep /\ UNCHANGED idf => EspInv'
<1> SUFFICES ASSUME EspInv, CallStep, UNCHANGED idf PROVE EspInv'
  OBVIOUS
<1>a. /\ phase = "idle" /\ pc \in CallLabel /\ image' = image /\ sess' = sess
      /\ ota' = ota /\ chosen' = chosen /\ running' = running
  BY CallAt DEF idf
<1>b. CallInv /\ IdfTypes
  BY <1>a, EspIsDevice DEF EspInv, EspCallInv, EspTypeOK
<1>c. ClientStep /\ ClientTypes' /\ RunningInv' /\ pc' \in CallLabel \cup {sess.back}
  BY <1>b, CallClient
<1>d. /\ sess.back \in Serving /\ sess.back \notin CallLabel
      /\ call.name \in {"invalidate", "verify", "commit"}
      /\ call \in AllCalls /\ call.slot \in Slot /\ call.fw \in Firmware \cup {NoFirmware}
  <2>1. sess \in Session /\ call \in AllCalls
    BY <1>a, <1>b DEF CallInv, TypeOK, RunningInv
  <2> QED
    BY <1>a, <2>1, BackLabel, CallParts DEF EspInv, EspOwnerInv, Serving
<1>e. primary' = primary /\ (trouble => trouble')
  BY <1>c, TroubleLasts DEF ClientStep
<1>1. EspCallInv'
  <2>1. Store!TypeOK' /\ CopyInv' /\ WaitInv' /\ ReturnInv'
    BY <1>b, <1>c, ClientStore DEF CallInv, TypeOK
  <2>2. pc' \in EspLabel /\ IdfTypes'
    BY <1>a, <1>b, <1>c, <1>d DEF EspLabel, Serving, IdfTypes
  <2> QED
    BY <1>c, <2>1, <2>2, EspParts DEF ClientTypes
<1> DEFINE Goal == /\ pc' \in CallLabel => call' = call
                   /\ ~trouble' =>
                        \/ pc' = "opWrite" /\ Synchronised(buf')
                        \/ pc' = sess.back /\ Synchronised(primary)
<1>2. Goal => EspOwnerInv' /\ SyncInv'
  <2> SUFFICES ASSUME Goal PROVE EspOwnerInv' /\ SyncInv'
    OBVIOUS
  <2>1. EspOwnerInv'
    BY <1>a, <1>c, <1>d DEF EspInv, EspOwnerInv, Serving
  <2>2. ~trouble => sess.target # running
    BY <1>a DEF EspInv, SyncInv
  <2>3. SyncInv'
    BY <1>a, <1>d, <1>e, <2>2 DEF SyncInv, Synchronised, Serving, SessionLabel, CallLabel
  <2> QED
    BY <2>1, <2>3
<1>f. \A r : Finish(r) => pc' = sess.back /\ pc' \notin CallLabel
  BY <1>d DEF Finish, Return, Goto
<1>g. /\ ~trouble /\ pc = "opRead" => Synchronised(primary)
      /\ ~trouble /\ pc = "opWrite" => Synchronised(buf)
      /\ ~trouble => pc # "opHeader"
      /\ pc = "opRead" /\ res = "OK" => buf \in Good /\ primary = buf
      /\ pc = "opRead" => res \in {"OK", "FLASH", "CORRUPT"}
      /\ pc = "opRead" /\ res = "CORRUPT" => primary \notin Good
      /\ pc = "opRead" /\ res = "FLASH" => trouble
      /\ pc = "opWrite" => res \in {"OK", "FLASH"}
      /\ pc = "opWrite" /\ res = "OK" => primary = buf
      /\ pc = "opWrite" /\ res = "FLASH" => trouble
  BY <1>a, <1>b DEF EspInv, SyncInv, CallInv, ReturnInv, ReadLabel, WriteLabel
<1>h. ASSUME pc = "opRead", res = "OK"
      PROVE  /\ CommitEdit(buf, call.slot, call.fw) \in Good
             /\ CommitEdit(buf, call.slot, call.fw).active = buf.active
             /\ InvalidateEdit(buf, call.slot) \in Good
             /\ InvalidateEdit(buf, call.slot).active = buf.active
  <2>1. buf \in Good /\ buf \in Store!State
    BY <1>g, <1>h, StateTypes
  <2>2. call.slot \in Slot /\ call.fw \in Firmware \cup {NoFirmware}
    BY <1>d
  <2>3. CommitEdit(buf, call.slot, call.fw) \in Good /\ InvalidateEdit(buf, call.slot) \in Good
    BY <2>1, <2>2, EditStates
  <2>4. CommitEdit(buf, call.slot, call.fw).active = buf.active
    BY <2>1, <2>2, CommitFields
  <2>5. InvalidateEdit(buf, call.slot).active = buf.active
    BY <2>1, <2>2, InvalidateFields
  <2> QED
    BY <2>3, <2>4, <2>5
<1> SUFFICES Goal
  BY <1>1, <1>2 DEF EspInv
<1> USE DEF HasRead, At
<1>3. CASE Confirm \/ Request
  BY <1>3, <1>d DEF Confirm, Request
<1>4. CASE Commit
  <2>1. trouble' = trouble /\ pc = "opRead" /\ res = "OK"
    BY <1>4 DEF Commit
  <2>2. \/ /\ buf' = CommitEdit(buf, call.slot, call.fw)
           /\ pc' = "opWrite" /\ call' = call
        \/ Finish("INVALID_STATE")
    BY <1>4 DEF Commit, WriteIf, Write, Store!BeginWrite
  <2> QED
    BY <1>f, <1>g, <1>h, <2>1, <2>2 DEF Synchronised
<1>5. CASE Invalidate
  <2>1. trouble' = trouble /\ pc = "opRead" /\ res = "OK"
    BY <1>5 DEF Invalidate
  <2>2. /\ buf' = InvalidateEdit(buf, call.slot)
        /\ pc' = "opWrite" /\ call' = call
    BY <1>5 DEF Invalidate, WriteIf, Write, Store!BeginWrite
  <2> QED
    BY <1>g, <1>h, <2>1, <2>2 DEF Synchronised
<1>6. CASE Check
  <2>1. pc = "opRead" /\ \E r : Finish(r)
    BY <1>6 DEF Check
  <2> QED
    BY <1>e, <1>f, <1>g, <2>1
<1>7. CASE ReadFailed
  <2>1. pc = "opRead" /\ res # "OK"
    BY <1>7 DEF ReadFailed
  <2>2. trouble
    BY <1>g, <2>1 DEF Synchronised
  <2>3. call' = call \/ \E r : Finish(r)
    BY <1>7 DEF ReadFailed
  <2> QED
    BY <1>e, <1>f, <2>2, <2>3
<1>8. CASE Repair
  <2>1. pc = "opHeader" /\ (call' = call \/ \E r : Finish(r))
    BY <1>8 DEF Repair
  <2> QED
    BY <1>e, <1>f, <1>g, <2>1
<1>9. CASE Written
  <2>1. pc = "opWrite" /\ Finish(res)
    BY <1>9 DEF Written
  <2> QED
    BY <1>e, <1>f, <1>g, <2>1
<1> QED
  BY <1>3, <1>4, <1>5, <1>6, <1>7, <1>8, <1>9 DEF CallStep

-----------------------------------------------------------------------------
\* A session chooses its target from the boot state that names the running slot.
LEMMA EspSessions ==
  EspInv /\ (SessionStep \/ HostStep \/ Timeout) /\ UNCHANGED idf => EspInv'
<1> SUFFICES ASSUME EspInv, SessionStep \/ HostStep \/ Timeout, UNCHANGED idf PROVE EspInv'
  OBVIOUS
<1>a. /\ phase = "idle" /\ pc \in SessionLabel
      /\ ota' = ota /\ chosen' = chosen /\ running' = running
  BY SessionAt DEF idf
<1>b. CallInv /\ IdfTypes
  BY <1>a, EspIsDevice DEF EspInv, EspCallInv, EspTypeOK
<1>c. ClientStep /\ ClientTypes' /\ RunningInv' /\ pc' \in SessionLabel \cup {"opRead"}
  BY <1>b, SessionClient
<1>d. /\ pc = "uartRead" =>
           /\ pc' \in {"listen", "uartEnd"}
           /\ pc' = "listen" => res = "OK" /\ sess'.target = Other(buf.active)
      /\ pc # "uartRead" => pc \in Serving /\ sess'.target = sess.target
      /\ pc' = "opRead" =>
           sess'.back # "app" /\ call'.name \in {"invalidate", "verify", "commit"}
  BY <1>b, SessionMoves
<1>e. primary' = primary /\ (trouble => trouble')
  BY <1>c, TroubleLasts DEF ClientStep
<1>1. EspCallInv'
  <2>1. Store!TypeOK' /\ CopyInv' /\ WaitInv' /\ ReturnInv'
    BY <1>b, <1>c, ClientStore DEF CallInv, TypeOK
  <2>2. pc' \in EspLabel /\ IdfTypes'
    BY <1>a, <1>b, <1>c DEF EspLabel, CallLabel, IdfTypes
  <2> QED
    BY <1>c, <2>1, <2>2, EspParts DEF ClientTypes
<1>2. EspOwnerInv'
  BY <1>c, <1>d DEF EspOwnerInv, SessionLabel, CallLabel
<1>3. ASSUME ~trouble'
      PROVE  Synchronised(primary)' /\ (pc' \in Serving \cup CallLabel => (sess.target # running)')
  <2>1. Synchronised(primary)
    BY <1>a, <1>e, <1>3 DEF EspInv, SyncInv
  <2>2. CASE pc = "uartRead"
    <3>1. pc' = "listen" => buf.active = running
      BY <1>a, <1>b, <1>d, <2>1, <2>2 DEF Synchronised, CallInv, ReturnInv, ReadLabel
    <3> QED
      BY <1>a, <1>b, <1>d, <1>e, <2>1, <2>2, <3>1, Slots
         DEF Synchronised, IdfTypes, Serving, CallLabel
  <2>3. CASE pc # "uartRead"
    BY <1>a, <1>d, <1>e, <1>3, <2>1, <2>3 DEF EspInv, SyncInv, Synchronised
  <2> QED
    BY <2>2, <2>3
<1>4. SyncInv'
  BY <1>c, <1>3 DEF SyncInv, SessionLabel
<1> QED
  BY <1>1, <1>2, <1>4 DEF EspInv

-----------------------------------------------------------------------------
\* The boot loader of ESP-IDF keeps its data in order.
LEMMA IdfKeeps ==
  ASSUME IdfTypes
  PROVE  /\ IdfBoot => IdfTypes'
         /\ \A s \in Slot : SetBootPartition(s) => IdfTypes'
<1>1. {"NEW", "VALID", "PENDING_VERIFY", "ABORTED"} \subseteq OtaState
  BY DEF OtaState
<1>2. ASSUME IdfBoot PROVE IdfTypes'
  <2>1. Tried \in [Slot -> OtaState]
    BY <1>1 DEF Tried, IdfTypes
  <2>2. IdfChoice \subseteq Slot
    BY Slots DEF IdfChoice, IdfTypes
  <2> QED
    BY <1>1, <1>2, <2>1, <2>2 DEF IdfBoot, IdfTypes
<1>3. ASSUME NEW s \in Slot, SetBootPartition(s) PROVE IdfTypes'
  BY <1>1, <1>3 DEF SetBootPartition, IdfTypes
<1> QED
  BY <1>2, <1>3

\* The steps of app_main: the boot state is made readable, then synchronised.
LEMMA EspMain == EspInv /\ EspStep => EspInv'
<1> SUFFICES ASSUME EspInv, EspStep PROVE EspInv'
  OBVIOUS
<1>a. /\ Store!TypeOK /\ IdfTypes /\ image \in Image /\ ctx \in Context /\ trouble \in BOOLEAN
      /\ call \in AllCalls \cup {NoCall} /\ ret \in Result
      /\ sess \in Session /\ sess.target \in Slot
      /\ boots \in [Slot -> Nat] /\ refused \subseteq Slot
      /\ WaitInv /\ CopyInv /\ ReturnInv /\ RunningInv /\ EspOwnerInv /\ SyncInv
  BY SessionParts DEF EspInv, EspCallInv, EspTypeOK
<1>b. \A st \in Store!State : [ctx EXCEPT !.state = st] \in Context
  BY <1>a DEF Context, Store!State
<1>c. InitContext \in Context
  BY DefaultTypes, StateTypes DEF InitContext, Context, Store!State, Reason, Slot
<1> DEFINE EspMove ==
             /\ ClientStep /\ IdfTypes' /\ ctx' \in Context /\ trouble' \in BOOLEAN
             /\ image' = image /\ boots' = boots /\ refused' = refused
             /\ call' = call /\ ret' \in Result /\ sess' \in Session
             /\ pc \notin CallLabel
             /\ pc' \in {"start", "mainRead", "mainFormat", "syncRead", "syncWrite", "loop", "uartRead"}
<1>d. ASSUME EspMove PROVE EspCallInv' /\ EspOwnerInv'
  <2>1. Store!TypeOK' /\ CopyInv' /\ WaitInv' /\ ReturnInv'
    BY <1>a, <1>d, ClientStore
  <2>2. pc' \in EspLabel /\ pc' \notin CallLabel
    BY <1>d DEF EspLabel, CallLabel, SessionLabel
  <2>3. RunningInv'
    BY <1>a, <1>d, <2>2 DEF RunningInv
  <2> QED
    BY <1>a, <1>d, <2>1, <2>2, <2>3, EspParts DEF EspOwnerInv
<1> USE DEF At, appVars, history, idf
<1>1. CASE IdfBoot
  <2>1. /\ pc' = "start" /\ ClientStep /\ pc \notin CallLabel
    BY <1>1, Uses DEF IdfBoot, Goto, StoreLabel, ReadLabel, WriteLabel, CallLabel
  <2>2. EspMove
    BY <1>1, <1>a, <2>1, IdfKeeps DEF IdfBoot
  <2>3. SyncInv'
    BY <2>1 DEF SyncInv, SessionLabel, Serving, CallLabel
  <2> QED
    BY <1>d, <2>2, <2>3 DEF EspInv
<1>2. CASE Start
  <2>1. /\ pc' = "mainRead" /\ ClientStep /\ pc \notin CallLabel
    BY <1>2, Uses DEF Start, Read, ReadLabel, CallLabel
  <2>2. IdfTypes'
    BY <1>2, <1>a DEF Start, IdfTypes, OtaState
  <2>3. EspMove
    BY <1>2, <1>a, <1>c, <2>1, <2>2 DEF Start
  <2>4. SyncInv'
    BY <2>1 DEF SyncInv, SessionLabel, Serving, CallLabel
  <2> QED
    BY <1>d, <2>3, <2>4 DEF EspInv
<1>e. ASSUME UNCHANGED idf PROVE IdfTypes'
  BY <1>a, <1>e DEF IdfTypes
<1>3. CASE AfterMainRead
  <2>1. pc = "mainRead" /\ phase = "idle" /\ trouble' = trouble
    BY <1>3 DEF AfterMainRead
  <2>2. CASE res = "OK"
    <3>1. pc' = "syncRead" /\ primary' = primary /\ ClientStep
      BY <1>3, <2>1, <2>2, Uses DEF AfterMainRead, Read, Store!BeginRead, ReadLabel
    <3>2. primary \in Good
      BY <1>a, <2>1, <2>2 DEF ReturnInv, ReadLabel
    <3>3. EspMove
      BY <1>3, <1>a, <1>e, <2>1, <3>1 DEF AfterMainRead, CallLabel
    <3>4. SyncInv'
      BY <3>1, <3>2 DEF SyncInv, SessionLabel, Serving, CallLabel
    <3> QED
      BY <1>d, <3>3, <3>4 DEF EspInv
  <2>3. CASE res # "OK"
    <3>1. DefaultState("A") \in Good /\ DefaultState("A") \in Store!State
      BY DefaultTypes, StateTypes DEF Slot
    <3>2. pc' = "mainFormat" /\ buf' = DefaultState("A") /\ ClientStep
      BY <1>3, <2>1, <2>3, <3>1, Uses DEF AfterMainRead, Write, Store!BeginWrite, WriteLabel
    <3>3. EspMove
      BY <1>3, <1>a, <1>e, <2>1, <3>2 DEF AfterMainRead, CallLabel
    <3>4. SyncInv'
      BY <3>1, <3>2 DEF SyncInv, SessionLabel, Serving, CallLabel
    <3> QED
      BY <1>d, <3>3, <3>4 DEF EspInv
  <2> QED
    BY <2>2, <2>3
<1>4. CASE AfterMainFormat
  <2>1. /\ pc = "mainFormat" /\ phase = "idle" /\ trouble' = trouble
        /\ pc' = "syncRead" /\ primary' = primary /\ ClientStep
    BY <1>4, Uses DEF AfterMainFormat, Read, Store!BeginRead, ReadLabel
  <2>2. ~trouble => primary \in Good
    BY <1>a, <2>1 DEF ReturnInv, WriteLabel, SyncInv
  <2>3. EspMove
    BY <1>4, <1>a, <1>e, <2>1 DEF AfterMainFormat, CallLabel
  <2>4. SyncInv'
    BY <2>1, <2>2 DEF SyncInv, SessionLabel, Serving, CallLabel
  <2> QED
    BY <1>d, <2>3, <2>4 DEF EspInv
<1>5. CASE AfterSyncRead
  <2>1. /\ pc = "syncRead" /\ phase = "idle" /\ trouble' = trouble /\ pc \notin CallLabel
        /\ running' = running /\ UNCHANGED idf
    BY <1>5 DEF AfterSyncRead, CallLabel
  <2>2. /\ res \in {"OK", "FLASH", "CORRUPT"}
        /\ res = "OK" => buf \in Good /\ buf \in Store!State /\ primary = buf
        /\ res # "OK" => trouble
    BY <1>a, <2>1, StateTypes DEF ReturnInv, ReadLabel, SyncInv
  <2>3. CASE res = "OK" /\ SyncEdit(buf) = buf
    <3>1. pc' = "loop" /\ ctx' = [ctx EXCEPT !.state = buf] /\ primary' = primary /\ ClientStep
      BY <1>5, <2>1, <2>3, Uses
         DEF AfterSyncRead, SetState, Goto, storeVars, StoreLabel, ReadLabel, WriteLabel
    <3>2. Synchronised(primary)
      BY <1>a, <2>2, <2>3, SyncTypes
    <3>3. EspMove
      BY <1>5, <1>a, <1>b, <1>e, <2>1, <2>2, <2>3, <3>1 DEF AfterSyncRead
    <3>4. SyncInv'
      BY <2>1, <3>1, <3>2 DEF SyncInv, Synchronised, SessionLabel, Serving, CallLabel
    <3> QED
      BY <1>d, <3>3, <3>4 DEF EspInv
  <2>4. CASE res = "OK" /\ SyncEdit(buf) # buf
    <3>1. Synchronised(SyncEdit(buf)) /\ SyncEdit(buf) \in Store!State
      BY <1>a, <2>2, <2>4, SyncTypes, StateTypes DEF Synchronised
    <3>2. pc' = "syncWrite" /\ buf' = SyncEdit(buf) /\ ctx' = ctx /\ ClientStep
      BY <1>5, <2>1, <2>4, <3>1, Uses DEF AfterSyncRead, Write, Store!BeginWrite, WriteLabel
    <3>3. EspMove
      BY <1>5, <1>a, <1>e, <2>1, <3>2 DEF AfterSyncRead
    <3>4. SyncInv'
      BY <2>1, <3>1, <3>2 DEF SyncInv, Synchronised, SessionLabel, Serving, CallLabel
    <3> QED
      BY <1>d, <3>3, <3>4 DEF EspInv
  <2>5. CASE res # "OK"
    <3>1. pc' = "loop" /\ ctx' = ctx /\ ClientStep
      BY <1>5, <2>1, <2>5, Uses DEF AfterSyncRead, Goto, StoreLabel, ReadLabel, WriteLabel
    <3>2. EspMove
      BY <1>5, <1>a, <1>e, <2>1, <3>1 DEF AfterSyncRead
    <3>3. SyncInv'
      BY <2>1, <2>2, <2>5 DEF SyncInv
    <3> QED
      BY <1>d, <3>2, <3>3 DEF EspInv
  <2> QED
    BY <2>3, <2>4, <2>5
<1>6. CASE AfterSyncWrite
  <2>1. /\ pc = "syncWrite" /\ phase = "idle" /\ trouble' = trouble /\ pc \notin CallLabel
        /\ pc' = "loop" /\ primary' = primary /\ ClientStep /\ running' = running
    BY <1>6, Uses DEF AfterSyncWrite, Goto, storeVars, StoreLabel, ReadLabel, WriteLabel, CallLabel
  <2>2. ~trouble => Synchronised(primary)
    BY <1>a, <2>1 DEF ReturnInv, WriteLabel, SyncInv
  <2>3. ctx' \in Context
    BY <1>6, <1>a, <1>b, <2>1 DEF AfterSyncWrite, SetState, CopyInv, WriteLabel
  <2>4. EspMove
    BY <1>6, <1>a, <1>e, <2>1, <2>3 DEF AfterSyncWrite
  <2>5. SyncInv'
    BY <2>1, <2>2 DEF SyncInv, Synchronised, SessionLabel, Serving, CallLabel
  <2> QED
    BY <1>d, <2>4, <2>5 DEF EspInv
<1>7. CASE NextSession
  <2>1. /\ pc = "loop" /\ trouble' = trouble /\ pc \notin CallLabel
        /\ pc' = "uartRead" /\ primary' = primary /\ ClientStep /\ running' = running
    BY <1>7, Uses DEF NextSession, Read, Store!BeginRead, ReadLabel, CallLabel
  <2>2. EspMove
    BY <1>7, <1>a, <1>e, <2>1 DEF NextSession
  <2>3. SyncInv'
    BY <1>a, <2>1 DEF SyncInv, Synchronised, SessionLabel, Serving, CallLabel
  <2> QED
    BY <1>d, <2>2, <2>3 DEF EspInv
<1>8. CASE HandOffToIdf
  BY <1>8, <1>a, IdfKeeps, EspCut DEF HandOffToIdf
<1>9. CASE NoHandOff
  <2>1. CASE sess.reboot
    BY <1>9, <1>e, <2>1, EspCut DEF NoHandOff
  <2>2. CASE ~sess.reboot
    <3>1. /\ pc = "uartEnd" /\ trouble' = trouble /\ pc \notin CallLabel
          /\ pc' = "loop" /\ primary' = primary /\ ClientStep /\ running' = running
      BY <1>9, <2>2, Uses
         DEF NoHandOff, Goto, storeVars, StoreLabel, ReadLabel, WriteLabel, CallLabel
    <3>2. EspMove
      BY <1>9, <1>a, <1>e, <2>2, <3>1, NoSessionType DEF NoHandOff, Result
    <3>3. SyncInv'
      BY <1>a, <3>1 DEF SyncInv, Synchronised, SessionLabel, Serving, CallLabel
    <3> QED
      BY <1>d, <3>2, <3>3 DEF EspInv
  <2> QED
    BY <2>1, <2>2
<1> QED
  BY <1>1, <1>2, <1>3, <1>4, <1>5, <1>6, <1>7, <1>8, <1>9 DEF EspStep

-----------------------------------------------------------------------------
\* A device as flashed by ESP-IDF satisfies the invariant.
LEMMA EspStarts == EspInit => EspInv
<1> SUFFICES ASSUME EspInit PROVE EspInv
  OBVIOUS
<1>1. CallInv /\ pc = "off"
  BY CallInit DEF EspInit, Init
<1>2. IdfTypes
  BY EspAssumption DEF EspInit, IdfTypes, Slot
<1>3. EspCallInv
  BY <1>1, <1>2 DEF CallInv, TypeOK, EspCallInv, EspTypeOK, EspLabel
<1>4. EspOwnerInv /\ SyncInv
  BY <1>1 DEF EspOwnerInv, SyncInv, CallLabel, SessionLabel, Serving
<1> QED
  BY <1>3, <1>4 DEF EspInv

\* Every step keeps it.
LEMMA EspKeeps == EspInv /\ [EspNext]_espVars => EspInv'
<1> SUFFICES ASSUME EspInv, [EspNext]_espVars PROVE EspInv'
  OBVIOUS
<1>1. CASE UNCHANGED espVars
  BY <1>1 DEF espVars, vars, storeVars, appVars, history, idf, EspInv, EspCallInv, EspTypeOK, IdfTypes,
     Store!TypeOK, WaitInv, CopyInv, ReturnInv, RunningInv, EspOwnerInv, SyncInv, Synchronised
<1>2. CASE Shared /\ UNCHANGED idf
  <2>1. CASE PowerCut
    <3>1. IdfTypes'
      BY <1>2 DEF idf, IdfTypes, EspInv, EspCallInv, EspTypeOK
    <3> QED
      BY <2>1, <3>1, EspCut
  <2>2. CASE SessionStep \/ Timeout \/ (\E f \in Frames : Command(f)) \/ DropFrame \/ SendError
    BY <1>2, <2>2, EspSessions DEF HostStep
  <2> QED
    BY <1>2, <2>1, <2>2, EspQuiet, EspCalls DEF Shared
<1> QED
  BY <1>1, <1>2, EspMain DEF EspNext

\* The boot state that the sessions of the ESP32 application read names the running slot,
\* and every variable has its type, whatever ESP-IDF booted and wherever power fails.
THEOREM EspInvariant == EspSpec => []EspInv
BY EspStarts, EspKeeps, PTL DEF EspSpec

\* The slot that a session erases, writes and invalidates is never the one that runs, as
\* long as no flash call has failed since the start: after a failed synchronisation
\* app_main goes on with the boot state it found.
THEOREM RunningSlotSpared == EspSpec => [](~trouble => ActiveIsRunning)
<1>1. EspInv => (~trouble => ActiveIsRunning)
  BY DEF EspInv, SyncInv, ActiveIsRunning, InSession, Serving
<1> QED
  BY EspInvariant, <1>1, PTL

\* No step of the ESP32 application records a failure by itself.
LEMMA EspCalm == Calm /\ [EspNext]_espVars => Calm'
<1> SUFFICES ASSUME trouble = FALSE, ~FlashMayFail, [EspNext]_espVars PROVE trouble' = FALSE
  BY DEF Calm
<1>1. CASE EspStep
  BY <1>1 DEF EspStep, IdfBoot, Start, AfterMainRead, AfterMainFormat, AfterSyncRead, AfterSyncWrite,
     NextSession, HandOffToIdf, NoHandOff, PowerCut, history
<1>2. CASE Shared
  <2>1. CASE FlashError
    BY <2>1 DEF FlashError
  <2>2. [Next]_vars \/ FlashError
    BY <1>2 DEF Shared, Next, Work, HostStep
  <2> QED
    BY <2>1, <2>2, CalmKeeps DEF Calm
<1>3. CASE UNCHANGED espVars
  BY <1>3 DEF espVars, vars, history
<1> QED
  BY <1>1, <1>2, <1>3 DEF EspNext

\* On a device whose flash does not fail it never is, whatever the OTA data says, however
\* often ESP-IDF falls back to the other slot, and however often power is cut.
THEOREM RunningSlotSafe == ~FlashMayFail => (EspSpec => []ActiveIsRunning)
<1>1. EspInit => Calm
  BY DEF EspInit, Init, Calm
<1>2. EspSpec => []Calm
  BY <1>1, EspCalm, PTL DEF EspSpec
<1>3. ~FlashMayFail /\ Calm => ~trouble
  BY DEF Calm
<1> SUFFICES ASSUME ~FlashMayFail PROVE EspSpec => []ActiveIsRunning
  OBVIOUS
<1> QED
  BY <1>2, <1>3, RunningSlotSpared, PTL

-----------------------------------------------------------------------------
(* What the host is told.                                                  *)

\* The invariant of a session holds for those of the ESP32 application: between two
\* sessions none is under way, and app_main writes states that every read accepts.
EspServeInv == ServeInv /\ SoundInv /\ WriteRefused

\* The steps of app_main and of ESP-IDF keep it.
LEMMA EspMainServes == EspInv /\ EspServeInv /\ EspStep => EspServeInv'
<1> SUFFICES ASSUME EspInv, EspServeInv, EspStep PROVE EspServeInv'
  OBVIOUS
<1> DEFINE Idle == /\ sess' = NoSession
                   /\ pc' \in {"off", "start", "mainRead", "mainFormat", "syncRead", "syncWrite",
                              "loop", "uartRead"}
                   /\ {primary', backup', buf'} \subseteq {primary, backup, buf, Corrupt} \cup Good
<1>1. Idle => EspServeInv'
  <2> SUFFICES ASSUME Idle PROVE EspServeInv'
    OBVIOUS
  <2>1. ServeInv'
    BY NoServe DEF SessionLabel
  <2>2. SoundInv'
    BY NotHeaderOnly DEF EspServeInv, SoundInv
  <2>3. WriteRefused'
    BY DEF WriteRefused
  <2> QED
    BY <2>1, <2>2, <2>3 DEF EspServeInv
<1>2. pc \in EspLabel \ (SessionLabel \cup CallLabel) => sess = NoSession
  BY DEF EspServeInv, ServeInv, OwnerInv
<1>3. PowerCut => Idle
  <2>1. PowerCut => /\ {primary', backup', buf'} \subseteq {primary, backup, buf, Corrupt}
                    /\ sess' = NoSession /\ pc' = "off"
    BY CutShortCases DEF EspInv, EspCallInv, EspTypeOK, PowerCut, Store!PowerCut
  <2> QED
    BY <2>1
<1> USE DEF At, appVars, EspLabel, SessionLabel, CallLabel
<1>4. CASE IdfBoot
  BY <1>1, <1>2, <1>4 DEF IdfBoot, Goto, storeVars
<1>5. CASE Start
  BY <1>1, <1>2, <1>5 DEF Start, Read, Store!BeginRead
<1>6. CASE AfterMainRead
  <2>1. DefaultState("A") \in Good
    BY DefaultTypes DEF Slot
  <2>2. CASE res = "OK"
    BY <1>1, <1>2, <1>6, <2>2 DEF AfterMainRead, Read, Store!BeginRead
  <2>3. CASE res # "OK"
    BY <1>1, <1>2, <1>6, <2>1, <2>3 DEF AfterMainRead, Write, Store!BeginWrite
  <2> QED
    BY <2>2, <2>3
<1>7. CASE AfterMainFormat \/ NextSession
  BY <1>1, <1>2, <1>7 DEF AfterMainFormat, NextSession, Read, Store!BeginRead
<1>8. CASE AfterSyncRead
  <2>1. pc = "syncRead" /\ phase = "idle" /\ sess' = sess
    BY <1>8 DEF AfterSyncRead
  <2>2. res = "OK" => SyncEdit(buf) \in Good
    <3>1. res = "OK" => buf \in Good
      BY <2>1 DEF EspInv, EspCallInv, ReturnInv, ReadLabel
    <3> QED
      BY <3>1, SyncTypes DEF Synchronised, EspInv, EspCallInv, EspTypeOK
  <2>3. CASE Write(SyncEdit(buf), "syncWrite") /\ res = "OK"
    BY <1>1, <1>2, <2>1, <2>2, <2>3 DEF Write, Store!BeginWrite
  <2>4. CASE Goto("loop")
    BY <1>1, <1>2, <2>1, <2>4 DEF Goto, storeVars
  <2> QED
    BY <1>8, <2>3, <2>4 DEF AfterSyncRead
<1>9. CASE AfterSyncWrite
  BY <1>1, <1>2, <1>9 DEF AfterSyncWrite, Goto, storeVars
<1>10. CASE HandOffToIdf
  BY <1>1, <1>3, <1>10 DEF HandOffToIdf
<1>11. CASE NoHandOff
  <2>1. CASE sess.reboot
    BY <1>1, <1>3, <1>11, <2>1 DEF NoHandOff
  <2>2. CASE ~sess.reboot
    BY <1>1, <1>11, <2>2 DEF NoHandOff, Goto, storeVars
  <2> QED
    BY <2>1, <2>2
<1> QED
  BY <1>4, <1>5, <1>6, <1>7, <1>8, <1>9, <1>10, <1>11 DEF EspStep

\* Every step keeps it.
LEMMA EspServes == EspInv /\ EspServeInv /\ [EspNext]_espVars => EspServeInv'
<1> SUFFICES ASSUME EspInv, EspServeInv, [EspNext]_espVars PROVE EspServeInv'
  OBVIOUS
<1>a. Store!TypeOK /\ WaitInv /\ CopyInv /\ ServeInv /\ SoundInv /\ WriteRefused
  BY DEF EspInv, EspCallInv, EspTypeOK, EspServeInv
<1>1. CASE UNCHANGED espVars
  BY <1>1 DEF espVars, vars, storeVars, appVars, history, EspServeInv, WriteRefused, ServeInv,
     OwnerInv, AskInv, LabelInv, TargetInv, Asking, CommitInv, OnRecord, PendingRecord,
     AcknowledgedCommit, CalledOffInv, RefusalsHold, CalledOff, SoundInv
<1>2. CASE StoreStep \/ FlashError
  BY <1>2, <1>a, QuietWork DEF EspServeInv
<1>3. CASE CallStep
  <2>1. CallInv
    BY <1>3, CallAt, EspIsDevice DEF EspInv
  <2> QED
    BY <1>3, <1>a, <2>1, CallWork DEF EspServeInv
<1>4. CASE SessionStep \/ HostStep \/ Timeout
  <2>1. CallInv
    BY <1>4, SessionAt, EspIsDevice DEF EspInv
  <2> QED
    BY <1>4, <1>a, <2>1, SessionWork DEF EspServeInv
<1>5. CASE PowerCut
  <2>1. /\ {primary', backup', buf'} \subseteq {primary, backup, buf, Corrupt}
        /\ pc' = "off" /\ sess' = NoSession
    BY <1>5, <1>a, CutShortCases DEF PowerCut, Store!PowerCut
  <2>2. ServeInv'
    BY <2>1, NoServe DEF SessionLabel
  <2>3. SoundInv' /\ WriteRefused'
    BY <1>a, <2>1, NotHeaderOnly DEF SoundInv, WriteRefused
  <2> QED
    BY <2>2, <2>3 DEF EspServeInv
<1>6. CASE EspStep
  BY <1>6, EspMainServes
<1> QED
  BY <1>1, <1>2, <1>3, <1>4, <1>5, <1>6 DEF EspNext, Shared, HostStep

\* A session of the ESP32 application knows at every point what flash holds for its target.
THEOREM EspServing == EspSpec => []EspServeInv
<1>1. EspInit => EspServeInv
  <2> SUFFICES ASSUME EspInit PROVE EspServeInv
    OBVIOUS
  <2>1. SessionInv /\ pc = "off"
    BY SessionInit DEF EspInit, Init
  <2> QED
    BY <2>1 DEF SessionInv, EspServeInv, WriteRefused
<1> QED
  BY <1>1, EspServes, EspInvariant, PTL DEF EspSpec

\* RSP_OK to COMMIT is true on the ESP32 as well, whatever the synchronisation with the OTA
\* data has written before the session: both copies have the whole image PENDING.
THEOREM EspCommitsTrue == EspSpec => []AcknowledgedCommit
<1>1. EspServeInv => AcknowledgedCommit
  BY DEF EspServeInv, ServeInv, CommitInv
<1> QED
  BY EspServing, <1>1, PTL

\* So is the refusal of a COMMIT and the end of a session, on a device without a boot state
\* that only the header check accepts.
THEOREM EspRefusalsTrue == Sound /\ EspSpec => []RefusalsHold
<1>1. Sound /\ EspServeInv => RefusalsHold
  BY DEF EspServeInv, ServeInv, CalledOffInv
<1> SUFFICES ASSUME Sound PROVE EspSpec => []RefusalsHold
  OBVIOUS
<1> QED
  BY EspServing, <1>1, PTL
=============================================================================

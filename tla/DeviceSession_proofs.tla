--------------------------- MODULE DeviceSession_proofs --------------------------
(***************************************************************************)
(* Proofs about the update session: AcknowledgedCommit, RefusalsHold,      *)
(* SessionSparesActive and UpdateNeverStrands.  The invariant says for     *)
(* every point of a session what flash holds for the slot it works on, and *)
(* which call of the API was made on behalf of which frame.  For the last  *)
(* property a second one follows the home slot, from which the application *)
(* runs: every copy of the boot state boots from it, and a copy survives.  *)
(***************************************************************************)
EXTENDS DeviceBoot_proofs

\* The labels at which a session is under way, between its start and its end.
Serving == SessionLabel \ {"uartRead", "uartEnd"}

\* The record that loxboot_commit_slot makes.
PendingRecord(fw) == [state |-> "PENDING", attempts |-> 0, fw |-> fw]

\* A call belongs to the session that made it, or to the application.
OwnerInv ==
  /\ pc \notin (SessionLabel \ {"uartRead"}) \cup CallLabel => sess = NoSession
  /\ pc \in CallLabel /\ sess.back = "app" => sess = NoSession
  /\ pc \in Serving => sess.back # "app"

\* What a session asks for, by the label at which it goes on.
AskInv ==
  pc \in CallLabel /\ sess.back # "app" =>
    /\ call.slot = sess.target
    /\ call.name = CASE sess.back = "committed" -> "commit"
                     [] sess.back = "verified" -> "verify"
                     [] OTHER -> "invalidate"
    /\ sess.back = "committed" => call.fw = sess.frame.fw
    /\ sess.back \in {"committed", "verified"} => sess.frame.cmd = "commit"
    /\ sess.back = "aborted" => sess.frame.cmd = "abort"

\* The call, or the frame, that is handled at a label.
LabelInv ==
  /\ pc = "opRead" => call.name # "format"
  /\ pc = "opHeader" => call.name = "invalidate"
  /\ pc = "opWrite" => call.name # "verify"
  /\ pc = "inquired" => sess.frame.cmd \in {"hello", "status"}
  /\ pc \in {"erase", "program"} => sess.frame.cmd = "write"
  /\ pc \in {"committed", "verified"} => sess.frame.cmd = "commit"
  /\ pc = "aborted" => sess.frame.cmd = "abort"

\* Unless something failed, flash holds a boot state whose active slot is not
\* the target, and the session never comes to the repair of a corrupt one.
Asking == pc \in Serving \/ (pc = "opRead" /\ sess.back # "app")
TargetInv ==
  ~trouble =>
    /\ Asking => primary \in Good /\ primary.active # sess.target
    /\ pc = "opWrite" /\ sess.back # "app" => buf \in Good /\ buf.active # sess.target
    /\ pc = "opHeader" => sess.back = "app"

\* Both copies have this record for the target.
OnRecord(rec) == primary = backup /\ primary \in Good /\ primary.slots[sess.target] = rec

\* How far a COMMIT has come.
CommitInv ==
  /\ pc = "opWrite" /\ call.name = "commit" =>
       buf \in Good /\ buf.slots[call.slot] = PendingRecord(call.fw)
  /\ pc = "committed" /\ ret = "OK" => OnRecord(PendingRecord(sess.frame.fw))
  /\ pc = "opRead" /\ sess.back = "verified" => OnRecord(PendingRecord(sess.frame.fw))
  /\ pc = "verified" /\ ret = "OK" =>
       OnRecord(PendingRecord(sess.frame.fw)) /\ image[sess.target] = sess.frame.fw
  /\ AcknowledgedCommit

\* The device was not provisioned with a boot state that only the header check
\* accepts.  Then there never is one.
Sound == \A p \in Provisioned : p.state \notin HeaderOnly
SoundInv == Sound => {primary, backup, buf} \cap HeaderOnly = {}

\* What is left of a firmware that was called off.
CalledOffInv ==
  /\ pc \in {"refused", "aborted"} =>
      /\ Sound /\ ret = "OK" => /\ primary = backup /\ primary \in Good
                                /\ primary.slots[sess.target].state = "INVALID"
      /\ ret # "OK" => trouble
  /\ Sound => RefusalsHold

\* The invariant of a session.
ServeInv == OwnerInv /\ AskInv /\ LabelInv /\ TargetInv /\ CommitInv /\ CalledOffInv

\* The invariant of the device.
SessionInv == BootInv /\ ServeInv /\ SoundInv

\* All that a session needs to know of the calls it makes, on a device of any kind.
WriteRefused ==
  pc = "opWrite" /\ call.name = "invalidate" => buf.slots[call.slot].state = "INVALID"

-----------------------------------------------------------------------------
\* A boot state that is not one of those only the header check accepts is good.
LEMMA NotHeaderOnly ==
  /\ Corrupt \notin HeaderOnly
  /\ \A st : st \in Good => st \notin HeaderOnly
  /\ \A st \in Store!State : st \notin HeaderOnly => st \in Good
BY ProvisionedAssumption DEF HeaderOnly, Store!State

\* No session is under way.
LEMMA NoServe ==
  ASSUME sess' = NoSession, pc' \notin SessionLabel \ {"uartRead"},
         pc' = "opRead" => call'.name # "format",
         pc' = "opWrite" => call'.name \notin {"verify", "commit"},
         pc' # "opHeader"
  PROVE  ServeInv'
<1>1. sess'.back = "app"
  BY DEF NoSession
<1>2. pc' \notin Serving /\ pc' \notin {"inquired", "erase", "program", "committed", "verified",
                                      "refused", "aborted", "reply"}
  BY DEF Serving, SessionLabel
<1> QED
  BY <1>1, <1>2
     DEF ServeInv, OwnerInv, AskInv, LabelInv, TargetInv, Asking, CommitInv, AcknowledgedCommit,
         CalledOffInv, RefusalsHold

\* The steps and the errors of the store do not concern a session.
LEMMA QuietWork ==
  ASSUME Store!TypeOK, WaitInv, CopyInv, ServeInv, SoundInv, WriteRefused, StoreStep \/ FlashError
  PROVE  ServeInv' /\ SoundInv' /\ WriteRefused'
<1>b. /\ pc \in StoreLabel
      /\ {primary', backup', buf'} \subseteq {primary, backup, buf, Corrupt}
      /\ pc \in WriteLabel => buf' = buf
      /\ pc \in ReadLabel /\ primary \in Good => primary' = primary /\ backup' = backup
      /\ pc' = pc /\ image' = image /\ call' = call /\ ret' = ret /\ sess' = sess
      /\ trouble => trouble'
  BY StoreMoves
<1>c. pc \notin {"refused", "aborted", "committed", "verified", "reply"}
  BY <1>b DEF StoreLabel, ReadLabel, WriteLabel
<1>1. OwnerInv' /\ AskInv' /\ LabelInv'
  BY <1>b DEF ServeInv, OwnerInv, AskInv, LabelInv
<1>2. TargetInv'
  BY <1>b DEF ServeInv, TargetInv, Asking, Serving, SessionLabel, StoreLabel, ReadLabel, WriteLabel
<1>3. CommitInv'
  BY <1>b, <1>c
     DEF ServeInv, CommitInv, AcknowledgedCommit, OnRecord, PendingRecord, ReadLabel, WriteLabel
<1>4. CalledOffInv'
  BY <1>b, <1>c DEF CalledOffInv, RefusalsHold
<1>5. SoundInv'
  BY <1>b, NotHeaderOnly DEF SoundInv
<1>6. WriteRefused'
  BY <1>b DEF WriteRefused, WriteLabel
<1> QED
  BY <1>1, <1>2, <1>3, <1>4, <1>5, <1>6 DEF ServeInv

\* So they keep the invariant.
LEMMA QuietServes == SessionInv /\ (StoreStep \/ FlashError) => SessionInv'
<1> SUFFICES ASSUME SessionInv, StoreStep \/ FlashError PROVE SessionInv'
  OBVIOUS
<1>1. BootInv'
  BY QuietKeeps DEF SessionInv
<1>2. Store!TypeOK /\ WaitInv /\ CopyInv /\ ServeInv /\ SoundInv /\ WriteRefused
  BY DEF SessionInv, BootInv, CallInv, TypeOK, RefusalInv, WriteRefused
<1> QED
  BY <1>1, <1>2, QuietWork DEF SessionInv

\* So does a power cut, which ends the session.
LEMMA PowerCutServes == SessionInv /\ PowerCut => SessionInv'
<1> SUFFICES ASSUME SessionInv, PowerCut PROVE SessionInv'
  OBVIOUS
<1>a. BootInv'
  BY PowerCutKeeps DEF SessionInv
<1>b. /\ {primary', backup', buf'} \subseteq {primary, backup, buf, Corrupt}
      /\ pc' = "off" /\ sess' = NoSession
  BY CutShortCases DEF SessionInv, BootInv, CallInv, TypeOK, PowerCut, Store!PowerCut
<1>1. ServeInv'
  BY <1>b, NoServe DEF SessionLabel
<1>2. SoundInv'
  BY <1>b, NotHeaderOnly DEF SessionInv, SoundInv
<1> QED
  BY <1>a, <1>1, <1>2 DEF SessionInv

\* So does the boot sequence, in which no session is under way.
LEMMA BootServes == SessionInv /\ BootStep => SessionInv'
<1> SUFFICES ASSUME SessionInv, BootStep PROVE SessionInv'
  OBVIOUS
<1>a. BootInv' /\ BootInv
  BY BootKeeps DEF SessionInv
<1>b. /\ phase = "idle" /\ pc \in BootLabel \cup {"uartEnd"} /\ pc' \in BootNext
      /\ primary' = primary /\ backup' = backup
  BY <1>a, BootAt, BootFacts
<1>1. sess' = NoSession
  <2>1. CASE pc = "uartEnd"
    BY <2>1 DEF BootStep, At, AfterRead, AfterFormat, AfterReread, AfterSession,
       AfterSessionReread,
       Select, AfterFallback, CheckAttempts, RollbackRead, RollbackWrite, AfterAttempt, Verify,
       VerifyReadError, AfterSpoil, Promote, AfterPromote, RecordReason, HandOff, RecordFailed
  <2>2. CASE pc \in BootLabel
    <3>1. sess = NoSession
      BY <2>2 DEF SessionInv, ServeInv, OwnerInv, BootLabel, SessionLabel, CallLabel
    <3> QED
      BY <3>1 DEF BootStep, At, appVars, AfterRead, AfterFormat, AfterReread, AfterSession,
       AfterSessionReread, Select, AfterFallback, CheckAttempts, RollbackRead, RollbackWrite,
       AfterAttempt, Verify, VerifyReadError, AfterSpoil, Promote, AfterPromote, RecordReason,
          HandOff,
       RecordFailed
  <2> QED
    BY <1>b, <2>1, <2>2
<1>2. ServeInv'
  BY <1>b, <1>1, NoServe DEF BootNext, BootLabel, SessionLabel
<1>3. SoundInv'
  <2>1. ClientStep
    BY <1>a, BootClient DEF BootInv
  <2>2. buf' = buf \/ (buf' \in Store!State /\ pc' \in WriteLabel)
    BY <2>1 DEF ClientStep
  <2>3. pc' \in {"fallback", "attempt", "spoiled", "promoted", "recorded"} => buf' \in Good
    BY <1>a DEF BootInv, ContextInv, ContextLabel, BootLabel
  <2>4. pc' = "rbWrite" => buf' \in Good
    <3>1. pc' = "rbWrite" => /\ ctx.state' \in Good /\ buf' = RollbackEdit(ctx.state', Active')
                             /\ Active' \in Slot
      BY <1>a, StateTypes, StateParts DEF BootInv, ContextInv, LimitInv, ContextLabel,
         BootLabel, Active
    <3> QED
      BY <3>1, EditStates
  <2>5. pc' = "format" => buf' \in Good
    <3>1. pc' = "format" => AfterRead
      BY DEF BootStep, Goto, Read, Write, Fatal, Listen, Spoil, AfterFormat, AfterReread,
         AfterSession,
       AfterSessionReread, Select, AfterFallback, CheckAttempts, RollbackRead, RollbackWrite,
          AfterAttempt,
       Verify, VerifyReadError, AfterSpoil, Promote, AfterPromote, RecordReason, HandOff,
          RecordFailed
    <3>2. AfterRead /\ pc' = "format" => buf' = DefaultState("A")
      BY DEF AfterRead, Goto, Read, Write, Fatal, Listen, Store!BeginWrite
    <3> QED
      BY <3>1, <3>2, DefaultTypes DEF Slot
  <2>6. pc' \in WriteLabel => buf' \in Good
    BY <1>b, <2>3, <2>4, <2>5 DEF WriteLabel, BootNext, BootLabel
  <2> QED
    BY <1>b, <2>2, <2>6, NotHeaderOnly DEF SessionInv, SoundInv
<1> QED
  BY <1>a, <1>2, <1>3 DEF SessionInv

\* So does the application: the calls it makes belong to no session.
LEMMA AppServes == SessionInv /\ AppStep => SessionInv'
<1> SUFFICES ASSUME SessionInv, AppStep PROVE SessionInv'
  OBVIOUS
<1>a. BootInv' /\ BootInv
  BY AppKeeps DEF SessionInv
<1>b. /\ phase = "idle" /\ pc \in {"off", "jumped", "app"}
      /\ primary' = primary /\ backup' = backup
      /\ sess = NoSession /\ sess.back = "app"
  BY <1>a, AppAt, AppClient DEF BootInv, ClientStep, SessionInv, ServeInv, OwnerInv,
     NoSession, SessionLabel, CallLabel
<1> DEFINE Keeps == ServeInv' /\ (buf' = buf \/ buf' \in Good)
<1> SUFFICES Keeps
  BY <1>a, <1>b, NotHeaderOnly DEF SessionInv, SoundInv
<1> USE DEF At, appVars, history
<1>1. CASE PowerOn
  BY <1>1, <1>b, NoServe DEF PowerOn, Read, Store!BeginRead, SessionLabel
<1>2. CASE AppStart \/ UpdaterStart
  BY <1>2, <1>b, NoServe DEF AppStart, UpdaterStart, Goto, storeVars, SessionLabel
<1>3. ASSUME NEW c \in Calls, Invoke(c) PROVE Keeps
  <2>1. /\ pc' \in {"opRead", "app"} /\ buf' = buf /\ sess' = NoSession
        /\ pc' = "opRead" => call' = c /\ c.name # "format"
    BY <1>3, <1>b DEF Invoke, Begin, Return, Goto, Read, Store!BeginRead, storeVars
  <2> QED
    BY <2>1, NoServe DEF SessionLabel
<1>4. ASSUME NEW c \in Calls, Format(c) PROVE Keeps
  <2>1. /\ buf' = DefaultState(c.slot) /\ call' = c /\ c.name = "format" /\ pc' = "opWrite"
        /\ sess' = NoSession
    BY <1>4, <1>b DEF Format, Write, Store!BeginWrite
  <2>2. c.slot \in Slot
    BY CallParts, CallsAssumption
  <2> QED
    BY <2>1, <2>2, DefaultTypes, NoServe DEF SessionLabel
<1>5. ASSUME NEW f \in Firmware \cup {Junk}, AppWritesImage(f) PROVE Keeps
  BY <1>5, <1>b, NoServe DEF AppWritesImage, storeVars, SessionLabel
<1> QED
  BY <1>1, <1>2, <1>3, <1>4, <1>5 DEF AppStep

-----------------------------------------------------------------------------
\* A call of the API returns to the session that made it, or to the application.
LEMMA CallWork ==
  ASSUME CallInv, ServeInv, SoundInv, WriteRefused, CallStep
  PROVE  ServeInv' /\ SoundInv' /\ WriteRefused'
<1>b. /\ phase = "idle" /\ pc \in CallLabel /\ image' = image /\ sess' = sess
      /\ primary' = primary /\ backup' = backup /\ sess \in Session
  BY CallAt, CallClient DEF ClientStep, CallInv, TypeOK
<1>c. /\ sess.back \in {"app", "listen", "committed", "verified", "refused", "aborted"}
      /\ sess.back = "app" => sess = NoSession
      /\ call \in AllCalls /\ call.slot \in Slot /\ call.fw \in Firmware \cup {NoFirmware}
  BY <1>b, CallParts DEF Session, ServeInv, OwnerInv, CallInv, RunningInv
<1>d. sess.back # "app" =>
        /\ call.slot = sess.target
        /\ sess.back = "committed" => call.name = "commit" /\ call.fw = sess.frame.fw
        /\ sess.back = "verified" => call.name = "verify"
        /\ sess.back \notin {"committed", "verified"} => call.name = "invalidate"
        /\ sess.back \in {"committed", "verified"} => sess.frame.cmd = "commit"
        /\ sess.back = "aborted" => sess.frame.cmd = "abort"
  BY <1>b DEF ServeInv, AskInv
<1>e. ~trouble =>
        /\ pc = "opRead" /\ sess.back # "app" => primary \in Good /\ primary.active # sess.target
        /\ pc = "opWrite" /\ sess.back # "app" => buf \in Good /\ buf.active # sess.target
        /\ pc = "opHeader" => sess.back = "app"
  BY DEF ServeInv, TargetInv, Asking
<1>f. /\ pc = "opRead" => /\ call.name # "format" /\ res \in {"OK", "FLASH", "CORRUPT"}
                          /\ res = "OK" => buf \in Good /\ buf \in Store!State /\ primary = buf
                          /\ res = "CORRUPT" => primary \notin Good
                          /\ res = "FLASH" => trouble
      /\ pc = "opHeader" => /\ call.name = "invalidate" /\ res \in {"OK", "FLASH", "CORRUPT"}
                            /\ res = "OK" => buf \in Store!State
                            /\ res = "FLASH" => trouble
      /\ pc = "opWrite" => /\ call.name # "verify" /\ res \in {"OK", "FLASH"} /\ buf \in Store!State
                           /\ res = "OK" => primary = buf /\ backup = buf
                           /\ res = "FLASH" => trouble
  BY <1>b, StateTypes
     DEF CallInv, ReturnInv, CopyInv, ReadLabel, WriteLabel, ServeInv, LabelInv
<1> DEFINE Keeps == /\ ServeInv'
                    /\ Sound /\ buf \notin HeaderOnly => buf' \notin HeaderOnly
<1>g. Keeps => ServeInv' /\ SoundInv'
  BY <1>b DEF SoundInv
\* It goes on with a write, or to the repair of a corrupt state.
<1>h. ASSUME pc' = "opWrite", call' = call, call.name # "verify", trouble' = trouble,
             pc \in {"opRead", "opHeader"},
             \/ pc = "opRead" => buf' \in Good /\ buf'.active = buf.active
             \/ call.name \in {"confirm", "request"},
             pc = "opRead" => res = "OK",
             call.name = "commit" => buf' \in Good /\ buf'.slots[call.slot] = PendingRecord(call.fw)
      PROVE  ServeInv'
  <2>1. OwnerInv' /\ AskInv' /\ LabelInv'
    BY <1>b, <1>c, <1>d, <1>h DEF OwnerInv, AskInv, LabelInv, Serving, SessionLabel, CallLabel
  <2>2. TargetInv'
    BY <1>b, <1>c, <1>d, <1>e, <1>f, <1>h DEF TargetInv, Asking, Serving, SessionLabel
  <2>3. CommitInv' /\ CalledOffInv'
    BY <1>b, <1>h DEF CommitInv, AcknowledgedCommit, CalledOffInv, RefusalsHold
  <2> QED
    BY <2>1, <2>2, <2>3 DEF ServeInv
<1>i. ASSUME pc' = "opHeader", call' = call, call.name = "invalidate", trouble' = trouble,
             pc = "opRead", res = "CORRUPT"
      PROVE  ServeInv'
  <2>1. OwnerInv' /\ AskInv' /\ LabelInv'
    BY <1>b, <1>c, <1>d, <1>i DEF OwnerInv, AskInv, LabelInv, Serving, SessionLabel, CallLabel
  <2>2. TargetInv'
    BY <1>b, <1>c, <1>e, <1>f, <1>i DEF TargetInv, Asking, Serving, SessionLabel
  <2>3. CommitInv' /\ CalledOffInv'
    BY <1>b, <1>i DEF CommitInv, AcknowledgedCommit, CalledOffInv, RefusalsHold
  <2> QED
    BY <2>1, <2>2, <2>3 DEF ServeInv
\* It returns.
<1>j. ASSUME NEW r, Finish(r), trouble => trouble',
             pc = "opWrite" => r = res,
             sess.back = "committed" /\ r = "OK" =>
                OnRecord(PendingRecord(sess.frame.fw)),
             sess.back = "verified" /\ r = "OK" =>
                OnRecord(PendingRecord(sess.frame.fw)) /\ image[sess.target] = sess.frame.fw,
             sess.back \in {"refused", "aborted"} =>
                /\ Sound /\ r = "OK" => /\ primary = backup /\ primary \in Good
                                        /\ primary.slots[sess.target].state = "INVALID"
                /\ r # "OK" => trouble'
      PROVE  Keeps
  <2>1. pc' = sess.back /\ ret' = r /\ buf' = buf
    BY <1>j DEF Finish, Return, Goto, storeVars
  <2>2. OwnerInv' /\ AskInv' /\ LabelInv'
    BY <1>b, <1>c, <1>d, <2>1 DEF OwnerInv, AskInv, LabelInv, Serving, SessionLabel, CallLabel
  <2>3. TargetInv'
    <3>1. ~trouble' /\ sess.back # "app" => primary \in Good /\ primary.active # sess.target
      BY <1>b, <1>e, <1>f, <1>j DEF CallLabel
    <3> QED
      BY <1>b, <1>c, <2>1, <3>1 DEF TargetInv, Asking, Serving, SessionLabel
  <2>4. CommitInv'
    BY <1>b, <1>c, <1>j, <2>1 DEF CommitInv, AcknowledgedCommit, OnRecord, PendingRecord
  <2>5. CalledOffInv'
    BY <1>b, <1>c, <1>j, <2>1 DEF CalledOffInv, RefusalsHold
  <2> QED
    BY <2>1, <2>2, <2>3, <2>4, <2>5 DEF ServeInv
<1> USE DEF At, history
<1>k. WriteRefused'
  <2>1. \A allowed : \A st, cleared : WriteIf(allowed, st, cleared) =>
           call' = call \/ call' = NoCall
    BY DEF WriteIf, Finish, Return
  <2>2. CASE Confirm \/ Commit \/ Request \/ Check
    BY <2>1, <2>2 DEF Confirm, Commit, Request, Check, HasRead, Finish, Return, WriteRefused, NoCall
  <2>3. CASE Invalidate
    <3>1. buf' = InvalidateEdit(buf, call.slot) /\ call' = call /\ pc = "opRead" /\ res = "OK"
      BY <2>3 DEF Invalidate, WriteIf, Write, Store!BeginWrite, HasRead
    <3> QED
      BY <1>c, <1>f, <3>1, InvalidateFields DEF WriteRefused
  <2>4. CASE ReadFailed
    BY <2>4 DEF ReadFailed, Finish, Return, WriteRefused, NoCall
  <2>5. CASE Repair
    <3>1. CASE res = "OK"
      <4>1. buf' = RepairEdit(buf, call.slot) /\ call' = call /\ pc = "opHeader"
        BY <2>5, <3>1 DEF Repair, Write, Store!BeginWrite
      <4> QED
        BY <1>c, <1>f, <3>1, <4>1, RepairFields DEF WriteRefused
    <3>2. CASE res # "OK"
      BY <2>5, <3>2 DEF Repair, Finish, Return, WriteRefused, NoCall
    <3> QED
      BY <3>1, <3>2
  <2>6. CASE Written
    BY <2>6 DEF Written, Finish, Return, WriteRefused, NoCall
  <2> QED
    BY <2>2, <2>3, <2>4, <2>5, <2>6 DEF CallStep
<1> SUFFICES Keeps
  BY <1>g, <1>k
<1>1. CASE Confirm
  <2>1. CASE buf.slots[buf.active].state \in {"ACTIVE", "VALID"}
    <3>1. /\ buf' = ConfirmEdit(buf) /\ pc' = "opWrite" /\ call' = call /\ trouble' = trouble
          /\ call.name = "confirm" /\ pc = "opRead" /\ res = "OK"
      BY <1>1, <2>1 DEF Confirm, WriteIf, Write, Store!BeginWrite, HasRead
    <3>2. buf' \in Good
      BY <1>c, <1>f, <3>1, EditStates
    <3> QED
      BY <1>h, <3>1, <3>2, NotHeaderOnly
  <2>2. CASE buf.slots[buf.active].state \notin {"ACTIVE", "VALID"}
    <3>1. Finish("INVALID_STATE") /\ call.name = "confirm" /\ trouble' = trouble /\ pc = "opRead"
      BY <1>1, <2>2 DEF Confirm, WriteIf, HasRead
    <3> QED
      BY <1>d, <1>j, <3>1
  <2> QED
    BY <2>1, <2>2
<1>2. CASE Commit
  <2>0. call.name = "commit" /\ trouble' = trouble /\ pc = "opRead" /\ res = "OK" /\ buf \in Good
        /\ buf \in Store!State
    BY <1>2, <1>f DEF Commit, HasRead
  <2>1. CASE buf.active # call.slot
    <3>1. /\ buf' = CommitEdit(buf, call.slot, call.fw) /\ pc' = "opWrite" /\ call' = call
      BY <1>2, <2>1 DEF Commit, WriteIf, Write, Store!BeginWrite
    <3>2. buf' \in Good
      BY <1>c, <2>0, <3>1, EditStates
    <3>3. buf'.active = buf.active
      BY <1>c, <2>0, <3>1, CommitFields
    <3>4. buf'.slots[call.slot] = PendingRecord(call.fw)
      BY <1>c, <2>0, <3>1, CommitFields DEF PendingRecord
    <3> QED
      BY <1>h, <2>0, <3>1, <3>2, <3>3, <3>4, NotHeaderOnly
  <2>2. CASE buf.active = call.slot
    <3>1. Finish("INVALID_STATE")
      BY <1>2, <2>2 DEF Commit, WriteIf
    <3> QED
      BY <1>d, <1>j, <2>0, <3>1
  <2> QED
    BY <2>1, <2>2
<1>3. CASE Invalidate
  <2>1. /\ buf' = InvalidateEdit(buf, call.slot) /\ pc' = "opWrite"
        /\ call' = call /\ trouble' = trouble
        /\ call.name = "invalidate" /\ pc = "opRead" /\ res = "OK"
    BY <1>3 DEF Invalidate, WriteIf, Write, Store!BeginWrite, HasRead
  <2>2. buf' \in Good
    BY <1>c, <1>f, <2>1, EditStates
  <2>3. buf'.active = buf.active
    BY <1>c, <1>f, <2>1, InvalidateFields
  <2> QED
    BY <1>h, <2>1, <2>2, <2>3, NotHeaderOnly
<1>4. CASE Request
  <2>0. call.name = "request" /\ trouble' = trouble /\ pc = "opRead" /\ res = "OK"
    BY <1>4, <1>f DEF Request, HasRead
  <2>1. CASE buf.slots[call.slot].state \in {"VALID", "ACTIVE"}
    <3>1. buf' = RequestEdit(buf, call.slot) /\ pc' = "opWrite" /\ call' = call
      BY <1>4, <2>1 DEF Request, WriteIf, Write, Store!BeginWrite
    <3>2. buf' \in Good
      BY <1>c, <1>f, <2>0, <3>1, EditStates
    <3> QED
      BY <1>h, <2>0, <3>1, <3>2, NotHeaderOnly
  <2>2. CASE buf.slots[call.slot].state \notin {"VALID", "ACTIVE"}
    <3>1. Finish("INVALID_STATE")
      BY <1>4, <2>2 DEF Request, WriteIf
    <3> QED
      BY <1>d, <1>j, <2>0, <3>1
  <2> QED
    BY <2>1, <2>2
<1>5. CASE Check
  <2>0. call.name = "verify" /\ pc = "opRead" /\ res = "OK" /\ (trouble => trouble')
    BY <1>5 DEF Check, HasRead
  <2>1. PICK r \in {"INVALID_ARG", "OK", "CRC_MISMATCH", "FLASH"} :
          Finish(r) /\ (r = "OK" => ImageMatches(buf, call.slot))
    BY <1>5 DEF Check
  <2>2. ASSUME sess.back = "verified", r = "OK"
        PROVE  OnRecord(PendingRecord(sess.frame.fw)) /\ image[sess.target] = sess.frame.fw
    <3>1. OnRecord(PendingRecord(sess.frame.fw))
      BY <2>0, <2>2 DEF ServeInv, CommitInv
    <3>2. buf.slots[sess.target] = PendingRecord(sess.frame.fw)
      BY <1>f, <2>0, <3>1 DEF OnRecord
    <3> QED
      BY <1>d, <2>1, <2>2, <3>1, <3>2 DEF ImageMatches, PendingRecord
  <2> QED
    BY <1>c, <1>d, <1>j, <2>0, <2>1, <2>2
<1>6. CASE ReadFailed
  <2>0. pc = "opRead" /\ res \in {"FLASH", "CORRUPT"} /\ trouble' = trouble
    BY <1>6, <1>f DEF ReadFailed
  <2>1. CASE res = "CORRUPT" /\ call.name = "invalidate"
    BY <1>6, <1>i, <2>0, <2>1 DEF ReadFailed, Store!BeginHeaderRead
  <2>2. CASE ~(res = "CORRUPT" /\ call.name = "invalidate")
    <3>1. Finish(res)
      BY <1>6, <2>2 DEF ReadFailed
    <3> QED
      BY <1>d, <1>f, <1>j, <2>0, <2>2, <3>1
  <2> QED
    BY <2>1, <2>2
<1>7. CASE Repair
  <2>0. pc = "opHeader" /\ trouble' = trouble /\ call.name = "invalidate"
    BY <1>7, <1>f DEF Repair
  <2>1. CASE res = "OK"
    <3>1. buf' = RepairEdit(buf, call.slot) /\ pc' = "opWrite" /\ call' = call
      BY <1>7, <2>1 DEF Repair, Write, Store!BeginWrite
    <3>2. Sound /\ buf \notin HeaderOnly => buf' \notin HeaderOnly
      BY <1>c, <1>f, <2>0, <2>1, <3>1, EditStates, NotHeaderOnly
    <3>3. ~trouble => sess.back = "app"
      BY <1>e, <2>0
    <3>4. ServeInv'
      BY <1>h, <2>0, <3>1
    <3> QED
      BY <3>2, <3>4
  <2>2. CASE res # "OK"
    <3>1. Finish(res)
      BY <1>7, <2>2 DEF Repair
    <3> QED
      BY <1>d, <1>e, <1>j, <2>0, <2>2, <3>1
  <2> QED
    BY <2>1, <2>2
<1>8. CASE Written
  <2>0. pc = "opWrite" /\ Finish(res) /\ trouble' = trouble
    BY <1>8 DEF Written
  <2>1. CASE res = "OK"
    <3>1. primary = buf /\ backup = buf
      BY <1>f, <2>0, <2>1
    <3>2. call.name = "commit" => buf \in Good /\ buf.slots[call.slot] = PendingRecord(call.fw)
      BY <2>0 DEF ServeInv, CommitInv
    <3>3. sess.back = "committed" => OnRecord(PendingRecord(sess.frame.fw))
      BY <1>d, <3>1, <3>2 DEF OnRecord
    <3>4. sess.back # "verified"
      BY <1>d, <1>f, <2>0
    <3>5. sess.back \in {"refused", "aborted"} /\ Sound =>
             primary \in Good /\ primary.slots[sess.target].state = "INVALID"
      BY <1>d, <1>f, <2>0, <3>1, NotHeaderOnly DEF SoundInv, WriteRefused
    <3> QED
      BY <1>j, <2>0, <2>1, <3>1, <3>3, <3>4, <3>5
  <2>2. CASE res # "OK"
    BY <1>f, <1>j, <2>0, <2>2
  <2> QED
    BY <2>1, <2>2
<1> QED
  BY <1>1, <1>2, <1>3, <1>4, <1>5, <1>6, <1>7, <1>8 DEF CallStep

\* So it keeps the invariant.
LEMMA CallServes == SessionInv /\ CallStep => SessionInv'
<1> SUFFICES ASSUME SessionInv, CallStep PROVE SessionInv'
  OBVIOUS
<1>1. BootInv'
  BY CallKeeps DEF SessionInv
<1>2. CallInv /\ ServeInv /\ SoundInv /\ WriteRefused
  BY DEF SessionInv, BootInv, RefusalInv, WriteRefused
<1> QED
  BY <1>1, <1>2, CallWork DEF SessionInv

-----------------------------------------------------------------------------
\* A session goes on by itself: with the flash, with a response, or to its end.
LEMMA GoServes ==
  ASSUME ServeInv, pc \in Serving, primary' = primary, backup' = backup,
         trouble => trouble', sess'.target = sess.target, sess'.back = sess.back,
         pc' \in {"listen", "erase", "program", "inquired", "reply", "uartEnd"},
         pc' = "inquired" => sess'.frame.cmd \in {"hello", "status"},
         pc' \in {"erase", "program"} => sess'.frame.cmd = "write",
         AcknowledgedCommit', Sound => RefusalsHold'
  PROVE  ServeInv'
<1>1. OwnerInv' /\ AskInv' /\ LabelInv'
  BY DEF ServeInv, OwnerInv, AskInv, LabelInv, Serving, SessionLabel, CallLabel
<1>2. TargetInv'
  BY DEF ServeInv, TargetInv, Asking, Serving, SessionLabel
<1>3. CommitInv' /\ CalledOffInv'
  BY DEF CommitInv, CalledOffInv
<1> QED
  BY <1>1, <1>2, <1>3 DEF ServeInv

\* A session calls the API.
LEMMA AskServes ==
  ASSUME ServeInv, pc \in Serving, primary' = primary, backup' = backup,
         trouble => trouble', NEW name, NEW fw, NEW s \in Session, NEW l,
         Ask(name, fw, s, l), s.target = sess.target,
         name = CASE l = "committed" -> "commit" [] l = "verified" -> "verify" [] OTHER -> "invalidate",
         l \in {"listen", "committed", "verified", "refused", "aborted"},
         l = "committed" => fw = s.frame.fw,
         l \in {"committed", "verified"} => s.frame.cmd = "commit",
         l = "aborted" => s.frame.cmd = "abort",
         l = "verified" => OnRecord(PendingRecord(s.frame.fw))
  PROVE  ServeInv'
<1>1. sess' = [s EXCEPT !.back = l]
  BY DEF Ask, Begin
<1>2. sess'.back = l /\ sess'.target = sess.target /\ sess'.frame = s.frame
  BY <1>1 DEF Session
<1>3. \/ /\ pc' = "opRead" /\ call' = [name |-> name, slot |-> sess.target, fw |-> fw]
      \/ /\ pc' = "committed" /\ l = "committed" /\ ret' = "INVALID_ARG"
  BY <1>1, <1>2 DEF Ask, Begin, Return, Goto, Read
<1> HIDE DEF Ask
<1>4. OwnerInv' /\ AskInv' /\ LabelInv'
  BY <1>2, <1>3 DEF OwnerInv, AskInv, LabelInv, Serving, SessionLabel, CallLabel
<1>5. TargetInv'
  BY <1>2, <1>3 DEF ServeInv, TargetInv, Asking, Serving, SessionLabel
<1>6. CommitInv'
  BY <1>2, <1>3 DEF CommitInv, AcknowledgedCommit, OnRecord, PendingRecord
<1>7. CalledOffInv'
  BY <1>3 DEF CalledOffInv, RefusalsHold
<1> QED
  BY <1>4, <1>5, <1>6, <1>7 DEF ServeInv

\* Its own steps keep what it relies on.
LEMMA SessionWork ==
  ASSUME CallInv, ServeInv, SoundInv, SessionStep \/ HostStep \/ Timeout
  PROVE  ServeInv' /\ SoundInv' /\ WriteRefused'
<1>b. phase = "idle" /\ pc \in SessionLabel /\ pc' \in SessionLabel \cup {"opRead"} /\ ClientStep
  BY SessionAt, SessionClient
<1>c. primary' = primary /\ backup' = backup /\ buf' = buf
  BY <1>b DEF ClientStep, SessionLabel, WriteLabel
<1>d. /\ sess \in Session /\ sess.target \in Slot /\ sess.draft \in Draft
      /\ sess.frame \in Frames \cup {NoFrame}
  BY SessionParts DEF CallInv, TypeOK
<1>e. SoundInv'
  BY <1>c DEF SoundInv
<1>f. WriteRefused'
  BY <1>b DEF WriteRefused, SessionLabel
<1> SUFFICES ServeInv'
  BY <1>e, <1>f
\* What the members of the session are after an assignment.
<1>g. \A s \in Session : \A r : Answer(s, r) =>
        /\ pc' = "reply" /\ sess'.target = s.target /\ sess'.back = s.back
        /\ sess'.frame = s.frame /\ sess'.active = s.active /\ sess'.reply = r
  BY DEF Answer, Goto, Session
<1>h. \A s \in Session : \A e : EndSession(s, e) =>
        pc' = "uartEnd" /\ sess'.target = s.target /\ sess'.back = s.back
  BY DEF EndSession, Goto, Session
<1>i. \A f \in Frames : /\ Received(f) \in Session /\ Received(f).frame = f
                        /\ Received(f).target = sess.target /\ Received(f).back = sess.back
                        /\ Received(f).active = sess.active
  BY <1>d DEF Received, Session
\* Without a response there is nothing to say of it.
<1>j. pc' # "reply" => AcknowledgedCommit' /\ RefusalsHold'
  BY DEF AcknowledgedCommit, RefusalsHold
<1>k. sess'.frame.cmd \notin {"commit", "abort"} => AcknowledgedCommit' /\ RefusalsHold'
  BY DEF AcknowledgedCommit, RefusalsHold, CalledOff
<1>l. \A s \in Session : Refuse(s) /\ pc \in Serving /\ s.target = sess.target /\ (trouble => trouble')
        => ServeInv'
  BY <1>c, AskServes DEF Refuse
<1> USE DEF At, history
<1>1. CASE SessionStart
  <2>1. CASE res = "OK"
    <3>1. /\ pc = "uartRead" /\ pc' = "listen"
          /\ sess' = [NoSession EXCEPT !.target = Other(buf.active), !.back = "listen"]
      BY <1>1, <2>1 DEF SessionStart, Goto
    <3>2. sess'.target = Other(buf.active) /\ sess'.back = "listen"
      BY <3>1 DEF NoSession
    <3>3. primary = buf /\ buf \in Good /\ buf.active \in Slot /\ Other(buf.active) # buf.active
      BY <1>b, <2>1, <3>1, StateTypes, StateParts, Slots DEF CallInv, ReturnInv, ReadLabel
    <3>4. OwnerInv' /\ AskInv' /\ LabelInv' /\ TargetInv'
      BY <1>c, <3>1, <3>2, <3>3 DEF OwnerInv, AskInv, LabelInv, TargetInv, Asking, Serving,
         SessionLabel, CallLabel
    <3>5. CommitInv' /\ CalledOffInv'
      BY <3>1, <1>j DEF CommitInv, CalledOffInv
    <3> QED
      BY <3>4, <3>5 DEF ServeInv
  <2>2. CASE res # "OK"
    <3>1. pc' = "uartEnd"
      BY <1>1, <2>2 DEF SessionStart, EndSession, Goto
    <3>2. CommitInv' /\ CalledOffInv'
      BY <3>1, <1>j DEF CommitInv, CalledOffInv
    <3> QED
      BY <3>1, <3>2 DEF ServeInv, OwnerInv, AskInv, LabelInv, TargetInv, Asking, Serving,
         SessionLabel, CallLabel
  <2> QED
    BY <2>1, <2>2
<1>2. CASE Timeout
  BY <1>2, <1>c, <1>d, <1>h, <1>j, GoServes DEF Timeout, Serving, SessionLabel
<1>3. CASE ReceiveError \/ SendError
  BY <1>3, <1>c, <1>d, <1>h, <1>j, GoServes DEF ReceiveError, SendError, Serving, SessionLabel
<1>4. CASE DropFrame
  <2>1. Ask("invalidate", NoFirmware, sess, "listen") /\ pc = "listen" /\ trouble' = trouble
    BY <1>4 DEF DropFrame
  <2> QED
    BY <2>1, <1>c, <1>d, AskServes DEF Serving, SessionLabel
<1>5. ASSUME NEW f \in Frames, Command(f) PROVE ServeInv'
  <2>0. pc = "listen" /\ pc \in Serving
    BY <1>5 DEF Command, RefuseFrame, Inquire, WriteFrame, CommitFrame, AbortFrame,
       RebootFrame, Serving, SessionLabel
  <2>a. Received(f) \in Session /\ Received(f).frame = f /\ Received(f).target = sess.target
        /\ Received(f).back = sess.back /\ Received(f).active = sess.active
    BY <1>i
  <2>1. CASE RefuseFrame(f)
    <3>1. /\ pc' = "reply" /\ sess'.target = sess.target /\ sess'.back = sess.back
          /\ sess'.frame = f /\ sess'.active = sess.active /\ sess'.reply = "ERROR" /\ trouble' = trouble
      BY <2>1, <2>a, <1>g DEF RefuseFrame
    <3>2. AcknowledgedCommit' /\ RefusalsHold'
      BY <2>1, <3>1 DEF RefuseFrame, NeedsHello, AcknowledgedCommit, RefusalsHold, CalledOff
    <3> QED
      BY <1>c, <2>0, <3>1, <3>2, GoServes
  <2>2. CASE Inquire(f)
    <3>1. /\ pc' = "inquired" /\ trouble' = trouble /\ f.cmd \in {"hello", "status"}
          /\ sess' = [Received(f) EXCEPT !.active = @ \/ f.cmd = "hello"]
      BY <2>2 DEF Inquire, Read
    <3>2. sess'.target = sess.target /\ sess'.back = sess.back /\ sess'.frame = f
      BY <3>1, <2>a DEF Session
    <3> QED
      BY <1>c, <1>j, <2>0, <3>1, <3>2, GoServes
  <2>3. CASE WriteFrame(f)
    <3>1. /\ pc' \in {"program", "erase"} /\ trouble' = trouble /\ f.cmd = "write" /\ sess' = Received(f)
      BY <2>3 DEF WriteFrame, Goto
    <3> QED
      BY <1>c, <1>j, <2>0, <2>a, <3>1, GoServes
  <2>4. CASE CommitFrame(f)
    <3>1. trouble' = trouble /\ f.cmd = "commit"
      BY <2>4 DEF CommitFrame
    <3>2. Ask("commit", f.fw, Received(f), "committed") \/ Refuse(Received(f))
      BY <2>4 DEF CommitFrame
    <3>3. CASE Ask("commit", f.fw, Received(f), "committed")
      BY <1>c, <2>0, <2>a, <3>1, <3>3, AskServes
    <3>4. CASE Refuse(Received(f))
      BY <1>l, <2>0, <2>a, <3>1, <3>4
    <3> QED
      BY <3>2, <3>3, <3>4
  <2>5. CASE AbortFrame(f)
    <3>1. trouble' = trouble /\ f.cmd = "abort" /\ Ask("invalidate", NoFirmware, Received(f), "aborted")
      BY <2>5 DEF AbortFrame
    <3> QED
      BY <1>c, <2>0, <2>a, <3>1, AskServes
  <2>6. CASE RebootFrame(f)
    <3> DEFINE s == [Received(f) EXCEPT !.reboot = TRUE]
    <3>1. s \in Session /\ s.target = sess.target /\ s.back = sess.back
      BY <2>a DEF Session
    <3>2. EndSession(s, "OK") /\ trouble' = trouble
      BY <2>6 DEF RebootFrame
    <3> HIDE DEF s
    <3> QED
      BY <1>c, <1>h, <1>j, <2>0, <3>1, <3>2, GoServes
  <2> QED
    BY <1>5, <2>1, <2>2, <2>3, <2>4, <2>5, <2>6 DEF Command
<1>6. CASE EraseSlot
  <2>1. /\ pc = "erase" /\ pc' = "program" /\ trouble' = trouble
        /\ sess' = [sess EXCEPT !.erased = TRUE, !.draft = Erased]
    BY <1>6 DEF EraseSlot, Goto
  <2>2. sess'.target = sess.target /\ sess'.back = sess.back /\ sess'.frame = sess.frame
    BY <1>d, <2>1 DEF Session
  <2>3. sess.frame.cmd = "write"
    BY <2>1 DEF ServeInv, LabelInv
  <2> QED
    BY <1>c, <1>j, <2>1, <2>2, <2>3, GoServes DEF Serving, SessionLabel
<1>7. CASE EraseFails
  BY <1>7, <1>d, <1>l DEF EraseFails, Serving, SessionLabel
<1>8. CASE ProgramChunk
  <2> DEFINE s == [sess EXCEPT !.draft = Programmed(sess.draft, sess.frame), !.written = sess.frame.end]
  <2>1. pc = "program" /\ trouble' = trouble /\ Answer(s, "OK")
    BY <1>8 DEF ProgramChunk
  <2>2. s \in Session /\ s.target = sess.target /\ s.back = sess.back /\ s.frame = sess.frame
    BY <1>d, DraftTypes, FrameTypes DEF Session
  <2> HIDE DEF s
  <2>3. sess.frame.cmd = "write"
    BY <2>1 DEF ServeInv, LabelInv
  <2>4. /\ pc' = "reply" /\ sess'.target = sess.target /\ sess'.back = sess.back
        /\ sess'.frame.cmd = "write"
    BY <1>g, <2>1, <2>2, <2>3
  <2> QED
    BY <1>c, <1>k, <2>1, <2>4, GoServes DEF Serving, SessionLabel
<1>9. CASE ProgramFails
  <2>1. pc = "program" /\ (trouble => trouble')
    BY <1>9 DEF ProgramFails
  <2>2. PICK draft \in {sess.draft, Torn(sess.draft, sess.frame), Programmed(sess.draft, sess.frame)} :
          Refuse([sess EXCEPT !.draft = draft])
    BY <1>9 DEF ProgramFails
  <2>3. draft \in Draft
    BY <1>d, DraftTypes
  <2>4. [sess EXCEPT !.draft = draft] \in Session /\ [sess EXCEPT !.draft = draft].target = sess.target
    BY <1>d, <2>3 DEF Session
  <2> QED
    BY <1>l, <2>1, <2>2, <2>4 DEF Serving, SessionLabel
<1>10. CASE Inquired
  <2>1. pc = "inquired" /\ trouble' = trouble /\ \E r : Answer(sess, r)
    BY <1>10 DEF Inquired
  <2>2. sess.frame.cmd \in {"hello", "status"}
    BY <2>1 DEF ServeInv, LabelInv
  <2>3. /\ pc' = "reply" /\ sess'.target = sess.target /\ sess'.back = sess.back
        /\ sess'.frame.cmd \in {"hello", "status"}
    BY <1>d, <1>g, <2>1, <2>2
  <2> QED
    BY <1>c, <1>k, <2>1, <2>3, GoServes DEF Serving, SessionLabel
<1>11. CASE Committed
  <2>1. pc = "committed" /\ trouble' = trouble /\ sess.frame.cmd = "commit"
    BY <1>11 DEF Committed, ServeInv, LabelInv
  <2>2. CASE ret = "OK"
    <3>1. Ask("verify", NoFirmware, sess, "verified")
      BY <1>11, <2>2 DEF Committed
    <3>2. OnRecord(PendingRecord(sess.frame.fw))
      BY <2>1, <2>2 DEF ServeInv, CommitInv
    <3> QED
      BY <1>c, <1>d, <2>1, <3>1, <3>2, AskServes DEF Serving, SessionLabel
  <2>3. CASE ret # "OK"
    BY <1>11, <1>d, <1>l, <2>1, <2>3 DEF Committed, Serving, SessionLabel
  <2> QED
    BY <2>2, <2>3
<1>12. CASE Verified
  <2>1. pc = "verified" /\ trouble' = trouble /\ sess.frame.cmd = "commit" /\ image' = image
    BY <1>12 DEF Verified, ServeInv, LabelInv, history
  <2>2. CASE ret = "OK"
    <3> DEFINE s == [sess EXCEPT !.committed = TRUE]
    <3>1. Answer(s, "OK")
      BY <1>12, <2>2 DEF Verified
    <3>2. s \in Session /\ s.target = sess.target /\ s.back = sess.back /\ s.frame = sess.frame
      BY <1>d DEF Session
    <3> HIDE DEF s
    <3>3. /\ pc' = "reply" /\ sess'.target = sess.target /\ sess'.back = sess.back
          /\ sess'.frame = sess.frame /\ sess'.reply = "OK"
      BY <1>g, <3>1, <3>2
    <3>4. OnRecord(PendingRecord(sess.frame.fw)) /\ image[sess.target] = sess.frame.fw
      BY <2>1, <2>2 DEF ServeInv, CommitInv
    <3>5. AcknowledgedCommit'
      BY <1>c, <2>1, <3>3, <3>4 DEF AcknowledgedCommit, OnRecord, PendingRecord
    <3>6. RefusalsHold'
      BY <2>1, <3>3 DEF RefusalsHold, CalledOff
    <3> QED
      BY <1>c, <2>1, <3>3, <3>5, <3>6, GoServes DEF Serving, SessionLabel
  <2>3. CASE ret # "OK"
    BY <1>12, <1>d, <1>l, <2>1, <2>3 DEF Verified, Serving, SessionLabel
  <2> QED
    BY <2>2, <2>3
<1>13. CASE Refused
  <2>1. pc = "refused" /\ trouble' = trouble /\ ret' = ret /\ Answer(sess, "ERROR")
    BY <1>13 DEF Refused
  <2>2. /\ pc' = "reply" /\ sess'.target = sess.target /\ sess'.back = sess.back
        /\ sess'.reply = "ERROR"
    BY <1>d, <1>g, <2>1
  <2>3. AcknowledgedCommit'
    BY <2>2 DEF AcknowledgedCommit
  <2>4. Sound => RefusalsHold'
    BY <1>c, <2>1, <2>2 DEF ServeInv, CalledOffInv, RefusalsHold
  <2> QED
    BY <1>c, <2>1, <2>2, <2>3, <2>4, GoServes DEF Serving, SessionLabel
<1>14. CASE Aborted
  <2> DEFINE s == [sess EXCEPT !.active = FALSE]
  <2>1. pc = "aborted" /\ trouble' = trouble /\ ret' = ret /\ Answer(s, "OK")
    BY <1>14 DEF Aborted
  <2>2. s \in Session /\ s.target = sess.target /\ s.back = sess.back /\ s.frame = sess.frame
    BY <1>d DEF Session
  <2> HIDE DEF s
  <2>3. /\ pc' = "reply" /\ sess'.target = sess.target /\ sess'.back = sess.back
        /\ sess'.frame = sess.frame
    BY <1>g, <2>1, <2>2
  <2>4. sess.frame.cmd = "abort"
    BY <2>1 DEF ServeInv, LabelInv
  <2>5. AcknowledgedCommit'
    BY <2>3, <2>4 DEF AcknowledgedCommit
  <2>6. Sound => RefusalsHold'
    BY <1>c, <2>1, <2>3 DEF ServeInv, CalledOffInv, RefusalsHold
  <2> QED
    BY <1>c, <2>1, <2>3, <2>5, <2>6, GoServes DEF Serving, SessionLabel
<1>15. CASE Sent
  <2>1. /\ pc = "reply" /\ pc' = "listen" /\ trouble' = trouble
        /\ sess' = [sess EXCEPT !.reply = "none", !.frame = NoFrame]
    BY <1>15 DEF Sent, Goto
  <2>2. sess'.target = sess.target /\ sess'.back = sess.back
    BY <1>d, <2>1 DEF Session
  <2> QED
    BY <1>c, <1>j, <2>1, <2>2, GoServes DEF Serving, SessionLabel
<1> QED
  BY <1>1, <1>2, <1>3, <1>4, <1>5, <1>6, <1>7, <1>8, <1>9, <1>10, <1>11, <1>12, <1>13, <1>14,
     <1>15
     DEF SessionStep, HostStep

\* So they keep the invariant.
LEMMA SessionServes == SessionInv /\ (SessionStep \/ HostStep \/ Timeout) => SessionInv'
<1> SUFFICES ASSUME SessionInv, SessionStep \/ HostStep \/ Timeout PROVE SessionInv'
  OBVIOUS
<1>1. BootInv'
  BY SessionKeeps DEF SessionInv
<1>2. CallInv /\ ServeInv /\ SoundInv
  BY DEF SessionInv, BootInv
<1> QED
  BY <1>1, <1>2, SessionWork DEF SessionInv

-----------------------------------------------------------------------------
\* A device that is switched on for the first time satisfies it.
LEMMA SessionInit == Init => SessionInv
<1> SUFFICES ASSUME Init PROVE SessionInv
  OBVIOUS
<1>1. BootInv
  BY BootInit
<1>2. pc = "off" /\ sess = NoSession /\ backup = primary /\ buf = Corrupt
      /\ \E p \in Provisioned : primary = p.state
  BY DEF Init, Store!Init
<1>3. ServeInv
  BY <1>2
     DEF ServeInv, OwnerInv, AskInv, LabelInv, TargetInv, Asking, Serving, SessionLabel,
        CallLabel,
         CommitInv, AcknowledgedCommit, CalledOffInv, RefusalsHold
<1>4. SoundInv
  BY <1>2, NotHeaderOnly DEF SoundInv, Sound
<1> QED
  BY <1>1, <1>3, <1>4 DEF SessionInv

\* Every step keeps the invariant.
LEMMA SessionNextKeeps == SessionInv /\ [Next]_vars => SessionInv'
<1> SUFFICES ASSUME SessionInv, [Next]_vars PROVE SessionInv'
  OBVIOUS
<1>1. CASE UNCHANGED vars
  <2>1. BootInv'
    BY BootNextKeeps DEF SessionInv
  <2> QED
    BY <1>1, <2>1
       DEF vars, storeVars, appVars, history, SessionInv, ServeInv, OwnerInv, AskInv,
          LabelInv, TargetInv,
           Asking, CommitInv, OnRecord, PendingRecord, AcknowledgedCommit, CalledOffInv,
              RefusalsHold,
           CalledOff, SoundInv
<1> QED
  BY <1>1, StepKinds, QuietServes, BootServes, CallServes, SessionServes, AppServes,
     PowerCutServes
     DEF Client

\* The invariant holds for every host, every image and every number of faults.
THEOREM SessionInvariant == Spec => []SessionInv
BY SessionInit, SessionNextKeeps, PTL DEF Spec

\* RSP_OK to COMMIT is true: the slot holds the whole image that the host named, and both
\* copies of the boot state have it PENDING, after any frames, errors and power cuts.
THEOREM CommitsTrue == Spec => []AcknowledgedCommit
<1>1. SessionInv => AcknowledgedCommit
  BY DEF SessionInv, ServeInv, CommitInv
<1> QED
  BY SessionInvariant, <1>1, PTL

\* When the host is told that its COMMIT or its session was called off, both copies have
\* the slot INVALID, unless flash failed, on a device that was not provisioned with a
\* boot state that only the header check accepts.  With one the claim is false: a
\* header-only repair of one record may leave the other one bad, so that no read accepts
\* what loxboot_invalidate_slot has written with OK.
THEOREM RefusalsTrue == Sound /\ Spec => []RefusalsHold
<1>1. Sound /\ SessionInv => RefusalsHold
  BY DEF SessionInv, ServeInv, CalledOffInv
<1> SUFFICES ASSUME Sound PROVE Spec => []RefusalsHold
  OBVIOUS
<1> QED
  BY SessionInvariant, <1>1, PTL

\* As long as no flash operation has failed since power-on, the slot that a session works
\* on is never the one that flash calls active, whatever number of power cuts there were.
THEOREM SessionsSpare == Spec => [](~trouble => SessionSparesActive)
<1>1. SessionInv => (~trouble => SessionSparesActive)
  BY DEF SessionInv, ServeInv, TargetInv, Asking, Serving, SessionSparesActive, InSession,
         Store!Readable, Store!Meaning
<1> QED
  BY SessionInvariant, <1>1, PTL

-----------------------------------------------------------------------------
\* If flash and the line never fail, nothing ever does.
Calm == FlashMayFail \/ trouble = FALSE

\* No step records a failure by itself.
LEMMA CalmKeeps == Calm /\ [Next]_vars => Calm'
<1> SUFFICES ASSUME trouble = FALSE, ~FlashMayFail, [Next]_vars PROVE trouble' = FALSE
  BY DEF Calm
<1> USE DEF history, appVars, Fatal
<1>1. CASE UNCHANGED vars \/ StoreStep \/ PowerCut
  BY <1>1 DEF vars, StoreStep, PowerCut
<1>2. CASE FlashError
  BY <1>2 DEF FlashError
<1>3. CASE AppStep
  BY <1>3 DEF AppStep, PowerOn, AppStart, UpdaterStart, Invoke, Format, AppWritesImage
<1>4. CASE BootStep
  BY <1>4 DEF BootStep, AfterRead, AfterFormat, AfterReread, AfterSession, AfterSessionReread, Select,
     AfterFallback, CheckAttempts, RollbackRead, RollbackWrite, AfterAttempt, Verify, VerifyReadError,
     AfterSpoil, Promote, AfterPromote, RecordReason, HandOff, RecordFailed, Spoil
<1>5. CASE CallStep
  BY <1>5 DEF CallStep, Confirm, Commit, Invalidate, Request, Check, ReadFailed, Repair, Written
<1>6. CASE SessionStep \/ HostStep \/ Timeout
  BY <1>6 DEF SessionStep, HostStep, Command, SessionStart, Timeout, ReceiveError, DropFrame, RefuseFrame,
     Inquire, Inquired, WriteFrame, EraseSlot, EraseFails, ProgramChunk, ProgramFails, CommitFrame,
     Committed, Verified, Refused, AbortFrame, Aborted, RebootFrame, Sent, SendError
<1> QED
  BY <1>1, <1>2, <1>3, <1>4, <1>5, <1>6, StepKinds DEF Client

\* On a device whose flash and line do not fail, power cuts do not move the slot of a
\* session to the one that flash calls active, however many they are.
THEOREM SparedFromPowerCuts == ~FlashMayFail => (Spec => []SessionSparesActive)
<1>1. Init => Calm
  BY DEF Init, Calm
<1>2. Spec => []Calm
  BY <1>1, CalmKeeps, PTL DEF Spec
<1>3. ~FlashMayFail /\ Calm => ~trouble
  BY DEF Calm
<1> SUFFICES ASSUME ~FlashMayFail PROVE Spec => []SessionSparesActive
  OBVIOUS
<1> QED
  BY <1>2, <1>3, SessionsSpare, PTL

-----------------------------------------------------------------------------
(* What a session touches.                                                 *)

\* What the steps of a session do to the slots, and what it asks the API for: it chooses
\* its target once, erases and writes no other slot, and names it in every call.
LEMMA SessionMoves ==
  ASSUME CallInv, SessionStep \/ HostStep \/ Timeout
  PROVE  /\ pc = "uartRead" =>
              /\ image' = image /\ pc' \in {"listen", "uartEnd"}
              /\ pc' = "listen" => res = "OK" /\ sess'.target = Other(buf.active)
         /\ pc # "uartRead" =>
              /\ pc \in Serving /\ sess'.target = sess.target
              /\ \A s \in Slot \ {sess.target} : image'[s] = image[s]
         /\ pc' = "opRead" =>
              /\ sess'.back # "app" /\ pc # "uartRead"
              /\ call'.name \in {"invalidate", "verify", "commit"} /\ call'.slot = sess.target
<1> DEFINE Spares == \A s \in Slot \ {sess.target} : image'[s] = image[s]
           Asks == pc' = "opRead" =>
                     /\ sess'.back # "app"
                     /\ call'.name \in {"invalidate", "verify", "commit"}
                     /\ call'.slot = sess.target
           Goal == pc \in Serving /\ sess'.target = sess.target /\ Spares /\ Asks
<1>a. /\ sess \in Session /\ sess.target \in Slot /\ sess.draft \in Draft
      /\ sess.frame \in Frames \cup {NoFrame} /\ image \in Image
  BY SessionParts DEF CallInv, TypeOK
<1>b. /\ \A l \in SessionLabel : Goto(l) => pc' # "opRead"
      /\ \A s \in Session : \A r : Answer(s, r) => sess'.target = s.target /\ pc' # "opRead"
      /\ \A s \in Session : \A e : EndSession(s, e) => sess'.target = s.target /\ pc' # "opRead"
  BY DEF Goto, Answer, EndSession, Session, SessionLabel
<1>c. ASSUME NEW s \in Session, s.target = sess.target, NEW fw,
             NEW name \in {"invalidate", "verify", "commit"},
             NEW l \in {"listen", "committed", "verified", "refused", "aborted"},
             Ask(name, fw, s, l)
      PROVE  sess'.target = sess.target /\ Asks
  <2>1. sess' = [s EXCEPT !.back = l]
    BY <1>c DEF Ask, Begin
  <2>2. sess'.back = l /\ sess'.target = sess.target
    BY <1>c, <2>1 DEF Session
  <2>3. \/ pc' = l
        \/ call' = [name |-> name, slot |-> sess.target, fw |-> fw]
    BY <1>c, <2>1, <2>2 DEF Ask, Begin, Return, Goto
  <2> QED
    BY <2>2, <2>3
<1>d. \A s \in Session : s.target = sess.target /\ Refuse(s) => sess'.target = sess.target /\ Asks
  BY <1>c DEF Refuse
<1>e. \A f \in Frames : Received(f) \in Session /\ Received(f).target = sess.target
  BY <1>a DEF Received, Session
<1>f. /\ image' = image => Spares
      /\ \A c : SetTarget(c) => Spares
  BY <1>a DEF SetTarget, Image
<1> HIDE DEF Spares, Asks
<1> SUFFICES \/ Goal
             \/ /\ pc = "uartRead" /\ image' = image /\ pc' \in {"listen", "uartEnd"}
                /\ pc' = "listen" => res = "OK" /\ sess'.target = Other(buf.active)
  BY DEF Serving, SessionLabel, Asks, Spares
<1> USE DEF At, Serving, SessionLabel, history
<1>1. CASE SessionStart
  BY <1>1 DEF SessionStart, Goto, EndSession, NoSession
<1>2. CASE Timeout
  BY <1>2, <1>a, <1>b, <1>f DEF Timeout, Asks
<1>3. CASE ReceiveError \/ SendError
  BY <1>3, <1>a, <1>b, <1>f DEF ReceiveError, SendError, Asks
<1>4. CASE DropFrame
  BY <1>4, <1>a, <1>c, <1>f DEF DropFrame
<1>5. ASSUME NEW f \in Frames, Command(f) PROVE Goal
  <2>1. CASE RefuseFrame(f)
    BY <2>1, <1>b, <1>e, <1>f DEF RefuseFrame, Asks
  <2>2. CASE Inquire(f)
    <3>1. [Received(f) EXCEPT !.active = @ \/ f.cmd = "hello"].target = sess.target
      BY <1>e DEF Session
    <3> QED
      BY <2>2, <3>1, <1>f DEF Inquire, Read, Asks
  <2>3. CASE WriteFrame(f)
    BY <2>3, <1>b, <1>e, <1>f DEF WriteFrame, Asks
  <2>4. CASE CommitFrame(f)
    <3>1. Ask("commit", f.fw, Received(f), "committed") \/ Refuse(Received(f))
      BY <2>4 DEF CommitFrame
    <3>2. sess'.target = sess.target /\ Asks
      BY <3>1, <1>c, <1>d, <1>e
    <3> QED
      BY <2>4, <3>2, <1>f DEF CommitFrame
  <2>5. CASE AbortFrame(f)
    <3>1. Ask("invalidate", NoFirmware, Received(f), "aborted")
      BY <2>5 DEF AbortFrame
    <3>2. sess'.target = sess.target /\ Asks
      BY <3>1, <1>c, <1>e
    <3> QED
      BY <2>5, <3>2, <1>f DEF AbortFrame
  <2>6. CASE RebootFrame(f)
    <3>1. /\ [Received(f) EXCEPT !.reboot = TRUE] \in Session
          /\ [Received(f) EXCEPT !.reboot = TRUE].target = sess.target
      BY <1>e DEF Session
    <3> QED
      BY <2>6, <3>1, <1>b, <1>f DEF RebootFrame, Asks
  <2> QED
    BY <1>5, <2>1, <2>2, <2>3, <2>4, <2>5, <2>6 DEF Command
<1>6. CASE EraseSlot
  <2>1. [sess EXCEPT !.erased = TRUE, !.draft = Erased].target = sess.target
    BY <1>a DEF Session
  <2> QED
    BY <2>1, <1>6, <1>b, <1>f DEF EraseSlot, Asks
<1>7. CASE EraseFails
  BY <1>7, <1>a, <1>d, <1>f DEF EraseFails
<1>8. CASE ProgramChunk
  <2> DEFINE s == [sess EXCEPT !.draft = Programmed(sess.draft, sess.frame), !.written = sess.frame.end]
  <2>1. pc = "program" /\ Answer(s, "OK") /\ SetTarget(Contents(Programmed(sess.draft, sess.frame)))
    BY <1>8 DEF ProgramChunk
  <2>2. s \in Session /\ s.target = sess.target
    BY <1>a, DraftTypes, FrameTypes DEF Session
  <2> HIDE DEF s
  <2> QED
    BY <1>b, <1>f, <2>1, <2>2 DEF Asks
<1>9. CASE ProgramFails
  <2>1. PICK draft \in {sess.draft, Torn(sess.draft, sess.frame), Programmed(sess.draft, sess.frame)} :
          SetTarget(Contents(draft)) /\ Refuse([sess EXCEPT !.draft = draft])
    BY <1>9 DEF ProgramFails
  <2>2. draft \in Draft
    BY <1>a, DraftTypes
  <2>3. [sess EXCEPT !.draft = draft] \in Session /\ [sess EXCEPT !.draft = draft].target = sess.target
    BY <1>a, <2>2 DEF Session
  <2>4. pc = "program"
    BY <1>9 DEF ProgramFails
  <2> QED
    BY <1>d, <1>f, <2>1, <2>3, <2>4
<1>10. CASE Inquired
  BY <1>10, <1>a, <1>b, <1>f DEF Inquired, Asks
<1>11. CASE Committed
  BY <1>11, <1>a, <1>c, <1>d, <1>f DEF Committed
<1>12. CASE Verified
  <2>1. /\ [sess EXCEPT !.committed = TRUE] \in Session
        /\ [sess EXCEPT !.committed = TRUE].target = sess.target
    BY <1>a DEF Session
  <2>2. sess'.target = sess.target /\ Asks
    BY <1>12, <1>a, <1>b, <1>d, <2>1 DEF Verified, Asks
  <2> QED
    BY <1>12, <1>f, <2>2 DEF Verified
<1>13. CASE Refused
  BY <1>13, <1>a, <1>b, <1>f DEF Refused, Asks
<1>14. CASE Aborted
  <2>1. [sess EXCEPT !.active = FALSE] \in Session /\ [sess EXCEPT !.active = FALSE].target = sess.target
    BY <1>a DEF Session
  <2> QED
    BY <2>1, <1>14, <1>b, <1>f DEF Aborted, Asks
<1>15. CASE Sent
  <2>1. [sess EXCEPT !.reply = "none", !.frame = NoFrame].target = sess.target
    BY <1>a DEF Session
  <2> QED
    BY <2>1, <1>15, <1>b, <1>f DEF Sent, Asks
<1> QED
  BY <1>1, <1>2, <1>3, <1>4, <1>5, <1>6, <1>7, <1>8, <1>9, <1>10, <1>11, <1>12, <1>13, <1>14,
     <1>15
     DEF SessionStep, HostStep

-----------------------------------------------------------------------------
(* UpdateNeverStrands: the home slot, from which the application runs.     *)

\* The boot state boots from h: h is active, holds the firmware of its record, and the
\* other slot is none that the boot sequence falls back to.
AtHome(st, h) ==
  /\ st \in Good
  /\ st.active = h
  /\ st.slots[h].state \in {"VALID", "ACTIVE", "PENDING"}
  /\ ImageMatches(st, h)
  /\ st.slots[Other(h)].state \notin {"VALID", "ACTIVE"}

\* All there is of the boot state does, wherever a write or a restore is under way.
CopiesAtHome(h) ==
  /\ primary # Corrupt => AtHome(primary, h)
  /\ backup # Corrupt => AtHome(backup, h)
  /\ buf # Corrupt => AtHome(buf, h)
  /\ pc \in ContextLabel => AtHome(ctx.state, h)

\* What the count of faults says of the copies: they agree if nothing was cut short, and
\* one of them survives the first cut, also if it is followed by the erase of the only
\* copy, as long as that is not cut short as well.
SurvivorInv ==
  /\ faults = 0 =>
       /\ phase \in {"idle", "eraseP"} \cup Store!Reading => primary = backup /\ primary # Corrupt
       /\ phase \notin RestorePhase
       /\ phase = "writeP" => backup # Corrupt
  /\ primary # Corrupt \/ backup # Corrupt \/ phase = "writeP"

\* Who runs is the home slot, and makes the calls of the application.
OwnerHome(h) ==
  /\ pc \in {"jumped", "app"} \/ (pc \in CallLabel /\ sess.back = "app") => ctx.active = h
  /\ pc \in CallLabel /\ sess.back = "app" => call \in Calls
  /\ pc # "opHeader"

\* The invariant behind UpdateNeverStrands.
HomeInv(h) == CopiesAtHome(h) /\ SurvivorInv /\ OwnerHome(h)

\* An application that only updates the slot it does not run from: the device is
\* provisioned with a firmware in h and none to fall back to, an updater runs from h, and
\* the application neither formats the boot state nor invalidates its own slot.
UpdatesOnly(h) ==
  /\ Updater => h = "A"
  /\ \A p \in Provisioned :
       /\ p.state \in Good
       /\ p.state.active = h
       /\ p.state.slots[h].state \in {"VALID", "ACTIVE", "PENDING"}
       /\ p.state.slots[h].fw # NoFirmware /\ p.image[h] = p.state.slots[h].fw
       /\ p.state.slots[Other(h)].state \notin {"VALID", "ACTIVE"}
  /\ \A c \in Calls : c.name # "format" /\ (c.name = "invalidate" => c.slot # h)

-----------------------------------------------------------------------------
\* The edits that leave the home slot alone, or confirm, count or promote it.
LEMMA HomeEdits ==
  ASSUME NEW h \in Slot, NEW st, AtHome(st, h)
  PROVE  /\ st.slots[h].attempts < MaxAttempts => AtHome(AttemptEdit(st), h)
         /\ AtHome(SetSlotState(st, h, "ACTIVE"), h)
         /\ \A r \in Reason : AtHome([st EXCEPT !.reason = r], h)
         /\ AtHome(ConfirmEdit(st), h)
         /\ \A s \in Slot \ {h}, fw \in Firmware \cup {NoFirmware} : AtHome(CommitEdit(st, s, fw), h)
         /\ \A s \in Slot \ {h} : AtHome(InvalidateEdit(st, s), h)
         /\ AtHome(RequestEdit(st, h), h)
<1>a. /\ st \in Good /\ st \in Store!State /\ st.active = h
      /\ st.slots[h].state \in {"VALID", "ACTIVE", "PENDING"}
      /\ st.slots[h].fw # NoFirmware /\ image[h] = st.slots[h].fw
      /\ st.slots[Other(h)].state \notin {"VALID", "ACTIVE"}
      /\ Other(h) \in Slot /\ Other(h) # h
      /\ \A s \in Slot \ {h} : s = Other(h)
  BY StateTypes, Slots DEF AtHome, ImageMatches
<1>b. /\ \A v \in SlotState : SetSlotState(st, h, v) \in Good
      /\ st.slots[h].attempts < MaxAttempts => AttemptEdit(st) \in Good
      /\ \A r \in Reason : [st EXCEPT !.reason = r] \in Good
      /\ ConfirmEdit(st) \in Good
      /\ RequestEdit(st, h) \in Good
  BY <1>a, EditStates
<1>c. \A s \in Slot : /\ \A fw \in Firmware \cup {NoFirmware} : CommitEdit(st, s, fw) \in Good
                      /\ InvalidateEdit(st, s) \in Good
  BY <1>a, EditStates
<1>1. st.slots[h].attempts < MaxAttempts => AtHome(AttemptEdit(st), h)
  BY <1>a, <1>b, AttemptFields DEF AtHome, ImageMatches
<1>2. AtHome(SetSlotState(st, h, "ACTIVE"), h)
  BY <1>a, <1>b, SetFields DEF AtHome, ImageMatches, SlotState
<1>3. \A r \in Reason : AtHome([st EXCEPT !.reason = r], h)
  BY <1>a, <1>b, HeadFields DEF AtHome, ImageMatches
<1>4. AtHome(ConfirmEdit(st), h)
  <2>1. ConfirmEdit(st).slots[h].fw = st.slots[h].fw
    BY <1>a, StateTypes DEF StateOf, RecordOf, ConfirmEdit, SetSlotState
  <2> QED
    BY <1>a, <1>b, <2>1, ConfirmFields DEF AtHome, ImageMatches
<1>5. ASSUME NEW s \in Slot \ {h}, NEW fw \in Firmware \cup {NoFirmware}
      PROVE  AtHome(CommitEdit(st, s, fw), h)
  <2>0. st \in Store!State /\ s \in Slot /\ st.active = h
    BY <1>a
  <2>1. CommitEdit(st, s, fw).active = h
    BY <2>0, StateTypes DEF StateOf, CommitEdit
  <2>2. CommitEdit(st, s, fw).slots[s].state = "PENDING"
    BY <2>0, StateTypes DEF StateOf, CommitEdit
  <2>3. \A t \in Slot \ {s} : CommitEdit(st, s, fw).slots[t] = st.slots[t]
    BY <2>0, StateTypes DEF StateOf, CommitEdit
  <2> QED
    BY <1>a, <1>c, <2>1, <2>2, <2>3 DEF AtHome, ImageMatches
<1>6. ASSUME NEW s \in Slot \ {h} PROVE AtHome(InvalidateEdit(st, s), h)
  <2>1. /\ InvalidateEdit(st, s).active = h
        /\ InvalidateEdit(st, s).slots[s].state = "INVALID"
        /\ InvalidateEdit(st, s).slots[h] = st.slots[h]
    BY <1>a, InvalidateFields
  <2> QED
    BY <1>a, <1>c, <2>1 DEF AtHome, ImageMatches
<1>7. AtHome(RequestEdit(st, h), h)
  <2>1. RequestEdit(st, h).slots[h].fw = st.slots[h].fw
    BY <1>a, StateTypes DEF StateOf, RecordOf, RequestEdit, SetSlotState
  <2> QED
    BY <1>a, <1>b, <2>1, RequestFields DEF AtHome, ImageMatches
<1> QED
  BY <1>1, <1>2, <1>3, <1>4, <1>5, <1>6, <1>7

\* What the home slot is counted with is a number.
LEMMA HomeCounts ==
  ASSUME NEW h \in Slot, NEW st, AtHome(st, h)
  PROVE  st.slots[h].attempts \in Nat /\ MaxAttempts \in Nat
<1>1. \A s \in Slot : st.slots[s].attempts \in 0 .. MaxAttempts
  BY StateTypes, StateParts DEF AtHome
<1> QED
  BY <1>1, TypesAssumption

\* A boot state stays at home while the image of the home slot does.
LEMMA HomeImage ==
  ASSUME NEW h \in Slot, image'[h] = image[h], NEW st, AtHome(st, h)
  PROVE  AtHome(st, h)'
BY DEF AtHome, ImageMatches

\* A step that leaves alone the image of the home slot and the copies, and has a boot
\* state that is at home in RAM.
LEMMA HomeCopies ==
  ASSUME NEW h \in Slot, HomeInv(h), ClientStep, image'[h] = image[h],
         buf' = buf \/ AtHome(buf', h),
         pc' \in ContextLabel => AtHome(ctx'.state, h)
  PROVE  CopiesAtHome(h)' /\ SurvivorInv'
<1>1. primary' = primary /\ backup' = backup /\ faults' = faults /\ phase = "idle"
      /\ phase' \in {"idle", "readP", "headerP", "eraseP"}
  BY DEF ClientStep
<1>2. SurvivorInv'
  BY <1>1 DEF HomeInv, SurvivorInv, RestorePhase, Store!Reading
<1>3. \A st : AtHome(st, h) => AtHome(st, h)'
  BY HomeImage
<1>4. CopiesAtHome(h)'
  BY <1>1, <1>3 DEF HomeInv, CopiesAtHome, AtHome, ImageMatches
<1> QED
  BY <1>2, <1>4

-----------------------------------------------------------------------------
\* The steps of the store keep the invariant.
LEMMA StoreHome ==
  ASSUME NEW h \in Slot, CallInv, HomeInv(h), StoreStep
  PROVE  HomeInv(h)'
<1>a. /\ {primary', backup', buf'} \subseteq {primary, backup, buf, Corrupt}
      /\ UNCHANGED <<pc, ctx, image, call, ret, sess>>
  BY QuietMoves
<1>1. CopiesAtHome(h)'
  BY <1>a DEF HomeInv, CopiesAtHome, AtHome, ImageMatches
<1>2. OwnerHome(h)'
  BY <1>a DEF HomeInv, OwnerHome
<1>3. SurvivorInv'
  <2>a. /\ primary \in Good \/ primary = Corrupt
        /\ backup \in Good \/ backup = Corrupt
        /\ phase \in Store!Mutating => buf \in Store!State /\ buf # Corrupt
        /\ Corrupt \notin Good
    BY StateTypes DEF HomeInv, CopiesAtHome, AtHome, CallInv, TypeOK, Store!TypeOK
  <2>b. /\ phase \in {"readB", "headerB"} \cup RestorePhase => primary \notin Good
        /\ phase \in RestorePhase => buf = backup
        /\ phase \in {"eraseB", "writeB"} => primary = buf
    BY DEF CallInv, CopyInv
  <2>c. SurvivorInv
    BY DEF HomeInv
  <2> USE DEF SurvivorInv, RestorePhase, Store!Reading, Store!Mutating, Store!ErasingPrimary,
          Store!WritingPrimary, Store!Return, Store!Synced
  <2>0. Store!Step
    BY DEF StoreStep
  <2>1. CASE Store!ReadPrimary \/ Store!HeaderPrimary
    BY <2>1, <2>a, <2>c DEF Store!ReadPrimary, Store!HeaderPrimary, Store!State
  <2>2. CASE Store!ReadBackup \/ Store!HeaderBackup
    BY <2>2, <2>a, <2>b, <2>c DEF Store!ReadBackup, Store!HeaderBackup
  <2>3. CASE Store!ErasePrimary
    BY <2>3, <2>a, <2>b, <2>c DEF Store!ErasePrimary
  <2>4. CASE Store!WritePrimary
    BY <2>4, <2>a, <2>c DEF Store!WritePrimary
  <2>5. CASE Store!RestorePrimary
    BY <2>5, <2>a, <2>b, <2>c DEF Store!RestorePrimary
  <2>6. CASE Store!EraseBackup
    BY <2>6, <2>a, <2>b, <2>c DEF Store!EraseBackup
  <2>7. CASE Store!WriteBackup
    BY <2>7, <2>a, <2>b, <2>c DEF Store!WriteBackup
  <2> QED
    BY <2>0, <2>1, <2>2, <2>3, <2>4, <2>5, <2>6, <2>7 DEF Store!Step
<1> QED
  BY <1>1, <1>2, <1>3 DEF HomeInv

\* So does the only power cut that falls into an erase or a write, and any other.
LEMMA CutHome ==
  ASSUME NEW h \in Slot, CallInv, HomeInv(h), PowerCut, faults' <= 1
  PROVE  HomeInv(h)'
<1>a. /\ {primary', backup', buf'} \subseteq {primary, backup, buf, Corrupt}
      /\ pc' = "off" /\ phase' = "idle" /\ image' = image
  BY CutShortCases DEF CallInv, TypeOK, PowerCut, Store!PowerCut
<1>1. CopiesAtHome(h)' /\ OwnerHome(h)'
  BY <1>a DEF HomeInv, CopiesAtHome, OwnerHome, AtHome, ImageMatches, ContextLabel, BootLabel,
     CallLabel
<1>2. SurvivorInv'
  <2>a. /\ phase \in Store!Mutating => buf # Corrupt
        /\ primary \in Good \/ primary = Corrupt
        /\ Corrupt \notin Good
        /\ faults \in Nat
    BY StateTypes, ProvisionedAssumption DEF HomeInv, CopiesAtHome, AtHome, CallInv, TypeOK, Store!TypeOK
  <2>b. /\ phase \in {"readB", "headerB"} => primary \notin Good
        /\ phase \in {"eraseB", "writeB"} => primary = buf
    BY DEF CallInv, CopyInv
  <2>c. SurvivorInv /\ Store!CutShort
    BY DEF HomeInv, PowerCut, Store!PowerCut
  <2> USE DEF SurvivorInv, RestorePhase, Store!Reading, Store!Mutating, Store!ErasingPrimary,
          Store!WritingPrimary
  <2>1. CASE phase \notin Store!Mutating
    <3>1. primary' = primary /\ backup' = backup /\ faults' = faults
      BY <2>1, <2>c DEF Store!CutShort, Store!PrimaryCutShort, Store!BackupCutShort
    <3>2. phase \in {"idle"} \cup Store!Reading
      BY <2>1 DEF CallInv, TypeOK, Store!TypeOK, Store!Phase
    <3> QED
      BY <1>a, <2>c, <3>1, <3>2
  <2>2. CASE phase \in Store!Mutating
    <3>1. faults = 0 /\ faults' = 1
      BY <2>2, <2>a, <2>c DEF Store!CutShort
    <3>2. CASE phase \in {"eraseP", "writeP"}
      <4>1. backup' = backup /\ backup # Corrupt
        BY <2>c, <3>1, <3>2 DEF Store!CutShort, Store!BackupCutShort
      <4> QED
        BY <1>a, <3>1, <4>1
    <3>3. CASE phase \in {"eraseB", "writeB"}
      <4>1. primary' = primary /\ primary # Corrupt
        BY <2>a, <2>b, <2>c, <3>3 DEF Store!CutShort, Store!PrimaryCutShort
      <4> QED
        BY <1>a, <3>1, <4>1
    <3> QED
      BY <2>2, <2>c, <3>1, <3>2, <3>3
  <2> QED
    BY <2>1, <2>2
<1> QED
  BY <1>1, <1>2 DEF HomeInv

\* So does the boot sequence: it has nowhere else to go.
LEMMA BootHome ==
  ASSUME NEW h \in Slot, SessionInv, HomeInv(h), BootStep, ~trouble, ~trouble'
  PROVE  HomeInv(h)'
<1>a. CallInv /\ BootInv
  BY DEF SessionInv, BootInv
<1>b. ClientStep /\ phase = "idle" /\ pc \in BootLabel \cup {"uartEnd"} /\ image' = image
      /\ pc' \in BootNext
  BY <1>a, BootAt, BootClient
<1> DEFINE Keeps == /\ buf' = buf \/ AtHome(buf', h)
                    /\ pc' \in ContextLabel => AtHome(ctx'.state, h)
                    /\ pc' = "jumped" => ctx'.active = h
<1>c. Keeps => HomeInv(h)'
  <2> SUFFICES ASSUME Keeps PROVE HomeInv(h)'
    OBVIOUS
  <2>1. CopiesAtHome(h)' /\ SurvivorInv'
    BY <1>b, HomeCopies
  <2>2. OwnerHome(h)'
    BY <1>b DEF OwnerHome, BootNext, BootLabel, CallLabel
  <2> QED
    BY <2>1, <2>2 DEF HomeInv
<1> SUFFICES Keeps
  BY <1>c
\* What the calls of the store have returned.
<1>d. pc \in ReadLabel => res = "OK" /\ AtHome(buf, h)
  <2>1. primary \in Good \/ backup \in Good
    BY <1>b DEF HomeInv, SurvivorInv, CopiesAtHome, AtHome
  <2>2. pc \in ReadLabel => res = "OK" /\ buf \in Good
    BY <1>a, <1>b, <2>1 DEF CallInv, ReturnInv
  <2> QED
    BY <2>2, StateTypes DEF HomeInv, CopiesAtHome
<1>e. pc \in WriteLabel => AtHome(buf, h)
  BY <1>a, StateTypes DEF CallInv, CopyInv, HomeInv, CopiesAtHome
<1>f. pc \in ContextLabel =>
        /\ AtHome(ctx.state, h) /\ Active = h
        /\ ActiveRecord.state \in {"VALID", "ACTIVE", "PENDING"}
        /\ ImageMatches(ctx.state, Active)
  BY DEF HomeInv, CopiesAtHome, AtHome, Active, ActiveRecord
<1>g. ctx \in Context /\ ctx.reason \in Reason
  BY <1>a DEF CallInv, TypeOK, Context
<1>h. \A st : SetState(st) => ctx'.state = st
  BY <1>g DEF SetState, Context
<1>i. /\ \A l : Goto(l) => pc' = l /\ buf' = buf
      /\ \A l : Read(l) => pc' = l /\ buf' = buf
      /\ \A st, l : Write(st, l) => pc' = l /\ buf' = st
  BY DEF Goto, Read, Write, storeVars, Store!BeginRead, Store!BeginWrite
<1> USE DEF At, Fatal, Listen, ContextLabel, BootLabel, ReadLabel, WriteLabel
<1>1. CASE AfterRead \/ AfterReread \/ AfterSessionReread
  BY <1>1, <1>d, <1>h, <1>i DEF AfterRead, AfterReread, AfterSessionReread
<1>2. CASE AfterFormat \/ AfterSession
  BY <1>2, <1>i DEF AfterFormat, AfterSession
<1>3. CASE Select
  BY <1>3, <1>f, <1>i DEF Select
<1>4. CASE AfterFallback \/ AfterAttempt \/ AfterSpoil \/ RecordFailed
  BY <1>4, <1>f, <1>i DEF AfterFallback, AfterAttempt, AfterSpoil, RecordFailed
<1>5. CASE CheckAttempts
  <2>1. ActiveRecord.attempts < MaxAttempts => AtHome(AttemptEdit(ctx.state), h)
    BY <1>5, <1>f, HomeEdits DEF CheckAttempts, ActiveRecord, Active
  <2>2. ActiveRecord.attempts \in Nat /\ MaxAttempts \in Nat
    BY <1>5, <1>f, HomeCounts DEF CheckAttempts, ActiveRecord, Active
  <2>3. ActiveRecord.attempts >= MaxAttempts \/ ActiveRecord.attempts < MaxAttempts
    BY <2>2
  <2> QED
    BY <1>5, <1>f, <1>h, <1>i, <2>1, <2>3 DEF CheckAttempts
<1>6. CASE RollbackRead
  <2>1. buf.slots[Other(Active)].state # "VALID"
    BY <1>6, <1>d, <1>f DEF RollbackRead, AtHome
  <2> QED
    BY <1>6, <1>i, <2>1 DEF RollbackRead
<1>7. CASE RollbackWrite
  BY <1>7, <1>e, <1>i DEF RollbackWrite
<1>8. CASE Verify
  BY <1>8, <1>f, <1>i DEF Verify
<1>9. CASE VerifyReadError
  BY <1>9 DEF VerifyReadError
<1>10. CASE Promote
  <2>1. AtHome(SetSlotState(ctx.state, Active, "ACTIVE"), h)
    BY <1>10, <1>f, HomeEdits DEF Promote
  <2>2. \/ SetState(SetSlotState(ctx.state, Active, "ACTIVE"))
           /\ Write(SetSlotState(ctx.state, Active, "ACTIVE"), "promoted")
        \/ ctx'.state = ctx.state /\ Goto("record")
    BY <1>10, <1>g DEF Promote, Context
  <2> QED
    BY <1>10, <1>f, <1>h, <1>i, <2>1, <2>2 DEF Promote
<1>11. CASE AfterPromote
  <2>1. (ctx'.state = ctx.state /\ Goto("record")) \/ Goto("fatal")
    BY <1>11, <1>g DEF AfterPromote, Context
  <2> QED
    BY <1>11, <1>f, <1>i, <2>1 DEF AfterPromote
<1>12. CASE RecordReason
  <2>1. AtHome([ctx.state EXCEPT !.reason = ctx.reason], h)
    BY <1>12, <1>f, <1>g, HomeEdits DEF RecordReason
  <2> QED
    BY <1>12, <1>h, <1>i, <2>1 DEF RecordReason
<1>13. CASE HandOff
  <2>1. [ctx EXCEPT !.active = Active].active = Active
    BY <1>g DEF Context
  <2> QED
    BY <1>13, <1>f, <1>i, <2>1 DEF HandOff
<1> QED
  BY <1>1, <1>2, <1>3, <1>4, <1>5, <1>6, <1>7, <1>8, <1>9, <1>10, <1>11, <1>12, <1>13 DEF BootStep

\* So does a call, which comes from the home slot or from a session for the other one.
LEMMA CallHome ==
  ASSUME NEW h \in Slot, UpdatesOnly(h), SessionInv, HomeInv(h), CallStep, ~trouble
  PROVE  HomeInv(h)'
<1>a. CallInv /\ BootInv
  BY DEF SessionInv, BootInv
<1>b. /\ ClientStep /\ phase = "idle" /\ pc \in CallLabel /\ image' = image /\ sess' = sess
      /\ pc' \in CallLabel \cup {sess.back} /\ sess.back \in SessionLabel \cup {"app"}
      /\ sess.back \notin BootLabel \cup CallLabel
  BY <1>a, CallAt, CallClient, BackLabel DEF CallInv, TypeOK
<1>c. call \in AllCalls /\ call.slot \in Slot /\ call.fw \in Firmware \cup {NoFirmware}
      /\ ctx \in Context
  BY <1>a, <1>b, CallParts DEF CallInv, TypeOK, RunningInv
<1>d. primary \in Good \/ backup \in Good
  BY <1>b DEF HomeInv, SurvivorInv, CopiesAtHome, AtHome
<1>e. pc = "opRead" => res = "OK" /\ primary = buf /\ AtHome(buf, h) /\ buf.active = h
  <2>1. pc = "opRead" => res = "OK" /\ primary = buf /\ buf \in Good
    BY <1>a, <1>b, <1>d DEF CallInv, ReturnInv, ReadLabel
  <2> QED
    BY <2>1, StateTypes DEF HomeInv, CopiesAtHome, AtHome
<1>f. pc # "opHeader" /\ (sess.back = "app" => call \in Calls /\ ctx.active = h)
  BY <1>b DEF HomeInv, OwnerHome
<1>g. call.name = "invalidate" /\ pc = "opRead" => call.slot \in Slot \ {h}
  <2>1. CASE sess.back = "app"
    BY <1>c, <1>f, <2>1 DEF UpdatesOnly
  <2>2. CASE sess.back # "app"
    <3>1. call.slot = sess.target
      BY <1>b, <2>2 DEF SessionInv, ServeInv, AskInv
    <3>2. pc = "opRead" => primary.active # sess.target
      BY <2>2 DEF SessionInv, ServeInv, TargetInv, Asking
    <3> QED
      BY <1>c, <1>e, <3>1, <3>2
  <2> QED
    BY <2>1, <2>2
<1> DEFINE Keeps == /\ buf' = buf \/ AtHome(buf', h)
                    /\ ctx'.active = ctx.active
                    /\ pc' \in CallLabel => call' = call /\ pc' # "opHeader"
<1>h. Keeps => HomeInv(h)'
  <2> SUFFICES ASSUME Keeps PROVE HomeInv(h)'
    OBVIOUS
  <2>1. CopiesAtHome(h)' /\ SurvivorInv'
    BY <1>b, HomeCopies DEF ContextLabel, BootLabel, CallLabel
  <2>2. OwnerHome(h)'
    BY <1>b, <1>f DEF OwnerHome, SessionLabel, CallLabel
  <2> QED
    BY <2>1, <2>2 DEF HomeInv
<1> SUFFICES Keeps
  BY <1>h
<1>i. /\ \A r : Finish(r) => pc' = sess.back /\ buf' = buf
      /\ \A st : Write(st, "opWrite") => pc' = "opWrite" /\ buf' = st
  BY DEF Finish, Return, Goto, storeVars, Write, Store!BeginWrite
<1> USE DEF At, HasRead
<1>1. CASE Confirm
  <2>1. AtHome(ConfirmEdit(buf), h)
    BY <1>1, <1>e, HomeEdits DEF Confirm
  <2> QED
    BY <1>1, <1>b, <1>i, <2>1 DEF Confirm, WriteIf, CallLabel
<1>2. CASE Commit
  <2>1. buf.active # call.slot => AtHome(CommitEdit(buf, call.slot, call.fw), h)
    BY <1>2, <1>c, <1>e, HomeEdits DEF Commit
  <2> QED
    BY <1>2, <1>b, <1>i, <2>1 DEF Commit, WriteIf, CallLabel
<1>3. CASE Invalidate
  <2>1. AtHome(InvalidateEdit(buf, call.slot), h)
    BY <1>3, <1>e, <1>g, HomeEdits DEF Invalidate
  <2> QED
    BY <1>3, <1>b, <1>i, <2>1 DEF Invalidate, WriteIf, CallLabel
<1>4. CASE Request
  <2>1. buf.slots[call.slot].state \in {"VALID", "ACTIVE"} => call.slot = h
    BY <1>4, <1>c, <1>e, Slots DEF Request, AtHome
  <2>2. buf.slots[call.slot].state \in {"VALID", "ACTIVE"} => AtHome(RequestEdit(buf, call.slot), h)
    BY <1>4, <1>e, <2>1, HomeEdits DEF Request
  <2> QED
    BY <1>4, <1>b, <1>i, <2>2 DEF Request, WriteIf, CallLabel
<1>5. CASE Check
  <2>1. (\E r : Finish(r)) /\ ctx' = ctx
    BY <1>5 DEF Check
  <2> QED
    BY <1>b, <1>i, <2>1
<1>6. CASE ReadFailed
  BY <1>6, <1>e DEF ReadFailed
<1>7. CASE Repair
  BY <1>7, <1>f DEF Repair
<1>8. CASE Written
  <2>1. ctx'.active = ctx.active
    BY <1>8, <1>c DEF Written, Context
  <2> QED
    BY <1>8, <1>b, <1>i, <2>1 DEF Written
<1> QED
  BY <1>1, <1>2, <1>3, <1>4, <1>5, <1>6, <1>7, <1>8 DEF CallStep

\* So does a session, which writes the other slot.
LEMMA SessionHome ==
  ASSUME NEW h \in Slot, SessionInv, HomeInv(h), SessionStep \/ HostStep \/ Timeout, ~trouble
  PROVE  HomeInv(h)'
<1>a. CallInv
  BY DEF SessionInv, BootInv
<1>b. /\ ClientStep /\ phase = "idle" /\ pc' \in SessionLabel \cup {"opRead"} /\ ctx' = ctx
      /\ pc' = "opRead" => sess'.back # "app"
  BY <1>a, SessionAt, SessionClient, SessionMoves
<1>c. buf' = buf
  BY <1>b DEF ClientStep, SessionLabel, WriteLabel
<1>d. image'[h] = image[h]
  <2>1. CASE pc = "uartRead"
    BY <1>a, <2>1, SessionMoves
  <2>2. CASE pc # "uartRead"
    <3>1. pc \in Serving /\ \A s \in Slot \ {sess.target} : image'[s] = image[s]
      BY <1>a, <2>2, SessionMoves
    <3>2. primary \in Good /\ primary.active # sess.target
      BY <3>1 DEF SessionInv, ServeInv, TargetInv, Asking
    <3>3. primary.active = h
      BY <3>2, StateTypes DEF HomeInv, CopiesAtHome, AtHome
    <3> QED
      BY <3>1, <3>2, <3>3
  <2> QED
    BY <2>1, <2>2
<1>1. CopiesAtHome(h)' /\ SurvivorInv'
  BY <1>b, <1>c, <1>d, HomeCopies DEF ContextLabel, BootLabel, SessionLabel
<1>2. OwnerHome(h)'
  BY <1>b DEF OwnerHome, SessionLabel, CallLabel
<1> QED
  BY <1>1, <1>2 DEF HomeInv

\* So does the application.
LEMMA AppHome ==
  ASSUME NEW h \in Slot, UpdatesOnly(h), SessionInv, HomeInv(h), AppStep
  PROVE  HomeInv(h)'
<1>a. CallInv
  BY DEF SessionInv, BootInv
<1>b. ClientStep /\ phase = "idle" /\ pc \in {"off", "jumped", "app"}
      /\ image \in Image /\ ctx \in Context
  BY <1>a, AppClient, AppAt DEF CallInv, TypeOK
<1>c. pc \in {"jumped", "app"} => ctx.active = h
  BY DEF HomeInv, OwnerHome
<1>d. sess = NoSession /\ sess.back = "app"
  BY <1>b DEF SessionInv, ServeInv, OwnerInv, NoSession, SessionLabel, CallLabel
<1> DEFINE Keeps == /\ buf' = buf /\ image'[h] = image[h] /\ sess' = sess
                    /\ pc' \in {"read", "app", "opRead"}
                    /\ pc' \in {"app", "opRead"} => ctx'.active = h
                    /\ pc' = "opRead" => call' \in Calls
<1> SUFFICES Keeps
  <2>1. CopiesAtHome(h)' /\ SurvivorInv'
    BY <1>b, HomeCopies DEF ContextLabel, BootLabel
  <2>2. OwnerHome(h)'
    BY <1>d DEF OwnerHome, CallLabel
  <2> QED
    BY <2>1, <2>2 DEF HomeInv
<1>i. /\ \A l : Goto(l) => pc' = l /\ buf' = buf
      /\ \A l : Read(l) => pc' = l /\ buf' = buf
  BY DEF Goto, Read, storeVars, Store!BeginRead
<1> USE DEF At, appVars
<1>1. CASE PowerOn
  BY <1>1, <1>i DEF PowerOn
<1>2. CASE AppStart
  BY <1>2, <1>c, <1>i DEF AppStart
<1>3. CASE UpdaterStart
  BY <1>3, <1>i DEF UpdaterStart, UpdatesOnly, InitContext
<1>4. ASSUME NEW c \in Calls, Invoke(c) PROVE Keeps
  <2>1. /\ sess' = sess /\ image' = image /\ ctx' = ctx /\ pc = "app"
        /\ \/ Return(sess.back, "INVALID_ARG")
           \/ call' = c /\ Read("opRead")
    BY <1>4 DEF Invoke, Begin
  <2> QED
    BY <1>c, <1>d, <1>i, <2>1 DEF Return
<1>5. ASSUME NEW c \in Calls, Format(c) PROVE FALSE
  BY <1>5 DEF Format, UpdatesOnly
<1>6. ASSUME NEW f \in Firmware \cup {Junk}, AppWritesImage(f) PROVE Keeps
  BY <1>6, <1>b, <1>c, Slots DEF AppWritesImage, Image, storeVars
<1> QED
  BY <1>1, <1>2, <1>3, <1>4, <1>5, <1>6 DEF AppStep

\* A device that is switched on for the first time satisfies it.
LEMMA HomeInit ==
  ASSUME NEW h \in Slot, UpdatesOnly(h), Init
  PROVE  HomeInv(h)
<1>1. /\ \E p \in Provisioned : primary = p.state /\ image = p.image
      /\ backup = primary /\ buf = Corrupt /\ phase = "idle" /\ faults = 0 /\ pc = "off"
  BY DEF Init, Store!Init
<1>2. AtHome(primary, h) /\ primary # Corrupt
  BY <1>1, StateTypes DEF UpdatesOnly, AtHome, ImageMatches
<1> QED
  BY <1>1, <1>2 DEF HomeInv, CopiesAtHome, SurvivorInv, RestorePhase, OwnerHome, ContextLabel,
     BootLabel, CallLabel

\* Every step keeps it, as long as no flash operation fails and a second one is not cut
\* short before the copies agree again.
LEMMA HomeNext ==
  ASSUME NEW h \in Slot, UpdatesOnly(h), SessionInv, HomeInv(h), [Next]_vars,
         ~trouble, ~trouble', faults' <= 1
  PROVE  HomeInv(h)'
<1>a. CallInv
  BY DEF SessionInv, BootInv
<1>1. CASE UNCHANGED vars
  BY <1>1 DEF vars, storeVars, appVars, HomeInv, CopiesAtHome, AtHome, ImageMatches, SurvivorInv,
     OwnerHome
<1>2. CASE FlashError
  BY <1>2 DEF FlashError
<1> QED
  BY <1>a, <1>1, <1>2, StepKinds, StoreHome, CutHome, BootHome, CallHome, SessionHome, AppHome
     DEF Client

\* Where the boot sequence gives up, the firmware of the home slot is intact and on record:
\* only its attempts are exhausted.
LEMMA HomeStays ==
  ASSUME NEW h \in Slot, SessionInv, HomeInv(h), ~trouble
  PROVE  UpdateNeverStrands
<1> SUFFICES ASSUME pc = "fatal"
             PROVE  /\ Store!Readable # Corrupt
                    /\ Store!Readable.slots[Store!Readable.active].attempts >= MaxAttempts
  BY DEF UpdateNeverStrands
<1>1. phase = "idle"
  BY DEF SessionInv, BootInv, CallInv, WaitInv, StoreLabel, ReadLabel, WriteLabel
<1>2. AtHome(Store!Readable, h) /\ Store!Readable # Corrupt
  BY <1>1, StateTypes DEF HomeInv, SurvivorInv, CopiesAtHome, AtHome, Store!Readable, Store!Meaning
<1>3. ~ Selectable(Store!Readable, h)
  BY <1>2 DEF SessionInv, BootInv, GivesUpOnlyWithoutSlot
<1>4. ~ (Store!Readable.slots[h].attempts < MaxAttempts)
  BY <1>2, <1>3 DEF Selectable, AtHome
<1>5. Store!Readable.slots[h].attempts \in Nat /\ MaxAttempts \in Nat
  BY <1>2, HomeCounts
<1> QED
  BY <1>2, <1>4, <1>5 DEF AtHome

\* An application that only updates the slot it does not run from cannot strand the
\* device: whatever calls it makes, whatever a host sends and wherever power is cut (once
\* before the copies agree again), the boot gives up only over exhausted attempts.
THEOREM UpdatesStrandNothing ==
  ASSUME NEW h \in Slot, UpdatesOnly(h)
  PROVE  Spec /\ [](~trouble /\ faults <= 1) => []UpdateNeverStrands
<1>1. Init => HomeInv(h)
  BY HomeInit
<1>2. SessionInv /\ HomeInv(h) /\ [Next]_vars /\ (~trouble /\ faults <= 1) /\ (~trouble /\ faults <= 1)'
        => HomeInv(h)'
  BY HomeNext
<1>3. SessionInv /\ HomeInv(h) /\ (~trouble /\ faults <= 1) => UpdateNeverStrands
  BY HomeStays
<1> QED
  BY SessionInvariant, <1>1, <1>2, <1>3, PTL DEF Spec

\* The same of a device whose flash and line do not fail and whose power is cut once.
THEOREM OneCutStrandsNothing ==
  ASSUME NEW h \in Slot, UpdatesOnly(h), ~FlashMayFail, MaxFaults <= 1
  PROVE  Spec => []UpdateNeverStrands
<1>1. Init => Calm
  BY DEF Init, Calm
<1>2. Spec => []Calm
  BY <1>1, CalmKeeps, PTL DEF Spec
<1>3. TypeOK /\ Calm => ~trouble /\ faults <= 1
  <2>1. TypeOK => faults \in Nat /\ faults <= MaxFaults
    BY ProvisionedAssumption DEF TypeOK, Store!TypeOK
  <2> QED
    BY <2>1, ProvisionedAssumption DEF Calm
<1> QED
  BY <1>2, <1>3, DeviceTypes, UpdatesStrandNothing, PTL
=============================================================================

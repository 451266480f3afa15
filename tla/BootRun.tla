------------------------------- MODULE BootRun --------------------------------
(***************************************************************************)
(* loxboot_init and loxboot_run (src/src/loxboot_core.c): the boot         *)
(* sequence from power-on to the jump into the application, or to fatal.   *)
(*                                                                         *)
(* The sequence is synchronous: it calls the store (StateStore), waits for *)
(* the call to return, and goes on with its result, so a label of pc is a  *)
(* point between two store calls.  Steps of the store run in between.      *)
(*                                                                         *)
(* Step [1.5] hands the processor to a UART session (UartSession), if the  *)
(* port is built.  Not here: the checks of the adapters and address ranges *)
(* in loxboot_init, which are taken as passed.                             *)
(***************************************************************************)
EXTENDS BootTypes

CONSTANTS
  Corrupt,       \* see StateStore
  MaxFaults,     \* see StateStore
  FlashMayFail,  \* do flash, platform and transport calls return errors?
  Uart           \* is step [1.5] built in, and a transport configured?

VARIABLES
  primary, backup, phase, buf, res, faults, formatted,   \* see StateStore
  image,      \* contents of the two firmware slots
  pc,         \* where the processor is
  ctx,        \* loxboot_t: boot_reason, active_slot and the copy of the state
  call, ret,  \* the call of the API under way, see BootApi
  sess,       \* the UART session, see UartSession
  trouble,    \* history: a flash or platform call failed since power-on
  boots,      \* history: hand-offs to a slot since the code last cleared its
              \* attempts on purpose
  refused     \* history: the slots whose firmware was refused, and is on record
              \* as INVALID or ROLLBACK

storeVars == <<primary, backup, phase, buf, res, faults, formatted>>
appVars   == <<image, call, ret, sess>>
history   == <<trouble, boots, refused>>

Store == INSTANCE StateStore

BootLabel ==
  {"read", "format", "reread", "rereadUart", "select", "fallback", "check", "rbRead", "rbWrite",
   "attempt", "verify", "spoiled", "promote", "promoted", "record", "recorded"}

Image   == [Slot -> Firmware \cup {Junk}]
Context == [reason : Reason, active : Slot, state : Good \cup HeaderOnly]

InitContext == [reason |-> "UNKNOWN", active |-> "A", state |-> ZeroState]

-----------------------------------------------------------------------------
\* The processor is at label l and no store call is under way.
At(l) == pc = l /\ phase = "idle"

\* Go on at l, with or without a store call on the way.
Goto(l)      == pc' = l /\ UNCHANGED storeVars
Read(l)      == pc' = l /\ Store!BeginRead
Write(st, l) == pc' = l /\ Store!BeginWrite(st)

\* hal.on_fatal and the endless loop after it.
Fatal == Goto("fatal")

SetState(st) == ctx' = [ctx EXCEPT !.state = st]

Active       == ctx.state.active
ActiveRecord == ctx.state.slots[Active]

-----------------------------------------------------------------------------
\* loxboot_init, and step [1] up to the first read of the boot state.
PowerOn ==
  /\ At("off")
  /\ ctx' = InitContext
  /\ Read("read")
  /\ trouble' = FALSE
  /\ UNCHANGED <<appVars, boots, refused>>

\* [1.5] A UART session begins by reading the boot state.
Listen == IF Uart THEN Read("uartRead") ELSE Goto("select")

\* [1] A corrupt store is formatted and read again.
AfterRead ==
  /\ At("read")
  /\ \/ res = "OK" /\ SetState(buf) /\ Listen /\ UNCHANGED boots
     \/ /\ res = "CORRUPT"
        /\ Write(DefaultState("A"), "format")
        /\ boots' = [s \in Slot |-> 0]
        /\ UNCHANGED ctx
     \/ res = "FLASH" /\ Fatal /\ UNCHANGED <<ctx, boots>>
  /\ UNCHANGED <<appVars, trouble, refused>>

AfterFormat ==
  /\ At("format")
  /\ IF res = "OK" THEN Read("reread") ELSE Fatal
  /\ UNCHANGED <<ctx, appVars, history>>

AfterReread ==
  /\ At("reread")
  /\ IF res = "OK" THEN SetState(buf) /\ Listen ELSE Fatal /\ UNCHANGED ctx
  /\ UNCHANGED <<appVars, history>>

\* [1.5] The session has returned: an error is fatal, otherwise the state that
\* it may have changed is read again.
AfterSession ==
  /\ At("uartEnd")
  /\ IF sess.err = "OK" THEN Read("rereadUart") ELSE Fatal
  /\ sess' = NoSession
  /\ UNCHANGED <<ctx, image, call, ret, history>>

AfterSessionReread ==
  /\ At("rereadUart")
  /\ IF res = "OK" THEN SetState(buf) /\ Goto("select") ELSE Fatal /\ UNCHANGED ctx
  /\ UNCHANGED <<appVars, history>>

\* Faulty variant: the fallback is not recorded before the attempt is counted.
SelectUnrecorded ==
  /\ At("select")
  /\ IF ActiveRecord.state \notin {"EMPTY", "INVALID"}
       THEN Goto("check") /\ UNCHANGED ctx
       ELSE IF ctx.state.slots[Other(Active)].state \in {"VALID", "ACTIVE"}
         THEN SetState(FallbackEdit(ctx.state)) /\ Goto("check")
         ELSE Fatal /\ UNCHANGED ctx
  /\ UNCHANGED <<appVars, history>>

\* [2] boot_retry: the active slot, or the other one if it holds a firmware.
Select ==
  /\ At("select")
  /\ \/ /\ ActiveRecord.state \notin {"EMPTY", "INVALID"}
        /\ Goto("check")
        /\ UNCHANGED ctx
     \/ /\ ActiveRecord.state \in {"EMPTY", "INVALID"}
        /\ ctx.state.slots[Other(Active)].state \in {"VALID", "ACTIVE"}
        /\ SetState(FallbackEdit(ctx.state))
        /\ Write(FallbackEdit(ctx.state), "fallback")
     \/ /\ ActiveRecord.state \in {"EMPTY", "INVALID"}
        /\ ctx.state.slots[Other(Active)].state \notin {"VALID", "ACTIVE"}
        /\ Fatal
        /\ UNCHANGED ctx
  /\ UNCHANGED <<appVars, history>>

AfterFallback ==
  /\ At("fallback")
  /\ IF res = "OK" THEN Goto("check") ELSE Fatal
  /\ UNCHANGED <<ctx, appVars, history>>

\* Faulty variant: one attempt too many.
CheckAttemptsOffByOne ==
  /\ At("check")
  /\ IF ActiveRecord.attempts > MaxAttempts
       THEN Read("rbRead") /\ UNCHANGED ctx
       ELSE SetState(AttemptEdit(ctx.state)) /\ Write(AttemptEdit(ctx.state), "attempt")
  /\ UNCHANGED <<appVars, history>>

\* [3] and [4] Roll back at the limit, otherwise count this attempt first.
CheckAttempts ==
  /\ At("check")
  /\ IF ActiveRecord.attempts >= MaxAttempts
       THEN Read("rbRead") /\ UNCHANGED ctx
       ELSE SetState(AttemptEdit(ctx.state)) /\ Write(AttemptEdit(ctx.state), "attempt")
  /\ UNCHANGED <<appVars, history>>

\* loxboot_run_rollback: it edits the state it reads, not the one in ctx.
RollbackRead ==
  /\ At("rbRead")
  /\ IF res = "OK" /\ buf.slots[Other(Active)].state = "VALID"
       THEN Write(RollbackEdit(buf, Active), "rbWrite")
       ELSE Fatal
  /\ UNCHANGED <<ctx, appVars, history>>

RollbackWrite ==
  /\ At("rbWrite")
  /\ IF res = "OK"
       THEN /\ ctx' = [reason |-> "ROLLBACK", active |-> buf.active, state |-> buf]
            /\ refused' = refused \cup {Other(buf.active)}
            /\ Goto("select")
       ELSE Fatal /\ UNCHANGED <<ctx, refused>>
  /\ UNCHANGED <<appVars, trouble, boots>>

AfterAttempt ==
  /\ At("attempt")
  /\ IF res = "OK" THEN Goto("verify") ELSE Fatal
  /\ UNCHANGED <<ctx, appVars, history>>

\* [5] The CRC32 over firmware_size bytes of the slot against the record.  An
\* empty description never matches: the CRC of no bytes is not finalised.
ImageMatches(st, slot) ==
  st.slots[slot].fw # NoFirmware /\ image[slot] = st.slots[slot].fw

Spoil ==
  /\ SetState(SetSlotState(ctx.state, Active, "INVALID"))
  /\ Write(SetSlotState(ctx.state, Active, "INVALID"), "spoiled")

Verify ==
  /\ At("verify")
  /\ IF ImageMatches(ctx.state, Active) THEN Goto("promote") /\ UNCHANGED ctx ELSE Spoil
  /\ UNCHANGED <<appVars, history>>

\* A flash read of the image fails: treated as a mismatch.
VerifyReadError ==
  /\ FlashMayFail
  /\ At("verify")
  /\ ActiveRecord.fw # NoFirmware
  /\ Spoil
  /\ trouble' = TRUE
  /\ UNCHANGED <<appVars, boots, refused>>

\* Faulty variant: no retry with the other slot.
AfterSpoilGivesUp ==
  /\ At("spoiled")
  /\ Fatal
  /\ UNCHANGED <<ctx, appVars, history>>

\* The result of that write is ignored.
AfterSpoil ==
  /\ At("spoiled")
  /\ Goto("select")
  /\ refused' = IF res = "OK" THEN refused \cup {Active} ELSE refused
  /\ UNCHANGED <<ctx, appVars, trouble, boots>>

\* [6] PENDING becomes ACTIVE.
KeptReason == IF ctx.reason \in {"ROLLBACK", "FORCED"} THEN ctx.reason ELSE "NORMAL"

Promote ==
  /\ At("promote")
  /\ IF ActiveRecord.state = "PENDING"
       THEN /\ SetState(SetSlotState(ctx.state, Active, "ACTIVE"))
            /\ Write(SetSlotState(ctx.state, Active, "ACTIVE"), "promoted")
       ELSE ctx' = [ctx EXCEPT !.reason = KeptReason] /\ Goto("record")
  /\ UNCHANGED <<appVars, history>>

AfterPromote ==
  /\ At("promoted")
  /\ IF res = "OK"
       THEN ctx' = [ctx EXCEPT !.reason = "UPDATE"] /\ Goto("record")
       ELSE Fatal /\ UNCHANGED ctx
  /\ UNCHANGED <<appVars, history>>

\* [7] The boot reason is recorded.
RecordReason ==
  /\ At("record")
  /\ SetState([ctx.state EXCEPT !.reason = ctx.reason])
  /\ Write([ctx.state EXCEPT !.reason = ctx.reason], "recorded")
  /\ UNCHANGED <<appVars, history>>

\* Faulty variant: the result of the last write is ignored.
HandOffUnrecorded ==
  /\ At("recorded")
  /\ ctx' = [ctx EXCEPT !.active = Active]
  /\ Goto("jumped")
  /\ boots' = [boots EXCEPT ![Active] = @ + 1]
  /\ UNCHANGED <<appVars, trouble, refused>>

\* [8] Hand-off: the vector-table jump, or a platform hook that may return.
HandOff ==
  /\ At("recorded")
  /\ res = "OK"
  /\ ctx' = [ctx EXCEPT !.active = Active]
  /\ \/ /\ Goto("jumped")
        /\ boots' = [boots EXCEPT ![Active] = @ + 1]
        /\ UNCHANGED trouble
     \/ /\ FlashMayFail
        /\ Fatal
        /\ trouble' = TRUE
        /\ UNCHANGED boots
  /\ UNCHANGED <<appVars, refused>>

RecordFailed ==
  /\ At("recorded")
  /\ res # "OK"
  /\ Fatal
  /\ UNCHANGED <<ctx, appVars, history>>

-----------------------------------------------------------------------------
BootStep ==
  \/ AfterRead
  \/ AfterFormat
  \/ AfterReread
  \/ AfterSession
  \/ AfterSessionReread
  \/ Select
  \/ AfterFallback
  \/ CheckAttempts
  \/ RollbackRead
  \/ RollbackWrite
  \/ AfterAttempt
  \/ Verify
  \/ VerifyReadError
  \/ AfterSpoil
  \/ Promote
  \/ AfterPromote
  \/ RecordReason
  \/ HandOff
  \/ RecordFailed
=============================================================================

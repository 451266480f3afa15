-------------------------------- MODULE Device --------------------------------
(***************************************************************************)
(* The device: the bootloader (BootRun), the application and its calls     *)
(* (BootApi), the store they share (StateStore), and what happens to them: *)
(* flash errors, power cuts and resets at any point, and firmware images   *)
(* that the application writes into the slot it does not run from.         *)
(***************************************************************************)
EXTENDS UartSession

CONSTANTS
  Provisioned,   \* the states of flash a device may start from
  Updater        \* may the application run without loxboot_run before it?

vars == <<storeVars, pc, ctx, appVars, history>>

\* What provisioning may have written: a blank device, or the same boot state
\* twice; the inactive slot is never ACTIVE and the active one never ROLLBACK.
WellFormed(st) ==
  /\ st.slots[Other(st.active)].state # "ACTIVE"
  /\ st.slots[st.active].state # "ROLLBACK"

ASSUME ProvisionedAssumption ==
  /\ Corrupt \notin Good \cup HeaderOnly
  /\ MaxFaults \in Nat
  /\ FlashMayFail \in BOOLEAN
  /\ Updater \in BOOLEAN
  /\ \A p \in Provisioned :
       /\ p.state \in Good \cup HeaderOnly \cup {Corrupt}
       /\ p.state # Corrupt => WellFormed(p.state)
       /\ p.image \in Image

Init ==
  /\ \E p \in Provisioned : primary = p.state /\ image = p.image
  /\ Store!Init
  /\ pc = "off"
  /\ ctx = InitContext
  /\ trouble = FALSE
  /\ call = NoCall
  /\ ret = "none"
  /\ sess = NoSession
  /\ boots = [s \in Slot |-> 0]
  /\ refused = {}

-----------------------------------------------------------------------------
(* The environment.                                                        *)

\* The application's own start-up, after the jump.
AppStart ==
  /\ At("jumped")
  /\ Goto("app")
  /\ UNCHANGED <<ctx, appVars, history>>

\* An updater, started by another boot loader, calls loxboot_init itself.
UpdaterStart ==
  /\ Updater
  /\ At("off")
  /\ ctx' = InitContext
  /\ Goto("app")
  /\ trouble' = FALSE
  /\ UNCHANGED <<appVars, boots, refused>>

\* The application writes an image, or part of one, into the other slot.
AppWritesImage(contents) ==
  /\ At("app")
  /\ image' = [image EXCEPT ![Other(ctx.active)] = contents]
  /\ UNCHANGED <<storeVars, pc, ctx, call, ret, sess, history>>

\* A flash operation of the store returns an error to its caller.
FlashError ==
  /\ FlashMayFail
  /\ Store!FlashError
  /\ trouble' = TRUE
  /\ UNCHANGED <<pc, ctx, appVars, boots, refused>>

\* Power cut, crash, watchdog or deliberate reset; RAM is lost.
PowerCut ==
  /\ pc # "off"
  /\ Store!PowerCut
  /\ pc' = "off"
  /\ ctx' = InitContext
  /\ call' = NoCall
  /\ ret' = "none"
  /\ sess' = NoSession
  /\ UNCHANGED <<image, history>>

-----------------------------------------------------------------------------
StoreStep == Store!Step /\ UNCHANGED <<pc, ctx, appVars, history>>

\* What runs by itself once the device is powered.
Work == StoreStep \/ BootStep \/ CallStep \/ SessionStep

Next ==
  \/ Work
  \/ Timeout
  \/ HostStep
  \/ PowerOn
  \/ AppStart
  \/ UpdaterStart
  \/ \E c \in Calls : Invoke(c) \/ Format(c)
  \/ \E f \in Firmware \cup {Junk} : AppWritesImage(f)
  \/ FlashError
  \/ PowerCut

Spec     == Init /\ [][Next]_vars
FairSpec == Spec /\ WF_vars(Work) /\ SF_vars(Timeout)

-----------------------------------------------------------------------------
TypeOK ==
  /\ Store!TypeOK
  /\ image \in Image
  /\ pc \in BootLabel \cup CallLabel \cup SessionLabel \cup {"off", "jumped", "app", "fatal"}
  /\ ctx \in Context
  /\ trouble \in BOOLEAN
  /\ call \in AllCalls \cup {NoCall}
  /\ ret \in Result
  /\ sess \in Session
  /\ boots \in [Slot -> Nat]
  /\ refused \subseteq Slot

(* Properties *)

\* A slot gets at most LOXBOOT_MAX_BOOT_ATTEMPTS hand-offs until its firmware
\* is confirmed or replaced, wherever power fails between counting an attempt
\* and jumping, and whichever copy of the state survives.
CrashLoopBound == \A s \in Slot : boots[s] <= MaxAttempts

\* Whoever gets control was verified in this boot, is the slot both copies
\* name, carries a recorded attempt and is ACTIVE or VALID there: the boot
\* sequence never jumps on the strength of RAM that flash does not hold.
HandOffVerified ==
  pc = "jumped" =>
    /\ primary = ctx.state /\ backup = ctx.state
    /\ ctx.active = Active /\ ctx.state.reason = ctx.reason
    /\ ImageMatches(ctx.state, Active)
    /\ ActiveRecord.state \in {"ACTIVE", "VALID"}
    /\ ActiveRecord.attempts \in 1 .. MaxAttempts

\* What a reader of the store sees never shows the inactive slot ACTIVE, or
\* the active one ROLLBACK (src/src/loxboot_core.c:392), whichever calls and
\* boots were interrupted.
OneActiveSlot == Store!Readable # Corrupt => WellFormed(Store!Readable)

\* loxboot_run_rollback reads the state from flash again; although the result
\* of the write that invalidates a slot is ignored, flash and the context
\* agree there, so that no invalidation is undone by a rollback.
RollbackUpToDate == At("rbRead") /\ res = "OK" => buf = ctx.state

\* Without flash errors the boot gives up only if no slot it may select has
\* an image that matches its record and an attempt left.
Selectable(st, s) ==
  /\ st.slots[s].state \in {"ACTIVE", "VALID"} \cup (IF s = st.active THEN {"PENDING"} ELSE {})
  /\ st.slots[s].attempts < MaxAttempts
  /\ ImageMatches(st, s)
GivesUpOnlyWithoutSlot ==
  pc = "fatal" /\ ~trouble =>
    ~ \E s \in Slot : Store!Readable # Corrupt /\ Selectable(Store!Readable, s)

\* goto boot_retry ends: a powered boot sequence jumps or gives up.
BootEnds == pc \in BootLabel ~> pc \in {"jumped", "fatal", "off"}

\* Firmware that was refused (invalidated by the application, rolled back, or
\* found corrupt) and recorded so never gets control again before another
\* image is committed to its slot, whatever is cut short in between.
RefusedNeverRuns == pc = "jumped" => ctx.active \notin refused

\* A call that returns OK is durable: both copies of the boot state hold what
\* the context now says, so that no single fault can undo it.
DurableStep ==
  call.name \notin {"none", "verify", "format"} /\ ret' = "OK" =>
    primary' = ctx'.state /\ backup' = ctx'.state
CallsAreDurable == [][DurableStep]_vars

\* An application that only updates the slot it does not run from, and
\* confirms its boots, cannot strand the device: the boot gives up only over
\* exhausted attempts.  (Power may fail at any point, but a second time only
\* after the copies of the boot state agree again: MaxFaults = 1.)
UpdateNeverStrands ==
  pc = "fatal" =>
    /\ Store!Readable # Corrupt
    /\ Store!Readable.slots[Store!Readable.active].attempts >= MaxAttempts

\* The boot sequence, the sessions and the calls of the application, wherever
\* power fails in them, implement BootPolicy: each of their writes is an edit
\* that is theirs to make of what flash holds at that moment, and none is
\* skipped before a hand-off.
Mode ==
  CASE pc = "off" -> "off"
    [] pc = "fatal" -> "dead"
    [] pc \in {"attempt", "verify", "promote", "promoted", "record", "recorded"} -> "counted"
    [] pc \in BootLabel \ {"attempt", "verify", "promote", "promoted", "record", "recorded"} -> "boot"
    [] pc \in SessionLabel \/ (pc \in CallLabel /\ sess.back # "app") -> "session"
    [] OTHER -> "app"

Policy == INSTANCE BootPolicy WITH
  rec     <- Store!Readable,
  pending <- Store!Pending,
  stage   <- Store!Stage,
  intact  <- Store!Intact,
  mode    <- Mode
ImplementsPolicy == Policy!Spec

-----------------------------------------------------------------------------
(* What the documentation says and the code does not do *)

\* include/loxboot/loxboot.h:421, of a slot made PENDING by
\* loxboot_commit_slot: "CRC32 verification happens in loxboot_run() on next
\* boot": after a boot no slot is still PENDING.
CommitIsVerified == pc = "jumped" => \A s \in Slot : ctx.state.slots[s].state # "PENDING"

=============================================================================

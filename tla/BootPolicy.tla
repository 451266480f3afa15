------------------------------ MODULE BootPolicy -------------------------------
(***************************************************************************)
(* What the device promises, without its steps: one boot record            *)
(* (BootRecord) that changes only by the edits below, each allowed to the  *)
(* boot sequence, to a UART session or to the application and to nobody    *)
(* else, and control that goes only to a firmware that is verified, has a  *)
(* counted attempt left and is on record.                                  *)
(*                                                                         *)
(* It is a promise for flash that returns no errors: after one, the boot   *)
(* sequence goes on with a context that flash does not hold.  Power may    *)
(* fail anywhere.                                                          *)
(***************************************************************************)
EXTENDS BootTypes

CONSTANT Corrupt   \* see BootRecord

VARIABLES
  rec, pending, stage, intact, res,   \* see BootRecord
  image,   \* contents of the two firmware slots
  mode     \* who has the processor: "boot" until an attempt is "counted"

recordVars == <<rec, pending, stage, intact, res>>
policyVars == <<recordVars, image, mode>>

Record == INSTANCE BootRecord

Mode == {"off", "boot", "counted", "session", "app", "dead"}

Readable    == rec # Corrupt
Activated   == rec.slots[rec.active]
Standby     == rec.slots[Other(rec.active)]
Verified(s) == rec.slots[s].fw # NoFirmware /\ image[s] = rec.slots[s].fw
Attempted   == Readable /\ Activated.attempts \in 1 .. MaxAttempts

-----------------------------------------------------------------------------
(* The edits: sets of at most a few new records.                           *)

When(condition, edit) == IF condition THEN {edit} ELSE {}

\* Before an attempt is counted.
SelectEdits ==
  IF ~Readable THEN {DefaultState("A")} ELSE
  When(Activated.state \in {"EMPTY", "INVALID"} /\ Standby.state \in {"VALID", "ACTIVE"},
       FallbackEdit(rec)) \cup
  When(Activated.attempts >= MaxAttempts /\ Standby.state = "VALID",
       RollbackEdit(rec, rec.active))

AttemptEdits ==
  When(Readable /\ Activated.state \notin {"EMPTY", "INVALID"} /\ Activated.attempts < MaxAttempts,
       AttemptEdit(rec))

\* After it: a firmware that does not match is refused, one that does and is
\* new becomes ACTIVE, and the reason of this boot is recorded.
RefuseEdits ==
  When(Attempted /\ ~Verified(rec.active), SetSlotState(rec, rec.active, "INVALID"))
AcceptEdits ==
  IF ~(Attempted /\ Verified(rec.active)) THEN {} ELSE
  When(Activated.state = "PENDING", SetSlotState(rec, rec.active, "ACTIVE")) \cup
  {[rec EXCEPT !.reason = r] : r \in IF Activated.state \in {"ACTIVE", "VALID"} THEN Reason ELSE {}}

\* Of a record that cannot be read, one slot is INVALID afterwards.
RepairEdits(slots) ==
  {[active |-> a, reason |-> r, slots |-> [s \in Slot |-> IF s = t THEN BlankRecord("INVALID") ELSE o]] :
     a \in Slot, r \in Reason, t \in slots, o \in RecordOf(SlotState \cup {"BAD"})}

UpdateEdits(slots) ==
  IF ~Readable THEN RepairEdits(slots) ELSE
  {InvalidateEdit(rec, s) : s \in slots} \cup
  {CommitEdit(rec, s, f) : s \in slots \ {rec.active}, f \in Firmware}

\* A session updates the slot that does not boot.
SessionEdits == IF Readable THEN UpdateEdits({Other(rec.active)}) ELSE {}

AppEdits ==
  UpdateEdits(Slot) \cup {DefaultState(s) : s \in Slot} \cup
  IF ~Readable THEN {} ELSE
  When(Activated.state \in {"ACTIVE", "VALID"}, ConfirmEdit(rec)) \cup
  {RequestEdit(rec, s) : s \in {t \in Slot : rec.slots[t].state \in {"VALID", "ACTIVE"}}}

-----------------------------------------------------------------------------
Init ==
  /\ Record!Init
  /\ image \in [Slot -> Firmware \cup {Junk}]
  /\ mode = "off"

Edit(m, edits, next) ==
  /\ mode = m /\ mode' = next
  /\ \E v \in edits : Record!Begin(v)
  /\ UNCHANGED image

\* The record goes its own way: it is read, or a write of it makes progress.
Progress ==
  /\ mode # "off"
  /\ Record!Read \/ Record!Decay \/ Record!TakeEffect \/ Record!Acknowledge
  /\ UNCHANGED <<image, mode>>

Control(from, to) ==
  /\ stage = "idle"
  /\ mode \in from /\ mode' = to
  /\ UNCHANGED <<recordVars, image>>

\* Another boot loader may start the application.
PowerOn == Control({"off"}, "boot") \/ Control({"off"}, "app")
Turns   == Control({"boot"}, "session") \/ Control({"session"}, "boot")

HandOff ==
  /\ Control({"counted"}, "app")
  /\ Attempted /\ Verified(rec.active)
  /\ Activated.state \in {"ACTIVE", "VALID"}

\* Nothing is left to boot.
GiveUp ==
  /\ Control({"boot"}, "dead")
  /\ Readable /\ Standby.state = "VALID" => Activated.attempts < MaxAttempts
  /\ Readable => Activated.attempts >= MaxAttempts \/ Activated.state \in {"EMPTY", "INVALID"}

\* The application writes where it likes, a session where nothing boots.
WriteImage ==
  /\ stage = "idle" /\ mode \in {"session", "app"}
  /\ \E s \in Slot, c \in Firmware \cup {Junk} :
       /\ mode = "session" => Readable /\ s # rec.active
       /\ image' = [image EXCEPT ![s] = c]
  /\ UNCHANGED <<recordVars, mode>>

\* Power is cut, in a write or not.
Reset ==
  /\ mode # "off" /\ mode' = "off"
  /\ Record!Read \/ Record!Abort
  /\ res' = "CUT"
  /\ UNCHANGED image

Next ==
  \/ Edit("boot", SelectEdits, "boot")
  \/ Edit("boot", AttemptEdits, "counted")
  \/ Edit("counted", RefuseEdits, "boot")
  \/ Edit("counted", AcceptEdits, "counted")
  \/ Edit("session", SessionEdits, "session")
  \/ Edit("app", AppEdits, "app")
  \/ Progress
  \/ PowerOn
  \/ Turns
  \/ HandOff
  \/ GiveUp
  \/ WriteImage
  \/ Reset

Spec == Init /\ [][Next]_policyVars
=============================================================================

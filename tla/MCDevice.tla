------------------------------- MODULE MCDevice -------------------------------
(* Instances of Device for TLC: what a device may be provisioned with, as in *)
(* the tests of the repository, and which calls its application makes.       *)
EXTENDS Device

CONSTANTS f1, f2

Sizes == [f \in Firmware |-> Chunks]

Rec(state, fw) == [state |-> state, attempts |-> 0, fw |-> fw]
Flash(recA, recB, imageA, imageB) ==
  [state |-> [active |-> "A", reason |-> "UNKNOWN",
              slots |-> [s \in Slot |-> IF s = "A" THEN recA ELSE recB]],
   image |-> [s \in Slot |-> IF s = "A" THEN imageA ELSE imageB]]

Blank    == [state |-> Corrupt, image |-> [s \in Slot |-> Junk]]
Factory  == Flash(Rec("VALID", f1), Rec("EMPTY", NoFirmware), f1, Junk)
Dual     == Flash(Rec("VALID", f1), Rec("VALID", f2), f1, f2)
Pending  == Flash(Rec("PENDING", f1), Rec("VALID", f2), f1, f2)
Unsound  == Flash(Rec("PENDING", f1), Rec("VALID", f2), Junk, f2)
BadBoth  == Flash(Rec("UNSEALED", f1), Rec("BAD", NoFirmware), f1, Junk)

FactoryFlash == {Factory}
BootFlash    == {Blank, Factory, Dual, Pending, Unsound}
RepairFlash  == {Dual, BadBoth}
\* The active slot is not the one a context is initialised with.
ActiveBFlash == {[Dual EXCEPT !.state.active = "B"]}
DualFlash    == {Dual, Unsound}

CallsNamed(names) == {c \in AllCalls : c.name \in names}
NoCalls     == {}
BootCalls   == CallsNamed({"confirm", "request"})
UpdateCalls ==
  CallsNamed({"confirm", "commit"}) \cup
  {c \in CallsNamed({"verify", "invalidate"}) : c.slot = "B"}
=============================================================================

------------------------------- MODULE MCEsp32 --------------------------------
(* Instances of Esp32Updater for TLC: firmware in slot A, as flashed by ESP-IDF, *)
(* with a boot state that loxboot has or has not written.                       *)
EXTENDS Esp32Updater

CONSTANT f1

Sizes   == [f \in Firmware |-> Chunks]
NoCalls == {}
Factory ==
  [state |-> [active |-> "A", reason |-> "UNKNOWN",
              slots |-> [s \in Slot |->
                IF s = "A" THEN [state |-> "VALID", attempts |-> 0, fw |-> f1]
                           ELSE BlankRecord("EMPTY")]],
   image |-> [s \in Slot |-> IF s = "A" THEN f1 ELSE Junk]]
Blank    == [Factory EXCEPT !.state = Corrupt]
EspFlash == {Factory, Blank}
FactoryFlash == {Factory}

Ota(a, b) == [s \in Slot |-> IF s = "A" THEN a ELSE b]
ConfirmedOta == {Ota("VALID", "NONE")}
AnyOta == {Ota(a, b) : a \in {"NONE", "VALID", "UNDEFINED"}, b \in {"NONE", "INVALID"}}
=============================================================================

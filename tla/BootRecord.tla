------------------------------ MODULE BootRecord ------------------------------
(***************************************************************************)
(* What the boot-state store promises its callers, without copies, erases  *)
(* or writes: one record that is replaced atomically.                      *)
(*                                                                         *)
(* A write that is begun takes effect at one instant and is acknowledged   *)
(* after it.  A write that is cut short (power, flash error) has taken     *)
(* effect or it has not.  That is all as long as the record is intact.  A  *)
(* write that was cut short may leave a record that is not: the NEXT write *)
(* then may lose it, or bring back an older one, before it takes effect.   *)
(* Only an acknowledged write, or such a decay, makes a record intact      *)
(* again; reading it does not, and reports corruption only when there is   *)
(* no record.                                                              *)
(***************************************************************************)
CONSTANTS
  Good,        \* the values a read can return
  HeaderOnly,  \* values that can be written and that no read accepts
  Corrupt      \* no record

VARIABLES
  rec,         \* the value a read returns, Corrupt when it reports corruption
  pending,     \* the value being written, Corrupt when there is none
  stage,       \* of the write: "idle", "begun" or "effective"
  intact,      \* no write can damage the record before it takes effect
  res          \* what the last call returned, "CUT" if it never did

recordVars == <<rec, pending, stage, intact, res>>

AsRead(v) == IF v \in Good THEN v ELSE Corrupt

Init ==
  /\ rec \in Good \cup {Corrupt}
  /\ pending = Corrupt
  /\ stage = "idle"
  /\ intact = TRUE
  /\ res = "OK"

Read ==
  /\ stage = "idle"
  /\ res' \in {"OK", "CORRUPT", "FLASH", "CUT"}
  /\ res' = "CORRUPT" => rec = Corrupt
  /\ UNCHANGED <<rec, pending, stage, intact>>

Begin(v) ==
  /\ stage = "idle"
  /\ stage' = "begun"
  /\ pending' = v
  /\ UNCHANGED <<rec, intact, res>>

Decay ==
  /\ stage = "begun"
  /\ ~intact
  /\ intact' = TRUE
  /\ rec' \in Good \cup {Corrupt}
  /\ UNCHANGED <<pending, stage, res>>

TakeEffect ==
  /\ stage = "begun"
  /\ intact
  /\ rec' = AsRead(pending)
  /\ stage' = "effective"
  /\ intact' = FALSE
  /\ UNCHANGED <<pending, res>>

Acknowledge ==
  /\ stage = "effective"
  /\ stage' = "idle"
  /\ pending' = Corrupt
  /\ intact' = TRUE
  /\ res' = "OK"
  /\ UNCHANGED rec

Abort ==
  /\ stage # "idle"
  /\ rec' \in CASE stage = "effective"       -> {rec}
                [] stage = "begun" /\ intact -> {rec, AsRead(pending)}
                [] OTHER                     -> Good \cup {Corrupt}
  /\ intact' \in BOOLEAN
  /\ stage' = "idle"
  /\ pending' = Corrupt
  /\ res' \in {"FLASH", "CUT"}

Next ==
  \/ Read
  \/ \E v \in Good \cup HeaderOnly : Begin(v)
  \/ Decay
  \/ TakeEffect
  \/ Acknowledge
  \/ Abort

Spec == Init /\ [][Next]_recordVars
=============================================================================

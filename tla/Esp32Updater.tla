----------------------------- MODULE Esp32Updater -----------------------------
(***************************************************************************)
(* The ESP32 application of src/idf_project/main/main.c with               *)
(* src/adapters/esp32/loxboot_esp32_platform.c: every firmware is this     *)
(* updater.  ESP-IDF's boot loader chooses what runs, from its OTA data;   *)
(* the updater copies these choices into the boot state, runs one UART     *)
(* session after another, and hands a committed slot to ESP-IDF.           *)
(* loxboot_run is not used.                                                *)
(*                                                                         *)
(* The OTA data and the boot loader are ESP-IDF's: modelled as far as the  *)
(* code here relies on them (rollback enabled, sdkconfig.defaults:10).     *)
(***************************************************************************)
EXTENDS Device

\* "NONE": no entry, esp_ota_get_state_partition fails.
OtaState == {"NONE", "NEW", "PENDING_VERIFY", "VALID", "INVALID", "ABORTED", "UNDEFINED"}

CONSTANT
  OtaData   \* the OTA states that a device with firmware in slot A may have

ASSUME EspAssumption == OtaData \subseteq [Slot -> OtaState]

VARIABLES
  ota,       \* the OTA state of each partition
  chosen,    \* the partition that the OTA data selects
  running    \* esp_ota_get_running_partition

idf     == <<ota, chosen, running>>
espVars == <<vars, idf>>

EspInit ==
  /\ Init
  /\ ota \in OtaData
  /\ chosen = "A"
  /\ running = "A"

-----------------------------------------------------------------------------
(* ESP-IDF.                                                                *)

\* The boot loader gives an unconfirmed image one boot, falls back to the other
\* slot, and then to anything that is an image.
Tried == IF ota[chosen] = "PENDING_VERIFY" THEN [ota EXCEPT ![chosen] = "ABORTED"] ELSE ota
Bootable(s) == image[s] \in Firmware
Usable(s)   == Bootable(s) /\ Tried[s] \notin {"INVALID", "ABORTED"}
IdfChoice ==
  IF Usable(chosen) THEN {chosen}
  ELSE IF Usable(Other(chosen)) THEN {Other(chosen)}
  ELSE {s \in Slot : Bootable(s)}

IdfBoot ==
  /\ At("off")
  /\ \E s \in IdfChoice :
       /\ running' = s
       /\ chosen' = s
       /\ ota' = [Tried EXCEPT ![s] = IF @ = "NEW" THEN "PENDING_VERIFY" ELSE @]
  /\ Goto("start")
  /\ UNCHANGED <<ctx, appVars, history>>

\* esp_ota_set_boot_partition: it refuses what is not an image.
SetBootPartition(s) ==
  /\ Bootable(s)
  /\ ota' = [ota EXCEPT ![s] = "NEW"]
  /\ chosen' = s
  /\ UNCHANGED running

-----------------------------------------------------------------------------
(* app_main.                                                               *)

\* loxboot_esp32_confirm_running_app, if the firmware that runs was built with
\* LOXBOOT_ESP32_AUTO_CONFIRM (each is built on its own) and ESP-IDF lets it;
\* then loxboot_init.
Start ==
  /\ At("start")
  /\ \/ ota[running] = "PENDING_VERIFY" /\ ota' = [ota EXCEPT ![running] = "VALID"]
     \/ UNCHANGED ota
  /\ ctx' = InitContext
  /\ trouble' = FALSE
  /\ Read("mainRead")
  /\ UNCHANGED <<appVars, boots, refused, chosen, running>>

\* A boot state that cannot be read is formatted; the result is ignored.
AfterMainRead ==
  /\ At("mainRead")
  /\ IF res = "OK" THEN Read("syncRead") ELSE Write(DefaultState("A"), "mainFormat")
  /\ UNCHANGED <<ctx, appVars, history, idf>>

AfterMainFormat ==
  /\ At("mainFormat")
  /\ Read("syncRead")
  /\ UNCHANGED <<ctx, appVars, history, idf>>

\* loxboot_esp32_sync_state_from_ota: map_ota_state for each slot that has an
\* entry, and the running slot becomes the active one.
MapOtaState(o) ==
  CASE o = "PENDING_VERIFY"         -> "PENDING"
    [] o = "VALID"                  -> "VALID"
    [] o \in {"INVALID", "ABORTED"} -> "INVALID"
    [] OTHER                        -> "EMPTY"

MapStates(st) ==
  [s \in Slot |-> IF ota[s] = "NONE" THEN st.slots[s]
                  ELSE [st.slots[s] EXCEPT !.state = MapOtaState(ota[s])]]

\* Faulty variant: the active slot stays.
SyncEditStatesOnly(st) == [st EXCEPT !.slots = MapStates(st)]

SyncEdit(st) == [st EXCEPT !.slots = MapStates(st), !.active = running]

\* It writes only what has changed.
AfterSyncRead ==
  /\ At("syncRead")
  /\ \/ /\ res = "OK" /\ SyncEdit(buf) = buf
        /\ SetState(buf)
        /\ Goto("loop")
     \/ /\ res = "OK" /\ SyncEdit(buf) # buf
        /\ Write(SyncEdit(buf), "syncWrite")
        /\ UNCHANGED ctx
     \/ /\ res # "OK"
        /\ Goto("loop")
        /\ UNCHANGED ctx
  /\ UNCHANGED <<appVars, history, idf>>

\* app_main ignores its result.
AfterSyncWrite ==
  /\ At("syncWrite")
  /\ IF res = "OK" THEN SetState(buf) ELSE UNCHANGED ctx
  /\ Goto("loop")
  /\ UNCHANGED <<appVars, history, idf>>

\* The loop of UART sessions.
NextSession ==
  /\ At("loop")
  /\ Read("uartRead")
  /\ UNCHANGED <<ctx, appVars, history, idf>>

\* loxboot_esp32_handoff of a committed slot does not return on success.
HandOffToIdf ==
  /\ At("uartEnd")
  /\ sess.committed
  /\ SetBootPartition(sess.target)
  /\ PowerCut

\* The session's own result is ignored, and so is a hand-off that fails.
NoHandOff ==
  /\ At("uartEnd")
  /\ sess.committed /\ Bootable(sess.target) => FlashMayFail
  /\ IF sess.reboot
       THEN PowerCut
       ELSE Goto("loop") /\ sess' = NoSession /\ ret' = "none"
            /\ UNCHANGED <<ctx, image, call, history>>
  /\ UNCHANGED idf

-----------------------------------------------------------------------------
EspStep ==
  \/ IdfBoot
  \/ Start
  \/ AfterMainRead
  \/ AfterMainFormat
  \/ AfterSyncRead
  \/ AfterSyncWrite
  \/ NextSession
  \/ HandOffToIdf
  \/ NoHandOff

\* The store, the API and the session are those of the other platforms; the
\* USB driver reports every failure of a read as a timeout.
Shared ==
  \/ StoreStep
  \/ CallStep
  \/ SessionStep
  \/ Timeout
  \/ \E f \in Frames : Command(f)
  \/ DropFrame
  \/ SendError
  \/ FlashError
  \/ PowerCut

EspNext == EspStep \/ (Shared /\ UNCHANGED idf)
EspSpec == EspInit /\ [][EspNext]_espVars

-----------------------------------------------------------------------------
(* Properties *)

\* docs/HARDWARE_EVIDENCE.md:106, a required assertion: "active slot before
\* update is the currently running slot".  The slot that a session erases,
\* writes and invalidates is the other one: the boot state that names the
\* target follows the OTA data through hand-offs, rollbacks by ESP-IDF,
\* formatting and power cuts.  It holds if no flash call fails, and only then:
\* app_main goes on when the synchronisation has failed.
ActiveIsRunning == InSession => sess.target # running

-----------------------------------------------------------------------------
(* What the documentation says and the code does not do *)

\* include/loxboot/loxboot_transport.h:39, of _commit_done: "A slot was
\* successfully committed this session", and ports/uart/loxboot_uart.c:408: such
\* platforms hand off without loxboot_run, "so a corrupt image must be caught
\* here": a slot to be handed off is committed and its image matches.
CommitStands ==
  pc = "uartEnd" /\ sess.committed /\ Store!Readable # Corrupt =>
    /\ Store!Readable.slots[sess.target].state = "PENDING"
    /\ ImageMatches(Store!Readable, sess.target)
=============================================================================

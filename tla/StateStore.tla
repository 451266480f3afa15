------------------------------ MODULE StateStore ------------------------------
(***************************************************************************)
(* The dual-copy boot-state store of src/src/loxboot_state.c.              *)
(*                                                                         *)
(* loxboot_state_read, loxboot_state_read_header_crc_only and              *)
(* loxboot_state_write are sequences of flash reads, erases and writes on  *)
(* two copies of one structure.  Each flash operation is a step here, so   *)
(* that a power cut or an error return can fall between and inside them.   *)
(*                                                                         *)
(* Abstractions:                                                           *)
(*  - the contents of a copy are a boot state or Corrupt; Corrupt stands   *)
(*    for erased, torn and foreign bytes.  A CRC32 tells them apart from a *)
(*    boot state (no accidental collision), and what the code writes is    *)
(*    always self-consistent because loxboot_state_finalize recomputes     *)
(*    every CRC;                                                           *)
(*  - the copies sit in erase sectors of their own (docs/PORTING.md:134),  *)
(*    so that an operation on one cannot disturb the other;                *)
(*  - the three flash error codes are one result, "FLASH".                 *)
(***************************************************************************)
EXTENDS Naturals

CONSTANTS
  Good,        \* the boot states loxboot_state_is_valid accepts
  HeaderOnly,  \* the ones only loxboot_state_header_crc_valid accepts
  Corrupt,     \* the contents of a copy that neither accepts
  MaxFaults    \* bound: interrupted erases and writes since the copies agreed

ASSUME StoreAssumption ==
  /\ Good \cap HeaderOnly = {}
  /\ Corrupt \notin Good \cup HeaderOnly
  /\ MaxFaults \in Nat

VARIABLES
  primary,     \* contents of the copy at boot_state_primary_base
  backup,      \* contents of the copy at boot_state_backup_base
  phase,       \* the flash operation under way, or "idle"
  buf,         \* the structure in RAM that is being read into or written
  res,         \* what the last completed call returned
  faults,      \* history: erases and writes cut short since the copies agreed
  formatted    \* history: a write or a restore has completed before

vars == <<primary, backup, phase, buf, res, faults, formatted>>

State    == Good \cup HeaderOnly
Contents == State \cup {Corrupt}

ErasingPrimary == {"eraseP", "eraseR"}
WritingPrimary == {"writeP", "writeR"}
Reading        == {"readP", "readB", "headerP", "headerB"}
Mutating       == ErasingPrimary \cup WritingPrimary \cup {"eraseB", "writeB"}
Phase          == {"idle"} \cup Reading \cup Mutating

TypeOK ==
  /\ primary \in Contents
  /\ backup \in Contents
  /\ phase \in Phase
  /\ buf \in Contents
  /\ phase \in Mutating => buf \in State
  /\ res \in {"OK", "FLASH", "CORRUPT", "CUT"}
  /\ faults \in 0 .. MaxFaults
  /\ formatted \in BOOLEAN

-----------------------------------------------------------------------------
\* What loxboot_state_read would return now; Corrupt when it would fail.
Meaning(c) == IF c \in Good THEN c ELSE Corrupt
Readable   == IF primary \in Good THEN primary ELSE Meaning(backup)

Return(r) == phase' = "idle" /\ res' = r

\* A loxboot_state_write is under way, and a read would already see it.
Writing   == phase \in {"eraseP", "writeP", "eraseB", "writeB"}
Effective == phase = "writeB" \/ (phase = "eraseB" /\ buf \in Good)
Pending   == IF Writing THEN buf ELSE Corrupt
Stage     == IF ~Writing THEN "idle" ELSE IF Effective THEN "effective" ELSE "begun"

\* Erasing the primary, which is how a write starts, would not change what a
\* read returns.
Intact == ~(Writing /\ Effective) /\ Readable = Meaning(backup)

\* The copies agree again: an acknowledged write or a finished restore.
Synced == faults' = 0 /\ formatted' = TRUE

\* A store never written to, or one provisioned with the same state twice.
Init ==
  /\ primary \in Contents
  /\ backup = primary
  /\ phase = "idle"
  /\ buf = Corrupt
  /\ res = "OK"
  /\ faults = 0
  /\ formatted = (primary # Corrupt)

-----------------------------------------------------------------------------
(* The entry points.  A call is made only when no other one is under way:  *)
(* the code is synchronous and single-threaded.                            *)

BeginRead ==
  /\ phase = "idle"
  /\ phase' = "readP"
  /\ UNCHANGED <<primary, backup, buf, res, faults, formatted>>

BeginHeaderRead ==
  /\ phase = "idle"
  /\ phase' = "headerP"
  /\ UNCHANGED <<primary, backup, buf, res, faults, formatted>>

BeginWrite(st) ==
  /\ phase = "idle"
  /\ phase' = "eraseP"
  /\ buf' = st
  /\ UNCHANGED <<primary, backup, res, faults, formatted>>

-----------------------------------------------------------------------------
(* loxboot_state_read: the primary if it is valid, else the backup, which  *)
(* is then copied over the primary.                                        *)

ReadPrimary ==
  /\ phase = "readP"
  /\ IF primary \in Good
       THEN buf' = primary /\ Return("OK")
       ELSE phase' = "readB" /\ UNCHANGED <<buf, res>>
  /\ UNCHANGED <<primary, backup, faults, formatted>>

\* Faulty variant: the restore starts before the backup was copied to buf.
ReadBackupUncopied ==
  /\ phase = "readB"
  /\ IF backup \in Good THEN phase' = "eraseR" /\ UNCHANGED res ELSE Return("CORRUPT")
  /\ UNCHANGED <<primary, backup, buf, faults, formatted>>

ReadBackup ==
  /\ phase = "readB"
  /\ IF backup \in Good
       THEN buf' = backup /\ phase' = "eraseR" /\ UNCHANGED res
       ELSE Return("CORRUPT") /\ UNCHANGED buf
  /\ UNCHANGED <<primary, backup, faults, formatted>>

(* loxboot_state_read_header_crc_only: the same with the weaker test.      *)

HeaderPrimary ==
  /\ phase = "headerP"
  /\ IF primary \in State
       THEN buf' = primary /\ Return("OK")
       ELSE phase' = "headerB" /\ UNCHANGED <<buf, res>>
  /\ UNCHANGED <<primary, backup, faults, formatted>>

HeaderBackup ==
  /\ phase = "headerB"
  /\ IF backup \in State
       THEN buf' = backup /\ phase' = "eraseR" /\ UNCHANGED res
       ELSE Return("CORRUPT") /\ UNCHANGED buf
  /\ UNCHANGED <<primary, backup, faults, formatted>>

-----------------------------------------------------------------------------
(* loxboot_state_write_copy on the primary and then on the backup; a       *)
(* restore ends after the primary.                                         *)

\* Faulty variants: a write erases both copies up front; a restore erases the
\* copy it has just read.
EraseBothCopies ==
  /\ phase \in ErasingPrimary
  /\ primary' = Corrupt
  /\ backup' = IF phase = "eraseP" THEN Corrupt ELSE backup
  /\ phase' = IF phase = "eraseP" THEN "writeP" ELSE "writeR"
  /\ UNCHANGED <<buf, res, faults, formatted>>
EraseRestoreSource ==
  /\ phase \in ErasingPrimary
  /\ primary' = IF phase = "eraseP" THEN Corrupt ELSE primary
  /\ backup' = IF phase = "eraseR" THEN Corrupt ELSE backup
  /\ phase' = IF phase = "eraseP" THEN "writeP" ELSE "writeR"
  /\ UNCHANGED <<buf, res, faults, formatted>>

ErasePrimary ==
  /\ phase \in ErasingPrimary
  /\ primary' = Corrupt
  /\ phase' = IF phase = "eraseP" THEN "writeP" ELSE "writeR"
  /\ UNCHANGED <<backup, buf, res, faults, formatted>>

\* Faulty variant: a write ends after the primary.
WritePrimaryOnly ==
  /\ phase = "writeP"
  /\ primary' = buf
  /\ Return("OK")
  /\ UNCHANGED <<backup, buf, faults, formatted>>

WritePrimary ==
  /\ phase = "writeP"
  /\ primary' = buf
  /\ phase' = "eraseB"
  /\ UNCHANGED <<backup, buf, res, faults, formatted>>

RestorePrimary ==
  /\ phase = "writeR"
  /\ primary' = buf
  /\ Return("OK")
  /\ Synced
  /\ UNCHANGED <<backup, buf>>

EraseBackup ==
  /\ phase = "eraseB"
  /\ backup' = Corrupt
  /\ phase' = "writeB"
  /\ UNCHANGED <<primary, buf, res, faults, formatted>>

WriteBackup ==
  /\ phase = "writeB"
  /\ backup' = buf
  /\ Return("OK")
  /\ Synced
  /\ UNCHANGED <<primary, buf>>

-----------------------------------------------------------------------------
(* What a flash operation that is cut short leaves behind: an erase did    *)
(* not start, or tore the copy; a write tore it, or had just finished.     *)

PrimaryCutShort ==
  CASE phase \in ErasingPrimary -> {primary, Corrupt}
    [] phase \in WritingPrimary -> {buf, Corrupt}
    [] OTHER -> {primary}

BackupCutShort ==
  CASE phase = "eraseB" -> {backup, Corrupt}
    [] phase = "writeB" -> {buf, Corrupt}
    [] OTHER -> {backup}

CutShort ==
  /\ primary' \in PrimaryCutShort
  /\ backup' \in BackupCutShort
  /\ IF phase \in Mutating
       THEN faults < MaxFaults /\ faults' = faults + 1
       ELSE UNCHANGED faults
  /\ phase' = "idle"
  /\ UNCHANGED formatted

\* The flash adapter returns an error and the call returns it at once.
FlashError ==
  /\ phase # "idle"
  /\ CutShort
  /\ res' = "FLASH"
  /\ UNCHANGED buf

\* Power fails, in a call or between two: RAM is lost, the copies stay.
PowerCut ==
  /\ CutShort
  /\ res' = "CUT"
  /\ buf' = Corrupt

-----------------------------------------------------------------------------
Step ==
  \/ ReadPrimary
  \/ ReadBackup
  \/ HeaderPrimary
  \/ HeaderBackup
  \/ ErasePrimary
  \/ WritePrimary
  \/ RestorePrimary
  \/ EraseBackup
  \/ WriteBackup

Next ==
  \/ BeginRead
  \/ BeginHeaderRead
  \/ \E st \in State : BeginWrite(st)
  \/ Step
  \/ FlashError
  \/ PowerCut

Spec == Init /\ [][Next]_vars

-----------------------------------------------------------------------------
(* Properties *)

\* Once the store has been written, one interrupted flash operation between
\* two agreements of the copies never loses both of them: what the order of
\* the four operations of loxboot_state_write and of the restore is for.
\* (After a fault that spoiled the backup the only copy is erased while the
\* next write is on its way to it; power lost there is the second fault.)
OneFaultSafe ==
  formatted /\ faults <= 1 /\ phase # "writeP"
    => primary \in State \/ backup \in State

\* A read is a read: neither loxboot_state_read nor the header-only variant,
\* whether it restores the primary, fails or is cut short, changes the
\* record a later read returns; and what it returns is that record.
ReadStepFaithful ==
  phase \in Reading \cup {"eraseR", "writeR"} =>
    /\ Readable' = Readable
    /\ phase' = "idle" /\ res' = "OK" /\ buf' \in Good => buf' = Readable
ReadFaithful == [][ReadStepFaithful]_vars

\* loxboot_state_write and loxboot_state_read implement one atomic record.
Record == INSTANCE BootRecord WITH
  rec     <- Readable,
  pending <- Pending,
  stage   <- Stage,
  intact  <- Intact
ImplementsRecord == Record!Spec
=============================================================================

--------------------------- MODULE StateStore_proofs ---------------------------
(***************************************************************************)
(* Proofs about StateStore, for every set of boot states and any number of *)
(* faults: its type invariant, OneFaultSafe, ReadFaithful, and that it     *)
(* implements the atomic record of BootRecord.                             *)
(***************************************************************************)
EXTENDS StateStore, TLAPS

\* What the phase says about the copies.  Every property of the store rests on
\* it: a write reaches the backup only behind a good primary, and a restore
\* starts from a backup that was read over a primary that no read accepts.
PhaseInv ==
  /\ phase = "readB" => primary \notin Good
  /\ phase = "headerB" => primary = Corrupt
  /\ phase \in {"eraseR", "writeR"} => backup = buf /\ primary \notin Good
  /\ phase \in WritingPrimary => primary = Corrupt
  /\ phase \in {"eraseB", "writeB"} => primary = buf
  /\ phase = "writeB" => backup = Corrupt

\* Where a state survives, once the store has been written: in both copies
\* until the first fault, and after it in one of them.  OneFaultSafe alone is
\* not inductive: it does not say that the copies agree when a write starts.
CopiesInv ==
  /\ formatted /\ faults = 0 =>
       /\ phase \in {"idle", "eraseP"} \cup Reading => primary = backup /\ primary \in State
       /\ phase \notin {"eraseR", "writeR"}
       /\ phase = "writeP" => backup \in State
  /\ formatted /\ faults = 1 =>
       primary \in State \/ backup \in State \/ phase = "writeP"

StoreInv == TypeOK /\ PhaseInv /\ CopiesInv

-----------------------------------------------------------------------------
\* No flash operation under way means nothing to cut short.
LEMMA CutShortCases ==
  ASSUME TypeOK, CutShort
  PROVE  /\ phase' = "idle" /\ formatted' = formatted
         /\ primary' \in Contents /\ backup' \in Contents
         /\ \/ phase \notin Mutating /\ primary' = primary /\ backup' = backup /\ faults' = faults
            \/ /\ phase \in Mutating
               /\ faults' = faults + 1 /\ faults + 1 \in 0 .. MaxFaults
               /\ \/ phase \in ErasingPrimary /\ primary' \in {primary, Corrupt} /\ backup' = backup
                  \/ phase \in WritingPrimary /\ primary' \in {buf, Corrupt} /\ backup' = backup
                  \/ phase = "eraseB" /\ primary' = primary /\ backup' \in {backup, Corrupt}
                  \/ phase = "writeB" /\ primary' = primary /\ backup' \in {buf, Corrupt}
<1> USE StoreAssumption DEF TypeOK, CutShort, PrimaryCutShort, BackupCutShort, Phase, Mutating,
        ErasingPrimary, WritingPrimary, Reading, Contents, State
<1>1. CASE phase \notin Mutating
  BY <1>1
<1>2. CASE phase \in ErasingPrimary
  BY <1>2
<1>3. CASE phase \in WritingPrimary
  BY <1>3
<1>4. CASE phase = "eraseB"
  BY <1>4
<1>5. CASE phase = "writeB"
  BY <1>5
<1> QED
  BY <1>1, <1>2, <1>3, <1>4, <1>5

LEMMA InitInv == Init => StoreInv
<1> SUFFICES ASSUME Init PROVE StoreInv
  OBVIOUS
<1>1. formatted \in BOOLEAN /\ (formatted => primary # Corrupt)
  BY Zenon DEF Init
<1>2. TypeOK
  BY <1>1, StoreAssumption DEF Init, TypeOK, Contents, Phase, Mutating, ErasingPrimary, WritingPrimary
<1>3. PhaseInv
  BY DEF Init, PhaseInv, WritingPrimary
<1>4. CopiesInv
  BY <1>1 DEF Init, CopiesInv, Contents
<1> QED
  BY <1>2, <1>3, <1>4 DEF StoreInv

\* Every step keeps the types.
LEMMA NextType == TypeOK /\ PhaseInv /\ [Next]_vars => TypeOK'
<1> SUFFICES ASSUME TypeOK, PhaseInv, [Next]_vars PROVE TypeOK'
  OBVIOUS
<1> USE StoreAssumption DEF TypeOK, Contents, State, Phase, Reading, Mutating, ErasingPrimary,
        WritingPrimary, Return, Synced
<1>1. CASE BeginRead \/ BeginHeaderRead \/ \E st \in State : BeginWrite(st)
  BY <1>1 DEF BeginRead, BeginHeaderRead, BeginWrite
<1>2. CASE ReadPrimary
  BY <1>2 DEF ReadPrimary
<1>3. CASE ReadBackup
  BY <1>3 DEF ReadBackup
<1>4. CASE HeaderPrimary
  BY <1>4 DEF HeaderPrimary
<1>5. CASE HeaderBackup
  BY <1>5 DEF HeaderBackup
<1>6. CASE ErasePrimary
  BY <1>6 DEF ErasePrimary
<1>7. CASE WritePrimary
  BY <1>7 DEF WritePrimary
<1>8. CASE RestorePrimary
  BY <1>8 DEF RestorePrimary
<1>9. CASE EraseBackup
  BY <1>9 DEF EraseBackup
<1>10. CASE WriteBackup
  BY <1>10 DEF WriteBackup
<1>11. CASE FlashError
  BY <1>11, CutShortCases DEF FlashError
<1>12. CASE PowerCut
  BY <1>12, CutShortCases DEF PowerCut
<1>13. CASE UNCHANGED vars
  BY <1>13 DEF vars
<1> QED
  BY <1>1, <1>2, <1>3, <1>4, <1>5, <1>6, <1>7, <1>8, <1>9, <1>10, <1>11, <1>12, <1>13
     DEF Next, Step
\* Every step keeps what the phase says.
LEMMA NextPhase == TypeOK /\ PhaseInv /\ [Next]_vars => PhaseInv'
<1> SUFFICES ASSUME TypeOK, PhaseInv, [Next]_vars PROVE PhaseInv'
  OBVIOUS
<1> USE StoreAssumption DEF TypeOK, PhaseInv, Contents, State, WritingPrimary, ErasingPrimary,
        Return
<1>1. CASE BeginRead \/ BeginHeaderRead \/ \E st \in State : BeginWrite(st)
  BY <1>1 DEF BeginRead, BeginHeaderRead, BeginWrite
<1>2. CASE ReadPrimary \/ ReadBackup
  BY <1>2 DEF ReadPrimary, ReadBackup
<1>3. CASE HeaderPrimary \/ HeaderBackup
  BY <1>3 DEF HeaderPrimary, HeaderBackup
<1>4. CASE ErasePrimary \/ WritePrimary \/ RestorePrimary
  BY <1>4 DEF ErasePrimary, WritePrimary, RestorePrimary
<1>5. CASE EraseBackup \/ WriteBackup
  BY <1>5 DEF EraseBackup, WriteBackup
<1>6. CASE FlashError \/ PowerCut
  <2>1. phase' = "idle"
    BY <1>6 DEF FlashError, PowerCut, CutShort
  <2> QED
    BY <2>1
<1>7. CASE UNCHANGED vars
  BY <1>7 DEF vars
<1> QED
  BY <1>1, <1>2, <1>3, <1>4, <1>5, <1>6, <1>7 DEF Next, Step

\* Every step leaves a state in the copies where CopiesInv says it is.
LEMMA NextCopies == StoreInv /\ [Next]_vars => CopiesInv'
<1> SUFFICES ASSUME StoreInv, [Next]_vars PROVE CopiesInv'
  OBVIOUS
<1> USE StoreAssumption DEF StoreInv, TypeOK, PhaseInv, CopiesInv, Contents, State, Phase, Reading,
        Mutating, WritingPrimary, ErasingPrimary, Return, Synced
<1>1. CASE BeginRead \/ BeginHeaderRead \/ \E st \in State : BeginWrite(st)
  BY <1>1 DEF BeginRead, BeginHeaderRead, BeginWrite
<1>2. CASE ReadPrimary \/ ReadBackup
  BY <1>2 DEF ReadPrimary, ReadBackup
<1>3. CASE HeaderPrimary \/ HeaderBackup
  BY <1>3 DEF HeaderPrimary, HeaderBackup
<1>4. CASE ErasePrimary
  BY <1>4 DEF ErasePrimary
<1>5. CASE WritePrimary \/ EraseBackup
  BY <1>5 DEF WritePrimary, EraseBackup
<1>6. CASE RestorePrimary \/ WriteBackup
  BY <1>6 DEF RestorePrimary, WriteBackup
<1>7. CASE FlashError \/ PowerCut
  <2>1. CutShort
    BY <1>7 DEF FlashError, PowerCut
  <2>2. CASE phase \notin Mutating
    BY <2>1, <2>2, CutShortCases
  <2>3. CASE phase \in Mutating
    <3>1. phase' = "idle" /\ formatted' = formatted /\ faults' = faults + 1
      BY <2>1, <2>3, CutShortCases
    <3>2. ASSUME formatted, faults = 0 PROVE primary' \in State \/ backup' \in State
      BY <2>1, <2>3, <3>2, CutShortCases
    <3> QED
      BY <3>1, <3>2
  <2> QED
    BY <2>2, <2>3
<1>8. CASE UNCHANGED vars
  BY <1>8 DEF vars
<1> QED
  BY <1>1, <1>2, <1>3, <1>4, <1>5, <1>6, <1>7, <1>8 DEF Next, Step

\* StoreInv is inductive: it holds of every state the store can reach.
THEOREM StoreInvariant == Spec => []StoreInv
<1>1. StoreInv /\ [Next]_vars => StoreInv'
  BY NextType, NextPhase, NextCopies DEF StoreInv
<1> QED
  BY InitInv, <1>1, PTL DEF Spec

\* The types of the store, for every set of boot states.
THEOREM TypeCorrect == Spec => []TypeOK
<1>1. StoreInv => TypeOK
  BY DEF StoreInv
<1> QED
  BY StoreInvariant, <1>1, PTL

\* One interrupted flash operation never loses both copies of the state:
\* loxboot_state_write erases a copy only while the other one holds a state.
THEOREM OneFaultSafety == Spec => []OneFaultSafe
<1>1. StoreInv => OneFaultSafe
  <2> SUFFICES ASSUME StoreInv, formatted, faults <= 1, phase # "writeP"
               PROVE  primary \in State \/ backup \in State
    BY DEF OneFaultSafe
  <2>1. faults = 0 \/ faults = 1
    BY StoreAssumption DEF StoreInv, TypeOK
  <2>2. CASE faults = 1
    BY <2>2 DEF StoreInv, CopiesInv
  <2>3. CASE faults = 0
    BY <2>3 DEF StoreInv, TypeOK, PhaseInv, CopiesInv, Phase, Mutating, Reading, ErasingPrimary,
       WritingPrimary
  <2> QED
    BY <2>1, <2>2, <2>3
<1> QED
  BY StoreInvariant, <1>1, PTL

-----------------------------------------------------------------------------
\* A restore, finished or cut short, changes nothing a read can see: the
\* primary it erases is one no read accepts, and what it writes is the backup.
LEMMA RestoreKeepsReadable ==
  ASSUME primary \notin Good, primary' \in {primary, Corrupt, backup}, backup' = backup
  PROVE  Readable' = Readable /\ Readable = Meaning(backup)
BY StoreAssumption DEF Readable, Meaning

\* The copies are untouched, and so is what a read returns.
LEMMA SameCopies ==
  ASSUME primary' = primary, backup' = backup
  PROVE  Readable' = Readable
BY DEF Readable, Meaning

\* What a step of a read or of a restore does to the copies.
LEMMA ReadingStep ==
  ASSUME StoreInv, [Next]_vars, phase \in Reading \cup {"eraseR", "writeR"}
  PROVE  /\ backup' = backup
         /\ primary' = primary \/ (primary \notin Good /\ primary' \in {primary, Corrupt, backup})
<1> USE StoreAssumption DEF StoreInv, PhaseInv, Reading, WritingPrimary, ErasingPrimary, Mutating
<1>1. CASE BeginRead \/ BeginHeaderRead \/ \E st \in State : BeginWrite(st)
  BY <1>1 DEF BeginRead, BeginHeaderRead, BeginWrite
<1>2. CASE ReadPrimary \/ ReadBackup \/ HeaderPrimary \/ HeaderBackup
  BY <1>2 DEF ReadPrimary, ReadBackup, HeaderPrimary, HeaderBackup
<1>3. CASE ErasePrimary \/ RestorePrimary
  BY <1>3 DEF ErasePrimary, RestorePrimary
<1>4. CASE WritePrimary \/ EraseBackup \/ WriteBackup
  BY <1>4 DEF WritePrimary, EraseBackup, WriteBackup
<1>5. CASE FlashError \/ PowerCut
  BY <1>5, CutShortCases DEF FlashError, PowerCut
<1>6. CASE UNCHANGED vars
  BY <1>6 DEF vars
<1> QED
  BY <1>1, <1>2, <1>3, <1>4, <1>5, <1>6 DEF Next, Step

\* What a read returns is what the copies hold after it.
LEMMA ReturnsReadable ==
  ASSUME StoreInv, Next, phase \in Reading \cup {"eraseR", "writeR"},
         phase' = "idle", res' = "OK", buf' \in Good
  PROVE  buf' = Readable'
<1> USE StoreAssumption DEF StoreInv, PhaseInv, Reading, WritingPrimary, ErasingPrimary, Mutating,
        Return
<1>1. CASE BeginRead \/ BeginHeaderRead \/ \E st \in State : BeginWrite(st)
  BY <1>1 DEF BeginRead, BeginHeaderRead, BeginWrite
<1>2. CASE ReadPrimary \/ ReadBackup \/ HeaderPrimary \/ HeaderBackup
  BY <1>2 DEF ReadPrimary, ReadBackup, HeaderPrimary, HeaderBackup, Readable
<1>3. CASE ErasePrimary \/ RestorePrimary
  BY <1>3 DEF ErasePrimary, RestorePrimary, Readable
<1>4. CASE WritePrimary \/ EraseBackup \/ WriteBackup
  BY <1>4 DEF WritePrimary, EraseBackup, WriteBackup
<1>5. CASE FlashError \/ PowerCut
  BY <1>5 DEF FlashError, PowerCut
<1> QED
  BY <1>1, <1>2, <1>3, <1>4, <1>5 DEF Next, Step

\* Reading the boot state, restoring the primary included, never changes the
\* record a later read returns (loxboot_state_read writes flash when it finds
\* the primary bad).
THEOREM ReadFaithfulness == Spec => ReadFaithful
<1>1. StoreInv /\ [Next]_vars => [ReadStepFaithful]_vars
  <2> SUFFICES ASSUME StoreInv, Next, phase \in Reading \cup {"eraseR", "writeR"}
               PROVE  /\ Readable' = Readable
                      /\ phase' = "idle" /\ res' = "OK" /\ buf' \in Good => buf' = Readable
    BY DEF ReadStepFaithful
  <2>1. Readable' = Readable
    BY ReadingStep, RestoreKeepsReadable, SameCopies
  <2> QED
    BY <2>1, ReturnsReadable
<1> QED
  BY StoreInvariant, <1>1, PTL DEF Spec, ReadFaithful

-----------------------------------------------------------------------------
\* What the phase says, in the terms of the record, of a write ...
LEMMA WriteStages ==
  ASSUME StoreInv
  PROVE  /\ phase \in {"eraseP", "writeP"} => Stage = "begun" /\ Pending = buf
         /\ phase = "eraseB" => Pending = buf /\ Stage = IF buf \in Good THEN "effective" ELSE "begun"
         /\ phase = "writeB" => Stage = "effective" /\ Pending = buf
         /\ ~Writing => Stage = "idle" /\ Pending = Corrupt /\ Intact = (Readable = Meaning(backup))
BY DEF Stage, Pending, Writing, Effective, Intact

\* ... and of the record itself.
LEMMA WriteContents ==
  ASSUME StoreInv
  PROVE  /\ phase = "eraseP" => Intact = (Readable = Meaning(backup))
         /\ phase = "writeP" => Intact = TRUE /\ Readable = Meaning(backup)
         /\ phase = "eraseB" /\ buf \in Good => Readable = buf /\ Intact = FALSE
         /\ phase = "eraseB" /\ buf \notin Good => Readable = Meaning(backup) /\ Intact = TRUE
         /\ phase = "writeB" => Readable = Meaning(buf) /\ Intact = FALSE
         /\ Readable \in Good \cup {Corrupt} /\ Meaning(buf) = Record!AsRead(buf)
         /\ Intact \in BOOLEAN
BY StoreAssumption DEF StoreInv, TypeOK, PhaseInv, Intact, Readable, Meaning, Writing, Effective,
   Contents, State, WritingPrimary, Record!AsRead

LEMMA RecordInit == Init => Record!Init
BY StoreAssumption DEF Init, Record!Init, Contents, State, Readable, Meaning, Pending, Stage,
   Writing, Effective, Intact

\* A step outside a write that keeps the record is a read, or invisible.
LEMMA StepIsRead ==
  ASSUME StoreInv, ~Writing, ~Writing', Readable' = Readable,
         Readable = Meaning(backup) <=> Readable' = Meaning(backup'),
         \/ res' = res
         \/ res' \in {"OK", "FLASH", "CUT"}
         \/ res' = "CORRUPT" /\ Readable = Corrupt
  PROVE  Record!Read \/ UNCHANGED Record!recordVars
BY StoreAssumption DEF Record!Read, Record!recordVars, Stage, Pending, Intact

LEMMA BeginIsBegin ==
  ASSUME StoreInv, NEW st \in State, BeginWrite(st)
  PROVE  Record!Begin(st)
BY DEF BeginWrite, Record!Begin, State, Readable, Meaning, Pending, Stage, Writing, Effective,
   Intact

\* The erase that starts a write: harmless if the backup holds the record too,
\* otherwise what was left of the record decays.
LEMMA EraseIsDecay ==
  ASSUME StoreInv, StoreInv', ErasePrimary, phase = "eraseP"
  PROVE  Record!Decay \/ UNCHANGED Record!recordVars
<1>1. phase' = "writeP" /\ backup' = backup /\ buf' = buf /\ res' = res
  BY DEF ErasePrimary
<1>2. Stage = "begun" /\ Stage' = "begun" /\ Pending' = Pending
  BY <1>1, WriteStages DEF Stage, Pending, Writing, Effective
<1>3. Intact' = TRUE /\ Readable' = Meaning(backup)
  BY <1>1, StoreAssumption DEF ErasePrimary, Intact, Readable, Meaning, Writing, Effective
<1>4. Readable' \in Good \cup {Corrupt}
  BY <1>3 DEF Meaning
<1>5. CASE Intact
  BY <1>1, <1>2, <1>3, <1>5, WriteContents DEF Record!recordVars
<1>6. CASE ~Intact
  BY <1>1, <1>2, <1>3, <1>4, <1>6 DEF Record!Decay
<1> QED
  BY <1>5, <1>6

\* The write of the primary takes effect if it is of a state a read accepts.
LEMMA WriteTakesEffect ==
  ASSUME StoreInv, StoreInv', WritePrimary
  PROVE  Record!TakeEffect \/ UNCHANGED Record!recordVars
<1>1. /\ phase = "writeP" /\ phase' = "eraseB"
      /\ primary' = buf /\ backup' = backup /\ buf' = buf /\ res' = res
  BY DEF WritePrimary
<1>2. Stage = "begun" /\ Pending' = Pending /\ Pending = buf /\ Intact = TRUE
  BY <1>1, WriteStages, WriteContents DEF Pending, Writing
<1>3. Readable = Meaning(backup) /\ Meaning(buf) = Record!AsRead(buf)
  BY <1>1, WriteContents
<1>4. CASE buf \in Good
  <2>1. Stage' = "effective" /\ Intact' = FALSE /\ Readable' = Meaning(buf)
    BY <1>1, <1>4 DEF Stage, Intact, Writing, Effective, Readable, Meaning
  <2> QED
    BY <1>1, <1>2, <1>3, <2>1 DEF Record!TakeEffect
<1>5. CASE buf \notin Good
  <2>1. Stage' = "begun" /\ Intact' = TRUE /\ Readable' = Readable
    BY <1>1, <1>3, <1>5 DEF Stage, Intact, Writing, Effective, Readable, Meaning
  <2> QED
    BY <1>1, <1>2, <2>1 DEF Record!recordVars
<1> QED
  BY <1>4, <1>5

\* Erasing the backup takes effect only for a state that no read accepts.
LEMMA EraseTakesEffect ==
  ASSUME StoreInv, StoreInv', EraseBackup
  PROVE  Record!TakeEffect \/ UNCHANGED Record!recordVars
<1>1. /\ phase = "eraseB" /\ phase' = "writeB"
      /\ primary' = primary /\ backup' = Corrupt /\ buf' = buf /\ res' = res
  BY DEF EraseBackup
<1>2. Pending' = Pending /\ Pending = buf /\ Stage' = "effective" /\ Intact' = FALSE
  BY <1>1, WriteStages DEF Pending, Stage, Intact, Writing, Effective
<1>3. primary = buf /\ Readable' = Meaning(buf) /\ Meaning(buf) = Record!AsRead(buf)
  BY <1>1, WriteContents, StoreAssumption DEF StoreInv, PhaseInv, Readable, Meaning
<1>4. CASE buf \in Good
  BY <1>1, <1>2, <1>3, <1>4, WriteStages, WriteContents DEF Meaning, Record!recordVars
<1>5. CASE buf \notin Good
  BY <1>1, <1>2, <1>3, <1>5, WriteStages, WriteContents DEF Record!TakeEffect
<1> QED
  BY <1>4, <1>5

\* The write returns when both copies hold the new state.
LEMMA WriteAcknowledged ==
  ASSUME StoreInv, StoreInv', WriteBackup
  PROVE  Record!Acknowledge
<1>1. /\ phase = "writeB" /\ phase' = "idle"
      /\ primary' = primary /\ backup' = buf /\ buf' = buf /\ res' = "OK"
  BY DEF WriteBackup, Return
<1>2. primary = buf
  BY <1>1 DEF StoreInv, PhaseInv
<1>3. Stage = "effective" /\ Readable = Meaning(buf) /\ Readable' = Meaning(buf)
  BY <1>1, <1>2, WriteStages, WriteContents DEF Readable, Meaning
<1>4. ~Writing'
  BY <1>1 DEF Writing
<1>5. Stage' = "idle" /\ Pending' = Corrupt /\ Intact' = TRUE
  BY <1>1, <1>3, <1>4 DEF Stage, Pending, Intact, Meaning
<1> QED
  BY <1>1, <1>3, <1>5 DEF Record!Acknowledge

\* A write that is cut short has taken effect or not; a record that was not
\* intact may be lost.
LEMMA CutIsAbort ==
  ASSUME StoreInv, StoreInv', CutShort, Writing, res' \in {"FLASH", "CUT"}
  PROVE  Record!Abort
<1>1. phase \in {"eraseP", "writeP", "eraseB", "writeB"} /\ phase \in Mutating /\ phase' = "idle"
  BY CutShortCases DEF StoreInv, Writing, Mutating, ErasingPrimary, WritingPrimary
<1>2. Stage # "idle" /\ Stage' = "idle" /\ Pending' = Corrupt
  BY <1>1 DEF Stage, Pending, Writing
<1>3. Readable' \in Good \cup {Corrupt} /\ Intact' \in BOOLEAN
  BY DEF Readable, Meaning, Intact
<1>4. CASE Stage = "effective"
  <2>1. primary' = primary /\ primary = buf /\ backup' \in {backup, buf, Corrupt}
    BY <1>1, <1>4, CutShortCases DEF StoreInv, PhaseInv, Stage, Writing, Effective, ErasingPrimary,
       WritingPrimary
  <2>2. buf \in Good \/ (phase = "writeB" /\ backup' \notin Good /\ buf \notin Good)
    BY <1>1, <1>4, <2>1, StoreAssumption, CutShortCases
       DEF StoreInv, PhaseInv, Stage, Writing, Effective, ErasingPrimary, WritingPrimary
  <2>3. Readable' = Meaning(buf)
    BY <2>1, <2>2 DEF Readable, Meaning
  <2>4. Readable = Meaning(buf)
    BY <1>1, <1>4, WriteContents DEF Stage, Writing, Effective, Meaning
  <2> QED
    BY <1>2, <1>3, <1>4, <2>3, <2>4 DEF Record!Abort
<1>5. CASE Stage = "begun" /\ Intact
  <2>1. Readable = Meaning(backup) /\ Pending = buf /\ Meaning(buf) = Record!AsRead(buf)
    BY <1>1, <1>5, WriteStages, WriteContents DEF Stage, Writing, Effective, Meaning
  <2>2. Readable' \in {Readable, Meaning(buf)}
    <3>1. CASE phase \in {"eraseP", "writeP"}
      <4>1. backup' = backup /\ primary' \in {primary, buf, Corrupt}
        BY <3>1, CutShortCases DEF StoreInv, ErasingPrimary, WritingPrimary
      <4> QED
        BY <2>1, <4>1, StoreAssumption DEF Readable, Meaning
    <3>2. CASE phase = "eraseB"
      <4>1. primary' = primary /\ primary = buf /\ buf \notin Good /\ backup' \in {backup, Corrupt}
        BY <1>5, <3>2, CutShortCases
           DEF StoreInv, PhaseInv, Stage, Writing, Effective, ErasingPrimary, WritingPrimary
      <4> QED
        BY <2>1, <4>1, StoreAssumption DEF Readable, Meaning
    <3> QED
      BY <1>1, <1>5, <3>1, <3>2 DEF Stage, Writing, Effective
  <2> QED
    BY <1>2, <1>3, <1>5, <2>1, <2>2 DEF Record!Abort
<1>6. CASE Stage = "begun" /\ ~Intact
  BY <1>2, <1>3, <1>6 DEF Record!Abort
<1> QED
  BY <1>4, <1>5, <1>6 DEF Stage

\* Reading and restoring are reads.
LEMMA ReadIsRead ==
  ASSUME StoreInv, StoreInv', Next, phase \in Reading \cup {"eraseR", "writeR"}
  PROVE  Record!Read \/ UNCHANGED Record!recordVars
<1>1. ~Writing
  BY DEF Writing, Reading
<1>2. ~Writing'
  BY CutShortCases DEF StoreInv, Reading, Writing, Next, Step, BeginRead, BeginHeaderRead, BeginWrite,
     ReadPrimary, ReadBackup, HeaderPrimary, HeaderBackup, ErasePrimary, WritePrimary,
     RestorePrimary, EraseBackup, WriteBackup, FlashError, PowerCut, Return
<1>3. Readable' = Readable
  BY ReadingStep, RestoreKeepsReadable, SameCopies DEF vars
<1>4. backup' = backup
  BY ReadingStep DEF vars
<1>5. \/ res' = res
      \/ res' \in {"OK", "FLASH", "CUT"}
      \/ res' = "CORRUPT" /\ Readable = Corrupt
  BY StoreAssumption DEF StoreInv, PhaseInv, Reading, Next, Step, BeginRead, BeginHeaderRead, BeginWrite,
     ReadPrimary, ReadBackup, HeaderPrimary, HeaderBackup, ErasePrimary, WritePrimary, State,
     RestorePrimary, EraseBackup, WriteBackup, FlashError, PowerCut, Return, Readable, Meaning
<1> QED
  BY <1>1, <1>2, <1>3, <1>4, <1>5, StepIsRead DEF Meaning

\* The store implements the atomic record: a caller of loxboot_state_read and
\* loxboot_state_write sees one value, replaced at one instant, except that a
\* write after an interrupted one may lose it.
THEOREM RecordImplemented == Spec => ImplementsRecord
<1>1. StoreInv /\ StoreInv' /\ [Next]_vars => [Record!Next]_(Record!recordVars)
  <2> SUFFICES ASSUME StoreInv, StoreInv', [Next]_vars
               PROVE  Record!Next \/ UNCHANGED Record!recordVars
    OBVIOUS
  <2>1. CASE UNCHANGED vars
    BY <2>1 DEF vars, Record!recordVars, Readable, Meaning, Pending, Stage, Intact, Writing,
       Effective
  <2>2. CASE Next /\ phase \in Reading \cup {"eraseR", "writeR"}
    BY <2>2, ReadIsRead DEF Record!Next
  <2>3. CASE BeginRead \/ BeginHeaderRead
    BY <2>3, StepIsRead, SameCopies DEF BeginRead, BeginHeaderRead, Writing, Meaning, Record!Next
  <2>4. CASE \E st \in State : BeginWrite(st)
    BY <2>4, BeginIsBegin DEF Record!Next, State
  <2>5. CASE phase \notin Reading \cup {"eraseR", "writeR"} /\ Step
    BY <2>5, EraseIsDecay, WriteTakesEffect, EraseTakesEffect, WriteAcknowledged
       DEF Step, Reading, ErasingPrimary, ReadPrimary, ReadBackup, HeaderPrimary, HeaderBackup,
           ErasePrimary, RestorePrimary, Record!Next
  <2>6. CASE CutShort /\ res' \in {"FLASH", "CUT"} /\ Writing
    BY <2>6, CutIsAbort DEF Record!Next
  <2>7. CASE CutShort /\ res' \in {"FLASH", "CUT"} /\ phase = "idle"
    BY <2>7, CutShortCases, StepIsRead, SameCopies
       DEF StoreInv, Writing, Mutating, ErasingPrimary, WritingPrimary, Meaning, Record!Next
  <2> QED
    BY <2>1, <2>2, <2>3, <2>4, <2>5, <2>6, <2>7
       DEF StoreInv, TypeOK, Phase, Mutating, ErasingPrimary, WritingPrimary, Writing, Next,
           FlashError, PowerCut
<1> QED
  BY RecordInit, StoreInvariant, <1>1, PTL DEF Spec, ImplementsRecord, Record!Spec

=============================================================================

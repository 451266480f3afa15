# loxboot in TLA+

Models, model-checking runs and machine-checked proofs for the loxboot
bootloader. Every definition is translated from the C source; paths below are
relative to the repository, which the models see as `src/` (so the core is
`src/src/loxboot_core.c`).

## The system

| Component | Source | State it keeps | Operations |
|---|---|---|---|
| Boot-state store | `src/loxboot_state.c` | two flash copies of `loxboot_state_t` (primary, backup) | `loxboot_state_read` (falls back to the backup and restores the primary from it), `loxboot_state_read_header_crc_only`, `loxboot_state_write` (primary, then backup; each is an erase and a write) |
| Boot sequence | `src/loxboot_core.c`, `loxboot_init`, `loxboot_run`, `loxboot_run_rollback` | the context `loxboot_t`: `boot_reason`, `active_slot`, a RAM copy of the state | read or format, choose a slot, roll back at the attempt limit, count the attempt, verify the image, promote, record the reason, hand off |
| Application API | `src/loxboot_core.c` | the same context and the store | confirm, commit, verify, invalidate, request, format, two getters |
| `loxboot_init` checks | `src/loxboot_core.c:19-60`, `91-152` | none | overflow and overlap checks on 32-bit address ranges |
| UART frame codec | `ports/uart/loxboot_uart.c` | the frame buffer, shared by the frame that is received and the response that is sent | receive a frame (resynchronising on SOF, CRC16, timeouts), send a response |
| UART session | `ports/uart/loxboot_uart.c` | `loxboot_uart_session_t`: session started, erased, bytes written, commit done, ... | HELLO, WRITE, COMMIT, ABORT, STATUS, REBOOT |
| ESP32 updater | `adapters/esp32/`, `idf_project/main/main.c` | the OTA data of the vendor's boot loader | synchronise the boot state with OTA, hand off, confirm; a loop of UART sessions |
| Flash adapters | `adapters/*/loxboot_flash_*.c`, `idf_project/main/main.c` | none | read, write and erase by address: erases rounded to pages, STM32 writes padded to doublewords, ESP32 calls routed to partitions |
| CRC32 | `src/loxboot_crc32.c` | none | a table-driven pure function |

How they interact: everything is synchronous and single-threaded. The boot
sequence and the API call the store and wait for it; the store calls the flash
adapter. The application shares the flash, and on one kind of platform the
context, with the boot loader. The concurrency of this system is with its
environment: a power cut, a reset or a flash error may fall between any two
flash operations, or inside one, and what survives is flash alone.

What is hard, per component:

* store: a cut in any of the four flash operations of a write, or in the two of
  a restore; a backup that is never looked at while the primary is good, and so
  holds an older state after an interrupted write; a header-only read that
  accepts what the normal read does not.
* boot sequence: a loop (`goto boot_retry`) entered from three places; RAM that
  runs ahead of flash when the result of a write is ignored; an attempt counter
  that must be right although power fails between counting and jumping; a
  rollback that re-reads flash.
* API: calls that read, edit and write one record, interrupted anywhere, with
  guards on the state that was read; slots that must not come back once refused.
* UART session: frames in any order, broken off or repeated, against a slot
  that is erased before the boot state says so; a listen window that may end
  anywhere; session flags that outlive what they stand for.
* UART frames: no byte of a frame is reserved for its start, so that a lost byte
  can make the receiver take a payload for a frame; responses are built over the
  bytes they answer, and three error paths disagree on how much room they have.
* flash adapters: an erase wipes whole pages, which the STM32 names by their numbers
  in a bank, a host chooses the offsets of its writes, and 32-bit addresses wrap.
* ESP32 updater: two stores of the same facts, ESP-IDF's OTA data and the boot
  state, brought together once per start by calls whose results are ignored.

`PROJECT.json` lists every hazard at its line with the properties that would
catch it going wrong.

## Modules

```
BootTypes -> BootRun -> BootApi -> UartSession -> Device -> MCDevice (TLC)
    |           |                                    |
    |           |                                    +-> DeviceCalls_proofs -> DeviceBoot_proofs
    |           |                                    |     -> DeviceSession_proofs
    |           |                                    |        -> DevicePolicy_proofs (TLAPS)
    |           |                                    |        -> Esp32Updater_proofs (TLAPS)
    |           |                                    |                ^
    |           |                                    +-> Esp32Updater -+-> MCEsp32 (TLC)
    |           |                                    |
    |           |                                    +-- Policy == INSTANCE BootPolicy
    |           |
    |           +-- Store == INSTANCE StateStore -> MCStateStore (TLC)
    |                                |
    |                                +-- Record == INSTANCE BootRecord
    |                                +-> StateStore_proofs (TLAPS)
    |
    +-> BootPolicy
            +-- Record == INSTANCE BootRecord

UartFrame -> MCUartFrame (TLC)
     +-----> UartFrame_proofs (TLAPS)

FlashLayout -> FlashPort -> MCFlashPort (TLC)
                   +-----> FlashPort_proofs (TLAPS)
```

**StateStore** models `loxboot_state.c`. `primary` and `backup` are the
contents of the two copies: a state the normal read accepts (`Good`), one that
only the header-only read accepts (`HeaderOnly`), or `Corrupt`. `phase` is the
flash operation under way and `buf` the structure in RAM. One action is one
flash operation: `ReadPrimary`, `ReadBackup`, `HeaderPrimary`, `HeaderBackup`,
`ErasePrimary`, `WritePrimary`, `RestorePrimary`, `EraseBackup`,
`WriteBackup`. `FlashError` is an error return of any of them, which the code
passes on at once. `PowerCut` may fall between two operations or inside one;
an interrupted erase leaves the old contents or a torn copy, an interrupted
write a torn copy or the new contents. `faults` and `formatted` are history
variables for the properties.

**BootRecord** is the abstract specification: one record, replaced atomically.
A write begins, takes effect at one instant, and is acknowledged after it; a
write that is cut short has taken effect or not. A record that an interrupted
write has left without its second copy is not `intact`: the next write may lose
it, or bring back an older one, before it takes effect. This is what the code
guarantees, no more: `loxboot_state_read` never repairs the backup.

**BootTypes** has the boot state of `loxboot.h` as records, and every edit that
the code makes to it (`AttemptEdit`, `RollbackEdit`, `CommitEdit`, ...) as a
pure operator. A firmware and its description (size, CRC32) are one model value.

**BootRun** models `loxboot_init` and `loxboot_run`. `pc` is a point between two
calls of the store; an action runs from the return of one store call to the
next (`At(l)` waits for the return, `Read(l)` and `Write(st, l)` make the next
call and go on at `l`). The numbers in the comments are those of the comments in
`loxboot_run`.

**BootApi** models the calls of the application: `Invoke` and `Format` start one,
`Confirm`, `Commit`, `Invalidate`, `Request` and `Check` are the bodies after
the state was read, `ReadFailed` and `Repair` the error path, and `Written` the
return. Each body edits the state that was read and keeps the guard of the code.

**UartSession** models `loxboot_uart_run_session`. `sess` is
`loxboot_uart_session_t` with the locals that live across frames (the target
slot, the frame that is handled, its response). The session waits at `listen`;
`Command(f)` takes a frame of the host, `DropFrame` one that breaks off or is too
long, `Timeout` the end of the listen window, `ReceiveError` and `SendError` a
failing transport. A command that calls the API does so like the application
(`Ask`, `Begin`) and goes on where `sess.back` says. An image is written in
chunks, one per WRITE; `draft` is what the chunks of the slot hold since the
erase, so that gaps, repeats, overwritten chunks and short writes are told
apart, and `Contents` the firmware they add up to, if any. A WRITE without data
reaches the adapter, which refuses a length of 0 (`ProgramFails`): that costs the
slot its record, as `docs/PROTOCOL_UART.md` does not say.

**UartFrame** is what lies under it: how bytes become frames. `line` is what is on
its way to the device, `buf` the frame buffer, `tx` what the last step sent. One
action is one byte read (`SkipByte`, `StartFrame`, `Collect`, `EndFrame`,
`RejectTooLong`), the end of the wait for one (`BreakOff`) or the end of the
session (`WindowEnds`). The host sends frames (`SendFrame`) that the line may
damage in a byte (`Damage`) or cut anywhere (`Lose`), and pauses (`Pause`). A frame
that is handled here is a `Command` of `UartSession`, one that is broken off or too
long a `DropFrame`, the window's end a `Timeout` or a `ReceiveError`. A byte has
`Base` values, a CRC two such bytes: `Shift` has the form of the table-driven
CRC16 and, like it, notices every single damaged byte.

**Device** composes them with the environment: `AppStart` (after the jump),
`UpdaterStart` (an application that calls `loxboot_init` itself),
`AppWritesImage` (any image, or part of one, into the slot it does not run from),
`FlashError` and `PowerCut`. `PowerCut` also stands for a crash, a watchdog reset
and a deliberate reset.

**BootPolicy** is the abstract specification of `Device`: one boot record
(`BootRecord` again), the images and who has the processor. It lists, by their
effect, the edits that the boot sequence may make before and after it has counted
an attempt, those of a session and those of the application, and says when control
may change hands: a hand-off needs a record that is readable, counted, verified
against the image and ACTIVE or VALID, all of it in flash and not in RAM. Which
edit comes when, what is read in between and where power fails are the details
that `Device` adds. The policy is that of flash without errors: after an error
`loxboot_run` may go on with a context that flash does not hold.

**Esp32Updater** models `idf_project/main/main.c` and the ESP32 platform: there
`loxboot_run` is not used, every firmware is this updater, and ESP-IDF's boot
loader chooses what runs. Its variables are ESP-IDF's: the OTA state of each
partition, the one that is selected, the one that runs. `IdfBoot` and
`SetBootPartition` are external, as far as the code relies on them (rollback is
enabled in `sdkconfig.defaults`): an image is tried once, and falls back if it is
not confirmed. `Start`, `AfterMainRead`, `AfterMainFormat`, `AfterSyncRead`,
`AfterSyncWrite` are `app_main` up to its loop (each firmware may have been built
with `LOXBOOT_ESP32_AUTO_CONFIRM` or without), `NextSession`, `HandOffToIdf` and
`NoHandOff` the loop. The store, the API and the session are the same modules.

**FlashLayout** models what `loxboot_init` accepts: `Accepts` is the code, with
its `uint32_t` bounds, `Sound` the meaning, in sets of bytes. `LoxbootInit` is the
only action.

**FlashPort** puts the flash adapters on an accepted layout: `flash` is the content
of every cell, and `area` what the calls that returned OK promise of each area.
`Stm32Erase`, `Stm32Write`, `Esp32Erase`, `Esp32Write` and `Route` give the cells an
operation touches, `EraseArea`, `WriteState` and `SessionWrite` (behind the offset
check of the session, `InSlot`) are the calls; each may fail with its cells torn.
On STM32 `Stm32Erase` computes page numbers as `loxboot_flash_stm32.c:73-81` does, from
the absolute address and for `FLASH_BANK_1`, and `HalErase` (external) finds the pages
with these numbers in bank 1: a number that the bank does not have makes the call fail
or loses its upper bits, so that another page is erased. Calls are made on any layout
that `loxboot_init` accepts; `Supported` states what an integrator must see to for
`AreasKept` to hold, and nothing in the code checks: no two areas share a page, and on
STM32 all of them lie in bank 1. The other modules take from here that an operation on
an area changes that area only, so they speak of devices whose layout is `Supported`.

Definitions that say "Faulty variant" are not part of the model. Each is a
plausible bug in the definition after it, kept to show that the property named
with it in `PROJECT.json` ("mutants") would notice.

## Runs

Model checking is exhaustive within the bounds given here.

| Run | Config | Bounds | Shows |
|---|---|---|---|
| store | `MCStateStore.cfg` | 3 good states, 1 header-only state, 3 faults | `OneFaultSafe`, `ReadFaithful`, refinement of `BootRecord` (`ImplementsRecord`) |
| boot | `MCDeviceBoot.cfg` | 2 firmwares, 2 attempts, 1 fault, flash errors; five ways to be provisioned | `CrashLoopBound`, `HandOffVerified`, `RollbackUpToDate`, `GivesUpOnlyWithoutSlot`, `CallsAreDurable` |
| calls | `MCDeviceCalls.cfg` | 1 firmware in both slots, 1 attempt, 1 fault, no flash errors, every call, applications with and without `loxboot_run`, damaged slot records | `OneActiveSlot`, `RefusedNeverRuns`, `CallsAreDurable`, refinement of `BootPolicy` (`ImplementsPolicy`) |
| update | `MCDeviceUpdate.cfg` | 2 firmwares, 2 attempts, 1 fault, no flash errors, the calls of an updating application | `UpdateNeverStrands` |
| session | `MCSession.cfg` | 1 firmware of 1 chunk, 1 attempt, 1 fault, errors of flash and transport | `AcknowledgedCommit`, `RefusalsHold` |
| ends | `MCDeviceEnds.cfg` | 1 firmware of 2 chunks, 1 attempt, 1 fault, no flash errors | `SessionSparesActive`, `AcknowledgedCommit`, `ImplementsPolicy`, and `BootEnds` under `FairSpec` |
| esp32 | `MCEsp32.cfg` | 1 firmware of 1 chunk, 1 fault, no flash errors, six kinds of OTA data, boot state or none | `ActiveIsRunning`, `AcknowledgedCommit`, `RefusalsHold` |
| frame | `MCUartFrame.cfg` | bytes of 8 values, payloads of at most 6, four frames (SOF and a whole frame in payloads, one too long), 3 frames between pauses, noise of two values | `InSync`, `NoEcho`, and `FrameEnds` under `FairSpec` |
| layout | `MCFlashPort.cfg` | 52 cells in pages of 4, six of them in bank 1, which begins at 24; doublewords of 2, a state of 3 bytes, 4 calls (on the layouts of `Exercised`), writes of at most 2 bytes at every offset | `VerdictRight` on 6,488 layouts, `AreasKept` on both adapters and every partition table |
| pending | `MCPending.cfg` | as update | counterexample to `CommitIsVerified` |
| short_frame | `MCShortFrame.cfg` | as ends, without fairness | counterexample to `ShortFrameIgnored` |
| esp_commit | `MCEspCommit.cfg` | as esp32, 2 chunks | counterexample to `CommitStands` |

What the properties say:

* `OneFaultSafe`: once written, the store keeps a readable copy through any one
  interrupted flash operation. The one exception is named in it: a write that
  follows such an interruption first erases the only copy.
* `ReadFaithful`: no read, restoring, failing or cut short, changes what a later
  read returns, and a read returns exactly that.
* `ImplementsRecord`: see BootRecord. It includes that OK is returned only for
  a write that has taken effect and left both copies equal, and that corruption
  is reported only when there is no record.
* `CrashLoopBound`: at most `LOXBOOT_MAX_BOOT_ATTEMPTS` hand-offs to a firmware
  that was neither confirmed nor replaced, wherever power fails.
* `HandOffVerified`: a jump goes to the slot that both copies name, whose image
  was verified in this boot, with the attempt and the reason recorded.
* `RollbackUpToDate`: at a rollback, which edits the state it reads from flash,
  flash and RAM agree, although the results of two earlier writes are ignored.
* `GivesUpOnlyWithoutSlot`: without flash errors, `on_fatal` is reached only if
  no slot that a boot may select has a good image and an attempt left.
* `OneActiveSlot`: what a reader sees never has the inactive slot ACTIVE or the
  active one ROLLBACK.
* `RefusedNeverRuns`: a slot that was recorded as INVALID or ROLLBACK does not
  get control before another image is committed to it.
* `CallsAreDurable`: a call that returned OK is in both copies.
* `UpdateNeverStrands`: an application that confirms its boots and updates the
  other slot cannot strand the device, except by `LOXBOOT_MAX_BOOT_ATTEMPTS`
  resets before it confirms (power cuts count as crashes, `loxboot_core.c:588`).
* `BootEnds`: the retry loop ends, and so does a session in it, whatever the host
  sends.
* `SessionSparesActive`: the slot that a session erases, writes and invalidates
  never is the one that flash calls active, although it was chosen once.
* `AcknowledgedCommit`: RSP_OK to COMMIT is true of the whole image and of both
  copies of the boot state, after any sequence of frames and errors.
* `ActiveIsRunning`: on ESP32 that slot never is the one that runs, through
  hand-offs, rollbacks by ESP-IDF, formatting and power cuts.
* `RefusalsHold`: when the host learns that its COMMIT or the session was called
  off, both copies of the boot state have that slot INVALID: neither an earlier
  COMMIT nor an older firmware of the slot is left there, unless flash failed.
  On ESP32 it and `AcknowledgedCommit` are checked again, since there the boot state
  that a session finds has just been edited by the synchronisation.
* `ImplementsPolicy`: see BootPolicy.
* `InSync`: from a pause of the host on, whatever noise came before it, every frame
  that arrives whole is handled, once, in order and with one response, and nothing
  else is; a damaged byte that is neither SOF nor length costs its frame only.
* `NoEcho`: what is sent decodes to a response or to nothing, never to a command.
* `FrameEnds`: the receiver does not stay in the middle of a frame.
* `AreasKept`: on a `Supported` layout what calls that returned OK have put into an
  area can be read there until that area is erased or written again: no erase or write
  of another area reaches it, and an erase that returned OK has erased it.
* `VerdictRight`: `loxboot_init` returns OK for the sound layouts and no others.

The bounds. Two slots are part of the program. Three good states let a stale
backup, the current state and the one being written differ. `MaxAttempts` 2
separates the first attempt, the last and the limit; 1 is enough where attempts
only decide whether a rollback happens. `MaxFaults` bounds erases and writes of
the boot state cut short *since the copies last agreed*, not in a behaviour: with
1, every boot and every call may be hit again once the copies agree; with 0, only
errors that leave the copies alone, and cuts between calls, remain. Cuts outside
an erase or a write of the boot state are not bounded at all, those of a firmware
slot included. Two chunks are the least that can be left out, written twice or
in the wrong order; the host may send each of them, of the firmware or of
other data, or no data at any offset. One chunk is enough where only the choice
of the slot matters. Six pages in bank 1
with a state of 3 bytes and slots of 5 or 8 leave room for the four areas side by side,
in several orders, with and without a rest of their last page (`OnPages`); with slots of
3 or 4 they may also begin in the middle of pages of their own (`OffPages`). `Unsupported`
puts a slot behind bank 1, or a copy of the boot state into a page of a slot, and `Anywhere`
has every way to overlap or to pass the top. Bank 1 does not begin at 0, so that the number
of a page is never its place in the bank. 4 calls are enough to fill two areas and touch
them again; a write of 2 bytes at every offset is a doubleword, or less than one, or too
late in its slot. Payloads of 6 bytes hold a whole
frame with its CRC, which is what a receiver that has lost a byte may mistake for
one; 3 frames between pauses are the frame that breaks, the one it swallows and the
one that is found again. The host sends when its last bytes have been read: what
the receiver does with a byte depends on `buf` alone.
With `MaxFaults = 2` `UpdateNeverStrands` fails, as
`BootRecord` says it may: a first cut spoils the backup, no read repairs it, and
a second one, while the next write has erased the primary, loses the state. That
exposure is a limit of the design, which `KNOWN_ISSUES.md:48-57` mentions.
`FlashMayFail` switches error returns of flash, transport and platform calls on;
where it is off, the property is about power alone. Errors, faults and two chunks
together are too many states for one run, so sessions have two: `session` with
errors and one chunk, `ends` with cuts and two.

Fairness. `FairSpec` adds weak fairness of `Work`: the steps of the store, the
boot sequence, a call and a session under way. The code is one thread without a
scheduler, so a powered processor takes its next step. It also adds strong
fairness of `Timeout`. Time is not modelled, and a host that sends frame after
frame disables `Timeout` again and again; but the clock goes on, the window is
measured from the start of the session, and it is checked at every iteration
(`loxboot_uart.c:225-230`), so that a session that comes back to it for ever does
time out. Nothing is assumed of the environment: no frame, application call,
reset, image or fault ever has to happen, and no power cut is ever excluded,
which is why `BootEnds` lists "off".
`UartFrame` assumes weak fairness of `Receive`: in the middle of a frame either a
byte is there to be read, or after 5 seconds the read times out.

Deadlock checking is on, except in `layout`, which ends with its last call (or with
a layout that is refused), and in `frame`, which ends with the session. In
the real device `on_fatal` does not return and ends in an endless loop; a reset
is always possible in the model, so that this state is not a deadlock.

## Where the code and its documentation disagree

* `CommitIsVerified`: `loxboot.h:421` and `docs/SPEC.md:90` say that a committed
  slot is verified or selected by the next boot. A commit never makes its slot
  active, and step [2] passes over a PENDING slot that is not active, so that
  nothing verifies or boots it; `loxboot_request_slot` refuses it too.
* `ShortFrameIgnored`: `docs/PROTOCOL_UART.md:166`. A frame that breaks off after
  its SOF byte invalidates the slot that is not active
  (`loxboot_uart.c:254`), before any HELLO too: a stray 0x7E on the line costs the
  device its fallback.
* `CommitStands`: `loxboot_transport.h:39`, `loxboot_uart.c:408`. `_commit_done`
  survives an ABORT, a WRITE or a refused COMMIT that follows the good one, and
  `app_main` hands off on it. (ESP-IDF still checks that it is an image.)

Seen while modelling, in the models as the code has it, without a run of their
own:

* One failed flash read while an image is verified (`loxboot_core.c:641`,
  `VerifyReadError`) records the slot as INVALID, which `loxboot.h:119` keeps for
  "CRC failed or explicitly invalidated".
* A session that times out after the erase (`Timeout`) returns OK and leaves the
  record of the slot as it was; `loxboot_transport.h:77` and `:80` promise an error
  and INVALID.
* ABORT answers OK whether or not the slot was invalidated (`Aborted` does not
  look at `ret`); `docs/PROTOCOL_UART.md:90`.
* `app_main` listens although the synchronisation failed
  (`idf_project/main/main.c:219`, `AfterSyncRead`, `AfterSyncWrite`): with flash
  errors `ActiveIsRunning` does not hold, and `docs/HARDWARE_EVIDENCE.md:106`
  requires it.
* The reason of a boot is not what was recorded: `loxboot_init` sets the context to
  NORMAL (`loxboot_core.c:155`), and step [6] overwrites the FORCED that
  `loxboot_request_slot` recorded before step [7] reports it (`loxboot.h:132`, `:466`).
* The response to a frame that breaks off within its first 6 bytes does not fit the
  room it is given (`loxboot_uart.c:256`): the received bytes are sent back
  (`BreakOff`). They never decode (`NoEcho`), but they are no RSP_ERROR either.
* A payload that is announced too long is answered with RSP_ERROR twice
  (`loxboot_uart.c:277`, `RejectTooLong`): the first is built over the frame, and its
  first four bytes are then decoded as that frame. The receiver looks for the next
  SOF in the payload that follows, and takes what it finds there for frames.
* The zeros that pad the last doubleword of an STM32 write lie where the next WRITE
  may go. An offset that is not a multiple of 8 is refused, so that chunks must be
  multiples of 8 but for the last; no document says so.
* The STM32 adapter numbers pages from address 0 and always looks for them in bank 1
  (`loxboot_flash_stm32.c:79-80`, `Stm32Erase`), where `docs/PORTING.md:128` says that
  `erase` accepts any address. In bank 1 this comes out right if the HAL drops the upper
  bits of the number, and every erase fails if it refuses them. An erase of an area
  behind bank 1 never erases that area: it fails, or wipes pages of bank 1 and returns
  OK. `docs/PLATFORM_STATUS.md:47` lists "dual-bank behavior" as not verified.
* `docs/MEMORY_LAYOUT.md:12-22` and `examples/stm32_uart/main.c:4` place the areas on an
  STM32F4, whose flash has sectors of 16 to 128 KB; the adapter erases pages of one size.
* Areas that share a page (`loxboot.h:267` and `docs/PORTING.md:134` ask the integrator
  for sectors of their own) are accepted by `loxboot_init` (`loxboot_core.c:112`), and an
  erase of one wipes the other. Both conditions of `Supported` are needed: without either
  of them TLC refutes `AreasKept` on the layouts `Unsupported`.
* `examples/esp32_uart/app_main.c` hands absolute addresses to an adapter that is
  bound to one slot and takes addresses relative to it.
* COMMIT before any WRITE invalidates the slot (`CommitFrame`), where
  `docs/PROTOCOL_UART.md:172` says "Session continues".

## Proofs

`StateStore_proofs` proves for every set of boot states and every `MaxFaults`:

* `TypeCorrect`: `Spec => []TypeOK`;
* `OneFaultSafety`: `Spec => []OneFaultSafe`;
* `ReadFaithfulness`: `Spec => ReadFaithful`;
* `RecordImplemented`: `Spec => ImplementsRecord`, the refinement.

The only assumption is `StoreAssumption`: the three kinds of contents are
disjoint. All four rest on one inductive invariant, `StoreInv`. `OneFaultSafe`
is not inductive: from a state where only the backup holds a state and a write
is about to erase it, one step breaks it. `PhaseInv` says what the phase tells
about the copies (a write erases the backup only behind a primary equal to
`buf`; a restore runs only over a primary that no read accepts, from a backup
equal to `buf`), and `CopiesInv` that before the first fault the copies agree
whenever no write is under way. `StoreInvariant` proves it step by step
(`NextType`, `NextPhase`, `NextCopies`). The refinement has one lemma per
concrete step: `EraseIsDecay`, `WriteTakesEffect`, `EraseTakesEffect`,
`WriteAcknowledged`, `CutIsAbort`, `ReadIsRead`.

`FlashPort_proofs` begins with `FlashLayout` and proves for every word size and every
size of the boot state:

* `AcceptsSound`: `loxboot_init` accepts a layout exactly if it is `Sound`;
* `VerdictIsRight`: `Spec => []VerdictRight`.

The only assumption is `LayoutAssumption`: the state is at least one byte and fits
a word. `OverlapIsSharing` shows that for areas whose ends fit a word
`loxboot_ranges_overlap` says whether they share a byte (the witness is the
larger of the two bases), and `PairsCover` that the six comparisons cover all
pairs of the four areas; both directions of `AcceptsSound` follow. `Sound` asks
that the end of an area, the address behind its last byte, fits a word, as the
code does: an area that ends exactly at the top of memory is refused.

It goes on with `FlashPort`, for every size of page, doubleword, word and boot state,
every size and place of bank 1, every layout and every partition table of whole pages:

* `AreasAreKept`: `PortSpec => []AreasKept`;
* `AlignedAreasApart`: areas that `loxboot_init` accepts and that begin with a page, as
  `loxboot.h:267` asks, share no page, which is the first condition of `Supported`;
* `PortVerdict`: `PortSpec => []VerdictRight`.

The assumptions are `LayoutAssumption` and `PortAssumption`: a page is a whole number
of doublewords, the address space one of pages, and bank 1 begins at a multiple of its
size (0x08000000, with a power of two of pages in it). `NumberOfPage` uses the last of
these: for an address in bank 1, dividing it by the size of a page and dropping the
bits that no page number of the bank has yields the place of its page in the bank,
although the base was never subtracted. `Stm32Pages` follows: an erase of an area whose
pages lie in bank 1 erases exactly these pages, neither fewer (`FirstPage`, `PagesEnd`)
nor others (`PageInside`). `EraseFacts` and `WriteFacts` say for both adapters that the
cells of a call lie in the pages of its area, and that a call that is not refused
reaches all it was asked to (`UpLeast`: rounding up yields the least multiple, so that
the padding of a write stays in its page); `RouteOfArea` that an area is routed to its
own partition, or nowhere. `OthersKept` then needs only that areas have pages of their
own. `AreasKept` alone is not inductive: that a cell can be read depends on the partition
that holds its area, which an erase that returned OK has shown to be large enough.
`PortInv` remembers it.

The four modules about `Device` prove, for any firmwares, `LOXBOOT_MAX_BOOT_ATTEMPTS`,
number of faults, calls, frames and provisioned states (the two about
`UpdateNeverStrands` for those that they name):

| Theorem | Statement |
|---|---|
| `DeviceTypes` | `Spec => []TypeOK` |
| `CallsDurable` | `Spec => CallsAreDurable` |
| `BootBounded` | `Spec => []CrashLoopBound` |
| `BootVerified` | `Spec => []HandOffVerified` |
| `BootRefuses` | `Spec => []RefusedNeverRuns` |
| `BootGivesUp` | `Spec => []GivesUpOnlyWithoutSlot` |
| `StoreWellFormed` | `Spec => []OneActiveSlot` |
| `RollbackReadsContext` | `Spec => []RollbackUpToDate` |
| `CommitsTrue` | `Spec => []AcknowledgedCommit` |
| `RefusalsTrue` | `Sound /\ Spec => []RefusalsHold` |
| `SparedFromPowerCuts` | `~FlashMayFail => (Spec => []SessionSparesActive)` |
| `SessionsSpare` | `Spec => [](~trouble => SessionSparesActive)` |
| `OneCutStrandsNothing` | `UpdatesOnly(h)`, `~FlashMayFail`, `MaxFaults <= 1` imply `Spec => []UpdateNeverStrands` |
| `UpdatesStrandNothing` | `UpdatesOnly(h)` implies `Spec /\ [](~trouble /\ faults <= 1) => []UpdateNeverStrands` |
| `PolicyImplemented` | `~FlashMayFail => (Spec => ImplementsPolicy)` |

The assumptions are those on the constants: `TypesAssumption` (an image is 1 to
`Chunks` chunks long, attempts fit their byte), `CallsAssumption` (the application
makes calls of the API) and `ProvisionedAssumption` (a device starts blank, or with the
same well-formed state in both copies). The proofs are layers of one inductive
invariant, each layer a module:

* `CallInv` (`DeviceCalls_proofs`) says what a caller of the store may rely on. A read
  that returns OK has left the primary equal to `buf`, a write that does has left both
  copies so, CORRUPT means that no read accepts either copy, and an error leaves
  `trouble`. Nothing about the values is needed for it. `ClientStep` is all that the
  boot sequence, the calls, the sessions and the application do to the store: nothing,
  or one call of it. So the store and its clients are proved apart, and `CallsDurable`
  needs no more.
* `BootInv` (`DeviceBoot_proofs`) adds what the values say. `Fit` holds of every copy,
  and of `buf`, at all times: it is well formed, counts at least the hand-offs, and has no
  refused slot in a state that boots. A copy that is overwritten is replaced by an edit
  of a fitting one, and each edit keeps `Fit` (`FitBoot`, `FitCall`), so that it does not
  matter which copy survives a cut. This is why the bounds hold for any number of
  faults, although the runs have one or two. `ContextInv` and `LimitInv` say
  at each label how the context relates to flash and what has been checked of it.
  `CrashLoopBound` alone is not inductive: that a hand-off stays within the limit depends
  on the stale backup, which only `Fit` bounds.
* `SessionInv` (`DeviceSession_proofs`) says for every point of a session which call was
  made for which frame (`OwnerInv`, `AskInv`, `LabelInv`) and what both copies hold for
  the target (`CommitInv`, `CalledOffInv`), and that, until something fails, the active
  slot of flash is not the target (`TargetInv`).
* `HomeInv(h)` (`DeviceSession_proofs`) follows the home slot `h`, from which the
  application runs. `UpdateNeverStrands` speaks of `on_fatal` only, and whether a boot
  ends there depends on what its first read finds, so three things must hold all along:
  every copy, and `buf` and the context, is a state that boots from `h` (`CopiesAtHome`),
  so that it does not matter which of them a reader gets; a copy survives (`SurvivorInv`);
  and the calls come from an application in `h` (`OwnerHome`). `SurvivorInv` ties the
  fault counter to the phase of the store, as `CopiesInv` does in `StateStore_proofs`:
  without a fault the copies agree between writes, and after one there is still a copy,
  except while a write that has erased the only one is about to replace it, which is
  where a second fault would strand the device.
* `PolicyInv` (`DevicePolicy_proofs`) adds what the refinement needs: which copy a write
  has erased (`ErasedInv`), that without errors the reads of a boot find a state
  (`FoundInv`), and that an attempt that is counted is in flash when the image is verified,
  promoted and recorded (`HeldInv`). Then every step of the store is a step of the one
  record (`StepIsProgress`, `CutIsAbort`) and every step of a client an edit that
  `BootPolicy` allows in that mode (`BootImplements`, `CallImplements`,
  `SessionImplements`, `AppImplements`).

The hypotheses, and why they are there:

* `Sound`, in `RefusalsTrue`: no device is provisioned with a state that only the
  header-only read accepts, which holds of the run `session` too. With one, an updater's
  repair that is cut short leaves two different copies, and after a flash error in a
  session the record of the other slot may stay BAD: the invalidation that then returns
  OK has written a state that no read accepts.
* `~FlashMayFail`, in `SparedFromPowerCuts` and `PolicyImplemented`: errors return to the
  code, which goes on. A session whose write failed between the copies can read, restore
  or lose either of them, and after a second fault a stale backup may name the target as
  the active slot. `SessionsSpare` says what remains with errors: the active slot is
  spared until the first of them since power-on. Power cuts are not restricted by either.
* `UpdatesOnly(h)`, in the theorems about `UpdateNeverStrands`: the property is about one
  kind of application. The device is provisioned with a firmware in `h` that its record
  describes and nothing to fall back to; an application that calls `loxboot_init` itself
  runs from `h`; none formats the boot state or invalidates the slot it runs from. The
  run `update` has such a device (`h = "A"`); sessions, which the run leaves out, and any
  other calls are allowed by the theorem.
* `faults <= 1` (or `MaxFaults <= 1`) there: no second erase or write of the boot state is
  cut short before the copies agree again. With two the property is false, as said
  above. `~trouble`: an error makes a boot give up, or roll back, at once.

The theorems of `StateStore_proofs` are about an unrestricted client, and tlapm does not
let a module cite a theorem through `INSTANCE`; what `Device` needs of the store is
therefore proved on `Device` (`StoreStepTypes`, `StoreStepReturns`, `StepIsProgress`).

`Esp32Updater_proofs` proves for the application on ESP32, for any OTA data, any builds of
the firmwares, and otherwise in the same generality:

| Theorem | Statement |
|---|---|
| `RunningSlotSafe` | `~FlashMayFail => (EspSpec => []ActiveIsRunning)` |
| `RunningSlotSpared` | `EspSpec => [](~trouble => ActiveIsRunning)` |
| `EspCommitsTrue` | `EspSpec => []AcknowledgedCommit` |
| `EspRefusalsTrue` | `Sound /\ EspSpec => []RefusalsHold` |

The steps of the store, the calls and the sessions are those of `Device`, and so are the
lemmas about them: in a call or a session the updater's state is one of `Device`
(`EspIsDevice`), and `CallInv` and `ServeInv` are proved without what `BootInv` says of
the boot sequence, which does not run here. What is new is `SyncInv` (in `EspInv`): from the
synchronisation on, and until a flash call fails, flash can be read and its active slot
is the one that runs, because `SyncEdit` made it so and no edit of a session moves it.
`ActiveIsRunning` alone says nothing of the time before a session. `EspServeInv` adds
`ServeInv` for the two properties of what the host is told; it has to hold across the
synchronisation, which writes the boot state too. `~FlashMayFail` and `~trouble` stand in
the first two because `app_main` goes on after a failed synchronisation; the other two need
neither, so that they hold with flash errors, which no run of `Esp32Updater` has.
`EspAssumption` is added to the assumptions above: OTA data gives each partition a state.

`UartFrame_proofs` proves for every number of values of a byte that 3 does not divide,
every size of the buffer that two bytes can count, every set of frames and every noise:

| Theorem | Statement |
|---|---|
| `RoundTrip` | `Decode` finds in what `FrameBytes` makes the command and payload it was made of |
| `DamageDetected` | a frame with one byte damaged, other than SOF or the length, is not decoded |
| `TypeCorrect` | `Spec => []TypeOK`: no byte is written beyond `_frame_buf` |
| `NeverEchoes` | `Spec => []NoEcho` |
| `StaysInSync` | `Spec => []InSync` |

The only assumption is `FrameAssumption`. That 3 does not divide `Base` (256 in the code)
is what makes `Shift` invertible, as a step of CRC16-CCITT is; that two bytes can count
`MaxPayload` is the format of a frame. `DamageDetected` is about the register of the
model: it uses that a step is invertible in the register (`ShiftRegister`) and in the
byte (`ShiftByte`), and nothing else of it; that loxboot's table has this property is
not proved here.

The CRC is a recursive function over data of any length. The induction theorems of the
library cannot be used, but the least-number principle can be stated without an operator
(`LeastNat`, from the well-foundedness of `<`): the register exists for all of the data
(`FollowsExists`, `CrcFollows`) because there is no least index at which it does not, and
two registers stay different after the damaged byte (`CrcDetects`) because there is no
least index at which they meet again.

`FrameInv` is the inductive invariant of the types and of `NoEcho`: while a frame is
under way its length was accepted and its end was not read (`HeaderInv`), so that what
`BreakOff` sends back is never complete. `SyncInv` is that of `InSync`: while in sync,
either nothing is under way and all that was sent is accounted for (`Quiet`), or `buf`
followed by `line` is exactly one frame, whole or with one byte damaged, and it is the
only one not accounted for (`OnTheWay`). `InSync` alone is not inductive, since it says
nothing of the bytes under way.

Only model-checked:

* `BootEnds` and `FrameEnds`: liveness under fairness, which TLAPS cannot prove.

Every other property of a passing run is a theorem. That the three properties of the
other runs fail is shown by their counterexamples.

## Not modelled

* The contents of the structures below the level of the boot state: magic,
  CRCs, reserved bytes. CRC32 is assumed to tell different contents apart.
* The argument checks of the API and of `loxboot_init`, taken as passed.
* Flash whose sectors differ in size: `FlashPort` has pages of one size, as both adapters
  do. Areas behind bank 1 or in shared pages are in the model, and what becomes of them
  too, but no property promises anything of them.
* The contents of the payloads of UART responses, and `loxboot_uart_send_status`,
  which sends a status and changes nothing. An error of the transport in the
  session is fatal for the boot (`loxboot_core.c:531`), which the model has and no
  property judges.
* The contents of the cells of an area in `Device`, and addresses in `UartSession`:
  that is `FlashPort`.
* Flash errors on ESP32 are in the model but in no run: with hand-offs and faults
  they make more than nine million states. `RunningSlotSpared`, `EspCommitsTrue` and
  `EspRefusalsTrue` cover them.
* CRC32 as an algorithm. Examples, tools and tests, which are clients of the code
  that is modelled; `examples/generic_custom_adapter` is an adapter over RAM.

## Plan

Done: all modules above, and proofs of every safety property, action property and
refinement that a passing run checks: of the store, the layout, the flash adapters and the
frames, of `Device` with its boot sequence, calls and sessions, and of `Esp32Updater`.

Left: the liveness properties stay with TLC, and so does what "Not modelled" lists. A
change of the code should begin at the definition that models it (`PROJECT.json`, "map"),
then go through the runs, and last through the lemma named after that action.

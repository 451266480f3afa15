------------------------------- MODULE FlashPort -------------------------------
(***************************************************************************)
(* The flash adapters under the layout that loxboot_init accepts: the one  *)
(* for STM32 (src/adapters/stm32/loxboot_flash_stm32.c), and the one for   *)
(* ESP32 (src/adapters/esp32/loxboot_flash_esp32.c) with the routing to    *)
(* partitions of src/idf_project/main/main.c.                              *)
(*                                                                         *)
(* The other modules say of the flash that an erase or a write of an area  *)
(* changes that area and nothing else.  This module shows when that is so: *)
(* erases are rounded to pages, on STM32 they name pages of bank 1 by      *)
(* number, STM32 writes are padded to doublewords, and the host chooses    *)
(* the offsets of its writes.                                              *)
(*                                                                         *)
(* Abstractions: all data that is written is alike, and what a failed      *)
(* operation leaves in the cells it touches is torn.                       *)
(***************************************************************************)
EXTENDS FlashLayout

CONSTANTS
  Page,      \* FLASH_PAGE_SIZE, ESP32_SECTOR_SIZE
  Unit,      \* bytes of a doubleword, what the STM32 programs at once
  FlashBase, \* where the STM32 maps the first page of bank 1 (0x08000000)
  BankPages, \* pages of bank 1; what follows them is not erased by its numbers
  Layouts,   \* the platforms considered
  Exercised, \* bound: the platforms on which calls are made
  MaxLen,    \* bound: bytes written by one WRITE frame
  MaxCalls   \* bound: calls of the adapter

ASSUME PortAssumption ==
  /\ Page \in Nat \ {0} /\ Unit \in Nat \ {0}
  /\ Page % Unit = 0 /\ (MaxWord + 1) % Page = 0
  /\ FlashBase \in Nat /\ BankPages \in Nat \ {0}
  /\ FlashBase % (BankPages * Page) = 0
  /\ Layouts \subseteq Platform
  /\ MaxLen \in Nat /\ MaxCalls \in Nat

VARIABLES
  port,     \* the adapter that is linked
  size,     \* the sizes of the ESP32's partitions; they start where areas do
  flash,    \* the content of every cell
  area,     \* history: what the calls that returned OK promise of each area
  target,   \* the slot that the session has erased, or "none"
  calls     \* number of calls so far

portVars == <<vars, port, size, flash, area, target, calls>>

Slots == {"slot_a", "slot_b"}
Cells(base, len) == {a \in base .. base + len - 1 : a \in Word}
Plus(a, b) == (a + b) % (MaxWord + 1)

-----------------------------------------------------------------------------
(* The cells an operation touches; none if it is refused.                  *)

Down(a, unit) == (a \div unit) * unit
Up(n, unit)   == Down(n + unit - 1, unit)

\* Faulty variant: the length is rounded up without the offset in the first page.
RoundedFromPage(addr, len) == Cells(Down(addr, Page), Up(len, Page))

\* The pages to erase, from aligned_addr for aligned_len.
Rounded(addr, len) ==
  Cells(Down(addr, Page), Up(len + (addr - Down(addr, Page)), Page))

\* Bank 1, and the page of it that has this number.
Bank1       == Cells(FlashBase, BankPages * Page)
BankPage(n) == Cells(FlashBase + n * Page, Page)

\* HAL_FLASHEx_Erase in bank 1.  A page number that the bank does not have makes
\* the call fail, or loses its upper bits in the register that takes it.
HalErase(pages) == UNION {BankPage(n % BankPages) : n \in pages}

\* The pages are numbered from address 0, not from FlashBase, and always looked
\* for in bank 1.
Stm32Erase(addr, len) ==
  IF len = 0 THEN {} ELSE HalErase({a \div Page : a \in Rounded(addr, len)})

\* Doubleword by doubleword, the last one padded with zeros.  The hardware
\* programs aligned doublewords only.
Stm32Write(addr, len) ==
  IF len = 0 \/ addr % Unit # 0 THEN {} ELSE Cells(addr, Up(len, Unit))

Order == <<"primary", "backup", "slot_a", "slot_b">>

\* Does this range lie in the partition of the area?
Within(r, addr, len) ==
  addr >= platform.base[r] /\ Plus(addr, len) <= platform.base[r] + size[r]

\* The first partition with the range: the area, or "none".
Route(addr, len) ==
  LET found == {i \in 1 .. 4 : Within(Order[i], addr, len)}
  IN  IF found = {} THEN "none" ELSE Order[CHOOSE i \in found : \A j \in found : i <= j]

\* In addresses relative to the partition; the partition's end is not passed.
Esp32Erase(addr, len) ==
  LET r == Route(addr, len)
      cells == Rounded(addr - platform.base[r], len)
  IN  IF r = "none" \/ len = 0 \/ ~(cells \subseteq Cells(0, size[r]))
        THEN {} ELSE {platform.base[r] + a : a \in cells}

Esp32Write(addr, len) ==
  IF Route(addr, len) = "none" \/ len = 0 THEN {} ELSE Cells(addr, len)

EraseCells(addr, len) == IF port = "stm32" THEN Stm32Erase(addr, len) ELSE Esp32Erase(addr, len)
WriteCells(addr, len) == IF port = "stm32" THEN Stm32Write(addr, len) ELSE Esp32Write(addr, len)

\* What a read of one cell gives.
Read(addr) ==
  IF port = "esp32" /\ Route(addr, 1) = "none" THEN "error" ELSE flash[addr]

-----------------------------------------------------------------------------
(* Calls, on any layout that loxboot_init has accepted.                    *)

Call ==
  /\ verdict = "OK" /\ platform \in Exercised
  /\ calls < MaxCalls
  /\ calls' = calls + 1
  /\ UNCHANGED <<vars, port, size>>

\* The cells end as given, or the operation fails at once or halfway.
Touch(cells, value, ok) ==
  /\ ok => cells # {}
  /\ \E touched \in IF ok THEN {cells} ELSE {{}, cells} :
       flash' = [a \in Word |-> IF a \notin touched THEN flash[a]
                                ELSE IF ok THEN value[a] ELSE "torn"]

Promise(r, value) == area' = [area EXCEPT ![r] = value]

\* An area is always erased as a whole.
EraseArea(r) ==
  /\ Call
  /\ \E ok \in BOOLEAN :
       /\ Touch(EraseCells(platform.base[r], SizeOf(platform, r)), [a \in Word |-> "erased"], ok)
       /\ Promise(r, [o \in Word |-> IF ok /\ o < SizeOf(platform, r) THEN "erased" ELSE "unknown"])
       /\ target' = IF r \notin Slots THEN target ELSE IF ok THEN r ELSE "none"

\* What is programmed was erased, or it is anybody's guess.  The rest of the
\* last doubleword is lost to further writes.
Write(r, offset, len) ==
  LET addr == Plus(platform.base[r], offset)
      programmed == [a \in Word |-> IF flash[a] # "erased" THEN "torn"
                                    ELSE IF a \in Cells(addr, len) THEN "data" ELSE "zero"]
  IN  /\ Call
      /\ \E ok \in BOOLEAN :
           /\ Touch(WriteCells(addr, len), programmed, ok)
           /\ Promise(r, [o \in Word |->
                IF o \in Cells(offset, len)
                  THEN IF ok /\ area[r][o] = "erased" THEN "data" ELSE "unknown"
                ELSE IF o \in Cells(offset, Up(len, Unit)) THEN "unknown"
                ELSE area[r][o]])
      /\ UNCHANGED target

\* A copy of the boot state is written when it has been erased.
WriteState(r) ==
  /\ r \notin Slots
  /\ \A o \in Cells(0, StateSize) : area[r][o] = "erased"
  /\ Write(r, 0, StateSize)

\* Faulty variant: the end of the write is compared, not its start.
InSlotByEnd(offset, len) == Plus(offset, len) <= platform.slot_size

\* The check that the session makes of a WRITE frame.
InSlot(offset, len) ==
  len <= platform.slot_size /\ offset <= platform.slot_size - len

SessionWrite ==
  /\ target \in Slots
  /\ \E offset \in Word, len \in 0 .. MaxLen :
       InSlot(offset, len) /\ Write(target, offset, len)

\* The partition table: whole pages, disjoint, and slot_size is the size of the
\* first slot's partition.
Partitions(p) ==
  {s \in [Region -> {n \in Word : n # 0 /\ n % Page = 0}] :
     /\ s["slot_a"] = p.slot_size
     /\ \A r \in Region : p.base[r] % Page = 0 /\ p.base[r] + s[r] <= MaxWord + 1
     /\ \A r, q \in Region :
          r # q => Cells(p.base[r], s[r]) \cap Cells(p.base[q], s[q]) = {}}

PortInit ==
  /\ platform \in Layouts /\ verdict = "none"
  /\ \/ port = "stm32" /\ size = [r \in Region |-> SizeOf(platform, r)]
     \/ port = "esp32" /\ size \in Partitions(platform)
  /\ flash = [a \in Word |-> "old"]
  /\ area = [r \in Region |-> [o \in Word |-> "unknown"]]
  /\ target = "none"
  /\ calls = 0

PortNext ==
  \/ LoxbootInit /\ UNCHANGED <<port, size, flash, area, target, calls>>
  \/ \E r \in Region : EraseArea(r) \/ WriteState(r)
  \/ SessionWrite

PortSpec == PortInit /\ [][PortNext]_portVars

-----------------------------------------------------------------------------
(* Property *)

\* The pages that hold an area.
PagesOf(r) == Rounded(platform.base[r], SizeOf(platform, r))

\* What an integrator has to see to, and loxboot_init does not check: no two
\* areas share a page (loxboot.h:267, docs/PORTING.md:134), and on STM32 all of
\* them lie in bank 1, which no document asks for.
Supported ==
  /\ \A r, q \in Region : r # q => PagesOf(r) \cap PagesOf(q) = {}
  /\ port = "stm32" => \A r \in Region : PagesOf(r) \subseteq Bank1

\* On a layout that is supported, what the calls that returned OK have put into
\* an area can be read there until that area is erased or written again:
\* rounding an erase to pages and numbering them, padding a write to
\* doublewords, routing by address and the host's offsets never reach another
\* area, and no call reports OK without having done all of its work.
AreasKept ==
  Supported =>
    \A r \in Region : \A o \in Cells(0, SizeOf(platform, r)) :
      area[r][o] # "unknown" => Read(platform.base[r] + o) = area[r][o]
=============================================================================

----------------------------- MODULE MCFlashPort -------------------------------
(* An instance of FlashPort for TLC: 13 pages, of which the STM32 has six in *)
(* bank 1, from address 24, and one behind it.                                *)
EXTENDS FlashPort

Place(primary, backup, slotA, slotB, slotSize) ==
  [base |-> [r \in Region |->
               CASE r = "primary" -> primary [] r = "backup" -> backup
                 [] r = "slot_a" -> slotA [] r = "slot_b" -> slotB],
   slot_size |-> slotSize]

\* Neighbours in several orders, with slots that do and do not end with a page.
OnPages ==
  {Place(b[1], b[2], b[3], b[4], n) :
     b \in {<<24, 28, 32, 40>>, <<32, 44, 24, 36>>}, n \in {5, 8}}

\* Areas that have pages of their own and begin in the middle of them.
OffPages == {Place(40, 44, 26, 34, 3), Place(26, 44, 30, 36, 4)}

\* A slot behind bank 1, and a copy of the boot state in a page of slot B.
Unsupported == {Place(24, 28, 32, 48, 3), Place(24, 38, 28, 34, 4)}

\* Anything: overlaps, ends that do not fit a word, slots of no bytes.
Anywhere ==
  [base : [Region -> {0, 3, 7, 48, 49, 51}], slot_size : {0, 1, 3, 4, 51}]

Usable      == OnPages \cup OffPages \cup Unsupported
SomeLayouts == Usable \cup Anywhere
=============================================================================

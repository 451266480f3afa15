--------------------------- MODULE FlashPort_proofs ----------------------------
(***************************************************************************)
(* The flash side of the device, for words, pages and areas of any size:   *)
(* proofs that the verdict of loxboot_init on a layout is right            *)
(* (FlashLayout), and that the flash adapters keep apart the areas of a    *)
(* layout with that verdict, if it is Supported (FlashPort).               *)
(***************************************************************************)
EXTENDS FlashPort, TLAPS, Integers

(***************************************************************************)
(* The verdict of loxboot_init.                                            *)
(***************************************************************************)

\* For ends that fit, the comparison of loxboot_ranges_overlap decides whether
\* two regions share a byte.
LEMMA OverlapIsSharing ==
  ASSUME NEW a \in Word, NEW sa \in Word, NEW b \in Word, NEW sb \in Word,
         EndFits(a, sa), EndFits(b, sb)
  PROVE  RangesOverlap(a, sa, b, sb) <=> Bytes(a, sa) \cap Bytes(b, sb) # {}
<1> USE LayoutAssumption DEF Word, EndFits
<1>1. ASSUME RangesOverlap(a, sa, b, sb)
      PROVE  Bytes(a, sa) \cap Bytes(b, sb) # {}
  <2>1. CASE a <= b
    <3>1. b \in Bytes(a, sa) /\ b \in Bytes(b, sb)
      BY <1>1, <2>1 DEF Bytes, RangesOverlap
    <3> QED BY <3>1
  <2>2. CASE b < a
    <3>1. a \in Bytes(a, sa) /\ a \in Bytes(b, sb)
      BY <1>1, <2>2 DEF Bytes, RangesOverlap
    <3> QED BY <3>1
  <2> QED BY <2>1, <2>2
<1>2. ASSUME Bytes(a, sa) \cap Bytes(b, sb) # {}
      PROVE  RangesOverlap(a, sa, b, sb)
  <2>1. PICK x : x \in Bytes(a, sa) /\ x \in Bytes(b, sb)
    BY <1>2
  <2> QED BY <2>1 DEF Bytes, RangesOverlap
<1> QED BY <1>1, <1>2

\* A shared byte does not depend on the order of the two regions, so that the
\* six comparisons stand for all twelve ordered pairs.
LEMMA PairsCover ==
  ASSUME NEW r \in Region, NEW q \in Region, r # q
  PROVE  <<r, q>> \in Pairs \/ <<q, r>> \in Pairs
BY DEF Region, Pairs

\* loxboot_init accepts exactly the layouts in which no region is empty, runs
\* past the last word or shares a byte with another.
THEOREM AcceptsSound ==
  ASSUME NEW p \in Platform
  PROVE  Accepts(p) <=> Sound(p)
<1> DEFINE Share(r, q) ==
      Bytes(p.base[r], SizeOf(p, r)) \cap Bytes(p.base[q], SizeOf(p, q)) # {}
<1>1. \A r \in Region : p.base[r] \in Word /\ SizeOf(p, r) \in Word
  BY LayoutAssumption DEF Platform, SizeOf, Word
<1>2. ASSUME \A r \in Region : EndFits(p.base[r], SizeOf(p, r))
      PROVE  \A r, q \in Region : Overlapping(p, r, q) <=> Share(r, q)
  <2> SUFFICES ASSUME NEW r \in Region, NEW q \in Region
               PROVE  Overlapping(p, r, q) <=> Share(r, q)
    OBVIOUS
  <2>1. /\ p.base[r] \in Word /\ SizeOf(p, r) \in Word
        /\ p.base[q] \in Word /\ SizeOf(p, q) \in Word
        /\ EndFits(p.base[r], SizeOf(p, r)) /\ EndFits(p.base[q], SizeOf(p, q))
    BY <1>1, <1>2
  <2>2. RangesOverlap(p.base[r], SizeOf(p, r), p.base[q], SizeOf(p, q)) <=> Share(r, q)
    BY <2>1, OverlapIsSharing
  <2> QED BY <2>2 DEF Overlapping
<1>3. \A r, q \in Region : <<r, q>> \in Pairs => r # q
  BY DEF Region, Pairs
<1>4. \A pair \in Pairs : pair = <<pair[1], pair[2]>> /\ pair[1] \in Region /\ pair[2] \in Region
  BY DEF Region, Pairs
<1>5. ASSUME Accepts(p) PROVE Sound(p)
  <2>1. p.slot_size # 0 /\ \A r \in Region : EndFits(p.base[r], SizeOf(p, r))
    BY <1>5 DEF Accepts
  <2>2. ASSUME NEW r \in Region, NEW q \in Region, r # q
        PROVE  ~Share(r, q)
    <3>1. ~Overlapping(p, r, q) \/ ~Overlapping(p, q, r)
      <4>1. CASE <<r, q>> \in Pairs
        BY <4>1, <1>5 DEF Accepts
      <4>2. CASE <<q, r>> \in Pairs
        BY <4>2, <1>5 DEF Accepts
      <4> QED BY <4>1, <4>2, <2>2, PairsCover
    <3>2. ~Share(r, q) \/ ~Share(q, r)
      BY <3>1, <2>1, <1>2
    <3> QED BY <3>2
  <2> QED BY <2>1, <2>2 DEF Sound
<1>6. ASSUME Sound(p) PROVE Accepts(p)
  <2>1. p.slot_size # 0 /\ \A r \in Region : EndFits(p.base[r], SizeOf(p, r))
    BY <1>6 DEF Sound
  <2>2. \A r, q \in Region : r # q => ~Overlapping(p, r, q)
    <3>1. \A r, q \in Region : r # q => ~Share(r, q)
      BY <1>6 DEF Sound
    <3> QED BY <3>1, <2>1, <1>2
  <2>3. \A pair \in Pairs : ~Overlapping(p, pair[1], pair[2])
    BY <2>2, <1>3, <1>4
  <2>4. p.base["slot_a"] # p.base["slot_b"] /\ p.base["primary"] # p.base["backup"]
    <3>1. \A r, q \in Region : r # q /\ SizeOf(p, r) # 0 /\ SizeOf(p, q) # 0 => p.base[r] # p.base[q]
      <4> SUFFICES ASSUME NEW r \in Region, NEW q \in Region, r # q,
                          SizeOf(p, r) # 0, SizeOf(p, q) # 0, p.base[r] = p.base[q]
                   PROVE  FALSE
        OBVIOUS
      <4>1. /\ p.base[r] \in Word /\ SizeOf(p, r) \in Word /\ SizeOf(p, q) \in Word
            /\ EndFits(p.base[r], SizeOf(p, r)) /\ EndFits(p.base[r], SizeOf(p, q))
        BY <1>1, <2>1
      <4>2. RangesOverlap(p.base[r], SizeOf(p, r), p.base[q], SizeOf(p, q))
        BY <4>1, LayoutAssumption DEF RangesOverlap, Word, EndFits
      <4> QED BY <4>2, <2>2 DEF Overlapping
    <3>2. StateSize # 0
      BY LayoutAssumption
    <3> QED BY <3>1, <3>2, <2>1 DEF Region, SizeOf
  <2> QED BY <2>1, <2>3, <2>4 DEF Accepts
<1> QED BY <1>5, <1>6

\* The verdict is right in every reachable state.
THEOREM VerdictIsRight == Spec => []VerdictRight
<1> DEFINE Inv == platform \in Platform /\ VerdictRight
<1>1. Init => Inv
  BY DEF Init, VerdictRight
<1>2. Inv /\ [Next]_vars => Inv'
  <2> SUFFICES ASSUME Inv, [Next]_vars PROVE Inv'
    OBVIOUS
  <2>1. CASE LoxbootInit
    <3>1. Accepts(platform) <=> Sound(platform)
      BY AcceptsSound
    <3>2. platform' = platform /\ (verdict' = "OK" <=> Accepts(platform))
      BY <2>1 DEF LoxbootInit
    <3>3. Sound(platform') <=> Sound(platform)
      BY <3>2
    <3> QED BY <3>1, <3>2, <3>3 DEF VerdictRight
  <2>2. CASE UNCHANGED vars
    BY <2>2 DEF vars, VerdictRight, Sound
  <2> QED BY <2>1, <2>2 DEF Next
<1> QED BY <1>1, <1>2, PTL DEF Spec

(***************************************************************************)
(* Rounding.                                                               *)
(***************************************************************************)

LEMMA Division ==
  ASSUME NEW a \in Nat, NEW u \in Nat \ {0}
  PROVE  /\ a \div u \in Nat /\ a % u \in 0 .. u - 1
         /\ a = u * (a \div u) + (a % u)
BY SMT

LEMMA MultipleMod ==
  ASSUME NEW k \in Nat, NEW u \in Nat \ {0}
  PROVE  (u * k) % u = 0
OBVIOUS

LEMMA Monotone ==
  ASSUME NEW u \in Nat \ {0}, NEW i \in Int, NEW j \in Int, i < j
  PROVE  u * i + u <= u * j
OBVIOUS

\* Down rounds down to a multiple of u, by less than u.
LEMMA DownFacts ==
  ASSUME NEW a \in Nat, NEW u \in Nat \ {0}
  PROVE  /\ Down(a, u) \in Nat
         /\ Down(a, u) <= a /\ a < Down(a, u) + u
         /\ Down(a, u) % u = 0
BY Division, MultipleMod DEF Down

LEMMA Multiple ==
  ASSUME NEW a \in Nat, NEW u \in Nat \ {0}, a % u = 0
  PROVE  /\ a \div u \in Nat /\ a = u * (a \div u)
         /\ Down(a, u) = a
BY Division DEF Down

\* Up rounds up to a multiple of u, and to no larger one than necessary.
LEMMA UpFacts ==
  ASSUME NEW n \in Nat, NEW u \in Nat \ {0}
  PROVE  /\ Up(n, u) \in Nat /\ n <= Up(n, u)
         /\ Up(n, u) % u = 0
<1>1. n + u - 1 \in Nat
  OBVIOUS
<1> QED BY <1>1, DownFacts DEF Up

LEMMA UpLeast ==
  ASSUME NEW n \in Nat, NEW u \in Nat \ {0}, NEW m \in Nat, m % u = 0, n <= m
  PROVE  Up(n, u) <= m
<1>1. n + u - 1 \in Nat
  OBVIOUS
<1> DEFINE k == (n + u - 1) \div u
           j == m \div u
<1>2. k \in Nat /\ Up(n, u) = u * k /\ u * k <= n + u - 1
  BY <1>1, Division DEF Up, Down
<1>3. j \in Nat /\ m = u * j
  BY Division
<1> HIDE DEF k, j
<1>4. CASE j < k
  <2>1. u * j + u <= u * k
    BY <1>2, <1>3, <1>4, Monotone
  <2>2. u * j \in Nat /\ u * k \in Nat
    BY <1>2, <1>3
  <2> QED BY <2>1, <2>2, <1>2, <1>3
<1>5. CASE k <= j
  <2>1. CASE k = j
    BY <2>1, <1>2, <1>3
  <2>2. CASE k < j
    <3>1. u * k + u <= u * j
      BY <1>2, <1>3, <2>2, Monotone
    <3>2. u * j \in Nat /\ u * k \in Nat
      BY <1>2, <1>3
    <3> QED BY <3>1, <3>2, <1>2, <1>3
  <2> QED BY <2>1, <2>2, <1>5, <1>2, <1>3
<1> QED BY <1>4, <1>5, <1>2, <1>3

\* Differences of multiples are multiples, and multiples of multiples too.
LEMMA Difference ==
  ASSUME NEW u \in Nat \ {0}, NEW a \in Nat, NEW b \in Nat,
         a % u = 0, b % u = 0, a <= b
  PROVE  (b - a) % u = 0
<1> DEFINE i == a \div u
           j == b \div u
<1>1. i \in Nat /\ j \in Nat /\ a = u * i /\ b = u * j
  BY Division
<1> HIDE DEF i, j
<1>2. i <= j
  <2> SUFFICES ASSUME j < i PROVE FALSE
    BY <1>1
  <2>1. u * j + u <= u * i
    BY <1>1, Monotone
  <2> QED BY <2>1, <1>1
<1>3. j - i \in Nat /\ b - a = u * (j - i)
  BY <1>1, <1>2
<1> QED BY <1>3, MultipleMod

LEMMA Transitive ==
  ASSUME NEW u \in Nat \ {0}, NEW v \in Nat \ {0}, NEW a \in Nat,
         v % u = 0, a % v = 0
  PROVE  a % u = 0
<1> DEFINE i == v \div u
           j == a \div v
<1>1. i \in Nat /\ j \in Nat /\ v = u * i /\ a = v * j
  BY Division
<1> HIDE DEF i, j
<1>2. i * j \in Nat /\ a = u * (i * j)
  BY <1>1
<1> QED BY <1>2, MultipleMod

\* A multiple of u and a rest below u: the rest is what % u gives.
LEMMA ModOffset ==
  ASSUME NEW u \in Nat \ {0}, NEW k \in Nat, NEW j \in 0 .. u - 1
  PROVE  (u * k + j) % u = j
<1> DEFINE n == u * k + j
           q == n \div u
           m == n % u
<1>1. u * k \in Nat /\ n \in Nat
  OBVIOUS
<1>2. q \in Nat /\ m \in 0 .. u - 1 /\ n = u * q + m
  BY <1>1, Division
<1> HIDE DEF q, m
<1>3. ~(q < k)
  <2> SUFFICES ASSUME q < k PROVE FALSE
    OBVIOUS
  <2>1. u * q + u <= u * k /\ u * q \in Nat
    BY <1>2, Monotone
  <2> QED BY <2>1, <1>1, <1>2
<1>4. ~(k < q)
  <2> SUFFICES ASSUME k < q PROVE FALSE
    OBVIOUS
  <2>1. u * k + u <= u * q /\ u * q \in Nat
    BY <1>2, Monotone
  <2> QED BY <2>1, <1>1, <1>2
<1>5. q = k
  BY <1>2, <1>3, <1>4
<1>6. m = j
  BY <1>1, <1>2, <1>5
<1> QED BY <1>6 DEF m

\* Sums of multiples are multiples.
LEMMA SumOfMultiples ==
  ASSUME NEW u \in Nat \ {0}, NEW a \in Nat, NEW b \in Nat, a % u = 0, b % u = 0
  PROVE  (a + b) % u = 0
<1> DEFINE i == a \div u
           j == b \div u
<1>1. i \in Nat /\ j \in Nat /\ a = u * i /\ b = u * j
  BY Division
<1> HIDE DEF i, j
<1>2. i + j \in Nat /\ a + b = u * (i + j)
  BY <1>1
<1> QED BY <1>2, MultipleMod

\* A page that has a cell between two ends of pages lies between them.
LEMMA PageInside ==
  ASSUME NEW u \in Nat \ {0}, NEW lo \in Nat, NEW hi \in Nat, NEW a \in Nat,
         lo % u = 0, hi % u = 0, lo <= a, a < hi
  PROVE  lo <= Down(a, u) /\ Down(a, u) + u <= hi
<1> DEFINE i == lo \div u
           j == hi \div u
           k == a \div u
<1>1. i \in Nat /\ j \in Nat /\ lo = u * i /\ hi = u * j
  BY Division
<1>2. k \in Nat /\ Down(a, u) = u * k /\ u * k <= a /\ a < u * k + u
  BY Division DEF Down
<1> HIDE DEF i, j, k
<1>3. u * i \in Nat /\ u * j \in Nat /\ u * k \in Nat
  BY <1>1, <1>2
<1>4. ~(k < i)
  <2> SUFFICES ASSUME k < i PROVE FALSE
    OBVIOUS
  <2>1. u * k + u <= u * i
    BY <1>1, <1>2, Monotone
  <2> QED BY <2>1, <1>1, <1>2, <1>3
<1>5. k < j
  <2> SUFFICES ASSUME ~(k < j) PROVE FALSE
    OBVIOUS
  <2>1. j = k \/ j < k
    BY <1>1, <1>2
  <2>2. CASE j = k
    BY <2>2, <1>1, <1>2, <1>3
  <2>3. CASE j < k
    <3>1. u * j + u <= u * k
      BY <2>3, <1>1, <1>2, Monotone
    <3> QED BY <3>1, <1>1, <1>2, <1>3
  <2> QED BY <2>1, <2>2, <2>3
<1>6. u * k + u <= u * j
  BY <1>1, <1>2, <1>5, Monotone
<1>7. u * i <= u * k
  <2>1. i = k \/ i < k
    BY <1>1, <1>2, <1>4
  <2>2. CASE i = k
    BY <2>2, <1>3
  <2>3. CASE i < k
    <3>1. u * i + u <= u * k
      BY <2>3, <1>1, <1>2, Monotone
    <3> QED BY <3>1, <1>3
  <2> QED BY <2>1, <2>2, <2>3
<1> QED BY <1>1, <1>2, <1>6, <1>7

(***************************************************************************)
(* The layout.                                                             *)
(***************************************************************************)

LEMMA CellsFacts ==
  ASSUME NEW a \in Nat, NEW n \in Nat, NEW x
  PROVE  x \in Cells(a, n) <=> x \in Nat /\ x \in Word /\ a <= x /\ x < a + n
BY LayoutAssumption DEF Cells, Word

Placed == platform \in Platform /\ Accepts(platform)

Length(r)    == SizeOf(platform, r)
FirstPage(r) == Down(platform.base[r], Page)
PagesEnd(r)  == FirstPage(r) + Up(Length(r) + (platform.base[r] - FirstPage(r)), Page)

LEMMA PlacedFacts ==
  ASSUME Placed, NEW r \in Region
  PROVE  /\ platform.base[r] \in Nat
         /\ Length(r) \in Nat \ {0}
         /\ platform.base[r] + Length(r) <= MaxWord
<1>1. platform.base[r] \in Nat
  BY DEF Placed, Platform, Word
<1>2. Length(r) \in Nat /\ Length(r) # 0
  BY LayoutAssumption DEF Placed, Accepts, Length, SizeOf, Platform, Word
<1>3. platform.base[r] + Length(r) <= MaxWord
  BY DEF Placed, Accepts, EndFits, Length
<1> QED BY <1>1, <1>2, <1>3

\* The pages of an area begin and end with a page, and hold the area.
LEMMA PagesFacts ==
  ASSUME Placed, NEW r \in Region
  PROVE  /\ FirstPage(r) \in Nat /\ FirstPage(r) % Page = 0 /\ FirstPage(r) <= platform.base[r]
         /\ PagesEnd(r) \in Nat /\ PagesEnd(r) % Page = 0
         /\ platform.base[r] + Length(r) <= PagesEnd(r)
         /\ \A x : x \in PagesOf(r) <=> x \in Nat /\ x \in Word /\ FirstPage(r) <= x /\ x < PagesEnd(r)
<1> DEFINE a == platform.base[r]
           f == FirstPage(r)
           n == Length(r) + (a - f)
           up == Up(n, Page)
<1>1. a \in Nat /\ Length(r) \in Nat
  BY PlacedFacts
<1>2. f \in Nat /\ f % Page = 0 /\ f <= a
  BY <1>1, DownFacts, PortAssumption DEF FirstPage
<1>3. PagesEnd(r) = f + up /\ PagesOf(r) = Cells(f, up)
  BY DEF PagesEnd, PagesOf, Rounded, FirstPage, Length
<1> HIDE DEF f
<1>4. n \in Nat
  BY <1>1, <1>2
<1>5. up \in Nat /\ n <= up /\ up % Page = 0
  BY <1>4, UpFacts, PortAssumption
<1> HIDE DEF up
<1>6. (f + up) % Page = 0
  BY <1>2, <1>5, SumOfMultiples, PortAssumption
<1>7. \A x : x \in Cells(f, up) <=> x \in Nat /\ x \in Word /\ f <= x /\ x < f + up
  BY <1>2, <1>5, CellsFacts
<1>8. a + Length(r) <= f + up
  BY <1>1, <1>2, <1>5
<1> QED BY <1>2, <1>3, <1>5, <1>6, <1>7, <1>8 DEF f

LEMMA NoOverlap ==
  ASSUME Placed, NEW r \in Region, NEW q \in Region, r # q
  PROVE  \/ platform.base[r] + Length(r) <= platform.base[q]
         \/ platform.base[q] + Length(q) <= platform.base[r]
<1> DEFINE a == platform.base[r]
           b == platform.base[q]
<1>1. /\ a \in Nat /\ b \in Nat /\ Length(r) \in Nat \ {0} /\ Length(q) \in Nat \ {0}
      /\ a + Length(r) <= MaxWord /\ b + Length(q) <= MaxWord
  BY PlacedFacts
<1>2. Bytes(a, Length(r)) \cap Bytes(b, Length(q)) = {}
  BY AcceptsSound DEF Placed, Sound, Length
<1>3. a \in Bytes(a, Length(r)) /\ b \in Bytes(b, Length(q))
  BY <1>1, LayoutAssumption DEF Bytes
<1>4. a \notin Bytes(b, Length(q)) /\ b \notin Bytes(a, Length(r))
  BY <1>2, <1>3
<1> QED BY <1>1, <1>4, LayoutAssumption DEF Bytes

\* The pages of an area end before the next area, if that one begins with a page.
LEMMA PagesEndBefore ==
  ASSUME Placed, NEW r \in Region, NEW q \in Region,
         platform.base[r] % Page = 0, platform.base[q] % Page = 0,
         platform.base[r] + Length(r) <= platform.base[q]
  PROVE  PagesEnd(r) <= platform.base[q]
<1> DEFINE a == platform.base[r]
           b == platform.base[q]
<1>1. a \in Nat /\ b \in Nat /\ Length(r) \in Nat
  BY PlacedFacts
<1>2. FirstPage(r) = a
  BY <1>1, Multiple, PortAssumption DEF FirstPage
<1>3. b - a \in Nat /\ Length(r) <= b - a
  BY <1>1
<1>4. (b - a) % Page = 0
  BY <1>1, <1>3, Difference, PortAssumption
<1>5. Up(Length(r), Page) <= b - a
  BY <1>1, <1>3, <1>4, UpLeast, PortAssumption
<1>6. Up(Length(r), Page) \in Nat
  BY <1>1, UpFacts, PortAssumption
<1>7. Length(r) + (a - a) = Length(r)
  BY <1>1
<1>8. PagesEnd(r) = a + Up(Length(r), Page)
  BY <1>2, <1>7 DEF PagesEnd
<1> QED BY <1>1, <1>5, <1>6, <1>8

\* Areas that loxboot_init accepts and that begin with a page, as loxboot.h:267 asks,
\* have pages of their own: the first condition of Supported follows for every layout
\* that keeps to that sentence.
THEOREM AlignedAreasApart ==
  ASSUME platform \in Platform, Accepts(platform),
         \A r \in Region : platform.base[r] % Page = 0
  PROVE  \A r, q \in Region : r # q => PagesOf(r) \cap PagesOf(q) = {}
<1>1. Placed
  BY DEF Placed
<1> SUFFICES ASSUME NEW r \in Region, NEW q \in Region, r # q,
                    NEW x, x \in PagesOf(r), x \in PagesOf(q)
             PROVE  FALSE
  OBVIOUS
<1>2. /\ x \in Nat
      /\ FirstPage(r) <= x /\ x < PagesEnd(r) /\ FirstPage(q) <= x /\ x < PagesEnd(q)
      /\ PagesEnd(r) \in Nat /\ PagesEnd(q) \in Nat
  BY <1>1, PagesFacts
<1>3. platform.base[r] \in Nat /\ platform.base[q] \in Nat
  BY <1>1, PlacedFacts
<1>4. FirstPage(r) = platform.base[r] /\ FirstPage(q) = platform.base[q]
  BY <1>3, Multiple, PortAssumption DEF FirstPage
<1>5. PagesEnd(r) <= platform.base[q] \/ PagesEnd(q) <= platform.base[r]
  BY <1>1, NoOverlap, PagesEndBefore
<1> QED BY <1>2, <1>3, <1>4, <1>5

(***************************************************************************)
(* The page numbers of the STM32: in bank 1 the number of an address,      *)
(* without the upper bits, is that of its page.                            *)
(***************************************************************************)

LEMMA NumberOfPage ==
  ASSUME NEW a \in Nat, FlashBase <= a, a < FlashBase + BankPages * Page
  PROVE  FlashBase + ((a \div Page) % BankPages) * Page = Down(a, Page)
<1> DEFINE k == FlashBase \div (BankPages * Page)
           p == a \div Page
           first == BankPages * k
           j == p - first
<1>1. BankPages \in Nat \ {0} /\ Page \in Nat \ {0} /\ FlashBase \in Nat
  BY PortAssumption
<1>2. BankPages * Page \in Nat \ {0}
  BY <1>1
<1>3. k \in Nat /\ FlashBase = (BankPages * Page) * k
  <2>1. FlashBase % (BankPages * Page) = 0
    BY PortAssumption
  <2> QED BY <2>1, <1>1, <1>2, Multiple
<1>4. p \in Nat /\ Down(a, Page) = Page * p /\ Page * p <= a /\ a < Page * p + Page
  BY <1>1, Division DEF Down
<1> HIDE DEF k, p
<1>5. first \in Nat /\ FlashBase = Page * first
  BY <1>1, <1>3
<1>6. FlashBase + BankPages * Page = Page * (first + BankPages)
  BY <1>1, <1>5
<1>7. first + BankPages \in Nat /\ Page * p \in Nat
  BY <1>1, <1>4, <1>5
<1> HIDE DEF first
<1>8. first <= p
  <2> SUFFICES ASSUME p < first PROVE FALSE
    BY <1>4, <1>5
  <2>1. Page * p + Page <= Page * first
    BY <1>1, <1>4, <1>5, Monotone
  <2> QED BY <2>1, <1>1, <1>4, <1>5, <1>7
<1>9. p < first + BankPages
  <2> SUFFICES ASSUME ~(p < first + BankPages) PROVE FALSE
    OBVIOUS
  <2>1. CASE p = first + BankPages
    BY <2>1, <1>1, <1>4, <1>5, <1>6, <1>7
  <2>2. CASE first + BankPages < p
    <3>1. Page * (first + BankPages) + Page <= Page * p
      BY <2>2, <1>1, <1>4, <1>7, Monotone
    <3>2. Page * (first + BankPages) \in Nat
      BY <1>1, <1>7
    <3> QED BY <3>1, <3>2, <1>1, <1>4, <1>6, <1>7
  <2> QED BY <2>1, <2>2, <1>4, <1>7
<1>10. j \in 0 .. BankPages - 1 /\ p = first + j
  BY <1>1, <1>4, <1>5, <1>8, <1>9
<1>11. p % BankPages = j
  <2> HIDE DEF j
  <2>1. (BankPages * k + j) % BankPages = j
    BY <1>1, <1>3, <1>10, ModOffset
  <2> QED BY <2>1, <1>10 DEF first
<1> HIDE DEF j
<1>12. Page * first + j * Page = Page * (first + j)
  BY <1>1, <1>5, <1>10
<1>13. FlashBase + j * Page = Page * p
  BY <1>5, <1>10, <1>12
<1> QED BY <1>4, <1>11, <1>13 DEF p

\* Erasing an area whose pages lie in bank 1 erases these pages.
LEMMA Stm32Pages ==
  ASSUME Placed, NEW r \in Region, PagesOf(r) \subseteq Bank1
  PROVE  Stm32Erase(platform.base[r], Length(r)) = PagesOf(r)
<1> DEFINE a == platform.base[r]
           n == Length(r)
<1>1. a \in Nat /\ n \in Nat \ {0} /\ a + n <= MaxWord
  BY PlacedFacts
<1>2. /\ FirstPage(r) \in Nat /\ FirstPage(r) % Page = 0
      /\ PagesEnd(r) \in Nat /\ PagesEnd(r) % Page = 0
      /\ \A x : x \in PagesOf(r) <=> x \in Nat /\ x \in Word /\ FirstPage(r) <= x /\ x < PagesEnd(r)
  BY PagesFacts
<1>3. Stm32Erase(a, n) =
        UNION {BankPage(p % BankPages) : p \in {y \div Page : y \in PagesOf(r)}}
  BY <1>1 DEF Stm32Erase, HalErase, PagesOf, Length
<1>4. BankPages * Page \in Nat /\ FlashBase \in Nat /\ Page \in Nat \ {0}
  BY PortAssumption
<1>5. ASSUME NEW y \in PagesOf(r)
      PROVE  /\ y \in Nat /\ Down(y, Page) \in Nat
             /\ BankPage((y \div Page) % BankPages) = Cells(Down(y, Page), Page)
  <2>1. y \in Nat /\ y \in Cells(FlashBase, BankPages * Page)
    BY <1>2, <1>5 DEF Bank1
  <2>2. FlashBase <= y /\ y < FlashBase + BankPages * Page
    BY <2>1, <1>4, CellsFacts
  <2>3. FlashBase + ((y \div Page) % BankPages) * Page = Down(y, Page)
    BY <2>1, <2>2, NumberOfPage
  <2>4. Down(y, Page) \in Nat
    BY <2>1, <1>4, DownFacts
  <2> QED BY <2>1, <2>3, <2>4 DEF BankPage
<1>6. ASSUME NEW x, x \in Stm32Erase(a, n)
      PROVE  x \in PagesOf(r)
  <2>1. PICK y \in PagesOf(r) : x \in BankPage((y \div Page) % BankPages)
    BY <1>3, <1>6
  <2>2. x \in Cells(Down(y, Page), Page) /\ y \in Nat /\ Down(y, Page) \in Nat
    BY <2>1, <1>5
  <2>3. x \in Nat /\ x \in Word /\ Down(y, Page) <= x /\ x < Down(y, Page) + Page
    BY <2>2, <1>4, CellsFacts
  <2>4. FirstPage(r) <= y /\ y < PagesEnd(r)
    BY <2>1, <1>2
  <2>5. FirstPage(r) <= Down(y, Page) /\ Down(y, Page) + Page <= PagesEnd(r)
    BY <2>2, <2>4, <1>2, <1>4, PageInside
  <2>6. FirstPage(r) <= x /\ x < PagesEnd(r)
    BY <2>2, <2>3, <2>5, <1>2, <1>4
  <2> QED BY <2>3, <2>6, <1>2
<1>7. ASSUME NEW x, x \in PagesOf(r)
      PROVE  x \in Stm32Erase(a, n)
  <2>1. x \in Nat /\ x \in Word
    BY <1>2, <1>7
  <2>2. Down(x, Page) \in Nat /\ Down(x, Page) <= x /\ x < Down(x, Page) + Page
    BY <2>1, <1>4, DownFacts
  <2>3. x \in Cells(Down(x, Page), Page)
    BY <2>1, <2>2, <1>4, CellsFacts
  <2>4. x \in BankPage((x \div Page) % BankPages)
    BY <2>3, <1>5, <1>7
  <2> QED BY <2>4, <1>3, <1>7
<1> QED BY <1>6, <1>7

(***************************************************************************)
(* The cells an operation touches are those of the pages of its area, and  *)
(* one that reports OK has touched all it was asked to.                    *)
(***************************************************************************)

Ported ==
  /\ Placed
  /\ Supported
  /\ port \in {"stm32", "esp32"}
  /\ port = "esp32" => size \in Partitions(platform)

LEMMA PlusFits ==
  ASSUME NEW a \in Nat, NEW b \in Nat, a + b <= MaxWord
  PROVE  Plus(a, b) = a + b
BY LayoutAssumption DEF Plus

LEMMA Least ==
  ASSUME NEW S \in SUBSET (1 .. 4), S # {}
  PROVE  \E i \in S : \A j \in S : i <= j
<1>1. CASE 1 \in S
  BY <1>1
<1>2. CASE 1 \notin S /\ 2 \in S
  BY <1>2
<1>3. CASE 1 \notin S /\ 2 \notin S /\ 3 \in S
  BY <1>3
<1>4. CASE 1 \notin S /\ 2 \notin S /\ 3 \notin S /\ 4 \in S
  BY <1>4
<1>5. 1 \in S \/ 2 \in S \/ 3 \in S \/ 4 \in S
  <2>1. PICK x : x \in S
    OBVIOUS
  <2>2. x \in 1 .. 4
    BY <2>1
  <2>3. x = 1 \/ x = 2 \/ x = 3 \/ x = 4
    BY <2>2
  <2> QED BY <2>1, <2>3
<1> QED BY <1>1, <1>2, <1>3, <1>4, <1>5

\* A range that lies in some partition is routed to one it lies in.
LEMMA RouteFacts ==
  ASSUME NEW addr, NEW len
  PROVE  /\ Route(addr, len) # "none" => Route(addr, len) \in Region /\ Within(Route(addr, len), addr, len)
         /\ \A r \in Region : Within(r, addr, len) => Route(addr, len) # "none"
<1> DEFINE found == {i \in 1 .. 4 : Within(Order[i], addr, len)}
           first == CHOOSE i \in found : \A j \in found : i <= j
<1>1. \A i \in 1 .. 4 : Order[i] \in Region
  BY DEF Order, Region
<1>2. \A r \in Region : \E i \in 1 .. 4 : Order[i] = r
  <2>1. Order[1] = "primary" /\ Order[2] = "backup" /\ Order[3] = "slot_a" /\ Order[4] = "slot_b"
    BY DEF Order
  <2> QED BY <2>1 DEF Region
<1>3. found # {} => first \in found
  BY Least
<1>4. Route(addr, len) = IF found = {} THEN "none" ELSE Order[first]
  BY DEF Route
<1>5. "none" \notin Region
  BY DEF Region
<1> QED BY <1>1, <1>2, <1>3, <1>4, <1>5

LEMMA PartitionFacts ==
  ASSUME Ported, port = "esp32", NEW r \in Region
  PROVE  /\ platform.base[r] % Page = 0
         /\ size[r] \in Nat \ {0} /\ platform.base[r] + size[r] <= MaxWord + 1
         /\ \A q \in Region : r # q =>
              Cells(platform.base[r], size[r]) \cap Cells(platform.base[q], size[q]) = {}
BY DEF Ported, Partitions, Word

\* A range that begins where an area does is routed to that area's partition.
LEMMA RouteOfArea ==
  ASSUME Ported, port = "esp32", NEW r \in Region,
         Route(platform.base[r], Length(r)) # "none"
  PROVE  /\ Route(platform.base[r], Length(r)) = r
         /\ Length(r) <= size[r]
<1> DEFINE q == Route(platform.base[r], Length(r))
           a == platform.base[r]
           b == platform.base[q]
<1>1. q \in Region /\ Within(q, a, Length(r))
  BY RouteFacts
<1> HIDE DEF q
<1>2. /\ a \in Nat /\ b \in Nat /\ Length(r) \in Nat \ {0} /\ a + Length(r) <= MaxWord
  BY <1>1, PlacedFacts DEF Ported
<1>3. size[r] \in Nat \ {0} /\ size[q] \in Nat \ {0}
  BY <1>1, PartitionFacts
<1>4. b <= a /\ a + Length(r) <= b + size[q]
  BY <1>1, <1>2, PlusFits DEF Within
<1>5. a \in Cells(a, size[r]) /\ a \in Cells(b, size[q])
  BY <1>2, <1>3, <1>4, LayoutAssumption DEF Cells, Word
<1>6. q = r
  BY <1>1, <1>5, PartitionFacts
<1>7. Length(r) <= size[r]
  BY <1>2, <1>3, <1>4, <1>6
<1> QED BY <1>6, <1>7 DEF q

\* The offsets a call names, as cells.
At(r, offset, len) == Cells(platform.base[r] + offset, len)

\* An erase stays in the pages of its area, and reaches all of the area unless
\* it is refused.
LEMMA EraseFacts ==
  ASSUME Ported, NEW r \in Region
  PROVE  LET cells == EraseCells(platform.base[r], Length(r))
         IN  /\ cells \subseteq PagesOf(r)
             /\ cells # {} => /\ At(r, 0, Length(r)) \subseteq cells
                              /\ port = "esp32" => Length(r) <= size[r]
<1> DEFINE a == platform.base[r]
           n == Length(r)
           up == Up(n, Page)
           cells == EraseCells(a, n)
<1>1. a \in Nat /\ n \in Nat \ {0} /\ a + n <= MaxWord
  BY PlacedFacts DEF Ported
<1>2. At(r, 0, n) \subseteq PagesOf(r)
  <2> SUFFICES ASSUME NEW x, x \in Cells(a + 0, n) PROVE x \in PagesOf(r)
    BY DEF At
  <2>1. x \in Nat /\ x \in Word /\ a <= x /\ x < a + n
    BY <1>1, CellsFacts
  <2>2. /\ FirstPage(r) \in Nat /\ FirstPage(r) <= a
        /\ PagesEnd(r) \in Nat /\ a + n <= PagesEnd(r)
        /\ x \in PagesOf(r) <=> x \in Nat /\ x \in Word /\ FirstPage(r) <= x /\ x < PagesEnd(r)
    BY PagesFacts DEF Ported
  <2> HIDE DEF a, n
  <2> QED BY <2>1, <2>2, <1>1
<1>3. CASE port = "stm32"
  <2>1. PagesOf(r) \subseteq Bank1
    BY <1>3 DEF Ported, Supported
  <2>2. cells = PagesOf(r)
    BY <2>1, <1>3, Stm32Pages DEF EraseCells, Ported
  <2> QED BY <2>2, <1>2, <1>3
<1>4. CASE port = "esp32" /\ Route(a, n) = "none"
  <2>1. cells = {}
    BY <1>4 DEF EraseCells, Esp32Erase
  <2> QED BY <2>1
<1>5. CASE port = "esp32" /\ Route(a, n) # "none"
  <2>1. Route(a, n) = r /\ n <= size[r]
    BY <1>5, RouteOfArea
  <2>2. a % Page = 0
    BY <1>5, PartitionFacts
  <2>3. up \in Nat
    BY <1>1, UpFacts, PortAssumption
  <2>4. Down(0, Page) = 0 /\ Down(a, Page) = a
    <3>1. Down(0, Page) = 0
      BY PortAssumption DEF Down
    <3>2. Down(a, Page) = a
      BY <1>1, <2>2, Multiple, PortAssumption
    <3> QED BY <3>1, <3>2
  <2>5. Rounded(a - platform.base[r], n) = Cells(0, up)
    BY <1>1, <2>4 DEF Rounded
  <2>6. PagesOf(r) = Cells(a, up)
    BY <1>1, <2>4 DEF PagesOf, Rounded, Length
  <2> HIDE DEF up
  <2>7. cells = {} \/ cells = {a + x : x \in Cells(0, up)}
    <3> DEFINE pages == Rounded(a - platform.base[r], n)
    <3>1. Esp32Erase(a, n) = {} \/ Esp32Erase(a, n) = {a + x : x \in pages}
      BY <2>1 DEF Esp32Erase
    <3> HIDE DEF pages
    <3>2. cells = Esp32Erase(a, n)
      BY <1>5 DEF EraseCells
    <3> QED BY <3>1, <3>2, <2>5 DEF pages
  <2>8. cells # {} => \A x \in Cells(0, up) : a + x \in Word
    <3>1. size[r] \in Nat /\ a + size[r] <= MaxWord + 1
      BY <1>5, PartitionFacts
    <3>2. cells # {} => Cells(0, up) \subseteq Cells(0, size[r])
      BY <2>1, <2>5, <1>5 DEF EraseCells, Esp32Erase
    <3>3. \A x \in Cells(0, size[r]) : x \in Nat /\ x < size[r]
      BY <3>1, CellsFacts
    <3>4. \A x \in Cells(0, size[r]) : a + x \in Word
      BY <3>1, <3>3, <1>1, LayoutAssumption DEF Word
    <3> QED BY <3>2, <3>4
  <2>9. cells \subseteq PagesOf(r)
    <3> SUFFICES ASSUME NEW x, x \in Cells(0, up), a + x \in Word PROVE a + x \in Cells(a, up)
      BY <2>6, <2>7, <2>8
    <3>1. x \in Nat /\ x < 0 + up
      BY <2>3, CellsFacts
    <3>2. a + x \in Nat /\ a <= a + x /\ a + x < a + up
      BY <3>1, <1>1, <2>3
    <3> QED BY <3>2, <1>1, <2>3, CellsFacts
  <2>10. ASSUME cells # {}, NEW x \in At(r, 0, n)
         PROVE  x \in cells
    <3>1. x \in Nat /\ x \in Word /\ a <= x /\ x < a + up
      BY <2>10, <1>1, <1>2, <2>3, <2>6, CellsFacts
    <3>2. x - a \in Nat /\ x - a \in Word /\ x - a < 0 + up /\ x = a + (x - a)
      BY <3>1, <1>1, <2>3, LayoutAssumption DEF Word
    <3>3. x - a \in Cells(0, up)
      BY <3>2, <2>3, CellsFacts
    <3> QED BY <3>2, <3>3, <2>7, <2>10
  <2> QED BY <2>1, <2>9, <2>10
<1> QED BY <1>3, <1>4, <1>5 DEF Ported

\* A write inside an area stays in the pages of that area.  Unless it is
\* refused it programs the cells it was given, and others only in the rest of
\* the last doubleword.
LEMMA WriteFacts ==
  ASSUME Ported, NEW r \in Region, NEW offset \in Nat, NEW len \in Nat,
         offset + len <= Length(r)
  PROVE  LET cells == WriteCells(platform.base[r] + offset, len)
         IN  /\ cells \subseteq PagesOf(r)
             /\ cells \subseteq At(r, offset, Up(len, Unit))
             /\ cells # {} => At(r, offset, len) \subseteq cells
<1> DEFINE a == platform.base[r]
           addr == a + offset
           up == Up(len, Unit)
           end == PagesEnd(r)
           cells == WriteCells(addr, len)
<1>1. a \in Nat /\ Length(r) \in Nat \ {0} /\ a + Length(r) <= MaxWord
  BY PlacedFacts DEF Ported
<1>2. up \in Nat /\ len <= up
  BY UpFacts, PortAssumption
<1>3. /\ FirstPage(r) \in Nat /\ FirstPage(r) <= a
      /\ end \in Nat /\ end % Page = 0 /\ a + Length(r) <= end
      /\ \A x : x \in PagesOf(r) <=> x \in Nat /\ x \in Word /\ FirstPage(r) <= x /\ x < end
  BY PagesFacts DEF Ported
<1>4. addr \in Nat /\ addr + len <= end /\ FirstPage(r) <= addr
  BY <1>1, <1>3
<1> HIDE DEF up, end, addr
<1>5. \A x : /\ x \in Cells(addr, len) <=> x \in Nat /\ x \in Word /\ addr <= x /\ x < addr + len
             /\ x \in Cells(addr, up) <=> x \in Nat /\ x \in Word /\ addr <= x /\ x < addr + up
  BY <1>2, <1>4, CellsFacts
<1>6. Cells(addr, len) \subseteq Cells(addr, up)
  BY <1>2, <1>4, <1>5
<1>7. At(r, offset, len) = Cells(addr, len) /\ At(r, offset, Up(len, Unit)) = Cells(addr, up)
  BY DEF At, addr, up
<1>8. CASE cells = {}
  BY <1>8 DEF addr
<1>9. CASE cells # {} /\ port = "stm32"
  <2>1. addr % Unit = 0 /\ cells = Cells(addr, up)
    BY <1>9 DEF WriteCells, Stm32Write, up
  <2>2. end % Unit = 0
    BY <1>3, Transitive, PortAssumption
  <2>3. addr <= end /\ end - addr \in Nat /\ len <= end - addr
    BY <1>3, <1>4
  <2>4. (end - addr) % Unit = 0
    BY <2>1, <2>2, <2>3, <1>3, <1>4, Difference, PortAssumption
  <2>5. up <= end - addr
    BY <2>3, <2>4, UpLeast, PortAssumption DEF up
  <2>6. cells \subseteq PagesOf(r)
    BY <2>1, <2>3, <2>5, <1>2, <1>3, <1>4, <1>5
  <2> QED BY <2>1, <2>6, <1>6, <1>7 DEF addr
<1>10. CASE cells # {} /\ port = "esp32"
  <2>1. cells = Cells(addr, len)
    BY <1>10 DEF WriteCells, Esp32Write
  <2>2. cells \subseteq PagesOf(r)
    BY <2>1, <1>3, <1>4, <1>5
  <2> QED BY <2>1, <2>2, <1>6, <1>7 DEF addr
<1> QED BY <1>8, <1>9, <1>10 DEF Ported, addr

\* What is in an area can be read: its adapter finds the cell.
LEMMA ReadFacts ==
  ASSUME Ported, NEW r \in Region, NEW o \in Nat, o < Length(r),
         port = "esp32" => Length(r) <= size[r]
  PROVE  Read(platform.base[r] + o) = flash[platform.base[r] + o]
<1> DEFINE a == platform.base[r]
<1>1. a \in Nat /\ Length(r) \in Nat /\ a + Length(r) <= MaxWord
  BY PlacedFacts DEF Ported
<1>2. CASE port = "stm32"
  BY <1>2 DEF Read
<1>3. CASE port = "esp32"
  <2>1. size[r] \in Nat
    BY <1>3, PartitionFacts
  <2>2. Plus(a + o, 1) = (a + o) + 1
    <3>1. a + o \in Nat /\ (a + o) + 1 <= MaxWord
      BY <1>1, LayoutAssumption
    <3> HIDE DEF a
    <3> QED BY <3>1, PlusFits
  <2>3. Within(r, a + o, 1)
    BY <1>1, <1>3, <2>1, <2>2 DEF Within
  <2> QED BY <2>3, RouteFacts DEF Read
<1> QED BY <1>2, <1>3 DEF Ported

\* What touches only the pages of one area leaves the other areas alone: they
\* have pages of their own.
LEMMA OthersKept ==
  ASSUME Ported, NEW r \in Region, NEW q \in Region, r # q,
         NEW cells, cells \subseteq PagesOf(r), NEW o \in Nat, o < Length(q)
  PROVE  platform.base[q] + o \in Word /\ platform.base[q] + o \notin cells
<1> DEFINE x == platform.base[q] + o
<1>1. platform.base[q] \in Nat /\ Length(q) \in Nat /\ platform.base[q] + Length(q) <= MaxWord
  BY PlacedFacts DEF Ported
<1>2. x \in Word /\ x \in Nat /\ platform.base[q] <= x /\ x < platform.base[q] + Length(q)
  BY <1>1, LayoutAssumption DEF Word
<1> HIDE DEF x
<1>3. /\ FirstPage(q) \in Nat /\ FirstPage(q) <= platform.base[q]
      /\ PagesEnd(q) \in Nat /\ platform.base[q] + Length(q) <= PagesEnd(q)
      /\ x \in PagesOf(q) <=> x \in Nat /\ x \in Word /\ FirstPage(q) <= x /\ x < PagesEnd(q)
  BY PagesFacts DEF Ported
<1>4. x \in PagesOf(q)
  BY <1>1, <1>2, <1>3
<1>5. x \notin PagesOf(r)
  BY <1>4 DEF Ported, Supported
<1> QED BY <1>2, <1>5 DEF x

(***************************************************************************)
(* The invariant.                                                          *)
(***************************************************************************)

\* Of an area something is known only after an erase that returned OK, hence
\* in an accepted layout and, on ESP32, in an area that its partition holds.
Kept(r, o) ==
  area[r][o] # "unknown" =>
    /\ verdict = "OK"
    /\ port = "esp32" => Length(r) <= size[r]
    /\ flash[platform.base[r] + o] = area[r][o]

PortInv ==
  /\ platform \in Platform
  /\ verdict = "OK" => Accepts(platform)
  /\ port \in {"stm32", "esp32"}
  /\ port = "esp32" => size \in Partitions(platform)
  /\ area \in [Region -> [Word -> {"unknown", "erased", "data"}]]
  /\ target \in Slots \cup {"none"}
  /\ Supported => \A r \in Region : \A o \in Cells(0, Length(r)) : Kept(r, o)

LEMMA OffsetFacts ==
  ASSUME NEW n \in Nat, NEW o \in Cells(0, n)
  PROVE  o \in Nat /\ o \in Word /\ o < n
BY DEF Cells, Word

\* The invariant says what AreasKept says.
LEMMA InvKeeps == PortInv => AreasKept
<1> SUFFICES ASSUME PortInv, Supported, NEW r \in Region, NEW o \in Cells(0, Length(r)),
                    area[r][o] # "unknown"
             PROVE  Read(platform.base[r] + o) = area[r][o]
  BY DEF AreasKept, Length
<1>1. Kept(r, o)
  BY DEF PortInv
<1>2. Ported
  BY <1>1 DEF PortInv, Kept, Ported, Placed
<1>3. Length(r) \in Nat
  BY <1>2, PlacedFacts DEF Ported
<1>4. o \in Nat /\ o < Length(r)
  BY <1>3, OffsetFacts
<1> QED BY <1>1, <1>2, <1>4, ReadFacts DEF Kept

\* What a call leaves alone: with the layout it is supported still, or still not.
LEMMA CallFacts ==
  ASSUME PortInv, Call
  PROVE  /\ Supported => Ported
         /\ verdict = "OK" /\ Placed
         /\ platform' = platform /\ verdict' = verdict /\ port' = port /\ size' = size
         /\ Supported' <=> Supported
<1>1. platform' = platform /\ verdict' = verdict /\ port' = port /\ size' = size
  BY DEF Call, vars
<1>2. Supported' <=> Supported
  BY <1>1 DEF Supported, PagesOf, SizeOf
<1>3. verdict = "OK" /\ Placed
  BY DEF PortInv, Call, Placed
<1> QED BY <1>1, <1>2, <1>3 DEF PortInv, Ported

\* A call that touches the pages of one area keeps the invariant if it keeps
\* it for that area.
LEMMA CallKeeps ==
  ASSUME PortInv, Call, NEW r \in Region, NEW cells, NEW value, NEW promise, NEW ok \in BOOLEAN,
         Touch(cells, value, ok), Promise(r, promise),
         promise \in [Word -> {"unknown", "erased", "data"}],
         target' \in Slots \cup {"none"},
         Supported =>
           /\ cells \subseteq PagesOf(r)
           /\ \A o \in Cells(0, Length(r)) : promise[o] # "unknown" =>
                /\ port = "esp32" => Length(r) <= size[r]
                /\ flash'[platform.base[r] + o] = promise[o]
  PROVE  PortInv'
<1>1. /\ verdict = "OK" /\ (Supported => Ported) /\ (Supported' <=> Supported)
      /\ platform' = platform /\ verdict' = verdict /\ port' = port /\ size' = size
  BY CallFacts
<1>2. area' \in [Region -> [Word -> {"unknown", "erased", "data"}]]
  BY DEF Promise, PortInv
<1>3. area'[r] = promise /\ \A q \in Region : q # r => area'[q] = area[q]
  BY DEF Promise, PortInv
<1>4. \A q \in Region : Length(q)' = Length(q)
  BY <1>1 DEF Length, SizeOf
<1>5. ASSUME Supported, NEW q \in Region, NEW o \in Cells(0, Length(q))
      PROVE  Kept(q, o)'
  <2>1. o \in Nat /\ o \in Word /\ o < Length(q)
    BY <1>1, <1>5, OffsetFacts, PlacedFacts DEF Ported
  <2>2. CASE q = r
    BY <2>2, <1>1, <1>3, <1>4, <1>5 DEF Kept
  <2>3. CASE q # r
    <3>1. platform.base[q] + o \in Word /\ platform.base[q] + o \notin cells
      BY <2>1, <2>3, <1>1, <1>5, OthersKept
    <3>2. flash'[platform.base[q] + o] = flash[platform.base[q] + o]
      BY <3>1 DEF Touch
    <3>3. Kept(q, o)
      BY <1>5 DEF PortInv
    <3> QED BY <3>2, <3>3, <2>3, <1>1, <1>3, <1>4, <1>5 DEF Kept
  <2> QED BY <2>2, <2>3
<1>6. (Supported => \A q \in Region : \A o \in Cells(0, Length(q)) : Kept(q, o))'
  BY <1>1, <1>4, <1>5 DEF Cells, Word
<1>7. /\ platform' \in Platform
      /\ verdict' = "OK" => Accepts(platform')
      /\ port' \in {"stm32", "esp32"}
      /\ port' = "esp32" => size' \in Partitions(platform')
  BY <1>1 DEF PortInv
<1> QED BY <1>2, <1>6, <1>7 DEF PortInv

LEMMA EraseKeeps ==
  ASSUME PortInv, NEW r \in Region, EraseArea(r)
  PROVE  PortInv'
<1> DEFINE cells == EraseCells(platform.base[r], Length(r))
           value == [a \in Word |-> "erased"]
           promise(ok) == [o \in Word |-> IF ok /\ o < SizeOf(platform, r) THEN "erased" ELSE "unknown"]
<1>1. Call
  BY DEF EraseArea
<1>2. PICK ok \in BOOLEAN :
        /\ Touch(cells, value, ok) /\ Promise(r, promise(ok))
        /\ target' = IF r \notin Slots THEN target ELSE IF ok THEN r ELSE "none"
  BY DEF EraseArea, Length
<1>3. Placed /\ (Supported => Ported)
  BY <1>1, CallFacts
<1>4. Supported =>
        /\ cells \subseteq PagesOf(r)
        /\ cells # {} => /\ At(r, 0, Length(r)) \subseteq cells
                         /\ port = "esp32" => Length(r) <= size[r]
  BY <1>3, EraseFacts
<1> HIDE DEF cells
<1>5. promise(ok) \in [Word -> {"unknown", "erased", "data"}]
  OBVIOUS
<1>6. target' \in Slots \cup {"none"}
  BY <1>2 DEF PortInv
<1>7. ASSUME Supported, NEW o \in Cells(0, Length(r)), promise(ok)[o] # "unknown"
      PROVE  /\ port = "esp32" => Length(r) <= size[r]
             /\ flash'[platform.base[r] + o] = promise(ok)[o]
  <2>1. /\ platform.base[r] \in Nat /\ Length(r) \in Nat
        /\ platform.base[r] + Length(r) <= MaxWord
    BY <1>3, PlacedFacts
  <2>2. o \in Nat /\ o \in Word /\ o < Length(r)
    BY <2>1, OffsetFacts
  <2>3. ok /\ promise(ok)[o] = "erased"
    BY <1>7, <2>2
  <2>4. platform.base[r] + o \in At(r, 0, Length(r)) /\ platform.base[r] + o \in Word
    BY <2>1, <2>2, LayoutAssumption DEF At, Cells, Word
  <2>5. platform.base[r] + o \in cells /\ cells # {}
    BY <2>3, <2>4, <1>2, <1>4, <1>7 DEF Touch
  <2> QED BY <2>3, <2>4, <2>5, <1>2, <1>4, <1>7 DEF Touch
<1> HIDE DEF value, promise
<1> QED BY <1>1, <1>2, <1>4, <1>5, <1>6, <1>7, CallKeeps

\* A write inside an area.
LEMMA WriteKeeps ==
  ASSUME PortInv, NEW r \in Region, NEW offset \in Nat, NEW len \in Nat,
         offset + len <= Length(r), Write(r, offset, len)
  PROVE  PortInv'
<1> DEFINE a == platform.base[r]
           cells == WriteCells(a + offset, len)
           value == [x \in Word |-> IF flash[x] # "erased" THEN "torn"
                                    ELSE IF x \in Cells(a + offset, len) THEN "data" ELSE "zero"]
           promise(ok) == [o \in Word |->
                IF o \in Cells(offset, len)
                  THEN IF ok /\ area[r][o] = "erased" THEN "data" ELSE "unknown"
                ELSE IF o \in Cells(offset, Up(len, Unit)) THEN "unknown"
                ELSE area[r][o]]
<1>1. Call
  BY DEF Write
<1>2. Placed /\ (Supported => Ported)
  BY <1>1, CallFacts
<1>3. /\ a \in Nat /\ Length(r) \in Nat /\ a + Length(r) <= MaxWord
  BY <1>2, PlacedFacts
<1>4. Plus(a, offset) = a + offset
  BY <1>3, PlusFits, LayoutAssumption
<1>5. PICK ok \in BOOLEAN : Touch(cells, value, ok) /\ Promise(r, promise(ok))
  BY <1>4 DEF Write
<1>6. Supported =>
        /\ cells \subseteq PagesOf(r)
        /\ cells \subseteq At(r, offset, Up(len, Unit))
        /\ cells # {} => At(r, offset, len) \subseteq cells
  BY <1>2, WriteFacts
<1>7. target' \in Slots \cup {"none"}
  BY DEF Write, PortInv
<1>8. promise(ok) \in [Word -> {"unknown", "erased", "data"}]
  BY DEF PortInv
<1>9. Up(len, Unit) \in Nat
  BY UpFacts, PortAssumption
<1> HIDE DEF cells
<1>10. ASSUME Supported, NEW o \in Cells(0, Length(r)), promise(ok)[o] # "unknown"
       PROVE  /\ port = "esp32" => Length(r) <= size[r]
              /\ flash'[a + o] = promise(ok)[o]
  <2>1. o \in Nat /\ o \in Word /\ o < Length(r)
    BY <1>3, OffsetFacts
  <2>2. a + o \in Word
    BY <1>3, <2>1, LayoutAssumption DEF Word
  <2>3. Kept(r, o)
    BY <1>10 DEF PortInv
  <2>4. CASE o \in Cells(offset, len)
    <3>1. ok /\ area[r][o] = "erased" /\ promise(ok)[o] = "data"
      BY <2>1, <2>4, <1>10
    <3>2. flash[a + o] = "erased" /\ (port = "esp32" => Length(r) <= size[r])
      BY <3>1, <2>3 DEF Kept
    <3>3. a + o \in Cells(a + offset, len)
      BY <2>1, <2>2, <2>4, <1>3 DEF Cells, Word
    <3>4. a + o \in cells
      BY <3>1, <3>3, <1>5, <1>6, <1>10 DEF Touch, At
    <3>5. flash'[a + o] = value[a + o]
      BY <3>1, <3>4, <2>2, <1>5 DEF Touch
    <3>6. value[a + o] = "data"
      BY <3>2, <3>3, <2>2
    <3> QED BY <3>1, <3>2, <3>5, <3>6
  <2>5. CASE o \notin Cells(offset, len)
    <3>1. o \notin Cells(offset, Up(len, Unit)) /\ promise(ok)[o] = area[r][o]
      BY <2>1, <2>5, <1>10
    <3>2. a + o \notin At(r, offset, Up(len, Unit))
      BY <3>1, <2>1, <1>3, <1>9 DEF At, Cells
    <3>3. flash'[a + o] = flash[a + o]
      BY <3>2, <2>2, <1>5, <1>6, <1>10 DEF Touch
    <3> QED BY <3>1, <3>3, <2>3, <1>10 DEF Kept
  <2> QED BY <2>4, <2>5
<1> HIDE DEF value, promise
<1> QED BY <1>1, <1>5, <1>6, <1>7, <1>8, <1>10, CallKeeps

\* The invariant holds in every reachable state, on layouts that are supported
\* and, but for what it says of the content of areas, on the others.
THEOREM PortInvariant == PortSpec => []PortInv
<1>1. PortInit => PortInv
  <2> SUFFICES ASSUME PortInit PROVE PortInv
    OBVIOUS
  <2>1. platform \in Platform /\ verdict # "OK" /\ target \in Slots \cup {"none"}
    BY PortAssumption DEF PortInit
  <2>2. port \in {"stm32", "esp32"} /\ (port = "esp32" => size \in Partitions(platform))
    BY DEF PortInit
  <2>3. area \in [Region -> [Word -> {"unknown", "erased", "data"}]]
    BY DEF PortInit
  <2>4. Supported => \A r \in Region : \A o \in Cells(0, Length(r)) : Kept(r, o)
    BY DEF PortInit, Kept, Cells
  <2> QED BY <2>1, <2>2, <2>3, <2>4 DEF PortInv
<1>2. PortInv /\ [PortNext]_portVars => PortInv'
  <2> SUFFICES ASSUME PortInv, [PortNext]_portVars PROVE PortInv'
    OBVIOUS
  <2>1. CASE LoxbootInit /\ UNCHANGED <<port, size, flash, area, target, calls>>
    <3>1. platform' = platform /\ verdict # "OK" /\ (verdict' = "OK" => Accepts(platform))
      BY <2>1 DEF LoxbootInit
    <3>2. Supported' <=> Supported
      BY <3>1, <2>1 DEF Supported, PagesOf, SizeOf
    <3>3. Supported => \A r \in Region : \A o \in Cells(0, Length(r)) : area[r][o] = "unknown"
      BY <3>1 DEF PortInv, Kept
    <3>4. (Supported => \A r \in Region : \A o \in Cells(0, Length(r)) : Kept(r, o))'
      BY <3>1, <3>2, <3>3, <2>1 DEF Kept, Length, SizeOf, Cells, Word
    <3> QED BY <3>1, <3>4, <2>1 DEF PortInv
  <2>2. ASSUME NEW r \in Region, EraseArea(r) PROVE PortInv'
    BY <2>2, EraseKeeps
  <2>3. ASSUME NEW r \in Region, WriteState(r) PROVE PortInv'
    <3>1. 0 + StateSize <= Length(r) /\ StateSize \in Nat
      BY <2>3, LayoutAssumption DEF WriteState, Length, SizeOf, Slots
    <3> QED BY <3>1, <2>3, WriteKeeps DEF WriteState
  <2>4. CASE SessionWrite
    <3>1. PICK offset \in Word, len \in 0 .. MaxLen :
            InSlot(offset, len) /\ Write(target, offset, len)
      BY <2>4 DEF SessionWrite
    <3>2. target \in Region /\ Length(target) = platform.slot_size /\ platform.slot_size \in Nat
      BY <2>4 DEF SessionWrite, Slots, Region, Length, SizeOf, PortInv, Platform, Word
    <3>3. offset \in Nat /\ len \in Nat /\ offset + len <= Length(target)
      BY <3>1, <3>2, PortAssumption DEF InSlot, Word
    <3> QED BY <3>1, <3>2, <3>3, WriteKeeps
  <2>5. CASE UNCHANGED portVars
    BY <2>5 DEF portVars, vars, PortInv, Kept, Supported, PagesOf, Length, SizeOf, Cells, Word
  <2> QED BY <2>1, <2>2, <2>3, <2>4, <2>5 DEF PortNext
<1> QED BY <1>1, <1>2, PTL DEF PortSpec

\* On a supported layout what was put into an area can be read there, for flash
\* pages, banks, words, layouts and partition tables of any size: no erase, write
\* or route of the adapters reaches another area.
THEOREM AreasAreKept == PortSpec => []AreasKept
<1> QED BY PortInvariant, InvKeeps, PTL

\* Of the layout alone FlashPort says what FlashLayout says: the verdict is
\* right here too.
THEOREM PortVerdict == PortSpec => []VerdictRight
<1>1. PortInit => Init
  BY PortAssumption DEF PortInit, Init
<1>2. [PortNext]_portVars => [Next]_vars
  <2> SUFFICES ASSUME PortNext PROVE [Next]_vars
    BY DEF portVars, vars
  <2> QED BY DEF PortNext, Next, EraseArea, WriteState, SessionWrite, Write, Call
<1> QED BY <1>1, <1>2, VerdictIsRight, PTL DEF PortSpec, Spec
=============================================================================

--------------------------- MODULE StartupProofs ---------------------------
(***************************************************************************)
(* From the boot loader to the fault.  First the loader: the page tables   *)
(* it writes are the memory map, for every number of tables and of entries *)
(* in one, and stay so while the program runs.  Then the stubs, instruction*)
(* by instruction, for every stack pointer and stack of the program: what  *)
(* each has saved, where, and what it leaves alone.  Last the two together.*)
(***************************************************************************)
EXTENDS Startup, TLAPS

Memory == [Address -> [frame : Nat, present : BOOLEAN, high : Nat]]

-----------------------------------------------------------------------------
(* Where the tables are: one after the other.                              *)
LEMMA Farther ==
  ASSUME NEW f \in Nat, NEW g \in Nat, NEW n \in Nat, NEW e \in Nat, f + n <= g
  PROVE  f * e + n * e <= g * e
<1>1. (f + n) * e <= g * e
  <2>1. PICK k \in Nat : g = f + n + k
    <3>1. g - (f + n) \in Nat /\ g = f + n + (g - (f + n))
      OBVIOUS
    <3> QED
      BY <3>1
  <2>2. g * e = (f + n) * e + k * e /\ k * e \in Nat
    BY <2>1
  <2> QED
    BY <2>2
<1>2. (f + n) * e = f * e + n * e
  OBVIOUS
<1> QED
  BY <1>1, <1>2

LEMMA Layout ==
  /\ EntriesPerTable \in Nat /\ Tables \in Nat /\ Tables >= 1 /\ EntriesPerTable > 2 * Tables
  /\ Size \in Nat /\ Size >= EntriesPerTable
  /\ FbTable = Tables /\ ApicTable = 2 * Tables
  /\ PDPT \in Nat /\ PDT \in Nat /\ PT \in Nat /\ FBPT \in Nat /\ ApicPT \in Nat
  /\ ApicFrame \in Nat /\ FrameBuffer \in Nat
  /\ Addr(PML4T, 0) \in Nat /\ Addr(PDPT, 0) \in Nat /\ Addr(PDT, 0) \in Nat
  /\ Addr(PT, 0) \in Nat /\ Addr(FBPT, 0) \in Nat /\ Addr(ApicPT, 0) \in Nat
  /\ \A i \in Int : /\ Addr(PML4T, i) = Addr(PML4T, 0) + i
                    /\ Addr(PDPT, i) = Addr(PDPT, 0) + i
                    /\ Addr(PDT, i) = Addr(PDT, 0) + i
                    /\ Addr(PT, i) = Addr(PT, 0) + i
                    /\ Addr(FBPT, i) = Addr(FBPT, 0) + i
                    /\ Addr(ApicPT, i) = Addr(ApicPT, 0) + i
  /\ Addr(PDPT, 0) = Addr(PML4T, 0) + EntriesPerTable
  /\ Addr(PDT, 0) = Addr(PDPT, 0) + EntriesPerTable
  /\ Addr(PDT, 0) + EntriesPerTable <= Addr(PT, 0)
  /\ Addr(PT, 0) + Size <= Addr(FBPT, 0)
  /\ Addr(FBPT, 0) + Size <= Addr(ApicPT, 0)
  /\ Address = Addr(PML4T, 0) .. Addr(ApicPT, 0) + EntriesPerTable - 1
<1> USE TablesAssumption
<1> DEFINE e == EntriesPerTable
<1>1. \A f \in Nat : f * e \in Nat
  OBVIOUS
<1>2. \A f \in Nat, i \in Int : Addr(f, i) = f * e + i
  BY <1>1 DEF Addr
<1>3. PDPT = PML4T + 1 /\ PDT = PML4T + 2 /\ PDPT \in Nat /\ PDT \in Nat
  BY DEF PDPT, PDT
<1>4. (PML4T + 1) * e = PML4T * e + e /\ (PML4T + 2) * e = PML4T * e + e + e
  OBVIOUS
<1>5. PDT * e + 1 * e <= PT * e
  BY <1>3, Farther
<1>6. Size = Tables * e
  BY DEF Size
<1>7. PT * e + Size <= FBPT * e /\ FBPT * e + Size <= ApicPT * e
  BY <1>6, Farther
<1>8. Size \in Nat /\ Size >= e
  <2>1. Tables - 1 \in Nat /\ (Tables - 1) * e \in Nat /\ Tables * e = (Tables - 1) * e + e
    OBVIOUS
  <2> QED
    BY <1>6, <2>1
<1>9. 1 * e = e
  OBVIOUS
<1>10. /\ Addr(PML4T, 0) = PML4T * e /\ Addr(PDPT, 0) = PML4T * e + e
       /\ Addr(PDT, 0) = PML4T * e + e + e /\ Addr(PT, 0) = PT * e
       /\ Addr(FBPT, 0) = FBPT * e /\ Addr(ApicPT, 0) = ApicPT * e
       /\ PDT * e = PML4T * e + e + e
  <2>1. \A f \in Nat : Addr(f, 0) = f * e
    BY <1>1, <1>2
  <2>2. PDPT * e = PML4T * e + e /\ PDT * e = PML4T * e + e + e
    BY <1>3, <1>4
  <2> HIDE DEF e
  <2> QED
    BY <1>3, <2>1, <2>2
<1>11. Address = Addr(PML4T, 0) .. Addr(ApicPT, 0) + e - 1
  <2>1. Addr(ApicPT, e - 1) = Addr(ApicPT, 0) + e - 1
    BY <1>1, <1>2
  <2> QED
    BY <2>1 DEF Address
<1>12. \A i \in Int : /\ Addr(PML4T, i) = Addr(PML4T, 0) + i
                      /\ Addr(PDPT, i) = Addr(PDPT, 0) + i
                      /\ Addr(PDT, i) = Addr(PDT, 0) + i
                      /\ Addr(PT, i) = Addr(PT, 0) + i
                      /\ Addr(FBPT, i) = Addr(FBPT, 0) + i
                      /\ Addr(ApicPT, i) = Addr(ApicPT, 0) + i
  <2>1. \A f \in Nat : \A i \in Int : Addr(f, i) = Addr(f, 0) + i
    BY <1>1, <1>2
  <2> QED
    BY <1>3, <2>1
<1>13. EntriesPerTable > 2 * Tables /\ Tables >= 1
  OBVIOUS
<1> HIDE DEF e
<1>14. FbTable = Tables /\ ApicTable = 2 * Tables
  BY DEF FbTable, ApicTable
<1>15. /\ Addr(PML4T, 0) \in Nat /\ Addr(PDPT, 0) \in Nat /\ Addr(PDT, 0) \in Nat
       /\ Addr(PT, 0) \in Nat /\ Addr(FBPT, 0) \in Nat /\ Addr(ApicPT, 0) \in Nat
  BY <1>1, <1>10 DEF e
<1>16. /\ Addr(PDPT, 0) = Addr(PML4T, 0) + EntriesPerTable
       /\ Addr(PDT, 0) = Addr(PDPT, 0) + EntriesPerTable
       /\ Addr(PDT, 0) + EntriesPerTable <= Addr(PT, 0)
       /\ Addr(PT, 0) + Size <= Addr(FBPT, 0)
       /\ Addr(FBPT, 0) + Size <= Addr(ApicPT, 0)
  BY <1>5, <1>7, <1>9, <1>10 DEF e
<1> QED
  BY <1>3, <1>8, <1>11, <1>12, <1>13, <1>14, <1>15, <1>16 DEF e

LEMMA Sizes ==
  /\ EntriesPerTable \in Nat /\ Tables \in Nat /\ Size \in Nat
  /\ Tables >= 1 /\ EntriesPerTable > Tables + Tables /\ Size >= EntriesPerTable
  /\ FbTable = Tables /\ ApicTable = Tables + Tables
BY Layout

LEMMA Offsets ==
  \A i \in Int :
    /\ Addr(PDT, i) = Addr(PDT, 0) + i /\ Addr(ApicPT, i) = Addr(ApicPT, 0) + i
    /\ Addr(PT, i) = Addr(PT, 0) + i /\ Addr(FBPT, i) = Addr(FBPT, 0) + i
<1>1. \A i \in Int : /\ Addr(PML4T, i) = Addr(PML4T, 0) + i
                     /\ Addr(PDPT, i) = Addr(PDPT, 0) + i
                     /\ Addr(PDT, i) = Addr(PDT, 0) + i
                     /\ Addr(PT, i) = Addr(PT, 0) + i
                     /\ Addr(FBPT, i) = Addr(FBPT, 0) + i
                     /\ Addr(ApicPT, i) = Addr(ApicPT, 0) + i
  BY Layout, Zenon
<1> QED
  BY <1>1, Zenon

LEMMA Order ==
  /\ Addr(PML4T, 0) \in Nat /\ Addr(PDPT, 0) \in Nat /\ Addr(PDT, 0) \in Nat
  /\ Addr(PT, 0) \in Nat /\ Addr(FBPT, 0) \in Nat /\ Addr(ApicPT, 0) \in Nat
  /\ EntriesPerTable \in Nat /\ Size \in Nat
  /\ Addr(PML4T, 0) < Addr(PDPT, 0) /\ Addr(PDPT, 0) < Addr(PDT, 0)
  /\ Addr(PDT, 0) + EntriesPerTable <= Addr(PT, 0)
  /\ Addr(PT, 0) + Size <= Addr(FBPT, 0)
  /\ Addr(FBPT, 0) + Size <= Addr(ApicPT, 0)
<1>1. /\ EntriesPerTable \in Nat /\ Size \in Nat /\ EntriesPerTable > 0
  BY Sizes
<1>2. /\ Addr(PML4T, 0) \in Nat /\ Addr(PDPT, 0) \in Nat /\ Addr(PDT, 0) \in Nat
      /\ Addr(PT, 0) \in Nat /\ Addr(FBPT, 0) \in Nat /\ Addr(ApicPT, 0) \in Nat
      /\ Addr(PDPT, 0) = Addr(PML4T, 0) + EntriesPerTable
      /\ Addr(PDT, 0) = Addr(PDPT, 0) + EntriesPerTable
      /\ Addr(PDT, 0) + EntriesPerTable <= Addr(PT, 0)
      /\ Addr(PT, 0) + Size <= Addr(FBPT, 0)
      /\ Addr(FBPT, 0) + Size <= Addr(ApicPT, 0)
  BY Layout, Zenon
<1>3. Addr(PML4T, 0) < Addr(PDPT, 0) /\ Addr(PDPT, 0) < Addr(PDT, 0)
  BY <1>1, <1>2
<1> QED
  BY <1>1, <1>2, <1>3, Zenon

LEMMA Addresses == Address = Addr(PML4T, 0) .. Addr(ApicPT, 0) + EntriesPerTable - 1
BY Layout, Zenon

(* What the two kinds of store do.                                         *)
LEMMA LowStore ==
  ASSUME NEW m \in Memory, NEW a \in Address, NEW f \in Nat
  PROVE  /\ Low(m, a, f) \in Memory
         /\ Low(m, a, f)[a] = [frame |-> f, present |-> TRUE, high |-> m[a].high]
         /\ \A b \in Address : b # a => Low(m, a, f)[b] = m[b]
<1>1. m[a] \in [frame : Nat, present : BOOLEAN, high : Nat]
  BY DEF Memory
<1> DEFINE w == [[m[a] EXCEPT !.frame = f] EXCEPT !.present = TRUE]
<1>2. w = [frame |-> f, present |-> TRUE, high |-> m[a].high]
  <2>1. m[a] = [frame |-> m[a].frame, present |-> m[a].present, high |-> m[a].high]
    BY <1>1
  <2>2. PICK p, h : p = m[a].present /\ h = m[a].high
    OBVIOUS
  <2>3. m[a] = [frame |-> m[a].frame, present |-> p, high |-> h]
    BY <2>1, <2>2, Zenon
  <2> HIDE <2>2
  <2>4. [m[a] EXCEPT !.frame = f] = [frame |-> f, present |-> p, high |-> h]
    BY <2>3
  <2>5. PICK r : r = [m[a] EXCEPT !.frame = f]
    OBVIOUS
  <2>6. r = [frame |-> f, present |-> p, high |-> h]
    BY <2>4, <2>5, Zenon
  <2> HIDE <2>5
  <2>7. \A q : [r EXCEPT !.present = q] = [frame |-> f, present |-> q, high |-> h]
    BY <2>6
  <2> QED
    BY <2>2, <2>5, <2>7, Zenon
<1>3. Low(m, a, f) = [m EXCEPT ![a] = w]
  <2>1. Low(m, a, f)[a] = w /\ \A b \in Address : b # a => Low(m, a, f)[b] = m[b]
    BY DEF Low, Memory
  <2>2. DOMAIN Low(m, a, f) = Address /\ Low(m, a, f) = [b \in Address |-> Low(m, a, f)[b]]
    BY DEF Low, Memory
  <2> QED
    BY <2>1, <2>2 DEF Memory
<1> HIDE DEF w
<1>4. w \in [frame : Nat, present : BOOLEAN, high : Nat]
  BY <1>1, <1>2
<1> QED
  BY <1>2, <1>3, <1>4 DEF Memory

LEMMA BothStore ==
  ASSUME NEW m \in Memory, NEW a \in Address, NEW f \in Nat
  PROVE  /\ Both(m, a, f) \in Memory /\ Both(m, a, f)[a] = Entry(f)
         /\ \A b \in Address : b # a => Both(m, a, f)[b] = m[b]
<1>1. Entry(f) \in [frame : Nat, present : BOOLEAN, high : Nat]
  BY DEF Entry
<1>2. Both(m, a, f) = [m EXCEPT ![a] = Entry(f)]
  BY DEF Both, Entry
<1> QED
  BY <1>1, <1>2 DEF Memory

(* What a store finds decides what the low doubleword makes of it.         *)
LEMMA LowEntries ==
  ASSUME NEW m \in Memory, NEW a \in Address, NEW f \in Nat
  PROVE  /\ m[a] = Empty => Low(m, a, f)[a] = Entry(f)
         /\ m[a] = before => Low(m, a, f)[a] = LowEntry(f)
<1>1. Low(m, a, f)[a] = [frame |-> f, present |-> TRUE, high |-> m[a].high]
  BY LowStore
<1>2. ASSUME m[a] = Empty PROVE Low(m, a, f)[a] = Entry(f)
  <2>1. m[a].high = 0
    BY <1>2 DEF Empty
  <2> QED
    BY <1>1, <2>1, Zenon DEF Entry
<1>3. ASSUME m[a] = before PROVE Low(m, a, f)[a] = LowEntry(f)
  BY <1>1, <1>3, Zenon DEF LowEntry
<1> QED
  BY <1>2, <1>3

(* The addresses of the tables.                                            *)
LEMMA Located ==
  /\ Addr(PML4T, 0) \in Address /\ Addr(PDPT, 0) \in Address
  /\ \A i \in 0 .. EntriesPerTable - 1 : Addr(PDT, i) \in Address /\ Addr(ApicPT, i) \in Address
  /\ \A i \in 0 .. Size - 1 : Addr(PT, i) \in Address /\ Addr(FBPT, i) \in Address
<1>1. EntriesPerTable >= 1 /\ Size >= 1
  BY Sizes
<1>2. ASSUME NEW i \in 0 .. EntriesPerTable - 1
      PROVE  Addr(PDT, i) \in Address /\ Addr(ApicPT, i) \in Address
  <2>1. Addr(PDT, i) = Addr(PDT, 0) + i /\ Addr(ApicPT, i) = Addr(ApicPT, 0) + i
    BY Sizes, Offsets
  <2> QED
    <3>1. /\ Addr(PML4T, 0) <= Addr(PDT, 0) + i /\ Addr(PDT, 0) + i \in Int
          /\ Addr(PDT, 0) + i <= Addr(ApicPT, 0) + EntriesPerTable - 1
          /\ Addr(PML4T, 0) <= Addr(ApicPT, 0) + i /\ Addr(ApicPT, 0) + i \in Int
          /\ Addr(ApicPT, 0) + i <= Addr(ApicPT, 0) + EntriesPerTable - 1
      BY Order
    <3> QED
      BY <2>1, <3>1, Addresses
<1>3. ASSUME NEW i \in 0 .. Size - 1
      PROVE  Addr(PT, i) \in Address /\ Addr(FBPT, i) \in Address
  <2>1. Addr(PT, i) = Addr(PT, 0) + i /\ Addr(FBPT, i) = Addr(FBPT, 0) + i
    BY Sizes, Offsets
  <2> QED
    <3>1. /\ Addr(PML4T, 0) <= Addr(PT, 0) + i /\ Addr(PT, 0) + i \in Int
          /\ Addr(PT, 0) + i <= Addr(ApicPT, 0) + EntriesPerTable - 1
          /\ Addr(PML4T, 0) <= Addr(FBPT, 0) + i /\ Addr(FBPT, 0) + i \in Int
          /\ Addr(FBPT, 0) + i <= Addr(ApicPT, 0) + EntriesPerTable - 1
      BY <1>1, Order
    <3> QED
      BY <2>1, <3>1, Addresses
<1>4. Addr(PML4T, 0) \in Address /\ Addr(PDPT, 0) \in Address
  BY <1>1, Order, Addresses
<1> QED
  BY <1>2, <1>3, <1>4

(* A store outside a table leaves it alone.                                *)
LEMMA Outside ==
  ASSUME NEW m, NEW n, NEW a \in Address, \A b \in Address : b # a => n[b] = m[b]
  PROVE  /\ a # Addr(PML4T, 0) => n[Addr(PML4T, 0)] = m[Addr(PML4T, 0)]
         /\ a # Addr(PDPT, 0) => n[Addr(PDPT, 0)] = m[Addr(PDPT, 0)]
         /\ a \notin Addr(PDT, 0) .. Addr(PDT, 0) + EntriesPerTable - 1 =>
              \A i \in 0 .. EntriesPerTable - 1 : n[Addr(PDT, i)] = m[Addr(PDT, i)]
         /\ a \notin Addr(ApicPT, 0) .. Addr(ApicPT, 0) + EntriesPerTable - 1 =>
              \A i \in 0 .. EntriesPerTable - 1 : n[Addr(ApicPT, i)] = m[Addr(ApicPT, i)]
         /\ a \notin Addr(PT, 0) .. Addr(PT, 0) + Size - 1 =>
              \A i \in 0 .. Size - 1 : n[Addr(PT, i)] = m[Addr(PT, i)]
         /\ a \notin Addr(FBPT, 0) .. Addr(FBPT, 0) + Size - 1 =>
              \A i \in 0 .. Size - 1 : n[Addr(FBPT, i)] = m[Addr(FBPT, i)]
<1>1. ASSUME NEW base \in Nat, NEW k \in Nat, a \notin base .. base + k - 1, NEW i \in 0 .. k - 1
      PROVE  a # base + i
  BY <1>1
<1>2. ASSUME NEW i \in 0 .. EntriesPerTable - 1
      PROVE  /\ a \notin Addr(PDT, 0) .. Addr(PDT, 0) + EntriesPerTable - 1 =>
                  n[Addr(PDT, i)] = m[Addr(PDT, i)]
             /\ a \notin Addr(ApicPT, 0) .. Addr(ApicPT, 0) + EntriesPerTable - 1 =>
                  n[Addr(ApicPT, i)] = m[Addr(ApicPT, i)]
  <2>1. Addr(PDT, i) = Addr(PDT, 0) + i /\ Addr(ApicPT, i) = Addr(ApicPT, 0) + i
    BY Sizes, Offsets
  <2>2. Addr(PDT, i) \in Address /\ Addr(ApicPT, i) \in Address
    BY Located
  <2>3. Addr(PDT, 0) \in Nat /\ Addr(ApicPT, 0) \in Nat /\ EntriesPerTable \in Nat
    BY Order
  <2> QED
    BY <1>1, <2>1, <2>2, <2>3
<1>3. ASSUME NEW i \in 0 .. Size - 1
      PROVE  /\ a \notin Addr(PT, 0) .. Addr(PT, 0) + Size - 1 =>
                  n[Addr(PT, i)] = m[Addr(PT, i)]
             /\ a \notin Addr(FBPT, 0) .. Addr(FBPT, 0) + Size - 1 =>
                  n[Addr(FBPT, i)] = m[Addr(FBPT, i)]
  <2>1. Addr(PT, i) = Addr(PT, 0) + i /\ Addr(FBPT, i) = Addr(FBPT, 0) + i
    BY Sizes, Offsets
  <2>2. Addr(PT, i) \in Address /\ Addr(FBPT, i) \in Address
    BY Located
  <2>3. Addr(PT, 0) \in Nat /\ Addr(FBPT, 0) \in Nat /\ Size \in Nat
    BY Order
  <2> QED
    BY <1>1, <2>1, <2>2, <2>3
<1> QED
  BY <1>2, <1>3, Located

(* What keeps a table as it should be while it is not written.             *)
LEMMA RootSame ==
  ASSUME RootOK, at # "link", at' # "link",
         mem'[Addr(PML4T, 0)] = mem[Addr(PML4T, 0)],
         mem'[Addr(PDPT, 0)] = mem[Addr(PDPT, 0)]
  PROVE  RootOK'
BY DEF RootOK

LEMMA DirectorySame ==
  ASSUME DirectoryOK, Linked' = Linked, FbLinked' = FbLinked, ApicMapped' <=> ApicMapped,
         \A i \in 0 .. EntriesPerTable - 1 : mem'[Addr(PDT, i)] = mem[Addr(PDT, i)]
  PROVE  DirectoryOK'
<1>1. \A i : Directory(i)' = Directory(i)
  BY Zenon DEF Directory
<1> QED
  BY <1>1 DEF DirectoryOK

LEMMA PagesSame ==
  ASSUME PagesOK, before' = before, Filled' = Filled, FirstGone' <=> FirstGone,
         \A i \in 0 .. Size - 1 : mem'[Addr(PT, i)] = mem[Addr(PT, i)]
  PROVE  PagesOK'
BY Zenon DEF PagesOK, LowEntry

LEMMA FrameBufferSame ==
  ASSUME FrameBufferOK, before' = before, FbFilled' = FbFilled,
         \A i \in 0 .. Size - 1 : mem'[Addr(FBPT, i)] = mem[Addr(FBPT, i)]
  PROVE  FrameBufferOK'
BY Zenon DEF FrameBufferOK

LEMMA ApicSame ==
  ASSUME ApicOK, before' = before, ApicMapped' <=> ApicMapped,
         \A i \in 0 .. EntriesPerTable - 1 : mem'[Addr(ApicPT, i)] = mem[Addr(ApicPT, i)]
  PROVE  ApicOK'
BY Zenon DEF ApicOK, LowEntry

-----------------------------------------------------------------------------
(* The loader, step by step.                                               *)
LEMMA TypedParts ==
  LoaderTypeOK =>
    /\ mem \in Memory /\ edi \in Nat /\ edx \in Nat /\ ecx \in Nat
    /\ before \in [frame : Nat, present : BOOLEAN, high : Nat]
    /\ build \in Builds
BY TablesAssumption DEF LoaderTypeOK, Memory

LEMMA LoaderInitKeeps == LoaderInit => LoaderInv
<1> SUFFICES ASSUME LoaderInit PROVE LoaderInv
  OBVIOUS
<1>1. /\ build \in Builds /\ before \in PowerOn /\ at = "start"
      /\ mem = [a \in Address |-> before] /\ edi = 0 /\ edx = 0 /\ ecx = 0
  BY DEF LoaderInit
<1>2. ~paging
  BY Zenon DEF LoaderInit
<1>3. LoaderTypeOK
  <2>4. paging \in BOOLEAN
    BY Zenon DEF LoaderInit
  <2>1. before \in [frame : Nat, present : BOOLEAN, high : Nat]
    BY <1>1, TablesAssumption
  <2>2. mem \in [Address -> [frame : Nat, present : BOOLEAN, high : Nat]]
    BY <1>1, <2>1
  <2>3. edi \in Nat /\ edx \in Nat /\ ecx \in Nat
    BY <1>1
  <2> QED
    BY <1>1, <1>2, <2>2, <2>3, <2>4, Zenon DEF LoaderTypeOK
<1>4. RegistersOK /\ TablesOK
  BY <1>1 DEF RegistersOK, TablesOK
<1>5. PathOK
  BY <1>1, <1>2, Zenon DEF PathOK
<1> QED
  BY <1>3, <1>4, <1>5, Zenon DEF LoaderInv

(* What is left to show of a step beyond the first.                        *)
LEMMA StepParts ==
  ASSUME build' \in LongModeBuilds, at' # "start", LoaderTypeOK', RegistersOK', PathOK',
         RootOK', DirectoryOK', PagesOK', FrameBufferOK', ApicOK'
  PROVE  LoaderInv'
BY Zenon DEF LoaderInv, TablesOK

LEMMA Parts ==
  ASSUME LoaderInv, build \in LongModeBuilds, at # "start"
  PROVE  /\ LoaderTypeOK /\ RegistersOK /\ PathOK
         /\ RootOK /\ DirectoryOK /\ PagesOK /\ FrameBufferOK /\ ApicOK
BY Zenon DEF LoaderInv, TablesOK

(* The types, of a step that leaves the build and the start alone.         *)
LEMMA TypedStep ==
  ASSUME LoaderTypeOK, UNCHANGED <<build, before>>, mem' \in Memory,
         edi' \in Nat, edx' \in Nat, ecx' \in Nat, paging' \in BOOLEAN,
         at' \in {"link", "pdt", "fillpt", "apic", "framebuffer", "fillfb", "pdtfb",
                  "unmap", "mode", "start64", "program"}
  PROVE  LoaderTypeOK'
<1>1. /\ build' \in Builds /\ before' \in PowerOn
      /\ at' \in {"start", "link", "pdt", "fillpt", "apic", "framebuffer",
                  "fillfb", "pdtfb", "unmap", "mode", "start64", "program"}
  BY DEF LoaderTypeOK
<1>2. paging' \in BOOLEAN /\ mem' \in [Address -> [frame : Nat, present : BOOLEAN, high : Nat]]
  BY Zenon DEF Memory
<1> QED
  BY <1>1, <1>2, Zenon DEF LoaderTypeOK

LEMMA NoTables == Empty \in [frame : Nat, present : BOOLEAN, high : Nat]
<1>1. FALSE \in BOOLEAN
  OBVIOUS
<1> QED
  BY <1>1 DEF Empty

LEMMA ClearTablesKeeps == LoaderInv /\ ClearTables => LoaderInv'
<1> SUFFICES ASSUME LoaderInv, ClearTables PROVE LoaderInv'
  OBVIOUS
<1> DEFINE Cleared == Addr(PML4T, 0) .. Addr(PDT, EntriesPerTable - 1)
<1>1. /\ at = "start" /\ build \in LongModeBuilds /\ at' = "link"
      /\ mem' = [a \in Address |-> IF a \in Cleared THEN Empty ELSE mem[a]]
      /\ UNCHANGED <<build, before, edi, edx, ecx>>
  BY DEF ClearTables
<1>2. paging' = paging
  BY Zenon DEF ClearTables
<1>3. LoaderTypeOK /\ PathOK /\ mem = [a \in Address |-> before]
  BY <1>1, Zenon DEF LoaderInv, TablesOK
<1>4. /\ mem \in Memory /\ edi \in Nat /\ edx \in Nat /\ ecx \in Nat
      /\ before \in [frame : Nat, present : BOOLEAN, high : Nat] /\ paging \in BOOLEAN
  BY <1>3, TypedParts, Zenon DEF LoaderTypeOK
<1>5. mem' \in Memory
  <2>1. \A a \in Address : mem[a] \in [frame : Nat, present : BOOLEAN, high : Nat]
    BY <1>4 DEF Memory
  <2> HIDE DEF Cleared
  <2> QED
    BY <1>1, <2>1, NoTables DEF Memory
<1>6. LoaderTypeOK'
  <2>1. paging' \in BOOLEAN
    BY <1>2, <1>4, Zenon
  <2> QED
    BY <1>1, <1>3, <1>4, <1>5, <2>1, TypedStep
<1>7. Linked' = 0 /\ Filled' = 0 /\ FbFilled' = 0 /\ FbLinked' = 0
  BY <1>1 DEF Linked, Filled, FbFilled, FbLinked, Early
<1>8. ~ApicMapped' /\ ~FirstGone'
  BY <1>1 DEF ApicMapped, FirstGone, Early
<1>9. RegistersOK'
  BY <1>1 DEF RegistersOK
<1>10. PathOK'
  <2>1. ~paging
    BY <1>1, <1>3 DEF PathOK
  <2>2. ~paging'
    BY <1>2, <2>1, Zenon
  <2>3. build' # "pm32" /\ at' \notin {"apic", "framebuffer", "fillfb", "pdtfb"}
    BY <1>1 DEF LongModeBuilds
  <2> QED
    BY <2>2, <2>3, Zenon DEF PathOK
<1>11. Addr(PDT, EntriesPerTable - 1) = Addr(PDT, 0) + EntriesPerTable - 1
  BY Sizes, Offsets
<1>12. \A a \in Address : mem'[a] = IF a \in Cleared THEN Empty ELSE before
  BY <1>1, <1>3
<1>13. RootOK'
  <2>1. Addr(PML4T, 0) \in Cleared /\ Addr(PDPT, 0) \in Cleared
    BY <1>11, Order, Sizes
  <2> QED
    BY <1>1, <1>12, <2>1, Located DEF RootOK
<1>14. DirectoryOK'
  <2>1. ASSUME NEW i \in 0 .. EntriesPerTable - 1 PROVE mem'[Addr(PDT, i)] = Empty
    <3>1. Addr(PDT, i) = Addr(PDT, 0) + i /\ Addr(PDT, i) \in Address
      BY Sizes, Offsets, Located
    <3>2. Addr(PDT, i) \in Cleared
      BY <1>11, <3>1, Order
    <3> HIDE DEF Cleared
    <3> QED
      BY <1>12, <3>1, <3>2
  <2>2. \A i \in 0 .. EntriesPerTable - 1 : Directory(i)' = Empty
    <3>1. ASSUME NEW i \in 0 .. EntriesPerTable - 1
          PROVE  ~(i < Linked') /\ i \notin FbTable .. FbTable + FbLinked' - 1
      BY <1>7, Sizes
    <3> QED
      BY <1>8, <3>1, Zenon DEF Directory
  <2> QED
    BY <2>1, <2>2, Zenon DEF DirectoryOK
<1>15. PagesOK'
  <2>1. ASSUME NEW i \in 0 .. Size - 1 PROVE mem'[Addr(PT, i)] = before
    <3>1. Addr(PT, i) = Addr(PT, 0) + i /\ Addr(PT, i) \in Address
      BY Sizes, Offsets, Located
    <3>2. Addr(PT, i) \notin Cleared
      BY <1>11, <3>1, Order
    <3> HIDE DEF Cleared
    <3> QED
      BY <1>12, <3>1, <3>2
  <2>2. \A i \in 0 .. Size - 1 : ~(i < Filled')
    BY <1>7, Sizes
  <2> QED
    BY <1>1, <1>8, <2>1, <2>2, Zenon DEF PagesOK
<1>16. FrameBufferOK'
  <2>1. ASSUME NEW i \in 0 .. Size - 1 PROVE mem'[Addr(FBPT, i)] = before
    <3>1. Addr(FBPT, i) = Addr(FBPT, 0) + i /\ Addr(FBPT, i) \in Address
      BY Sizes, Offsets, Located
    <3>2. Addr(FBPT, i) \notin Cleared
      BY <1>11, <3>1, Order
    <3> HIDE DEF Cleared
    <3> QED
      BY <1>12, <3>1, <3>2
  <2>2. \A i \in 0 .. Size - 1 : ~(i < FbFilled')
    BY <1>7, Sizes
  <2> QED
    BY <1>1, <2>1, <2>2, Zenon DEF FrameBufferOK
<1>17. ApicOK'
  <2>1. ASSUME NEW i \in 0 .. EntriesPerTable - 1 PROVE mem'[Addr(ApicPT, i)] = before
    <3>1. Addr(ApicPT, i) = Addr(ApicPT, 0) + i /\ Addr(ApicPT, i) \in Address
      BY Sizes, Offsets, Located
    <3>2. Addr(ApicPT, i) \notin Cleared
      BY <1>11, <3>1, Order
    <3> HIDE DEF Cleared
    <3> QED
      BY <1>12, <3>1, <3>2
  <2> QED
    BY <1>1, <1>8, <2>1, Zenon DEF ApicOK
<1>18. build' \in LongModeBuilds /\ at' # "start"
  BY <1>1
<1> QED
  BY <1>6, <1>9, <1>10, <1>13, <1>14, <1>15, <1>16, <1>17, <1>18, StepParts

(* The path of a loader before paging is on.                               *)
LEMMA PathStep ==
  ASSUME PathOK, build' \in LongModeBuilds, at \notin {"start64", "program"}, paging' = paging,
         at' = "apic" => build' = "lm64",
         at' \in {"framebuffer", "fillfb", "pdtfb"} => build' = "vesa"
  PROVE  PathOK'
<1>1. ~paging
  BY Zenon DEF PathOK
<1>2. ~paging'
  BY <1>1, Zenon
<1>3. build' # "pm32"
  BY DEF LongModeBuilds
<1> QED
  BY <1>2, <1>3, Zenon DEF PathOK

(* A store to one entry of a table.                                        *)
LEMMA DirectoryWritten ==
  ASSUME DirectoryOK, NEW j \in 0 .. EntriesPerTable - 1, mem'[Addr(PDT, j)] = Directory(j)',
         \A b \in Address : b # Addr(PDT, j) => mem'[b] = mem[b],
         \A i \in 0 .. EntriesPerTable - 1 : i # j => Directory(i)' = Directory(i)
  PROVE  DirectoryOK'
<1>1. ASSUME NEW i \in 0 .. EntriesPerTable - 1, i # j
      PROVE  mem'[Addr(PDT, i)] = mem[Addr(PDT, i)]
  <2>1. Addr(PDT, i) = Addr(PDT, 0) + i /\ Addr(PDT, j) = Addr(PDT, 0) + j
    BY Sizes, Offsets
  <2>2. Addr(PDT, i) # Addr(PDT, j)
    BY <1>1, <2>1, Order
  <2> QED
    BY <2>2, Located
<1>2. \A i \in 0 .. EntriesPerTable - 1 : i # j => mem'[Addr(PDT, i)] = Directory(i)'
  BY <1>1, Zenon DEF DirectoryOK
<1>3. \A i \in 0 .. EntriesPerTable - 1 : mem'[Addr(PDT, i)] = Directory(i)'
  BY <1>2, Zenon
<1> QED
  BY <1>3, Zenon DEF DirectoryOK

LEMMA PagesWritten ==
  ASSUME PagesOK, before' = before, NEW j \in 0 .. Size - 1,
         \A b \in Address : b # Addr(PT, j) => mem'[b] = mem[b],
         mem'[Addr(PT, j)] = IF j = 0 /\ FirstGone' THEN Empty
                             ELSE IF j < Filled' THEN LowEntry(j) ELSE before,
         \A i \in 0 .. Size - 1 : i # j =>
           /\ i < Filled' <=> i < Filled
           /\ i = 0 => (FirstGone' <=> FirstGone)
  PROVE  PagesOK'
<1>1. ASSUME NEW i \in 0 .. Size - 1, i # j
      PROVE  mem'[Addr(PT, i)] = mem[Addr(PT, i)]
  <2>1. Addr(PT, i) = Addr(PT, 0) + i /\ Addr(PT, j) = Addr(PT, 0) + j
    BY Sizes, Offsets
  <2>2. Addr(PT, i) # Addr(PT, j)
    BY <1>1, <2>1, Order
  <2> QED
    BY <2>2, Located
<1>2. \A i : LowEntry(i)' = LowEntry(i)
  BY Zenon DEF LowEntry
<1>3. ASSUME NEW i \in 0 .. Size - 1
      PROVE  mem'[Addr(PT, i)] = IF i = 0 /\ FirstGone' THEN Empty
                                 ELSE IF i < Filled' THEN LowEntry(i) ELSE before
  <2>1. CASE i = j
    BY <2>1, Zenon
  <2>2. CASE i # j
    BY <1>1, <2>2, Zenon DEF PagesOK
  <2> QED
    BY <2>1, <2>2, Zenon
<1> QED
  BY <1>2, <1>3, Zenon DEF PagesOK

LEMMA FrameBufferWritten ==
  ASSUME FrameBufferOK, before' = before, NEW j \in 0 .. Size - 1,
         \A b \in Address : b # Addr(FBPT, j) => mem'[b] = mem[b],
         mem'[Addr(FBPT, j)] = Entry(FrameBuffer + j), j < FbFilled',
         \A i \in 0 .. Size - 1 : i # j => (i < FbFilled' <=> i < FbFilled)
  PROVE  FrameBufferOK'
<1>1. ASSUME NEW i \in 0 .. Size - 1, i # j
      PROVE  mem'[Addr(FBPT, i)] = mem[Addr(FBPT, i)]
  <2>1. Addr(FBPT, i) = Addr(FBPT, 0) + i /\ Addr(FBPT, j) = Addr(FBPT, 0) + j
    BY Sizes, Offsets
  <2>2. Addr(FBPT, i) # Addr(FBPT, j)
    BY <1>1, <2>1, Order
  <2> QED
    BY <2>2, Located
<1>2. ASSUME NEW i \in 0 .. Size - 1
      PROVE  mem'[Addr(FBPT, i)] = IF i < FbFilled' THEN Entry(FrameBuffer + i) ELSE before
  <2>1. CASE i = j
    BY <2>1, Zenon
  <2>2. CASE i # j
    BY <1>1, <2>2, Zenon DEF FrameBufferOK
  <2> QED
    BY <2>1, <2>2, Zenon
<1> QED
  BY <1>2, Zenon DEF FrameBufferOK

LEMMA LinkTablesKeeps == LoaderInv /\ LinkTables => LoaderInv'
<1> SUFFICES ASSUME LoaderInv, LinkTables PROVE LoaderInv'
  OBVIOUS
<1>1. /\ at = "link" /\ at' = "pdt" /\ ecx' = Tables /\ edi' = Addr(PDT, 0) /\ edx' = PT
      /\ mem' = Low(Low(mem, Addr(PML4T, 0), PDPT), Addr(PDPT, 0), PDT)
      /\ UNCHANGED <<build, before>>
  BY DEF LinkTables, Loop
<1>2. paging' = paging
  BY Zenon DEF LinkTables
<1>3. LoaderTypeOK /\ PathOK
  BY Zenon DEF LoaderInv
<1>4. build \in LongModeBuilds
  BY <1>1, <1>3 DEF LoaderTypeOK, Builds, PathOK
<1>5. RootOK /\ DirectoryOK /\ PagesOK /\ FrameBufferOK /\ ApicOK
  BY <1>1, <1>4, Parts, Zenon
<1>6. mem \in Memory
  BY <1>3, TypedParts, Zenon
<1> DEFINE A == Addr(PML4T, 0)
           B == Addr(PDPT, 0)
           m == Low(mem, A, PDPT)
<1>7. /\ A \in Address /\ B \in Address /\ A # B /\ PDPT \in Nat /\ PDT \in Nat
      /\ PT \in Nat /\ Tables \in Nat /\ Addr(PDT, 0) \in Nat
  BY Located, Order, Sizes, TablesAssumption DEF PDPT, PDT
<1>8. mem[A] = Empty /\ mem[B] = Empty
  BY <1>1, <1>5 DEF RootOK
<1> HIDE DEF A, B
<1>9. /\ m \in Memory /\ m[A] = Entry(PDPT)
      /\ \A b \in Address : b # A => m[b] = mem[b]
  BY <1>6, <1>7, <1>8, LowStore, LowEntries, ZenonT(30)
<1>10. mem' = Low(m, B, PDT)
  BY <1>1 DEF A, B
<1> HIDE DEF m
<1>11. m[B] = Empty
  BY <1>7, <1>8, <1>9
<1>12. /\ mem' \in Memory /\ mem'[B] = Entry(PDT)
       /\ \A b \in Address : b # B => mem'[b] = m[b]
  <2>1. /\ Low(m, B, PDT) \in Memory /\ Low(m, B, PDT)[B] = Entry(PDT)
        /\ \A b \in Address : b # B => Low(m, B, PDT)[b] = m[b]
    <3>1. Low(m, B, PDT) \in Memory /\ \A b \in Address : b # B => Low(m, B, PDT)[b] = m[b]
      BY <1>7, <1>9, LowStore, ZenonT(30)
    <3>2. Low(m, B, PDT)[B] = Entry(PDT)
      BY <1>7, <1>9, <1>11, LowEntries, Zenon
    <3> QED
      BY <3>1, <3>2, Zenon
  <2> QED
    BY <1>10, <2>1, Zenon
<1>13. mem'[A] = Entry(PDPT)
  BY <1>7, <1>9, <1>12
<1>14. /\ \A i \in 0 .. EntriesPerTable - 1 : mem'[Addr(PDT, i)] = mem[Addr(PDT, i)]
       /\ \A i \in 0 .. EntriesPerTable - 1 : mem'[Addr(ApicPT, i)] = mem[Addr(ApicPT, i)]
       /\ \A i \in 0 .. Size - 1 : mem'[Addr(PT, i)] = mem[Addr(PT, i)]
       /\ \A i \in 0 .. Size - 1 : mem'[Addr(FBPT, i)] = mem[Addr(FBPT, i)]
  <2>1. ASSUME NEW a \in {A, B}
        PROVE  /\ a \notin Addr(PDT, 0) .. Addr(PDT, 0) + EntriesPerTable - 1
               /\ a \notin Addr(ApicPT, 0) .. Addr(ApicPT, 0) + EntriesPerTable - 1
               /\ a \notin Addr(PT, 0) .. Addr(PT, 0) + Size - 1
               /\ a \notin Addr(FBPT, 0) .. Addr(FBPT, 0) + Size - 1
    BY Order DEF A, B
  <2>2. /\ \A i \in 0 .. EntriesPerTable - 1 : m[Addr(PDT, i)] = mem[Addr(PDT, i)]
        /\ \A i \in 0 .. EntriesPerTable - 1 : m[Addr(ApicPT, i)] = mem[Addr(ApicPT, i)]
        /\ \A i \in 0 .. Size - 1 : m[Addr(PT, i)] = mem[Addr(PT, i)]
        /\ \A i \in 0 .. Size - 1 : m[Addr(FBPT, i)] = mem[Addr(FBPT, i)]
    BY <1>7, <1>9, <2>1, Outside
  <2>3. /\ \A i \in 0 .. EntriesPerTable - 1 : mem'[Addr(PDT, i)] = m[Addr(PDT, i)]
        /\ \A i \in 0 .. EntriesPerTable - 1 : mem'[Addr(ApicPT, i)] = m[Addr(ApicPT, i)]
        /\ \A i \in 0 .. Size - 1 : mem'[Addr(PT, i)] = m[Addr(PT, i)]
        /\ \A i \in 0 .. Size - 1 : mem'[Addr(FBPT, i)] = m[Addr(FBPT, i)]
    BY <1>7, <1>12, <2>1, Outside
  <2> QED
    BY <2>2, <2>3, Zenon
<1>15. /\ Linked' = Linked /\ Filled' = Filled /\ FbFilled' = FbFilled /\ FbLinked' = FbLinked
       /\ Linked' = 0
  BY <1>1, <1>4, <1>7 DEF Linked, Filled, FbFilled, FbLinked, Early
<1>16. (ApicMapped' <=> ApicMapped) /\ (FirstGone' <=> FirstGone)
  BY <1>1 DEF ApicMapped, FirstGone, Early
<1>17. LoaderTypeOK'
  <2>1. paging' \in BOOLEAN
    BY <1>2, <1>3, Zenon DEF LoaderTypeOK
  <2> QED
    BY <1>1, <1>3, <1>7, <1>12, <2>1, TypedStep
<1>18. RegistersOK'
  BY <1>1, <1>15, Sizes, TablesAssumption DEF RegistersOK
<1>19. PathOK'
  <2>1. build' \in LongModeBuilds /\ at \notin {"start64", "program"} /\ at' # "apic"
        /\ at' \notin {"framebuffer", "fillfb", "pdtfb"}
    BY <1>1, <1>4
  <2> QED
    BY <1>2, <1>3, <2>1, PathStep, Zenon
<1>20. RootOK'
  BY <1>1, <1>12, <1>13 DEF RootOK, A, B
<1>21. DirectoryOK'
  BY <1>5, <1>14, <1>15, <1>16, DirectorySame, Zenon
<1>22. PagesOK'
  BY <1>1, <1>5, <1>14, <1>15, <1>16, PagesSame, Zenon
<1>23. FrameBufferOK'
  BY <1>1, <1>5, <1>14, <1>15, FrameBufferSame, Zenon
<1>24. ApicOK'
  BY <1>1, <1>5, <1>14, <1>16, ApicSame, Zenon
<1>25. build' \in LongModeBuilds /\ at' # "start"
  BY <1>1, <1>4
<1> QED
  BY <1>17, <1>18, <1>19, <1>20, <1>21, <1>22, <1>23, <1>24, <1>25, StepParts

LEMMA LinkPageTableKeeps == LoaderInv /\ LinkPageTable => LoaderInv'
<1> SUFFICES ASSUME LoaderInv, LinkPageTable PROVE LoaderInv'
  OBVIOUS
<1>1. /\ at = "pdt" /\ UNCHANGED <<build, before>>
      /\ mem' = IF build = "vesa" THEN Both(mem, edi, edx) ELSE Low(mem, edi, edx)
      /\ ecx > 1 => at' = "pdt" /\ ecx' = ecx - 1 /\ edi' = edi + 1 /\ edx' = edx + 1
      /\ ~(ecx > 1) => at' = "fillpt" /\ ecx' = Size /\ edi' = Addr(PT, 0) /\ edx' = 0
  BY DEF LinkPageTable, Loop
<1>2. paging' = paging
  BY Zenon DEF LinkPageTable
<1>3. LoaderTypeOK /\ PathOK /\ RegistersOK
  BY Zenon DEF LoaderInv
<1>4. build \in LongModeBuilds
  BY <1>1, <1>3 DEF LoaderTypeOK, Builds, PathOK
<1>5. RootOK /\ DirectoryOK /\ PagesOK /\ FrameBufferOK /\ ApicOK
  BY <1>1, <1>4, Parts, Zenon
<1>6. mem \in Memory
  BY <1>3, TypedParts, Zenon
<1>7. /\ ecx \in 1 .. Tables /\ edi = Addr(PDT, Linked) /\ edx = PT + Linked
      /\ Linked = Tables - ecx
  BY <1>1, <1>3 DEF RegistersOK, Linked
<1>8. PICK j \in 0 .. Tables - 1 : j = Linked
  BY <1>7, Sizes
<1>9. /\ j \in 0 .. EntriesPerTable - 1 /\ j \in Nat /\ edi = Addr(PDT, j) /\ edi \in Address
      /\ edx = PT + j /\ edx \in Nat /\ edi = Addr(PDT, 0) + j
  BY <1>7, <1>8, Sizes, Located, Offsets, TablesAssumption
<1>10. /\ Linked' = j + 1 /\ Filled' = 0 /\ Filled = 0 /\ FbFilled' = 0 /\ FbFilled = 0
       /\ FbLinked' = 0 /\ FbLinked = 0
  BY <1>1, <1>7, <1>8, Sizes DEF Linked, Filled, FbFilled, FbLinked, Early
<1>11. ~ApicMapped /\ ~ApicMapped' /\ ~FirstGone /\ ~FirstGone'
  BY <1>1 DEF ApicMapped, FirstGone, Early
<1>12. mem[edi] = Empty
  <2>1. ~(j < Linked) /\ j \notin FbTable .. FbTable + FbLinked - 1
    BY <1>8, <1>10, Sizes
  <2>2. Directory(j) = Empty
    BY <1>11, <2>1, Zenon DEF Directory
  <2> QED
    BY <1>5, <1>9, <2>2 DEF DirectoryOK
<1>13. /\ mem' \in Memory /\ mem'[edi] = Entry(PT + j)
       /\ \A b \in Address : b # edi => mem'[b] = mem[b]
  <2>1. /\ Low(mem, edi, edx) \in Memory /\ Low(mem, edi, edx)[edi] = Entry(edx)
        /\ \A b \in Address : b # edi => Low(mem, edi, edx)[b] = mem[b]
    BY <1>6, <1>9, <1>12, LowStore, LowEntries, ZenonT(30)
  <2>2. /\ Both(mem, edi, edx) \in Memory /\ Both(mem, edi, edx)[edi] = Entry(edx)
        /\ \A b \in Address : b # edi => Both(mem, edi, edx)[b] = mem[b]
    BY <1>6, <1>9, BothStore, Zenon
  <2> QED
    BY <1>1, <1>9, <2>1, <2>2, Zenon
<1>14. /\ mem'[Addr(PML4T, 0)] = mem[Addr(PML4T, 0)] /\ mem'[Addr(PDPT, 0)] = mem[Addr(PDPT, 0)]
       /\ \A i \in 0 .. EntriesPerTable - 1 : mem'[Addr(ApicPT, i)] = mem[Addr(ApicPT, i)]
       /\ \A i \in 0 .. Size - 1 : mem'[Addr(PT, i)] = mem[Addr(PT, i)]
       /\ \A i \in 0 .. Size - 1 : mem'[Addr(FBPT, i)] = mem[Addr(FBPT, i)]
  <2>1. /\ edi # Addr(PML4T, 0) /\ edi # Addr(PDPT, 0)
        /\ edi \notin Addr(ApicPT, 0) .. Addr(ApicPT, 0) + EntriesPerTable - 1
        /\ edi \notin Addr(PT, 0) .. Addr(PT, 0) + Size - 1
        /\ edi \notin Addr(FBPT, 0) .. Addr(FBPT, 0) + Size - 1
    BY <1>9, Order
  <2> QED
    BY <1>9, <1>13, <2>1, Outside
<1>15. LoaderTypeOK'
  <2>1. edi' \in Nat /\ edx' \in Nat /\ ecx' \in Nat /\ at' \in {"pdt", "fillpt"}
    <3>1. edi + 1 \in Nat /\ edx + 1 \in Nat /\ Addr(PT, 0) \in Nat
      <4>1. Addr(PDT, 0) \in Nat /\ Addr(PT, 0) \in Nat
        BY Order
      <4>2. \A a \in Nat : a + 1 \in Nat /\ a + j \in Nat
        BY <1>9
      <4> QED
        BY <1>9, <4>1, <4>2, Zenon
    <3>2. CASE ecx > 1
      BY <1>1, <1>7, <3>1, <3>2, Sizes
    <3>3. CASE ~(ecx > 1)
      BY <1>1, <3>1, <3>3, Sizes
    <3> QED
      BY <3>2, <3>3
  <2>2. paging' \in BOOLEAN
    BY <1>2, <1>3, Zenon DEF LoaderTypeOK
  <2> QED
    BY <1>1, <1>3, <1>13, <2>1, <2>2, TypedStep
<1>16. RegistersOK'
  <2>1. Addr(PDT, j + 1) = Addr(PDT, 0) + (j + 1)
    BY <1>9, Offsets
  <2>2. CASE ecx > 1
    <3>1. at' = "pdt" /\ ecx' \in 1 .. Tables
      BY <1>1, <1>7, <2>2, Sizes
    <3>2. edx' = PT + Linked'
      BY <1>1, <1>9, <1>10, <2>2, TablesAssumption
    <3>3. edi' = Addr(PDT, j + 1)
      <4>1. \A a \in Nat : (a + j) + 1 = a + (j + 1)
        BY <1>9
      <4>2. Addr(PDT, 0) \in Nat
        BY Order
      <4> QED
        BY <1>1, <1>9, <2>1, <2>2, <4>1, <4>2, Zenon
    <3> QED
      BY <1>10, <3>1, <3>2, <3>3 DEF RegistersOK
  <2>3. CASE ~(ecx > 1)
    BY <1>1, <1>10, <2>3, Sizes DEF RegistersOK
  <2> QED
    BY <2>2, <2>3
<1>17. PathOK'
  <2>1. build' \in LongModeBuilds /\ at \notin {"start64", "program"} /\ at' # "apic"
        /\ at' \notin {"framebuffer", "fillfb", "pdtfb"}
    BY <1>1, <1>4
  <2> QED
    BY <1>2, <1>3, <2>1, PathStep, Zenon
<1>18. RootOK'
  <2>1. at # "link" /\ at' # "link"
    BY <1>1
  <2> QED
    BY <1>5, <1>14, <2>1, RootSame, Zenon
<1>19. DirectoryOK'
  <2>1. Directory(j)' = Entry(PT + j)
    <3>1. j < Linked'
      BY <1>9, <1>10
    <3> QED
      BY <3>1, Zenon DEF Directory
  <2>2. ASSUME NEW i \in 0 .. EntriesPerTable - 1, i # j PROVE Directory(i)' = Directory(i)
    <3>1. (i < Linked' <=> i < Linked) /\ FbLinked' = FbLinked
      BY <1>8, <1>10, <2>2, Sizes
    <3> QED
      BY <1>11, <3>1, Zenon DEF Directory
  <2> QED
    BY <1>5, <1>9, <1>13, <2>1, <2>2, DirectoryWritten, Zenon
<1>20. PagesOK'
  BY <1>1, <1>5, <1>10, <1>11, <1>14, PagesSame, Zenon
<1>21. FrameBufferOK'
  BY <1>1, <1>5, <1>10, <1>14, FrameBufferSame, Zenon
<1>22. ApicOK'
  BY <1>1, <1>5, <1>11, <1>14, ApicSame, Zenon
<1>23. build' \in LongModeBuilds /\ at' # "start"
  BY <1>1, <1>4
<1> QED
  BY <1>15, <1>16, <1>17, <1>18, <1>19, <1>20, <1>21, <1>22, <1>23, StepParts

LEMMA FillPageKeeps == LoaderInv /\ FillPage => LoaderInv'
<1> SUFFICES ASSUME LoaderInv, FillPage PROVE LoaderInv'
  OBVIOUS
<1>1. /\ at = "fillpt" /\ UNCHANGED <<build, before>>
      /\ mem' = Low(mem, edi, edx) /\ edi' = edi + 1 /\ edx' = edx + 1
      /\ ecx > 1 => at' = "fillpt" /\ ecx' = ecx - 1
      /\ ~(ecx > 1) =>
           /\ at' = (CASE build = "lm64" -> "apic" [] build = "vesa" -> "framebuffer"
                       [] OTHER -> "unmap")
           /\ ecx' = 0
  BY DEF FillPage, Loop
<1>2. paging' = paging
  BY Zenon DEF FillPage
<1>3. LoaderTypeOK /\ PathOK /\ RegistersOK
  BY Zenon DEF LoaderInv
<1>4. build \in LongModeBuilds
  BY <1>1, <1>3 DEF LoaderTypeOK, Builds, PathOK
<1>5. RootOK /\ DirectoryOK /\ PagesOK /\ FrameBufferOK /\ ApicOK
  BY <1>1, <1>4, Parts, Zenon
<1>6. mem \in Memory
  BY <1>3, TypedParts, Zenon
<1>7. /\ ecx \in 1 .. Size /\ edi = Addr(PT, Filled) /\ edx = Filled /\ Filled = Size - ecx
  BY <1>1, <1>3 DEF RegistersOK, Filled
<1>8. PICK j \in 0 .. Size - 1 : j = Filled
  BY <1>7, Sizes
<1>9. /\ j \in Nat /\ edi = Addr(PT, j) /\ edi \in Address /\ edx = j /\ edi = Addr(PT, 0) + j
  BY <1>7, <1>8, Sizes, Located, Offsets
<1>10. /\ Addr(PT, 0) \in Nat /\ Size \in Nat /\ edi \in Nat /\ edx \in Nat
  <2>1. \A a \in Nat : a + j \in Nat
    BY <1>9
  <2> QED
    BY <1>9, <2>1, Order, Zenon
<1>11. at' \in {"fillpt", "apic", "framebuffer", "unmap"}
  BY <1>1
<1>12. /\ at' = "apic" => build = "lm64"
       /\ at' = "framebuffer" => build = "vesa"
       /\ at' \in {"fillpt", "unmap"} \/ build \in {"lm64", "vesa"}
       /\ build = "vesa" => at' # "unmap"
       /\ build = "lm64" => at' # "unmap"
  BY <1>1
<1>13. /\ Filled' = j + 1 /\ Linked' = Linked
  <2>1. Linked' = Tables /\ Linked = Tables
    BY <1>1, <1>11 DEF Linked
  <2>2. Filled' = IF at' = "fillpt" THEN Size - ecx' ELSE Size
    BY <1>11 DEF Filled
  <2>3. CASE ecx > 1
    BY <1>1, <1>7, <1>8, <2>1, <2>2, <2>3, Sizes
  <2>4. CASE ~(ecx > 1)
    <3>1. at' # "fillpt" /\ ecx = 1
      BY <1>1, <1>7, <2>4, Sizes
    <3> QED
      BY <1>7, <1>8, <2>1, <2>2, <3>1, Sizes
  <2> QED
    BY <2>3, <2>4
<1>14. FbFilled' = 0 /\ FbFilled = 0 /\ FbLinked' = 0 /\ FbLinked = 0
  BY <1>1, <1>11, <1>12 DEF FbFilled, FbLinked, Early
<1>15. ~ApicMapped /\ ~ApicMapped' /\ ~FirstGone /\ ~FirstGone'
  BY <1>1, <1>11, <1>12 DEF ApicMapped, FirstGone, Early
<1>16. mem[edi] = before
  <2>1. ~(j < Filled)
    BY <1>8, <1>9
  <2> QED
    BY <1>5, <1>9, <1>15, <2>1, Zenon DEF PagesOK
<1>17. /\ mem' \in Memory /\ mem'[edi] = LowEntry(j)
       /\ \A b \in Address : b # edi => mem'[b] = mem[b]
  <2>1. Low(mem, edi, edx) \in Memory /\ \A b \in Address : b # edi => Low(mem, edi, edx)[b] = mem[b]
    BY <1>6, <1>9, <1>10, LowStore, ZenonT(30)
  <2>2. Low(mem, edi, edx)[edi] = LowEntry(edx)
    BY <1>6, <1>9, <1>10, <1>16, LowEntries, Zenon
  <2> QED
    BY <1>1, <1>9, <2>1, <2>2, Zenon
<1>18. /\ mem'[Addr(PML4T, 0)] = mem[Addr(PML4T, 0)] /\ mem'[Addr(PDPT, 0)] = mem[Addr(PDPT, 0)]
       /\ \A i \in 0 .. EntriesPerTable - 1 : mem'[Addr(ApicPT, i)] = mem[Addr(ApicPT, i)]
       /\ \A i \in 0 .. EntriesPerTable - 1 : mem'[Addr(PDT, i)] = mem[Addr(PDT, i)]
       /\ \A i \in 0 .. Size - 1 : mem'[Addr(FBPT, i)] = mem[Addr(FBPT, i)]
  <2>1. /\ edi # Addr(PML4T, 0) /\ edi # Addr(PDPT, 0)
        /\ edi \notin Addr(ApicPT, 0) .. Addr(ApicPT, 0) + EntriesPerTable - 1
        /\ edi \notin Addr(PDT, 0) .. Addr(PDT, 0) + EntriesPerTable - 1
        /\ edi \notin Addr(FBPT, 0) .. Addr(FBPT, 0) + Size - 1
    BY <1>9, Order
  <2> QED
    BY <1>9, <1>17, <2>1, Outside
<1>19. LoaderTypeOK'
  <2>1. edi' \in Nat /\ edx' \in Nat /\ ecx' \in Nat
    BY <1>1, <1>7, <1>10
  <2>2. paging' \in BOOLEAN
    BY <1>2, <1>3, Zenon DEF LoaderTypeOK
  <2> QED
    BY <1>1, <1>3, <1>11, <1>17, <2>1, <2>2, TypedStep
<1>20. RegistersOK'
  <2>1. Addr(PT, j + 1) = Addr(PT, 0) + (j + 1)
    BY <1>9, Offsets
  <2>2. CASE ecx > 1
    <3>1. at' = "fillpt" /\ ecx' \in 1 .. Size
      BY <1>1, <1>7, <2>2, Sizes
    <3>2. edx' = Filled' /\ edi' = Addr(PT, j + 1)
      BY <1>1, <1>9, <1>10, <1>13, <2>1
    <3> QED
      BY <1>13, <3>1, <3>2 DEF RegistersOK
  <2>3. CASE ~(ecx > 1)
    <3>1. at' \in {"apic", "framebuffer", "unmap"}
      BY <1>1, <2>3
    <3> QED
      BY <3>1 DEF RegistersOK
  <2> QED
    BY <2>2, <2>3
<1>21. PathOK'
  <2>1. /\ build' \in LongModeBuilds /\ at \notin {"start64", "program"}
        /\ at' = "apic" => build' = "lm64"
        /\ at' \in {"framebuffer", "fillfb", "pdtfb"} => build' = "vesa"
    BY <1>1, <1>4, <1>11, <1>12
  <2> QED
    BY <1>2, <1>3, <2>1, PathStep, Zenon
<1>22. RootOK'
  <2>1. at # "link" /\ at' # "link"
    BY <1>1, <1>11
  <2> QED
    BY <1>5, <1>18, <2>1, RootSame, Zenon
<1>23. DirectoryOK'
  BY <1>5, <1>13, <1>14, <1>15, <1>18, DirectorySame, Zenon
<1>24. PagesOK'
  <2>1. j < Filled' /\ \A i \in 0 .. Size - 1 : i # j => (i < Filled' <=> i < Filled)
    BY <1>8, <1>9, <1>13
  <2>2. mem'[Addr(PT, j)] = IF j = 0 /\ FirstGone' THEN Empty
                            ELSE IF j < Filled' THEN LowEntry(j) ELSE before
    BY <1>9, <1>15, <1>17, <2>1, Zenon
  <2>3. before' = before /\ \A b \in Address : b # Addr(PT, j) => mem'[b] = mem[b]
    BY <1>1, <1>9, <1>17
  <2> QED
    BY <1>5, <1>15, <2>1, <2>2, <2>3, PagesWritten, Zenon
<1>25. FrameBufferOK'
  BY <1>1, <1>5, <1>14, <1>18, FrameBufferSame, Zenon
<1>26. ApicOK'
  BY <1>1, <1>5, <1>15, <1>18, ApicSame, Zenon
<1>27. build' \in LongModeBuilds /\ at' # "start"
  BY <1>1, <1>4, <1>11
<1> QED
  BY <1>19, <1>20, <1>21, <1>22, <1>23, <1>24, <1>25, <1>26, <1>27, StepParts

LEMMA InitFrameBufferKeeps == LoaderInv /\ InitFrameBuffer => LoaderInv'
<1> SUFFICES ASSUME LoaderInv, InitFrameBuffer PROVE LoaderInv'
  OBVIOUS
<1>1. /\ at = "framebuffer" /\ at' = "fillfb" /\ UNCHANGED <<build, before, mem>>
      /\ edi' = Addr(FBPT, 0) /\ edx' = FrameBuffer /\ ecx' = Size
  BY DEF InitFrameBuffer, Loop
<1>2. paging' = paging
  BY Zenon DEF InitFrameBuffer
<1>3. LoaderTypeOK /\ PathOK
  BY Zenon DEF LoaderInv
<1>4. build = "vesa" /\ build \in LongModeBuilds
  BY <1>1, <1>3 DEF PathOK, LongModeBuilds
<1>5. RootOK /\ DirectoryOK /\ PagesOK /\ FrameBufferOK /\ ApicOK
  BY <1>1, <1>4, Parts, Zenon
<1>6. /\ Linked' = Linked /\ Filled' = Filled /\ FbFilled' = 0 /\ FbFilled = 0
      /\ FbLinked' = FbLinked
  BY <1>1, <1>4, Sizes DEF Linked, Filled, FbFilled, FbLinked, Early
<1>7. (ApicMapped' <=> ApicMapped) /\ (FirstGone' <=> FirstGone)
  BY <1>1, <1>4 DEF ApicMapped, FirstGone, Early
<1>8. LoaderTypeOK'
  <2>1. edi' \in Nat /\ edx' \in Nat /\ ecx' \in Nat /\ at' \in {"fillfb"}
    BY <1>1, Order, TablesAssumption
  <2>2. paging' \in BOOLEAN
    BY <1>2, <1>3, Zenon DEF LoaderTypeOK
  <2>3. mem' \in Memory
    BY <1>1, <1>3, TypedParts
  <2> QED
    BY <1>1, <1>3, <2>1, <2>2, <2>3, TypedStep
<1>9. RegistersOK'
  BY <1>1, <1>6, Sizes, TablesAssumption DEF RegistersOK
<1>10. PathOK'
  <2>1. /\ build' \in LongModeBuilds /\ at \notin {"start64", "program"} /\ at' # "apic"
        /\ build' = "vesa"
    BY <1>1, <1>4
  <2> QED
    BY <1>2, <1>3, <2>1, PathStep, Zenon
<1>11. RootOK'
  <2>1. at # "link" /\ at' # "link"
    BY <1>1
  <2> QED
    BY <1>1, <1>5, <2>1, RootSame
<1>12. DirectoryOK'
  BY <1>1, <1>5, <1>6, <1>7, DirectorySame, Zenon
<1>13. PagesOK'
  BY <1>1, <1>5, <1>6, <1>7, PagesSame, Zenon
<1>14. FrameBufferOK'
  BY <1>1, <1>5, <1>6, FrameBufferSame, Zenon
<1>15. ApicOK'
  BY <1>1, <1>5, <1>7, ApicSame, Zenon
<1>16. build' \in LongModeBuilds /\ at' # "start"
  BY <1>1, <1>4
<1> QED
  BY <1>8, <1>9, <1>10, <1>11, <1>12, <1>13, <1>14, <1>15, <1>16, StepParts

LEMMA FillFrameBufferKeeps == LoaderInv /\ FillFrameBuffer => LoaderInv'
<1> SUFFICES ASSUME LoaderInv, FillFrameBuffer PROVE LoaderInv'
  OBVIOUS
<1>1. /\ at = "fillfb" /\ UNCHANGED <<build, before>> /\ mem' = Both(mem, edi, edx)
      /\ ecx > 1 => at' = "fillfb" /\ ecx' = ecx - 1 /\ edi' = edi + 1 /\ edx' = edx + 1
      /\ ~(ecx > 1) =>
           at' = "pdtfb" /\ ecx' = Tables /\ edi' = Addr(PDT, FbTable) /\ edx' = FBPT
  BY DEF FillFrameBuffer, Loop
<1>2. paging' = paging
  BY Zenon DEF FillFrameBuffer
<1>3. LoaderTypeOK /\ PathOK /\ RegistersOK
  BY Zenon DEF LoaderInv
<1>4. build = "vesa" /\ build \in LongModeBuilds
  BY <1>1, <1>3 DEF PathOK, LongModeBuilds
<1>5. RootOK /\ DirectoryOK /\ PagesOK /\ FrameBufferOK /\ ApicOK
  BY <1>1, <1>4, Parts, Zenon
<1>6. mem \in Memory
  BY <1>3, TypedParts, Zenon
<1>7. /\ ecx \in 1 .. Size /\ edi = Addr(FBPT, FbFilled) /\ edx = FrameBuffer + FbFilled
      /\ FbFilled = Size - ecx
  BY <1>1, <1>3, <1>4 DEF RegistersOK, FbFilled, Early
<1>8. PICK j \in 0 .. Size - 1 : j = FbFilled
  BY <1>7, Sizes
<1>9. /\ j \in Nat /\ edi = Addr(FBPT, j) /\ edi \in Address /\ edx = FrameBuffer + j
      /\ edi = Addr(FBPT, 0) + j
  BY <1>7, <1>8, Sizes, Located, Offsets
<1>10. /\ Addr(FBPT, 0) \in Nat /\ Addr(PDT, 0) \in Nat /\ edi \in Nat /\ edx \in Nat
       /\ FrameBuffer \in Nat /\ FBPT \in Nat
  <2>1. \A a \in Nat : a + j \in Nat
    BY <1>9
  <2> QED
    BY <1>9, <2>1, Order, TablesAssumption, Zenon
<1>11. at' \in {"fillfb", "pdtfb"}
  BY <1>1
<1>12. /\ FbFilled' = j + 1 /\ FbLinked' = 0 /\ FbLinked = 0
       /\ Linked' = Linked /\ Filled' = Filled
  <2>1. Linked' = Linked /\ Filled' = Filled /\ FbLinked = 0
    BY <1>1, <1>4, <1>11 DEF Linked, Filled, FbLinked
  <2>2. CASE ecx > 1
    BY <1>1, <1>4, <1>7, <1>8, <2>1, <2>2, Sizes DEF FbFilled, FbLinked, Early
  <2>3. CASE ~(ecx > 1)
    <3>1. ecx = 1 /\ at' = "pdtfb" /\ ecx' = Tables
      BY <1>1, <1>7, <2>3, Sizes
    <3>2. FbFilled' = Size /\ FbLinked' = 0
      BY <1>1, <1>4, <3>1, Sizes DEF FbFilled, FbLinked, Early
    <3> QED
      BY <1>7, <1>8, <2>1, <3>1, <3>2, Sizes
  <2> QED
    BY <2>2, <2>3
<1>13. (ApicMapped' <=> ApicMapped) /\ (FirstGone' <=> FirstGone)
  BY <1>1, <1>4, <1>11 DEF ApicMapped, FirstGone, Early
<1>14. /\ mem' \in Memory /\ mem'[edi] = Entry(FrameBuffer + j)
       /\ \A b \in Address : b # edi => mem'[b] = mem[b]
  <2>1. /\ Both(mem, edi, edx) \in Memory /\ Both(mem, edi, edx)[edi] = Entry(edx)
        /\ \A b \in Address : b # edi => Both(mem, edi, edx)[b] = mem[b]
    BY <1>6, <1>9, <1>10, BothStore, Zenon
  <2> QED
    BY <1>1, <1>9, <2>1, Zenon
<1>15. /\ mem'[Addr(PML4T, 0)] = mem[Addr(PML4T, 0)] /\ mem'[Addr(PDPT, 0)] = mem[Addr(PDPT, 0)]
       /\ \A i \in 0 .. EntriesPerTable - 1 : mem'[Addr(ApicPT, i)] = mem[Addr(ApicPT, i)]
       /\ \A i \in 0 .. EntriesPerTable - 1 : mem'[Addr(PDT, i)] = mem[Addr(PDT, i)]
       /\ \A i \in 0 .. Size - 1 : mem'[Addr(PT, i)] = mem[Addr(PT, i)]
  <2>1. /\ edi # Addr(PML4T, 0) /\ edi # Addr(PDPT, 0)
        /\ edi \notin Addr(ApicPT, 0) .. Addr(ApicPT, 0) + EntriesPerTable - 1
        /\ edi \notin Addr(PDT, 0) .. Addr(PDT, 0) + EntriesPerTable - 1
        /\ edi \notin Addr(PT, 0) .. Addr(PT, 0) + Size - 1
    <3>1. edi \in Addr(FBPT, 0) .. Addr(FBPT, 0) + Size - 1
      BY <1>9, <1>10, Sizes
    <3> QED
      BY <3>1, Order
  <2> QED
    BY <1>9, <1>14, <2>1, Outside
<1>16. Addr(PDT, FbTable) = Addr(PDT, 0) + Tables /\ FbTable = Tables /\ FbTable \in Nat
  BY Sizes, Offsets
<1>17. LoaderTypeOK'
  <2>1. edi' \in Nat /\ edx' \in Nat /\ ecx' \in Nat
    <3>1. CASE ecx > 1
      BY <1>1, <1>7, <1>10, <3>1
    <3>2. CASE ~(ecx > 1)
      BY <1>1, <1>10, <1>16, <3>2, Sizes
    <3> QED
      BY <3>1, <3>2
  <2>2. paging' \in BOOLEAN
    BY <1>2, <1>3, Zenon DEF LoaderTypeOK
  <2> QED
    BY <1>1, <1>3, <1>11, <1>14, <2>1, <2>2, TypedStep
<1>18. RegistersOK'
  <2>1. Addr(FBPT, j + 1) = Addr(FBPT, 0) + (j + 1)
    BY <1>9, Offsets
  <2>2. CASE ecx > 1
    <3>1. at' = "fillfb" /\ ecx' \in 1 .. Size
      BY <1>1, <1>7, <2>2, Sizes
    <3>2. edx' = FrameBuffer + FbFilled' /\ edi' = Addr(FBPT, FbFilled')
      BY <1>1, <1>9, <1>10, <1>12, <2>1, <2>2
    <3> QED
      BY <3>1, <3>2 DEF RegistersOK
  <2>3. CASE ~(ecx > 1)
    <3>1. at' = "pdtfb" /\ ecx' \in 1 .. Tables
      BY <1>1, <2>3, Sizes
    <3>2. edi' = Addr(PDT, FbTable + FbLinked') /\ edx' = FBPT + FbLinked'
      BY <1>1, <1>10, <1>12, <1>16, <2>3
    <3> QED
      BY <3>1, <3>2 DEF RegistersOK
  <2> QED
    BY <2>2, <2>3
<1>19. PathOK'
  <2>1. /\ build' \in LongModeBuilds /\ at \notin {"start64", "program"} /\ at' # "apic"
        /\ build' = "vesa"
    BY <1>1, <1>4, <1>11
  <2> QED
    BY <1>2, <1>3, <2>1, PathStep, Zenon
<1>20. RootOK'
  <2>1. at # "link" /\ at' # "link"
    BY <1>1, <1>11
  <2> QED
    BY <1>5, <1>15, <2>1, RootSame, Zenon
<1>21. DirectoryOK'
  BY <1>5, <1>12, <1>13, <1>15, DirectorySame, Zenon
<1>22. PagesOK'
  BY <1>1, <1>5, <1>12, <1>13, <1>15, PagesSame, Zenon
<1>23. FrameBufferOK'
  <2>1. j < FbFilled' /\ \A i \in 0 .. Size - 1 : i # j => (i < FbFilled' <=> i < FbFilled)
    BY <1>8, <1>9, <1>12
  <2>2. before' = before /\ \A b \in Address : b # Addr(FBPT, j) => mem'[b] = mem[b]
    BY <1>1, <1>9, <1>14
  <2> QED
    BY <1>5, <1>9, <1>14, <2>1, <2>2, FrameBufferWritten
<1>24. ApicOK'
  BY <1>1, <1>5, <1>13, <1>15, ApicSame, Zenon
<1>25. build' \in LongModeBuilds /\ at' # "start"
  BY <1>1, <1>4, <1>11
<1> QED
  BY <1>17, <1>18, <1>19, <1>20, <1>21, <1>22, <1>23, <1>24, <1>25, StepParts

LEMMA LinkFrameBufferKeeps == LoaderInv /\ LinkFrameBuffer => LoaderInv'
<1> SUFFICES ASSUME LoaderInv, LinkFrameBuffer PROVE LoaderInv'
  OBVIOUS
<1>1. /\ at = "pdtfb" /\ UNCHANGED <<build, before>> /\ mem' = Low(mem, edi, edx)
      /\ edi' = edi + 1 /\ edx' = edx + 1
      /\ ecx > 1 => at' = "pdtfb" /\ ecx' = ecx - 1
      /\ ~(ecx > 1) => at' = "unmap" /\ ecx' = 0
  BY DEF LinkFrameBuffer, Loop
<1>2. paging' = paging
  BY Zenon DEF LinkFrameBuffer
<1>3. LoaderTypeOK /\ PathOK /\ RegistersOK
  BY Zenon DEF LoaderInv
<1>4. build = "vesa" /\ build \in LongModeBuilds
  BY <1>1, <1>3 DEF PathOK, LongModeBuilds
<1>5. RootOK /\ DirectoryOK /\ PagesOK /\ FrameBufferOK /\ ApicOK
  BY <1>1, <1>4, Parts, Zenon
<1>6. mem \in Memory
  BY <1>3, TypedParts, Zenon
<1>7. /\ ecx \in 1 .. Tables /\ edi = Addr(PDT, FbTable + FbLinked) /\ edx = FBPT + FbLinked
      /\ FbLinked = Tables - ecx
  BY <1>1, <1>3, <1>4 DEF RegistersOK, FbLinked, Early
<1>8. PICK j \in 0 .. Tables - 1 : j = FbLinked
  BY <1>7, Sizes
<1>9. /\ j \in Nat /\ FbTable \in Nat /\ FbTable + j \in 0 .. EntriesPerTable - 1
      /\ edi = Addr(PDT, FbTable + j) /\ edx = FBPT + j
  BY <1>7, <1>8, Sizes
<1>10. edi \in Address /\ edi = Addr(PDT, 0) + (FbTable + j)
  BY <1>9, Located, Offsets
<1>11. edi \in Nat /\ edx \in Nat /\ Addr(PDT, 0) \in Nat /\ FBPT \in Nat
  <2>1. \A a \in Nat : a + j \in Nat /\ a + (FbTable + j) \in Nat
    BY <1>9
  <2> QED
    BY <1>9, <1>10, <2>1, Order, TablesAssumption, Zenon
<1>12. at' \in {"pdtfb", "unmap"}
  BY <1>1
<1>13. FbLinked' = j + 1 /\ Linked' = Tables /\ Linked = Tables
  <2>1. Linked' = Tables /\ Linked = Tables
    BY <1>1, <1>12 DEF Linked
  <2>2. CASE ecx > 1
    BY <1>1, <1>4, <1>7, <1>8, <2>1, <2>2, Sizes DEF FbLinked, Early
  <2>3. CASE ~(ecx > 1)
    <3>1. ecx = 1 /\ at' = "unmap"
      BY <1>1, <1>7, <2>3, Sizes
    <3>2. FbLinked' = Tables
      BY <1>1, <1>4, <3>1 DEF FbLinked, Early
    <3> QED
      BY <1>7, <1>8, <2>1, <3>1, <3>2, Sizes
  <2> QED
    BY <2>2, <2>3
<1>14. Filled' = Filled /\ FbFilled' = FbFilled
  BY <1>1, <1>4, <1>12 DEF Filled, FbFilled, Early
<1>15. ~ApicMapped /\ ~ApicMapped' /\ (FirstGone' <=> FirstGone)
  BY <1>1, <1>4, <1>12 DEF ApicMapped, FirstGone, Early
<1>16. mem[edi] = Empty
  <2>1. ~(FbTable + j < Linked) /\ FbTable + j \notin FbTable .. FbTable + FbLinked - 1
    BY <1>8, <1>9, <1>13, Sizes
  <2>2. Directory(FbTable + j) = Empty
    BY <1>15, <2>1, Zenon DEF Directory
  <2> QED
    BY <1>5, <1>9, <2>2 DEF DirectoryOK
<1>17. /\ mem' \in Memory /\ mem'[edi] = Entry(FBPT + j)
       /\ \A b \in Address : b # edi => mem'[b] = mem[b]
  <2>1. Low(mem, edi, edx) \in Memory /\ \A b \in Address : b # edi => Low(mem, edi, edx)[b] = mem[b]
    BY <1>6, <1>10, <1>11, LowStore, ZenonT(30)
  <2>2. Low(mem, edi, edx)[edi] = Entry(edx)
    BY <1>6, <1>10, <1>11, <1>16, LowEntries, Zenon
  <2> QED
    BY <1>1, <1>9, <2>1, <2>2, Zenon
<1>18. /\ mem'[Addr(PML4T, 0)] = mem[Addr(PML4T, 0)] /\ mem'[Addr(PDPT, 0)] = mem[Addr(PDPT, 0)]
       /\ \A i \in 0 .. EntriesPerTable - 1 : mem'[Addr(ApicPT, i)] = mem[Addr(ApicPT, i)]
       /\ \A i \in 0 .. Size - 1 : mem'[Addr(PT, i)] = mem[Addr(PT, i)]
       /\ \A i \in 0 .. Size - 1 : mem'[Addr(FBPT, i)] = mem[Addr(FBPT, i)]
  <2>1. /\ edi # Addr(PML4T, 0) /\ edi # Addr(PDPT, 0)
        /\ edi \notin Addr(ApicPT, 0) .. Addr(ApicPT, 0) + EntriesPerTable - 1
        /\ edi \notin Addr(PT, 0) .. Addr(PT, 0) + Size - 1
        /\ edi \notin Addr(FBPT, 0) .. Addr(FBPT, 0) + Size - 1
    BY <1>9, <1>10, Order
  <2> QED
    BY <1>10, <1>17, <2>1, Outside
<1>19. LoaderTypeOK'
  <2>1. edi' \in Nat /\ edx' \in Nat /\ ecx' \in Nat
    BY <1>1, <1>7, <1>11
  <2>2. paging' \in BOOLEAN
    BY <1>2, <1>3, Zenon DEF LoaderTypeOK
  <2> QED
    BY <1>1, <1>3, <1>12, <1>17, <2>1, <2>2, TypedStep
<1>20. RegistersOK'
  <2>1. Addr(PDT, FbTable + (j + 1)) = Addr(PDT, 0) + (FbTable + (j + 1))
    BY <1>9, Offsets
  <2>2. CASE ecx > 1
    <3>1. at' = "pdtfb" /\ ecx' \in 1 .. Tables
      BY <1>1, <1>7, <2>2, Sizes
    <3>2. edx' = FBPT + FbLinked' /\ edi' = Addr(PDT, FbTable + FbLinked')
      BY <1>1, <1>9, <1>10, <1>11, <1>13, <2>1
    <3> QED
      BY <3>1, <3>2 DEF RegistersOK
  <2>3. CASE ~(ecx > 1)
    BY <1>1, <2>3 DEF RegistersOK
  <2> QED
    BY <2>2, <2>3
<1>21. PathOK'
  <2>1. /\ build' \in LongModeBuilds /\ at \notin {"start64", "program"} /\ at' # "apic"
        /\ build' = "vesa"
    BY <1>1, <1>4, <1>12
  <2> QED
    BY <1>2, <1>3, <2>1, PathStep, Zenon
<1>22. RootOK'
  <2>1. at # "link" /\ at' # "link"
    BY <1>1, <1>12
  <2> QED
    BY <1>5, <1>18, <2>1, RootSame, Zenon
<1>23. DirectoryOK'
  <2>1. Directory(FbTable + j)' = Entry(FBPT + j)
    <3>1. /\ ~(FbTable + j < Linked') /\ FbTable + j \in FbTable .. FbTable + FbLinked' - 1
          /\ (FbTable + j) - FbTable = j
      BY <1>9, <1>13, Sizes
    <3> QED
      BY <3>1, Zenon DEF Directory
  <2>2. ASSUME NEW i \in 0 .. EntriesPerTable - 1, i # FbTable + j
        PROVE  Directory(i)' = Directory(i)
    <3>1. /\ Linked' = Linked
          /\ i \in FbTable .. FbTable + FbLinked' - 1 <=> i \in FbTable .. FbTable + FbLinked - 1
      BY <1>8, <1>9, <1>13, <2>2, Sizes
    <3> QED
      BY <1>15, <3>1, Zenon DEF Directory
  <2> QED
    BY <1>5, <1>9, <1>17, <2>1, <2>2, DirectoryWritten, Zenon
<1>24. PagesOK'
  BY <1>1, <1>5, <1>14, <1>15, <1>18, PagesSame, Zenon
<1>25. FrameBufferOK'
  BY <1>1, <1>5, <1>14, <1>18, FrameBufferSame, Zenon
<1>26. ApicOK'
  BY <1>1, <1>5, <1>15, <1>18, ApicSame, Zenon
<1>27. build' \in LongModeBuilds /\ at' # "start"
  BY <1>1, <1>4, <1>12
<1> QED
  BY <1>19, <1>20, <1>21, <1>22, <1>23, <1>24, <1>25, <1>26, <1>27, StepParts

LEMMA MapApicKeeps == LoaderInv /\ MapApic => LoaderInv'
<1> SUFFICES ASSUME LoaderInv, MapApic PROVE LoaderInv'
  OBVIOUS
<1> DEFINE A == Addr(PDT, ApicTable)
           B == Addr(ApicPT, 0)
           m == Low(mem, A, ApicPT)
<1>1. /\ at = "apic" /\ at' = "unmap" /\ UNCHANGED <<build, before, edi, edx, ecx>>
      /\ mem' = Low(m, B, ApicFrame)
  BY DEF MapApic
<1>2. paging' = paging
  BY Zenon DEF MapApic
<1>3. LoaderTypeOK /\ PathOK
  BY Zenon DEF LoaderInv
<1>4. build = "lm64" /\ build \in LongModeBuilds
  BY <1>1, <1>3 DEF PathOK, LongModeBuilds
<1>5. RootOK /\ DirectoryOK /\ PagesOK /\ FrameBufferOK /\ ApicOK
  BY <1>1, <1>4, Parts, Zenon
<1>6. mem \in Memory /\ edi \in Nat /\ edx \in Nat /\ ecx \in Nat
  BY <1>3, TypedParts, Zenon
<1>7. /\ ApicTable \in 0 .. EntriesPerTable - 1 /\ 0 \in 0 .. EntriesPerTable - 1
      /\ ApicTable \in Int /\ ApicTable # 0
  BY Sizes
<1>8. A \in Address /\ B \in Address /\ ApicPT \in Nat /\ ApicFrame \in Nat
  BY <1>7, Located, TablesAssumption
<1>9. A = Addr(PDT, 0) + ApicTable
  BY <1>7, Offsets
<1>10. /\ Linked = Tables /\ Linked' = Tables /\ Filled' = Filled
       /\ FbFilled' = FbFilled /\ FbLinked = 0 /\ FbLinked' = 0
  BY <1>1, <1>4 DEF Linked, Filled, FbFilled, FbLinked, Early
<1>11. ~ApicMapped /\ ApicMapped' /\ (FirstGone' <=> FirstGone)
  BY <1>1, <1>4 DEF ApicMapped, FirstGone, Early
<1>12. mem[A] = Empty
  <2>1. ~(ApicTable < Linked) /\ ApicTable \notin FbTable .. FbTable + FbLinked - 1
    BY <1>10, Sizes
  <2>2. Directory(ApicTable) = Empty
    BY <1>11, <2>1, Zenon DEF Directory
  <2> QED
    BY <1>5, <1>7, <2>2, Zenon DEF DirectoryOK
<1>13. mem[B] = before
  BY <1>5, <1>7, <1>11, Zenon DEF ApicOK
<1>14. A # B /\ A # Addr(PML4T, 0) /\ A # Addr(PDPT, 0) /\ B # Addr(PML4T, 0) /\ B # Addr(PDPT, 0)
  BY <1>7, <1>9, Order, Sizes
<1>15. ASSUME NEW a \in {A, B}
       PROVE  /\ a \notin Addr(PT, 0) .. Addr(PT, 0) + Size - 1
              /\ a \notin Addr(FBPT, 0) .. Addr(FBPT, 0) + Size - 1
  BY <1>7, <1>9, Order, Sizes
<1>16. /\ A \notin Addr(ApicPT, 0) .. Addr(ApicPT, 0) + EntriesPerTable - 1
       /\ B \notin Addr(PDT, 0) .. Addr(PDT, 0) + EntriesPerTable - 1
  BY <1>7, <1>9, Order, Sizes
<1> HIDE DEF A, B
<1>17. /\ m \in Memory /\ m[A] = Entry(ApicPT)
       /\ \A b \in Address : b # A => m[b] = mem[b]
  <2>1. m \in Memory /\ \A b \in Address : b # A => m[b] = mem[b]
    BY <1>6, <1>8, LowStore, ZenonT(30)
  <2>2. m[A] = Entry(ApicPT)
    BY <1>6, <1>8, <1>12, LowEntries, Zenon
  <2> QED
    BY <2>1, <2>2, Zenon
<1> HIDE DEF m
<1>18. m[B] = before
  BY <1>8, <1>13, <1>14, <1>17, Zenon
<1>19. /\ mem' \in Memory /\ mem'[B] = LowEntry(ApicFrame)
       /\ \A b \in Address : b # B => mem'[b] = m[b]
  <2>1. Low(m, B, ApicFrame) \in Memory /\ \A b \in Address : b # B => Low(m, B, ApicFrame)[b] = m[b]
    BY <1>8, <1>17, LowStore, ZenonT(30)
  <2>2. Low(m, B, ApicFrame)[B] = LowEntry(ApicFrame)
    BY <1>8, <1>17, <1>18, LowEntries, Zenon
  <2> QED
    BY <1>1, <2>1, <2>2, Zenon
<1>20. /\ mem'[Addr(PML4T, 0)] = mem[Addr(PML4T, 0)] /\ mem'[Addr(PDPT, 0)] = mem[Addr(PDPT, 0)]
  BY <1>14, <1>17, <1>19, Located, Zenon
<1>21. /\ \A i \in 0 .. Size - 1 : mem'[Addr(PT, i)] = mem[Addr(PT, i)]
       /\ \A i \in 0 .. Size - 1 : mem'[Addr(FBPT, i)] = mem[Addr(FBPT, i)]
  <2>1. /\ \A i \in 0 .. Size - 1 : m[Addr(PT, i)] = mem[Addr(PT, i)]
        /\ \A i \in 0 .. Size - 1 : m[Addr(FBPT, i)] = mem[Addr(FBPT, i)]
    BY <1>8, <1>15, <1>17, Outside
  <2>2. /\ \A i \in 0 .. Size - 1 : mem'[Addr(PT, i)] = m[Addr(PT, i)]
        /\ \A i \in 0 .. Size - 1 : mem'[Addr(FBPT, i)] = m[Addr(FBPT, i)]
    BY <1>8, <1>15, <1>19, Outside
  <2> QED
    BY <2>1, <2>2, Zenon
<1>22. LoaderTypeOK'
  <2>1. edi' \in Nat /\ edx' \in Nat /\ ecx' \in Nat /\ at' \in {"unmap"}
    BY <1>1, <1>6
  <2>2. paging' \in BOOLEAN
    BY <1>2, <1>3, Zenon DEF LoaderTypeOK
  <2> QED
    BY <1>1, <1>3, <1>19, <2>1, <2>2, TypedStep
<1>23. RegistersOK'
  BY <1>1 DEF RegistersOK
<1>24. PathOK'
  <2>1. /\ build' \in LongModeBuilds /\ at \notin {"start64", "program"} /\ at' # "apic"
        /\ at' \notin {"framebuffer", "fillfb", "pdtfb"}
    BY <1>1, <1>4
  <2> QED
    BY <1>2, <1>3, <2>1, PathStep, Zenon
<1>25. RootOK'
  <2>1. at # "link" /\ at' # "link"
    BY <1>1
  <2> QED
    BY <1>5, <1>20, <2>1, RootSame, Zenon
<1>26. DirectoryOK'
  <2>1. \A i \in 0 .. EntriesPerTable - 1 : mem'[Addr(PDT, i)] = m[Addr(PDT, i)]
    BY <1>8, <1>16, <1>19, Outside
  <2>2. /\ mem'[Addr(PDT, ApicTable)] = Entry(ApicPT)
    BY <1>7, <1>17, <2>1, Zenon DEF A
  <2>3. Directory(ApicTable)' = Entry(ApicPT)
    <3>1. ~(ApicTable < Linked') /\ ApicTable \notin FbTable .. FbTable + FbLinked' - 1
      BY <1>10, Sizes
    <3> QED
      BY <1>11, <3>1, Zenon DEF Directory
  <2>4. ASSUME NEW i \in 0 .. EntriesPerTable - 1, i # ApicTable
        PROVE  mem'[Addr(PDT, i)] = Directory(i)'
    <3>1. Addr(PDT, i) = Addr(PDT, 0) + i
      BY Sizes, Offsets
    <3>2. Addr(PDT, i) # A /\ Addr(PDT, i) \in Address
      <4>1. \A a \in Nat : a + i # a + ApicTable
        BY <1>7, <2>4, Sizes
      <4>2. Addr(PDT, 0) \in Nat
        BY Order
      <4> QED
        BY <1>9, <3>1, <4>1, <4>2, Located, Zenon
    <3>3. mem'[Addr(PDT, i)] = mem[Addr(PDT, i)]
      BY <1>17, <2>1, <3>2, Zenon
    <3>4. Linked' = Linked /\ FbLinked' = FbLinked
      BY <1>10
    <3>5. Directory(i)' = Directory(i)
      BY <2>4, <3>4, Zenon DEF Directory
    <3> QED
      BY <1>5, <3>3, <3>5, Zenon DEF DirectoryOK
  <2>5. \A i \in 0 .. EntriesPerTable - 1 : mem'[Addr(PDT, i)] = Directory(i)'
    BY <2>2, <2>3, <2>4, Zenon
  <2> QED
    BY <2>5, Zenon DEF DirectoryOK
<1>27. PagesOK'
  BY <1>1, <1>5, <1>10, <1>11, <1>21, PagesSame, Zenon
<1>28. FrameBufferOK'
  BY <1>1, <1>5, <1>10, <1>21, FrameBufferSame, Zenon
<1>29. ApicOK'
  <2>1. \A i \in 0 .. EntriesPerTable - 1 : m[Addr(ApicPT, i)] = mem[Addr(ApicPT, i)]
    BY <1>8, <1>16, <1>17, Outside
  <2>2. ASSUME NEW i \in 0 .. EntriesPerTable - 1, i # 0
        PROVE  mem'[Addr(ApicPT, i)] = before
    <3>1. Addr(ApicPT, i) = Addr(ApicPT, 0) + i
      BY Sizes, Offsets
    <3>2. Addr(ApicPT, i) # B /\ Addr(ApicPT, i) \in Address
      BY <2>2, <3>1, Order, Located DEF B
    <3>3. mem'[Addr(ApicPT, i)] = mem[Addr(ApicPT, i)]
      BY <1>19, <2>1, <3>2, Zenon
    <3> QED
      BY <1>5, <2>2, <3>3, Zenon DEF ApicOK
  <2>3. \A f : LowEntry(f)' = LowEntry(f)
    BY <1>1 DEF LowEntry
  <2>4. before' = before
    BY <1>1
  <2>5. \A i \in 0 .. EntriesPerTable - 1 :
          mem'[Addr(ApicPT, i)] = IF i = 0 THEN LowEntry(ApicFrame) ELSE before
    BY <1>19, <2>2, Zenon DEF B
  <2> QED
    BY <1>11, <2>3, <2>4, <2>5, Zenon DEF ApicOK
<1>30. build' \in LongModeBuilds /\ at' # "start"
  BY <1>1, <1>4
<1> QED
  BY <1>22, <1>23, <1>24, <1>25, <1>26, <1>27, <1>28, <1>29, <1>30, StepParts

LEMMA UnmapFirstKeeps == LoaderInv /\ UnmapFirst => LoaderInv'
<1> SUFFICES ASSUME LoaderInv, UnmapFirst PROVE LoaderInv'
  OBVIOUS
<1> DEFINE A == Addr(PT, 0)
<1>1. /\ at = "unmap" /\ at' = "mode" /\ UNCHANGED <<build, before, edi, edx, ecx>>
      /\ mem' = [mem EXCEPT ![A] = Empty]
  BY DEF UnmapFirst
<1>2. paging' = paging
  BY Zenon DEF UnmapFirst
<1>3. LoaderTypeOK /\ PathOK
  BY Zenon DEF LoaderInv
<1>4. build \in LongModeBuilds
  BY <1>1, <1>3 DEF LoaderTypeOK, Builds, PathOK
<1>5. RootOK /\ DirectoryOK /\ PagesOK /\ FrameBufferOK /\ ApicOK
  BY <1>1, <1>4, Parts, Zenon
<1>6. mem \in Memory /\ edi \in Nat /\ edx \in Nat /\ ecx \in Nat
  BY <1>3, TypedParts, Zenon
<1>7. 0 \in 0 .. Size - 1 /\ A \in Address
  BY Sizes, Located
<1>8. Linked' = Linked /\ Filled' = Filled /\ FbFilled' = FbFilled /\ FbLinked' = FbLinked
  BY <1>1 DEF Linked, Filled, FbFilled, FbLinked, Early
<1>9. ApicMapped' <=> ApicMapped
  BY <1>1 DEF ApicMapped, Early
<1>10. FirstGone'
  BY <1>1 DEF FirstGone
<1>11. A # Addr(PML4T, 0) /\ A # Addr(PDPT, 0)
       /\ A \notin Addr(PDT, 0) .. Addr(PDT, 0) + EntriesPerTable - 1
       /\ A \notin Addr(ApicPT, 0) .. Addr(ApicPT, 0) + EntriesPerTable - 1
       /\ A \notin Addr(FBPT, 0) .. Addr(FBPT, 0) + Size - 1
  BY <1>7, Order, Sizes
<1>12. /\ mem' \in Memory /\ mem'[A] = Empty
       /\ \A b \in Address : b # A => mem'[b] = mem[b]
  <2> HIDE DEF A
  <2> QED
    BY <1>1, <1>6, <1>7, NoTables DEF Memory
<1>13. /\ mem'[Addr(PML4T, 0)] = mem[Addr(PML4T, 0)] /\ mem'[Addr(PDPT, 0)] = mem[Addr(PDPT, 0)]
       /\ \A i \in 0 .. EntriesPerTable - 1 : mem'[Addr(PDT, i)] = mem[Addr(PDT, i)]
       /\ \A i \in 0 .. EntriesPerTable - 1 : mem'[Addr(ApicPT, i)] = mem[Addr(ApicPT, i)]
       /\ \A i \in 0 .. Size - 1 : mem'[Addr(FBPT, i)] = mem[Addr(FBPT, i)]
  <2> HIDE DEF A
  <2> QED
    BY <1>7, <1>11, <1>12, Outside
<1>14. LoaderTypeOK'
  <2>1. edi' \in Nat /\ edx' \in Nat /\ ecx' \in Nat /\ at' \in {"mode"}
    BY <1>1, <1>6
  <2>2. paging' \in BOOLEAN
    BY <1>2, <1>3, Zenon DEF LoaderTypeOK
  <2> QED
    BY <1>1, <1>3, <1>12, <2>1, <2>2, TypedStep
<1>15. RegistersOK'
  BY <1>1 DEF RegistersOK
<1>16. PathOK'
  <2>1. /\ build' \in LongModeBuilds /\ at \notin {"start64", "program"} /\ at' # "apic"
        /\ at' \notin {"framebuffer", "fillfb", "pdtfb"}
    BY <1>1, <1>4
  <2> QED
    BY <1>2, <1>3, <2>1, PathStep, Zenon
<1>17. RootOK'
  <2>1. at # "link" /\ at' # "link"
    BY <1>1
  <2> QED
    BY <1>5, <1>13, <2>1, RootSame, Zenon
<1>18. DirectoryOK'
  BY <1>5, <1>8, <1>9, <1>13, DirectorySame, Zenon
<1>19. PagesOK'
  <2>1. before' = before /\ \A i \in 0 .. Size - 1 : i # 0 => (i < Filled' <=> i < Filled)
    BY <1>1, <1>8
  <2>2. mem'[Addr(PT, 0)] = IF 0 = 0 /\ FirstGone' THEN Empty
                            ELSE IF 0 < Filled' THEN LowEntry(0) ELSE before
    BY <1>10, <1>12, Zenon
  <2>3. \A b \in Address : b # Addr(PT, 0) => mem'[b] = mem[b]
    BY <1>12, Zenon
  <2> QED
    BY <1>5, <1>7, <2>1, <2>2, <2>3, PagesWritten, Zenon
<1>20. FrameBufferOK'
  BY <1>1, <1>5, <1>8, <1>13, FrameBufferSame, Zenon
<1>21. ApicOK'
  BY <1>1, <1>5, <1>9, <1>13, ApicSame, Zenon
<1>22. build' \in LongModeBuilds /\ at' # "start"
  BY <1>1, <1>4
<1> QED
  BY <1>14, <1>15, <1>16, <1>17, <1>18, <1>19, <1>20, <1>21, <1>22, StepParts

(* The last steps and those of the program leave the tables alone.         *)
LEMMA TablesRest ==
  ASSUME LoaderInv, UNCHANGED <<build, before, mem, edi, edx, ecx>>,
         FirstGone, FirstGone', build \in LongModeBuilds, paging' \in BOOLEAN,
         paging' => at' \in {"start64", "program"}
  PROVE  LoaderInv'
<1>1. at \in {"mode", "start64", "program"} /\ at' \in {"mode", "start64", "program"}
  BY DEF FirstGone
<1>2. LoaderTypeOK /\ PathOK
  BY Zenon DEF LoaderInv
<1>3. RootOK /\ DirectoryOK /\ PagesOK /\ FrameBufferOK /\ ApicOK
  BY <1>1, Parts
<1>4. Linked' = Linked /\ Filled' = Filled /\ FbFilled' = FbFilled /\ FbLinked' = FbLinked
  BY <1>1 DEF Linked, Filled, FbFilled, FbLinked, Early
<1>5. ApicMapped' <=> ApicMapped
  BY <1>1 DEF ApicMapped, Early
<1>6. LoaderTypeOK'
  <2>1. /\ UNCHANGED <<build, before>> /\ mem' \in Memory
        /\ edi' \in Nat /\ edx' \in Nat /\ ecx' \in Nat
    BY <1>2, TypedParts
  <2>2. at' \in {"link", "pdt", "fillpt", "apic", "framebuffer", "fillfb", "pdtfb",
                 "unmap", "mode", "start64", "program"}
    BY <1>1
  <2> QED
    BY <1>2, <2>1, <2>2, TypedStep
<1>7. RegistersOK'
  BY <1>1 DEF RegistersOK
<1>8. PathOK'
  <2>1. build' # "pm32" /\ at' \notin {"apic", "framebuffer", "fillfb", "pdtfb"}
    BY <1>1 DEF LongModeBuilds
  <2> QED
    BY <2>1, Zenon DEF PathOK
<1>9. RootOK'
  BY <1>1, <1>3 DEF RootOK
<1>10. DirectoryOK'
  <2>1. \A i \in 0 .. EntriesPerTable - 1 : mem'[Addr(PDT, i)] = mem[Addr(PDT, i)]
    OBVIOUS
  <2> QED
    BY <1>3, <1>4, <1>5, <2>1, DirectorySame, Zenon
<1>11. PagesOK'
  BY <1>3, <1>4, PagesSame
<1>12. FrameBufferOK'
  BY <1>3, <1>4, FrameBufferSame
<1>13. ApicOK'
  BY <1>3, <1>5, ApicSame
<1>14. build' \in LongModeBuilds /\ at' # "start"
  BY <1>1
<1> QED
  BY <1>6, <1>7, <1>8, <1>9, <1>10, <1>11, <1>12, <1>13, <1>14, StepParts

LEMMA EnterLongModeKeeps == LoaderInv /\ EnterLongMode => LoaderInv'
<1> SUFFICES ASSUME LoaderInv, EnterLongMode PROVE LoaderInv'
  OBVIOUS
<1>1. at = "mode" /\ at' = "start64" /\ UNCHANGED <<build, before, mem, edi, edx, ecx>>
  BY DEF EnterLongMode
<1>2. paging' \in BOOLEAN
  BY Zenon DEF EnterLongMode
<1>3. LoaderTypeOK /\ PathOK
  BY Zenon DEF LoaderInv
<1>4. build \in LongModeBuilds
  BY <1>1, <1>3 DEF LoaderTypeOK, Builds, PathOK
<1>5. FirstGone /\ FirstGone' /\ at' \in {"start64", "program"}
  BY <1>1 DEF FirstGone
<1> QED
  BY <1>1, <1>2, <1>4, <1>5, TablesRest

LEMMA Start64Keeps == LoaderInv /\ Start64 => LoaderInv'
<1> SUFFICES ASSUME LoaderInv, Start64 PROVE LoaderInv'
  OBVIOUS
<1>1. at = "start64" /\ at' = "program" /\ UNCHANGED <<build, before, mem, edi, edx, ecx>>
  BY DEF Start64
<1>2. LoaderTypeOK /\ PathOK
  BY Zenon DEF LoaderInv
<1>3. paging' \in BOOLEAN
  BY <1>2, Zenon DEF Start64, LoaderTypeOK
<1>4. build \in LongModeBuilds
  BY <1>1, <1>2 DEF LoaderTypeOK, Builds, PathOK
<1>5. FirstGone /\ FirstGone' /\ at' \in {"start64", "program"}
  BY <1>1 DEF FirstGone
<1> QED
  BY <1>1, <1>3, <1>4, <1>5, TablesRest

LEMMA EnterProtectedModeKeeps == LoaderInv /\ EnterProtectedMode => LoaderInv'
<1> SUFFICES ASSUME LoaderInv, EnterProtectedMode PROVE LoaderInv'
  OBVIOUS
<1>1. /\ at = "start" /\ at' = "program" /\ build = "pm32"
      /\ UNCHANGED <<build, before, mem, edi, edx, ecx>>
  BY DEF EnterProtectedMode
<1>2. paging' = paging
  BY Zenon DEF EnterProtectedMode
<1>3. LoaderTypeOK /\ PathOK
  BY Zenon DEF LoaderInv
<1>4. LoaderTypeOK'
  <2>1. /\ UNCHANGED <<build, before>> /\ mem' \in Memory
        /\ edi' \in Nat /\ edx' \in Nat /\ ecx' \in Nat
    BY <1>1, <1>3, TypedParts
  <2>2. at' \in {"link", "pdt", "fillpt", "apic", "framebuffer", "fillfb", "pdtfb",
                 "unmap", "mode", "start64", "program"}
    BY <1>1
  <2>3. paging' \in BOOLEAN
    BY <1>2, <1>3, Zenon DEF LoaderTypeOK
  <2> QED
    BY <1>3, <2>1, <2>2, <2>3, TypedStep
<1>5. RegistersOK' /\ TablesOK'
  BY <1>1 DEF RegistersOK, TablesOK, LongModeBuilds
<1>6. PathOK'
  <2>1. ~paging
    BY <1>1, <1>3 DEF PathOK
  <2>2. ~paging'
    BY <1>2, <2>1, Zenon
  <2>3. at' = "program" /\ at' \notin {"apic", "framebuffer", "fillfb", "pdtfb"}
    BY <1>1
  <2>4. at' \in {"start", "program"}
    BY <1>1
  <2> QED
    BY <2>2, <2>3, <2>4, Zenon DEF PathOK
<1> QED
  BY <1>4, <1>5, <1>6, Zenon DEF LoaderInv

LEMMA LoaderStepKeeps == LoaderInv /\ LoaderStep => LoaderInv'
BY ClearTablesKeeps, LinkTablesKeeps, LinkPageTableKeeps, FillPageKeeps, MapApicKeeps,
   InitFrameBufferKeeps, FillFrameBufferKeeps, LinkFrameBufferKeeps, UnmapFirstKeeps,
   EnterLongModeKeeps, Start64Keeps, EnterProtectedModeKeeps, Zenon DEF LoaderStep

LEMMA NothingKeeps == LoaderInv /\ UNCHANGED loaderVars => LoaderInv'
<1> SUFFICES ASSUME LoaderInv, UNCHANGED loaderVars PROVE LoaderInv'
  OBVIOUS
<1>1. UNCHANGED <<build, before, mem, edi, edx, ecx>> /\ at' = at
  BY DEF loaderVars
<1>2. paging' = paging
  BY Zenon DEF loaderVars
<1> QED
  <2>1. LoaderTypeOK' /\ PathOK'
    BY <1>1, <1>2, Zenon DEF LoaderInv, LoaderTypeOK, PathOK
  <2>2. Linked' = Linked /\ Filled' = Filled /\ FbFilled' = FbFilled /\ FbLinked' = FbLinked
    BY <1>1 DEF Linked, Filled, FbFilled, FbLinked, Early
  <2>3. (ApicMapped' <=> ApicMapped) /\ (FirstGone' <=> FirstGone)
    BY <1>1 DEF ApicMapped, FirstGone, Early
  <2>4. RegistersOK'
    BY <1>1, <2>2, Zenon DEF LoaderInv, RegistersOK
  <2>5. RootOK => RootOK'
    BY <1>1 DEF RootOK
  <2>6. DirectoryOK => DirectoryOK'
    BY <1>1, <2>2, <2>3, DirectorySame, Zenon
  <2>7. PagesOK => PagesOK'
    BY <1>1, <2>2, <2>3, PagesSame, Zenon
  <2>8. FrameBufferOK => FrameBufferOK'
    BY <1>1, <2>2, FrameBufferSame, Zenon
  <2>9. ApicOK => ApicOK'
    BY <1>1, <2>3, ApicSame, Zenon
  <2>10. TablesOK'
    BY <1>1, <2>5, <2>6, <2>7, <2>8, <2>9, Zenon DEF LoaderInv, TablesOK
  <2> QED
    BY <2>1, <2>4, <2>10, Zenon DEF LoaderInv

(* From the first instruction of a loader to the last of the program, what *)
(* the loops of the loader have written so far is what they were to write. *)
THEOREM LoaderInvariant == Spec => []LoaderInv
<1>1. Init => LoaderInv
  BY LoaderInitKeeps, Zenon DEF Init
<1>2. LoaderInv /\ [Next]_vars => LoaderInv'
  <2>1. Next => LoaderStep \/ UNCHANGED loaderVars
    BY Zenon DEF Next, Boot, Handle, TakeInterrupt, Except, UseNull, Started
  <2>2. UNCHANGED vars => UNCHANGED loaderVars
    BY Zenon DEF vars
  <2> QED
    BY <2>1, <2>2, LoaderStepKeeps, NothingKeeps, Zenon
<1> QED
  BY <1>1, <1>2, PTL DEF Spec

-----------------------------------------------------------------------------
(* What the CPU finds in the finished tables.                              *)
LEMMA LookupEntry ==
  ASSUME NEW f \in Frames, NEW i, NEW g
  PROVE  /\ mem[Addr(f, i)] = Entry(g) => Lookup(Page(f), i) = Page(g)
         /\ mem[Addr(f, i)] = Empty => Lookup(Page(f), i) = NoPage
<1> DEFINE e == mem[Addr(f, i)]
<1>1. Page(f).kind = "page" /\ Page(f).frame = f
  BY DEF Page
<1>2. Lookup(Page(f), i) = IF ~e.present THEN NoPage
                           ELSE IF e.high # 0 THEN Wild ELSE Page(e.frame)
  BY <1>1, Zenon DEF Lookup
<1>3. \A q : [frame |-> g, present |-> q, high |-> 0].present = q
  OBVIOUS
<1>4. \A q : [frame |-> 0, present |-> q, high |-> 0].present = q
  OBVIOUS
<1>5. ASSUME e = Entry(g) PROVE Lookup(Page(f), i) = Page(g)
  <2>1. e.high = 0 /\ e.frame = g
    BY <1>5 DEF Entry
  <2>2. Entry(g).present = TRUE
    BY <1>3, Zenon DEF Entry
  <2>3. e.present
    BY <1>5, <2>2, Zenon
  <2> HIDE DEF e
  <2> QED
    BY <1>2, <2>1, <2>3, Zenon
<1>6. ASSUME e = Empty PROVE Lookup(Page(f), i) = NoPage
  <2>1. Empty.present = FALSE
    BY <1>4, Zenon DEF Empty
  <2>2. ~e.present
    BY <1>6, <2>1, Zenon
  <2> HIDE DEF e
  <2> QED
    BY <1>2, <2>2, Zenon
<1> QED
  BY <1>5, <1>6, Zenon

LEMMA LookupNothing == \A i : Lookup(NoPage, i) = NoPage
<1>1. NoPage.kind # "page"
  BY DEF NoPage
<1> QED
  BY <1>1, Zenon DEF Lookup

(* A page number and its place in the tables.                              *)
LEMMA Divided ==
  ASSUME NEW v \in Nat
  PROVE  /\ v \div EntriesPerTable \in Nat /\ v % EntriesPerTable \in 0 .. EntriesPerTable - 1
         /\ v = (v \div EntriesPerTable) * EntriesPerTable + (v % EntriesPerTable)
<1>1. EntriesPerTable \in Nat /\ EntriesPerTable > 0
  BY Sizes
<1> QED
  BY <1>1

LEMMA Below ==
  ASSUME NEW d \in Nat, NEW r \in 0 .. EntriesPerTable - 1, NEW k \in Nat
  PROVE  d < k <=> d * EntriesPerTable + r < k * EntriesPerTable
<1>1. EntriesPerTable \in Nat
  BY Sizes
<1> DEFINE e == EntriesPerTable
<1>2. ASSUME d < k PROVE d * e + r < k * e
  <2>1. (d + 1) * e <= k * e
    <3>1. d + 1 + 0 <= k
      BY <1>2
    <3>2. (d + 1) * e + 0 * e <= k * e
      BY <1>1, <3>1, Farther
    <3> QED
      BY <1>1, <3>2
  <2>2. (d + 1) * e = d * e + e
    BY <1>1
  <2>3. d * e \in Nat /\ k * e \in Nat
    BY <1>1
  <2> QED
    BY <1>1, <2>1, <2>2, <2>3
<1>3. ASSUME k <= d PROVE k * e <= d * e + r
  <2>1. k * e + 0 * e <= d * e
    <3>1. k + 0 <= d
      BY <1>3
    <3> QED
      BY <1>1, <3>1, Farther
  <2>2. d * e \in Nat /\ k * e \in Nat /\ 0 * e = 0
    BY <1>1
  <2> QED
    BY <1>1, <2>1, <2>2
<1>4. d * e + r \in Nat /\ k * e \in Nat
  BY <1>1
<1> HIDE DEF e
<1> QED
  BY <1>2, <1>3, <1>4 DEF e

(* The page at offset i of a row of tables is in one of them.              *)
LEMMA InRow ==
  ASSUME NEW f \in Nat, NEW d \in Nat, NEW r \in 0 .. EntriesPerTable - 1
  PROVE  Addr(f + d, r) = Addr(f, d * EntriesPerTable + r)
<1>1. EntriesPerTable \in Nat
  BY Sizes
<1>2. (f + d) * EntriesPerTable = f * EntriesPerTable + d * EntriesPerTable
  BY <1>1
<1>3. f * EntriesPerTable \in Nat /\ d * EntriesPerTable \in Nat
  BY <1>1
<1> QED
  BY <1>2, <1>3 DEF Addr

LEMMA InFrames ==
  /\ PML4T \in Frames /\ PDPT \in Frames /\ PDT \in Frames /\ ApicPT \in Frames
  /\ \A d \in 0 .. Tables - 1 : PT + d \in Frames /\ FBPT + d \in Frames
BY TablesAssumption DEF Frames, PDPT, PDT

(* How far the loops have come when the loader is done.                    *)
LEMMA Finished ==
  ASSUME LoaderInv, paging
  PROVE  /\ build \in LongModeBuilds /\ at \in {"start64", "program"} /\ FirstGone
         /\ Linked = Tables /\ Filled = Size
         /\ FbLinked = (IF build = "vesa" THEN Tables ELSE 0)
         /\ FbFilled = (IF build = "vesa" THEN Size ELSE 0)
         /\ ApicMapped <=> build = "lm64"
<1>1. LoaderTypeOK /\ PathOK
  BY Zenon DEF LoaderInv
<1>2. at \in {"start64", "program"} /\ build # "pm32"
  BY <1>1, Zenon DEF PathOK
<1>3. build \in LongModeBuilds
  BY <1>1, <1>2 DEF LoaderTypeOK, Builds
<1>4. /\ Linked = Tables /\ Filled = Size
      /\ FbLinked = (IF build = "vesa" THEN Tables ELSE 0)
      /\ FbFilled = (IF build = "vesa" THEN Size ELSE 0)
  BY <1>2 DEF Linked, Filled, FbLinked, FbFilled, Early
<1>5. FirstGone /\ (ApicMapped <=> build = "lm64")
  BY <1>2 DEF FirstGone, ApicMapped, Early
<1> QED
  BY <1>2, <1>3, <1>4, <1>5, Zenon

(* The first two tables lead to the directory.                             *)
LEMMA Walk ==
  ASSUME LoaderInv, paging, NEW v
  PROVE  Translate(v) = Lookup(Lookup(Page(PDT), v \div EntriesPerTable), v % EntriesPerTable)
<1>1. build \in LongModeBuilds /\ at # "link" /\ at # "start"
  BY Finished
<1>2. mem[Addr(PML4T, 0)] = Entry(PDPT) /\ mem[Addr(PDPT, 0)] = Entry(PDT)
  <2>1. RootOK
    BY <1>1, Parts, Zenon
  <2> QED
    BY <1>1, <2>1, Zenon DEF RootOK
<1>3. Lookup(Page(PML4T), 0) = Page(PDPT) /\ Lookup(Page(PDPT), 0) = Page(PDT)
  BY <1>2, InFrames, LookupEntry, Zenon
<1> QED
  BY <1>3, Zenon DEF Translate

(* The identity map: the first page is missing, the others lead to         *)
(* themselves if the half of their entries that is not written was zero.   *)
LEMMA Identity ==
  ASSUME LoaderInv, paging, NEW v \in Nat, v < Size
  PROVE  /\ v = 0 => Translate(v) = NoPage
         /\ v # 0 /\ before = Empty => Translate(v) = Page(v)
<1> DEFINE d == v \div EntriesPerTable
           r == v % EntriesPerTable
<1>1. d \in Nat /\ r \in 0 .. EntriesPerTable - 1 /\ v = d * EntriesPerTable + r
  BY Divided
<1>2. Translate(v) = Lookup(Lookup(Page(PDT), d), r)
  BY Walk, Zenon
<1> HIDE DEF d, r
<1>3. /\ build \in LongModeBuilds /\ at # "start" /\ Linked = Tables /\ Filled = Size /\ FirstGone
  BY Finished
<1>4. DirectoryOK /\ PagesOK
  BY <1>3, Parts, Zenon
<1>5. Size = Tables * EntriesPerTable
  BY DEF Size
<1>6. d < Tables
  BY <1>1, <1>5, Below, Sizes
<1>7. d \in 0 .. Tables - 1 /\ d \in 0 .. EntriesPerTable - 1
  BY <1>1, <1>6, Sizes
<1>8. mem[Addr(PDT, d)] = Entry(PT + d)
  BY <1>3, <1>4, <1>6, <1>7, Zenon DEF DirectoryOK, Directory
<1>9. Lookup(Page(PDT), d) = Page(PT + d) /\ PT + d \in Frames
  BY <1>7, <1>8, InFrames, LookupEntry, Zenon
<1>10. Addr(PT + d, r) = Addr(PT, v)
  BY <1>1, InRow, TablesAssumption
<1>11. v \in 0 .. Size - 1
  BY Sizes
<1>12. ASSUME v = 0 PROVE Translate(v) = NoPage
  <2>1. mem[Addr(PT + d, r)] = Empty
    BY <1>3, <1>4, <1>10, <1>11, <1>12, Zenon DEF PagesOK
  <2> QED
    BY <1>2, <1>9, <2>1, LookupEntry, Zenon
<1>13. ASSUME v # 0, before = Empty PROVE Translate(v) = Page(v)
  <2>1. mem[Addr(PT + d, r)] = LowEntry(v)
    BY <1>3, <1>4, <1>10, <1>11, <1>13, Zenon DEF PagesOK
  <2>2. before.high = 0
    BY <1>13 DEF Empty
  <2>3. LowEntry(v) = Entry(v)
    BY <2>2, Zenon DEF LowEntry, Entry
  <2> QED
    BY <1>2, <1>9, <2>1, <2>3, LookupEntry, Zenon
<1> QED
  BY <1>12, <1>13

(* The window on the display's memory, whatever memory held before.        *)
LEMMA Window ==
  ASSUME LoaderInv, paging, build = "vesa", NEW v \in Nat, Size <= v, v < Size + Size
  PROVE  Translate(v) = Page(FrameBuffer + (v - Size))
<1> DEFINE d == v \div EntriesPerTable
           r == v % EntriesPerTable
<1>1. d \in Nat /\ r \in 0 .. EntriesPerTable - 1 /\ v = d * EntriesPerTable + r
  BY Divided
<1>2. Translate(v) = Lookup(Lookup(Page(PDT), d), r)
  BY Walk, Zenon
<1> HIDE DEF d, r
<1>3. /\ build \in LongModeBuilds /\ at # "start" /\ Linked = Tables
      /\ FbLinked = Tables /\ FbFilled = Size
  BY Finished
<1>4. DirectoryOK /\ FrameBufferOK
  BY <1>3, Parts, Zenon
<1>5. /\ Size = Tables * EntriesPerTable /\ Size + Size = (Tables + Tables) * EntriesPerTable
      /\ Size \in Nat /\ EntriesPerTable \in Nat
  <2>1. Tables \in Nat /\ EntriesPerTable \in Nat
    BY Sizes
  <2> QED
    BY <2>1 DEF Size
<1>6. Tables <= d /\ d < Tables + Tables
  <2>1. Tables \in Nat /\ Tables + Tables \in Nat
    BY Sizes
  <2>2. ~(d < Tables)
    <3>1. ~(d * EntriesPerTable + r < Tables * EntriesPerTable)
      BY <1>1, <1>5
    <3> QED
      BY <1>1, <2>1, <3>1, Below, Zenon
  <2>3. d < Tables + Tables
    <3>1. d * EntriesPerTable + r < (Tables + Tables) * EntriesPerTable
      BY <1>1, <1>5
    <3> QED
      BY <1>1, <2>1, <3>1, Below, Zenon
  <2> QED
    BY <1>1, <2>1, <2>2, <2>3
<1>7. PICK c \in 0 .. Tables - 1 : d = Tables + c
  <2>1. d - Tables \in 0 .. Tables - 1 /\ d = Tables + (d - Tables)
    BY <1>1, <1>6, Sizes
  <2> QED
    BY <2>1
<1>8. /\ d \in 0 .. EntriesPerTable - 1 /\ ~(d < Linked) /\ d \in FbTable .. FbTable + FbLinked - 1
      /\ d - FbTable = c /\ c \in Nat
  BY <1>1, <1>3, <1>6, <1>7, Sizes
<1>9. mem[Addr(PDT, d)] = Entry(FBPT + c)
  BY <1>4, <1>8, Zenon DEF DirectoryOK, Directory
<1>10. Lookup(Page(PDT), d) = Page(FBPT + c) /\ FBPT + c \in Frames
  BY <1>7, <1>9, InFrames, LookupEntry, Zenon
<1>11. v - Size = c * EntriesPerTable + r /\ v - Size \in 0 .. Size - 1
  <2>1. d * EntriesPerTable = Tables * EntriesPerTable + c * EntriesPerTable
    BY <1>5, <1>7, <1>8, Sizes
  <2>2. c * EntriesPerTable \in Nat
    BY <1>5, <1>8
  <2> QED
    BY <1>1, <1>5, <2>1, <2>2
<1>12. Addr(FBPT + c, r) = Addr(FBPT, v - Size)
  <2>1. Addr(FBPT + c, r) = Addr(FBPT, c * EntriesPerTable + r)
    <3>1. FBPT \in Nat
      BY TablesAssumption
    <3> QED
      BY <1>1, <1>8, <3>1, InRow, Zenon
  <2> QED
    BY <1>11, <2>1, Zenon
<1>13. mem[Addr(FBPT + c, r)] = Entry(FrameBuffer + (v - Size))
  <2>1. v - Size < FbFilled
    BY <1>3, <1>5, <1>11
  <2> QED
    BY <1>4, <1>11, <1>12, <2>1, Zenon DEF FrameBufferOK
<1> QED
  BY <1>2, <1>10, <1>13, LookupEntry, Zenon

(* The rest of the directory is empty, but for the APIC's entry of lm64,   *)
(* whose table has a page if the rest of memory was zero.                  *)
LEMMA Rest ==
  ASSUME LoaderInv, paging, before = Empty, NEW v \in VirtualPages, Size <= v,
         build = "vesa" => Size + Size <= v
  PROVE  Translate(v) = IF build = "lm64" /\ v = Size + Size THEN Page(ApicFrame) ELSE NoPage
<1> DEFINE d == v \div EntriesPerTable
           r == v % EntriesPerTable
<1>1. EntriesPerTable \in Nat /\ Tables \in Nat /\ Tables + Tables \in Nat
  BY Sizes
<1>2. v \in Nat /\ v < EntriesPerTable * EntriesPerTable
  BY <1>1 DEF VirtualPages, Addr
<1>3. d \in Nat /\ r \in 0 .. EntriesPerTable - 1 /\ v = d * EntriesPerTable + r
  BY <1>2, Divided
<1>4. Translate(v) = Lookup(Lookup(Page(PDT), d), r)
  BY Walk, Zenon
<1> HIDE DEF d, r
<1>5. /\ build \in LongModeBuilds /\ at # "start" /\ Linked = Tables
      /\ FbLinked = (IF build = "vesa" THEN Tables ELSE 0)
      /\ (ApicMapped <=> build = "lm64")
  BY Finished
<1>6. DirectoryOK /\ ApicOK
  BY <1>5, Parts, Zenon
<1>7. /\ Size = Tables * EntriesPerTable /\ Size + Size = (Tables + Tables) * EntriesPerTable
      /\ Size \in Nat
  BY <1>1 DEF Size
<1>8. d \in 0 .. EntriesPerTable - 1
  <2>1. d < EntriesPerTable
    BY <1>1, <1>2, <1>3, Below
  <2> QED
    BY <1>1, <1>3, <2>1
<1>9. ~(d < Linked)
  <2>1. ~(d * EntriesPerTable + r < Tables * EntriesPerTable)
    BY <1>2, <1>3, <1>7
  <2> QED
    BY <1>1, <1>3, <1>5, <2>1, Below, Zenon
<1>10. d \notin FbTable .. FbTable + FbLinked - 1
  <2>1. CASE build = "vesa"
    <3>1. ~(d * EntriesPerTable + r < (Tables + Tables) * EntriesPerTable)
      BY <1>2, <1>3, <1>7, <2>1
    <3>2. ~(d < Tables + Tables)
      BY <1>1, <1>3, <3>1, Below, Zenon
    <3> QED
      BY <1>1, <1>3, <1>5, <2>1, <3>2, Sizes
  <2>2. CASE build # "vesa"
    BY <1>1, <1>3, <1>5, <2>2, Sizes
  <2> QED
    BY <2>1, <2>2
<1>11. Directory(d) = IF d = ApicTable /\ ApicMapped THEN Entry(ApicPT) ELSE Empty
  BY <1>9, <1>10, Zenon DEF Directory
<1>12. v = Size + Size <=> d = ApicTable /\ r = 0
  <2>1. ASSUME d = ApicTable, r = 0 PROVE v = Size + Size
    BY <1>3, <1>7, <2>1, Sizes
  <2>2. ASSUME v = Size + Size PROVE d = ApicTable /\ r = 0
    <3>1. ~(d * EntriesPerTable + r < (Tables + Tables) * EntriesPerTable)
      BY <1>3, <1>7, <2>2
    <3>2. ~(d < Tables + Tables)
      BY <1>1, <1>3, <3>1, Below, Zenon
    <3>3. d * EntriesPerTable + r < ((Tables + Tables) + 1) * EntriesPerTable
      <4>1. ((Tables + Tables) + 1) * EntriesPerTable
              = (Tables + Tables) * EntriesPerTable + EntriesPerTable
        BY <1>1
      <4> QED
        BY <1>1, <1>3, <1>7, <2>2, <4>1, Sizes
    <3>4. d < (Tables + Tables) + 1
      <4>1. (Tables + Tables) + 1 \in Nat
        BY <1>1
      <4> QED
        BY <1>3, <3>3, <4>1, Below, Zenon
    <3>5. d = Tables + Tables
      BY <1>1, <1>3, <3>2, <3>4
    <3> QED
      BY <1>3, <1>7, <2>2, <3>5, Sizes
  <2> QED
    BY <2>1, <2>2
<1>13. CASE d = ApicTable /\ build = "lm64"
  <2>1. mem[Addr(PDT, d)] = Entry(ApicPT)
    BY <1>5, <1>6, <1>8, <1>11, <1>13, Zenon DEF DirectoryOK
  <2>2. Lookup(Page(PDT), d) = Page(ApicPT)
    BY <2>1, InFrames, LookupEntry, Zenon
  <2>3. LowEntry(ApicFrame) = Entry(ApicFrame)
    <3>1. before.high = 0
      BY DEF Empty
    <3> QED
      BY <3>1, Zenon DEF LowEntry, Entry
  <2>4. mem[Addr(ApicPT, r)] = IF r = 0 THEN Entry(ApicFrame) ELSE Empty
    BY <1>3, <1>5, <1>6, <1>13, <2>3, Zenon DEF ApicOK
  <2>5. CASE r = 0
    <3>1. mem[Addr(ApicPT, r)] = Entry(ApicFrame) /\ v = Size + Size
      BY <1>12, <1>13, <2>4, <2>5, Zenon
    <3>2. Lookup(Page(ApicPT), r) = Page(ApicFrame)
      BY <3>1, InFrames, LookupEntry, Zenon
    <3> QED
      BY <1>4, <1>13, <2>2, <3>1, <3>2, Zenon
  <2>6. CASE r # 0
    <3>1. mem[Addr(ApicPT, r)] = Empty /\ v # Size + Size
      BY <1>12, <2>4, <2>6, Zenon
    <3>2. Lookup(Page(ApicPT), r) = NoPage
      BY <3>1, InFrames, LookupEntry, Zenon
    <3> QED
      BY <1>4, <2>2, <3>1, <3>2, Zenon
  <2> QED
    BY <2>5, <2>6
<1>14. CASE ~(d = ApicTable /\ build = "lm64")
  <2>1. mem[Addr(PDT, d)] = Empty
    BY <1>5, <1>6, <1>8, <1>11, <1>14, Zenon DEF DirectoryOK
  <2>2. Lookup(Page(PDT), d) = NoPage
    BY <2>1, InFrames, LookupEntry, Zenon
  <2>3. ~(build = "lm64" /\ v = Size + Size)
    BY <1>12, <1>14
  <2> QED
    BY <1>4, <2>2, <2>3, LookupNothing, Zenon
<1> QED
  BY <1>13, <1>14

LEMMA MeantPages ==
  /\ Addr(FbTable, 0) = Size /\ Addr(FbTable, Size - 1) = Size + Size - 1
  /\ Addr(ApicTable, 0) = Size + Size
<1>1. EntriesPerTable \in Nat /\ Tables \in Nat /\ Size \in Nat
  BY Sizes
<1>2. Size = Tables * EntriesPerTable /\ Size + Size = (Tables + Tables) * EntriesPerTable
  BY <1>1 DEF Size
<1>3. FbTable = Tables /\ ApicTable = Tables + Tables
  BY Sizes
<1> QED
  BY <1>1, <1>2, <1>3 DEF Addr

LEMMA InvariantImpliesMap == LoaderInv => MapIsMeant
<1> SUFFICES ASSUME LoaderInv, paging
             PROVE  /\ before = Empty => \A v \in VirtualPages : Translate(v) = Meant(v)
                    /\ Translate(0) = NoPage
                    /\ build = "vesa" =>
                         \A v \in Addr(FbTable, 0) .. Addr(FbTable, Size - 1) :
                           Translate(v) = Meant(v)
  BY Zenon DEF MapIsMeant
<1>1. Size \in Nat /\ Size >= 1
  BY Sizes
<1>2. Translate(0) = NoPage
  <2>1. 0 \in Nat /\ 0 < Size
    BY <1>1
  <2> QED
    BY <2>1, Identity, Zenon
<1>3. ASSUME build = "vesa", NEW v \in Nat, Size <= v, v < Size + Size
      PROVE  Translate(v) = Meant(v)
  <2>1. v \notin 1 .. Size - 1 /\ v \in Size .. Size + Size - 1 /\ FrameBuffer + v - Size = FrameBuffer + (v - Size)
    BY <1>1, <1>3, TablesAssumption
  <2>2. build # "lm64"
    BY <1>3
  <2>3. Meant(v) = Page(FrameBuffer + v - Size)
    BY <1>3, <2>1, <2>2, MeantPages, Zenon DEF Meant
  <2>4. Translate(v) = Page(FrameBuffer + (v - Size))
    BY <1>3, Window, Zenon
  <2> QED
    BY <2>1, <2>3, <2>4, Zenon
<1>4. ASSUME before = Empty, NEW v \in VirtualPages PROVE Translate(v) = Meant(v)
  <2>1. v \in Nat
    BY Sizes DEF VirtualPages, Addr
  <2>2. CASE v = 0
    <3>1. 0 \notin 1 .. Size - 1 /\ 0 # Size + Size /\ 0 \notin Size .. Size + Size - 1
      BY <1>1
    <3> QED
      BY <1>2, <2>2, <3>1, MeantPages, Zenon DEF Meant
  <2>3. CASE v # 0 /\ v < Size
    <3>1. v \in 1 .. Size - 1
      BY <1>1, <2>1, <2>3
    <3> QED
      BY <1>4, <2>1, <2>3, <3>1, Identity, Zenon DEF Meant
  <2>4. CASE Size <= v /\ build = "vesa" /\ v < Size + Size
    BY <1>3, <2>1, <2>4
  <2>5. CASE Size <= v /\ (build = "vesa" => Size + Size <= v)
    <3>1. v \notin 1 .. Size - 1 /\ ~(build = "vesa" /\ v \in Size .. Size + Size - 1)
      BY <1>1, <2>1, <2>5
    <3>2. Meant(v) = IF build = "lm64" /\ v = Size + Size THEN Page(ApicFrame) ELSE NoPage
      BY <3>1, MeantPages, Zenon DEF Meant
    <3> QED
      BY <1>4, <2>5, <3>2, Rest, Zenon
  <2> QED
    BY <1>1, <2>1, <2>2, <2>3, <2>4, <2>5
<1>5. ASSUME build = "vesa", NEW v \in Addr(FbTable, 0) .. Addr(FbTable, Size - 1)
      PROVE  Translate(v) = Meant(v)
  <2>1. v \in Nat /\ Size <= v /\ v < Size + Size
    BY <1>1, MeantPages
  <2> QED
    BY <1>3, <1>5, <2>1
<1> QED
  BY <1>2, <1>4, <1>5

(* Once paging is on, every page of the first gigabyte leads where the     *)
(* memory map says, for tables of any number and size: the program, its    *)
(* stack and the tables are found, and a null pointer is not               *)
(* (_init_page_tables, _init_fb_page_tables).                              *)
THEOREM MapAsMeant == Spec => []MapIsMeant
BY LoaderInvariant, InvariantImpliesMap, PTL

-----------------------------------------------------------------------------
(* The registers by name.                                                  *)
LEMMA Registers64 ==
  Registers(64) = {"rax", "rcx", "rdx", "rbx", "rsp", "rbp", "rsi", "rdi", "rflags",
                   "rip", "r8", "r9", "r10", "r11", "r12", "r13", "r14", "r15",
                   "cr0", "cr2", "cr3", "cr4", "cr8", "es", "cs", "ss", "ds", "fs", "gs"}
BY DEF Registers, Fields, Wide, Segments, ToSet

LEMMA Registers32 ==
  Registers(32) = {"eax", "ecx", "edx", "ebx", "esp", "ebp", "esi", "edi", "eflags",
                   "eip", "cr0", "cr2", "cr3", "cr4", "es", "cs", "ss", "ds", "fs", "gs"}
BY DEF Registers, Fields, Wide, Segments, ToSet

LEMMA Names ==
  /\ Ip(64) = "rip" /\ Sp(64) = "rsp" /\ Fl(64) = "rflags" /\ Bytes(64) = 8
  /\ Ip(32) = "eip" /\ Sp(32) = "esp" /\ Fl(32) = "eflags" /\ Bytes(32) = 4
BY DEF Ip, Sp, Fl, Bytes

LEMMA IndexIs ==
  ASSUME NEW s, NEW k \in DOMAIN s, \A i, j \in DOMAIN s : s[i] = s[j] => i = j
  PROVE  Index(s, s[k]) = k
BY DEF Index

LEMMA SegmentOffsets ==
  \A k \in 1 .. 6 : Offset(64, Segments[k]) = 184 + 2 * (k - 1)
<1>1. \A i, j \in DOMAIN Segments : Segments[i] = Segments[j] => i = j
  BY DEF Segments
<1>2. DOMAIN Segments = 1 .. 6
  BY DEF Segments
<1>3. Len(Wide(64)) = 23 /\ Bytes(64) = 8
  BY DEF Wide, Bytes
<1> TAKE k \in 1 .. 6
<1>4. Index(Segments, Segments[k]) = k
  BY <1>1, <1>2, IndexIs
<1>5. Segments[k] \in ToSet(Segments)
  BY <1>2 DEF ToSet
<1> DEFINE b == Bytes(64)
           m == Len(Wide(64))
           i == Index(Segments, Segments[k])
           o == Offset(64, Segments[k])
<1>6. b = 8 /\ m = 23 /\ i = k /\ o = b * m + 2 * (i - 1)
  BY <1>3, <1>4, <1>5 DEF Offset
<1> HIDE DEF b, m, i, o
<1>7. o = 8 * 23 + 2 * (k - 1)
  BY <1>6, Zenon
<1>8. o = 184 + 2 * (k - 1)
  BY <1>7
<1> QED
  BY <1>8 DEF o

LEMMA WideOffsets ==
  \A k \in 1 .. 23 : Offset(64, Wide(64)[k]) = 8 * (k - 1)
<1>1. \A i, j \in DOMAIN Wide(64) : Wide(64)[i] = Wide(64)[j] => i = j
  BY DEF Wide
<1>2. DOMAIN Wide(64) = 1 .. 23 /\ Bytes(64) = 8
  BY DEF Wide, Bytes
<1> TAKE k \in 1 .. 23
<1>4. Index(Wide(64), Wide(64)[k]) = k
  BY <1>1, <1>2, IndexIs
<1>5. Wide(64)[k] \notin ToSet(Segments)
  BY DEF ToSet, Segments, Wide
<1> QED
  BY <1>2, <1>4, <1>5 DEF Offset

-----------------------------------------------------------------------------
(* A sequence of n instructions, taken apart.                              *)
IsCode(s, n) == n \in Nat /\ s = [i \in 1 .. n |-> s[i]]

Joins(s, a, m, b, n, t) ==
  /\ IsCode(s, t)
  /\ \A i \in 1 .. m : s[i] = a[i]
  /\ \A i \in 1 .. n : s[m + i] = b[i]

LEMMA CodeIsSeq ==
  ASSUME NEW s, NEW n, IsCode(s, n)
  PROVE  s \in Seq({s[i] : i \in 1 .. n}) /\ Len(s) = n /\ DOMAIN s = 1 .. n
<1> DEFINE T == {s[i] : i \in 1 .. n}
<1>1. s \in [1 .. n -> T] /\ n \in Nat
  BY DEF IsCode
<1> HIDE DEF T
<1>2. s \in Seq(T) /\ Len(s) = n /\ DOMAIN s = 1 .. n
  BY <1>1
<1> QED
  BY <1>2 DEF T

LEMMA Concatenated ==
  ASSUME NEW a, NEW b, NEW m, NEW n, NEW t, IsCode(a, m), IsCode(b, n), t = m + n
  PROVE  Joins(a \o b, a, m, b, n, t)
<1> DEFINE T == {a[i] : i \in 1 .. m}
           U == {b[i] : i \in 1 .. n}
           s == a \o b
<1>1. a \in Seq(T) /\ Len(a) = m /\ b \in Seq(U) /\ Len(b) = n /\ m \in Nat /\ n \in Nat
  BY CodeIsSeq DEF IsCode
<1> HIDE DEF T, U
<1>2. a \in Seq(T \cup U) /\ b \in Seq(T \cup U)
  BY <1>1
<1>3. /\ s \in Seq(T \cup U) /\ Len(s) = m + n
      /\ \A i \in 1 .. m : s[i] = a[i]
      /\ \A i \in 1 .. n : s[m + i] = b[i]
  BY <1>1, <1>2
<1> HIDE DEF s
<1>4. IsCode(s, t)
  BY <1>1, <1>3 DEF IsCode
<1> QED
  BY <1>3, <1>4 DEF Joins, s

Alternates(z, s, t, n, m) ==
  /\ IsCode(z, m)
  /\ \A k \in 1 .. n : z[2 * k - 1] = s[k] /\ z[2 * k] = t[k]

LEMMA Alternating ==
  ASSUME NEW s, NEW t, NEW n, NEW m, IsCode(s, n), IsCode(t, n), m = 2 * n
  PROVE  Alternates(Alternately(s, t), s, t, n, m)
<1>1. Len(s) = n /\ n \in Nat
  BY CodeIsSeq DEF IsCode
<1> DEFINE E(i) == IF i % 2 = 1 THEN s[(i + 1) \div 2] ELSE t[i \div 2]
<1>2. Alternately(s, t) = [i \in 1 .. m |-> E(i)]
  BY <1>1 DEF Alternately
<1>3. IsCode(Alternately(s, t), m)
  <2>1. m \in Nat
    BY <1>1
  <2> HIDE DEF E
  <2> QED
    BY <1>2, <2>1 DEF IsCode
<1>4. ASSUME NEW k \in 1 .. n
      PROVE  Alternately(s, t)[2 * k - 1] = s[k] /\ Alternately(s, t)[2 * k] = t[k]
  <2>1. /\ 2 * k - 1 \in 1 .. m /\ (2 * k - 1) % 2 = 1 /\ ((2 * k - 1) + 1) \div 2 = k
        /\ 2 * k \in 1 .. m /\ (2 * k) % 2 = 0 /\ (2 * k) \div 2 = k
    BY <1>1
  <2> QED
    BY <1>2, <2>1
<1> QED
  BY <1>3, <1>4 DEF Alternates

LEMMA MapIsCode ==
  ASSUME NEW s, NEW n, IsCode(s, n), NEW r
  PROVE  /\ IsCode(Pushes(s), n) /\ \A i \in 1 .. n : Pushes(s)[i] = Push(s[i])
         /\ IsCode(Pops(s), n) /\ \A i \in 1 .. n : Pops(s)[i] = Pop(s[i])
         /\ IsCode(Movs(r, s), n) /\ \A i \in 1 .. n : Movs(r, s)[i] = Mov(r, s[i])
<1>1. DOMAIN s = 1 .. n /\ n \in Nat
  BY CodeIsSeq DEF IsCode
<1>2. Pushes(s) = [i \in 1 .. n |-> Push(s[i])]
  BY <1>1 DEF Pushes
<1>3. Pops(s) = [i \in 1 .. n |-> Pop(s[i])]
  BY <1>1 DEF Pops
<1>4. Movs(r, s) = [i \in 1 .. n |-> Mov(r, s[i])]
  BY <1>1 DEF Movs
<1> QED
  BY <1>1, <1>2, <1>3, <1>4 DEF IsCode

LEMMA StoresAreCode ==
  ASSUME NEW s, NEW n, IsCode(s, n), NEW b, NEW base, NEW r
  PROVE  /\ IsCode(Stores(b, base, s, r), n)
         /\ \A i \in 1 .. n : Stores(b, base, s, r)[i] = Store(base, Offset(b, s[i]), r)
<1>1. DOMAIN s = 1 .. n /\ n \in Nat
  BY CodeIsSeq DEF IsCode
<1> DEFINE E(i) == Store(base, Offset(b, s[i]), r)
<1>2. Stores(b, base, s, r) = [i \in 1 .. n |-> E(i)]
  BY <1>1 DEF Stores
<1> HIDE DEF E
<1>3. IsCode(Stores(b, base, s, r), n)
  BY <1>1, <1>2 DEF IsCode
<1>4. \A i \in 1 .. n : Stores(b, base, s, r)[i] = E(i)
  BY <1>2
<1> QED
  BY <1>3, <1>4 DEF E

LEMMA Backwards ==
  ASSUME NEW s, NEW n, IsCode(s, n)
  PROVE  IsCode(Reverse(s), n) /\ \A i \in 1 .. n : Reverse(s)[i] = s[n + 1 - i]
<1>1. Len(s) = n /\ n \in Nat
  BY CodeIsSeq DEF IsCode
<1>2. Reverse(s) = [i \in 1 .. n |-> s[n + 1 - i]]
  <2>1. Reverse(s) = [i \in 1 .. n |-> s[(n - i) + 1]]
    BY <1>1, Zenon DEF Reverse
  <2>2. \A i \in 1 .. n : (n - i) + 1 = n + 1 - i
    BY <1>1
  <2> QED
    BY <2>1, <2>2
<1> QED
  BY <1>1, <1>2 DEF IsCode

-----------------------------------------------------------------------------
(* pushall.                                                                *)
PushAllIs(s, padding) ==
  /\ IsCode(s, 42)
  /\ s[1] = Push("rax") /\ s[2] = Sub("rsp", 12 + padding)
  /\ \A k \in 1 .. 6 : s[2 * k + 1] = Mov("rax", Segments[7 - k]) /\ s[2 * k + 2] = Push2("rax")
  /\ \A k \in 1 .. 5 : s[2 * k + 13] = Mov("rax", Controls64[k]) /\ s[2 * k + 14] = Push("rax")
  /\ \A k \in 1 .. 8 : s[k + 24] = Push(Wide(64)[19 - k])
  /\ s[33] = Sub("rsp", 16)
  /\ \A k \in 1 .. 7 : s[k + 33] = Push(Wide(64)[9 - k])
  /\ s[41] = Load("rax", "rsp", 200) /\ s[42] = Push("rax")

High64 == <<"r15", "r14", "r13", "r12", "r11", "r10", "r9", "r8">>
Low64  == <<"rdi", "rsi", "rbp", "rsp", "rbx", "rdx", "rcx">>

LEMMA PushAllCode ==
  ASSUME NEW padding
  PROVE  PushAllIs(PushAll(padding), padding)
<1> DEFINE b1 == <<Push("rax"), Sub("rsp", 12 + padding)>>
           b2 == Alternately(Movs("rax", Reverse(Segments)), [i \in DOMAIN Segments |-> Push2("rax")])
           b3 == Alternately(Movs("rax", Controls64), [i \in DOMAIN Controls64 |-> Push("rax")])
           b4 == Pushes(High64)
           b5 == <<Sub("rsp", 16)>>
           b6 == Pushes(Low64)
           b7 == <<Load("rax", "rsp", 200), Push("rax")>>
           c2 == b1 \o b2
           c3 == c2 \o b3
           c4 == c3 \o b4
           c5 == c4 \o b5
           c6 == c5 \o b6
           c7 == c6 \o b7
<1>1. IsCode(b1, 2) /\ b1[1] = Push("rax") /\ b1[2] = Sub("rsp", 12 + padding)
  BY DEF IsCode
<1>2. IsCode(b2, 12) /\ \A k \in 1 .. 6 : b2[2 * k - 1] = Mov("rax", Segments[7 - k]) /\ b2[2 * k] = Push2("rax")
  <2> DEFINE m == Movs("rax", Reverse(Segments))
             q == [i \in DOMAIN Segments |-> Push2("rax")]
  <2>1. IsCode(Segments, 6) /\ DOMAIN Segments = 1 .. 6
    BY DEF IsCode, Segments
  <2>2. IsCode(Reverse(Segments), 6) /\ \A i \in 1 .. 6 : Reverse(Segments)[i] = Segments[6 + 1 - i]
    BY <2>1, Backwards
  <2>3. IsCode(m, 6) /\ \A i \in 1 .. 6 : m[i] = Mov("rax", Reverse(Segments)[i])
    BY <2>2, MapIsCode
  <2>4. IsCode(q, 6) /\ \A i \in 1 .. 6 : q[i] = Push2("rax")
    BY <2>1 DEF IsCode
  <2> HIDE DEF m, q
  <2>5. Alternates(Alternately(m, q), m, q, 6, 12)
    BY <2>3, <2>4, Alternating
  <2>6. \A k \in 1 .. 6 : m[k] = Mov("rax", Segments[7 - k])
    BY <2>2, <2>3
  <2>7. b2 = Alternately(m, q)
    BY DEF m, q
  <2> HIDE DEF b2
  <2> QED
    BY <2>4, <2>5, <2>6, <2>7 DEF Alternates
<1>3. IsCode(b3, 10) /\ \A k \in 1 .. 5 : b3[2 * k - 1] = Mov("rax", Controls64[k]) /\ b3[2 * k] = Push("rax")
  <2> DEFINE m == Movs("rax", Controls64)
             q == [i \in DOMAIN Controls64 |-> Push("rax")]
  <2>1. IsCode(Controls64, 5) /\ DOMAIN Controls64 = 1 .. 5
    BY DEF IsCode, Controls64
  <2>3. IsCode(m, 5) /\ \A i \in 1 .. 5 : m[i] = Mov("rax", Controls64[i])
    BY <2>1, MapIsCode
  <2>4. IsCode(q, 5) /\ \A i \in 1 .. 5 : q[i] = Push("rax")
    BY <2>1 DEF IsCode
  <2> HIDE DEF m, q
  <2>5. Alternates(Alternately(m, q), m, q, 5, 10)
    BY <2>3, <2>4, Alternating
  <2>7. b3 = Alternately(m, q)
    BY DEF m, q
  <2> HIDE DEF b3
  <2> QED
    BY <2>3, <2>4, <2>5, <2>7 DEF Alternates
<1>4. IsCode(b4, 8) /\ \A k \in 1 .. 8 : b4[k] = Push(Wide(64)[19 - k])
  <2>1. IsCode(High64, 8)
    BY DEF IsCode, High64
  <2>2. \A k \in 1 .. 8 : High64[k] = Wide(64)[19 - k]
    BY DEF High64, Wide
  <2> QED
    BY <2>1, <2>2, MapIsCode
<1>5. IsCode(b5, 1) /\ b5[1] = Sub("rsp", 16)
  BY DEF IsCode
<1>6. IsCode(b6, 7) /\ \A k \in 1 .. 7 : b6[k] = Push(Wide(64)[9 - k])
  <2>1. IsCode(Low64, 7)
    BY DEF IsCode, Low64
  <2>2. \A k \in 1 .. 7 : Low64[k] = Wide(64)[9 - k]
    BY DEF Low64, Wide
  <2> QED
    BY <2>1, <2>2, MapIsCode
<1>7. IsCode(b7, 2) /\ b7[1] = Load("rax", "rsp", 200) /\ b7[2] = Push("rax")
  BY DEF IsCode
<1>8. PushAll(padding) = c7
  BY Zenon DEF PushAll, High64, Low64
<1> HIDE DEF b1, b2, b3, b4, b5, b6, b7
<1>9. Joins(c2, b1, 2, b2, 12, 14)
  <2>1. IsCode(b1, 2) /\ IsCode(b2, 12) /\ 14 = 2 + 12
    BY <1>1, <1>2
  <2> QED
    BY <2>1, Concatenated
<1>10. IsCode(c2, 14) /\ (\A i \in 1 .. 2 : c2[i] = b1[i]) /\ \A i \in 1 .. 12 : c2[2 + i] = b2[i]
  BY <1>9 DEF Joins
<1> HIDE DEF c2
<1>11. Joins(c3, c2, 14, b3, 10, 24)
  <2>1. IsCode(c2, 14) /\ IsCode(b3, 10) /\ 24 = 14 + 10
    BY <1>3, <1>10
  <2> QED
    BY <2>1, Concatenated
<1>12. IsCode(c3, 24) /\ (\A i \in 1 .. 14 : c3[i] = c2[i]) /\ \A i \in 1 .. 10 : c3[14 + i] = b3[i]
  BY <1>11 DEF Joins
<1> HIDE DEF c3
<1>13. Joins(c4, c3, 24, b4, 8, 32)
  <2>1. IsCode(c3, 24) /\ IsCode(b4, 8) /\ 32 = 24 + 8
    BY <1>4, <1>12
  <2> QED
    BY <2>1, Concatenated
<1>14. IsCode(c4, 32) /\ (\A i \in 1 .. 24 : c4[i] = c3[i]) /\ \A i \in 1 .. 8 : c4[24 + i] = b4[i]
  BY <1>13 DEF Joins
<1> HIDE DEF c4
<1>15. Joins(c5, c4, 32, b5, 1, 33)
  <2>1. IsCode(c4, 32) /\ IsCode(b5, 1) /\ 33 = 32 + 1
    BY <1>5, <1>14
  <2> QED
    BY <2>1, Concatenated
<1>16. IsCode(c5, 33) /\ (\A i \in 1 .. 32 : c5[i] = c4[i]) /\ c5[33] = b5[1]
  <2>1. IsCode(c5, 33) /\ (\A i \in 1 .. 32 : c5[i] = c4[i]) /\ \A i \in 1 .. 1 : c5[32 + i] = b5[i]
    BY <1>15 DEF Joins
  <2>2. 1 \in 1 .. 1 /\ 32 + 1 = 33
    OBVIOUS
  <2> QED
    BY <2>1, <2>2
<1> HIDE DEF c5
<1>17. Joins(c6, c5, 33, b6, 7, 40)
  <2>1. IsCode(c5, 33) /\ IsCode(b6, 7) /\ 40 = 33 + 7
    BY <1>6, <1>16
  <2> QED
    BY <2>1, Concatenated
<1>18. IsCode(c6, 40) /\ (\A i \in 1 .. 33 : c6[i] = c5[i]) /\ \A i \in 1 .. 7 : c6[33 + i] = b6[i]
  BY <1>17 DEF Joins
<1> HIDE DEF c6
<1>19. Joins(c7, c6, 40, b7, 2, 42)
  <2>1. IsCode(c6, 40) /\ IsCode(b7, 2) /\ 42 = 40 + 2
    BY <1>7, <1>18
  <2> QED
    BY <2>1, Concatenated
<1>20. IsCode(c7, 42) /\ (\A i \in 1 .. 40 : c7[i] = c6[i]) /\ c7[41] = b7[1] /\ c7[42] = b7[2]
  <2>1. IsCode(c7, 42) /\ (\A i \in 1 .. 40 : c7[i] = c6[i]) /\ \A i \in 1 .. 2 : c7[40 + i] = b7[i]
    BY <1>19 DEF Joins
  <2>2. 1 \in 1 .. 2 /\ 2 \in 1 .. 2 /\ 40 + 1 = 41 /\ 40 + 2 = 42
    OBVIOUS
  <2>3. c7[40 + 1] = b7[1] /\ c7[40 + 2] = b7[2]
    BY <2>1, <2>2, Zenon
  <2> QED
    BY <2>1, <2>2, <2>3, Zenon
<1> HIDE DEF c7
<1>21. c7[1] = Push("rax") /\ c7[2] = Sub("rsp", 12 + padding)
  BY <1>1, <1>10, <1>12, <1>14, <1>16, <1>18, <1>20
<1>22. \A k \in 1 .. 6 : c7[2 * k + 1] = Mov("rax", Segments[7 - k]) /\ c7[2 * k + 2] = Push2("rax")
  <2> TAKE k \in 1 .. 6
  <2>1. 2 * k - 1 \in 1 .. 12 /\ 2 * k \in 1 .. 12 /\ 2 + (2 * k - 1) = 2 * k + 1 /\ 2 + 2 * k = 2 * k + 2
    OBVIOUS
  <2>2. c2[2 * k + 1] = b2[2 * k - 1] /\ c2[2 * k + 2] = b2[2 * k]
    BY <1>10, <2>1
  <2>3. c7[2 * k + 1] = c2[2 * k + 1] /\ c7[2 * k + 2] = c2[2 * k + 2]
    BY <1>12, <1>14, <1>16, <1>18, <1>20
  <2> QED
    BY <1>2, <2>2, <2>3
<1>23. \A k \in 1 .. 5 : c7[2 * k + 13] = Mov("rax", Controls64[k]) /\ c7[2 * k + 14] = Push("rax")
  <2> TAKE k \in 1 .. 5
  <2>1. 2 * k - 1 \in 1 .. 10 /\ 2 * k \in 1 .. 10 /\ 14 + (2 * k - 1) = 2 * k + 13 /\ 14 + 2 * k = 2 * k + 14
    OBVIOUS
  <2>2. c3[2 * k + 13] = b3[2 * k - 1] /\ c3[2 * k + 14] = b3[2 * k]
    BY <1>12, <2>1
  <2>3. c7[2 * k + 13] = c3[2 * k + 13] /\ c7[2 * k + 14] = c3[2 * k + 14]
    BY <1>14, <1>16, <1>18, <1>20
  <2> QED
    BY <1>3, <2>2, <2>3
<1>24. \A k \in 1 .. 8 : c7[k + 24] = Push(Wide(64)[19 - k])
  <2> TAKE k \in 1 .. 8
  <2>1. c4[24 + k] = b4[k] /\ k + 24 = 24 + k /\ c7[24 + k] = c4[24 + k]
    BY <1>14, <1>16, <1>18, <1>20
  <2> QED
    BY <1>4, <2>1
<1>25. c7[33] = Sub("rsp", 16)
  BY <1>5, <1>16, <1>18, <1>20
<1>26. \A k \in 1 .. 7 : c7[k + 33] = Push(Wide(64)[9 - k])
  <2> TAKE k \in 1 .. 7
  <2>1. c6[33 + k] = b6[k] /\ k + 33 = 33 + k /\ c7[33 + k] = c6[33 + k]
    BY <1>18, <1>20
  <2> QED
    BY <1>6, <2>1
<1>27. PushAllIs(c7, padding)
  BY <1>7, <1>20, <1>21, <1>22, <1>23, <1>24, <1>25, <1>26 DEF PushAllIs
<1> QED
  BY <1>8, <1>27

-----------------------------------------------------------------------------
(* trap and traperr.                                                       *)
SaveFrameIs(s, area, base, n) ==
  /\ IsCode(s, 10)
  /\ \A k \in 1 .. 5 :
       s[2 * k - 1] = Load("rax", base, n + 8 * (k - 1)) /\ s[2 * k] = Store(area, Offset(64, Frame64[k]), "rax")

LEMMA SaveFrameCode ==
  ASSUME NEW area, NEW base, NEW n
  PROVE  SaveFrameIs(SaveFrame64(area, base, n), area, base, n)
<1> DEFINE p == [i \in DOMAIN Frame64 |-> Load("rax", base, n + 8 * (i - 1))]
           q == Stores(64, area, Frame64, "rax")
<1>1. IsCode(Frame64, 5) /\ DOMAIN Frame64 = 1 .. 5
  BY DEF IsCode, Frame64
<1>2. IsCode(p, 5) /\ \A k \in 1 .. 5 : p[k] = Load("rax", base, n + 8 * (k - 1))
  BY <1>1 DEF IsCode
<1>3. IsCode(q, 5) /\ \A k \in 1 .. 5 : q[k] = Store(area, Offset(64, Frame64[k]), "rax")
  BY <1>1, StoresAreCode
<1>4. SaveFrame64(area, base, n) = Alternately(p, q)
  BY Zenon DEF SaveFrame64
<1> HIDE DEF p, q
<1>5. Alternates(Alternately(p, q), p, q, 5, 10)
  BY <1>2, <1>3, Alternating
<1> QED
  BY <1>2, <1>3, <1>4, <1>5 DEF Alternates, SaveFrameIs

StubIs(s, padding, n) ==
  /\ s[1] = Cli /\ s[2] = Push("rbp") /\ s[3] = Mov("rbp", "rsp")
  /\ s[4] = Push("rax") /\ s[5] = Sub("rsp", 12 + padding)
  /\ \A k \in 1 .. 6 : s[2 * k + 4] = Mov("rax", Segments[7 - k]) /\ s[2 * k + 5] = Push2("rax")
  /\ \A k \in 1 .. 5 : s[2 * k + 16] = Mov("rax", Controls64[k]) /\ s[2 * k + 17] = Push("rax")
  /\ \A k \in 1 .. 8 : s[k + 27] = Push(Wide(64)[19 - k])
  /\ s[36] = Sub("rsp", 16)
  /\ \A k \in 1 .. 7 : s[k + 36] = Push(Wide(64)[9 - k])
  /\ s[44] = Load("rax", "rsp", 200) /\ s[45] = Push("rax")
  /\ \A k \in 1 .. 5 :
       /\ s[2 * k + 44] = Load("rax", "rbp", n + 8 * (k - 1))
       /\ s[2 * k + 45] = Store("rsp", Offset(64, Frame64[k]), "rax")

Ends(s, tail, l, m) == IsCode(s, m) /\ \A i \in 1 .. l : s[55 + i] = tail[i]

Stub(padding, n, tail) ==
  <<Cli, Push("rbp"), Mov("rbp", "rsp")>> \o PushAll(padding)
    \o SaveFrame64("rsp", "rbp", n) \o tail

LEMMA StubCode ==
  ASSUME NEW padding, NEW n, NEW tail, NEW l, NEW m, IsCode(tail, l), m = 55 + l,
         NEW s, s = Stub(padding, n, tail)
  PROVE  StubIs(s, padding, n) /\ Ends(s, tail, l, m)
<1> DEFINE a == <<Cli, Push("rbp"), Mov("rbp", "rsp")>>
           b == PushAll(padding)
           d == SaveFrame64("rsp", "rbp", n)
           ab == a \o b
           abd == ab \o d
<1>1. IsCode(a, 3) /\ a[1] = Cli /\ a[2] = Push("rbp") /\ a[3] = Mov("rbp", "rsp")
  BY DEF IsCode
<1>2. PushAllIs(b, padding)
  BY PushAllCode
<1>3. SaveFrameIs(d, "rsp", "rbp", n)
  BY SaveFrameCode
<1>0. s = abd \o tail
  BY Zenon DEF Stub
<1>4. IsCode(b, 42) /\ IsCode(d, 10)
  BY <1>2, <1>3, Zenon DEF PushAllIs, SaveFrameIs
<1> HIDE DEF a, b, d
<1>5. Joins(ab, a, 3, b, 42, 45)
  <2>1. IsCode(a, 3) /\ IsCode(b, 42) /\ 45 = 3 + 42
    BY <1>1, <1>4
  <2> QED
    BY <2>1, Concatenated
<1>6. IsCode(ab, 45) /\ (\A i \in 1 .. 3 : ab[i] = a[i]) /\ \A i \in 1 .. 42 : ab[3 + i] = b[i]
  BY <1>5 DEF Joins
<1> HIDE DEF ab
<1>7. Joins(abd, ab, 45, d, 10, 55)
  <2>1. IsCode(ab, 45) /\ IsCode(d, 10) /\ 55 = 45 + 10
    BY <1>4, <1>6
  <2> HIDE DEF abd
  <2>2. Joins(ab \o d, ab, 45, d, 10, 55)
    <3>1. IsCode(ab, 45) /\ IsCode(d, 10) /\ 55 = 45 + 10
      BY <2>1
    <3> QED
      BY <3>1, Concatenated
  <2> QED
    BY <2>2 DEF abd
<1>8. IsCode(abd, 55) /\ (\A i \in 1 .. 45 : abd[i] = ab[i]) /\ \A i \in 1 .. 10 : abd[45 + i] = d[i]
  BY <1>7 DEF Joins
<1> HIDE DEF abd
<1>9. Joins(s, abd, 55, tail, l, m)
  <2>1. IsCode(abd, 55) /\ IsCode(tail, l) /\ m = 55 + l
    BY <1>0, <1>8
  <2> QED
    BY <1>0, <2>1, Concatenated
<1>10. IsCode(s, m) /\ (\A i \in 1 .. 55 : s[i] = abd[i]) /\ \A i \in 1 .. l : s[55 + i] = tail[i]
  BY <1>9 DEF Joins
<1>11. s[1] = Cli /\ s[2] = Push("rbp") /\ s[3] = Mov("rbp", "rsp")
  <2>1. \A i \in 1 .. 3 : s[i] = a[i]
    BY <1>6, <1>8, <1>10
  <2> QED
    BY <1>1, <2>1
<1>12. \A i \in 1 .. 42 : s[i + 3] = b[i]
  <2> TAKE i \in 1 .. 42
  <2>1. i + 3 \in 1 .. 45 /\ i + 3 \in 1 .. 55 /\ 3 + i = i + 3
    OBVIOUS
  <2>2. ab[3 + i] = b[i]
    BY <1>6
  <2> QED
    BY <1>8, <1>10, <2>1, <2>2
<1>13. \A i \in 1 .. 10 : s[i + 45] = d[i]
  <2> TAKE i \in 1 .. 10
  <2>1. i + 45 \in 1 .. 55 /\ 45 + i = i + 45
    OBVIOUS
  <2>2. abd[45 + i] = d[i]
    BY <1>8
  <2> QED
    BY <1>10, <2>1, <2>2
<1>14. /\ s[4] = Push("rax") /\ s[5] = Sub("rsp", 12 + padding) /\ s[36] = Sub("rsp", 16)
       /\ s[44] = Load("rax", "rsp", 200) /\ s[45] = Push("rax")
  <2>1. /\ 1 \in 1 .. 42 /\ 2 \in 1 .. 42 /\ 33 \in 1 .. 42 /\ 41 \in 1 .. 42 /\ 42 \in 1 .. 42
        /\ 1 + 3 = 4 /\ 2 + 3 = 5 /\ 33 + 3 = 36 /\ 41 + 3 = 44 /\ 42 + 3 = 45
    OBVIOUS
  <2>2. s[1 + 3] = b[1] /\ s[2 + 3] = b[2] /\ s[33 + 3] = b[33] /\ s[41 + 3] = b[41] /\ s[42 + 3] = b[42]
    BY <1>12, <2>1, Zenon
  <2>3. s[4] = b[1] /\ s[5] = b[2] /\ s[36] = b[33] /\ s[44] = b[41] /\ s[45] = b[42]
    BY <2>1, <2>2, Zenon
  <2> QED
    BY <1>2, <2>3, Zenon DEF PushAllIs
<1>15. \A k \in 1 .. 6 : s[2 * k + 4] = Mov("rax", Segments[7 - k]) /\ s[2 * k + 5] = Push2("rax")
  <2> TAKE k \in 1 .. 6
  <2>1. /\ 2 * k + 1 \in 1 .. 42 /\ 2 * k + 2 \in 1 .. 42
        /\ (2 * k + 1) + 3 = 2 * k + 4 /\ (2 * k + 2) + 3 = 2 * k + 5
    OBVIOUS
  <2>2. s[2 * k + 4] = b[2 * k + 1] /\ s[2 * k + 5] = b[2 * k + 2]
    BY <1>12, <2>1
  <2> QED
    BY <1>2, <2>2, Zenon DEF PushAllIs
<1>16. \A k \in 1 .. 5 : s[2 * k + 16] = Mov("rax", Controls64[k]) /\ s[2 * k + 17] = Push("rax")
  <2> TAKE k \in 1 .. 5
  <2>1. /\ 2 * k + 13 \in 1 .. 42 /\ 2 * k + 14 \in 1 .. 42
        /\ (2 * k + 13) + 3 = 2 * k + 16 /\ (2 * k + 14) + 3 = 2 * k + 17
    OBVIOUS
  <2>2. s[2 * k + 16] = b[2 * k + 13] /\ s[2 * k + 17] = b[2 * k + 14]
    BY <1>12, <2>1
  <2> QED
    BY <1>2, <2>2, Zenon DEF PushAllIs
<1>17. \A k \in 1 .. 8 : s[k + 27] = Push(Wide(64)[19 - k])
  <2> TAKE k \in 1 .. 8
  <2>1. k + 24 \in 1 .. 42 /\ (k + 24) + 3 = k + 27
    OBVIOUS
  <2>2. s[k + 27] = b[k + 24]
    BY <1>12, <2>1
  <2> QED
    BY <1>2, <2>2, Zenon DEF PushAllIs
<1>18. \A k \in 1 .. 7 : s[k + 36] = Push(Wide(64)[9 - k])
  <2> TAKE k \in 1 .. 7
  <2>1. k + 33 \in 1 .. 42 /\ (k + 33) + 3 = k + 36
    OBVIOUS
  <2>2. s[k + 36] = b[k + 33]
    BY <1>12, <2>1
  <2> QED
    BY <1>2, <2>2, Zenon DEF PushAllIs
<1>19. \A k \in 1 .. 5 :
         /\ s[2 * k + 44] = Load("rax", "rbp", n + 8 * (k - 1))
         /\ s[2 * k + 45] = Store("rsp", Offset(64, Frame64[k]), "rax")
  <2> TAKE k \in 1 .. 5
  <2>1. /\ 2 * k - 1 \in 1 .. 10 /\ 2 * k \in 1 .. 10
        /\ (2 * k - 1) + 45 = 2 * k + 44 /\ (2 * k) + 45 = 2 * k + 45
    OBVIOUS
  <2>2. s[2 * k + 44] = d[2 * k - 1] /\ s[2 * k + 45] = d[2 * k]
    BY <1>13, <2>1
  <2> QED
    BY <1>3, <2>2, Zenon DEF SaveFrameIs
<1>20. StubIs(s, padding, n)
  BY <1>11, <1>14, <1>15, <1>16, <1>17, <1>18, <1>19, Zenon DEF StubIs
<1> QED
  BY <1>10, <1>20 DEF Ends

TrapTail(vector) ==
  <<Mov("rdi", "rsp"), Set("rsi", Number(vector)), Set("rdx", Number(0)),
    Call("CPUExceptionHandler")>>

TrapErrTail(vector) ==
  <<Load("rax", "rbp", 0), Store("rsp", Offset(64, "rbp"), "rax"),
    Mov("rdi", "rsp"), Set("rsi", Number(vector)), Load("rdx", "rbp", 8),
    Call("CPUExceptionHandler")>>

LEMMA TrapText ==
  ASSUME NEW v \in Vectors64 \ IRQs
  PROVE  /\ Gates64[v] \in Labels
         /\ Text[Gates64[v]] = IF v \in ErrorVectors THEN TrapErr(v) ELSE Trap(v)
<1>1. v \in {0, 1, 2, 3, 4, 5, 6, 8, 10, 11, 12, 13, 14, 16, 17, 18, 19}
  BY DEF Vectors64, IRQs
<1>2. CASE v = 0
  <2>1. Gates64[0] = "DivbyzeroHandler"
    BY DEF Gates64, Vectors64
  <2>2. "DivbyzeroHandler" \in Labels
    BY DEF Labels
  <2>3. Text["DivbyzeroHandler"] = Trap(0)
    BY <2>2 DEF Text
  <2>4. 0 \notin ErrorVectors
    BY DEF ErrorVectors
  <2> QED
    BY <1>2, <2>1, <2>2, <2>3, <2>4, Zenon
<1>3. CASE v = 1
  <2>1. Gates64[1] = "DebugHandler"
    BY DEF Gates64, Vectors64
  <2>2. "DebugHandler" \in Labels
    BY DEF Labels
  <2>3. Text["DebugHandler"] = Trap(1)
    BY <2>2 DEF Text
  <2>4. 1 \notin ErrorVectors
    BY DEF ErrorVectors
  <2> QED
    BY <1>3, <2>1, <2>2, <2>3, <2>4, Zenon
<1>4. CASE v = 2
  <2>1. Gates64[2] = "NMIHandler"
    BY DEF Gates64, Vectors64
  <2>2. "NMIHandler" \in Labels
    BY DEF Labels
  <2>3. Text["NMIHandler"] = Trap(2)
    BY <2>2 DEF Text
  <2>4. 2 \notin ErrorVectors
    BY DEF ErrorVectors
  <2> QED
    BY <1>4, <2>1, <2>2, <2>3, <2>4, Zenon
<1>5. CASE v = 3
  <2>1. Gates64[3] = "BreakpointHandler"
    BY DEF Gates64, Vectors64
  <2>2. "BreakpointHandler" \in Labels
    BY DEF Labels
  <2>3. Text["BreakpointHandler"] = Trap(3)
    BY <2>2 DEF Text
  <2>4. 3 \notin ErrorVectors
    BY DEF ErrorVectors
  <2> QED
    BY <1>5, <2>1, <2>2, <2>3, <2>4, Zenon
<1>6. CASE v = 4
  <2>1. Gates64[4] = "OverflowHandler"
    BY DEF Gates64, Vectors64
  <2>2. "OverflowHandler" \in Labels
    BY DEF Labels
  <2>3. Text["OverflowHandler"] = Trap(4)
    BY <2>2 DEF Text
  <2>4. 4 \notin ErrorVectors
    BY DEF ErrorVectors
  <2> QED
    BY <1>6, <2>1, <2>2, <2>3, <2>4, Zenon
<1>7. CASE v = 5
  <2>1. Gates64[5] = "BoundRangeHandler"
    BY DEF Gates64, Vectors64
  <2>2. "BoundRangeHandler" \in Labels
    BY DEF Labels
  <2>3. Text["BoundRangeHandler"] = Trap(5)
    BY <2>2 DEF Text
  <2>4. 5 \notin ErrorVectors
    BY DEF ErrorVectors
  <2> QED
    BY <1>7, <2>1, <2>2, <2>3, <2>4, Zenon
<1>8. CASE v = 6
  <2>1. Gates64[6] = "InvalidOpcodeHandler"
    BY DEF Gates64, Vectors64
  <2>2. "InvalidOpcodeHandler" \in Labels
    BY DEF Labels
  <2>3. Text["InvalidOpcodeHandler"] = Trap(6)
    BY <2>2 DEF Text
  <2>4. 6 \notin ErrorVectors
    BY DEF ErrorVectors
  <2> QED
    BY <1>8, <2>1, <2>2, <2>3, <2>4, Zenon
<1>9. CASE v = 8
  <2>1. Gates64[8] = "DoubleFaultHandler"
    BY DEF Gates64, Vectors64
  <2>2. "DoubleFaultHandler" \in Labels
    BY DEF Labels
  <2>3. Text["DoubleFaultHandler"] = TrapErr(8)
    BY <2>2 DEF Text
  <2>4. 8 \in ErrorVectors
    BY DEF ErrorVectors
  <2> QED
    BY <1>9, <2>1, <2>2, <2>3, <2>4, Zenon
<1>10. CASE v = 10
  <2>1. Gates64[10] = "InvalidTSSHandler"
    BY DEF Gates64, Vectors64
  <2>2. "InvalidTSSHandler" \in Labels
    BY DEF Labels
  <2>3. Text["InvalidTSSHandler"] = TrapErr(10)
    BY <2>2 DEF Text
  <2>4. 10 \in ErrorVectors
    BY DEF ErrorVectors
  <2> QED
    BY <1>10, <2>1, <2>2, <2>3, <2>4, Zenon
<1>11. CASE v = 11
  <2>1. Gates64[11] = "SegNotPresentHandler"
    BY DEF Gates64, Vectors64
  <2>2. "SegNotPresentHandler" \in Labels
    BY DEF Labels
  <2>3. Text["SegNotPresentHandler"] = TrapErr(11)
    BY <2>2 DEF Text
  <2>4. 11 \in ErrorVectors
    BY DEF ErrorVectors
  <2> QED
    BY <1>11, <2>1, <2>2, <2>3, <2>4, Zenon
<1>12. CASE v = 12
  <2>1. Gates64[12] = "StackSegFaultHandler"
    BY DEF Gates64, Vectors64
  <2>2. "StackSegFaultHandler" \in Labels
    BY DEF Labels
  <2>3. Text["StackSegFaultHandler"] = TrapErr(12)
    BY <2>2 DEF Text
  <2>4. 12 \in ErrorVectors
    BY DEF ErrorVectors
  <2> QED
    BY <1>12, <2>1, <2>2, <2>3, <2>4, Zenon
<1>13. CASE v = 13
  <2>1. Gates64[13] = "GPFaultHandler"
    BY DEF Gates64, Vectors64
  <2>2. "GPFaultHandler" \in Labels
    BY DEF Labels
  <2>3. Text["GPFaultHandler"] = TrapErr(13)
    BY <2>2 DEF Text
  <2>4. 13 \in ErrorVectors
    BY DEF ErrorVectors
  <2> QED
    BY <1>13, <2>1, <2>2, <2>3, <2>4, Zenon
<1>14. CASE v = 14
  <2>1. Gates64[14] = "PageFaultHandler"
    BY DEF Gates64, Vectors64
  <2>2. "PageFaultHandler" \in Labels
    BY DEF Labels
  <2>3. Text["PageFaultHandler"] = TrapErr(14)
    BY <2>2 DEF Text
  <2>4. 14 \in ErrorVectors
    BY DEF ErrorVectors
  <2> QED
    BY <1>14, <2>1, <2>2, <2>3, <2>4, Zenon
<1>15. CASE v = 16
  <2>1. Gates64[16] = "x87FPExceptHandler"
    BY DEF Gates64, Vectors64
  <2>2. "x87FPExceptHandler" \in Labels
    BY DEF Labels
  <2>3. Text["x87FPExceptHandler"] = Trap(16)
    BY <2>2 DEF Text
  <2>4. 16 \notin ErrorVectors
    BY DEF ErrorVectors
  <2> QED
    BY <1>15, <2>1, <2>2, <2>3, <2>4, Zenon
<1>16. CASE v = 17
  <2>1. Gates64[17] = "AlignCheckHandler"
    BY DEF Gates64, Vectors64
  <2>2. "AlignCheckHandler" \in Labels
    BY DEF Labels
  <2>3. Text["AlignCheckHandler"] = TrapErr(17)
    BY <2>2 DEF Text
  <2>4. 17 \in ErrorVectors
    BY DEF ErrorVectors
  <2> QED
    BY <1>16, <2>1, <2>2, <2>3, <2>4, Zenon
<1>17. CASE v = 18
  <2>1. Gates64[18] = "MachineCheckHandler"
    BY DEF Gates64, Vectors64
  <2>2. "MachineCheckHandler" \in Labels
    BY DEF Labels
  <2>3. Text["MachineCheckHandler"] = Trap(18)
    BY <2>2 DEF Text
  <2>4. 18 \notin ErrorVectors
    BY DEF ErrorVectors
  <2> QED
    BY <1>17, <2>1, <2>2, <2>3, <2>4, Zenon
<1>18. CASE v = 19
  <2>1. Gates64[19] = "SIMDFPExceptHandler"
    BY DEF Gates64, Vectors64
  <2>2. "SIMDFPExceptHandler" \in Labels
    BY DEF Labels
  <2>3. Text["SIMDFPExceptHandler"] = Trap(19)
    BY <2>2 DEF Text
  <2>4. 19 \notin ErrorVectors
    BY DEF ErrorVectors
  <2> QED
    BY <1>18, <2>1, <2>2, <2>3, <2>4, Zenon
<1> QED
  BY <1>1, <1>2, <1>3, <1>4, <1>5, <1>6, <1>7, <1>8, <1>9, <1>10, <1>11, <1>12, <1>13, <1>14, <1>15, <1>16, <1>17, <1>18, Zenon

Plain(v) ==
  LET s == Text[Gates64[v]] IN
  /\ StubIs(s, 8, 8)
  /\ s[56] = Mov("rdi", "rsp") /\ s[57] = Set("rsi", Number(v))
  /\ s[58] = Set("rdx", Number(0)) /\ s[59] = Call("CPUExceptionHandler")

WithError(v) ==
  LET s == Text[Gates64[v]] IN
  /\ StubIs(s, 0, 16)
  /\ s[56] = Load("rax", "rbp", 0) /\ s[57] = Store("rsp", Offset(64, "rbp"), "rax")
  /\ s[58] = Mov("rdi", "rsp") /\ s[59] = Set("rsi", Number(v))
  /\ s[60] = Load("rdx", "rbp", 8) /\ s[61] = Call("CPUExceptionHandler")

LEMMA TrapCode ==
  ASSUME NEW v \in Vectors64 \ IRQs
  PROVE  IF v \in ErrorVectors THEN WithError(v) ELSE Plain(v)
<1> DEFINE s == Text[Gates64[v]]
<1>1. CASE v \in ErrorVectors
  <2> DEFINE t == TrapErrTail(v)
  <2>1. s = TrapErr(v)
    BY <1>1, TrapText
  <2>2. s = Stub(0, 16, t)
    BY <2>1, Zenon DEF TrapErr, Stub, TrapErrTail
  <2>3. /\ IsCode(t, 6)
        /\ t[1] = Load("rax", "rbp", 0) /\ t[2] = Store("rsp", Offset(64, "rbp"), "rax")
        /\ t[3] = Mov("rdi", "rsp") /\ t[4] = Set("rsi", Number(v))
        /\ t[5] = Load("rdx", "rbp", 8) /\ t[6] = Call("CPUExceptionHandler")
    BY DEF IsCode, TrapErrTail
  <2> HIDE DEF s, t
  <2>4. StubIs(s, 0, 16) /\ Ends(s, t, 6, 61)
    BY <2>2, <2>3, StubCode
  <2>5. \A i \in 1 .. 6 : s[55 + i] = t[i]
    BY <2>4 DEF Ends
  <2>6. /\ 55 + 1 = 56 /\ 55 + 2 = 57 /\ 55 + 3 = 58 /\ 55 + 4 = 59 /\ 55 + 5 = 60 /\ 55 + 6 = 61
    OBVIOUS
  <2>7. /\ s[55 + 1] = t[1] /\ s[55 + 2] = t[2] /\ s[55 + 3] = t[3]
        /\ s[55 + 4] = t[4] /\ s[55 + 5] = t[5] /\ s[55 + 6] = t[6]
    <3>1. 1 \in 1 .. 6 /\ 2 \in 1 .. 6 /\ 3 \in 1 .. 6
      OBVIOUS
    <3>2. 4 \in 1 .. 6 /\ 5 \in 1 .. 6 /\ 6 \in 1 .. 6
      OBVIOUS
    <3>3. s[55 + 1] = t[1] /\ s[55 + 2] = t[2] /\ s[55 + 3] = t[3]
      BY <2>5, <3>1, Zenon
    <3>4. s[55 + 4] = t[4] /\ s[55 + 5] = t[5] /\ s[55 + 6] = t[6]
      BY <2>5, <3>2, Zenon
    <3> QED
      BY <3>3, <3>4, Zenon
  <2>8. /\ s[56] = t[1] /\ s[57] = t[2] /\ s[58] = t[3]
        /\ s[59] = t[4] /\ s[60] = t[5] /\ s[61] = t[6]
    BY <2>6, <2>7, Zenon
  <2>9. WithError(v)
    BY <2>3, <2>4, <2>8, Zenon DEF WithError, s
  <2> QED
    BY <1>1, <2>9
<1>2. CASE v \notin ErrorVectors
  <2> DEFINE t == TrapTail(v)
  <2>1. s = Trap(v)
    BY <1>2, TrapText
  <2>2. s = Stub(8, 8, t)
    BY <2>1, Zenon DEF Trap, Stub, TrapTail
  <2>3. /\ IsCode(t, 4)
        /\ t[1] = Mov("rdi", "rsp") /\ t[2] = Set("rsi", Number(v))
        /\ t[3] = Set("rdx", Number(0)) /\ t[4] = Call("CPUExceptionHandler")
    BY DEF IsCode, TrapTail
  <2> HIDE DEF s, t
  <2>4. StubIs(s, 8, 8) /\ Ends(s, t, 4, 59)
    BY <2>2, <2>3, StubCode
  <2>5. \A i \in 1 .. 4 : s[55 + i] = t[i]
    BY <2>4 DEF Ends
  <2>6. /\ 1 \in 1 .. 4 /\ 2 \in 1 .. 4 /\ 3 \in 1 .. 4 /\ 4 \in 1 .. 4
        /\ 55 + 1 = 56 /\ 55 + 2 = 57 /\ 55 + 3 = 58 /\ 55 + 4 = 59
    OBVIOUS
  <2>7. s[55 + 1] = t[1] /\ s[55 + 2] = t[2] /\ s[55 + 3] = t[3] /\ s[55 + 4] = t[4]
    BY <2>5, <2>6, Zenon
  <2>8. s[56] = t[1] /\ s[57] = t[2] /\ s[58] = t[3] /\ s[59] = t[4]
    BY <2>6, <2>7, Zenon
  <2>9. Plain(v)
    BY <2>3, <2>4, <2>8, Zenon DEF Plain, s
  <2> QED
    BY <1>2, <2>9
<1> QED
  BY <1>1, <1>2

-----------------------------------------------------------------------------
(* What an instruction does: it puts a value into a register, and writes a *)
(* word to the stack or none.                                              *)
Puts(r, v) ==
  /\ DOMAIN regs' = Registers(bits)
  /\ regs'[Ip(bits)] = Code(Pc[2], Pc[3] + 1)
  /\ \A x \in Registers(bits) \ {Ip(bits)} : regs'[x] = IF x = r THEN v ELSE regs[x]

Writes(a, v) ==
  /\ DOMAIN stack' \subseteq Int
  /\ \A x \in Int : Contents(stack', x) = IF x = a THEN v ELSE Contents(stack, x)

WritesNothing ==
  DOMAIN stack' \subseteq Int /\ \A x \in Int : Contents(stack', x) = Contents(stack, x)

Kept == bits' = bits /\ home' = home /\ raised' = raised /\ dump' = dump

LEMMA StepIs ==
  ASSUME StubStep
  PROVE  /\ Running
         /\ Instr.op = "push" => ExecPush
         /\ Instr.op = "pushat" => ExecPushAt
         /\ Instr.op = "pop" => ExecPop
         /\ Instr.op \in {"mov", "set", "sub", "load", "cli"} => ExecRegister
         /\ Instr.op = "store" => ExecStore
         /\ Instr.op = "iret" => ExecIret
         /\ Instr.op = "call" => CallKeyboardHandlerM \/ CallCPUExceptionHandler \/ CallHandlerM
         /\ Instr.op = "hlt" => ExecHlt
BY DEF StubStep, Execute, ExecPush, ExecPushAt, ExecPop, ExecRegister, ExecStore, ExecIret,
       CallKeyboardHandlerM, CallCPUExceptionHandler, CallHandlerM, ExecHlt

LEMMA SetRegPuts ==
  ASSUME NEW r \in Registers(bits) \ {Ip(bits)}, NEW v, SetReg(r, v), DOMAIN regs = Registers(bits),
         Ip(bits) \in Registers(bits)
  PROVE  Puts(r, v)
BY DEF SetReg, Advance, Puts, Pc

LEMMA AdvancePuts ==
  ASSUME NEW r, Advance(regs), DOMAIN regs = Registers(bits), Ip(bits) \in Registers(bits)
  PROVE  Puts(r, regs[r])
BY DEF Advance, Puts, Pc

LEMMA WritesOne ==
  ASSUME NEW a \in Int, NEW v, stack' = WriteTo(a, v), DOMAIN stack \subseteq Int
  PROVE  Writes(a, v)
<1>1. stack' = [x \in {a} \cup DOMAIN stack |-> IF x \in {a} THEN v ELSE stack[x]]
  BY DEF WriteTo, Overlay
<1> QED
  BY <1>1 DEF Writes, Contents

LEMMA PointersAreRegisters ==
  ASSUME bits \in {32, 64}
  PROVE  /\ Ip(bits) \in Registers(bits) /\ Sp(bits) \in Registers(bits) \ {Ip(bits)}
         /\ Fl(bits) \in Registers(bits) \ {Ip(bits)} /\ Fl(bits) # Sp(bits)
BY Registers64, Registers32 DEF Ip, Sp, Fl

LEMMA WellTyped ==
  ASSUME StubsTypeOK
  PROVE  /\ bits \in {32, 64} /\ DOMAIN regs = Registers(bits) /\ DOMAIN stack \subseteq Int
         /\ Bytes(bits) \in {4, 8}
         /\ Ip(bits) \in Registers(bits) /\ Sp(bits) \in Registers(bits) \ {Ip(bits)}
         /\ Fl(bits) \in Registers(bits) \ {Ip(bits)} /\ Fl(bits) # Sp(bits)
<1>1. bits \in {32, 64} /\ DOMAIN regs = Registers(bits) /\ DOMAIN stack \subseteq Int
  BY DEF StubsTypeOK
<1>2. Bytes(bits) \in {4, 8}
  BY <1>1, Names
<1> QED
  BY <1>1, <1>2, PointersAreRegisters

LEMMA PushDoes ==
  ASSUME StubsTypeOK, StubStep, NEW r, Instr = Push(r), NEW t \in Int, regs[Sp(bits)] = Stack(t)
  PROVE  /\ Puts(Sp(bits), Stack(t - Bytes(bits)))
         /\ Writes(t - Bytes(bits), regs[r]) /\ Kept
<1>1. ExecPush
  BY StepIs DEF Push
<1> DEFINE a == t - Bytes(bits)
<1>2. a \in Int /\ Top = t
  BY WellTyped DEF Top, Stack
<1>3. stack' = WriteTo(a, regs[r]) /\ SetReg(Sp(bits), Stack(a)) /\ Kept
  BY <1>1, <1>2 DEF ExecPush, Push, Kept
<1> HIDE DEF a
<1>4. Puts(Sp(bits), Stack(a))
  BY <1>3, WellTyped, SetRegPuts
<1>5. Writes(a, regs[r])
  BY <1>2, <1>3, WellTyped, WritesOne
<1> QED
  BY <1>3, <1>4, <1>5 DEF a

LEMMA Push2Does ==
  ASSUME StubsTypeOK, StubStep, NEW r, Instr = Push2(r), NEW t \in Int, regs[Sp(bits)] = Stack(t)
  PROVE  Puts(Sp(bits), Stack(t - 2)) /\ Writes(t - 2, regs[r]) /\ Kept
<1>1. ExecPush
  BY StepIs DEF Push2
<1> DEFINE a == t - 2
<1>2. a \in Int /\ Top = t
  BY DEF Top, Stack
<1>3. stack' = WriteTo(a, regs[r]) /\ SetReg(Sp(bits), Stack(a)) /\ Kept
  BY <1>1, <1>2 DEF ExecPush, Push2, Kept
<1> HIDE DEF a
<1>4. Puts(Sp(bits), Stack(a))
  BY <1>3, WellTyped, SetRegPuts
<1>5. Writes(a, regs[r])
  BY <1>2, <1>3, WellTyped, WritesOne
<1> QED
  BY <1>3, <1>4, <1>5 DEF a

LEMMA PushAtDoes ==
  ASSUME StubsTypeOK, StubStep, NEW b, NEW n \in Int, Instr = PushAt(b, n),
         NEW t \in Int, regs[Sp(bits)] = Stack(t), NEW s \in Int, regs[b] = Stack(s)
  PROVE  /\ Puts(Sp(bits), Stack(t - Bytes(bits)))
         /\ Writes(t - Bytes(bits), Contents(stack, s + n)) /\ Kept
<1>1. ExecPushAt
  BY StepIs DEF PushAt
<1> DEFINE a == t - Bytes(bits)
           v == Contents(stack, s + n)
<1>2. a \in Int /\ Top = t /\ At(b, n) = s + n
  BY WellTyped DEF Top, Stack, At
<1>3. Instr.base = b /\ Instr.n = n
  BY DEF PushAt
<1>4. stack' = WriteTo(a, v) /\ SetReg(Sp(bits), Stack(a)) /\ Kept
  BY <1>1, <1>2, <1>3, Zenon DEF ExecPushAt, Read, Kept
<1> HIDE DEF a, v
<1>5. Puts(Sp(bits), Stack(a))
  BY <1>4, WellTyped, SetRegPuts
<1>6. Writes(a, v)
  BY <1>2, <1>4, WellTyped, WritesOne
<1> QED
  BY <1>4, <1>5, <1>6 DEF a, v

LEMMA NothingWritten ==
  ASSUME StubsTypeOK, stack' = stack
  PROVE  WritesNothing
BY WellTyped DEF WritesNothing

LEMMA RegisterDoes ==
  ASSUME StubsTypeOK, ExecRegister, NEW r \in Registers(bits) \ {Ip(bits)}, NEW v, SetReg(r, v)
  PROVE  Puts(r, v) /\ WritesNothing /\ Kept
<1>1. stack' = stack /\ Kept
  BY DEF ExecRegister, Kept, stubVars
<1>2. Puts(r, v)
  BY WellTyped, SetRegPuts
<1> QED
  BY <1>1, <1>2, NothingWritten

LEMMA MovDoes ==
  ASSUME StubsTypeOK, StubStep, NEW r \in Registers(bits) \ {Ip(bits)}, NEW q, Instr = Mov(r, q)
  PROVE  Puts(r, regs[q]) /\ WritesNothing /\ Kept
<1>1. ExecRegister
  BY StepIs DEF Mov
<1>2. Instr.op = "mov" /\ Instr.reg = r /\ Instr.from = q
  BY DEF Mov
<1>3. SetReg(r, regs[q])
  BY <1>1, <1>2 DEF ExecRegister, Execute
<1> QED
  BY <1>1, <1>3, RegisterDoes

LEMMA SetDoes ==
  ASSUME StubsTypeOK, StubStep, NEW r \in Registers(bits) \ {Ip(bits)}, NEW v, Instr = Set(r, v)
  PROVE  Puts(r, v) /\ WritesNothing /\ Kept
<1>1. ExecRegister
  BY StepIs DEF Set
<1>2. Instr.op = "set" /\ Instr.reg = r /\ Instr.value = v
  BY DEF Set
<1>3. SetReg(r, v)
  BY <1>1, <1>2 DEF ExecRegister, Execute
<1> QED
  BY <1>1, <1>3, RegisterDoes

LEMMA SubDoes ==
  ASSUME StubsTypeOK, StubStep, NEW r \in Registers(bits) \ {Ip(bits)}, NEW n \in Int,
         Instr = Sub(r, n), NEW t \in Int, regs[r] = Stack(t)
  PROVE  Puts(r, Stack(t - n)) /\ WritesNothing /\ Kept
<1>1. ExecRegister
  BY StepIs DEF Sub
<1>2. Instr.op = "sub" /\ Instr.reg = r /\ Instr.n = n
  BY DEF Sub
<1>3. SetReg(r, Stack(At(r, -n)))
  BY <1>1, <1>2 DEF ExecRegister, Execute
<1>4. At(r, -n) = t - n
  BY DEF At, Stack
<1> QED
  BY <1>1, <1>3, <1>4, RegisterDoes

LEMMA LoadDoes ==
  ASSUME StubsTypeOK, StubStep, NEW r \in Registers(bits) \ {Ip(bits)}, NEW b, NEW n \in Int,
         Instr = Load(r, b, n), NEW t \in Int, regs[b] = Stack(t)
  PROVE  Puts(r, Contents(stack, t + n)) /\ WritesNothing /\ Kept
<1>1. ExecRegister
  BY StepIs DEF Load
<1>2. Instr.op = "load" /\ Instr.reg = r /\ Instr.base = b /\ Instr.n = n
  BY DEF Load
<1>3. SetReg(r, Read(At(b, n)))
  BY <1>1, <1>2 DEF ExecRegister, Execute
<1>4. At(b, n) = t + n
  BY DEF At, Stack
<1>5. SetReg(r, Contents(stack, t + n))
  BY <1>3, <1>4, Zenon DEF Read
<1> QED
  BY <1>1, <1>5, RegisterDoes

LEMMA CliDoes ==
  ASSUME StubsTypeOK, StubStep, Instr = Cli
  PROVE  Puts(Fl(bits), Flags(FALSE)) /\ WritesNothing /\ Kept
<1>1. ExecRegister
  BY StepIs DEF Cli
<1>2. Instr.op = "cli"
  BY DEF Cli
<1>3. SetReg(Fl(bits), Flags(FALSE))
  BY <1>1, <1>2 DEF ExecRegister, Execute
<1> QED
  BY <1>1, <1>3, WellTyped, RegisterDoes

LEMMA StoreDoes ==
  ASSUME StubsTypeOK, StubStep, NEW b, NEW n \in Int, NEW r, Instr = Store(b, n, r),
         NEW t \in Int, regs[b] = Stack(t)
  PROVE  Puts(r, regs[r]) /\ Writes(t + n, regs[r]) /\ Kept
<1>1. ExecStore
  BY StepIs DEF Store
<1>2. Instr.base = b /\ Instr.n = n /\ Instr.reg = r
  BY DEF Store
<1> DEFINE a == t + n
<1>3. At(b, n) = a /\ a \in Int
  BY DEF At, Stack
<1> HIDE DEF a
<1>4. stack' = WriteTo(a, regs[r]) /\ Advance(regs) /\ Kept
  BY <1>1, <1>2, <1>3, Zenon DEF ExecStore, Kept
<1>5. Puts(r, regs[r])
  BY <1>4, WellTyped, AdvancePuts
<1>6. Writes(a, regs[r])
  BY <1>3, <1>4, WellTyped, WritesOne
<1> QED
  BY <1>4, <1>5, <1>6 DEF a

-----------------------------------------------------------------------------
(* Where the registers are in the save area: one after the other.          *)
Size64(r) == IF r \in ToSet(Segments) THEN 2 ELSE 8

LEMMA Offsets64 ==
  /\ \A r \in Registers(64) : Offset(64, r) \in 0 .. 194
  /\ \A q, r \in Registers(64) :
       q # r /\ Offset(64, r) >= Offset(64, q) => Offset(64, r) >= Offset(64, q) + Size64(q)
<1>1. /\ \A k \in 1 .. 6 : Segments[k] \in ToSet(Segments)
      /\ \A k \in 1 .. 23 : Wide(64)[k] \notin ToSet(Segments)
  BY DEF ToSet, Segments, Wide
<1>2. \A r \in Registers(64) : (\E k \in 1 .. 6 : r = Segments[k]) \/ (\E k \in 1 .. 23 : r = Wide(64)[k])
  BY Registers64 DEF Segments, Wide
<1>3. ASSUME NEW r \in Registers(64) PROVE Offset(64, r) \in 0 .. 194
  <2>1. CASE \E k \in 1 .. 6 : r = Segments[k]
    BY <2>1, SegmentOffsets
  <2>2. CASE \E k \in 1 .. 23 : r = Wide(64)[k]
    BY <2>2, WideOffsets
  <2> QED
    BY <1>2, <2>1, <2>2
<1>4. ASSUME NEW q \in Registers(64), NEW r \in Registers(64), q # r, Offset(64, r) >= Offset(64, q)
      PROVE  Offset(64, r) >= Offset(64, q) + Size64(q)
  <2>1. CASE \E k \in 1 .. 6 : q = Segments[k]
    <3>1. PICK k \in 1 .. 6 : q = Segments[k]
      BY <2>1
    <3>2. Offset(64, q) = 184 + 2 * (k - 1) /\ Size64(q) = 2
      BY <1>1, <3>1, SegmentOffsets DEF Size64
    <3>3. CASE \E j \in 1 .. 6 : r = Segments[j]
      <4>1. PICK j \in 1 .. 6 : r = Segments[j]
        BY <3>3
      <4>2. Offset(64, r) = 184 + 2 * (j - 1) /\ j # k
        BY <1>4, <3>1, <4>1, SegmentOffsets
      <4> QED
        BY <1>4, <3>2, <4>2
    <3>4. CASE \E j \in 1 .. 23 : r = Wide(64)[j]
      <4>1. PICK j \in 1 .. 23 : r = Wide(64)[j]
        BY <3>4
      <4>2. Offset(64, r) = 8 * (j - 1)
        BY <4>1, WideOffsets
      <4> QED
        BY <1>4, <3>2, <4>2
    <3> QED
      BY <1>2, <3>3, <3>4
  <2>2. CASE \E k \in 1 .. 23 : q = Wide(64)[k]
    <3>1. PICK k \in 1 .. 23 : q = Wide(64)[k]
      BY <2>2
    <3>2. Offset(64, q) = 8 * (k - 1) /\ Size64(q) = 8
      BY <1>1, <3>1, WideOffsets DEF Size64
    <3>3. CASE \E j \in 1 .. 6 : r = Segments[j]
      <4>1. PICK j \in 1 .. 6 : r = Segments[j]
        BY <3>3
      <4>2. Offset(64, r) = 184 + 2 * (j - 1)
        BY <4>1, SegmentOffsets
      <4> QED
        BY <3>2, <4>2
    <3>4. CASE \E j \in 1 .. 23 : r = Wide(64)[j]
      <4>1. PICK j \in 1 .. 23 : r = Wide(64)[j]
        BY <3>4
      <4>2. Offset(64, r) = 8 * (j - 1) /\ j # k
        BY <1>4, <3>1, <4>1, WideOffsets
      <4> QED
        BY <1>4, <3>2, <4>2
    <3> QED
      BY <1>2, <3>3, <3>4
  <2> QED
    BY <1>2, <2>1, <2>2
<1> QED
  BY <1>3, <1>4

-----------------------------------------------------------------------------
(* An instruction of trap or traperr.                                      *)
LEMMA MeansKept ==
  ASSUME Kept
  PROVE  /\ Base' = Base /\ EntryTop' = EntryTop /\ Mistaken' = Mistaken /\ Gates' = Gates
         /\ Area64' = Area64 /\ Pushed' = Pushed
         /\ \A r : AtFault(r)' = AtFault(r)
         /\ \A i : TrapTop(i)' = TrapTop(i) /\ Missing64(i)' = Missing64(i)
         /\ \A i : Carried64(i)' = Carried64(i) /\ Carries64(i)' = Carries64(i)
         /\ \A i : Changed64(i)' = Changed64(i)
<1>1. Gates' = Gates /\ Mistaken' = Mistaken /\ Pushed' = Pushed
  <2>1. Gates' = Gates /\ Pushed' = Pushed
    BY DEF Kept, Gates, Pushed
  <2> QED
    BY <2>1 DEF Kept, Mistaken
<1>2. Base' = Base
  BY DEF Kept, Base
<1>3. EntryTop' = EntryTop /\ Area64' = Area64
  BY <1>1, <1>2 DEF Kept, EntryTop, Area64
<1>4. \A r : AtFault(r)' = AtFault(r)
  BY DEF Kept, AtFault
<1>5. \A i : TrapTop(i)' = TrapTop(i)
  BY <1>2, <1>3 DEF TrapTop
<1>6. \A i : Missing64(i)' = Missing64(i)
  BY <1>1 DEF Missing64
<1>7. \A i : Carried64(i)' = Carried64(i) /\ Changed64(i)' = Changed64(i)
  BY DEF Carried64, Changed64
<1>8. \A i : Carries64(i)' = Carries64(i)
  BY DEF Carries64, Kept
<1> QED
  BY <1>1, <1>2, <1>3, <1>4, <1>5, <1>6, <1>7, <1>8

HoldsNext(i) ==
  \A q \in Registers(64) \ Missing64(i) :
    Area64 + Offset(64, q) >= TrapTop(i) => Contents(stack', Area64 + Offset(64, q)) = AtFault(q)

ArgumentsNext(i) == Arguments64(IF raised \in ErrorVectors THEN i - 2 ELSE i)'

TrapNext(i, r, v) ==
  /\ r \in Changed64(i) \ {"rip", "rflags"}
  /\ IF r = "rsp" THEN v = Stack(TrapTop(i)) ELSE TrapTop(i) = TrapTop(i - 1)
  /\ IF i = 4 THEN r = "rbp" /\ v = Stack(EntryTop - 8) ELSE r # "rbp"
  /\ Contents(stack', EntryTop - 8) = AtFault("rbp")
  /\ i > 4 => Contents(stack', EntryTop - 16) = AtFault("rax")
  /\ Carries64(i) => (IF r = "rax" THEN v ELSE regs["rax"]) = AtFault(Carried64(i))
  /\ i > 5 => HoldsNext(i)
  /\ ArgumentsNext(i)

LEMMA TrapAdvances ==
  ASSUME bits = 64, NEW i \in 2 .. 60, TrappedAt(i), Kept, NEW r, NEW v, Puts(r, v),
         TrapNext(i + 1, r, v)
  PROVE  TrappedAt(i + 1)'
<1> DEFINE j == i + 1
<1>0. j \in 3 .. 61 /\ j - 1 = i /\ j \in Nat /\ j > 2
  OBVIOUS
<1>1. TrapNext(j, r, v)
  OBVIOUS
<1>2. /\ Ip(64) = "rip" /\ Sp(64) = "rsp" /\ Fl(64) = "rflags" /\ "rip" \in Registers(64)
      /\ "rsp" \in Registers(64) /\ "rflags" \in Registers(64) /\ "rbp" \in Registers(64)
      /\ "rax" \in Registers(64)
  BY Names, Registers64
<1>3. Pc = Code(Gates[raised], i) /\ regs["rflags"] = Flags(FALSE) /\ regs["rsp"] = Stack(TrapTop(i))
  BY DEF TrappedAt
<1>4. regs'["rip"] = Code(Gates[raised], j)
  BY <1>2, <1>3 DEF Puts, Code
<1>5. \A x \in Registers(64) \ {"rip"} : regs'[x] = IF x = r THEN v ELSE regs[x]
  BY <1>2 DEF Puts
<1>6. Changed64(i) \subseteq Changed64(j)
  BY DEF Changed64
<1>7. Pc' = Code(Gates[raised], j)' /\ regs'["rflags"] = Flags(FALSE)
  <2>1. Pc' = regs'["rip"]
    BY <1>2 DEF Pc, Kept
  <2>2. Code(Gates[raised], j)' = Code(Gates[raised], j)
    BY MeansKept DEF Kept
  <2>3. r # "rflags"
    BY <1>1 DEF TrapNext
  <2> QED
    BY <1>2, <1>3, <1>4, <1>5, <2>1, <2>2, <2>3
<1>8. regs'["rsp"] = Stack(TrapTop(j))
  BY <1>0, <1>1, <1>2, <1>3, <1>5 DEF TrapNext
<1>9. j > 3 => regs'["rbp"] = Stack(EntryTop - 8)
  <2>1. CASE j = 4
    BY <1>1, <1>2, <1>5, <2>1 DEF TrapNext
  <2>2. CASE j > 4
    <3>1. i > 3 /\ j # 4
      BY <2>2
    <3>2. regs["rbp"] = Stack(EntryTop - 8)
      BY <3>1 DEF TrappedAt
    <3>3. r # "rbp"
      BY <1>1, <3>1 DEF TrapNext
    <3> QED
      BY <1>2, <1>5, <3>2, <3>3
  <2> QED
    BY <1>0, <2>1, <2>2
<1>10. \A x \in Registers(64) \ Changed64(j) : regs'[x] = AtFault(x)
  <2> TAKE x \in Registers(64) \ Changed64(j)
  <2>1. x # r /\ x # "rip" /\ x \notin Changed64(i)
    BY <1>1, <1>6 DEF TrapNext, Changed64
  <2>2. regs[x] = AtFault(x)
    BY <2>1 DEF TrappedAt
  <2> QED
    BY <1>5, <2>1, <2>2
<1>11. Carries64(j) => regs'["rax"] = AtFault(Carried64(j))
  BY <1>1, <1>2, <1>5 DEF TrapNext
<1>12. /\ Contents(stack', EntryTop - 8) = AtFault("rbp")
       /\ j > 4 => Contents(stack', EntryTop - 16) = AtFault("rax")
       /\ j > 5 => HoldsNext(j)
       /\ Arguments64(IF raised \in ErrorVectors THEN j - 2 ELSE j)'
  BY <1>1 DEF TrapNext, ArgumentsNext
<1> HIDE DEF j
<1>13. TrappedAt(j)'
  BY <1>0, <1>7, <1>8, <1>9, <1>10, <1>11, <1>12, MeansKept DEF TrappedAt, HoldsNext, Read
<1> QED
  BY <1>13 DEF j

KeepsAbove(t) ==
  DOMAIN stack' \subseteq Int /\ \A x \in Int : x >= t => Contents(stack', x) = Contents(stack, x)

InTrap(i) ==
  /\ bits = 64 /\ raised \in Vectors64 \ IRQs /\ i \in 2 .. 61
  /\ StubsTypeOK /\ FrameKept /\ TrappedAt(i)

TrapDone(i) ==
  TrappedAt(i)' /\ Kept /\ KeepsAbove(EntryTop) /\ DOMAIN regs' = Registers(64)

LEMMA Bases ==
  ASSUME StubsTypeOK
  PROVE  home \in Int /\ Base \in Int /\ Base <= home /\ Area64 \in Int /\ Area64 = Base - 272
         /\ (bits = 64 => Base % 16 = 0)
<1>1. home \in Int
  BY StubsAssumption DEF StubsTypeOK
<1>2. CASE bits = 64
  <2>1. Base = home - (home % 16)
    BY <1>2 DEF Base
  <2>2. home % 16 \in 0 .. 15
    BY <1>1
  <2> HIDE DEF Base
  <2>3. Base % 16 = 0 /\ Base \in Int /\ Base <= home
    BY <1>1, <2>1, <2>2
  <2> QED
    BY <1>1, <1>2, <2>3 DEF Area64
<1>3. CASE bits # 64
  BY <1>1, <1>3 DEF Base, Area64
<1> QED
  BY <1>2, <1>3

LEMMA EntryTop64 ==
  ASSUME StubsTypeOK, bits = 64
  PROVE  EntryTop = (IF raised \in ErrorVectors THEN Base - 48 ELSE Base - 40) /\ EntryTop \in Int
         /\ Pushed = <<"ss", "rsp", "rflags", "cs", "rip">> /\ EntryTop <= home
<1>1. Pushed = <<"ss", "rsp", "rflags", "cs", "rip">> /\ Len(Pushed) = 5 /\ Bytes(bits) = 8
  BY Names DEF Pushed
<1>2. EntryTop = Base - 8 * (5 + IF raised \in ErrorVectors THEN 1 ELSE 0)
  BY <1>1, Zenon DEF EntryTop
<1> QED
  BY <1>1, <1>2, Bases

LEMMA TrapTops ==
  ASSUME StubsTypeOK, bits = 64
  PROVE  /\ \A k \in 1 .. 6 : TrapTop(2 * k + 4) = Base - 74 - 2 * k /\ TrapTop(2 * k + 5) = Base - 74 - 2 * k
         /\ \A k \in 1 .. 5 : TrapTop(2 * k + 16) = Base - 80 - 8 * k /\ TrapTop(2 * k + 17) = Base - 80 - 8 * k
         /\ \A k \in 1 .. 9 : TrapTop(k + 27) = Base - 120 - 8 * k
         /\ \A k \in 1 .. 8 : TrapTop(k + 36) = Base - 200 - 8 * k
         /\ TrapTop(45) = Base - 264
         /\ \A i \in 46 .. 61 : TrapTop(i) = Area64
         /\ TrapTop(2) = EntryTop /\ TrapTop(3) = EntryTop - 8 /\ TrapTop(4) = EntryTop - 8
         /\ TrapTop(5) = EntryTop - 16
<1>1. Base \in Int
  BY Bases
<1>2. ASSUME NEW k \in 1 .. 6
      PROVE  TrapTop(2 * k + 4) = Base - 74 - 2 * k /\ TrapTop(2 * k + 5) = Base - 74 - 2 * k
  <2>1. ((2 * k + 4) - 6) \div 2 = k - 1 /\ ((2 * k + 5) - 6) \div 2 = k - 1
    OBVIOUS
  <2>2. /\ TrapTop(2 * k + 4) = Base - 76 - 2 * (((2 * k + 4) - 6) \div 2)
        /\ TrapTop(2 * k + 5) = Base - 76 - 2 * (((2 * k + 5) - 6) \div 2)
    BY DEF TrapTop
  <2> QED
    BY <1>1, <2>1, <2>2
<1>3. ASSUME NEW k \in 1 .. 5
      PROVE  TrapTop(2 * k + 16) = Base - 80 - 8 * k /\ TrapTop(2 * k + 17) = Base - 80 - 8 * k
  <2>1. ((2 * k + 16) - 18) \div 2 = k - 1 /\ ((2 * k + 17) - 18) \div 2 = k - 1
    OBVIOUS
  <2>2. /\ TrapTop(2 * k + 16) = Base - 88 - 8 * (((2 * k + 16) - 18) \div 2)
        /\ TrapTop(2 * k + 17) = Base - 88 - 8 * (((2 * k + 17) - 18) \div 2)
    BY DEF TrapTop
  <2> QED
    BY <1>1, <2>1, <2>2
<1>4. \A k \in 1 .. 9 : TrapTop(k + 27) = Base - 120 - 8 * k
  BY <1>1 DEF TrapTop
<1>5. \A k \in 1 .. 8 : TrapTop(k + 36) = Base - 200 - 8 * k
  BY <1>1 DEF TrapTop
<1>6. /\ TrapTop(45) = Base - 264 /\ \A i \in 46 .. 61 : TrapTop(i) = Area64
      /\ TrapTop(2) = EntryTop /\ TrapTop(3) = EntryTop - 8 /\ TrapTop(4) = EntryTop - 8
      /\ TrapTop(5) = EntryTop - 16
  BY DEF TrapTop
<1> QED
  BY <1>2, <1>3, <1>4, <1>5, <1>6

LEMMA TrapInstr ==
  ASSUME NEW i, InTrap(i)
  PROVE  Instr = Text[Gates64[raised]][i] /\ Pc = Code(Gates64[raised], i) /\ Ip(bits) = "rip"
         /\ Sp(bits) = "rsp" /\ Fl(bits) = "rflags" /\ Bytes(bits) = 8
         /\ (IF raised \in ErrorVectors THEN WithError(raised) ELSE Plain(raised))
<1>1. Pc = Code(Gates64[raised], i)
  BY DEF InTrap, TrappedAt, Gates
<1>2. raised \in Vectors64 \ IRQs /\ bits = 64
  BY DEF InTrap
<1> QED
  BY <1>1, <1>2, Names, TrapCode DEF Instr, Code

LEMMA SharedInstr ==
  ASSUME NEW i, InTrap(i), NEW s, s = Text[Gates64[raised]]
  PROVE  IF raised \in ErrorVectors THEN StubIs(s, 0, 16) ELSE StubIs(s, 8, 8)
BY TrapInstr DEF WithError, Plain

LEMMA NoArguments ==
  ASSUME NEW i \in 0 .. 56, Kept
  PROVE  ArgumentsNext(i)
BY DEF ArgumentsNext, Arguments64, Kept

LEMMA NotAbove ==
  ASSUME NEW t \in Int, NEW a \in Int, a < t, NEW v, Writes(a, v)
  PROVE  KeepsAbove(t)
BY DEF Writes, KeepsAbove

LEMMA NothingAbove ==
  ASSUME NEW t, WritesNothing
  PROVE  KeepsAbove(t)
BY DEF WritesNothing, KeepsAbove

(* The two kinds of steps that fill the save area.                         *)
LEMMA TrapLoads ==
  ASSUME NEW i \in 6 .. 55, InTrap(i), i \notin {47, 51, 53, 55},
         NEW v, Puts("rax", v), WritesNothing, Kept,
         TrapTop(i + 1) = TrapTop(i), Carries64(i + 1) => v = AtFault(Carried64(i + 1))
  PROVE  TrapDone(i + 1)
<1>1. bits = 64 /\ TrappedAt(i) /\ StubsTypeOK
  BY DEF InTrap
<1>2. EntryTop \in Int /\ Area64 \in Int
  BY <1>1, EntryTop64, Bases
<1>3. Contents(stack', EntryTop - 8) = AtFault("rbp") /\ Contents(stack', EntryTop - 16) = AtFault("rax")
  <2>1. i > 2 /\ i > 4
    OBVIOUS
  <2>2. Contents(stack, EntryTop - 8) = AtFault("rbp") /\ Contents(stack, EntryTop - 16) = AtFault("rax")
    BY <1>1, <2>1 DEF TrappedAt, Read
  <2> QED
    BY <1>2, <2>2 DEF WritesNothing
<1>4. Missing64(i + 1) = Missing64(i)
  BY DEF Missing64
<1>5. HoldsNext(i + 1)
  <2> SUFFICES ASSUME NEW q \in Registers(64) \ Missing64(i + 1),
                      Area64 + Offset(64, q) >= TrapTop(i + 1)
               PROVE  Contents(stack', Area64 + Offset(64, q)) = AtFault(q)
    BY DEF HoldsNext
  <2>1. Area64 + Offset(64, q) >= TrapTop(i) /\ q \in Registers(64) \ Missing64(i) /\ i > 5
    BY <1>4
  <2>2. Contents(stack, Area64 + Offset(64, q)) = AtFault(q)
    BY <1>1, <2>1 DEF TrappedAt, Read
  <2>3. Area64 + Offset(64, q) \in Int
    BY <1>2, Offsets64
  <2> QED
    BY <2>2, <2>3 DEF WritesNothing
<1>6. ArgumentsNext(i + 1)
  BY NoArguments
<1>7. "rax" \in Changed64(i + 1) \ {"rip", "rflags"} /\ "rax" # "rsp" /\ "rax" # "rbp" /\ i + 1 # 4
  BY DEF Changed64
<1>8. TrapTop(i + 1) = TrapTop((i + 1) - 1)
  <2>1. (i + 1) - 1 = i
    OBVIOUS
  <2> QED
    BY <2>1, Zenon
<1>9. TrapNext(i + 1, "rax", v)
  BY <1>3, <1>5, <1>6, <1>7, <1>8, Zenon DEF TrapNext
<1>10. TrappedAt(i + 1)'
  BY <1>1, <1>9, TrapAdvances
<1> QED
  BY <1>1, <1>10, NothingAbove DEF TrapDone, Puts

LEMMA TrapPushes ==
  ASSUME NEW i \in 6 .. 45, InTrap(i), NEW q \in Registers(64), NEW v,
         Puts("rsp", Stack(TrapTop(i + 1))), Writes(TrapTop(i + 1), v), Kept,
         TrapTop(i + 1) = Area64 + Offset(64, q), TrapTop(i) = TrapTop(i + 1) + Size64(q),
         q \in Missing64(i + 1) \/ v = AtFault(q), ~Carries64(i + 1), TrapTop(i) <= Base - 76
  PROVE  TrapDone(i + 1)
<1>1. bits = 64 /\ TrappedAt(i) /\ StubsTypeOK
  BY DEF InTrap
<1>2. EntryTop \in Int /\ Area64 \in Int /\ EntryTop >= Base - 48 /\ Base \in Int
  BY <1>1, EntryTop64, Bases
<1> DEFINE a == TrapTop(i + 1)
<1>11. a \in Int /\ Offset(64, q) \in Int /\ Size64(q) \in {2, 8}
  BY <1>2, Offsets64 DEF Size64
<1>12. a < EntryTop - 16 /\ a < EntryTop
  BY <1>2, <1>11
<1>3. Contents(stack', EntryTop - 8) = AtFault("rbp") /\ Contents(stack', EntryTop - 16) = AtFault("rax")
  <2>1. i > 2 /\ i > 4
    OBVIOUS
  <2>2. Contents(stack, EntryTop - 8) = AtFault("rbp") /\ Contents(stack, EntryTop - 16) = AtFault("rax")
    BY <1>1, <2>1 DEF TrappedAt, Read
  <2> QED
    BY <1>2, <1>11, <1>12, <2>2 DEF Writes
<1>4. Missing64(i + 1) = Missing64(i)
  BY DEF Missing64
<1>5. HoldsNext(i + 1)
  <2> SUFFICES ASSUME NEW p \in Registers(64) \ Missing64(i + 1),
                      Area64 + Offset(64, p) >= TrapTop(i + 1)
               PROVE  Contents(stack', Area64 + Offset(64, p)) = AtFault(p)
    BY DEF HoldsNext
  <2>1. Area64 + Offset(64, p) \in Int /\ Offset(64, p) \in Int /\ Offset(64, p) >= Offset(64, q)
    BY <1>2, <1>11, Offsets64
  <2>2. CASE p = q
    <3>1. v = AtFault(q) /\ Area64 + Offset(64, p) = a
      BY <2>2
    <3> QED
      BY <1>11, <2>2, <3>1 DEF Writes
  <2>3. CASE p # q
    <3>1. Offset(64, p) >= Offset(64, q) + Size64(q)
      BY <2>1, <2>3, Offsets64
    <3>2. Area64 + Offset(64, p) >= TrapTop(i) /\ Area64 + Offset(64, p) # a /\ i > 5
      BY <1>2, <1>11, <2>1, <3>1
    <3>3. Contents(stack, Area64 + Offset(64, p)) = AtFault(p)
      BY <1>1, <1>4, <3>2 DEF TrappedAt, Read
    <3> QED
      BY <2>1, <3>2, <3>3 DEF Writes
  <2> QED
    BY <2>2, <2>3
<1>6. ArgumentsNext(i + 1)
  BY NoArguments
<1>7. "rsp" \in Changed64(i + 1) \ {"rip", "rflags"} /\ "rsp" # "rbp" /\ i + 1 # 4
  BY DEF Changed64
<1>9. TrapNext(i + 1, "rsp", Stack(TrapTop(i + 1)))
  BY <1>3, <1>5, <1>6, <1>7, Zenon DEF TrapNext
<1>10. TrappedAt(i + 1)'
  BY <1>1, <1>9, TrapAdvances
<1>13. KeepsAbove(EntryTop)
  BY <1>2, <1>11, <1>12, NotAbove
<1> QED
  BY <1>1, <1>10, <1>13 DEF TrapDone, Puts

LEMMA AtFaultUnchanged ==
  ASSUME NEW i \in 6 .. 55, InTrap(i)
  PROVE  /\ \A k \in 1 .. 6 : regs[Segments[k]] = AtFault(Segments[k])
         /\ \A k \in 1 .. 5 : regs[Controls64[k]] = AtFault(Controls64[k])
         /\ \A k \in 11 .. 18 : regs[Wide(64)[k]] = AtFault(Wide(64)[k])
         /\ \A k \in {2, 3, 4, 7, 8} : regs[Wide(64)[k]] = AtFault(Wide(64)[k])
<1>1. \A r \in Registers(64) \ {"rip", "rsp", "rflags", "rbp", "rax"} : regs[r] = AtFault(r)
  <2>1. Changed64(i) = {"rip", "rsp", "rflags", "rbp", "rax"}
    BY DEF Changed64
  <2> QED
    BY <2>1 DEF InTrap, TrappedAt
<1>2. /\ \A k \in 1 .. 6 : Segments[k] \in Registers(64) \ {"rip", "rsp", "rflags", "rbp", "rax"}
      /\ \A k \in 1 .. 5 : Controls64[k] \in Registers(64) \ {"rip", "rsp", "rflags", "rbp", "rax"}
  BY Registers64 DEF Segments, Controls64
<1>3. \A k \in 11 .. 18 : Wide(64)[k] \in Registers(64) \ {"rip", "rsp", "rflags", "rbp", "rax"}
  BY Registers64 DEF Wide
<1>4. \A k \in {2, 3, 4, 7, 8} : Wide(64)[k] \in Registers(64) \ {"rip", "rsp", "rflags", "rbp", "rax"}
  BY Registers64 DEF Wide
<1> QED
  BY <1>1, <1>2, <1>3, <1>4

LEMMA RaxIsRegister ==
  ASSUME bits = 64
  PROVE  {"rax", "rbp", "rdi", "rsi", "rdx", "rsp"} \subseteq Registers(bits) \ {Ip(bits)}
BY Registers64, Names

(* mov rax, segment.                                                       *)
LEMMA SegmentMov ==
  ASSUME NEW k \in 1 .. 6, InTrap(2 * k + 4), StubStep
  PROVE  TrapDone(2 * k + 5)
<1> DEFINE i == 2 * k + 4
           q == Segments[7 - k]
<1>1. i \in 6 .. 55 /\ i \notin {47, 51, 53, 55} /\ i + 1 = 2 * k + 5 /\ 7 - k \in 1 .. 6
  OBVIOUS
<1>2. bits = 64 /\ StubsTypeOK
  BY DEF InTrap
<1>3. Instr = Mov("rax", q)
  BY TrapInstr, SharedInstr DEF StubIs
<1>4. Puts("rax", regs[q]) /\ WritesNothing /\ Kept
  BY <1>2, <1>3, RaxIsRegister, MovDoes
<1>5. regs[q] = AtFault(q)
  BY <1>1, AtFaultUnchanged
<1>6. TrapTop(2 * k + 5) = TrapTop(2 * k + 4)
  BY <1>2, TrapTops
<1>7. Carried64(2 * k + 5) = q
  <2>1. (19 - (2 * k + 5)) \div 2 = 7 - k /\ ~(2 * k + 5 <= 5) /\ 2 * k + 5 \in 6 .. 17
    OBVIOUS
  <2> QED
    BY <2>1 DEF Carried64
<1>8. TrapTop(i + 1) = TrapTop(i) /\ (Carries64(i + 1) => regs[q] = AtFault(Carried64(i + 1)))
  BY <1>1, <1>5, <1>6, <1>7
<1>9. InTrap(i)
  OBVIOUS
<1> HIDE DEF i, q
<1>10. TrapDone(i + 1)
  BY <1>1, <1>4, <1>8, <1>9, TrapLoads
<1> QED
  BY <1>1, <1>10

(* push ax.                                                                *)
LEMMA SegmentPush ==
  ASSUME NEW k \in 1 .. 6, InTrap(2 * k + 5), StubStep
  PROVE  TrapDone(2 * k + 6)
<1> DEFINE i == 2 * k + 5
           q == Segments[7 - k]
           a == TrapTop(i + 1)
<1>1. i \in 6 .. 45 /\ i + 1 = 2 * k + 6 /\ 7 - k \in 1 .. 6
  OBVIOUS
<1>2. bits = 64 /\ StubsTypeOK /\ TrappedAt(i)
  BY DEF InTrap
<1>3. Instr = Push2("rax") /\ Sp(bits) = "rsp"
  BY TrapInstr, SharedInstr DEF StubIs
<1>4. Base \in Int /\ Area64 = Base - 272
  BY <1>2, Bases
<1>5. TrapTop(2 * k + 5) = Base - 74 - 2 * k /\ TrapTop(2 * k + 6) = Base - 76 - 2 * k
  <2>1. TrapTop(2 * k + 5) = Base - 74 - 2 * k
    BY <1>2, TrapTops
  <2>2. CASE k \in 1 .. 5
    <3>1. k + 1 \in 1 .. 6 /\ 2 * (k + 1) + 4 = 2 * k + 6
      BY <2>2
    <3>2. TrapTop(2 * (k + 1) + 4) = Base - 74 - 2 * (k + 1)
      BY <1>2, <3>1, TrapTops
    <3> QED
      BY <1>4, <2>1, <3>1, <3>2
  <2>3. CASE k = 6
    <3>1. 1 \in 1 .. 5 /\ 2 * 1 + 16 = 2 * k + 6
      BY <2>3
    <3>2. TrapTop(2 * 1 + 16) = Base - 80 - 8 * 1
      BY <1>2, <3>1, TrapTops
    <3> QED
      BY <1>4, <2>1, <2>3, <3>1, <3>2
  <2> QED
    BY <2>2, <2>3
<1>6. a \in Int /\ a = Base - 76 - 2 * k /\ TrapTop(i) = a + 2 /\ TrapTop(i) <= Base - 76 /\ TrapTop(i) \in Int
  BY <1>1, <1>4, <1>5
<1>7. regs["rsp"] = Stack(TrapTop(i))
  BY <1>2 DEF TrappedAt
<1>8. regs["rax"] = AtFault(q)
  <2>1. Carries64(2 * k + 5)
    BY DEF Carries64
  <2>2. (19 - (2 * k + 5)) \div 2 = 7 - k /\ ~(2 * k + 5 <= 5) /\ 2 * k + 5 \in 6 .. 17
    OBVIOUS
  <2>3. Carried64(2 * k + 5) = q
    BY <2>2 DEF Carried64
  <2> QED
    BY <1>2, <2>1, <2>3 DEF TrappedAt
<1>9. ~Carries64(2 * k + 6)
  BY DEF Carries64
<1>10. q \in Registers(64) /\ Size64(q) = 2 /\ Offset(64, q) = 184 + 2 * ((7 - k) - 1)
  BY <1>1, SegmentOffsets, Registers64 DEF Segments, Size64, ToSet
<1>11. InTrap(i) /\ ~Carries64(i + 1)
  BY <1>1, <1>9
<1> HIDE DEF i, q
<1>12. Puts("rsp", Stack(TrapTop(i) - 2)) /\ Writes(TrapTop(i) - 2, regs["rax"]) /\ Kept
  BY <1>2, <1>3, <1>6, <1>7, Push2Does
<1>13. TrapTop(i) - 2 = a /\ a = Area64 + Offset(64, q) /\ TrapTop(i) = a + Size64(q)
  BY <1>4, <1>6, <1>10
<1>14. TrapDone(i + 1)
  BY <1>1, <1>6, <1>8, <1>10, <1>11, <1>12, <1>13, TrapPushes
<1> QED
  BY <1>1, <1>14

(* mov rax, cr.                                                            *)
LEMMA ControlMov ==
  ASSUME NEW k \in 1 .. 5, InTrap(2 * k + 16), StubStep
  PROVE  TrapDone(2 * k + 17)
<1> DEFINE i == 2 * k + 16
           q == Controls64[k]
<1>1. i \in 6 .. 55 /\ i \notin {47, 51, 53, 55} /\ i + 1 = 2 * k + 17
  OBVIOUS
<1>2. bits = 64 /\ StubsTypeOK
  BY DEF InTrap
<1>3. Instr = Mov("rax", q)
  BY TrapInstr, SharedInstr DEF StubIs
<1>4. Puts("rax", regs[q]) /\ WritesNothing /\ Kept
  BY <1>2, <1>3, RaxIsRegister, MovDoes
<1>5. regs[q] = AtFault(q)
  BY <1>1, AtFaultUnchanged
<1>6. TrapTop(2 * k + 17) = TrapTop(2 * k + 16)
  BY <1>2, TrapTops
<1>7. Carried64(2 * k + 17) = q
  <2>1. ((2 * k + 17) - 17) \div 2 = k /\ ~(2 * k + 17 <= 5) /\ 2 * k + 17 \in 18 .. 27
    OBVIOUS
  <2> QED
    BY <2>1 DEF Carried64
<1>8. TrapTop(i + 1) = TrapTop(i) /\ (Carries64(i + 1) => regs[q] = AtFault(Carried64(i + 1)))
  BY <1>1, <1>5, <1>6, <1>7
<1>9. InTrap(i)
  OBVIOUS
<1> HIDE DEF i, q
<1>10. TrapDone(i + 1)
  BY <1>1, <1>4, <1>8, <1>9, TrapLoads
<1> QED
  BY <1>1, <1>10

(* push rax, for a control register.                                       *)
LEMMA ControlPush ==
  ASSUME NEW k \in 1 .. 5, InTrap(2 * k + 17), StubStep
  PROVE  TrapDone(2 * k + 18)
<1> DEFINE i == 2 * k + 17
           q == Controls64[k]
           a == TrapTop(i + 1)
<1>1. i \in 6 .. 45 /\ i + 1 = 2 * k + 18
  OBVIOUS
<1>2. bits = 64 /\ StubsTypeOK /\ TrappedAt(i)
  BY DEF InTrap
<1>3. Instr = Push("rax") /\ Sp(bits) = "rsp" /\ Bytes(bits) = 8
  BY TrapInstr, SharedInstr DEF StubIs
<1>4. Base \in Int /\ Area64 = Base - 272
  BY <1>2, Bases
<1>5. TrapTop(2 * k + 17) = Base - 80 - 8 * k /\ TrapTop(2 * k + 18) = Base - 88 - 8 * k
  <2>1. TrapTop(2 * k + 17) = Base - 80 - 8 * k
    BY <1>2, TrapTops
  <2>2. CASE k \in 1 .. 4
    <3>1. k + 1 \in 1 .. 5 /\ 2 * (k + 1) + 16 = 2 * k + 18
      BY <2>2
    <3>2. TrapTop(2 * (k + 1) + 16) = Base - 80 - 8 * (k + 1)
      BY <1>2, <3>1, TrapTops
    <3> QED
      BY <1>4, <2>1, <3>1, <3>2
  <2>3. CASE k = 5
    <3>1. 1 \in 1 .. 9 /\ 1 + 27 = 2 * k + 18
      BY <2>3
    <3>2. TrapTop(1 + 27) = Base - 120 - 8 * 1
      BY <1>2, <3>1, TrapTops
    <3> QED
      BY <1>4, <2>1, <2>3, <3>1, <3>2
  <2> QED
    BY <2>2, <2>3
<1>6. a \in Int /\ a = Base - 88 - 8 * k /\ TrapTop(i) = a + 8 /\ TrapTop(i) <= Base - 76 /\ TrapTop(i) \in Int
  BY <1>1, <1>4, <1>5
<1>7. regs["rsp"] = Stack(TrapTop(i))
  BY <1>2 DEF TrappedAt
<1>8. regs["rax"] = AtFault(q)
  <2>1. Carries64(2 * k + 17)
    BY DEF Carries64
  <2>2. ((2 * k + 17) - 17) \div 2 = k /\ ~(2 * k + 17 <= 5) /\ 2 * k + 17 \in 18 .. 27
    OBVIOUS
  <2>3. Carried64(2 * k + 17) = q
    BY <2>2 DEF Carried64
  <2> QED
    BY <1>2, <2>1, <2>3 DEF TrappedAt
<1>9. ~Carries64(2 * k + 18)
  BY DEF Carries64
<1>10. q \in Registers(64) /\ Size64(q) = 8 /\ Offset(64, q) = 8 * ((24 - k) - 1)
  <2>1. q = Wide(64)[24 - k] /\ q \notin ToSet(Segments) /\ q \in Registers(64)
    BY Registers64 DEF Wide, Controls64, Segments, ToSet
  <2>2. 24 - k \in 1 .. 23
    OBVIOUS
  <2> QED
    BY <2>1, <2>2, WideOffsets DEF Size64
<1>11. InTrap(i) /\ ~Carries64(i + 1)
  BY <1>1, <1>9
<1> HIDE DEF i, q
<1>12. Puts("rsp", Stack(TrapTop(i) - 8)) /\ Writes(TrapTop(i) - 8, regs["rax"]) /\ Kept
  BY <1>2, <1>3, <1>6, <1>7, PushDoes
<1>13. TrapTop(i) - 8 = a /\ a = Area64 + Offset(64, q) /\ TrapTop(i) = a + Size64(q)
  BY <1>4, <1>6, <1>10
<1>14. TrapDone(i + 1)
  BY <1>1, <1>6, <1>8, <1>10, <1>11, <1>12, <1>13, TrapPushes
<1> QED
  BY <1>1, <1>14

(* A push of the register r[k] itself, from r15 down to r8 and from rdi    *)
(* down to rcx.                                                            *)
LEMMA WidePush ==
  ASSUME NEW i \in 28 .. 43, InTrap(i), StubStep, NEW k \in 1 .. 23, Instr = Push(Wide(64)[k]),
         TrapTop(i) = Base - 272 + 8 * k, TrapTop(i + 1) = Base - 280 + 8 * k, k < 20,
         Wide(64)[k] \in Missing64(i + 1) \/ regs[Wide(64)[k]] = AtFault(Wide(64)[k])
  PROVE  TrapDone(i + 1)
<1> DEFINE q == Wide(64)[k]
           a == TrapTop(i + 1)
<1>1. i \in 6 .. 45
  OBVIOUS
<1>2. bits = 64 /\ StubsTypeOK /\ TrappedAt(i)
  BY DEF InTrap
<1>3. Sp(bits) = "rsp" /\ Bytes(bits) = 8
  BY TrapInstr
<1>4. Base \in Int /\ Area64 = Base - 272
  BY <1>2, Bases
<1>6. a \in Int /\ TrapTop(i) = a + 8 /\ TrapTop(i) <= Base - 76 /\ TrapTop(i) \in Int
  BY <1>4
<1>7. regs["rsp"] = Stack(TrapTop(i))
  BY <1>2 DEF TrappedAt
<1>9. ~Carries64(i + 1)
  BY DEF Carries64
<1>10. q \in Registers(64) /\ Size64(q) = 8 /\ Offset(64, q) = 8 * (k - 1)
  <2>1. q \notin ToSet(Segments) /\ q \in Registers(64)
    BY Registers64 DEF Wide, Segments, ToSet
  <2> QED
    BY <2>1, WideOffsets DEF Size64
<1>11. Instr = Push(q) /\ (q \in Missing64(i + 1) \/ regs[q] = AtFault(q))
  OBVIOUS
<1>15. a = Base - 280 + 8 * k
  OBVIOUS
<1> HIDE DEF q, a
<1>12. Puts("rsp", Stack(TrapTop(i) - 8)) /\ Writes(TrapTop(i) - 8, regs[q]) /\ Kept
  BY <1>2, <1>3, <1>6, <1>7, <1>11, PushDoes
<1>13. TrapTop(i) - 8 = a /\ a = Area64 + Offset(64, q) /\ TrapTop(i) = a + Size64(q)
  BY <1>4, <1>6, <1>10, <1>15
<1> QED
  BY <1>1, <1>6, <1>9, <1>10, <1>11, <1>12, <1>13, TrapPushes DEF a

LEMMA HighPush ==
  ASSUME NEW k \in 1 .. 8, InTrap(k + 27), StubStep
  PROVE  TrapDone(k + 28)
<1> DEFINE i == k + 27
           j == 19 - k
<1>1. i \in 28 .. 43 /\ i + 1 = k + 28 /\ j \in 1 .. 23 /\ j < 20 /\ j \in 11 .. 18 /\ i \in 6 .. 55
  OBVIOUS
<1>2. bits = 64 /\ StubsTypeOK
  BY DEF InTrap
<1>3. Instr = Push(Wide(64)[j])
  BY TrapInstr, SharedInstr DEF StubIs
<1>4. Base \in Int
  BY <1>2, Bases
<1>5. TrapTop(k + 27) = Base - 120 - 8 * k /\ TrapTop(k + 28) = Base - 128 - 8 * k
  <2>1. k + 1 \in 1 .. 9 /\ (k + 1) + 27 = k + 28 /\ k \in 1 .. 9
    OBVIOUS
  <2>2. TrapTop((k + 1) + 27) = Base - 120 - 8 * (k + 1) /\ TrapTop(k + 27) = Base - 120 - 8 * k
    BY <1>2, <2>1, TrapTops
  <2> QED
    BY <1>4, <2>1, <2>2
<1>6. TrapTop(i) = Base - 272 + 8 * j /\ TrapTop(i + 1) = Base - 280 + 8 * j
  BY <1>1, <1>4, <1>5
<1>7. InTrap(i)
  OBVIOUS
<1> HIDE DEF i, j
<1>8. regs[Wide(64)[j]] = AtFault(Wide(64)[j])
  BY <1>1, <1>7, AtFaultUnchanged
<1>9. TrapDone(i + 1)
  BY <1>1, <1>3, <1>6, <1>7, <1>8, WidePush
<1> QED
  BY <1>1, <1>9

LEMMA LowPush ==
  ASSUME NEW k \in 1 .. 7, InTrap(k + 36), StubStep
  PROVE  TrapDone(k + 37)
<1> DEFINE i == k + 36
           j == 9 - k
<1>1. i \in 28 .. 43 /\ i + 1 = k + 37 /\ j \in 1 .. 23 /\ j < 20 /\ j \in 2 .. 8 /\ i \in 6 .. 55
  OBVIOUS
<1>2. bits = 64 /\ StubsTypeOK
  BY DEF InTrap
<1>3. Instr = Push(Wide(64)[j])
  BY TrapInstr, SharedInstr DEF StubIs
<1>4. Base \in Int
  BY <1>2, Bases
<1>5. TrapTop(k + 36) = Base - 200 - 8 * k /\ TrapTop(k + 37) = Base - 208 - 8 * k
  <2>1. k + 1 \in 1 .. 8 /\ (k + 1) + 36 = k + 37 /\ k \in 1 .. 8
    OBVIOUS
  <2>2. TrapTop((k + 1) + 36) = Base - 200 - 8 * (k + 1) /\ TrapTop(k + 36) = Base - 200 - 8 * k
    BY <1>2, <2>1, TrapTops
  <2> QED
    BY <1>4, <2>1, <2>2
<1>6. TrapTop(i) = Base - 272 + 8 * j /\ TrapTop(i + 1) = Base - 280 + 8 * j
  BY <1>1, <1>4, <1>5
<1>7. InTrap(i)
  OBVIOUS
<1> HIDE DEF i, j
<1>8. Wide(64)[j] \in Missing64(i + 1) \/ regs[Wide(64)[j]] = AtFault(Wide(64)[j])
  <2>1. CASE j \in {2, 3, 4, 7, 8}
    BY <1>1, <1>7, <2>1, AtFaultUnchanged
  <2>2. CASE j \in {5, 6}
    <3>1. Wide(64)[5] = "rsp" /\ Wide(64)[6] = "rbp"
      BY DEF Wide
    <3>2. "rsp" \in Missing64(i + 1) /\ "rbp" \in Missing64(i + 1)
      BY <1>1 DEF Missing64
    <3> QED
      BY <2>2, <3>1, <3>2
  <2> QED
    BY <1>1, <2>1, <2>2
<1>9. TrapDone(i + 1)
  BY <1>1, <1>3, <1>6, <1>7, <1>8, WidePush
<1> QED
  BY <1>1, <1>9

(* The words of the save area for rip and rflags, skipped.                 *)
LEMMA SkipFrame ==
  ASSUME InTrap(36), StubStep
  PROVE  TrapDone(37)
<1>1. bits = 64 /\ StubsTypeOK /\ TrappedAt(36)
  BY DEF InTrap
<1>2. Instr = Sub("rsp", 16)
  BY TrapInstr, SharedInstr DEF StubIs
<1>3. Base \in Int /\ Area64 = Base - 272 /\ EntryTop \in Int
  BY <1>1, Bases, EntryTop64
<1>4. TrapTop(36) = Base - 192 /\ TrapTop(37) = Base - 208
  <2>1. 9 \in 1 .. 9 /\ 9 + 27 = 36 /\ 1 \in 1 .. 8 /\ 1 + 36 = 37
    OBVIOUS
  <2>2. TrapTop(9 + 27) = Base - 120 - 8 * 9 /\ TrapTop(1 + 36) = Base - 200 - 8 * 1
    BY <1>1, <2>1, TrapTops
  <2> QED
    BY <1>3, <2>1, <2>2
<1>5. regs["rsp"] = Stack(TrapTop(36)) /\ TrapTop(36) \in Int
  BY <1>1, <1>3, <1>4 DEF TrappedAt
<1>6. Puts("rsp", Stack(TrapTop(36) - 16)) /\ WritesNothing /\ Kept
  BY <1>1, <1>2, <1>5, RaxIsRegister, SubDoes
<1>7. TrapTop(36) - 16 = TrapTop(37)
  BY <1>3, <1>4
<1>8. Contents(stack', EntryTop - 8) = AtFault("rbp") /\ Contents(stack', EntryTop - 16) = AtFault("rax")
  <2>1. Contents(stack, EntryTop - 8) = AtFault("rbp") /\ Contents(stack, EntryTop - 16) = AtFault("rax")
    BY <1>1 DEF TrappedAt, Read
  <2> QED
    BY <1>3, <1>6, <2>1 DEF WritesNothing
<1>9. HoldsNext(37)
  <2> SUFFICES ASSUME NEW q \in Registers(64) \ Missing64(37),
                      Area64 + Offset(64, q) >= TrapTop(37)
               PROVE  Contents(stack', Area64 + Offset(64, q)) = AtFault(q)
    BY DEF HoldsNext
  <2>1. q \in Registers(64) \ Missing64(36) /\ q # "rip" /\ q # "rflags"
    BY DEF Missing64
  <2>2. Offset(64, q) \in Int /\ Area64 + Offset(64, q) \in Int /\ Offset(64, q) >= 64
    BY <1>3, <1>4, Offsets64
  <2>3. /\ "rip" \in Registers(64) /\ "rflags" \in Registers(64)
        /\ Size64("rip") = 8 /\ Size64("rflags") = 8
        /\ Offset(64, "rip") = 72 /\ Offset(64, "rflags") = 64
    <3>1. Wide(64)[9] = "rflags" /\ Wide(64)[10] = "rip" /\ 9 \in 1 .. 23 /\ 10 \in 1 .. 23
      BY DEF Wide
    <3>2. Offset(64, "rflags") = 8 * (9 - 1) /\ Offset(64, "rip") = 8 * (10 - 1)
      BY <3>1, WideOffsets
    <3> QED
      BY <3>2, Registers64 DEF Size64, Segments, ToSet
  <2>4. Offset(64, q) >= 72
    BY <2>1, <2>2, <2>3, Offsets64
  <2>5. Offset(64, q) >= 80
    BY <2>1, <2>2, <2>3, <2>4, Offsets64
  <2>6. Area64 + Offset(64, q) >= TrapTop(36) /\ 36 > 5
    BY <1>3, <1>4, <2>2, <2>5
  <2>7. Contents(stack, Area64 + Offset(64, q)) = AtFault(q)
    BY <1>1, <2>1, <2>6 DEF TrappedAt, Read
  <2> QED
    BY <1>6, <2>2, <2>7 DEF WritesNothing
<1>10. ArgumentsNext(37)
  BY <1>6, NoArguments
<1>11. "rsp" \in Changed64(37) \ {"rip", "rflags"} /\ "rsp" # "rbp" /\ 37 # 4 /\ ~Carries64(37)
  BY DEF Changed64, Carries64
<1>12. TrapNext(37, "rsp", Stack(TrapTop(37)))
  BY <1>8, <1>9, <1>10, <1>11, Zenon DEF TrapNext
<1>13. TrappedAt(37)'
  <2> DEFINE i == 36
  <2>1. i \in 2 .. 60 /\ i + 1 = 37
    OBVIOUS
  <2>2. TrappedAt(i) /\ TrapNext(i + 1, "rsp", Stack(TrapTop(37))) /\ Puts("rsp", Stack(TrapTop(37)))
    BY <1>1, <1>6, <1>7, <1>12
  <2> HIDE DEF i
  <2>3. TrappedAt(i + 1)'
    BY <1>1, <1>6, <2>1, <2>2, TrapAdvances
  <2> QED
    BY <2>1, <2>3
<1> QED
  BY <1>1, <1>6, <1>13, NothingAbove DEF TrapDone, Puts

LEMMA MistakenInTrap ==
  ASSUME bits = 64, raised \in Vectors64 \ IRQs
  PROVE  Mistaken = IF raised \in ErrorVectors THEN {} ELSE {"rax", "rbp"}
BY DEF Mistaken, Gates, Gates64

(* mov rax, [rsp + 200]: where traperr saved rax, and trap has padding.    *)
LEMMA RestoreRax ==
  ASSUME InTrap(44), StubStep
  PROVE  TrapDone(45)
<1> DEFINE i == 44
           v == Contents(stack, TrapTop(44) + 200)
<1>1. i \in 6 .. 55 /\ i \notin {47, 51, 53, 55} /\ i + 1 = 45
  OBVIOUS
<1>2. bits = 64 /\ StubsTypeOK /\ TrappedAt(44)
  BY DEF InTrap
<1>3. Instr = Load("rax", "rsp", 200)
  BY TrapInstr, SharedInstr DEF StubIs
<1>4. Base \in Int /\ TrapTop(44) = Base - 264 /\ TrapTop(45) = Base - 264 /\ EntryTop \in Int
  <2>1. 8 \in 1 .. 8 /\ 8 + 36 = 44
    OBVIOUS
  <2>2. TrapTop(8 + 36) = Base - 200 - 8 * 8
    BY <1>2, <2>1, TrapTops
  <2> QED
    BY <1>2, <2>1, <2>2, Bases, TrapTops, EntryTop64
<1>5. regs["rsp"] = Stack(TrapTop(44)) /\ TrapTop(44) \in Int
  BY <1>2, <1>4 DEF TrappedAt
<1>6. Puts("rax", v) /\ WritesNothing /\ Kept
  BY <1>2, <1>3, <1>5, RaxIsRegister, LoadDoes
<1>7. Carries64(45) => v = AtFault("rax")
  <2> SUFFICES ASSUME raised \in ErrorVectors PROVE v = AtFault("rax")
    BY DEF Carries64
  <2>1. EntryTop - 16 = TrapTop(44) + 200
    BY <1>2, <1>4, EntryTop64
  <2>2. Read(EntryTop - 16) = AtFault("rax")
    BY <1>2 DEF TrappedAt
  <2> QED
    BY <2>1, <2>2, Zenon DEF Read
<1>8. Carried64(45) = "rax"
  BY DEF Carried64
<1>9. TrapTop(i + 1) = TrapTop(i) /\ (Carries64(i + 1) => v = AtFault(Carried64(i + 1))) /\ InTrap(i)
  BY <1>4, <1>7, <1>8
<1> HIDE DEF i, v
<1>10. TrapDone(i + 1)
  BY <1>1, <1>6, <1>9, TrapLoads
<1> QED
  BY <1>1, <1>10

LEMMA RaxPush ==
  ASSUME InTrap(45), StubStep
  PROVE  TrapDone(46)
<1> DEFINE i == 45
           q == "rax"
           a == TrapTop(i + 1)
<1>1. i \in 6 .. 45 /\ i + 1 = 46
  OBVIOUS
<1>2. bits = 64 /\ StubsTypeOK /\ TrappedAt(i) /\ raised \in Vectors64 \ IRQs
  BY DEF InTrap
<1>3. Instr = Push("rax") /\ Sp(bits) = "rsp" /\ Bytes(bits) = 8
  BY TrapInstr, SharedInstr DEF StubIs
<1>4. Base \in Int /\ Area64 = Base - 272
  BY <1>2, Bases
<1>5. TrapTop(45) = Base - 264 /\ TrapTop(46) = Base - 272
  BY <1>2, <1>4, TrapTops
<1>6. a \in Int /\ a = Base - 272 /\ TrapTop(i) = a + 8 /\ TrapTop(i) <= Base - 76 /\ TrapTop(i) \in Int
  BY <1>1, <1>4, <1>5
<1>7. regs["rsp"] = Stack(TrapTop(i))
  BY <1>2 DEF TrappedAt
<1>8. q \in Missing64(i + 1) \/ regs["rax"] = AtFault(q)
  <2>1. CASE raised \in ErrorVectors
    <3>1. Carries64(45) /\ Carried64(45) = "rax"
      BY <2>1 DEF Carries64, Carried64
    <3> QED
      BY <1>2, <3>1 DEF TrappedAt
  <2>2. CASE raised \notin ErrorVectors
    <3>1. Mistaken = {"rax", "rbp"}
      BY <1>2, <2>2, MistakenInTrap
    <3> QED
      BY <3>1 DEF Missing64
  <2> QED
    BY <2>1, <2>2
<1>9. ~Carries64(46)
  BY DEF Carries64
<1>10. q \in Registers(64) /\ Size64(q) = 8 /\ Offset(64, q) = 0
  <2>1. q = Wide(64)[1] /\ q \notin ToSet(Segments) /\ q \in Registers(64)
    BY Registers64 DEF Wide, Segments, ToSet
  <2>2. Offset(64, Wide(64)[1]) = 8 * (1 - 1)
    BY WideOffsets
  <2> QED
    BY <2>1, <2>2 DEF Size64
<1>11. InTrap(i) /\ ~Carries64(i + 1)
  BY <1>1, <1>9
<1> HIDE DEF i
<1>12. Puts("rsp", Stack(TrapTop(i) - 8)) /\ Writes(TrapTop(i) - 8, regs["rax"]) /\ Kept
  BY <1>2, <1>3, <1>6, <1>7, PushDoes
<1>13. TrapTop(i) - 8 = a /\ a = Area64 + Offset(64, q) /\ TrapTop(i) = a + Size64(q)
  BY <1>4, <1>6, <1>10
<1> HIDE DEF q
<1>14. TrapDone(i + 1)
  BY <1>1, <1>6, <1>8, <1>10, <1>11, <1>12, <1>13, TrapPushes DEF q
<1> QED
  BY <1>1, <1>14

(* What the CPU pushed.                                                    *)
LEMMA FrameWords ==
  ASSUME NEW i, InTrap(i)
  PROVE  /\ \A k \in 1 .. 5 : Contents(stack, Base - 48 + 8 * k) = AtFault(Frame64[k])
         /\ raised \in ErrorVectors => Contents(stack, EntryTop) = Error(raised)
<1>1. bits = 64 /\ StubsTypeOK /\ FrameKept /\ raised # NoVector
  BY DEF InTrap, Vectors64, NoVector
<1>2. Pushed = <<"ss", "rsp", "rflags", "cs", "rip">> /\ Bytes(bits) = 8 /\ Base \in Int
  BY <1>1, Names, EntryTop64, Bases
<1>3. /\ \A j \in DOMAIN Pushed : Contents(stack, Base - Bytes(bits) * j) = AtFault(Pushed[j])
      /\ raised \in ErrorVectors => Contents(stack, EntryTop) = Error(raised)
  BY <1>1, Zenon DEF FrameKept, Read
<1>4. ASSUME NEW k \in 1 .. 5
      PROVE  Contents(stack, Base - 48 + 8 * k) = AtFault(Frame64[k])
  <2> DEFINE j == 6 - k
  <2>1. j \in 1 .. 5 /\ DOMAIN Pushed = 1 .. 5
    BY <1>2
  <2>2. Pushed[j] = Frame64[k]
    BY <1>2 DEF Frame64
  <2>3. Contents(stack, Base - Bytes(bits) * j) = AtFault(Pushed[j])
    BY <1>3, <2>1, Zenon
  <2>4. Contents(stack, Base - 8 * j) = AtFault(Frame64[k])
    BY <1>2, <2>2, <2>3, Zenon
  <2>5. Base - 8 * j = Base - 48 + 8 * k
    BY <1>2
  <2> QED
    BY <2>4, <2>5, Zenon
<1> QED
  BY <1>3, <1>4

(* mov rax, [rbp + n]: a word of the frame.                                *)
LEMMA FrameLoad ==
  ASSUME NEW k \in 1 .. 5, InTrap(2 * k + 44), StubStep
  PROVE  TrapDone(2 * k + 45)
<1> DEFINE i == 2 * k + 44
           n == IF raised \in ErrorVectors THEN 16 ELSE 8
           v == Contents(stack, EntryTop - 8 + (n + 8 * (k - 1)))
<1>1. i \in 6 .. 55 /\ i \notin {47, 51, 53, 55} /\ i + 1 = 2 * k + 45 /\ i > 3
  OBVIOUS
<1>2. bits = 64 /\ StubsTypeOK /\ TrappedAt(i)
  BY DEF InTrap
<1>3. Instr = Load("rax", "rbp", n + 8 * (k - 1))
  BY TrapInstr, SharedInstr DEF StubIs
<1>4. Base \in Int /\ EntryTop \in Int /\ EntryTop = IF raised \in ErrorVectors THEN Base - 48 ELSE Base - 40
  BY <1>2, Bases, EntryTop64
<1>5. regs["rbp"] = Stack(EntryTop - 8) /\ EntryTop - 8 \in Int /\ n + 8 * (k - 1) \in Int
  BY <1>1, <1>2, <1>4 DEF TrappedAt
<1>6. EntryTop - 8 + (n + 8 * (k - 1)) = Base - 48 + 8 * k
  BY <1>4
<1>7. v = AtFault(Frame64[k])
  BY <1>6, FrameWords
<1>8. Carried64(2 * k + 45) = Frame64[k]
  <2>1. /\ ((2 * k + 45) - 45) \div 2 = k /\ 2 * k + 45 \in 46 .. 55
        /\ ~(2 * k + 45 <= 5) /\ ~(2 * k + 45 \in 6 .. 17) /\ ~(2 * k + 45 \in 18 .. 27)
    OBVIOUS
  <2> QED
    BY <2>1 DEF Carried64
<1>9. TrapTop(2 * k + 45) = Area64 /\ TrapTop(2 * k + 44) = Area64
  BY <1>2, TrapTops
<1>10. TrapTop(i + 1) = TrapTop(i) /\ (Carries64(i + 1) => v = AtFault(Carried64(i + 1))) /\ InTrap(i)
  BY <1>1, <1>7, <1>8, <1>9
<1>11. "rax" \in Registers(bits) \ {Ip(bits)}
  BY <1>2, RaxIsRegister
<1>12. Puts("rax", v) /\ WritesNothing /\ Kept
  <2> DEFINE m == n + 8 * (k - 1)
             t == EntryTop - 8
  <2>1. m \in Int /\ t \in Int /\ Instr = Load("rax", "rbp", m) /\ regs["rbp"] = Stack(t) /\ v = Contents(stack, t + m)
    BY <1>3, <1>5
  <2> HIDE DEF m, t, v
  <2> QED
    BY <1>2, <1>11, <2>1, LoadDoes
<1> HIDE DEF i, v
<1>13. TrapDone(i + 1)
  BY <1>1, <1>10, <1>12, TrapLoads
<1> QED
  BY <1>1, <1>13

(* A store to the field q of the save area.                                *)
LEMMA TrapStores ==
  ASSUME NEW i \in 46 .. 60, InTrap(i), StubStep, NEW q \in Registers(64) \ {"rax"},
         Instr = Store("rsp", Offset(64, q), "rax"), regs["rax"] = AtFault(q),
         Missing64(i) \subseteq Missing64(i + 1) \cup {q}, ~Carries64(i + 1), ArgumentsNext(i + 1)
  PROVE  TrapDone(i + 1)
<1>1. bits = 64 /\ StubsTypeOK /\ TrappedAt(i)
  BY DEF InTrap
<1>2. Base \in Int /\ Area64 = Base - 272 /\ Area64 \in Int /\ EntryTop \in Int /\ EntryTop >= Base - 48
  BY <1>1, Bases, EntryTop64
<1>3. TrapTop(i) = Area64 /\ TrapTop(i + 1) = Area64
  BY <1>1, TrapTops
<1>4. regs["rsp"] = Stack(Area64)
  BY <1>1, <1>3 DEF TrappedAt
<1> DEFINE a == Area64 + Offset(64, q)
<1>5. Offset(64, q) \in 0 .. 194 /\ Offset(64, q) \in Int /\ a \in Int
  BY <1>2, Offsets64
<1>6. Puts("rax", regs["rax"]) /\ Writes(a, regs["rax"]) /\ Kept
  BY <1>1, <1>2, <1>4, <1>5, StoreDoes
<1>7. a < EntryTop - 16 /\ a < EntryTop
  BY <1>2, <1>5
<1> HIDE DEF a
<1>8. Contents(stack', EntryTop - 8) = AtFault("rbp") /\ Contents(stack', EntryTop - 16) = AtFault("rax")
  <2>1. i > 2 /\ i > 4
    OBVIOUS
  <2>2. Contents(stack, EntryTop - 8) = AtFault("rbp") /\ Contents(stack, EntryTop - 16) = AtFault("rax")
    BY <1>1, <2>1 DEF TrappedAt, Read
  <2> QED
    BY <1>2, <1>5, <1>6, <1>7, <2>2 DEF Writes
<1>9. HoldsNext(i + 1)
  <2> SUFFICES ASSUME NEW p \in Registers(64) \ Missing64(i + 1)
               PROVE  Contents(stack', Area64 + Offset(64, p)) = AtFault(p)
    BY DEF HoldsNext
  <2>1. Area64 + Offset(64, p) \in Int /\ Offset(64, p) \in Int /\ Area64 + Offset(64, p) >= TrapTop(i)
    BY <1>2, <1>3, Offsets64
  <2>2. CASE p = q
    BY <1>5, <1>6, <2>2 DEF Writes, a
  <2>3. CASE p # q
    <3>1. p \in Registers(64) \ Missing64(i) /\ i > 5
      BY <2>3
    <3>2. Contents(stack, Area64 + Offset(64, p)) = AtFault(p)
      BY <1>1, <2>1, <3>1 DEF TrappedAt, Read
    <3>3. Offset(64, p) # Offset(64, q)
      <4>1. Size64(q) \in {2, 8}
        BY DEF Size64
      <4>2. Offset(64, p) >= Offset(64, q) => Offset(64, p) >= Offset(64, q) + Size64(q)
        BY <2>3, Offsets64
      <4> QED
        BY <1>5, <2>1, <4>1, <4>2
    <3>4. Area64 + Offset(64, p) # a
      BY <1>2, <1>5, <2>1, <3>3 DEF a
    <3> QED
      BY <1>6, <2>1, <3>2, <3>4 DEF Writes
  <2> QED
    BY <2>2, <2>3
<1>10. "rax" \in Changed64(i + 1) \ {"rip", "rflags"} /\ "rax" # "rsp" /\ "rax" # "rbp" /\ i + 1 # 4
  BY DEF Changed64
<1>11. TrapTop(i + 1) = TrapTop((i + 1) - 1)
  <2>1. (i + 1) - 1 = i
    OBVIOUS
  <2> QED
    BY <1>3, <2>1, Zenon
<1>12. TrapNext(i + 1, "rax", regs["rax"])
  BY <1>8, <1>9, <1>10, <1>11, Zenon DEF TrapNext
<1>13. TrappedAt(i + 1)'
  BY <1>1, <1>6, <1>12, TrapAdvances
<1>14. KeepsAbove(EntryTop)
  BY <1>2, <1>5, <1>6, <1>7, NotAbove
<1> QED
  BY <1>1, <1>6, <1>13, <1>14 DEF TrapDone, Puts

LEMMA FrameStore ==
  ASSUME NEW k \in 1 .. 5, InTrap(2 * k + 45), StubStep
  PROVE  TrapDone(2 * k + 46)
<1> DEFINE i == 2 * k + 45
           q == Frame64[k]
<1>1. i \in 46 .. 60 /\ i + 1 = 2 * k + 46 /\ i + 1 \in 0 .. 56
  OBVIOUS
<1>2. bits = 64 /\ StubsTypeOK /\ TrappedAt(i)
  BY DEF InTrap
<1>3. Instr = Store("rsp", Offset(64, q), "rax")
  BY TrapInstr, SharedInstr DEF StubIs
<1>4. q \in Registers(64) \ {"rax"}
  BY Registers64 DEF Frame64
<1>5. regs["rax"] = AtFault(q)
  <2>1. /\ ((2 * k + 45) - 45) \div 2 = k /\ 2 * k + 45 \in 46 .. 55
        /\ ~(2 * k + 45 <= 5) /\ ~(2 * k + 45 \in 6 .. 17) /\ ~(2 * k + 45 \in 18 .. 27)
    OBVIOUS
  <2>2. Carried64(2 * k + 45) = q /\ Carries64(2 * k + 45)
    BY <2>1 DEF Carried64, Carries64
  <2> QED
    BY <1>2, <2>2 DEF TrappedAt
<1>6. Missing64(2 * k + 45) \subseteq Missing64(2 * k + 46) \cup {q}
  BY DEF Missing64, Frame64
<1>7. ~Carries64(2 * k + 46)
  BY DEF Carries64
<1>8. Missing64(i) \subseteq Missing64(i + 1) \cup {q} /\ ~Carries64(i + 1) /\ InTrap(i)
  BY <1>1, <1>6, <1>7
<1>9. Kept
  <2>1. ExecStore
    BY <1>3, StepIs DEF Store
  <2> QED
    BY <2>1 DEF ExecStore, Kept
<1> HIDE DEF i, q
<1>10. ArgumentsNext(i + 1)
  BY <1>1, <1>9, NoArguments
<1>11. TrapDone(i + 1)
  BY <1>1, <1>3, <1>4, <1>5, <1>8, <1>10, TrapStores
<1> QED
  BY <1>1, <1>11

(* The arguments of the call.                                              *)
LEMMA ArgumentPut ==
  ASSUME NEW i \in 56 .. 60, InTrap(i), Kept, NEW r, NEW v, Puts(r, v),
         NEW j, j = IF raised \in ErrorVectors THEN i - 2 ELSE i, j <= 58,
         j = 56 => r = "rdi" /\ v = Stack(Area64),
         j = 57 => r = "rsi" /\ v = Number(raised),
         j = 58 => r = "rdx" /\ v = IF raised \in ErrorVectors THEN Error(raised) ELSE Number(0)
  PROVE  ArgumentsNext(i + 1)
<1>1. bits = 64 /\ Arguments64(j)
  BY DEF InTrap, TrappedAt
<1>2. /\ "rdi" \in Registers(64) \ {"rip"} /\ "rsi" \in Registers(64) \ {"rip"}
      /\ "rdx" \in Registers(64) \ {"rip"} /\ Ip(bits) = "rip"
  BY <1>1, Registers64, Names
<1>3. \A x \in {"rdi", "rsi", "rdx"} : regs'[x] = IF x = r THEN v ELSE regs[x]
  BY <1>1, <1>2 DEF Puts
<1>4. j \in 54 .. 58 /\ (IF raised \in ErrorVectors THEN (i + 1) - 2 ELSE i + 1) = j + 1
  OBVIOUS
<1>5. (IF raised \in ErrorVectors THEN (i + 1) - 2 ELSE i + 1)' = j + 1 /\ Area64' = Area64
  BY <1>4, MeansKept DEF Kept
<1>6. /\ j + 1 > 56 => regs'["rdi"] = Stack(Area64)
      /\ j + 1 > 57 => regs'["rsi"] = Number(raised)
      /\ j + 1 > 58 => regs'["rdx"] = IF raised \in ErrorVectors THEN Error(raised) ELSE Number(0)
  <2>1. CASE j < 56
    BY <1>4, <2>1
  <2>2. CASE j = 56
    BY <1>3, <2>2
  <2>3. CASE j = 57
    BY <1>1, <1>3, <2>3 DEF Arguments64
  <2>4. CASE j = 58
    BY <1>1, <1>3, <2>4 DEF Arguments64
  <2> QED
    BY <1>4, <2>1, <2>2, <2>3, <2>4
<1>7. Arguments64(j + 1)'
  <2>1. Stack(Area64)' = Stack(Area64) /\ Number(raised)' = Number(raised) /\ Error(raised)' = Error(raised)
        /\ (raised \in ErrorVectors)' = (raised \in ErrorVectors)
    BY <1>5 DEF Kept
  <2> QED
    BY <1>6, <2>1 DEF Arguments64
<1> QED
  BY <1>5, <1>7, Zenon DEF ArgumentsNext

(* The instructions before the call, but for the store of rbp.             *)
LEMMA TrapSets ==
  ASSUME NEW i \in 56 .. 60, InTrap(i), Kept, NEW r \in {"rax", "rdi", "rsi", "rdx"}, NEW v,
         Puts(r, v), WritesNothing, Missing64(i + 1) = Missing64(i),
         Carries64(i + 1) => r = "rax" /\ v = AtFault(Carried64(i + 1)),
         ArgumentsNext(i + 1)
  PROVE  TrapDone(i + 1)
<1>1. bits = 64 /\ TrappedAt(i) /\ StubsTypeOK
  BY DEF InTrap
<1>2. EntryTop \in Int /\ Area64 \in Int
  BY <1>1, EntryTop64, Bases
<1>3. Contents(stack', EntryTop - 8) = AtFault("rbp") /\ Contents(stack', EntryTop - 16) = AtFault("rax")
  <2>1. i > 2 /\ i > 4
    OBVIOUS
  <2>2. Contents(stack, EntryTop - 8) = AtFault("rbp") /\ Contents(stack, EntryTop - 16) = AtFault("rax")
    BY <1>1, <2>1 DEF TrappedAt, Read
  <2> QED
    BY <1>2, <2>2 DEF WritesNothing
<1>4. TrapTop(i) = Area64 /\ TrapTop(i + 1) = Area64
  BY <1>1, TrapTops
<1>5. HoldsNext(i + 1)
  <2> SUFFICES ASSUME NEW q \in Registers(64) \ Missing64(i + 1),
                      Area64 + Offset(64, q) >= TrapTop(i + 1)
               PROVE  Contents(stack', Area64 + Offset(64, q)) = AtFault(q)
    BY DEF HoldsNext
  <2>1. Area64 + Offset(64, q) >= TrapTop(i) /\ q \in Registers(64) \ Missing64(i) /\ i > 5
    BY <1>4
  <2>2. Contents(stack, Area64 + Offset(64, q)) = AtFault(q)
    BY <1>1, <2>1 DEF TrappedAt, Read
  <2>3. Area64 + Offset(64, q) \in Int
    BY <1>2, Offsets64
  <2> QED
    BY <2>2, <2>3 DEF WritesNothing
<1>6. r \in Changed64(i + 1) \ {"rip", "rflags"} /\ r # "rsp" /\ r # "rbp" /\ i + 1 # 4
  BY DEF Changed64
<1>7. TrapTop(i + 1) = TrapTop((i + 1) - 1)
  <2>1. (i + 1) - 1 = i
    OBVIOUS
  <2> QED
    BY <1>4, <2>1, Zenon
<1>8. TrapNext(i + 1, r, v)
  BY <1>3, <1>5, <1>6, <1>7, Zenon DEF TrapNext
<1>9. TrappedAt(i + 1)'
  BY <1>1, <1>8, TrapAdvances
<1> QED
  BY <1>1, <1>9, NothingAbove DEF TrapDone, Puts

(* The end of trap.                                                        *)
LEMMA PlainEnd ==
  ASSUME NEW i \in 56 .. 58, InTrap(i), StubStep, raised \notin ErrorVectors
  PROVE  TrapDone(i + 1)
<1>1. bits = 64 /\ TrappedAt(i) /\ StubsTypeOK /\ raised \in Vectors64 \ IRQs /\ i \in 56 .. 60
  BY DEF InTrap
<1>2. Mistaken = {"rax", "rbp"} /\ Missing64(i + 1) = Missing64(i) /\ ~Carries64(i + 1)
  <2>1. Mistaken = {"rax", "rbp"}
    BY <1>1, MistakenInTrap
  <2> QED
    BY <2>1 DEF Missing64, Carries64
<1>3. Plain(raised)
  BY TrapInstr
<1>4. regs["rsp"] = Stack(Area64)
  BY <1>1, TrapTops DEF TrappedAt
<1>5. PICK r \in {"rdi", "rsi", "rdx"}, v \in {Stack(Area64), Number(raised), Number(0)} :
        /\ i = 56 => r = "rdi" /\ v = Stack(Area64)
        /\ i = 57 => r = "rsi" /\ v = Number(raised)
        /\ i = 58 => r = "rdx" /\ v = Number(0)
  OBVIOUS
<1>6. Puts(r, v) /\ WritesNothing /\ Kept
  <2>1. CASE i = 56
    <3>1. Instr = Mov("rdi", "rsp")
      BY <1>3, <2>1, TrapInstr DEF Plain
    <3> QED
      BY <1>1, <1>4, <1>5, <2>1, <3>1, RaxIsRegister, MovDoes
  <2>2. CASE i = 57
    <3>1. Instr = Set("rsi", Number(raised))
      BY <1>3, <2>2, TrapInstr DEF Plain
    <3> QED
      BY <1>1, <1>5, <2>2, <3>1, RaxIsRegister, SetDoes
  <2>3. CASE i = 58
    <3>1. Instr = Set("rdx", Number(0))
      BY <1>3, <2>3, TrapInstr DEF Plain
    <3> QED
      BY <1>1, <1>5, <2>3, <3>1, RaxIsRegister, SetDoes
  <2> QED
    BY <2>1, <2>2, <2>3
<1>7. ArgumentsNext(i + 1)
  <2> DEFINE j == IF raised \in ErrorVectors THEN i - 2 ELSE i
  <2>1. j = i /\ j <= 58
    OBVIOUS
  <2>2. /\ j = 56 => r = "rdi" /\ v = Stack(Area64)
        /\ j = 57 => r = "rsi" /\ v = Number(raised)
        /\ j = 58 => r = "rdx" /\ v = IF raised \in ErrorVectors THEN Error(raised) ELSE Number(0)
    BY <1>5, <2>1
  <2> QED
    BY <1>1, <1>6, <2>1, <2>2, ArgumentPut
<1>8. r \in {"rax", "rdi", "rsi", "rdx"}
  BY <1>5
<1> QED
  BY <1>1, <1>2, <1>6, <1>7, <1>8, TrapSets

(* The end of traperr: rbp is found on the stack and stored.               *)
LEMMA ErrorEnd ==
  ASSUME NEW i \in 56 .. 60, InTrap(i), StubStep, raised \in ErrorVectors
  PROVE  TrapDone(i + 1)
<1>1. bits = 64 /\ TrappedAt(i) /\ StubsTypeOK /\ raised \in Vectors64 \ IRQs
  BY DEF InTrap
<1>2. WithError(raised)
  BY TrapInstr
<1>3. regs["rsp"] = Stack(Area64) /\ regs["rbp"] = Stack(EntryTop - 8) /\ EntryTop - 8 \in Int
  <2>1. i > 3
    OBVIOUS
  <2> QED
    BY <1>1, <2>1, TrapTops, EntryTop64 DEF TrappedAt
<1> DEFINE j == IF raised \in ErrorVectors THEN i - 2 ELSE i
<1>4. j = i - 2 /\ j <= 58
  OBVIOUS
<1>5. CASE i = 56
  <2> DEFINE v == Contents(stack, (EntryTop - 8) + 0)
  <2>1. Instr = Load("rax", "rbp", 0)
    BY <1>2, <1>5, TrapInstr DEF WithError
  <2>2. Puts("rax", v) /\ WritesNothing /\ Kept
    BY <1>1, <1>3, <2>1, RaxIsRegister, LoadDoes
  <2>3. v = AtFault("rbp")
    <3>1. (EntryTop - 8) + 0 = EntryTop - 8
      BY <1>3
    <3>2. Read(EntryTop - 8) = AtFault("rbp")
      BY <1>1, <1>5 DEF TrappedAt
    <3> QED
      BY <3>1, <3>2, Zenon DEF Read
  <2>4. Carried64(i + 1) = "rbp" /\ Missing64(i + 1) = Missing64(i)
    BY <1>5 DEF Carried64, Missing64
  <2> HIDE DEF v
  <2>5. ArgumentsNext(i + 1)
    BY <1>1, <1>4, <1>5, <2>2, ArgumentPut
  <2> QED
    BY <1>1, <2>2, <2>3, <2>4, <2>5, TrapSets
<1>6. CASE i = 57
  <2>1. Instr = Store("rsp", Offset(64, "rbp"), "rax")
    BY <1>2, <1>6, TrapInstr DEF WithError
  <2>2. regs["rax"] = AtFault("rbp")
    <3>1. Carries64(57) /\ Carried64(57) = "rbp"
      BY DEF Carries64, Carried64
    <3> QED
      BY <1>1, <1>6, <3>1 DEF TrappedAt
  <2>3. Missing64(57) \subseteq Missing64(58) \cup {"rbp"} /\ ~Carries64(58)
    BY DEF Missing64, Carries64
  <2>4. "rbp" \in Registers(64) \ {"rax"} /\ Offset(64, "rbp") \in Int
    BY Registers64, Offsets64
  <2>5. Puts("rax", regs["rax"]) /\ Kept
    <3>1. Area64 \in Int
      BY <1>1, Bases
    <3> QED
      BY <1>1, <1>3, <2>1, <2>4, <3>1, StoreDoes
  <2>6. ArgumentsNext(i + 1)
    BY <1>1, <1>4, <1>6, <2>5, ArgumentPut
  <2>7. i + 1 = 58 /\ i \in 46 .. 60
    BY <1>6
  <2> QED
    BY <1>1, <1>6, <2>1, <2>2, <2>3, <2>4, <2>6, <2>7, TrapStores
<1>7. CASE i \in 58 .. 60
  <2>1. Missing64(i + 1) = Missing64(i) /\ ~Carries64(i + 1)
    BY <1>7 DEF Missing64, Carries64
  <2>2. PICK r \in {"rdi", "rsi", "rdx"}, v \in {Stack(Area64), Number(raised), Error(raised)} :
          /\ i = 58 => r = "rdi" /\ v = Stack(Area64)
          /\ i = 59 => r = "rsi" /\ v = Number(raised)
          /\ i = 60 => r = "rdx" /\ v = Error(raised)
    BY <1>7
  <2>3. Puts(r, v) /\ WritesNothing /\ Kept
    <3>1. CASE i = 58
      <4>1. Instr = Mov("rdi", "rsp")
        BY <1>2, <3>1, TrapInstr DEF WithError
      <4> QED
        BY <1>1, <1>3, <2>2, <3>1, <4>1, RaxIsRegister, MovDoes
    <3>2. CASE i = 59
      <4>1. Instr = Set("rsi", Number(raised))
        BY <1>2, <3>2, TrapInstr DEF WithError
      <4> QED
        BY <1>1, <2>2, <3>2, <4>1, RaxIsRegister, SetDoes
    <3>3. CASE i = 60
      <4>1. Instr = Load("rdx", "rbp", 8)
        BY <1>2, <3>3, TrapInstr DEF WithError
      <4>2. Puts("rdx", Contents(stack, (EntryTop - 8) + 8)) /\ WritesNothing /\ Kept
        BY <1>1, <1>3, <4>1, RaxIsRegister, LoadDoes
      <4>3. Contents(stack, (EntryTop - 8) + 8) = Error(raised)
        <5>1. (EntryTop - 8) + 8 = EntryTop
          BY <1>3, EntryTop64, <1>1
        <5>2. Contents(stack, EntryTop) = Error(raised)
          BY FrameWords
        <5> QED
          BY <5>1, <5>2, Zenon
      <4> QED
        BY <2>2, <3>3, <4>2, <4>3
    <3> QED
      BY <1>7, <3>1, <3>2, <3>3
  <2>4. ArgumentsNext(i + 1)
    <3>1. /\ j = 56 => r = "rdi" /\ v = Stack(Area64)
          /\ j = 57 => r = "rsi" /\ v = Number(raised)
          /\ j = 58 => r = "rdx" /\ v = IF raised \in ErrorVectors THEN Error(raised) ELSE Number(0)
      BY <1>4, <1>7, <2>2
    <3> QED
      BY <1>1, <1>4, <2>3, <3>1, ArgumentPut
  <2>5. r \in {"rax", "rdi", "rsi", "rdx"}
    BY <2>2
  <2> QED
    BY <1>1, <2>1, <2>3, <2>4, <2>5, TrapSets
<1> QED
  BY <1>5, <1>6, <1>7

(* push rbp; mov rbp, rsp; push rax; sub rsp, padding.                     *)
LEMMA TrapStarts ==
  ASSUME NEW i \in 2 .. 5, InTrap(i), StubStep
  PROVE  TrapDone(i + 1)
<1>1. bits = 64 /\ TrappedAt(i) /\ StubsTypeOK /\ raised \in Vectors64 \ IRQs /\ i \in 2 .. 60
  BY DEF InTrap
<1>2. /\ Base \in Int /\ EntryTop \in Int /\ Area64 = Base - 272
      /\ EntryTop = IF raised \in ErrorVectors THEN Base - 48 ELSE Base - 40
  BY <1>1, EntryTop64, Bases
<1>3. /\ Sp(bits) = "rsp" /\ Bytes(bits) = 8
      /\ IF raised \in ErrorVectors THEN StubIs(Text[Gates64[raised]], 0, 16) ELSE StubIs(Text[Gates64[raised]], 8, 8)
      /\ Instr = Text[Gates64[raised]][i]
  BY TrapInstr, SharedInstr
<1>4. regs["rsp"] = Stack(TrapTop(i)) /\ TrapTop(i) \in Int
  BY <1>1, <1>2, TrapTops DEF TrappedAt
<1>5. regs["rax"] = AtFault("rax")
  <2>1. Carries64(i) /\ Carried64(i) = "rax"
    BY DEF Carries64, Carried64
  <2> QED
    BY <1>1, <2>1 DEF TrappedAt
<1>6. ASSUME NEW r \in {"rsp", "rbp"}, NEW v, Puts(r, v), Kept, KeepsAbove(EntryTop), TrapNext(i + 1, r, v)
      PROVE  TrapDone(i + 1)
  <2>1. TrappedAt(i + 1)'
    BY <1>1, <1>6, TrapAdvances
  <2> QED
    BY <1>1, <1>6, <2>1 DEF TrapDone, Puts
<1>7. ASSUME Kept PROVE ArgumentsNext(i + 1)
  BY <1>7, NoArguments
<1>8. CASE i = 2
  <2> DEFINE a == EntryTop - 8
             v == Stack(a)
  <2>1. Instr = Push("rbp")
    BY <1>3, <1>8 DEF StubIs
  <2>2. TrapTop(2) = EntryTop /\ TrapTop(3) = a
    BY <1>1, TrapTops
  <2>3. Puts("rsp", Stack(a)) /\ Writes(a, regs["rbp"]) /\ Kept
    BY <1>1, <1>2, <1>3, <1>4, <1>8, <2>1, <2>2, PushDoes
  <2>4. regs["rbp"] = AtFault("rbp")
    <3>1. "rbp" \in Registers(64) \ Changed64(2)
      BY Registers64 DEF Changed64
    <3> QED
      BY <1>1, <1>8, <3>1 DEF TrappedAt
  <2>5. a \in Int /\ a < EntryTop
    BY <1>2
  <2>6. KeepsAbove(EntryTop)
    BY <1>2, <2>3, <2>5, NotAbove
  <2>7. Contents(stack', EntryTop - 8) = AtFault("rbp")
    BY <2>3, <2>4, <2>5 DEF Writes
  <2>8. "rsp" \in Changed64(3) \ {"rip", "rflags"} /\ Carried64(3) = "rax" /\ "rsp" # "rbp" /\ "rsp" # "rax"
    BY DEF Changed64, Carried64
  <2>9. 3 # 4 /\ ~(3 > 4) /\ ~(3 > 5) /\ i + 1 = 3
    BY <1>8
  <2>10. ArgumentsNext(3)
    BY <1>7, <2>3, <2>9
  <2>11. TrapNext(3, "rsp", v)
    BY <1>5, <2>2, <2>7, <2>8, <2>9, <2>10, Zenon DEF TrapNext
  <2> QED
    BY <1>6, <2>3, <2>6, <2>9, <2>11
<1>9. CASE i = 3
  <2> DEFINE a == EntryTop - 8
             v == Stack(a)
  <2>1. Instr = Mov("rbp", "rsp")
    BY <1>3, <1>9 DEF StubIs
  <2>2. TrapTop(3) = a /\ TrapTop(4) = a
    BY <1>1, TrapTops
  <2>3. Puts("rbp", v) /\ WritesNothing /\ Kept
    BY <1>1, <1>4, <1>9, <2>1, <2>2, RaxIsRegister, MovDoes
  <2>7. Contents(stack', EntryTop - 8) = AtFault("rbp")
    <3>1. Contents(stack, EntryTop - 8) = AtFault("rbp")
      BY <1>1, <1>9 DEF TrappedAt, Read
    <3> QED
      BY <1>2, <2>3, <3>1 DEF WritesNothing
  <2>8. "rbp" \in Changed64(4) \ {"rip", "rflags"} /\ Carried64(4) = "rax" /\ "rbp" # "rsp" /\ "rbp" # "rax"
    BY DEF Changed64, Carried64
  <2>9. ~(4 > 4) /\ ~(4 > 5) /\ i + 1 = 4 /\ 4 - 1 = 3
    BY <1>9
  <2>10. ArgumentsNext(4)
    BY <1>7, <2>3, <2>9
  <2>11. TrapNext(4, "rbp", v)
    BY <1>5, <2>2, <2>7, <2>8, <2>9, <2>10, Zenon DEF TrapNext
  <2> QED
    BY <1>6, <2>3, <2>9, <2>11, NothingAbove
<1>10. CASE i = 4
  <2> DEFINE a == EntryTop - 16
             v == Stack(a)
  <2>1. Instr = Push("rax")
    BY <1>3, <1>10 DEF StubIs
  <2>2. TrapTop(4) = EntryTop - 8 /\ TrapTop(5) = a /\ TrapTop(4) - 8 = a
    BY <1>1, <1>2, TrapTops
  <2>3. Puts("rsp", Stack(a)) /\ Writes(a, regs["rax"]) /\ Kept
    BY <1>1, <1>3, <1>4, <1>10, <2>1, <2>2, PushDoes
  <2>5. a \in Int /\ a < EntryTop
    BY <1>2
  <2>6. KeepsAbove(EntryTop)
    BY <1>2, <2>3, <2>5, NotAbove
  <2>7. Contents(stack', EntryTop - 8) = AtFault("rbp") /\ Contents(stack', EntryTop - 16) = AtFault("rax")
    <3>1. Contents(stack, EntryTop - 8) = AtFault("rbp")
      BY <1>1, <1>10 DEF TrappedAt, Read
    <3> QED
      BY <1>2, <1>5, <2>3, <3>1 DEF Writes
  <2>8. "rsp" \in Changed64(5) \ {"rip", "rflags"} /\ Carried64(5) = "rax" /\ "rsp" # "rbp" /\ "rsp" # "rax"
    BY DEF Changed64, Carried64
  <2>9. 5 # 4 /\ ~(5 > 5) /\ i + 1 = 5
    BY <1>10
  <2>10. ArgumentsNext(5)
    BY <1>7, <2>3, <2>9
  <2>11. TrapNext(5, "rsp", v)
    BY <1>5, <2>2, <2>7, <2>8, <2>9, <2>10, Zenon DEF TrapNext
  <2> QED
    BY <1>6, <2>3, <2>6, <2>9, <2>11
<1>11. CASE i = 5
  <2> DEFINE n == IF raised \in ErrorVectors THEN 12 ELSE 20
             v == Stack(Base - 76)
  <2>1. Instr = Sub("rsp", n)
    <3>1. CASE raised \in ErrorVectors
      BY <1>3, <1>11, <3>1 DEF StubIs
    <3>2. CASE raised \notin ErrorVectors
      BY <1>3, <1>11, <3>2 DEF StubIs
    <3> QED
      BY <3>1, <3>2
  <2>2. TrapTop(5) = EntryTop - 16 /\ TrapTop(5) - n = Base - 76 /\ n \in Int
    BY <1>1, <1>2, TrapTops
  <2>12. TrapTop(6) = Base - 76
    <3>1. 1 \in 1 .. 6 /\ 2 * 1 + 4 = 6
      OBVIOUS
    <3>2. TrapTop(2 * 1 + 4) = Base - 74 - 2 * 1
      BY <1>1, <3>1, TrapTops
    <3> QED
      BY <1>2, <3>1, <3>2
  <2>3. Puts("rsp", v) /\ WritesNothing /\ Kept
    <3> HIDE DEF n
    <3>1. Puts("rsp", Stack(TrapTop(5) - n)) /\ WritesNothing /\ Kept
      BY <1>1, <1>4, <1>11, <2>1, <2>2, RaxIsRegister, SubDoes
    <3> QED
      BY <2>2, <3>1
  <2>7. Contents(stack', EntryTop - 8) = AtFault("rbp") /\ Contents(stack', EntryTop - 16) = AtFault("rax")
    <3>1. Contents(stack, EntryTop - 8) = AtFault("rbp") /\ Contents(stack, EntryTop - 16) = AtFault("rax")
      BY <1>1, <1>11 DEF TrappedAt, Read
    <3> QED
      BY <1>2, <2>3, <3>1 DEF WritesNothing
  <2>8. "rsp" \in Changed64(6) \ {"rip", "rflags"} /\ ~Carries64(6) /\ "rsp" # "rbp"
    BY DEF Changed64, Carries64
  <2>9. 6 # 4 /\ i + 1 = 6
    BY <1>11
  <2>10. ArgumentsNext(6)
    BY <1>7, <2>3, <2>9
  <2>13. HoldsNext(6)
    <3> SUFFICES ASSUME NEW q \in Registers(64), Area64 + Offset(64, q) >= TrapTop(6)
                 PROVE  FALSE
      BY DEF HoldsNext
    <3>1. Offset(64, q) \in 0 .. 194
      BY Offsets64
    <3> QED
      BY <1>2, <2>12, <3>1
  <2>14. v = Stack(TrapTop(6))
    BY <2>12
  <2> HIDE DEF v
  <2>11. TrapNext(6, "rsp", v)
    BY <2>7, <2>8, <2>9, <2>10, <2>13, <2>14, Zenon DEF TrapNext
  <2> QED
    BY <1>6, <2>3, <2>9, <2>11, NothingAbove
<1> QED
  BY <1>8, <1>9, <1>10, <1>11

(* Every instruction before the call.                                      *)
LEMMA TrapStep ==
  ASSUME NEW i \in 2 .. 60, InTrap(i), StubStep, raised \notin ErrorVectors => i < 59
  PROVE  TrapDone(i + 1)
<1>1. CASE i \in 2 .. 5
  BY <1>1, TrapStarts
<1>2. CASE i \in 6 .. 17
  <2>1. CASE \E k \in 1 .. 6 : i = 2 * k + 4
    <3>1. PICK k \in 1 .. 6 : i = 2 * k + 4
      BY <2>1
    <3>2. InTrap(2 * k + 4) /\ i + 1 = 2 * k + 5
      BY <3>1
    <3> QED
      BY <3>2, SegmentMov
  <2>2. CASE \E k \in 1 .. 6 : i = 2 * k + 5
    <3>1. PICK k \in 1 .. 6 : i = 2 * k + 5
      BY <2>2
    <3>2. InTrap(2 * k + 5) /\ i + 1 = 2 * k + 6
      BY <3>1
    <3> QED
      BY <3>2, SegmentPush
  <2> QED
    BY <1>2, <2>1, <2>2
<1>3. CASE i \in 18 .. 27
  <2>1. CASE \E k \in 1 .. 5 : i = 2 * k + 16
    <3>1. PICK k \in 1 .. 5 : i = 2 * k + 16
      BY <2>1
    <3>2. InTrap(2 * k + 16) /\ i + 1 = 2 * k + 17
      BY <3>1
    <3> QED
      BY <3>2, ControlMov
  <2>2. CASE \E k \in 1 .. 5 : i = 2 * k + 17
    <3>1. PICK k \in 1 .. 5 : i = 2 * k + 17
      BY <2>2
    <3>2. InTrap(2 * k + 17) /\ i + 1 = 2 * k + 18
      BY <3>1
    <3> QED
      BY <3>2, ControlPush
  <2> QED
    BY <1>3, <2>1, <2>2
<1>4. CASE i \in 28 .. 35
  <2>1. PICK k \in 1 .. 8 : i = k + 27
    <3>1. i - 27 \in 1 .. 8 /\ i = (i - 27) + 27
      BY <1>4
    <3> QED
      BY <3>1
  <2>2. InTrap(k + 27) /\ i + 1 = k + 28
    BY <2>1
  <2> QED
    BY <2>2, HighPush
<1>5. CASE i = 36
  <2>1. InTrap(36) /\ i + 1 = 37
    BY <1>5
  <2> QED
    BY <2>1, SkipFrame
<1>6. CASE i \in 37 .. 43
  <2>1. PICK k \in 1 .. 7 : i = k + 36
    <3>1. i - 36 \in 1 .. 7 /\ i = (i - 36) + 36
      BY <1>6
    <3> QED
      BY <3>1
  <2>2. InTrap(k + 36) /\ i + 1 = k + 37
    BY <2>1
  <2> QED
    BY <2>2, LowPush
<1>7. CASE i = 44
  <2>1. InTrap(44) /\ i + 1 = 45
    BY <1>7
  <2> QED
    BY <2>1, RestoreRax
<1>8. CASE i = 45
  <2>1. InTrap(45) /\ i + 1 = 46
    BY <1>8
  <2> QED
    BY <2>1, RaxPush
<1>9. CASE i \in 46 .. 55
  <2>1. CASE \E k \in 1 .. 5 : i = 2 * k + 44
    <3>1. PICK k \in 1 .. 5 : i = 2 * k + 44
      BY <2>1
    <3>2. InTrap(2 * k + 44) /\ i + 1 = 2 * k + 45
      BY <3>1
    <3> QED
      BY <3>2, FrameLoad
  <2>2. CASE \E k \in 1 .. 5 : i = 2 * k + 45
    <3>1. PICK k \in 1 .. 5 : i = 2 * k + 45
      BY <2>2
    <3>2. InTrap(2 * k + 45) /\ i + 1 = 2 * k + 46
      BY <3>1
    <3> QED
      BY <3>2, FrameStore
  <2> QED
    BY <1>9, <2>1, <2>2
<1>10. CASE i \in 56 .. 60
  <2>1. CASE raised \in ErrorVectors
    BY <1>10, <2>1, ErrorEnd
  <2>2. CASE raised \notin ErrorVectors
    <3>1. i \in 56 .. 58
      BY <1>10, <2>2
    <3> QED
      BY <2>2, <3>1, PlainEnd
  <2> QED
    BY <2>1, <2>2
<1> QED
  BY <1>1, <1>2, <1>3, <1>4, <1>5, <1>6, <1>7, <1>8, <1>9, <1>10

-----------------------------------------------------------------------------
(* What every step keeps.                                                  *)
LEMMA EntryTop32 ==
  ASSUME StubsTypeOK, bits = 32
  PROVE  EntryTop = (IF raised \in ErrorVectors THEN home - 16 ELSE home - 12) /\ EntryTop \in Int
         /\ Pushed = <<"eflags", "cs", "eip">> /\ Base = home /\ home \in Int
<1>1. Pushed = <<"eflags", "cs", "eip">> /\ Len(Pushed) = 3 /\ Bytes(bits) = 4 /\ Base = home
  BY Names DEF Pushed, Base
<1>2. EntryTop = Base - 4 * (3 + IF raised \in ErrorVectors THEN 1 ELSE 0)
  BY <1>1, Zenon DEF EntryTop
<1> QED
  BY <1>1, <1>2, Bases

(* The stack pointer that has to be found again.                           *)
Floor == IF raised = NoVector THEN home ELSE EntryTop

LEMMA FloorFacts ==
  ASSUME StubsTypeOK
  PROVE  /\ Floor \in Int /\ Floor <= home /\ home \in Int /\ Base \in Int
         /\ raised # NoVector =>
              /\ EntryTop \in Int /\ Floor = EntryTop
              /\ \A k \in DOMAIN Pushed : Base - Bytes(bits) * k \in Int /\ Base - Bytes(bits) * k >= EntryTop
<1>1. bits \in {32, 64} /\ home \in Int /\ Base \in Int
  BY WellTyped, Bases
<1>2. CASE bits = 64
  <2>1. EntryTop \in Int /\ EntryTop <= home /\ EntryTop <= Base - 40 /\ DOMAIN Pushed = 1 .. 5 /\ Bytes(bits) = 8
    BY <1>1, <1>2, EntryTop64, Names
  <2> QED
    BY <1>1, <2>1 DEF Floor
<1>3. CASE bits = 32
  <2>1. EntryTop \in Int /\ EntryTop <= home /\ EntryTop <= Base - 12 /\ DOMAIN Pushed = 1 .. 3 /\ Bytes(bits) = 4
    BY <1>1, <1>3, EntryTop32, Names
  <2> QED
    BY <1>1, <2>1 DEF Floor
<1> QED
  BY <1>1, <1>2, <1>3

LEMMA StaysAbove ==
  ASSUME StubsTypeOK, StackKept, FrameKept, Kept, KeepsAbove(Floor)
  PROVE  StackKept' /\ FrameKept'
<1>1. /\ Floor \in Int /\ Floor <= home /\ home \in Int /\ StackWords \in Nat /\ Bytes(bits) \in {4, 8}
      /\ \A x \in Int : x >= Floor => Contents(stack', x) = Contents(stack, x)
  BY FloorFacts, WellTyped, StubsAssumption DEF KeepsAbove
<1>2. StackKept'
  <2>1. ASSUME NEW i \in 0 .. StackWords - 1
        PROVE  Contents(stack', home + Bytes(bits) * i) = Word(home + Bytes(bits) * i)
    <3>1. home + Bytes(bits) * i \in Int /\ home + Bytes(bits) * i >= Floor
      BY <1>1
    <3>2. Contents(stack, home + Bytes(bits) * i) = Word(home + Bytes(bits) * i)
      BY DEF StackKept, Read
    <3> QED
      BY <1>1, <3>1, <3>2
  <2> QED
    BY <2>1 DEF StackKept, Read, Kept
<1>3. FrameKept'
  <2> SUFFICES ASSUME raised # NoVector
               PROVE  /\ \A k \in DOMAIN Pushed : Contents(stack', Base - Bytes(bits) * k) = AtFault(Pushed[k])
                      /\ raised \in ErrorVectors => Contents(stack', EntryTop) = Error(raised)
    BY MeansKept DEF FrameKept, Read, Kept
  <2>1. /\ EntryTop \in Int /\ Floor = EntryTop
        /\ \A k \in DOMAIN Pushed : Base - Bytes(bits) * k \in Int /\ Base - Bytes(bits) * k >= EntryTop
    BY FloorFacts
  <2>2. /\ \A k \in DOMAIN Pushed : Contents(stack, Base - Bytes(bits) * k) = AtFault(Pushed[k])
        /\ raised \in ErrorVectors => Contents(stack, EntryTop) = Error(raised)
    BY DEF FrameKept, Read
  <2> QED
    BY <1>1, <2>1, <2>2
<1> QED
  BY <1>2, <1>3

LEMMA TypeStays ==
  ASSUME StubsTypeOK, Kept, DOMAIN regs' = Registers(bits), DOMAIN stack' \subseteq Int,
         regs'[Ip(bits)][1] = "code", regs'[Sp(bits)][1] = "stack"
  PROVE  StubsTypeOK'
BY MeansKept DEF StubsTypeOK, Kept, Pc

LEMMA DumpStays ==
  ASSUME DumpKept, Kept
  PROVE  DumpKept'
<1>1. ShowsFault(Registers(bits) \ Mistaken)' = ShowsFault(Registers(bits) \ Mistaken)
  BY MeansKept DEF Kept, ShowsFault
<1> QED
  BY <1>1 DEF DumpKept, DumpShowsFault, PanicNamesException, Kept

Going == Interruptible \/ Interrupted \/ Trapped \/ Faulted \/ Halted

LEMMA InvariantStays ==
  ASSUME StubsInv, Kept, KeepsAbove(Floor), DOMAIN regs' = Registers(bits),
         regs'[Ip(bits)][1] = "code", regs'[Sp(bits)][1] = "stack", Going'
  PROVE  StubsInv'
<1>1. StubsTypeOK /\ StackKept /\ FrameKept /\ DumpKept
  BY DEF StubsInv
<1>2. StubsTypeOK'
  BY <1>1, TypeStays DEF KeepsAbove
<1>3. StackKept' /\ FrameKept' /\ DumpKept'
  BY <1>1, StaysAbove, DumpStays
<1> QED
  BY <1>2, <1>3 DEF StubsInv, Going

-----------------------------------------------------------------------------
(* A step of trap or traperr.                                              *)
LEMMA TrappedSteps ==
  ASSUME StubsInv, NEW i, InTrap(i), raised \notin ErrorVectors => i < 59, i < 61, StubStep
  PROVE  StubsInv'
<1>1. i \in 2 .. 60 /\ bits = 64 /\ raised \in Vectors64 \ IRQs /\ StubsTypeOK
  BY DEF InTrap
<1>2. TrapDone(i + 1)
  BY <1>1, TrapStep
<1>3. TrappedAt(i + 1)' /\ Kept /\ KeepsAbove(EntryTop) /\ DOMAIN regs' = Registers(bits)
  BY <1>1, <1>2 DEF TrapDone
<1>4. raised # NoVector /\ DOMAIN Gates = Vectors64
  BY <1>1 DEF Vectors64, NoVector, Gates, Gates64
<1>5. Trapped'
  <2>1. (raised \in DOMAIN Gates \ IRQs)' /\ (bits = 64)'
    BY <1>1, <1>3, <1>4, MeansKept DEF Kept
  <2>2. i + 1 \in 2 .. (IF raised \in ErrorVectors THEN 61 ELSE 59)'
    BY <1>1, <1>3 DEF Kept
  <2> QED
    BY <1>3, <2>1, <2>2 DEF Trapped
<1>6. /\ Ip(bits) = "rip" /\ Sp(bits) = "rsp" /\ regs'["rip"][1] = "code" /\ regs'["rsp"][1] = "stack"
  <2>1. (Pc = Code(Gates[raised], i + 1))' /\ (regs["rsp"] = Stack(TrapTop(i + 1)))'
    BY <1>3 DEF TrappedAt
  <2>2. Pc' = regs'["rip"]
    BY <1>1, <1>3, Names DEF Pc, Kept
  <2> QED
    BY <1>1, <2>1, <2>2, Names DEF Code, Stack
<1> QED
  BY <1>3, <1>4, <1>5, <1>6, InvariantStays DEF Going, Floor

LEMMA StackShown ==
  ASSUME StubsTypeOK, StackKept, bits = 64, NEW f, f["rsp"] = Stack(home)
  PROVE  ShownStack(f) = [i \in 1 .. (IF 12 < StackWords THEN 12 ELSE StackWords) |-> Word(home + 8 * (i - 1))]
<1>1. home \in Int /\ StackWords \in Nat /\ Bytes(64) = 8
  BY Bases, StubsAssumption, Names
<1> DEFINE N == IF 12 < StackWords THEN 12 ELSE StackWords
           n == IF f["rsp"][1] = "stack" THEN ((home + Bytes(64) * StackWords) - f["rsp"][2]) \div 8 ELSE 0
<1>2. f["rsp"][1] = "stack" /\ f["rsp"][2] = home
  BY DEF Stack
<1>3. n = StackWords
  <2>1. n = ((home + 8 * StackWords) - home) \div 8
    BY <1>1, <1>2, Zenon
  <2>2. ((home + 8 * StackWords) - home) \div 8 = StackWords
    BY <1>1
  <2> QED
    BY <2>1, <2>2
<1>4. ShownStack(f) = [i \in 1 .. (IF 12 < n THEN 12 ELSE n) |-> Read(f["rsp"][2] + 8 * (i - 1))]
  BY Zenon DEF ShownStack
<1> HIDE DEF n
<1>5. ShownStack(f) = [i \in 1 .. N |-> Contents(stack, home + 8 * (i - 1))]
  BY <1>2, <1>3, <1>4, Zenon DEF Read
<1>6. \A i \in 1 .. N : Contents(stack, home + 8 * (i - 1)) = Word(home + 8 * (i - 1))
  <2> TAKE i \in 1 .. N
  <2>1. i - 1 \in 0 .. StackWords - 1
    BY <1>1
  <2>2. Contents(stack, home + Bytes(bits) * (i - 1)) = Word(home + Bytes(bits) * (i - 1))
    BY <2>1, Zenon DEF StackKept, Read
  <2> QED
    BY <1>1, <2>2, Zenon
<1> HIDE DEF N
<1>7. [i \in 1 .. N |-> Contents(stack, home + 8 * (i - 1))] = [i \in 1 .. N |-> Word(home + 8 * (i - 1))]
  BY <1>6, Zenon
<1> QED
  BY <1>5, <1>7 DEF N

(* The call of CPUExceptionHandler, which halts.                           *)
LEMMA TrapCalls ==
  ASSUME StubsInv, NEW i, InTrap(i), i = (IF raised \in ErrorVectors THEN 61 ELSE 59), StubStep
  PROVE  StubsInv'
<1>1. /\ bits = 64 /\ raised \in Vectors64 \ IRQs /\ StubsTypeOK /\ StackKept /\ FrameKept /\ TrappedAt(i)
      /\ raised # NoVector /\ i \in 59 .. 61
  BY DEF InTrap, StubsInv, Vectors64, NoVector
<1>2. Instr = Call("CPUExceptionHandler")
  <2>1. CASE raised \in ErrorVectors
    BY <2>1, TrapInstr DEF WithError
  <2>2. CASE raised \notin ErrorVectors
    BY <2>2, TrapInstr DEF Plain
  <2> QED
    BY <2>1, <2>2
<1>3. CallCPUExceptionHandler
  BY <1>2, StepIs DEF Call, CallKeyboardHandlerM, CallHandlerM
<1> DEFINE f == Shown64(regs["rdi"])
<1>4. /\ dump' = [vector |-> regs["rsi"], error |-> regs["rdx"], shown |-> f, stack |-> ShownStack(f)]
      /\ regs' = [regs EXCEPT !["rip"] = Code("halt", 0)]
      /\ bits' = bits /\ home' = home /\ stack' = stack /\ raised' = raised
  BY <1>3, Zenon DEF CallCPUExceptionHandler
<1>5. /\ regs["rdi"] = Stack(Area64) /\ regs["rsi"] = Number(raised)
      /\ regs["rdx"] = IF raised \in ErrorVectors THEN Error(raised) ELSE Number(0)
  <2>1. Arguments64(59)
    <3>1. (IF raised \in ErrorVectors THEN i - 2 ELSE i) = 59
      OBVIOUS
    <3> QED
      BY <1>1, <3>1, Zenon DEF TrappedAt
  <2> QED
    BY <2>1 DEF Arguments64
<1>6. \A r \in Registers(64) \ Mistaken : f[r] = AtFault(r)
  <2> TAKE r \in Registers(64) \ Mistaken
  <2>1. r \notin Missing64(i)
    <3>1. CASE raised \in ErrorVectors
      BY <3>1 DEF Missing64
    <3>2. CASE raised \notin ErrorVectors
      BY <3>2 DEF Missing64
    <3> QED
      BY <3>1, <3>2
  <2>2. Area64 + Offset(64, r) >= TrapTop(i) /\ i > 5
    <3>1. TrapTop(i) = Area64 /\ Area64 \in Int
      BY <1>1, TrapTops, Bases
    <3> QED
      BY <1>1, <3>1, Offsets64
  <2>3. Read(Area64 + Offset(64, r)) = AtFault(r)
    BY <1>1, <2>1, <2>2 DEF TrappedAt
  <2>4. f = [q \in Registers(64) |-> Read(Area64 + Offset(64, q))]
    <3>1. regs["rdi"][2] = Area64
      BY <1>5 DEF Stack
    <3> QED
      BY <3>1, Zenon DEF Shown64
  <2> QED
    BY <2>3, <2>4
<1>7. f["rsp"] = Stack(home)
  <2>1. "rsp" \in Registers(64) \ Mistaken
    BY <1>1, MistakenInTrap, Registers64
  <2>2. AtFault("rsp") = Stack(home)
    BY <1>1, Names DEF AtFault
  <2> QED
    BY <1>6, <2>1, <2>2
<1> HIDE DEF f
<1>8. ShownStack(f) = [k \in 1 .. (IF 12 < StackWords THEN 12 ELSE StackWords) |-> Word(home + 8 * (k - 1))]
  BY <1>1, <1>7, StackShown
<1>9. Registers(bits)' = Registers(64) /\ Mistaken' = Mistaken /\ \A r : AtFault(r)' = AtFault(r)
  BY <1>1, <1>4 DEF Mistaken, Gates, AtFault
<1>10. DumpKept'
  <2>1. dump'.shown = f /\ dump'.stack = ShownStack(f) /\ dump'.vector = regs["rsi"] /\ dump'.error = regs["rdx"]
    BY <1>4
  <2>2. ShowsFault(Registers(bits) \ Mistaken)'
    BY <1>4, <1>6, <1>8, <1>9, <2>1 DEF ShowsFault
  <2>3. PanicNamesException'
    BY <1>4, <1>5, <2>1 DEF PanicNamesException
  <2>4. raised' # NoVector
    BY <1>1, <1>4
  <2> QED
    BY <2>2, <2>3, <2>4 DEF DumpKept, DumpShowsFault
<1>11. StackKept' /\ FrameKept'
  <2>1. Base' = Base /\ EntryTop' = EntryTop /\ Pushed' = Pushed
    BY <1>4 DEF Base, EntryTop, Pushed
  <2> QED
    BY <1>1, <1>4, <1>9, <2>1 DEF StackKept, FrameKept, Read
<1>12. DOMAIN regs' = Registers(64) /\ regs'["rip"] = Code("halt", 0) /\ regs'["rsp"] = regs["rsp"]
  BY <1>1, <1>4, Registers64 DEF StubsTypeOK
<1>13. StubsTypeOK'
  <2>1. Pc' = Code("halt", 0) /\ Sp(bits) = "rsp"
    BY <1>1, <1>4, <1>12, Names DEF Pc
  <2>2. Gates' = Gates
    BY <1>4 DEF Gates
  <2> QED
    BY <1>1, <1>4, <1>12, <2>1, <2>2 DEF StubsTypeOK, Code
<1>14. Halted'
  BY <1>1, <1>4, <1>12, Names DEF Halted, Pc, Code
<1> QED
  BY <1>10, <1>11, <1>13, <1>14 DEF StubsInv

LEMMA TrappedPreserves ==
  ASSUME StubsInv, Trapped, StubStep
  PROVE  StubsInv'
<1>1. bits = 64 /\ raised \in Vectors64 \ IRQs /\ StubsTypeOK /\ FrameKept
  BY DEF Trapped, StubsInv, Gates, Gates64
<1>2. PICK i \in 2 .. (IF raised \in ErrorVectors THEN 61 ELSE 59) : TrappedAt(i)
  BY DEF Trapped
<1>3. InTrap(i)
  BY <1>1, <1>2 DEF InTrap
<1>4. CASE i = IF raised \in ErrorVectors THEN 61 ELSE 59
  BY <1>3, <1>4, TrapCalls
<1>5. CASE i # IF raised \in ErrorVectors THEN 61 ELSE 59
  <2>1. i < 61 /\ (raised \notin ErrorVectors => i < 59)
    BY <1>2, <1>5
  <2> QED
    BY <1>3, <2>1, TrappedSteps
<1> QED
  BY <1>4, <1>5

-----------------------------------------------------------------------------
(* A handler that returns.                                                 *)
HandlerIs(s, saves, n, work, w) ==
  /\ \A k \in 1 .. n : s[k] = Push(saves[k])
  /\ \A k \in 1 .. w : s[n + k] = work[k]
  /\ \A k \in 1 .. n : s[(n + w) + k] = Pop(saves[n + 1 - k])
  /\ s[((n + w) + n) + 1] = Iret

LEMMA HandlerCode ==
  ASSUME NEW saves, NEW n, IsCode(saves, n), NEW work, NEW w, IsCode(work, w)
  PROVE  HandlerIs(Handler(saves, work), saves, n, work, w)
<1> DEFINE p == Pushes(saves)
           q == Pops(Reverse(saves))
           z == <<Iret>>
           pw == p \o work
           pwq == pw \o q
           s == pwq \o z
           m1 == n + w
           m2 == m1 + n
           m3 == m2 + 1
<1>1. IsCode(p, n) /\ (\A k \in 1 .. n : p[k] = Push(saves[k])) /\ n \in Nat /\ w \in Nat
  BY MapIsCode DEF IsCode
<1>2. IsCode(q, n) /\ \A k \in 1 .. n : q[k] = Pop(saves[n + 1 - k])
  <2>1. IsCode(Reverse(saves), n) /\ \A k \in 1 .. n : Reverse(saves)[k] = saves[n + 1 - k]
    BY Backwards
  <2>2. IsCode(q, n) /\ \A k \in 1 .. n : q[k] = Pop(Reverse(saves)[k])
    BY <2>1, MapIsCode
  <2> HIDE DEF q
  <2> QED
    BY <2>1, <2>2
<1>3. IsCode(z, 1) /\ z[1] = Iret
  BY DEF IsCode
<1>4. Handler(saves, work) = s
  BY Zenon DEF Handler
<1> HIDE DEF p, q, z
<1>5. Joins(pw, p, n, work, w, m1)
  <2>1. IsCode(p, n) /\ IsCode(work, w) /\ m1 = n + w
    BY <1>1
  <2> QED
    BY <2>1, Concatenated
<1>6. IsCode(pw, m1) /\ (\A i \in 1 .. n : pw[i] = p[i]) /\ \A i \in 1 .. w : pw[n + i] = work[i]
  BY <1>5, Zenon DEF Joins
<1> HIDE DEF pw
<1>7. m1 \in Nat
  BY <1>1
<1> HIDE DEF m1
<1>8. Joins(pwq, pw, m1, q, n, m2)
  <2>1. IsCode(pw, m1) /\ IsCode(q, n) /\ m2 = m1 + n
    BY <1>2, <1>6
  <2> QED
    BY <2>1, Concatenated
<1>9. IsCode(pwq, m2) /\ (\A i \in 1 .. m1 : pwq[i] = pw[i]) /\ \A i \in 1 .. n : pwq[m1 + i] = q[i]
  BY <1>8, Zenon DEF Joins
<1> HIDE DEF pwq
<1>10. m2 \in Nat
  BY <1>1, <1>7
<1> HIDE DEF m2
<1>11. Joins(s, pwq, m2, z, 1, m3)
  <2>1. IsCode(pwq, m2) /\ IsCode(z, 1) /\ m3 = m2 + 1
    BY <1>3, <1>9
  <2> QED
    BY <2>1, Concatenated
<1>12. (\A i \in 1 .. m2 : s[i] = pwq[i]) /\ \A i \in 1 .. 1 : s[m2 + i] = z[i]
  BY <1>11, Zenon DEF Joins
<1> HIDE DEF s, m3
<1>13. m1 = n + w /\ m2 = m1 + n
  BY DEF m1, m2
<1>14. \A k \in 1 .. n : s[k] = Push(saves[k])
  <2> TAKE k \in 1 .. n
  <2>1. k \in 1 .. m1 /\ k \in 1 .. m2
    BY <1>1, <1>13
  <2> QED
    BY <1>1, <1>6, <1>9, <1>12, <2>1
<1>15. \A k \in 1 .. w : s[n + k] = work[k]
  <2> TAKE k \in 1 .. w
  <2>1. n + k \in 1 .. m1 /\ n + k \in 1 .. m2
    BY <1>1, <1>13
  <2>2. s[n + k] = pw[n + k] /\ pw[n + k] = work[k]
    BY <1>6, <1>9, <1>12, <2>1
  <2> QED
    BY <2>2
<1>16. \A k \in 1 .. n : s[m1 + k] = Pop(saves[n + 1 - k])
  <2> TAKE k \in 1 .. n
  <2>1. m1 + k \in 1 .. m2
    BY <1>1, <1>7, <1>13
  <2>2. s[m1 + k] = pwq[m1 + k] /\ pwq[m1 + k] = q[k]
    BY <1>9, <1>12, <2>1
  <2> QED
    BY <1>2, <2>2
<1>17. s[m2 + 1] = Iret
  <2>1. 1 \in 1 .. 1
    OBVIOUS
  <2> QED
    BY <1>3, <1>12, <2>1, Zenon
<1> QED
  BY <1>4, <1>13, <1>14, <1>15, <1>16, <1>17, Zenon DEF HandlerIs

Acc == IF bits = 64 THEN "rax" ELSE "eax"

Covers(saves, n, S) == \A r \in S : \E k \in 1 .. n : saves[k] = r

SavesAre(v, n) ==
  /\ IsCode(Saves(v), n) /\ n \in 1 .. 10 /\ Len(Saves(v)) = n
  /\ \A j, k \in 1 .. n : Saves(v)[j] = Saves(v)[k] => j = k
  /\ \A k \in 1 .. n : Saves(v)[k] \in Registers(bits) \ {Ip(bits), Sp(bits), Fl(bits)}
  /\ Covers(Saves(v), n, {Acc}) /\ (v = 33 => Covers(Saves(v), n, CallerSaved(bits)))

LEMMA SavesOf ==
  ASSUME bits \in {32, 64}, NEW v \in IRQs
  PROVE  SavesAre(v, IF v = 33 THEN IF bits = 64 THEN 10 ELSE 3 ELSE 1)
<1> DEFINE s == Saves(v)
           n == IF v = 33 THEN IF bits = 64 THEN 10 ELSE 3 ELSE 1
<1>1. CASE bits = 64 /\ v = 33
  <2>1. s = <<"rax", "rcx", "rdx", "rbx", "rsi", "rdi", "r8", "r9", "r10", "r11">>
    BY <1>1 DEF Saves, KeyboardSaves
  <2> HIDE DEF s
  <2>2. IsCode(s, 10) /\ Len(s) = 10 /\ \A j, k \in 1 .. 10 : s[j] = s[k] => j = k
    BY <2>1 DEF IsCode
  <2>3. \A k \in 1 .. 10 : s[k] \in Registers(64) \ {"rip", "rsp", "rflags"}
    BY <2>1, Registers64
  <2>4. Covers(s, 10, {"rax"}) /\ Covers(s, 10, CallerSaved(64))
    <3>1. /\ s[1] = "rax" /\ s[2] = "rcx" /\ s[3] = "rdx" /\ s[5] = "rsi" /\ s[6] = "rdi" /\ s[7] = "r8"
          /\ s[8] = "r9" /\ s[9] = "r10" /\ s[10] = "r11"
      BY <2>1
    <3>2. CallerSaved(64) = {"rax", "rcx", "rdx", "rsi", "rdi", "r8", "r9", "r10", "r11"}
      BY DEF CallerSaved
    <3> QED
      BY <3>1, <3>2 DEF Covers
  <2> QED
    BY <1>1, <2>2, <2>3, <2>4, Names DEF SavesAre, s, Acc
<1>2. CASE bits = 32 /\ v = 33
  <2>1. s = <<"eax", "ecx", "edx">>
    BY <1>2 DEF Saves
  <2> HIDE DEF s
  <2>2. IsCode(s, 3) /\ Len(s) = 3 /\ \A j, k \in 1 .. 3 : s[j] = s[k] => j = k
    BY <2>1 DEF IsCode
  <2>3. \A k \in 1 .. 3 : s[k] \in Registers(32) \ {"eip", "esp", "eflags"}
    BY <2>1, Registers32
  <2>4. Covers(s, 3, {"eax"}) /\ Covers(s, 3, CallerSaved(32))
    BY <2>1 DEF CallerSaved, Covers
  <2> QED
    BY <1>2, <2>2, <2>3, <2>4, Names DEF SavesAre, s, Acc
<1>3. CASE v = 32
  <2>1. s = <<Acc>>
    BY <1>3 DEF Saves, Acc
  <2> HIDE DEF s
  <2>2. IsCode(s, 1) /\ Len(s) = 1 /\ \A j, k \in 1 .. 1 : s[j] = s[k] => j = k
    BY <2>1 DEF IsCode
  <2>3. Acc \in Registers(bits) \ {Ip(bits), Sp(bits), Fl(bits)}
    BY Registers64, Registers32, Names DEF Acc
  <2>4. Covers(s, 1, {Acc})
    BY <2>1 DEF Covers
  <2> QED
    BY <1>3, <2>1, <2>2, <2>3, <2>4 DEF SavesAre, s
<1> QED
  BY <1>1, <1>2, <1>3 DEF IRQs

IrqIs(v, s, n, w) ==
  /\ \A k \in 1 .. n : s[k] = Push(Saves(v)[k])
  /\ \A k \in 1 .. w : s[n + k] = Set(Acc, Scratch) \/ (v = 33 /\ s[n + k] = Call("KeyboardHandlerM"))
  /\ \A k \in 1 .. n : s[(n + w) + k] = Pop(Saves(v)[n + 1 - k])
  /\ s[((n + w) + n) + 1] = Iret

LEMMA IrqText ==
  ASSUME bits \in {32, 64}, NEW v \in IRQs
  PROVE  Text[Gates[v]] = Handler(Saves(v),
           IF v = 32 THEN <<Set(Acc, Scratch)>>
           ELSE IF bits = 64 THEN <<Call("KeyboardHandlerM"), Set("rax", Scratch)>>
           ELSE <<Set("eax", Scratch), Call("KeyboardHandlerM")>>)
<1>1. CASE bits = 64 /\ v = 32
  <2>1. Gates[v] = "SystemTimerHandler"
    BY <1>1 DEF Gates, Gates64, Vectors64
  <2>2. Text["SystemTimerHandler"] = SystemTimerHandler
    BY DEF Text, Labels
  <2>3. SystemTimerHandler = Handler(<<"rax">>, <<Set("rax", Scratch)>>) /\ Saves(v) = <<"rax">> /\ Acc = "rax"
    BY <1>1 DEF SystemTimerHandler, Saves, Acc
  <2> QED
    BY <1>1, <2>1, <2>2, <2>3, Zenon
<1>2. CASE bits = 64 /\ v = 33
  <2>1. Gates[v] = "KeyboardHandler"
    BY <1>2 DEF Gates, Gates64, Vectors64
  <2>2. Text["KeyboardHandler"] = KeyboardHandler
    BY DEF Text, Labels
  <2>3. KeyboardHandler = Handler(KeyboardSaves, <<Call("KeyboardHandlerM"), Set("rax", Scratch)>>)
    BY DEF KeyboardHandler
  <2>4. Saves(v) = KeyboardSaves /\ v # 32
    BY <1>2 DEF Saves
  <2> QED
    BY <1>2, <2>1, <2>2, <2>3, <2>4, Zenon
<1>3. CASE bits = 32 /\ v = 32
  <2>1. Gates[v] = "TimerHandler32" /\ bits # 64
    BY <1>3 DEF Gates, Gates32, Vectors32
  <2>2. Text["TimerHandler32"] = TimerHandler32
    BY DEF Text, Labels
  <2>3. TimerHandler32 = Handler(<<"eax">>, <<Set("eax", Scratch)>>) /\ Saves(v) = <<"eax">> /\ Acc = "eax"
    BY <1>3 DEF TimerHandler32, Saves, Acc
  <2> QED
    BY <1>3, <2>1, <2>2, <2>3, Zenon
<1>4. CASE bits = 32 /\ v = 33
  <2>1. Gates[v] = "KeyboardHandler32" /\ bits # 64
    BY <1>4 DEF Gates, Gates32, Vectors32
  <2>2. Text["KeyboardHandler32"] = KeyboardHandler32
    BY DEF Text, Labels
  <2>3. KeyboardHandler32 = Handler(<<"eax", "ecx", "edx">>, <<Set("eax", Scratch), Call("KeyboardHandlerM")>>)
    BY DEF KeyboardHandler32
  <2>4. Saves(v) = <<"eax", "ecx", "edx">> /\ v # 32
    BY <1>4 DEF Saves
  <2> QED
    BY <1>4, <2>1, <2>2, <2>3, <2>4, Zenon
<1> QED
  BY <1>1, <1>2, <1>3, <1>4 DEF IRQs

LEMMA IrqCode ==
  ASSUME bits \in {32, 64}, NEW v \in IRQs, NEW n, n = (IF v = 33 THEN IF bits = 64 THEN 10 ELSE 3 ELSE 1)
  PROVE  IrqIs(v, Text[Gates[v]], n, Work(v))
<1> DEFINE work == IF v = 32 THEN <<Set(Acc, Scratch)>>
                   ELSE IF bits = 64 THEN <<Call("KeyboardHandlerM"), Set("rax", Scratch)>>
                   ELSE <<Set("eax", Scratch), Call("KeyboardHandlerM")>>
           s == Text[Gates[v]]
           w == Work(v)
<1>1. s = Handler(Saves(v), work)
  BY IrqText, Zenon
<1>2. IsCode(Saves(v), n)
  BY SavesOf DEF SavesAre
<1>3. v = 32 \/ v = 33
  BY DEF IRQs
<1>4. IsCode(work, w) /\ \A k \in 1 .. w : work[k] = Set(Acc, Scratch) \/ (v = 33 /\ work[k] = Call("KeyboardHandlerM"))
  <2>1. CASE v = 32
    <3>1. work = <<Set(Acc, Scratch)>> /\ w = 1
      BY <2>1 DEF Work
    <3> HIDE DEF work, w
    <3> QED
      BY <3>1 DEF IsCode
  <2>2. CASE v = 33 /\ bits = 64
    <3>1. work = <<Call("KeyboardHandlerM"), Set(Acc, Scratch)>> /\ w = 2
      BY <2>2 DEF Work, Acc
    <3> HIDE DEF work, w
    <3> QED
      BY <2>2, <3>1 DEF IsCode
  <2>3. CASE v = 33 /\ bits = 32
    <3>1. work = <<Set(Acc, Scratch), Call("KeyboardHandlerM")>> /\ w = 2
      BY <2>3 DEF Work, Acc
    <3> HIDE DEF work, w
    <3> QED
      BY <2>3, <3>1 DEF IsCode
  <2> QED
    BY <1>3, <2>1, <2>2, <2>3
<1> HIDE DEF s, work, w
<1>5. HandlerIs(s, Saves(v), n, work, w)
  BY <1>1, <1>2, <1>4, HandlerCode
<1> QED
  BY <1>4, <1>5 DEF HandlerIs, IrqIs, s, w

(* The words a handler has pushed, below the frame of its interrupt.       *)
Slot(k) == IrqTop - Bytes(bits) * k

LEMMA IrqPlaces ==
  ASSUME StubsTypeOK
  PROVE  /\ IrqBase \in Int /\ IrqTop \in Int /\ IrqTop < Floor /\ IrqBase <= Floor
         /\ Before(Sp(bits)) = Stack(Floor)
         /\ \A k \in DOMAIN Pushed : IrqBase - Bytes(bits) * k \in Int /\ IrqBase - Bytes(bits) * k >= IrqTop
<1>1. Floor \in Int /\ bits \in {32, 64}
  BY FloorFacts, WellTyped
<1>2. Before(Sp(bits)) = Stack(Floor)
  <2>1. CASE raised = NoVector
    BY <1>1, <2>1, WellTyped DEF Before, AtFault, Floor
  <2>2. CASE raised # NoVector
    BY <1>1, <2>2, WellTyped DEF Before, Floor
  <2> QED
    BY <2>1, <2>2
<1>3. Before(Sp(bits))[2] = Floor
  BY <1>2 DEF Stack
<1>4. IrqBase = IF bits = 64 THEN Floor - (Floor % 16) ELSE Floor
  BY <1>3 DEF IrqBase
<1>5. IrqBase \in Int /\ IrqBase <= Floor
  <2>1. Floor % 16 \in 0 .. 15
    BY <1>1
  <2> QED
    BY <1>1, <1>4, <2>1
<1>6. CASE bits = 64
  <2>1. Len(Pushed) = 5 /\ DOMAIN Pushed = 1 .. 5 /\ Bytes(bits) = 8
    BY <1>6, Names DEF Pushed
  <2>2. IrqTop = IrqBase - 8 * 5
    BY <2>1, Zenon DEF IrqTop
  <2> QED
    BY <1>1, <1>2, <1>5, <2>1, <2>2
<1>7. CASE bits = 32
  <2>1. Len(Pushed) = 3 /\ DOMAIN Pushed = 1 .. 3 /\ Bytes(bits) = 4
    BY <1>7, Names DEF Pushed
  <2>2. IrqTop = IrqBase - 4 * 3
    BY <2>1, Zenon DEF IrqTop
  <2> QED
    BY <1>1, <1>2, <1>5, <2>1, <2>2
<1> QED
  BY <1>1, <1>6, <1>7

LEMMA Slots ==
  ASSUME StubsTypeOK
  PROVE  /\ Slot(0) = IrqTop
         /\ \A k \in Int : Slot(k) \in Int /\ Slot(k) - Bytes(bits) = Slot(k + 1) /\ Slot(k) + Bytes(bits) = Slot(k - 1)
         /\ \A j, k \in Int : j < k => Slot(k) < Slot(j)
<1>1. IrqTop \in Int /\ bits \in {32, 64}
  BY IrqPlaces, WellTyped
<1>2. CASE bits = 64
  <2>1. Bytes(bits) = 8
    BY <1>2, Names
  <2> QED
    BY <1>1, <2>1 DEF Slot
<1>3. CASE bits = 32
  <2>1. Bytes(bits) = 4
    BY <1>3, Names
  <2> QED
    BY <1>1, <2>1 DEF Slot
<1> QED
  BY <1>1, <1>2, <1>3

LEMMA IrqMeansKept ==
  ASSUME Kept
  PROVE  /\ \A r : Before(r)' = Before(r)
         /\ IrqBase' = IrqBase /\ IrqTop' = IrqTop /\ Pushed' = Pushed /\ Gates' = Gates
         /\ \A v : Saves(v)' = Saves(v) /\ Work(v)' = Work(v)
         /\ \A v, i : Saved(v, i)' = Saved(v, i)
         /\ Floor' = Floor
<1>1. EntryTop' = EntryTop /\ Gates' = Gates /\ Pushed' = Pushed /\ \A r : AtFault(r)' = AtFault(r)
  BY MeansKept
<1>2. \A r : Before(r)' = Before(r)
  BY <1>1 DEF Before, Kept
<1>3. IrqBase' = IrqBase
  BY <1>2 DEF IrqBase, Kept
<1>4. IrqTop' = IrqTop
  BY <1>1, <1>3 DEF IrqTop, Kept
<1>5. \A v : Saves(v)' = Saves(v) /\ Work(v)' = Work(v)
  BY DEF Saves, Work, Kept
<1>6. \A v, i : Saved(v, i)' = Saved(v, i)
  BY <1>5 DEF Saved
<1>7. Floor' = Floor
  BY <1>1 DEF Floor, Kept
<1> QED
  BY <1>1, <1>2, <1>3, <1>4, <1>5, <1>6, <1>7

LEMMA PopDoes ==
  ASSUME StubsTypeOK, StubStep, NEW r \in Registers(bits) \ {Ip(bits), Sp(bits)}, Instr = Pop(r),
         NEW t \in Int, regs[Sp(bits)] = Stack(t)
  PROVE  /\ DOMAIN regs' = Registers(bits) /\ regs'[Ip(bits)] = Code(Pc[2], Pc[3] + 1)
         /\ regs'[Sp(bits)] = Stack(t + Bytes(bits)) /\ regs'[r] = Contents(stack, t)
         /\ \A x \in Registers(bits) \ {Ip(bits), Sp(bits), r} : regs'[x] = regs[x]
         /\ WritesNothing /\ Kept
<1>1. ExecPop
  BY StepIs DEF Pop
<1>2. Instr.reg = r /\ Top = t
  BY DEF Pop, Top, Stack
<1>3. /\ Advance([regs EXCEPT ![r] = Contents(stack, t), ![Sp(bits)] = Stack(t + Bytes(bits))])
      /\ stack' = stack /\ Kept
  BY <1>1, <1>2, Zenon DEF ExecPop, Read, Kept
<1>4. WritesNothing
  BY <1>3, NothingWritten
<1> QED
  BY <1>3, <1>4, WellTyped DEF Advance, Pc

LEMMA KeyboardCallDoes ==
  ASSUME StubsTypeOK, StubStep, Instr = Call("KeyboardHandlerM"), NEW t \in Int, regs[Sp(bits)] = Stack(t)
  PROVE  /\ DOMAIN regs' = Registers(bits) /\ regs'[Ip(bits)] = Code(Pc[2], Pc[3] + 1)
         /\ \A x \in Registers(bits) \ (CallerSaved(bits) \cup {Ip(bits)}) : regs'[x] = regs[x]
         /\ KeepsAbove(t) /\ Kept
<1>1. CallKeyboardHandlerM
  BY StepIs DEF Call, CallCPUExceptionHandler, CallHandlerM
<1>2. Top = t
  BY DEF Top, Stack
<1>3. /\ Advance([r \in Registers(bits) |-> IF r \in CallerSaved(bits) THEN Scratch ELSE regs[r]])
      /\ stack' = AndUp(stack, t) /\ Kept
  BY <1>1, <1>2, Zenon DEF CallKeyboardHandlerM, Kept
<1>4. KeepsAbove(t)
  <2>1. DOMAIN stack \subseteq Int
    BY WellTyped
  <2>2. stack' = [x \in {y \in DOMAIN stack : y >= t} |-> stack[x]]
    BY <1>3 DEF AndUp
  <2> QED
    BY <2>1, <2>2 DEF KeepsAbove, Contents
<1>5. Ip(bits) \notin CallerSaved(bits)
  BY WellTyped, Names DEF CallerSaved
<1> QED
  BY <1>3, <1>4, <1>5, WellTyped DEF Advance, Pc

Handling(v, i, n) ==
  /\ StubsTypeOK /\ v \in IRQs /\ SavesAre(v, n) /\ IrqIs(v, Text[Gates[v]], n, Work(v))
  /\ i \in 1 .. 2 * n + Work(v) + 1 /\ InterruptedAt(v, i)

LEMMA HandlingTypes ==
  ASSUME NEW v, NEW i, NEW n, Handling(v, i, n)
  PROVE  /\ v \in IRQs /\ n \in 1 .. 10 /\ n \in Int /\ n = Len(Saves(v)) /\ Work(v) \in 1 .. 2 /\ i \in Int
         /\ i >= 1 /\ i <= 2 * n + Work(v) + 1 /\ StubsTypeOK /\ InterruptedAt(v, i)
         /\ IrqIs(v, Text[Gates[v]], n, Work(v)) /\ SavesAre(v, n)
         /\ Instr = Text[Gates[v]][i] /\ Pc = Code(Gates[v], i) /\ regs[Fl(bits)] = Flags(FALSE)
         /\ Saved(v, i) = (IF i <= n THEN i - 1
                           ELSE IF i <= n + Work(v) THEN n ELSE 2 * n + Work(v) + 1 - i)
<1>1. /\ v \in IRQs /\ n \in 1 .. 10 /\ n = Len(Saves(v)) /\ InterruptedAt(v, i)
      /\ i \in 1 .. 2 * n + Work(v) + 1 /\ StubsTypeOK
      /\ IrqIs(v, Text[Gates[v]], n, Work(v)) /\ SavesAre(v, n)
  BY DEF Handling, SavesAre
<1>2. Work(v) \in 1 .. 2
  BY DEF Work
<1>3. Pc = Code(Gates[v], i) /\ regs[Fl(bits)] = Flags(FALSE)
  BY <1>1 DEF InterruptedAt
<1>4. Instr = Text[Gates[v]][i]
  BY <1>3 DEF Instr, Code
<1>5. Saved(v, i) = (IF i <= n THEN i - 1
                     ELSE IF i <= n + Work(v) THEN n ELSE 2 * n + Work(v) + 1 - i)
  BY <1>1, Zenon DEF Saved
<1>6. i \in Int /\ n \in Int /\ i >= 1 /\ i <= 2 * n + Work(v) + 1
  BY <1>1, <1>2
<1> QED
  BY <1>1, <1>2, <1>3, <1>4, <1>5, <1>6, Zenon

HandledAt(v, i, n, m) ==
  /\ regs[Sp(bits)] = Stack(Slot(m))
  /\ \A k \in 1 .. m : Contents(stack, Slot(k)) = Before(Saves(v)[k])
  /\ \A r \in Registers(bits) \ {Ip(bits), Sp(bits), Fl(bits)} :
       (i > n => \A k \in 1 .. m : r # Saves(v)[k]) => regs[r] = Before(r)

LEMMA HandlingFacts ==
  ASSUME NEW v, NEW i, NEW n, Handling(v, i, n), NEW m, Saved(v, i) = m
  PROVE  HandledAt(v, i, n, m)
<1>1. InterruptedAt(v, i) /\ n = Len(Saves(v))
  BY HandlingTypes
<1> QED
  BY <1>1, Zenon DEF InterruptedAt, Slot, Read, HandledAt

IrqNext(v, j, n) ==
  /\ DOMAIN regs' = Registers(bits) /\ regs'[Ip(bits)] = Code(Pc[2], Pc[3] + 1)
  /\ regs'[Fl(bits)] = regs[Fl(bits)] /\ regs'[Sp(bits)] = Stack(Slot(Saved(v, j)))
  /\ KeepsAbove(IrqTop) /\ Kept
  /\ \A k \in 1 .. Saved(v, j) : Contents(stack', Slot(k)) = Before(Saves(v)[k])
  /\ \A r \in Registers(bits) \ {Ip(bits), Sp(bits), Fl(bits)} :
       (j > n => \A k \in 1 .. Saved(v, j) : r # Saves(v)[k]) => regs'[r] = Before(r)

IrqDone(v, j) ==
  InterruptedAt(v, j)' /\ Kept /\ KeepsAbove(IrqTop) /\ DOMAIN regs' = Registers(bits)

LEMMA IrqAdvances ==
  ASSUME NEW v, NEW i, NEW n, Handling(v, i, n), IrqNext(v, i + 1, n)
  PROVE  IrqDone(v, i + 1)
<1> DEFINE j == i + 1
<1>1. /\ DOMAIN regs' = Registers(bits) /\ regs'[Ip(bits)] = Code(Pc[2], Pc[3] + 1)
      /\ regs'[Fl(bits)] = regs[Fl(bits)] /\ regs'[Sp(bits)] = Stack(Slot(Saved(v, j)))
      /\ KeepsAbove(IrqTop) /\ Kept
      /\ \A k \in 1 .. Saved(v, j) : Contents(stack', Slot(k)) = Before(Saves(v)[k])
      /\ \A r \in Registers(bits) \ {Ip(bits), Sp(bits), Fl(bits)} :
           (j > n => \A k \in 1 .. Saved(v, j) : r # Saves(v)[k]) => regs'[r] = Before(r)
  BY Zenon DEF IrqNext
<1>2. Pc = Code(Gates[v], i) /\ regs[Fl(bits)] = Flags(FALSE) /\ n = Len(Saves(v)) /\ InterruptedAt(v, i)
  BY HandlingTypes
<1>3. regs'[Ip(bits)] = Code(Gates[v], j)
  BY <1>1, <1>2 DEF Code
<1>4. /\ Pc' = regs'[Ip(bits)] /\ regs[Fl(bits)]' = regs'[Fl(bits)] /\ regs[Sp(bits)]' = regs'[Sp(bits)]
      /\ Code(Gates[v], j)' = Code(Gates[v], j)
  BY <1>1, IrqMeansKept DEF Pc, Kept
<1>5. \A k \in DOMAIN Pushed : Contents(stack', IrqBase - Bytes(bits) * k) = Before(Pushed[k])
  <2> TAKE k \in DOMAIN Pushed
  <2>1. Contents(stack, IrqBase - Bytes(bits) * k) = Before(Pushed[k])
    BY <1>2, Zenon DEF InterruptedAt, Read
  <2>2. IrqBase - Bytes(bits) * k \in Int /\ IrqBase - Bytes(bits) * k >= IrqTop
    BY IrqPlaces DEF Handling
  <2> QED
    BY <1>1, <2>1, <2>2 DEF KeepsAbove
<1>6. InterruptedAt(v, j)'
  <2>1. (Pc = Code(Gates[v], j) /\ regs[Fl(bits)] = Flags(FALSE))'
    BY <1>1, <1>2, <1>3, <1>4
  <2>2. (regs[Sp(bits)] = Stack(IrqTop - Bytes(bits) * Saved(v, j)))'
    BY <1>1, <1>4, IrqMeansKept DEF Kept, Slot
  <2>3. (\A k \in DOMAIN Pushed : Read(IrqBase - Bytes(bits) * k) = Before(Pushed[k]))'
    BY <1>1, <1>5, IrqMeansKept DEF Kept, Read
  <2>4. (\A k \in 1 .. Saved(v, j) : Read(IrqTop - Bytes(bits) * k) = Before(Saves(v)[k]))'
    BY <1>1, IrqMeansKept DEF Kept, Read, Slot
  <2>5. (\A r \in Registers(bits) \ {Ip(bits), Sp(bits), Fl(bits)} :
         (j > Len(Saves(v)) => \A k \in 1 .. Saved(v, j) : r # Saves(v)[k]) => regs[r] = Before(r))'
    BY <1>1, <1>2, IrqMeansKept DEF Kept
  <2> HIDE DEF j
  <2> QED
    BY <2>1, <2>2, <2>3, <2>4, <2>5 DEF InterruptedAt
<1> QED
  BY <1>1, <1>6 DEF IrqDone

LEMMA IrqPush ==
  ASSUME NEW v, NEW i, NEW n, Handling(v, i, n), i <= n, StubStep
  PROVE  IrqDone(v, i + 1)
<1> DEFINE r == Saves(v)[i]
<1>0. /\ n \in 1 .. 10 /\ Work(v) \in 1 .. 2 /\ i \in 1 .. n /\ i \in Int /\ ~(i > n) /\ Saved(v, i) = i - 1
      /\ StubsTypeOK
  <2>1. n \in 1 .. 10 /\ Work(v) \in 1 .. 2 /\ i \in 1 .. 2 * n + Work(v) + 1 /\ StubsTypeOK
    <3>1. n \in 1 .. 10 /\ n \in Int /\ Work(v) \in 1 .. 2 /\ i \in Int /\ i >= 1 /\ i <= 2 * n + Work(v) + 1
          /\ StubsTypeOK
      BY HandlingTypes
    <3> QED
      BY <3>1
  <2>2. i \in 1 .. n /\ i \in Int /\ ~(i > n)
    BY <2>1
  <2> QED
    BY <2>1, <2>2, HandlingTypes
<1>1. /\ Instr = Text[Gates[v]][i] /\ regs[Sp(bits)] = Stack(Slot(i - 1))
      /\ \A k \in 1 .. i - 1 : Contents(stack, Slot(k)) = Before(Saves(v)[k])
      /\ \A q \in Registers(bits) \ {Ip(bits), Sp(bits), Fl(bits)} : regs[q] = Before(q)
  <2>1. Instr = Text[Gates[v]][i]
    BY HandlingTypes
  <2> DEFINE m == i - 1
  <2>2. Saved(v, i) = m
    BY <1>0
  <2> HIDE DEF m
  <2>3. /\ regs[Sp(bits)] = Stack(Slot(m)) /\ \A k \in 1 .. m : Contents(stack, Slot(k)) = Before(Saves(v)[k])
        /\ \A q \in Registers(bits) \ {Ip(bits), Sp(bits), Fl(bits)} :
             (i > n => \A k \in 1 .. m : q # Saves(v)[k]) => regs[q] = Before(q)
    <3>1. HandledAt(v, i, n, m)
      BY <2>2, HandlingFacts
    <3> QED
      BY <3>1, Zenon DEF HandledAt
  <2>4. \A q \in Registers(bits) \ {Ip(bits), Sp(bits), Fl(bits)} : regs[q] = Before(q)
    BY <1>0, <2>3
  <2> QED
    BY <2>1, <2>3, <2>4, Zenon DEF m
<1>2. Saved(v, i + 1) = i
  <2>1. n = Len(Saves(v))
    BY HandlingTypes
  <2> QED
    BY <1>0, <2>1 DEF Saved
<1>3. Instr = Push(r)
  <2>1. IrqIs(v, Text[Gates[v]], n, Work(v))
    BY DEF Handling
  <2> QED
    BY <1>0, <1>1, <2>1, Zenon DEF IrqIs
<1>4. r \in Registers(bits) \ {Ip(bits), Sp(bits), Fl(bits)}
  BY <1>0 DEF Handling, SavesAre
<1> HIDE DEF r
<1>5. Slot(i - 1) \in Int /\ Slot(i) \in Int /\ Slot(i - 1) - Bytes(bits) = Slot(i) /\ Slot(i) < IrqTop /\ IrqTop \in Int
  <2>1. i - 1 \in Int /\ 0 \in Int /\ (i - 1) + 1 = i /\ 0 < i
    BY <1>0
  <2> QED
    BY <1>0, <2>1, Slots, IrqPlaces
<1>6. Puts(Sp(bits), Stack(Slot(i))) /\ Writes(Slot(i), regs[r]) /\ Kept
  BY <1>0, <1>1, <1>3, <1>5, PushDoes
<1>7. KeepsAbove(IrqTop)
  BY <1>5, <1>6, NotAbove
<1>8. ASSUME NEW k \in 1 .. i PROVE Contents(stack', Slot(k)) = Before(Saves(v)[k])
  <2>1. Slot(k) \in Int /\ (k < i => Slot(i) < Slot(k))
    <3>1. k \in Int /\ i \in Int
      BY <1>0
    <3> QED
      BY <1>0, <3>1, Slots
  <2>2. CASE k = i
    BY <1>1, <1>4, <1>5, <1>6, <2>2 DEF Writes, r
  <2>3. CASE k < i
    <3>1. k \in 1 .. i - 1
      BY <1>0, <2>3
    <3> QED
      BY <1>1, <1>5, <1>6, <2>1, <2>3, <3>1 DEF Writes
  <2> QED
    BY <1>0, <2>2, <2>3
<1>9. IrqNext(v, i + 1, n)
  BY <1>0, <1>1, <1>2, <1>6, <1>7, <1>8, WellTyped DEF IrqNext, Puts
<1> QED
  BY <1>9, IrqAdvances

LEMMA IrqWork ==
  ASSUME NEW v, NEW i, NEW n, Handling(v, i, n), i > n, i <= n + Work(v), StubStep
  PROVE  IrqDone(v, i + 1)
<1> DEFINE k == i - n
<1>0. /\ n \in 1 .. 10 /\ n \in Int /\ Work(v) \in 1 .. 2 /\ i \in Int /\ i > n /\ Saved(v, i) = n /\ StubsTypeOK
  <2>1. n \in 1 .. 10 /\ n \in Int /\ Work(v) \in 1 .. 2 /\ i \in Int /\ StubsTypeOK
    BY HandlingTypes
  <2>2. ~(i <= n)
    BY <2>1
  <2> QED
    BY <2>1, <2>2, HandlingTypes
<1>1. /\ Instr = Text[Gates[v]][i] /\ regs[Sp(bits)] = Stack(Slot(n)) /\ v \in IRQs
      /\ \A m \in 1 .. n : Contents(stack, Slot(m)) = Before(Saves(v)[m])
      /\ \A q \in Registers(bits) \ {Ip(bits), Sp(bits), Fl(bits)} :
           (\A m \in 1 .. n : q # Saves(v)[m]) => regs[q] = Before(q)
  <2>1. Instr = Text[Gates[v]][i] /\ v \in IRQs
    BY HandlingTypes
  <2>2. /\ regs[Sp(bits)] = Stack(Slot(n)) /\ \A m \in 1 .. n : Contents(stack, Slot(m)) = Before(Saves(v)[m])
        /\ \A q \in Registers(bits) \ {Ip(bits), Sp(bits), Fl(bits)} :
             (i > n => \A m \in 1 .. n : q # Saves(v)[m]) => regs[q] = Before(q)
    <3>1. HandledAt(v, i, n, n)
      BY <1>0, HandlingFacts
    <3> QED
      BY <3>1, Zenon DEF HandledAt
  <2> QED
    BY <1>0, <2>1, <2>2, Zenon
<1>2. Saved(v, i + 1) = n
  <2>1. n = Len(Saves(v))
    BY HandlingTypes
  <2> QED
    BY <1>0, <2>1 DEF Saved
<1>3. Instr = Set(Acc, Scratch) \/ (v = 33 /\ Instr = Call("KeyboardHandlerM"))
  <2>1. k \in 1 .. Work(v) /\ n + k = i
    BY <1>0
  <2>2. IrqIs(v, Text[Gates[v]], n, Work(v))
    BY DEF Handling
  <2> QED
    BY <1>1, <2>1, <2>2, Zenon DEF IrqIs
<1>4. /\ \A q : (\A m \in 1 .. n : q # Saves(v)[m]) => q # Acc /\ (v = 33 => q \notin CallerSaved(bits))
      /\ Acc \in Registers(bits) \ {Ip(bits), Sp(bits), Fl(bits)}
  BY <1>0, Registers64, Registers32, Names, WellTyped DEF Handling, SavesAre, Covers, Acc
<1>5. Slot(n) \in Int /\ Slot(n) < IrqTop /\ IrqTop \in Int /\ \A m \in 1 .. n : Slot(m) \in Int /\ Slot(m) >= Slot(n)
  <2>1. 0 \in Int /\ 0 < n /\ \A m \in 1 .. n : m \in Int /\ (m = n \/ m < n)
    BY <1>0
  <2>2. Slot(n) \in Int /\ Slot(n) < IrqTop /\ IrqTop \in Int
    BY <1>0, <2>1, Slots, IrqPlaces
  <2>3. ASSUME NEW m \in 1 .. n PROVE Slot(m) \in Int /\ (m = n \/ Slot(n) < Slot(m))
    BY <1>0, <2>1, Slots
  <2> QED
    BY <2>2, <2>3
<1>6. CASE Instr = Set(Acc, Scratch)
  <2>1. Puts(Acc, Scratch) /\ WritesNothing /\ Kept
    BY <1>0, <1>4, <1>6, SetDoes
  <2>2. KeepsAbove(IrqTop)
    BY <2>1, NothingAbove
  <2>3. IrqNext(v, i + 1, n)
    BY <1>0, <1>1, <1>2, <1>4, <1>5, <2>1, <2>2, WellTyped DEF IrqNext, Puts, WritesNothing
  <2> QED
    BY <2>3, IrqAdvances
<1>7. CASE v = 33 /\ Instr = Call("KeyboardHandlerM")
  <2>1. /\ DOMAIN regs' = Registers(bits) /\ regs'[Ip(bits)] = Code(Pc[2], Pc[3] + 1)
        /\ \A x \in Registers(bits) \ (CallerSaved(bits) \cup {Ip(bits)}) : regs'[x] = regs[x]
        /\ KeepsAbove(Slot(n)) /\ Kept
    BY <1>0, <1>1, <1>5, <1>7, KeyboardCallDoes
  <2>2. KeepsAbove(IrqTop)
    BY <1>5, <2>1 DEF KeepsAbove
  <2>3. Sp(bits) \notin CallerSaved(bits) /\ Fl(bits) \notin CallerSaved(bits)
    BY <1>0, WellTyped, Names DEF CallerSaved
  <2>4. \A m \in 1 .. n : Contents(stack', Slot(m)) = Before(Saves(v)[m])
    BY <1>1, <1>5, <2>1 DEF KeepsAbove
  <2>5. IrqNext(v, i + 1, n)
    BY <1>0, <1>1, <1>2, <1>4, <1>7, <2>1, <2>2, <2>3, <2>4, WellTyped DEF IrqNext
  <2> QED
    BY <2>5, IrqAdvances
<1> QED
  BY <1>3, <1>6, <1>7

LEMMA IrqPop ==
  ASSUME NEW v, NEW i, NEW n, Handling(v, i, n), i > n + Work(v), i <= 2 * n + Work(v), StubStep
  PROVE  IrqDone(v, i + 1)
<1> DEFINE m == 2 * n + Work(v) + 1 - i
           r == Saves(v)[m]
<1>0. /\ n \in 1 .. 10 /\ n \in Int /\ Work(v) \in 1 .. 2 /\ i \in Int /\ i > n /\ Saved(v, i) = m /\ StubsTypeOK
      /\ m \in 1 .. n /\ m \in Int
  <2>1. n \in 1 .. 10 /\ n \in Int /\ Work(v) \in 1 .. 2 /\ i \in Int /\ StubsTypeOK
    BY HandlingTypes
  <2>2. ~(i <= n) /\ ~(i <= n + Work(v)) /\ i > n /\ m \in 1 .. n /\ m \in Int
    BY <2>1
  <2>3. Saved(v, i) = m
    <3>1. Saved(v, i) = (IF i <= n THEN i - 1 ELSE IF i <= n + Work(v) THEN n ELSE m)
      BY HandlingTypes
    <3> HIDE DEF m
    <3> QED
      BY <2>2, <3>1
  <2> HIDE DEF m
  <2> QED
    BY <2>1, <2>2, <2>3
<1>1. /\ Instr = Text[Gates[v]][i] /\ regs[Sp(bits)] = Stack(Slot(m))
      /\ \A k \in 1 .. m : Contents(stack, Slot(k)) = Before(Saves(v)[k])
      /\ \A q \in Registers(bits) \ {Ip(bits), Sp(bits), Fl(bits)} :
           (\A k \in 1 .. m : q # Saves(v)[k]) => regs[q] = Before(q)
  <2> HIDE DEF m
  <2>1. Instr = Text[Gates[v]][i] /\ v \in IRQs
    BY HandlingTypes
  <2>2. /\ regs[Sp(bits)] = Stack(Slot(m)) /\ \A k \in 1 .. m : Contents(stack, Slot(k)) = Before(Saves(v)[k])
        /\ \A q \in Registers(bits) \ {Ip(bits), Sp(bits), Fl(bits)} :
             (i > n => \A k \in 1 .. m : q # Saves(v)[k]) => regs[q] = Before(q)
    <3>1. HandledAt(v, i, n, m)
      BY <1>0, HandlingFacts
    <3> QED
      BY <3>1, Zenon DEF HandledAt
  <2> QED
    BY <1>0, <2>1, <2>2, Zenon
<1>2. Saved(v, i + 1) = m - 1
  <2>1. n = Len(Saves(v))
    BY HandlingTypes
  <2> QED
    BY <1>0, <2>1 DEF Saved
<1>3. Instr = Pop(r)
  <2> DEFINE k == i - (n + Work(v))
  <2>1. k \in 1 .. n /\ (n + Work(v)) + k = i /\ n + 1 - k = m
    BY <1>0
  <2>2. IrqIs(v, Text[Gates[v]], n, Work(v))
    BY DEF Handling
  <2> HIDE DEF k, m
  <2> QED
    BY <1>1, <2>1, <2>2, Zenon DEF IrqIs
<1>4. r \in Registers(bits) \ {Ip(bits), Sp(bits), Fl(bits)}
  BY <1>0 DEF Handling, SavesAre
<1> HIDE DEF r, m
<1>5. Slot(m) \in Int /\ Slot(m) + Bytes(bits) = Slot(m - 1) /\ \A k \in 1 .. m : Slot(k) \in Int
  <2>1. \A k \in 1 .. m : k \in Int
    BY <1>0
  <2> QED
    BY <1>0, <2>1, Slots
<1>6. /\ DOMAIN regs' = Registers(bits) /\ regs'[Ip(bits)] = Code(Pc[2], Pc[3] + 1)
      /\ regs'[Sp(bits)] = Stack(Slot(m - 1)) /\ regs'[r] = Contents(stack, Slot(m))
      /\ \A x \in Registers(bits) \ {Ip(bits), Sp(bits), r} : regs'[x] = regs[x]
      /\ WritesNothing /\ Kept
  BY <1>0, <1>1, <1>3, <1>4, <1>5, PopDoes
<1>7. KeepsAbove(IrqTop)
  BY <1>6, NothingAbove
<1>8. \A k \in 1 .. m - 1 : Contents(stack', Slot(k)) = Before(Saves(v)[k])
  BY <1>0, <1>1, <1>5, <1>6 DEF WritesNothing
<1>9. ASSUME NEW q \in Registers(bits) \ {Ip(bits), Sp(bits), Fl(bits)}, \A k \in 1 .. m - 1 : q # Saves(v)[k]
      PROVE  regs'[q] = Before(q)
  <2>1. CASE q = r
    BY <1>0, <1>1, <1>6, <2>1 DEF r
  <2>2. CASE q # r
    <3>1. \A k \in 1 .. m : q # Saves(v)[k]
      BY <1>0, <1>9, <2>2 DEF r
    <3> QED
      BY <1>1, <1>6, <2>2, <3>1
  <2> QED
    BY <2>1, <2>2
<1>10. i + 1 > n
  BY <1>0
<1>11. regs'[Fl(bits)] = regs[Fl(bits)]
  BY <1>0, <1>4, <1>6, WellTyped
<1>12. IrqNext(v, i + 1, n)
  BY <1>2, <1>6, <1>7, <1>8, <1>9, <1>10, <1>11 DEF IrqNext
<1> QED
  BY <1>12, IrqAdvances

IretDone == Interruptible' /\ Kept /\ KeepsAbove(Floor) /\ DOMAIN regs' = Registers(bits)

LEMMA NothingSaved ==
  ASSUME NEW v, NEW i, NEW n, Handling(v, i, n), ~(i <= n), ~(i <= n + Work(v)), 2 * n + Work(v) + 1 - i = 0
  PROVE  Saved(v, i) = 0
<1>1. n = Len(Saves(v))
  BY HandlingTypes
<1>2. Saved(v, i) = 2 * n + Work(v) + 1 - i
  BY <1>1 DEF Saved
<1> QED
  BY <1>2

LEMMA IrqReturns ==
  ASSUME NEW v, NEW i, NEW n, Handling(v, i, n), i > 2 * n + Work(v), StubStep
  PROVE  IretDone
<1>0. /\ n \in 1 .. 10 /\ n \in Int /\ Work(v) \in 1 .. 2 /\ i \in Int /\ StubsTypeOK /\ Saved(v, i) = 0
      /\ bits \in {32, 64} /\ Instr = Iret
  <2>1. /\ n \in 1 .. 10 /\ n \in Int /\ Work(v) \in 1 .. 2 /\ i \in Int /\ StubsTypeOK
        /\ IrqIs(v, Text[Gates[v]], n, Work(v)) /\ Instr = Text[Gates[v]][i]
    <3>1. n \in 1 .. 10 /\ n \in Int /\ Work(v) \in 1 .. 2 /\ i \in Int /\ StubsTypeOK
      BY HandlingTypes
    <3>2. IrqIs(v, Text[Gates[v]], n, Work(v)) /\ Instr = Text[Gates[v]][i]
      BY HandlingTypes
    <3> QED
      BY <3>1, <3>2
  <2>2. ~(i <= n) /\ ~(i <= n + Work(v)) /\ 2 * n + Work(v) + 1 - i = 0 /\ ((n + Work(v)) + n) + 1 = i
    <3>1. i <= 2 * n + Work(v) + 1
      BY HandlingTypes
    <3> QED
      BY <2>1, <3>1
  <2>3. Saved(v, i) = 0
    BY <2>1, <2>2, NothingSaved
  <2>4. Instr = Iret
    BY <2>1, <2>2, Zenon DEF IrqIs
  <2> QED
    BY <2>1, <2>3, <2>4, WellTyped
<1>1. /\ regs[Sp(bits)] = Stack(IrqTop)
      /\ \A r \in Registers(bits) \ {Ip(bits), Sp(bits), Fl(bits)} : regs[r] = Before(r)
      /\ \A k \in DOMAIN Pushed : Contents(stack, IrqBase - Bytes(bits) * k) = Before(Pushed[k])
  <2>1. /\ regs[Sp(bits)] = Stack(Slot(0))
        /\ \A r \in Registers(bits) \ {Ip(bits), Sp(bits), Fl(bits)} :
             (i > n => \A k \in 1 .. 0 : r # Saves(v)[k]) => regs[r] = Before(r)
    <3> DEFINE m == 0
    <3>1. Saved(v, i) = m
      BY <1>0
    <3> HIDE DEF m
    <3>2. /\ regs[Sp(bits)] = Stack(Slot(m))
          /\ \A r \in Registers(bits) \ {Ip(bits), Sp(bits), Fl(bits)} :
               (i > n => \A k \in 1 .. m : r # Saves(v)[k]) => regs[r] = Before(r)
      <4>1. HandledAt(v, i, n, m)
        BY <3>1, HandlingFacts
      <4> QED
        BY <4>1, Zenon DEF HandledAt
    <3> QED
      BY <3>2 DEF m
  <2>2. \A k \in DOMAIN Pushed : Contents(stack, IrqBase - Bytes(bits) * k) = Before(Pushed[k])
    BY HandlingTypes, Zenon DEF InterruptedAt, Read
  <2>3. Slot(0) = IrqTop
    BY <1>0, Slots
  <2>4. \A r : \A k \in 1 .. 0 : r # Saves(v)[k]
    OBVIOUS
  <2> QED
    BY <2>1, <2>2, <2>3, <2>4
<1>2. /\ IrqTop \in Int /\ IrqBase \in Int /\ IrqBase <= Floor /\ Floor \in Int /\ Before(Sp(bits)) = Stack(Floor)
      /\ Top = IrqTop
  BY <1>0, <1>1, IrqPlaces, FloorFacts DEF Top, Stack
<1>3. ExecIret
  BY <1>0, StepIs DEF Iret
<1> DEFINE w == Bytes(bits)
           top == IF bits = 64 THEN Contents(stack, Top + 3 * w) ELSE Stack(Top + 3 * w)
<1>4. /\ regs' = [r \in Registers(bits) |->
                    CASE r = Ip(bits) -> Contents(stack, Top)
                      [] r = "cs"     -> Contents(stack, Top + w)
                      [] r = Fl(bits) -> Contents(stack, Top + 2 * w)
                      [] r = Sp(bits) -> top
                      [] r = "ss" /\ bits = 64 -> Contents(stack, Top + 4 * w)
                      [] OTHER        -> regs[r]]
      /\ stack' = AndUp(stack, top[2]) /\ Kept
  BY <1>3, Zenon DEF ExecIret, Read, Kept
<1>5. /\ Contents(stack, IrqTop) = Before(Ip(bits)) /\ Contents(stack, IrqTop + w) = Before("cs")
      /\ Contents(stack, IrqTop + 2 * w) = Before(Fl(bits)) /\ top = Stack(Floor)
      /\ bits = 64 => Contents(stack, IrqTop + 4 * w) = Before("ss")
  <2>1. CASE bits = 64
    <3>1. /\ w = 8 /\ Pushed = <<"ss", "rsp", "rflags", "cs", "rip">> /\ Len(Pushed) = 5 /\ DOMAIN Pushed = 1 .. 5
          /\ Ip(bits) = "rip" /\ Fl(bits) = "rflags" /\ Sp(bits) = "rsp"
      BY <2>1, Names DEF Pushed
    <3> HIDE DEF w
    <3>2. IrqTop = IrqBase - 8 * 5
      BY <3>1, Zenon DEF IrqTop, w
    <3>3. \A k \in 1 .. 5 : Contents(stack, IrqBase - 8 * k) = Before(Pushed[k])
      BY <1>1, <3>1, Zenon DEF w
    <3>4. /\ IrqTop = IrqBase - 8 * 5 /\ IrqTop + w = IrqBase - 8 * 4 /\ IrqTop + 2 * w = IrqBase - 8 * 3
          /\ IrqTop + 3 * w = IrqBase - 8 * 2 /\ IrqTop + 4 * w = IrqBase - 8 * 1
      BY <1>2, <3>1, <3>2
    <3>5. 1 \in 1 .. 5 /\ 2 \in 1 .. 5 /\ 3 \in 1 .. 5 /\ 4 \in 1 .. 5 /\ 5 \in 1 .. 5
      OBVIOUS
    <3>6. /\ Contents(stack, IrqTop) = Before(Pushed[5]) /\ Contents(stack, IrqTop + w) = Before(Pushed[4])
          /\ Contents(stack, IrqTop + 2 * w) = Before(Pushed[3]) /\ Contents(stack, IrqTop + 3 * w) = Before(Pushed[2])
          /\ Contents(stack, IrqTop + 4 * w) = Before(Pushed[1])
      BY <3>3, <3>4, <3>5, Zenon
    <3>7. Pushed[1] = "ss" /\ Pushed[2] = "rsp" /\ Pushed[3] = "rflags" /\ Pushed[4] = "cs" /\ Pushed[5] = "rip"
      BY <3>1
    <3> QED
      BY <1>2, <2>1, <3>1, <3>6, <3>7, Zenon
  <2>2. CASE bits = 32
    <3>1. /\ w = 4 /\ Pushed = <<"eflags", "cs", "eip">> /\ Len(Pushed) = 3 /\ DOMAIN Pushed = 1 .. 3
          /\ Ip(bits) = "eip" /\ Fl(bits) = "eflags" /\ Sp(bits) = "esp" /\ bits # 64
      BY <2>2, Names DEF Pushed
    <3> HIDE DEF w
    <3>2. IrqTop = IrqBase - 4 * 3
      BY <3>1, Zenon DEF IrqTop, w
    <3>3. \A k \in 1 .. 3 : Contents(stack, IrqBase - 4 * k) = Before(Pushed[k])
      BY <1>1, <3>1, Zenon DEF w
    <3>4. /\ IrqTop = IrqBase - 4 * 3 /\ IrqTop + w = IrqBase - 4 * 2 /\ IrqTop + 2 * w = IrqBase - 4 * 1
          /\ IrqTop + 3 * w = IrqBase
      BY <1>2, <3>1, <3>2
    <3>5. 1 \in 1 .. 3 /\ 2 \in 1 .. 3 /\ 3 \in 1 .. 3
      OBVIOUS
    <3>6. /\ Contents(stack, IrqTop) = Before(Pushed[3]) /\ Contents(stack, IrqTop + w) = Before(Pushed[2])
          /\ Contents(stack, IrqTop + 2 * w) = Before(Pushed[1])
      BY <3>3, <3>4, <3>5, Zenon
    <3>7. Pushed[1] = "eflags" /\ Pushed[2] = "cs" /\ Pushed[3] = "eip"
      BY <3>1
    <3>8. IrqBase = Floor
      <4>1. Before(Sp(bits))[2] = Floor
        BY <1>2 DEF Stack
      <4> QED
        BY <3>1, <4>1, Zenon DEF IrqBase
    <3>9. top = Stack(Floor)
      <4>1. top = Stack(Top + 3 * w)
        BY <3>1
      <4> QED
        BY <1>2, <3>4, <3>8, <4>1, Zenon
    <3> QED
      BY <3>1, <3>6, <3>7, <3>9, Zenon
  <2> QED
    BY <1>0, <2>1, <2>2
<1>6. KeepsAbove(Floor)
  <2>1. top[2] = Floor
    BY <1>5 DEF Stack
  <2>2. stack' = AndUp(stack, Floor) /\ DOMAIN stack \subseteq Int
    BY <1>0, <1>4, <2>1, WellTyped
  <2> QED
    BY <1>2, <2>2 DEF KeepsAbove, Contents, AndUp
<1>7. DOMAIN regs' = Registers(bits) /\ \A r \in Registers(bits) : regs'[r] = Before(r)
  <2>1. /\ "cs" \notin {Ip(bits), Sp(bits), Fl(bits)} /\ "ss" \notin {"cs", Ip(bits), Sp(bits), Fl(bits)}
        /\ Ip(bits) # Sp(bits) /\ Ip(bits) # Fl(bits) /\ Fl(bits) # Sp(bits)
    BY <1>0, Names
  <2>2. DOMAIN regs' = Registers(bits)
    BY <1>4, Zenon
  <2> HIDE DEF top, w
  <2>3. ASSUME NEW r \in Registers(bits) PROVE regs'[r] = Before(r)
    <3>1. CASE r = Ip(bits)
      BY <1>2, <1>4, <1>5, <2>1, <3>1
    <3>2. CASE r = "cs"
      BY <1>2, <1>4, <1>5, <2>1, <3>2
    <3>3. CASE r = Fl(bits)
      BY <1>2, <1>4, <1>5, <2>1, <3>3
    <3>4. CASE r = Sp(bits)
      BY <1>2, <1>4, <1>5, <2>1, <3>4
    <3>5. CASE r = "ss" /\ bits = 64
      BY <1>2, <1>4, <1>5, <2>1, <3>5
    <3>6. CASE r \notin {Ip(bits), Sp(bits), Fl(bits), "cs"} /\ ~(r = "ss" /\ bits = 64)
      BY <1>1, <1>4, <2>1, <3>6
    <3> QED
      BY <3>1, <3>2, <3>3, <3>4, <3>5, <3>6
  <2> QED
    BY <2>2, <2>3
<1>8. Interruptible'
  BY <1>4, <1>7, IrqMeansKept DEF Interruptible, Kept
<1> QED
  BY <1>4, <1>6, <1>7, <1>8 DEF IretDone

LEMMA InterruptedPreserves ==
  ASSUME StubsInv, Interrupted, StubStep
  PROVE  StubsInv'
<1>1. PICK v \in IRQs : \E i \in 1 .. 2 * Len(Saves(v)) + Work(v) + 1 : InterruptedAt(v, i)
  BY DEF Interrupted
<1>2. PICK i \in 1 .. 2 * Len(Saves(v)) + Work(v) + 1 : InterruptedAt(v, i)
  BY <1>1
<1>3. StubsTypeOK /\ bits \in {32, 64}
  BY WellTyped DEF StubsInv
<1> DEFINE n == IF v = 33 THEN IF bits = 64 THEN 10 ELSE 3 ELSE 1
<1>4. SavesAre(v, n) /\ IrqIs(v, Text[Gates[v]], n, Work(v))
  BY <1>3, SavesOf, IrqCode
<1>5. Len(Saves(v)) = n
  BY <1>4 DEF SavesAre
<1> HIDE DEF n
<1>6. Handling(v, i, n)
  BY <1>2, <1>3, <1>4, <1>5, Zenon DEF Handling
<1>7. n \in 1 .. 10 /\ n \in Int /\ Work(v) \in 1 .. 2 /\ i \in Int /\ i >= 1 /\ i <= 2 * n + Work(v) + 1
  BY <1>6, HandlingTypes
<1>8. CASE i = 2 * n + Work(v) + 1
  <2>1. Interruptible' /\ Kept /\ KeepsAbove(Floor) /\ DOMAIN regs' = Registers(bits)
    BY <1>6, <1>7, <1>8, IrqReturns DEF IretDone
  <2>2. regs'[Ip(bits)] = Before(Ip(bits)) /\ regs'[Sp(bits)] = Before(Sp(bits))
    BY <1>3, <2>1, IrqMeansKept, WellTyped DEF Interruptible, Kept
  <2>3. Before(Sp(bits))[1] = "stack"
    BY <1>3, IrqPlaces DEF Stack
  <2>4. Before(Ip(bits))[1] = "code"
    <3>1. Before(Ip(bits)) = Code(Gates[raised], 1) \/ Before(Ip(bits)) = Code("program", 0)
      <4>1. Ip(bits) # Sp(bits) /\ Ip(bits) # Fl(bits)
        BY <1>3, WellTyped
      <4>2. CASE raised = NoVector
        <5>1. Before(Ip(bits)) = AtFault(Ip(bits))
          BY <4>2 DEF Before
        <5>2. AtFault(Ip(bits)) = Code("program", 0)
          BY <4>1 DEF AtFault
        <5> QED
          BY <5>1, <5>2
      <4>3. CASE raised # NoVector
        BY <4>1, <4>3 DEF Before
      <4> QED
        BY <4>2, <4>3
    <3> QED
      BY <3>1 DEF Code
  <2> QED
    BY <2>1, <2>2, <2>3, <2>4, InvariantStays DEF Going
<1>9. CASE i # 2 * n + Work(v) + 1
  <2>0. i <= 2 * n + Work(v)
    BY <1>7, <1>9
  <2>1. IrqDone(v, i + 1)
    <3>1. CASE i <= n
      BY <1>6, <3>1, IrqPush
    <3>2. CASE i > n /\ i <= n + Work(v)
      BY <1>6, <3>2, IrqWork
    <3>3. CASE i > n + Work(v)
      BY <1>6, <2>0, <3>3, IrqPop
    <3> QED
      BY <1>7, <3>1, <3>2, <3>3
  <2> DEFINE j == i + 1
  <2>2. InterruptedAt(v, j)' /\ Kept /\ KeepsAbove(IrqTop) /\ DOMAIN regs' = Registers(bits)
    BY <2>1 DEF IrqDone
  <2>3. j \in 1 .. 2 * n + Work(v) + 1
    BY <1>7, <2>0
  <2> HIDE DEF j
  <2>4. KeepsAbove(Floor)
    BY <1>3, <2>2, IrqPlaces, FloorFacts DEF KeepsAbove
  <2>5. Interrupted'
    <3>1. (2 * Len(Saves(v)) + Work(v) + 1)' = 2 * n + Work(v) + 1 /\ (v \in IRQs)'
      BY <1>5, <2>2, IrqMeansKept DEF IRQs
    <3> QED
      BY <2>2, <2>3, <3>1, Zenon DEF Interrupted
  <2>6. regs'[Ip(bits)][1] = "code" /\ regs'[Sp(bits)][1] = "stack"
    <3>1. (Pc = Code(Gates[v], j) /\ regs[Sp(bits)] = Stack(IrqTop - Bytes(bits) * Saved(v, j)))'
      BY <2>2, Zenon DEF InterruptedAt
    <3> QED
      BY <2>2, <3>1 DEF Pc, Code, Stack, Kept
  <2> QED
    BY <2>2, <2>4, <2>5, <2>6, InvariantStays DEF Going
<1> QED
  BY <1>8, <1>9

-----------------------------------------------------------------------------
(* The CPU enters a gate.                                                  *)
FrameOf(b, w, n, p) ==
  /\ \A k \in 1 .. n : Contents(stack', b - w * k) = p[k]
  /\ KeepsAbove(b)

LEMMA OverlayFrame ==
  ASSUME NEW w \in {4, 8}, NEW b \in Int, NEW n \in Nat, NEW p, DOMAIN stack \subseteq Int,
         stack' = Overlay([a \in {b - w * i : i \in 1 .. n} |-> p[(b - a) \div w]])
  PROVE  FrameOf(b, w, n, p)
<1> DEFINE S == {b - w * i : i \in 1 .. n}
           f == [a \in S |-> p[(b - a) \div w]]
<1>1. ASSUME NEW k \in 1 .. n
      PROVE  /\ b - w * k \in S /\ b - w * k \in Int /\ b - w * k < b
             /\ (b - (b - w * k)) \div w = k
  <2>1. CASE w = 8
    BY <2>1
  <2>2. CASE w = 4
    BY <2>2
  <2> QED
    BY <2>1, <2>2
<1>2. \A a \in S : a \in Int /\ a < b
  BY <1>1
<1>3. \A k \in 1 .. n : f[b - w * k] = p[k]
  <2> TAKE k \in 1 .. n
  <2>1. f[b - w * k] = p[(b - (b - w * k)) \div w]
    BY <1>1, Zenon
  <2> QED
    BY <1>1, <2>1, Zenon
<1>4. DOMAIN f = S
  BY Zenon
<1>5. stack' = Overlay(f)
  BY Zenon
<1> HIDE DEF f, S
<1>6. stack' = [x \in S \cup DOMAIN stack |-> IF x \in S THEN f[x] ELSE stack[x]]
  BY <1>4, <1>5, Zenon DEF Overlay
<1>7. \A k \in 1 .. n : Contents(stack', b - w * k) = p[k]
  <2> TAKE k \in 1 .. n
  <2> DEFINE x == b - w * k
  <2>1. x \in S /\ f[x] = p[k]
    BY <1>1, <1>3, Zenon
  <2> HIDE DEF x
  <2>2. Contents(stack', x) = p[k]
    BY <1>6, <2>1 DEF Contents
  <2> QED
    BY <2>2 DEF x
<1>8. KeepsAbove(b)
  <2>1. DOMAIN stack' = S \cup DOMAIN stack
    BY <1>6
  <2>2. DOMAIN stack' \subseteq Int
    BY <1>2, <2>1
  <2>3. ASSUME NEW x \in Int, x >= b PROVE Contents(stack', x) = Contents(stack, x)
    <3>1. x \notin S
      BY <1>2, <2>3
    <3> QED
      BY <1>6, <3>1 DEF Contents
  <2> QED
    BY <2>2, <2>3 DEF KeepsAbove
<1> QED
  BY <1>7, <1>8 DEF FrameOf

Entered(v, b) ==
  LET w == Bytes(bits)
      n == Len(Pushed) + IF v \in ErrorVectors THEN 1 ELSE 0
  IN
  /\ DOMAIN regs' = Registers(bits) /\ regs'[Ip(bits)] = Code(Gates[v], 1)
  /\ regs'[Sp(bits)] = Stack(b - w * n)
  /\ regs'[Fl(bits)] = IF v \in IRQs THEN Flags(FALSE) ELSE regs[Fl(bits)]
  /\ \A r \in Registers(bits) \ {Ip(bits), Sp(bits), Fl(bits)} : regs'[r] = regs[r]
  /\ \A k \in DOMAIN Pushed : Contents(stack', b - w * k) = regs[Pushed[k]]
  /\ v \in ErrorVectors => Contents(stack', b - w * n) = Error(v)
  /\ KeepsAbove(b)

LEMMA GateDoes ==
  ASSUME StubsTypeOK, NEW v, EnterGate(v), NEW t \in Int, regs[Sp(bits)] = Stack(t)
  PROVE  Entered(v, IF bits = 64 THEN Top - (Top % 16) ELSE Top)
<1> DEFINE b == IF bits = 64 THEN Top - (Top % 16) ELSE Top
           w == Bytes(bits)
           saved == [i \in DOMAIN Pushed |-> regs[Pushed[i]]]
           pushed == IF v \in ErrorVectors THEN Append(saved, Error(v)) ELSE saved
           m == Len(Pushed)
           n == m + IF v \in ErrorVectors THEN 1 ELSE 0
<1>1. Top = t /\ bits \in {32, 64}
  BY WellTyped DEF Top, Stack
<1>2. b \in Int
  <2>1. t % 16 \in 0 .. 15
    BY <1>1
  <2> QED
    BY <1>1, <2>1
<1>3. w \in {4, 8} /\ m \in {3, 5} /\ DOMAIN Pushed = 1 .. m
  <2>1. CASE bits = 64
    BY <1>1, <2>1, Names DEF Pushed
  <2>2. CASE bits = 32
    BY <1>1, <2>2, Names DEF Pushed
  <2> QED
    BY <1>1, <2>1, <2>2
<1>4. Len(pushed) = n /\ n \in Nat /\ DOMAIN pushed = 1 .. n /\ \A k \in 1 .. m : pushed[k] = regs[Pushed[k]]
  <2> DEFINE T == {regs[Pushed[i]] : i \in 1 .. m} \cup {Error(v)}
  <2>1. saved \in [1 .. m -> T] /\ m \in Nat /\ Error(v) \in T /\ \A k \in 1 .. m : saved[k] = regs[Pushed[k]]
    BY <1>3
  <2> HIDE DEF saved, m, T
  <2>2. saved \in Seq(T) /\ Len(saved) = m
    BY <2>1
  <2> QED
    BY <2>1, <2>2
<1>5. v \in ErrorVectors => pushed[n] = Error(v)
  <2> DEFINE T == {regs[Pushed[i]] : i \in 1 .. m} \cup {Error(v)}
  <2>1. saved \in [1 .. m -> T] /\ m \in Nat /\ Error(v) \in T
    BY <1>3
  <2> HIDE DEF saved, m, T
  <2>2. saved \in Seq(T) /\ Len(saved) = m
    BY <2>1
  <2> QED
    BY <2>1, <2>2
<1>6. /\ stack' = Overlay([a \in {b - w * i : i \in DOMAIN pushed} |-> pushed[(b - a) \div w]])
      /\ regs' = [regs EXCEPT ![Sp(bits)] = Stack(b - w * Len(pushed)),
                              ![Ip(bits)] = Code(Gates[v], 1),
                              ![Fl(bits)] = IF v \in IRQs THEN Flags(FALSE) ELSE @]
  BY Zenon DEF EnterGate
<1> HIDE DEF pushed, saved, m, b
<1>7. stack' = Overlay([a \in {b - w * i : i \in 1 .. n} |-> pushed[(b - a) \div w]])
  BY <1>4, <1>6, Zenon
<1>8. regs' = [regs EXCEPT ![Sp(bits)] = Stack(b - w * n), ![Ip(bits)] = Code(Gates[v], 1),
                           ![Fl(bits)] = IF v \in IRQs THEN Flags(FALSE) ELSE @]
  BY <1>4, <1>6, Zenon
<1>9. DOMAIN stack \subseteq Int
  BY WellTyped
<1>n. m + (IF v \in ErrorVectors THEN 1 ELSE 0) = n /\ (v \in ErrorVectors => n = m + 1 /\ n \in 1 .. n)
  BY <1>3
<1> HIDE DEF n, w
<1>10. FrameOf(b, w, n, pushed)
  BY <1>2, <1>3, <1>4, <1>7, <1>9, OverlayFrame
<1>11. \A k \in 1 .. n : Contents(stack', b - w * k) = pushed[k]
  BY <1>10 DEF FrameOf
<1>12. 1 .. m \subseteq 1 .. n
  BY <1>3, <1>n
<1>13. \A k \in DOMAIN Pushed : Contents(stack', b - w * k) = regs[Pushed[k]]
  BY <1>3, <1>4, <1>11, <1>12, Zenon
<1>14. v \in ErrorVectors => Contents(stack', b - w * n) = Error(v)
  BY <1>5, <1>11, <1>n, Zenon
<1>15. KeepsAbove(b)
  BY <1>10 DEF FrameOf
<1> DEFINE s == Stack(b - w * n)
<1>16. /\ DOMAIN regs' = Registers(bits) /\ regs'[Ip(bits)] = Code(Gates[v], 1) /\ regs'[Sp(bits)] = s
       /\ regs'[Fl(bits)] = IF v \in IRQs THEN Flags(FALSE) ELSE regs[Fl(bits)]
       /\ \A r \in Registers(bits) \ {Ip(bits), Sp(bits), Fl(bits)} : regs'[r] = regs[r]
  <2>1. regs' = [regs EXCEPT ![Sp(bits)] = s, ![Ip(bits)] = Code(Gates[v], 1),
                             ![Fl(bits)] = IF v \in IRQs THEN Flags(FALSE) ELSE @]
    BY <1>8
  <2> HIDE DEF s
  <2> QED
    BY <2>1, WellTyped
<1> QED
  BY <1>n, <1>13, <1>14, <1>15, <1>16, Zenon DEF Entered, w, n, m, b

LEMMA FlagsDiffer ==
  Flags(FALSE) # Flags(TRUE)
<1>1. FALSE # TRUE
  OBVIOUS
<1>2. Flags(FALSE)[2] = FALSE /\ Flags(TRUE)[2] = TRUE
  BY DEF Flags
<1> QED
  BY <1>1, <1>2, Zenon

(* Only from the program or the start of a stub: elsewhere the interrupt   *)
(* flag is clear, and the program is not where a handler is.               *)
LEMMA OnlyInterruptible ==
  ASSUME StubsInv
  PROVE  /\ (Idle \/ Running) /\ regs[Fl(bits)] = Flags(TRUE) => Interruptible
         /\ Idle => Interruptible /\ raised = NoVector
         /\ Halted => ~Idle /\ ~Running
<1>1. StubsTypeOK /\ bits \in {32, 64} /\ Ip(bits) \in Registers(bits) /\ Ip(bits) # Sp(bits)
  BY WellTyped DEF StubsInv
<1>2. Halted => ~Idle /\ ~Running
  <2>1. "halt" \notin DOMAIN Text
    BY DEF Text, Labels
  <2> QED
    BY <2>1 DEF Halted, Idle, Running, Code
<1>3. Interrupted => regs[Fl(bits)] = Flags(FALSE) /\ ~Idle
  <2> SUFFICES ASSUME NEW v \in IRQs, NEW i \in 1 .. 2 * Len(Saves(v)) + Work(v) + 1, InterruptedAt(v, i)
               PROVE  regs[Fl(bits)] = Flags(FALSE) /\ ~Idle
    BY DEF Interrupted
  <2>1. Pc = Code(Gates[v], i) /\ regs[Fl(bits)] = Flags(FALSE)
    BY DEF InterruptedAt
  <2>2. i # 0
    OBVIOUS
  <2> QED
    BY <2>1, <2>2 DEF Idle, Code
<1>4. Trapped => regs[Fl(bits)] = Flags(FALSE) /\ ~Idle
  <2> SUFFICES ASSUME bits = 64, NEW i \in 2 .. (IF raised \in ErrorVectors THEN 61 ELSE 59), TrappedAt(i)
               PROVE  regs[Fl(bits)] = Flags(FALSE) /\ ~Idle
    BY DEF Trapped
  <2>1. Pc = Code(Gates[raised], i) /\ regs["rflags"] = Flags(FALSE)
    BY DEF TrappedAt
  <2>2. i # 0
    OBVIOUS
  <2> QED
    BY <2>1, <2>2, Names DEF Idle, Code
<1>5. Faulted => regs[Fl(bits)] = Flags(FALSE) /\ ~Idle
  <2> SUFFICES ASSUME bits = 32, NEW i \in 2 .. (IF raised = 13 THEN 45 ELSE 41), FaultedAt(i)
               PROVE  regs[Fl(bits)] = Flags(FALSE) /\ ~Idle
    BY DEF Faulted
  <2>1. Pc = Code(Gates[raised], i) /\ regs["eflags"] = Flags(FALSE)
    BY DEF FaultedAt
  <2>2. i # 0
    OBVIOUS
  <2> QED
    BY <2>1, <2>2, Names DEF Idle, Code
<1>6. Interruptible /\ Idle => raised = NoVector
  <2> SUFFICES ASSUME Interruptible, raised # NoVector
               PROVE  ~Idle
    OBVIOUS
  <2>1. Pc = Before(Ip(bits))
    BY <1>1 DEF Interruptible, Pc
  <2>2. Before(Ip(bits)) = Code(Gates[raised], 1)
    BY <1>1 DEF Before
  <2> QED
    BY <2>1, <2>2 DEF Idle, Code
<1> QED
  BY <1>2, <1>3, <1>4, <1>5, <1>6, FlagsDiffer DEF StubsInv

LEMMA InterruptPreserves ==
  ASSUME StubsInv, NEW v, Interrupt(v)
  PROVE  StubsInv'
<1>1. Interruptible /\ v \in IRQs /\ EnterGate(v) /\ Kept /\ StubsTypeOK
  BY OnlyInterruptible DEF Interrupt, Kept, StubsInv
<1>2. /\ bits \in {32, 64} /\ Ip(bits) \in Registers(bits) /\ Sp(bits) \in Registers(bits) \ {Ip(bits)}
      /\ Fl(bits) \in Registers(bits)
  BY <1>1, WellTyped
<1>3. regs[Sp(bits)] = Stack(Floor) /\ Floor \in Int /\ Before(Sp(bits))[2] = Floor /\ Top = Floor
  BY <1>1, <1>2, IrqPlaces, FloorFacts DEF Interruptible, Stack, Top
<1>4. Entered(v, IrqBase)
  <2>1. Entered(v, IF bits = 64 THEN Top - (Top % 16) ELSE Top)
    BY <1>1, <1>3, GateDoes
  <2>2. IrqBase = IF bits = 64 THEN Top - (Top % 16) ELSE Top
    BY <1>3, Zenon DEF IrqBase
  <2> QED
    BY <2>1, <2>2, Zenon
<1>5. v \notin ErrorVectors
  BY <1>1 DEF IRQs, ErrorVectors
<1>6. Len(Pushed) + (IF v \in ErrorVectors THEN 1 ELSE 0) = Len(Pushed)
  BY <1>2, <1>5 DEF Pushed
<1>7. /\ DOMAIN regs' = Registers(bits) /\ regs'[Ip(bits)] = Code(Gates[v], 1)
      /\ regs'[Sp(bits)] = Stack(IrqTop) /\ regs'[Fl(bits)] = Flags(FALSE)
      /\ \A r \in Registers(bits) \ {Ip(bits), Sp(bits), Fl(bits)} : regs'[r] = regs[r]
      /\ \A k \in DOMAIN Pushed : Contents(stack', IrqBase - Bytes(bits) * k) = regs[Pushed[k]]
      /\ KeepsAbove(IrqBase)
  BY <1>1, <1>4, <1>6, Zenon DEF Entered, IrqTop
<1>8. \A k \in DOMAIN Pushed : Pushed[k] \in Registers(bits)
  BY <1>2, Registers64, Registers32 DEF Pushed
<1>9. \A k \in DOMAIN Pushed : Contents(stack', IrqBase - Bytes(bits) * k) = Before(Pushed[k])
  BY <1>1, <1>7, <1>8 DEF Interruptible
<1>10. SavesAre(v, Len(Saves(v))) /\ Saved(v, 1) = 0 /\ Len(Saves(v)) \in 1 .. 10 /\ Work(v) \in 1 .. 2
  <2>1. SavesAre(v, Len(Saves(v))) /\ Len(Saves(v)) \in 1 .. 10
    <3> DEFINE n == IF v = 33 THEN IF bits = 64 THEN 10 ELSE 3 ELSE 1
    <3>1. SavesAre(v, n)
      BY <1>1, <1>2, SavesOf
    <3> HIDE DEF n
    <3>2. Len(Saves(v)) = n /\ n \in 1 .. 10
      BY <3>1 DEF SavesAre
    <3> QED
      BY <3>1, <3>2
  <2> QED
    BY <2>1 DEF Saved, Work
<1>11. InterruptedAt(v, 1)'
  <2>1. Pc' = Code(Gates[v], 1)' /\ (regs[Fl(bits)] = Flags(FALSE))'
    BY <1>1, <1>7, IrqMeansKept DEF Pc, Kept
  <2>2. (regs[Sp(bits)] = Stack(IrqTop - Bytes(bits) * Saved(v, 1)))'
    <3>1. IrqTop - Bytes(bits) * 0 = IrqTop
      BY <1>1, Slots DEF Slot
    <3>2. regs[Sp(bits)]' = Stack(IrqTop - Bytes(bits) * Saved(v, 1))
      BY <1>1, <1>7, <1>10, <3>1 DEF Kept
    <3> QED
      BY <1>1, <3>2, IrqMeansKept DEF Kept
  <2>3. (\A k \in DOMAIN Pushed : Read(IrqBase - Bytes(bits) * k) = Before(Pushed[k]))'
    BY <1>1, <1>9, IrqMeansKept DEF Kept, Read
  <2>4. (\A k \in 1 .. Saved(v, 1) : Read(IrqTop - Bytes(bits) * k) = Before(Saves(v)[k]))'
    BY <1>1, <1>10, IrqMeansKept
  <2>5. (\A r \in Registers(bits) \ {Ip(bits), Sp(bits), Fl(bits)} :
         (1 > Len(Saves(v)) => \A k \in 1 .. Saved(v, 1) : r # Saves(v)[k]) => regs[r] = Before(r))'
    BY <1>1, <1>7, IrqMeansKept DEF Kept, Interruptible
  <2> QED
    BY <2>1, <2>2, <2>3, <2>4, <2>5, Zenon DEF InterruptedAt
<1>12. Interrupted'
  <2>1. (1 \in 1 .. 2 * Len(Saves(v)) + Work(v) + 1)' /\ (v \in IRQs)'
    BY <1>1, <1>10, IrqMeansKept DEF IRQs
  <2> QED
    BY <1>11, <2>1, Zenon DEF Interrupted
<1>13. KeepsAbove(Floor)
  BY <1>1, <1>3, <1>7, IrqPlaces DEF KeepsAbove
<1> QED
  BY <1>1, <1>7, <1>12, <1>13, InvariantStays DEF Going, Code, Stack

LEMMA RaisePreserves ==
  ASSUME StubsInv, NEW v, Raise(v)
  PROVE  StubsInv'
<1>1. /\ Interruptible /\ raised = NoVector /\ v \in DOMAIN Gates \ IRQs /\ EnterGate(v) /\ StubsTypeOK
      /\ StackKept /\ DumpKept
      /\ bits' = bits /\ home' = home /\ dump' = dump /\ raised' = v
  BY OnlyInterruptible DEF Raise, StubsInv
<1>2. /\ bits \in {32, 64} /\ Ip(bits) \in Registers(bits) /\ Sp(bits) \in Registers(bits) \ {Ip(bits)}
      /\ Fl(bits) \in Registers(bits) \ {Ip(bits)} /\ Fl(bits) # Sp(bits)
  BY <1>1, WellTyped
<1>3. v # NoVector
  BY <1>1 DEF Gates, Gates64, Gates32, Vectors64, Vectors32, NoVector
<1>4. home \in Int /\ Base \in Int /\ Base <= home /\ StackWords \in Nat /\ Bytes(bits) \in {4, 8}
  BY <1>1, Bases, StubsAssumption, WellTyped
<1>5. \A r \in Registers(bits) : regs[r] = AtFault(r)
  BY <1>1 DEF Interruptible, Before
<1>6. regs[Sp(bits)] = Stack(home) /\ regs[Fl(bits)] = Flags(TRUE) /\ Top = home
  <2>1. AtFault(Sp(bits)) = Stack(home)
    BY <1>2 DEF AtFault
  <2>2. AtFault(Fl(bits)) = Flags(TRUE)
    BY <1>2 DEF AtFault
  <2>3. regs[Sp(bits)] = Stack(home) /\ regs[Fl(bits)] = Flags(TRUE)
    BY <1>2, <1>5, <2>1, <2>2, Zenon
  <2> QED
    BY <2>3 DEF Top, Stack
<1>7. Entered(v, Base)
  <2>1. Entered(v, IF bits = 64 THEN Top - (Top % 16) ELSE Top)
    BY <1>1, <1>4, <1>6, GateDoes
  <2>2. Base = IF bits = 64 THEN Top - (Top % 16) ELSE Top
    BY <1>6, Zenon DEF Base
  <2> QED
    BY <2>1, <2>2, Zenon
<1>8. /\ Base' = Base /\ Pushed' = Pushed /\ Gates' = Gates /\ \A r : AtFault(r)' = AtFault(r)
  BY <1>1 DEF Base, Pushed, Gates, AtFault
<1>9. EntryTop' = Base - Bytes(bits) * (Len(Pushed) + IF v \in ErrorVectors THEN 1 ELSE 0)
  BY <1>1, <1>8, Zenon DEF EntryTop
<1>10. /\ DOMAIN regs' = Registers(bits) /\ regs'[Ip(bits)] = Code(Gates[v], 1)
       /\ regs'[Sp(bits)] = Stack(EntryTop') /\ regs'[Fl(bits)] = Flags(TRUE)
       /\ \A r \in Registers(bits) \ {Ip(bits), Sp(bits), Fl(bits)} : regs'[r] = regs[r]
       /\ \A k \in DOMAIN Pushed : Contents(stack', Base - Bytes(bits) * k) = regs[Pushed[k]]
       /\ v \in ErrorVectors => Contents(stack', EntryTop') = Error(v)
       /\ KeepsAbove(Base)
  <2>1. v \notin IRQs
    BY <1>1
  <2> QED
    BY <1>6, <1>7, <1>9, <2>1, Zenon DEF Entered
<1>11. StubsTypeOK'
  <2>1. regs'[Ip(bits)][1] = "code" /\ regs'[Sp(bits)][1] = "stack"
    BY <1>10 DEF Code, Stack
  <2> QED
    BY <1>1, <1>8, <1>10, <2>1 DEF StubsTypeOK, Pc, KeepsAbove
<1>12. StackKept'
  <2>1. ASSUME NEW i \in 0 .. StackWords - 1
        PROVE  Contents(stack', home + Bytes(bits) * i) = Word(home + Bytes(bits) * i)
    <3>1. home + Bytes(bits) * i \in Int /\ home + Bytes(bits) * i >= Base
      BY <1>4
    <3>2. Contents(stack, home + Bytes(bits) * i) = Word(home + Bytes(bits) * i)
      BY <1>1 DEF StackKept, Read
    <3> QED
      BY <1>10, <3>1, <3>2 DEF KeepsAbove
  <2> QED
    BY <1>1, <2>1 DEF StackKept, Read
<1>13. FrameKept'
  <2>1. \A k \in DOMAIN Pushed : Pushed[k] \in Registers(bits)
    BY <1>2, Registers64, Registers32 DEF Pushed
  <2>2. \A k \in DOMAIN Pushed : Contents(stack', Base - Bytes(bits) * k) = AtFault(Pushed[k])
    BY <1>5, <1>10, <2>1
  <2> QED
    BY <1>1, <1>8, <1>10, <2>2 DEF FrameKept, Read
<1>14. DumpKept'
  <2>1. dump' = NoDump
    BY <1>1 DEF DumpKept
  <2> QED
    BY <2>1 DEF DumpKept, DumpShowsFault, PanicNamesException, ShowsFault
<1>15. Interruptible'
  <2>1. ASSUME NEW r \in Registers(bits) PROVE regs'[r] = Before(r)'
    <3>1. Before(r)' = CASE r = Ip(bits) /\ v # NoVector -> Code(Gates[v], 1)
                         [] r = Sp(bits) /\ v # NoVector -> Stack(EntryTop')
                         [] OTHER -> AtFault(r)
      BY <1>1, <1>8 DEF Before
    <3>2. CASE r = Ip(bits)
      BY <1>3, <1>10, <3>1, <3>2
    <3>3. CASE r = Sp(bits)
      BY <1>2, <1>3, <1>10, <3>1, <3>3
    <3>4. CASE r = Fl(bits)
      <4>1. Before(r)' = AtFault(r)
        BY <1>2, <3>1, <3>4
      <4> QED
        BY <1>5, <1>6, <1>10, <3>4, <4>1
    <3>5. CASE r \notin {Ip(bits), Sp(bits), Fl(bits)}
      BY <1>5, <1>10, <3>1, <3>5
    <3> QED
      BY <3>2, <3>3, <3>4, <3>5
  <2> QED
    BY <1>1, <2>1 DEF Interruptible
<1> QED
  BY <1>11, <1>12, <1>13, <1>14, <1>15 DEF StubsInv

-----------------------------------------------------------------------------
(* GPFaultHandler and DivbyzeroHandler of pm32: x is Extra, and counting    *)
(* from it the two are the same but for their ends.                         *)
LEMMA SameCode ==
  ASSUME NEW s, NEW t, NEW n, IsCode(s, n), IsCode(t, n), \A i \in 1 .. n : s[i] = t[i]
  PROVE  s = t
<1>1. s = [i \in 1 .. n |-> s[i]] /\ t = [i \in 1 .. n |-> t[i]]
  BY DEF IsCode
<1>2. [i \in 1 .. n |-> s[i]] = [i \in 1 .. n |-> t[i]]
  OBVIOUS
<1> QED
  BY <1>1, <1>2, Zenon

LEMMA OthersAre ==
  Others32 = <<"cr0", "cr2", "cr3", "cr4", "es", "cs", "ss", "ds", "fs", "gs">>
<1> DEFINE t == <<"cr0", "cr2", "cr3", "cr4", "es", "cs", "ss", "ds", "fs", "gs">>
           a == Controls32
           b == Segments
           s == a \o b
<1>1. IsCode(a, 4) /\ IsCode(b, 6) /\ IsCode(t, 10)
  BY DEF IsCode, Controls32, Segments
<1>2. (\A k \in 1 .. 4 : a[k] = t[k]) /\ \A k \in 1 .. 6 : b[k] = t[4 + k]
  BY DEF Controls32, Segments
<1> HIDE DEF a, b, t
<1>3. Joins(s, a, 4, b, 6, 10)
  <2>1. 10 = 4 + 6
    OBVIOUS
  <2> QED
    BY <1>1, <2>1, Concatenated
<1>4. IsCode(s, 10) /\ (\A k \in 1 .. 4 : s[k] = a[k]) /\ \A k \in 1 .. 6 : s[4 + k] = b[k]
  BY <1>3, Zenon DEF Joins
<1> HIDE DEF s
<1>5. \A i \in 1 .. 10 : s[i] = t[i]
  <2> TAKE i \in 1 .. 10
  <2>1. CASE i \in 1 .. 4
    BY <1>2, <1>4, <2>1
  <2>2. CASE i \notin 1 .. 4
    <3> DEFINE k == i - 4
    <3>1. k \in 1 .. 6 /\ 4 + k = i
      BY <2>2
    <3>2. s[4 + k] = b[k] /\ b[k] = t[4 + k]
      BY <1>2, <1>4, <3>1, Zenon
    <3> QED
      BY <3>1, <3>2, Zenon
  <2> QED
    BY <2>1, <2>2
<1>6. s = t
  BY <1>1, <1>4, <1>5, SameCode
<1> QED
  BY <1>6, Zenon DEF Others32, s, a, b, t

LEMMA Orders ==
  /\ Order32 = <<"eax", "ecx", "edx", "ebx", "esp", "ebp", "esi", "edi", "cr0", "cr2", "cr3", "cr4",
                 "es", "cs", "ss", "ds", "fs", "gs", "eip", "cs", "eflags">>
  /\ \A k \in 1 .. 8 : Order32[k] = General32[k]
  /\ \A k \in 1 .. 10 : Order32[8 + k] = Others32[k]
  /\ \A k \in 1 .. 3 : Order32[18 + k] = Frame32[k]
  /\ IsCode(General32, 8) /\ IsCode(Others32, 10) /\ IsCode(Frame32, 3)
<1>1. General32 = <<"eax", "ecx", "edx", "ebx", "esp", "ebp", "esi", "edi">>
  BY DEF General32
<1>2. Others32 = <<"cr0", "cr2", "cr3", "cr4", "es", "cs", "ss", "ds", "fs", "gs">>
  BY OthersAre
<1>3. Frame32 = <<"eip", "cs", "eflags">>
  BY DEF Frame32
<1>4. Order32 = <<"eax", "ecx", "edx", "ebx", "esp", "ebp", "esi", "edi", "cr0", "cr2", "cr3", "cr4",
                  "es", "cs", "ss", "ds", "fs", "gs", "eip", "cs", "eflags">>
  BY DEF Order32
<1>5. \A k \in 1 .. 8 : Order32[k] = General32[k]
  BY <1>1, <1>4
<1>6. \A k \in 1 .. 10 : Order32[8 + k] = Others32[k]
  BY <1>2, <1>4
<1>7. \A k \in 1 .. 3 : Order32[18 + k] = Frame32[k]
  BY <1>3, <1>4
<1>8. IsCode(General32, 8) /\ IsCode(Others32, 10) /\ IsCode(Frame32, 3)
  BY <1>1, <1>2, <1>3 DEF IsCode
<1> QED
  BY <1>4, <1>5, <1>6, <1>7, <1>8

SavesRegisters32(s) ==
  /\ IsCode(s, 28)
  /\ \A k \in 1 .. 8 : s[k] = Store("esp", Offset(32, Order32[k]), Order32[k])
  /\ \A k \in 1 .. 10 : /\ s[2 * k + 7] = Mov("eax", Order32[8 + k])
                        /\ s[2 * k + 8] = Store("esp", Offset(32, Order32[8 + k]), "eax")

LEMMA SaveRegistersCode ==
  SavesRegisters32(SaveRegisters32)
<1> DEFINE E(i) == Store("esp", Offset(32, General32[i]), General32[i])
           p == [i \in DOMAIN General32 |-> E(i)]
           m == Movs("eax", Others32)
           q == Stores(32, "esp", Others32, "eax")
           a == Alternately(m, q)
           s == p \o a
<1>1. IsCode(General32, 8) /\ IsCode(Others32, 10) /\ DOMAIN General32 = 1 .. 8
  BY Orders, CodeIsSeq
<1>2. IsCode(p, 8) /\ \A k \in 1 .. 8 : p[k] = E(k)
  <2> HIDE DEF E
  <2> QED
    BY <1>1 DEF IsCode
<1>3. IsCode(m, 10) /\ \A k \in 1 .. 10 : m[k] = Mov("eax", Others32[k])
  <2> DEFINE r == "eax"
             v == Others32
  <2>1. IsCode(v, 10)
    BY <1>1
  <2> HIDE DEF r, v
  <2>2. IsCode(Movs(r, v), 10) /\ \A k \in 1 .. 10 : Movs(r, v)[k] = Mov(r, v[k])
    BY <2>1, MapIsCode
  <2> QED
    BY <2>2 DEF r, v
<1>4. IsCode(q, 10) /\ \A k \in 1 .. 10 : q[k] = Store("esp", Offset(32, Others32[k]), "eax")
  BY <1>1, StoresAreCode
<1>5. SaveRegisters32 = s
  BY Zenon DEF SaveRegisters32
<1> HIDE DEF p, m, q
<1>6. Alternates(a, m, q, 10, 20)
  <2>1. 20 = 2 * 10
    OBVIOUS
  <2> QED
    BY <1>3, <1>4, <2>1, Alternating
<1>7. IsCode(a, 20) /\ \A k \in 1 .. 10 : a[2 * k - 1] = m[k] /\ a[2 * k] = q[k]
  BY <1>6 DEF Alternates
<1> HIDE DEF a
<1>8. Joins(s, p, 8, a, 20, 28)
  <2>1. 28 = 8 + 20
    OBVIOUS
  <2> QED
    BY <1>2, <1>7, <2>1, Concatenated
<1>9. IsCode(s, 28) /\ (\A k \in 1 .. 8 : s[k] = p[k]) /\ \A k \in 1 .. 20 : s[8 + k] = a[k]
  BY <1>8, Zenon DEF Joins
<1> HIDE DEF s
<1>10. \A k \in 1 .. 8 : s[k] = Store("esp", Offset(32, Order32[k]), Order32[k])
  BY <1>2, <1>9, Orders
<1>11. \A k \in 1 .. 10 : /\ s[2 * k + 7] = Mov("eax", Order32[8 + k])
                          /\ s[2 * k + 8] = Store("esp", Offset(32, Order32[8 + k]), "eax")
  <2> TAKE k \in 1 .. 10
  <2>1. /\ 2 * k - 1 \in 1 .. 20 /\ 2 * k \in 1 .. 20 /\ 8 + (2 * k - 1) = 2 * k + 7 /\ 8 + 2 * k = 2 * k + 8
    OBVIOUS
  <2>2. s[2 * k + 7] = m[k] /\ s[2 * k + 8] = q[k]
    BY <1>7, <1>9, <2>1
  <2>3. Order32[8 + k] = Others32[k]
    BY Orders
  <2> QED
    BY <1>3, <1>4, <2>2, <2>3
<1> QED
  BY <1>5, <1>9, <1>10, <1>11 DEF SavesRegisters32

SavesFrame32(s, base, n) ==
  /\ IsCode(s, 6)
  /\ \A k \in 1 .. 3 : /\ s[2 * k - 1] = Load("eax", base, n + 4 * (k - 1))
                       /\ s[2 * k] = Store("esp", Offset(32, Order32[18 + k]), "eax")

LEMMA SaveFrame32Code ==
  ASSUME NEW base, NEW n
  PROVE  SavesFrame32(SaveFrame32("esp", base, n), base, n)
<1> DEFINE p == [i \in DOMAIN Frame32 |-> Load("eax", base, n + 4 * (i - 1))]
           q == Stores(32, "esp", Frame32, "eax")
<1>1. IsCode(Frame32, 3) /\ DOMAIN Frame32 = 1 .. 3
  BY Orders, CodeIsSeq
<1>2. IsCode(p, 3) /\ \A k \in 1 .. 3 : p[k] = Load("eax", base, n + 4 * (k - 1))
  BY <1>1 DEF IsCode
<1>3. IsCode(q, 3) /\ \A k \in 1 .. 3 : q[k] = Store("esp", Offset(32, Frame32[k]), "eax")
  BY <1>1, StoresAreCode
<1>4. SaveFrame32("esp", base, n) = Alternately(p, q)
  BY Zenon DEF SaveFrame32
<1> HIDE DEF p, q
<1>5. Alternates(Alternately(p, q), p, q, 3, 6)
  BY <1>2, <1>3, Alternating
<1> QED
  BY <1>2, <1>3, <1>4, <1>5, Orders DEF Alternates, SavesFrame32

FaultIs(s, x, base, n, head, tail, l) ==
  /\ \A k \in 1 .. x + 2 : s[k] = head[k]
  /\ \A k \in 1 .. 8 : s[x + (k + 2)] = Store("esp", Offset(32, Order32[k]), Order32[k])
  /\ \A k \in 1 .. 10 : s[x + (2 * k + 9)] = Mov("eax", Order32[8 + k])
  /\ \A k \in 1 .. 3 : s[x + (2 * k + 29)] = Load("eax", base, n + 4 * (k - 1))
  /\ \A k \in 1 .. 13 : s[x + (2 * k + 10)] = Store("esp", Offset(32, Order32[8 + k]), "eax")
  /\ \A k \in 1 .. l : s[x + (k + 36)] = tail[k]

LEMMA FaultCode ==
  ASSUME NEW x \in Nat, NEW base, NEW n, NEW head, NEW h, h = x + 2, IsCode(head, h),
         NEW tail, NEW l, IsCode(tail, l),
         NEW s, s = head \o SaveRegisters32 \o SaveFrame32("esp", base, n) \o tail
  PROVE  FaultIs(s, x, base, n, head, tail, l)
<1> DEFINE b == SaveRegisters32
           d == SaveFrame32("esp", base, n)
           ab == head \o b
           abd == ab \o d
           m1 == h + 28
           m2 == m1 + 6
           m3 == m2 + l
<1>1. SavesRegisters32(b) /\ SavesFrame32(d, base, n) /\ s = abd \o tail
  BY SaveRegistersCode, SaveFrame32Code
<1>2. IsCode(b, 28) /\ IsCode(d, 6)
  BY <1>1, Zenon DEF SavesRegisters32, SavesFrame32
<1> HIDE DEF b, d
<1>3. Joins(ab, head, h, b, 28, m1)
  <2>1. IsCode(head, h) /\ IsCode(b, 28) /\ m1 = h + 28
    BY <1>2
  <2> QED
    BY <2>1, Concatenated
<1>4. IsCode(ab, m1) /\ (\A i \in 1 .. h : ab[i] = head[i]) /\ \A i \in 1 .. 28 : ab[h + i] = b[i]
  BY <1>3, Zenon DEF Joins
<1>5. m1 = h + 28 /\ m1 \in Nat /\ h \in Nat
  BY DEF IsCode
<1> HIDE DEF ab, m1
<1>6. Joins(abd, ab, m1, d, 6, m2)
  <2>1. IsCode(ab, m1) /\ IsCode(d, 6) /\ m2 = m1 + 6
    BY <1>2, <1>4
  <2> QED
    BY <2>1, Concatenated
<1>7. IsCode(abd, m2) /\ (\A i \in 1 .. m1 : abd[i] = ab[i]) /\ \A i \in 1 .. 6 : abd[m1 + i] = d[i]
  BY <1>6, Zenon DEF Joins
<1>8. m2 = m1 + 6 /\ m2 \in Nat
  BY <1>5
<1> HIDE DEF abd, m2
<1>9. Joins(s, abd, m2, tail, l, m3)
  <2>1. IsCode(abd, m2) /\ IsCode(tail, l) /\ m3 = m2 + l
    BY <1>1, <1>7
  <2> QED
    BY <1>1, <2>1, Concatenated
<1>10. (\A i \in 1 .. m2 : s[i] = abd[i]) /\ \A i \in 1 .. l : s[m2 + i] = tail[i]
  BY <1>9, Zenon DEF Joins
<1>11. \A k \in 1 .. x + 2 : s[k] = head[k]
  <2> TAKE k \in 1 .. x + 2
  <2>1. k \in 1 .. h /\ k \in 1 .. m1 /\ k \in 1 .. m2
    BY <1>5, <1>8
  <2> QED
    BY <1>4, <1>7, <1>10, <2>1
<1>12. \A k \in 1 .. 28 : s[x + (k + 2)] = b[k]
  <2> TAKE k \in 1 .. 28
  <2>1. h + k \in 1 .. m1 /\ h + k \in 1 .. m2 /\ x + (k + 2) = h + k
    BY <1>5, <1>8
  <2>2. s[h + k] = abd[h + k] /\ abd[h + k] = ab[h + k] /\ ab[h + k] = b[k]
    BY <1>4, <1>7, <1>10, <2>1
  <2> QED
    BY <2>1, <2>2, Zenon
<1>13. \A k \in 1 .. 6 : s[x + (k + 30)] = d[k]
  <2> TAKE k \in 1 .. 6
  <2>1. m1 + k \in 1 .. m2 /\ x + (k + 30) = m1 + k
    BY <1>5, <1>8
  <2>2. s[m1 + k] = abd[m1 + k] /\ abd[m1 + k] = d[k]
    BY <1>7, <1>10, <2>1
  <2> QED
    BY <2>1, <2>2, Zenon
<1>14. \A k \in 1 .. l : s[x + (k + 36)] = tail[k]
  <2> TAKE k \in 1 .. l
  <2>1. x + (k + 36) = m2 + k
    <3>1. l \in Nat
      BY DEF IsCode
    <3> QED
      BY <1>5, <1>8, <3>1
  <2>2. s[m2 + k] = tail[k]
    BY <1>10
  <2> QED
    BY <2>1, <2>2, Zenon
<1>15. \A k \in 1 .. 8 : s[x + (k + 2)] = Store("esp", Offset(32, Order32[k]), Order32[k])
  <2> TAKE k \in 1 .. 8
  <2>1. k \in 1 .. 28
    OBVIOUS
  <2>2. b[k] = Store("esp", Offset(32, Order32[k]), Order32[k])
    BY <1>1, Zenon DEF SavesRegisters32
  <2> QED
    BY <1>12, <2>1, <2>2, Zenon
<1>16. \A k \in 1 .. 10 : /\ s[x + (2 * k + 9)] = Mov("eax", Order32[8 + k])
                          /\ s[x + (2 * k + 10)] = Store("esp", Offset(32, Order32[8 + k]), "eax")
  <2> TAKE k \in 1 .. 10
  <2>1. /\ 2 * k + 7 \in 1 .. 28 /\ 2 * k + 8 \in 1 .. 28
        /\ (2 * k + 7) + 2 = 2 * k + 9 /\ (2 * k + 8) + 2 = 2 * k + 10
    OBVIOUS
  <2>2. s[x + ((2 * k + 7) + 2)] = b[2 * k + 7] /\ s[x + ((2 * k + 8) + 2)] = b[2 * k + 8]
    BY <1>12, <2>1, Zenon
  <2>3. s[x + (2 * k + 9)] = b[2 * k + 7] /\ s[x + (2 * k + 10)] = b[2 * k + 8]
    BY <2>1, <2>2, Zenon
  <2> QED
    BY <1>1, <2>3, Zenon DEF SavesRegisters32
<1>17. \A k \in 1 .. 3 : /\ s[x + (2 * k + 29)] = Load("eax", base, n + 4 * (k - 1))
                         /\ s[x + (2 * k + 30)] = Store("esp", Offset(32, Order32[18 + k]), "eax")
  <2> TAKE k \in 1 .. 3
  <2>1. /\ 2 * k - 1 \in 1 .. 6 /\ 2 * k \in 1 .. 6
        /\ (2 * k - 1) + 30 = 2 * k + 29
    OBVIOUS
  <2>2. s[x + ((2 * k - 1) + 30)] = d[2 * k - 1] /\ s[x + (2 * k + 30)] = d[2 * k]
    BY <1>13, <2>1, Zenon
  <2>3. s[x + (2 * k + 29)] = d[2 * k - 1]
    BY <2>1, <2>2, Zenon
  <2> QED
    BY <1>1, <2>2, <2>3, Zenon DEF SavesFrame32
<1>18. \A k \in 1 .. 13 : s[x + (2 * k + 10)] = Store("esp", Offset(32, Order32[8 + k]), "eax")
  <2> TAKE k \in 1 .. 13
  <2>1. CASE k \in 1 .. 10
    BY <1>16, <2>1, Zenon
  <2>2. CASE k \notin 1 .. 10
    <3> DEFINE j == k - 10
    <3>1. j \in 1 .. 3 /\ 2 * j + 30 = 2 * k + 10 /\ 18 + j = 8 + k
      BY <2>2
    <3>2. s[x + (2 * j + 30)] = Store("esp", Offset(32, Order32[18 + j]), "eax")
      BY <1>17, <3>1, Zenon
    <3> QED
      BY <3>1, <3>2, Zenon
  <2> QED
    BY <2>1, <2>2
<1> QED
  BY <1>11, <1>14, <1>15, <1>16, <1>17, <1>18, Zenon DEF FaultIs

GPFaultIs(s) ==
  /\ s[1] = Cli /\ s[2] = Push("ebp") /\ s[3] = Mov("ebp", "esp") /\ s[4] = Sub("esp", 68)
  /\ s[39] = Mov("eax", "esp") /\ s[40] = PushAt("ebp", 4) /\ s[41] = Push("eax")
  /\ s[42] = Call("GPFaultHandlerM") /\ s[43] = Sub("esp", -8) /\ s[44] = Cli /\ s[45] = Hlt

DivbyzeroIs(s) ==
  /\ s[1] = Cli /\ s[2] = Sub("esp", 68)
  /\ s[37] = Push("esp") /\ s[38] = Call("DivbyzeroHandlerM") /\ s[39] = Sub("esp", -4)
  /\ s[40] = Cli /\ s[41] = Hlt

SavesAll(s, x, base, n) ==
  /\ \A k \in 1 .. 8 : s[x + (k + 2)] = Store("esp", Offset(32, Order32[k]), Order32[k])
  /\ \A k \in 1 .. 10 : s[x + (2 * k + 9)] = Mov("eax", Order32[8 + k])
  /\ \A k \in 1 .. 3 : s[x + (2 * k + 29)] = Load("eax", base, n + 4 * (k - 1))
  /\ \A k \in 1 .. 13 : s[x + (2 * k + 10)] = Store("esp", Offset(32, Order32[8 + k]), "eax")

LEMMA GPFaultCode ==
  GPFaultIs(GPFaultHandler32) /\ SavesAll(GPFaultHandler32, 2, "ebp", 8)
<1> DEFINE head == <<Cli, Push("ebp"), Mov("ebp", "esp"), Sub("esp", AreaSize32)>>
           tail == <<Mov("eax", "esp"), PushAt("ebp", 4), Push("eax"),
                     Call("GPFaultHandlerM"), Sub("esp", -8), Cli, Hlt>>
           s == head \o SaveRegisters32 \o SaveFrame32("esp", "ebp", 8) \o tail
<1>1. GPFaultHandler32 = s
  BY Zenon DEF GPFaultHandler32
<1>2. /\ IsCode(head, 4) /\ IsCode(tail, 7) /\ 4 = 2 + 2
      /\ head[1] = Cli /\ head[2] = Push("ebp") /\ head[3] = Mov("ebp", "esp") /\ head[4] = Sub("esp", 68)
      /\ tail[1] = Mov("eax", "esp") /\ tail[2] = PushAt("ebp", 4) /\ tail[3] = Push("eax")
      /\ tail[4] = Call("GPFaultHandlerM") /\ tail[5] = Sub("esp", -8) /\ tail[6] = Cli /\ tail[7] = Hlt
  BY DEF IsCode, AreaSize32
<1> HIDE DEF head, tail
<1>3. FaultIs(s, 2, "ebp", 8, head, tail, 7)
  <2> DEFINE x == 2
             n == 8
             base == "ebp"
             t == head \o SaveRegisters32 \o SaveFrame32("esp", base, n) \o tail
  <2>1. x \in Nat /\ 4 = x + 2
    BY <1>2
  <2> HIDE DEF x, n, base
  <2>2. FaultIs(t, x, base, n, head, tail, 7)
    <3> DEFINE u == t
    <3>1. u = head \o SaveRegisters32 \o SaveFrame32("esp", base, n) \o tail
      OBVIOUS
    <3> HIDE DEF u
    <3>2. FaultIs(u, x, base, n, head, tail, 7)
      BY <1>2, <2>1, <3>1, FaultCode
    <3> QED
      BY <3>2 DEF u
  <2> QED
    BY <2>2, Zenon DEF x, n, base
<1> HIDE DEF s
<1>4. (\A k \in 1 .. 2 + 2 : s[k] = head[k]) /\ (\A k \in 1 .. 7 : s[2 + (k + 36)] = tail[k])
  BY <1>3, Zenon DEF FaultIs
<1>5. SavesAll(s, 2, "ebp", 8)
  BY <1>3, Zenon DEF FaultIs, SavesAll
<1>6. GPFaultIs(s)
  <2>0. 1 \in 1 .. 2 + 2 /\ 2 \in 1 .. 2 + 2 /\ 3 \in 1 .. 2 + 2 /\ 4 \in 1 .. 2 + 2
    OBVIOUS
  <2>1. /\ 2 + (1 + 36) = 39 /\ 2 + (2 + 36) = 40 /\ 2 + (3 + 36) = 41 /\ 2 + (4 + 36) = 42
        /\ 2 + (5 + 36) = 43 /\ 2 + (6 + 36) = 44 /\ 2 + (7 + 36) = 45
    OBVIOUS
  <2>2. s[1] = head[1] /\ s[2] = head[2] /\ s[3] = head[3] /\ s[4] = head[4]
    BY <1>4, <2>0, Zenon
  <2>3. /\ s[2 + (1 + 36)] = tail[1] /\ s[2 + (2 + 36)] = tail[2] /\ s[2 + (3 + 36)] = tail[3]
        /\ s[2 + (4 + 36)] = tail[4] /\ s[2 + (5 + 36)] = tail[5] /\ s[2 + (6 + 36)] = tail[6]
        /\ s[2 + (7 + 36)] = tail[7]
    <3>1. 1 \in 1 .. 7 /\ 2 \in 1 .. 7 /\ 3 \in 1 .. 7 /\ 4 \in 1 .. 7
      OBVIOUS
    <3>2. 5 \in 1 .. 7 /\ 6 \in 1 .. 7 /\ 7 \in 1 .. 7
      OBVIOUS
    <3>3. \A k \in 1 .. 7 : s[2 + (k + 36)] = tail[k]
      BY <1>4
    <3>4. s[2 + (1 + 36)] = tail[1] /\ s[2 + (2 + 36)] = tail[2]
      BY <3>1, <3>3, Zenon
    <3>5. s[2 + (3 + 36)] = tail[3] /\ s[2 + (4 + 36)] = tail[4]
      BY <3>1, <3>3, Zenon
    <3>6. s[2 + (5 + 36)] = tail[5] /\ s[2 + (6 + 36)] = tail[6] /\ s[2 + (7 + 36)] = tail[7]
      BY <3>2, <3>3, Zenon
    <3> QED
      BY <3>4, <3>5, <3>6, Zenon
  <2>4. /\ s[39] = tail[1] /\ s[40] = tail[2] /\ s[41] = tail[3] /\ s[42] = tail[4]
        /\ s[43] = tail[5] /\ s[44] = tail[6] /\ s[45] = tail[7]
    BY <2>1, <2>3, Zenon
  <2> QED
    BY <1>2, <2>2, <2>4, Zenon DEF GPFaultIs
<1> QED
  BY <1>1, <1>5, <1>6, Zenon

LEMMA DivbyzeroCode ==
  DivbyzeroIs(DivbyzeroHandler32) /\ SavesAll(DivbyzeroHandler32, 0, "esp", 68)
<1> DEFINE head == <<Cli, Sub("esp", AreaSize32)>>
           tail == <<Push("esp"), Call("DivbyzeroHandlerM"), Sub("esp", -4), Cli, Hlt>>
           s == head \o SaveRegisters32 \o SaveFrame32("esp", "esp", 68) \o tail
<1>1. DivbyzeroHandler32 = s
  BY Zenon DEF DivbyzeroHandler32, AreaSize32
<1>2. /\ IsCode(head, 2) /\ IsCode(tail, 5) /\ 2 = 0 + 2
      /\ head[1] = Cli /\ head[2] = Sub("esp", 68)
      /\ tail[1] = Push("esp") /\ tail[2] = Call("DivbyzeroHandlerM") /\ tail[3] = Sub("esp", -4)
      /\ tail[4] = Cli /\ tail[5] = Hlt
  BY DEF IsCode, AreaSize32
<1> HIDE DEF head, tail
<1>3. FaultIs(s, 0, "esp", 68, head, tail, 5)
  <2> DEFINE x == 0
             n == 68
             base == "esp"
             t == head \o SaveRegisters32 \o SaveFrame32("esp", base, n) \o tail
  <2>1. x \in Nat /\ 2 = x + 2
    BY <1>2
  <2> HIDE DEF x, n, base
  <2>2. FaultIs(t, x, base, n, head, tail, 5)
    <3> DEFINE u == t
    <3>1. u = head \o SaveRegisters32 \o SaveFrame32("esp", base, n) \o tail
      OBVIOUS
    <3> HIDE DEF u
    <3>2. FaultIs(u, x, base, n, head, tail, 5)
      BY <1>2, <2>1, <3>1, FaultCode
    <3> QED
      BY <3>2 DEF u
  <2> QED
    BY <2>2, Zenon DEF x, n, base
<1> HIDE DEF s
<1>4. (\A k \in 1 .. 0 + 2 : s[k] = head[k]) /\ (\A k \in 1 .. 5 : s[0 + (k + 36)] = tail[k])
  BY <1>3, Zenon DEF FaultIs
<1>5. SavesAll(s, 0, "esp", 68)
  BY <1>3, Zenon DEF FaultIs, SavesAll
<1>6. DivbyzeroIs(s)
  <2>1. /\ 1 \in 1 .. 0 + 2 /\ 2 \in 1 .. 0 + 2
        /\ 1 \in 1 .. 5 /\ 2 \in 1 .. 5 /\ 3 \in 1 .. 5 /\ 4 \in 1 .. 5 /\ 5 \in 1 .. 5
        /\ 0 + (1 + 36) = 37 /\ 0 + (2 + 36) = 38 /\ 0 + (3 + 36) = 39 /\ 0 + (4 + 36) = 40
        /\ 0 + (5 + 36) = 41
    OBVIOUS
  <2>2. s[1] = head[1] /\ s[2] = head[2]
    BY <1>4, <2>1, Zenon
  <2>3. /\ s[0 + (1 + 36)] = tail[1] /\ s[0 + (2 + 36)] = tail[2] /\ s[0 + (3 + 36)] = tail[3]
        /\ s[0 + (4 + 36)] = tail[4] /\ s[0 + (5 + 36)] = tail[5]
    BY <1>4, <2>1, Zenon
  <2>4. /\ s[37] = tail[1] /\ s[38] = tail[2] /\ s[39] = tail[3] /\ s[40] = tail[4] /\ s[41] = tail[5]
    BY <2>1, <2>3, Zenon
  <2> QED
    BY <1>2, <2>2, <2>4, Zenon DEF DivbyzeroIs
<1> QED
  BY <1>1, <1>5, <1>6, Zenon

LEMMA WideOffsets32 ==
  \A k \in 1 .. 14 : Offset(32, Wide(32)[k]) = 4 * (k - 1)
<1>1. \A i, j \in DOMAIN Wide(32) : Wide(32)[i] = Wide(32)[j] => i = j
  BY DEF Wide
<1>2. DOMAIN Wide(32) = 1 .. 14 /\ Bytes(32) = 4
  BY DEF Wide, Bytes
<1> TAKE k \in 1 .. 14
<1>4. Index(Wide(32), Wide(32)[k]) = k
  BY <1>1, <1>2, IndexIs
<1>5. Wide(32)[k] \notin ToSet(Segments)
  BY DEF ToSet, Segments, Wide
<1> QED
  BY <1>2, <1>4, <1>5 DEF Offset

LEMMA SegmentOffsets32 ==
  \A k \in 1 .. 6 : Offset(32, Segments[k]) = 56 + 2 * (k - 1)
<1>1. \A i, j \in DOMAIN Segments : Segments[i] = Segments[j] => i = j
  BY DEF Segments
<1>2. DOMAIN Segments = 1 .. 6
  BY DEF Segments
<1>3. Len(Wide(32)) = 14 /\ Bytes(32) = 4
  BY DEF Wide, Bytes
<1> TAKE k \in 1 .. 6
<1>4. Index(Segments, Segments[k]) = k
  BY <1>1, <1>2, IndexIs
<1>5. Segments[k] \in ToSet(Segments)
  BY <1>2 DEF ToSet
<1> DEFINE b == Bytes(32)
           m == Len(Wide(32))
           i == Index(Segments, Segments[k])
           o == Offset(32, Segments[k])
<1>6. b = 4 /\ m = 14 /\ i = k /\ o = b * m + 2 * (i - 1)
  BY <1>3, <1>4, <1>5 DEF Offset
<1> HIDE DEF b, m, i, o
<1>7. o = 4 * 14 + 2 * (k - 1)
  BY <1>6, Zenon
<1>8. o = 56 + 2 * (k - 1)
  BY <1>7
<1> QED
  BY <1>8 DEF o

LEMMA Offsets32 ==
  /\ \A r \in Registers(32) : Offset(32, r) \in 0 .. 66
  /\ \A q, r \in Registers(32) : q # r => Offset(32, q) # Offset(32, r)
<1>1. \A r \in Registers(32) : (\E k \in 1 .. 6 : r = Segments[k]) \/ (\E k \in 1 .. 14 : r = Wide(32)[k])
  BY Registers32 DEF Segments, Wide
<1>2. ASSUME NEW r \in Registers(32)
      PROVE  \/ \E k \in 1 .. 6 : r = Segments[k] /\ Offset(32, r) = 56 + 2 * (k - 1)
             \/ \E k \in 1 .. 14 : r = Wide(32)[k] /\ Offset(32, r) = 4 * (k - 1)
  BY <1>1, SegmentOffsets32, WideOffsets32
<1>3. ASSUME NEW r \in Registers(32) PROVE Offset(32, r) \in 0 .. 66
  BY <1>2
<1>4. ASSUME NEW q \in Registers(32), NEW r \in Registers(32), Offset(32, q) = Offset(32, r)
      PROVE  q = r
  <2>1. CASE \E k \in 1 .. 6 : q = Segments[k] /\ Offset(32, q) = 56 + 2 * (k - 1)
    <3>1. PICK k \in 1 .. 6 : q = Segments[k] /\ Offset(32, q) = 56 + 2 * (k - 1)
      BY <2>1
    <3>2. PICK j \in 1 .. 6 : r = Segments[j] /\ Offset(32, r) = 56 + 2 * (j - 1)
      BY <1>2, <1>4, <3>1
    <3>3. j = k
      BY <1>4, <3>1, <3>2
    <3> QED
      BY <3>1, <3>2, <3>3, Zenon
  <2>2. CASE \E k \in 1 .. 14 : q = Wide(32)[k] /\ Offset(32, q) = 4 * (k - 1)
    <3>1. PICK k \in 1 .. 14 : q = Wide(32)[k] /\ Offset(32, q) = 4 * (k - 1)
      BY <2>2
    <3>2. PICK j \in 1 .. 14 : r = Wide(32)[j] /\ Offset(32, r) = 4 * (j - 1)
      BY <1>2, <1>4, <3>1
    <3>3. j = k
      BY <1>4, <3>1, <3>2
    <3> QED
      BY <3>1, <3>2, <3>3, Zenon
  <2> QED
    BY <1>2, <2>1, <2>2
<1> QED
  BY <1>3, <1>4

-----------------------------------------------------------------------------
(* A step of GPFaultHandler or DivbyzeroHandler, j is the index of the     *)
(* instruction with Extra taken off.                                       *)
Saved32(st, n) ==
  \A k \in 1 .. n : Order32[k] \notin Mistaken
    => Contents(st, Area32 + Offset(32, Order32[k])) = AtFault(Order32[k])

FaultedIn(rg, st, j) ==
  /\ rg["eip"] = Code(Gates[raised], Extra + j) /\ rg["eflags"] = Flags(FALSE)
  /\ rg["esp"] = Stack(FaultTop(j))
  /\ raised = 13 /\ j > 1 => rg["ebp"] = Stack(EntryTop - 4)
  /\ j <= 37 => \A r \in Registers(32) \ Changed32(j) : rg[r] = AtFault(r)
  /\ j \in 12 .. 36 /\ j % 2 = 0 => rg["eax"] = AtFault(Order32[(j + 6) \div 2])
  /\ Saved32(st, Stored32(j))
  /\ raised = 13 /\ j \in 38 .. 39 => rg["eax"] = Stack(Area32)
  /\ raised = 13 /\ j \in 39 .. 40 => Contents(st, Area32 - 4) = Error(13)
  /\ raised = 13 /\ j = 40 => Contents(st, Area32 - 8) = Stack(Area32)
  /\ raised = 0 /\ j = 38 => Contents(st, Area32 - 4) = Stack(Area32)

SameFault == bits' = bits /\ home' = home /\ raised' = raised

LEMMA FaultMeansSame ==
  ASSUME SameFault
  PROVE  /\ Extra' = Extra /\ Area32' = Area32 /\ Gates' = Gates /\ EntryTop' = EntryTop /\ Mistaken' = Mistaken
         /\ \A r : AtFault(r)' = AtFault(r)
         /\ \A j : FaultTop(j)' = FaultTop(j) /\ Changed32(j)' = Changed32(j)
<1>1. /\ Gates' = Gates /\ EntryTop' = EntryTop /\ Mistaken' = Mistaken
      /\ \A r : AtFault(r)' = AtFault(r)
  <2>1. Gates' = Gates /\ Pushed' = Pushed /\ Base' = Base
    BY DEF SameFault, Gates, Pushed, Base
  <2> QED
    BY <2>1 DEF SameFault, Mistaken, EntryTop, AtFault
<1>2. Extra' = Extra
  BY DEF Extra, SameFault
<1>3. Area32' = Area32
  BY <1>1, <1>2 DEF Area32
<1>4. \A j : FaultTop(j)' = FaultTop(j)
  BY <1>1, <1>3 DEF FaultTop, SameFault
<1>5. \A j : Changed32(j)' = Changed32(j)
  BY DEF Changed32, SameFault
<1> QED
  BY <1>1, <1>2, <1>3, <1>4, <1>5

LEMMA FaultedIs ==
  ASSUME bits = 32, NEW i, NEW j, i = Extra + j, i - Extra = j
  PROVE  /\ FaultedAt(i) <=> FaultedIn(regs, stack, j)
         /\ SameFault => (FaultedIn(regs', stack', j) => FaultedAt(i)')
<1>1. FaultedAt(i) <=> FaultedIn(regs, stack, j)
  <2>1. Pc = regs["eip"]
    BY Names DEF Pc
  <2>2. FaultedAt(i) =
         (/\ Pc = Code(Gates[raised], i) /\ regs["eflags"] = Flags(FALSE)
          /\ regs["esp"] = Stack(FaultTop(j))
          /\ raised = 13 /\ j > 1 => regs["ebp"] = Stack(EntryTop - 4)
          /\ j <= 37 => \A r \in Registers(32) \ Changed32(j) : regs[r] = AtFault(r)
          /\ j \in 12 .. 36 /\ j % 2 = 0 => regs["eax"] = AtFault(Order32[(j + 6) \div 2])
          /\ Saved32(stack, Stored32(j))
          /\ raised = 13 /\ j \in 38 .. 39 => regs["eax"] = Stack(Area32)
          /\ raised = 13 /\ j \in 39 .. 40 => Contents(stack, Area32 - 4) = Error(13)
          /\ raised = 13 /\ j = 40 => Contents(stack, Area32 - 8) = Stack(Area32)
          /\ raised = 0 /\ j = 38 => Contents(stack, Area32 - 4) = Stack(Area32))
    BY DEF FaultedAt, Saved32, Read
  <2> QED
    BY <2>1, <2>2 DEF FaultedIn
<1>2. ASSUME SameFault, FaultedIn(regs', stack', j) PROVE FaultedAt(i)'
  <2>1. Pc' = regs'["eip"] /\ (i - Extra)' = j
    BY <1>2, FaultMeansSame, Names DEF Pc, SameFault
  <2>2. Code(Gates[raised], i)' = Code(Gates[raised], Extra + j)
    BY <1>2, FaultMeansSame DEF SameFault
  <2>3. FaultedIn(regs', stack', j)
    BY <1>2
  <2> QED
    BY <1>2, <2>1, <2>2, <2>3, FaultMeansSame DEF FaultedAt, FaultedIn, Saved32, Read, SameFault
<1> QED
  BY <1>1, <1>2

LEMMA FaultTops ==
  /\ \A j \in 3 .. 37 : FaultTop(j) = Area32
  /\ raised = 13 => /\ FaultTop(0) = EntryTop /\ FaultTop(1) = EntryTop - 4 /\ FaultTop(2) = EntryTop - 4
                    /\ FaultTop(38) = Area32 /\ FaultTop(39) = Area32 - 4
                    /\ FaultTop(40) = Area32 - 8 /\ FaultTop(41) = Area32 - 8
                    /\ FaultTop(42) = Area32 /\ FaultTop(43) = Area32
  /\ raised # 13 => /\ FaultTop(2) = EntryTop /\ FaultTop(38) = Area32 - 4 /\ FaultTop(39) = Area32 - 4
                    /\ FaultTop(40) = Area32 /\ FaultTop(41) = Area32
<1>1. ASSUME raised = 13
      PROVE  /\ \A j \in 3 .. 38 : FaultTop(j) = Area32
             /\ FaultTop(0) = EntryTop /\ FaultTop(1) = EntryTop - 4 /\ FaultTop(2) = EntryTop - 4
             /\ FaultTop(39) = Area32 - 4 /\ FaultTop(40) = Area32 - 8 /\ FaultTop(41) = Area32 - 8
             /\ FaultTop(42) = Area32 /\ FaultTop(43) = Area32
  <2> DEFINE top(j) == CASE j <= 0         -> EntryTop
                         [] j \in 1 .. 2   -> EntryTop - 4
                         [] j = 39         -> Area32 - 4
                         [] j \in 40 .. 41 -> Area32 - 8
                         [] OTHER          -> Area32
  <2>1. \A j : FaultTop(j) = top(j)
    BY <1>1 DEF FaultTop
  <2>2. \A j \in 3 .. 38 : top(j) = Area32
    OBVIOUS
  <2>3. top(0) = EntryTop /\ top(1) = EntryTop - 4 /\ top(2) = EntryTop - 4
    OBVIOUS
  <2>4. top(39) = Area32 - 4 /\ top(40) = Area32 - 8 /\ top(41) = Area32 - 8
    OBVIOUS
  <2>5. top(42) = Area32 /\ top(43) = Area32
    OBVIOUS
  <2> QED
    BY <2>1, <2>2, <2>3, <2>4, <2>5
<1>2. ASSUME raised # 13
      PROVE  /\ \A j \in 3 .. 37 : FaultTop(j) = Area32
             /\ FaultTop(2) = EntryTop /\ FaultTop(38) = Area32 - 4 /\ FaultTop(39) = Area32 - 4
             /\ FaultTop(40) = Area32 /\ FaultTop(41) = Area32
  <2> DEFINE top(j) == CASE j <= 2         -> EntryTop
                         [] j \in 38 .. 39 -> Area32 - 4
                         [] OTHER          -> Area32
  <2>1. \A j : FaultTop(j) = top(j)
    BY <1>2 DEF FaultTop
  <2>2. \A j \in 3 .. 37 : top(j) = Area32
    OBVIOUS
  <2>3. top(2) = EntryTop /\ top(38) = Area32 - 4 /\ top(39) = Area32 - 4
    OBVIOUS
  <2>4. top(40) = Area32 /\ top(41) = Area32
    OBVIOUS
  <2> QED
    BY <2>1, <2>2, <2>3, <2>4
<1> QED
  BY <1>1, <1>2

LEMMA StoredTable ==
  /\ Stored32(0) = 0 /\ Stored32(1) = 0 /\ Stored32(2) = 0 /\ Stored32(3) = 0
  /\ \A k \in 1 .. 8 : Stored32(k + 3) = k
  /\ \A k \in 1 .. 13 : Stored32(2 * k + 9) = 7 + k /\ Stored32(2 * k + 10) = 7 + k /\ Stored32(2 * k + 11) = 8 + k
  /\ \A j \in 38 .. 43 : Stored32(j) = 21
<1>1. ASSUME NEW k \in 1 .. 13
      PROVE  Stored32(2 * k + 10) = 7 + k /\ Stored32(2 * k + 11) = 8 + k
  <2>1. ((2 * k + 10) - 11) \div 2 = k - 1 /\ ((2 * k + 11) - 11) \div 2 = k
    OBVIOUS
  <2>2. /\ Stored32(2 * k + 10) = 8 + (((2 * k + 10) - 11) \div 2)
        /\ Stored32(2 * k + 11) = 8 + (((2 * k + 11) - 11) \div 2)
    BY DEF Stored32
  <2> QED
    BY <2>1, <2>2
<1>2. ASSUME NEW k \in 1 .. 13
      PROVE  Stored32(2 * k + 9) = 7 + k
  <2>1. CASE k = 1
    BY <2>1 DEF Stored32
  <2>2. CASE k # 1
    <3>1. ((2 * k + 9) - 11) \div 2 = k - 1
      OBVIOUS
    <3>2. Stored32(2 * k + 9) = 8 + (((2 * k + 9) - 11) \div 2)
      BY <2>2 DEF Stored32
    <3> QED
      BY <3>1, <3>2
  <2> QED
    BY <2>1, <2>2
<1>3. /\ Stored32(0) = 0 /\ Stored32(1) = 0 /\ Stored32(2) = 0 /\ Stored32(3) = 0
      /\ \A j \in 38 .. 43 : Stored32(j) = 21
  BY DEF Stored32
<1>4. \A k \in 1 .. 8 : Stored32(k + 3) = k
  BY DEF Stored32
<1> QED
  BY <1>1, <1>2, <1>3, <1>4

InFault(j) ==
  /\ bits = 32 /\ raised \in {0, 13} /\ StubsTypeOK /\ FrameKept
  /\ j \in (IF raised = 13 THEN 0 ELSE 2) .. (IF raised = 13 THEN 43 ELSE 41)
  /\ FaultedIn(regs, stack, j)

FaultDone(j) ==
  FaultedIn(regs', stack', j) /\ Kept /\ KeepsAbove(EntryTop) /\ DOMAIN regs' = Registers(32)

FaultNext(j, r, v) ==
  /\ r \in Changed32(j) \ {"eip", "eflags"}
  /\ IF r = "esp" THEN v = Stack(FaultTop(j)) ELSE FaultTop(j) = FaultTop(j - 1)
  /\ IF raised = 13 /\ j = 2 THEN r = "ebp" /\ v = Stack(EntryTop - 4) ELSE r # "ebp"
  /\ j \in 12 .. 36 /\ j % 2 = 0 => (IF r = "eax" THEN v ELSE regs["eax"]) = AtFault(Order32[(j + 6) \div 2])
  /\ Saved32(stack', Stored32(j))

LEMMA InFaultFacts ==
  ASSUME NEW j, InFault(j)
  PROVE  /\ j \in 0 .. 43 /\ j \in Int /\ (raised = 0 => j >= 2 /\ j <= 41)
         /\ bits = 32 /\ raised \in {0, 13} /\ StubsTypeOK /\ FrameKept
         /\ Ip(bits) = "eip" /\ Sp(bits) = "esp" /\ Fl(bits) = "eflags" /\ Bytes(bits) = 4
         /\ Extra = (IF raised = 13 THEN 2 ELSE 0)
         /\ home \in Int /\ EntryTop = (IF raised = 13 THEN home - 16 ELSE home - 12) /\ EntryTop \in Int
         /\ Area32 = (IF raised = 13 THEN EntryTop - 72 ELSE EntryTop - 68) /\ Area32 \in Int
         /\ Pc = Code(Gates[raised], Extra + j) /\ regs["eip"] = Pc /\ regs["eflags"] = Flags(FALSE)
         /\ regs["esp"] = Stack(FaultTop(j))
         /\ (IF raised = 13 THEN GPFaultIs(Text[Gates[raised]]) /\ SavesAll(Text[Gates[raised]], 2, "ebp", 8)
                            ELSE DivbyzeroIs(Text[Gates[raised]]) /\ SavesAll(Text[Gates[raised]], 0, "esp", 68))
         /\ Instr = Text[Gates[raised]][Extra + j]
<1>1. /\ bits = 32 /\ raised \in {0, 13} /\ StubsTypeOK /\ FrameKept
      /\ j \in 0 .. 43 /\ j \in Int /\ (raised = 0 => j >= 2 /\ j <= 41)
  BY DEF InFault
<1>2. Ip(bits) = "eip" /\ Sp(bits) = "esp" /\ Fl(bits) = "eflags" /\ Bytes(bits) = 4
  BY <1>1, Names
<1>3. Extra = IF raised = 13 THEN 2 ELSE 0
  BY DEF Extra
<1>4. 13 \in ErrorVectors /\ 0 \notin ErrorVectors
  BY DEF ErrorVectors
<1>5. home \in Int /\ EntryTop = (IF raised = 13 THEN home - 16 ELSE home - 12) /\ EntryTop \in Int
  BY <1>1, <1>4, EntryTop32
<1>6. Area32 = (IF raised = 13 THEN EntryTop - 72 ELSE EntryTop - 68) /\ Area32 \in Int
  BY <1>1, <1>3, <1>5 DEF Area32, AreaSize32
<1>7. /\ regs["eip"] = Code(Gates[raised], Extra + j) /\ regs["eflags"] = Flags(FALSE)
      /\ regs["esp"] = Stack(FaultTop(j)) /\ Pc = regs["eip"]
  BY <1>2 DEF InFault, FaultedIn, Pc
<1>8. Instr = Text[Gates[raised]][Extra + j]
  BY <1>7 DEF Instr, Code
<1>9. Text[Gates[raised]] = IF raised = 13 THEN GPFaultHandler32 ELSE DivbyzeroHandler32
  <2>1. Gates[raised] = IF raised = 13 THEN "GPFaultHandler32" ELSE "DivbyzeroHandler32"
    BY <1>1 DEF Gates, Gates32, Vectors32
  <2>2. Text["GPFaultHandler32"] = GPFaultHandler32 /\ Text["DivbyzeroHandler32"] = DivbyzeroHandler32
    BY DEF Text, Labels
  <2> QED
    BY <2>1, <2>2
<1>10. IF raised = 13 THEN GPFaultIs(Text[Gates[raised]]) /\ SavesAll(Text[Gates[raised]], 2, "ebp", 8)
                      ELSE DivbyzeroIs(Text[Gates[raised]]) /\ SavesAll(Text[Gates[raised]], 0, "esp", 68)
  BY <1>9, GPFaultCode, DivbyzeroCode
<1> QED
  BY <1>1, <1>2, <1>3, <1>5, <1>6, <1>7, <1>8, <1>10

LEMMA FaultMoves ==
  ASSUME NEW j, InFault(j), j <= 36, Kept, KeepsAbove(EntryTop), NEW r, NEW v, Puts(r, v), FaultNext(j + 1, r, v)
  PROVE  FaultDone(j + 1)
<1> DEFINE m == j + 1
<1>1. /\ bits = 32 /\ j \in 0 .. 36 /\ j \in Int /\ Ip(bits) = "eip" /\ Pc = Code(Gates[raised], Extra + j)
      /\ Extra \in {0, 2} /\ raised \in {0, 13} /\ regs["esp"] = Stack(FaultTop(j))
  <2>1. bits = 32 /\ raised \in {0, 13} /\ j \in 0 .. 43 /\ j \in Int
    BY InFaultFacts
  <2>2. Ip(bits) = "eip" /\ Pc = Code(Gates[raised], Extra + j) /\ regs["esp"] = Stack(FaultTop(j))
    BY InFaultFacts
  <2>3. Extra \in {0, 2}
    BY DEF Extra
  <2>4. j \in 0 .. 36
    BY <2>1
  <2> QED
    BY <2>1, <2>2, <2>3, <2>4
<1>2. m \in 1 .. 37 /\ m - 1 = j /\ m > j
  BY <1>1
<1>3. FaultNext(m, r, v)
  OBVIOUS
<1>4. /\ "eip" \in Registers(32) /\ "esp" \in Registers(32) /\ "eflags" \in Registers(32)
      /\ "ebp" \in Registers(32) /\ "eax" \in Registers(32)
  BY Registers32
<1>5. /\ DOMAIN regs' = Registers(32) /\ regs'["eip"] = Code(Gates[raised], Extra + m)
      /\ \A x \in Registers(32) \ {"eip"} : regs'[x] = IF x = r THEN v ELSE regs[x]
  <2>1. (Extra + j) + 1 = Extra + m
    BY <1>1
  <2> QED
    BY <1>1, <2>1 DEF Puts, Code
<1>6. Changed32(j) \subseteq Changed32(m)
  BY <1>1, <1>2 DEF Changed32
<1>7. FaultedIn(regs, stack, j)
  BY DEF InFault
<1> HIDE DEF m
<1>8. regs'["eflags"] = Flags(FALSE)
  <2>1. r # "eflags" /\ regs["eflags"] = Flags(FALSE)
    BY <1>3, <1>7 DEF FaultNext, FaultedIn
  <2> QED
    BY <1>4, <1>5, <2>1
<1>9. regs'["esp"] = Stack(FaultTop(m))
  BY <1>1, <1>2, <1>3, <1>4, <1>5 DEF FaultNext
<1>10. raised = 13 /\ m > 1 => regs'["ebp"] = Stack(EntryTop - 4)
  <2>1. CASE raised = 13 /\ m = 2
    BY <1>3, <1>4, <1>5, <2>1 DEF FaultNext
  <2>2. CASE raised = 13 /\ m > 2
    <3>1. j > 1 /\ m # 2
      BY <1>1, <1>2, <2>2
    <3>2. regs["ebp"] = Stack(EntryTop - 4)
      BY <1>7, <2>2, <3>1 DEF FaultedIn
    <3>3. r # "ebp"
      BY <1>3, <3>1 DEF FaultNext
    <3> QED
      BY <1>4, <1>5, <3>2, <3>3
  <2> QED
    BY <1>2, <2>1, <2>2
<1>11. \A x \in Registers(32) \ Changed32(m) : regs'[x] = AtFault(x)
  <2> TAKE x \in Registers(32) \ Changed32(m)
  <2>1. x # r /\ x # "eip" /\ x \notin Changed32(j)
    BY <1>3, <1>6 DEF FaultNext, Changed32
  <2>2. regs[x] = AtFault(x)
    BY <1>1, <1>7, <2>1 DEF FaultedIn
  <2> QED
    BY <1>5, <2>1, <2>2
<1>12. m \in 12 .. 36 /\ m % 2 = 0 => regs'["eax"] = AtFault(Order32[(m + 6) \div 2])
  BY <1>3, <1>4, <1>5 DEF FaultNext
<1>13. Saved32(stack', Stored32(m))
  BY <1>3 DEF FaultNext
<1>14. m \notin 38 .. 40 /\ m # 40 /\ m # 38 /\ m \notin 38 .. 39 /\ m \notin 39 .. 40
  BY <1>2
<1>15. FaultedIn(regs', stack', m)
  BY <1>5, <1>8, <1>9, <1>10, <1>11, <1>12, <1>13, <1>14, Zenon DEF FaultedIn
<1> QED
  BY <1>5, <1>15, Zenon DEF FaultDone, m

FaultInstr(k) ==
  /\ k \in 1 .. 8 /\ InFault(k + 2) => Instr = Store("esp", Offset(32, Order32[k]), Order32[k])
  /\ k \in 1 .. 10 /\ InFault(2 * k + 9) => Instr = Mov("eax", Order32[8 + k])
  /\ k \in 1 .. 3 /\ InFault(2 * k + 29)
       => Instr = IF raised = 13 THEN Load("eax", "ebp", 8 + 4 * (k - 1))
                              ELSE Load("eax", "esp", 68 + 4 * (k - 1))
  /\ k \in 1 .. 13 /\ InFault(2 * k + 10) => Instr = Store("esp", Offset(32, Order32[8 + k]), "eax")

FaultText(j) ==
  /\ Instr = Text[Gates[raised]][Extra + j]
  /\ raised = 13 => Extra = 2 /\ GPFaultIs(Text[Gates[raised]]) /\ SavesAll(Text[Gates[raised]], 2, "ebp", 8)
  /\ raised # 13 => Extra = 0 /\ DivbyzeroIs(Text[Gates[raised]]) /\ SavesAll(Text[Gates[raised]], 0, "esp", 68)

LEMMA FaultTexts ==
  ASSUME NEW j, InFault(j)
  PROVE  FaultText(j)
<1>1. Extra = (IF raised = 13 THEN 2 ELSE 0) /\ Instr = Text[Gates[raised]][Extra + j]
  BY InFaultFacts
<1>2. IF raised = 13 THEN GPFaultIs(Text[Gates[raised]]) /\ SavesAll(Text[Gates[raised]], 2, "ebp", 8)
                     ELSE DivbyzeroIs(Text[Gates[raised]]) /\ SavesAll(Text[Gates[raised]], 0, "esp", 68)
  BY InFaultFacts
<1> QED
  BY <1>1, <1>2 DEF FaultText

LEMMA FaultInstrs ==
  ASSUME NEW k
  PROVE  FaultInstr(k)
<1>1. ASSUME k \in 1 .. 8, InFault(k + 2)
      PROVE  Instr = Store("esp", Offset(32, Order32[k]), Order32[k])
  <2>1. FaultText(k + 2)
    BY <1>1, FaultTexts
  <2> QED
    BY <1>1, <2>1 DEF FaultText, SavesAll
<1>2. ASSUME k \in 1 .. 10, InFault(2 * k + 9)
      PROVE  Instr = Mov("eax", Order32[8 + k])
  <2>1. FaultText(2 * k + 9)
    BY <1>2, FaultTexts
  <2> QED
    BY <1>2, <2>1 DEF FaultText, SavesAll
<1>3. ASSUME k \in 1 .. 3, InFault(2 * k + 29)
      PROVE  Instr = IF raised = 13 THEN Load("eax", "ebp", 8 + 4 * (k - 1))
                                    ELSE Load("eax", "esp", 68 + 4 * (k - 1))
  <2>1. FaultText(2 * k + 29)
    BY <1>3, FaultTexts
  <2> QED
    BY <1>3, <2>1 DEF FaultText, SavesAll
<1>4. ASSUME k \in 1 .. 13, InFault(2 * k + 10)
      PROVE  Instr = Store("esp", Offset(32, Order32[8 + k]), "eax")
  <2>1. FaultText(2 * k + 10)
    BY <1>4, FaultTexts
  <2> QED
    BY <1>4, <2>1 DEF FaultText, SavesAll
<1> QED
  BY <1>1, <1>2, <1>3, <1>4 DEF FaultInstr

LEMMA PutsSame ==
  ASSUME NEW r, NEW q, Puts(r, regs[r])
  PROVE  Puts(q, regs[q])
BY DEF Puts

LEMMA InOrder ==
  /\ \A k \in 1 .. 21 : Order32[k] \in Registers(32)
  /\ \A k \in 1 .. 8 : Order32[k] \notin {"eip", "eflags"}
  /\ \A k \in 1 .. 10 : Order32[8 + k] \notin {"eip", "eflags", "esp", "ebp", "eax"}
  /\ \A r \in Registers(32) : \E k \in 1 .. 21 : Order32[k] = r
<1>1. \A k \in 1 .. 21 : Order32[k] \in Registers(32)
  BY Registers32 DEF Order32
<1>2. \A k \in 1 .. 8 : Order32[k] \notin {"eip", "eflags"}
  BY DEF Order32
<1>3. \A k \in 1 .. 10 : Order32[8 + k] \notin {"eip", "eflags", "esp", "ebp", "eax"}
  BY DEF Order32
<1>4. ASSUME NEW r \in Registers(32) PROVE \E k \in 1 .. 21 : Order32[k] = r
  <2>1. \E k \in 1 .. 21 : <<"eax", "ecx", "edx", "ebx", "esp", "ebp", "esi", "edi", "cr0", "cr2", "cr3",
             "cr4", "es", "cs", "ss", "ds", "fs", "gs", "eip", "cs", "eflags">>[k] = r
    BY <1>4, Registers32
  <2> QED
    BY <2>1, Zenon DEF Order32
<1> QED
  BY <1>1, <1>2, <1>3, <1>4

LEMMA SavesOne ==
  ASSUME bits = 32, Area32 \in Int, NEW n \in 0 .. 20, NEW m, m = n + 1, Saved32(stack, n), NEW w,
         Writes(Area32 + Offset(32, Order32[m]), w), Order32[m] \notin Mistaken => w = AtFault(Order32[m])
  PROVE  Saved32(stack', m)
<1> SUFFICES ASSUME NEW k \in 1 .. m, Order32[k] \notin Mistaken
             PROVE  Contents(stack', Area32 + Offset(32, Order32[k])) = AtFault(Order32[k])
  BY DEF Saved32
<1>1. k \in 1 .. 21 /\ m \in 1 .. 21 /\ (k = m \/ k \in 1 .. n)
  OBVIOUS
<1>2. Order32[k] \in Registers(32) /\ Order32[m] \in Registers(32)
  BY <1>1, InOrder
<1>3. Offset(32, Order32[k]) \in 0 .. 66 /\ Offset(32, Order32[m]) \in 0 .. 66
  BY <1>2, Offsets32
<1>4. CASE Order32[k] = Order32[m]
  BY <1>3, <1>4 DEF Writes
<1>5. CASE Order32[k] # Order32[m]
  <2>1. Offset(32, Order32[k]) # Offset(32, Order32[m])
    BY <1>2, <1>5, Offsets32
  <2>2. Contents(stack', Area32 + Offset(32, Order32[k])) = Contents(stack, Area32 + Offset(32, Order32[k]))
    BY <1>3, <2>1 DEF Writes
  <2>3. k \in 1 .. n
    BY <1>1, <1>5
  <2> QED
    BY <2>2, <2>3 DEF Saved32
<1> QED
  BY <1>4, <1>5

LEMMA SavedStays ==
  ASSUME bits = 32, Area32 \in Int, NEW n \in 0 .. 21, Saved32(stack, n),
         \A x \in Int : Area32 <= x => Contents(stack', x) = Contents(stack, x)
  PROVE  Saved32(stack', n)
<1> SUFFICES ASSUME NEW k \in 1 .. n, Order32[k] \notin Mistaken
             PROVE  Contents(stack', Area32 + Offset(32, Order32[k])) = AtFault(Order32[k])
  BY DEF Saved32
<1>1. Order32[k] \in Registers(32)
  BY InOrder
<1>2. Offset(32, Order32[k]) \in 0 .. 66
  BY <1>1, Offsets32
<1>3. Contents(stack', Area32 + Offset(32, Order32[k])) = Contents(stack, Area32 + Offset(32, Order32[k]))
  BY <1>2
<1> QED
  BY <1>3 DEF Saved32

LEMMA FaultTypes ==
  ASSUME NEW j, InFault(j)
  PROVE  /\ bits = 32 /\ raised \in {0, 13} /\ StubsTypeOK /\ j \in Int
         /\ Ip(bits) = "eip" /\ Sp(bits) = "esp" /\ Fl(bits) = "eflags" /\ Bytes(bits) = 4
         /\ Area32 \in Int /\ EntryTop \in Int /\ Area32 + 68 <= EntryTop
<1>1. bits = 32 /\ raised \in {0, 13} /\ StubsTypeOK /\ j \in Int
  BY InFaultFacts
<1>2. Ip(bits) = "eip" /\ Sp(bits) = "esp" /\ Fl(bits) = "eflags" /\ Bytes(bits) = 4
  BY <1>1, Names
<1>3. Area32 = (IF raised = 13 THEN EntryTop - 72 ELSE EntryTop - 68) /\ EntryTop \in Int
  BY InFaultFacts
<1>4. Area32 \in Int /\ Area32 + 68 <= EntryTop
  BY <1>3
<1> QED
  BY <1>1, <1>2, <1>3, <1>4

LEMMA FaultWhile ==
  ASSUME NEW j \in 3 .. 37, InFault(j)
  PROVE  /\ regs["esp"] = Stack(Area32) /\ FaultTop(j) = Area32 /\ Saved32(stack, Stored32(j))
         /\ \A r \in Registers(32) \ Changed32(j) : regs[r] = AtFault(r)
         /\ j \in 12 .. 36 /\ j % 2 = 0 => regs["eax"] = AtFault(Order32[(j + 6) \div 2])
         /\ raised = 13 => regs["ebp"] = Stack(EntryTop - 4)
<1>1. FaultTop(j) = Area32
  BY FaultTops
<1>2. FaultedIn(regs, stack, j) /\ j <= 37 /\ j > 1
  BY DEF InFault
<1> QED
  BY <1>1, <1>2 DEF FaultedIn

\* A store into the save area, which leaves the registers alone.
LEMMA FaultStores ==
  ASSUME NEW j \in 3 .. 36, InFault(j), StubStep, NEW m \in 1 .. 21, Stored32(j) = m - 1, Stored32(j + 1) = m,
         NEW q, Instr = Store("esp", Offset(32, Order32[m]), q),
         Order32[m] \notin Mistaken => regs[q] = AtFault(Order32[m]),
         ~(j + 1 \in 12 .. 36 /\ (j + 1) % 2 = 0)
  PROVE  FaultDone(j + 1)
<1> DEFINE o == Offset(32, Order32[m])
           a == Area32 + o
           v == regs["esp"]
           r == "esp"
<1>1. /\ bits = 32 /\ raised \in {0, 13} /\ StubsTypeOK /\ j \in Int
      /\ Area32 \in Int /\ EntryTop \in Int /\ Area32 + 68 <= EntryTop
  BY FaultTypes
<1>2. regs["esp"] = Stack(Area32) /\ FaultTop(j) = Area32 /\ Saved32(stack, m - 1)
  BY FaultWhile
<1>3. Order32[m] \in Registers(32)
  BY InOrder
<1>4. o \in 0 .. 66
  BY <1>3, Offsets32
<1>5. Puts(q, regs[q]) /\ Writes(a, regs[q]) /\ Kept
  <2> HIDE DEF o
  <2>1. Instr = Store("esp", o, q)
    BY DEF o
  <2> QED
    BY <1>1, <1>2, <1>4, <2>1, StoreDoes
<1>6. Puts(r, v)
  BY <1>5, PutsSame
<1>7. KeepsAbove(EntryTop)
  <2>1. a \in Int /\ a < EntryTop
    BY <1>1, <1>4
  <2> HIDE DEF a
  <2> QED
    BY <1>1, <1>5, <2>1, NotAbove
<1>8. Saved32(stack', m)
  <2> DEFINE n == m - 1
             w == regs[q]
  <2>1. n \in 0 .. 20 /\ m = n + 1 /\ Saved32(stack, n) /\ Writes(Area32 + Offset(32, Order32[m]), w)
        /\ (Order32[m] \notin Mistaken => w = AtFault(Order32[m]))
    BY <1>2, <1>5
  <2> HIDE DEF n, w
  <2> QED
    BY <1>1, <2>1, SavesOne
<1>9. FaultNext(j + 1, r, v)
  <2>1. FaultTop(j + 1) = Area32 /\ r \in Changed32(j + 1) \ {"eip", "eflags"} /\ r # "ebp" /\ j + 1 # 2
    BY FaultTops DEF Changed32
  <2>2. v = Stack(FaultTop(j + 1)) /\ r = "esp"
    BY <1>2, <2>1
  <2> QED
    BY <1>8, <2>1, <2>2, Zenon DEF FaultNext
<1>10. j <= 36
  OBVIOUS
<1> HIDE DEF r, v
<1> QED
  BY <1>5, <1>6, <1>7, <1>9, <1>10, FaultMoves

\* eax takes what goes to the save area next.
LEMMA FaultCarries ==
  ASSUME NEW j \in 11 .. 35, InFault(j), Stored32(j) = Stored32(j + 1), NEW v, Puts("eax", v), WritesNothing, Kept,
         v = AtFault(Order32[((j + 1) + 6) \div 2])
  PROVE  FaultDone(j + 1)
<1> DEFINE r == "eax"
<1>1. /\ bits = 32 /\ raised \in {0, 13} /\ StubsTypeOK /\ j \in Int /\ Area32 \in Int /\ EntryTop \in Int
  BY FaultTypes
<1>2. FaultTop(j) = Area32 /\ Saved32(stack, Stored32(j))
  BY FaultWhile
<1>3. KeepsAbove(EntryTop)
  BY NothingAbove
<1>4. Saved32(stack', Stored32(j + 1))
  <2> DEFINE n == Stored32(j + 1)
  <2>1. n \in 0 .. 21
    BY DEF Stored32
  <2>2. Saved32(stack, n) /\ \A x \in Int : Area32 <= x => Contents(stack', x) = Contents(stack, x)
    BY <1>2 DEF WritesNothing
  <2> HIDE DEF n
  <2>3. Saved32(stack', n)
    BY <1>1, <2>1, <2>2, SavedStays
  <2> QED
    BY <2>3 DEF n
<1>5. FaultNext(j + 1, r, v)
  <2>1. FaultTop(j + 1) = Area32 /\ r \in Changed32(j + 1) \ {"eip", "eflags"} /\ r # "ebp" /\ j + 1 # 2
        /\ (j + 1) - 1 = j /\ r # "esp" /\ r = "eax"
    BY FaultTops DEF Changed32
  <2>2. FaultTop(j + 1) = FaultTop((j + 1) - 1)
    BY <1>2, <2>1
  <2> QED
    BY <1>4, <2>1, <2>2, Zenon DEF FaultNext
<1>6. j <= 36 /\ Puts(r, v)
  OBVIOUS
<1> HIDE DEF r
<1> QED
  BY <1>3, <1>5, <1>6, FaultMoves

LEMMA MistakenInFault ==
  ASSUME bits = 32, raised \in {0, 13}
  PROVE  Mistaken = IF raised = 13 THEN {"esp", "ebp"} ELSE {"esp"}
<1>1. raised \in DOMAIN Gates
  BY DEF Gates, Gates32, Vectors32
<1> QED
  BY <1>1 DEF Mistaken

LEMMA GeneralStore ==
  ASSUME NEW k \in 1 .. 8, InFault(k + 2), StubStep
  PROVE  FaultDone(k + 3)
<1> DEFINE j == k + 2
           q == Order32[k]
<1>1. j \in 3 .. 10 /\ j \in 3 .. 36 /\ j \in 3 .. 37 /\ j + 1 = k + 3 /\ InFault(j) /\ k \in 1 .. 21
  OBVIOUS
<1>2. Instr = Store("esp", Offset(32, Order32[k]), q)
  BY FaultInstrs DEF FaultInstr
<1>3. Stored32(j + 1) = k
  BY <1>1, StoredTable
<1>4. Stored32(j) = k - 1
  <2>1. CASE k = 1
    BY <2>1, StoredTable
  <2>2. CASE k # 1
    <3>1. k - 1 \in 1 .. 8 /\ (k - 1) + 3 = j
      BY <2>2
    <3> QED
      BY <3>1, StoredTable
  <2> QED
    BY <2>1, <2>2
<1>5. bits = 32 /\ raised \in {0, 13}
  BY <1>1, FaultTypes
<1>6. q \in Registers(32) /\ q \notin {"eip", "eflags"}
  BY <1>1, InOrder
<1>7. q \notin Mistaken => regs[q] = AtFault(q)
  <2>1. q \notin Mistaken => q \notin Changed32(j)
    BY <1>1, <1>5, <1>6, MistakenInFault DEF Changed32
  <2> HIDE DEF j, q
  <2> QED
    BY <1>1, <1>6, <2>1, FaultWhile
<1>8. ~(j + 1 \in 12 .. 36 /\ (j + 1) % 2 = 0)
  BY <1>1
<1>9. FaultDone(j + 1)
  <2> HIDE DEF j, q
  <2>1. q = Order32[k]
    BY Zenon DEF q
  <2> QED
    BY <1>1, <1>2, <1>3, <1>4, <1>7, <1>8, <2>1, FaultStores
<1> QED
  BY <1>1, <1>9

LEMMA OtherStore ==
  ASSUME NEW k \in 1 .. 13, InFault(2 * k + 10), StubStep
  PROVE  FaultDone(2 * k + 11)
<1> DEFINE j == 2 * k + 10
           m == 8 + k
           q == "eax"
<1>1. j \in 12 .. 36 /\ j \in 3 .. 36 /\ j \in 3 .. 37 /\ j + 1 = 2 * k + 11 /\ j % 2 = 0 /\ m \in 1 .. 21
      /\ ~(j + 1 \in 12 .. 36 /\ (j + 1) % 2 = 0) /\ (j + 6) \div 2 = m
  OBVIOUS
<1>2. InFault(j)
  OBVIOUS
<1>3. Instr = Store("esp", Offset(32, Order32[m]), q)
  BY FaultInstrs DEF FaultInstr
<1>4. Stored32(j + 1) = m /\ Stored32(j) = m - 1
  BY <1>1, StoredTable
<1> HIDE DEF j, m
<1>5. regs["eax"] = AtFault(Order32[m])
  BY <1>1, <1>2, FaultWhile
<1>6. FaultDone(j + 1)
  <2>1. Order32[m] \notin Mistaken => regs[q] = AtFault(Order32[m])
    BY <1>5
  <2> HIDE DEF q
  <2> QED
    BY <1>1, <1>2, <1>3, <1>4, <2>1, FaultStores
<1> QED
  BY <1>1, <1>6

LEMMA OtherMov ==
  ASSUME NEW k \in 1 .. 10, InFault(2 * k + 9), StubStep
  PROVE  FaultDone(2 * k + 10)
<1> DEFINE j == 2 * k + 9
           q == Order32[8 + k]
           r == "eax"
<1>1. j \in 11 .. 35 /\ j \in 3 .. 37 /\ j + 1 = 2 * k + 10 /\ ((j + 1) + 6) \div 2 = 8 + k /\ 8 + k \in 1 .. 21
  OBVIOUS
<1>2. InFault(j)
  OBVIOUS
<1>3. Instr = Mov(r, q)
  BY FaultInstrs DEF FaultInstr
<1>4. Stored32(j) = Stored32(j + 1)
  <2>1. k \in 1 .. 13
    OBVIOUS
  <2> QED
    BY <1>1, <2>1, StoredTable
<1>5. bits = 32 /\ StubsTypeOK
  BY <1>2, FaultTypes
<1>6. q \in Registers(32) /\ q \notin {"eip", "eflags", "esp", "ebp", "eax"}
  BY <1>1, InOrder
<1> HIDE DEF j
<1>7. regs[q] = AtFault(q)
  <2>1. q \notin Changed32(j)
    BY <1>6 DEF Changed32
  <2> HIDE DEF q
  <2> QED
    BY <1>1, <1>2, <1>6, <2>1, FaultWhile
<1>8. r \in Registers(bits) \ {Ip(bits)}
  BY <1>5, Names, Registers32
<1>9. Puts("eax", regs[q]) /\ WritesNothing /\ Kept
  <2> HIDE DEF r
  <2>1. Puts(r, regs[q]) /\ WritesNothing /\ Kept
    BY <1>3, <1>5, <1>8, MovDoes
  <2> QED
    BY <2>1 DEF r
<1>10. regs[q] = AtFault(Order32[((j + 1) + 6) \div 2])
  BY <1>1, <1>7
<1>11. FaultDone(j + 1)
  <2> DEFINE v == regs[q]
  <2>1. Puts("eax", v) /\ v = AtFault(Order32[((j + 1) + 6) \div 2])
    BY <1>9, <1>10
  <2> HIDE DEF v
  <2> QED
    BY <1>1, <1>2, <1>4, <1>9, <2>1, FaultCarries
<1> QED
  BY <1>1, <1>11

LEMMA FrameWords32 ==
  ASSUME NEW j, InFault(j)
  PROVE  /\ \A k \in 1 .. 3 : Contents(stack, (home - 12) + 4 * (k - 1)) = AtFault(Order32[18 + k])
         /\ home \in Int /\ EntryTop = (IF raised = 13 THEN home - 16 ELSE home - 12)
         /\ raised = 13 => Contents(stack, EntryTop) = Error(13)
<1>1. /\ bits = 32 /\ raised \in {0, 13} /\ StubsTypeOK /\ Bytes(bits) = 4
  BY FaultTypes
<1>2. FrameKept /\ raised # NoVector
  <2>1. raised # NoVector
    BY <1>1 DEF NoVector
  <2> QED
    BY <2>1 DEF InFault
<1>3. 13 \in ErrorVectors /\ 0 \notin ErrorVectors
  BY DEF ErrorVectors
<1>4. Pushed = <<"eflags", "cs", "eip">> /\ Base = home /\ home \in Int
      /\ EntryTop = (IF raised = 13 THEN home - 16 ELSE home - 12)
  BY <1>1, <1>3, EntryTop32
<1>5. \A m \in 1 .. 3 : Contents(stack, home - 4 * m) = AtFault(Pushed[m])
  <2>1. DOMAIN Pushed = 1 .. 3
    BY <1>4
  <2>2. \A m \in DOMAIN Pushed : Contents(stack, Base - Bytes(bits) * m) = AtFault(Pushed[m])
    BY <1>2 DEF FrameKept, Read
  <2>3. Base - Bytes(bits) * 1 = home - 4 * 1 /\ Base - Bytes(bits) * 2 = home - 4 * 2 /\ Base - Bytes(bits) * 3 = home - 4 * 3
    BY <1>1, <1>4
  <2>4. 1 \in DOMAIN Pushed /\ 2 \in DOMAIN Pushed /\ 3 \in DOMAIN Pushed
    BY <2>1
  <2>5. /\ Contents(stack, home - 4 * 1) = AtFault(Pushed[1])
        /\ Contents(stack, home - 4 * 2) = AtFault(Pushed[2])
        /\ Contents(stack, home - 4 * 3) = AtFault(Pushed[3])
    BY <2>2, <2>3, <2>4
  <2>6. \A m \in 1 .. 3 : m = 1 \/ m = 2 \/ m = 3
    OBVIOUS
  <2> QED
    BY <2>5, <2>6, Zenon
<1>6. \A k \in 1 .. 3 : Contents(stack, (home - 12) + 4 * (k - 1)) = AtFault(Order32[18 + k])
  <2> TAKE k \in 1 .. 3
  <2> DEFINE m == 4 - k
  <2>1. m \in 1 .. 3 /\ (home - 12) + 4 * (k - 1) = home - 4 * m
    BY <1>4
  <2>2. Pushed[m] = Order32[18 + k]
    BY <1>4 DEF Order32
  <2>3. Contents(stack, home - 4 * m) = AtFault(Pushed[m])
    BY <1>5, <2>1
  <2> QED
    BY <2>1, <2>2, <2>3
<1>7. raised = 13 => Contents(stack, EntryTop) = Error(13)
  BY <1>2, <1>3 DEF FrameKept, Read
<1> QED
  BY <1>4, <1>6, <1>7

LEMMA FrameLoad32 ==
  ASSUME NEW k \in 1 .. 3, InFault(2 * k + 29), StubStep
  PROVE  FaultDone(2 * k + 30)
<1> DEFINE j == 2 * k + 29
           r == "eax"
           b == IF raised = 13 THEN "ebp" ELSE "esp"
           n == IF raised = 13 THEN 8 + 4 * (k - 1) ELSE 68 + 4 * (k - 1)
           t == IF raised = 13 THEN EntryTop - 4 ELSE Area32
           v == Contents(stack, t + n)
<1>1. j \in 11 .. 35 /\ j \in 3 .. 37 /\ j + 1 = 2 * k + 30 /\ ((j + 1) + 6) \div 2 = 18 + k
  OBVIOUS
<1>2. InFault(j)
  OBVIOUS
<1>3. bits = 32 /\ StubsTypeOK /\ raised \in {0, 13} /\ EntryTop \in Int /\ Area32 \in Int
  BY <1>2, FaultTypes
<1>4. Instr = Load(r, b, n)
  BY FaultInstrs DEF FaultInstr
<1>5. Stored32(j) = Stored32(j + 1)
  <2>1. k + 10 \in 1 .. 13 /\ 2 * (k + 10) + 9 = j /\ 2 * (k + 10) + 10 = j + 1
    OBVIOUS
  <2> QED
    BY <2>1, StoredTable
<1> HIDE DEF j
<1>6. regs[b] = Stack(t)
  BY <1>1, <1>2, FaultWhile
<1>7. t \in Int /\ n \in Int
  BY <1>3
<1>8. t + n = (home - 12) + 4 * (k - 1)
  <2>1. home \in Int /\ EntryTop = (IF raised = 13 THEN home - 16 ELSE home - 12)
    BY <1>2, FrameWords32
  <2>2. Area32 = (IF raised = 13 THEN EntryTop - 72 ELSE EntryTop - 68)
    BY <1>2, InFaultFacts
  <2> QED
    BY <2>1, <2>2
<1>9. v = AtFault(Order32[18 + k])
  BY <1>2, <1>8, FrameWords32
<1>10. r \in Registers(bits) \ {Ip(bits)}
  BY <1>3, Names, Registers32
<1>11. Puts(r, v) /\ WritesNothing /\ Kept
  <2> HIDE DEF r, b, n, t
  <2> QED
    BY <1>3, <1>4, <1>6, <1>7, <1>10, LoadDoes
<1>12. FaultDone(j + 1)
  <2>1. Puts("eax", v) /\ v = AtFault(Order32[((j + 1) + 6) \div 2])
    BY <1>1, <1>9, <1>11
  <2> HIDE DEF v
  <2> QED
    BY <1>1, <1>2, <1>5, <1>11, <2>1, FaultCarries
<1> QED
  BY <1>1, <1>12

LEMMA FaultStart ==
  ASSUME NEW j \in 0 .. 2, InFault(j), StubStep
  PROVE  FaultDone(j + 1)
<1>1. /\ bits = 32 /\ StubsTypeOK /\ raised \in {0, 13} /\ EntryTop \in Int /\ Area32 \in Int
      /\ Ip(bits) = "eip" /\ Sp(bits) = "esp" /\ Bytes(bits) = 4
  BY FaultTypes
<1>2. Area32 = (IF raised = 13 THEN EntryTop - 72 ELSE EntryTop - 68)
  BY InFaultFacts
<1>3. regs["esp"] = Stack(FaultTop(j)) /\ (raised = 0 => j = 2)
  BY DEF InFault, FaultedIn
<1>4. FaultText(j)
  BY FaultTexts
<1>5. "esp" \in Registers(bits) \ {Ip(bits)} /\ "ebp" \in Registers(bits) \ {Ip(bits)}
  BY <1>1, Registers32
<1>6. Saved32(stack', 0) /\ Stored32(1) = 0 /\ Stored32(2) = 0 /\ Stored32(3) = 0
  BY StoredTable DEF Saved32
<1>7. CASE j = 0
  <2> DEFINE t == EntryTop
             q == "ebp"
             r == "esp"
             v == Stack(t - 4)
             a == t - 4
  <2>1. raised = 13
    BY <1>1, <1>3, <1>7
  <2>2. Instr = Push(q)
    BY <1>4, <1>7, <2>1 DEF FaultText, GPFaultIs
  <2>3. FaultTop(0) = EntryTop /\ FaultTop(1) = EntryTop - 4
    BY <2>1, FaultTops
  <2>4. regs[Sp(bits)] = Stack(t) /\ t \in Int
    BY <1>1, <1>3, <1>7, <2>3
  <2>5. Puts(r, v) /\ Writes(a, regs[q]) /\ Kept
    <3> HIDE DEF t, q
    <3>1. Puts(Sp(bits), Stack(t - Bytes(bits))) /\ Writes(t - Bytes(bits), regs[q]) /\ Kept
      BY <1>1, <2>2, <2>4, PushDoes
    <3> QED
      BY <1>1, <3>1
  <2>6. KeepsAbove(EntryTop)
    <3>1. a \in Int /\ a < EntryTop
      BY <1>1
    <3> HIDE DEF a
    <3> QED
      BY <1>1, <2>5, <3>1, NotAbove
  <2>7. FaultNext(j + 1, r, v)
    <3>1. j + 1 = 1 /\ r \in Changed32(1) \ {"eip", "eflags"} /\ r # "ebp" /\ 1 \notin 12 .. 36 /\ 1 # 2
      BY <1>7 DEF Changed32
    <3>2. r = "esp" /\ v = Stack(FaultTop(1))
      BY <2>3
    <3> QED
      BY <1>6, <3>1, <3>2, Zenon DEF FaultNext
  <2>8. j <= 36
    OBVIOUS
  <2> HIDE DEF r, v
  <2> QED
    BY <2>5, <2>6, <2>7, <2>8, FaultMoves
<1>8. CASE j = 1
  <2> DEFINE q == "esp"
             r == "ebp"
             v == regs[q]
  <2>1. raised = 13
    BY <1>1, <1>3, <1>8
  <2>2. Instr = Mov(r, q)
    BY <1>4, <1>8, <2>1 DEF FaultText, GPFaultIs
  <2>3. FaultTop(1) = EntryTop - 4 /\ FaultTop(2) = EntryTop - 4
    BY <2>1, FaultTops
  <2>4. Puts(r, v) /\ WritesNothing /\ Kept
    <3> HIDE DEF r, q
    <3> QED
      BY <1>1, <1>5, <2>2, MovDoes DEF r
  <2>5. KeepsAbove(EntryTop)
    BY <2>4, NothingAbove
  <2>6. FaultNext(j + 1, r, v)
    <3>1. j + 1 = 2 /\ r \in Changed32(2) \ {"eip", "eflags"} /\ r # "esp" /\ 2 \notin 12 .. 36 /\ 2 - 1 = 1
      BY <1>8, <2>1 DEF Changed32
    <3>2. r = "ebp" /\ v = Stack(EntryTop - 4) /\ FaultTop(2) = FaultTop(1)
      BY <1>3, <1>8, <2>3
    <3> QED
      BY <1>6, <2>1, <3>1, <3>2, Zenon DEF FaultNext
  <2>7. j <= 36
    OBVIOUS
  <2> HIDE DEF r, v
  <2> QED
    BY <2>4, <2>5, <2>6, <2>7, FaultMoves
<1>9. CASE j = 2
  <2> DEFINE t == IF raised = 13 THEN EntryTop - 4 ELSE EntryTop
             n == 68
             r == "esp"
             v == Stack(t - n)
  <2>1. Instr = Sub(r, n)
    BY <1>4, <1>9 DEF FaultText, GPFaultIs, DivbyzeroIs
  <2>2. FaultTop(2) = t
    BY <1>1, FaultTops
  <2>3. FaultTop(3) = Area32 /\ t - n = Area32 /\ t \in Int /\ n \in Int
    BY <1>1, <1>2, FaultTops
  <2>4. Puts(r, v) /\ WritesNothing /\ Kept
    <3>1. regs[r] = Stack(t)
      BY <1>3, <1>9, <2>2
    <3> HIDE DEF r, n, t
    <3> QED
      BY <1>1, <1>5, <2>1, <2>3, <3>1, SubDoes DEF r
  <2>5. KeepsAbove(EntryTop)
    BY <2>4, NothingAbove
  <2>6. FaultNext(j + 1, r, v)
    <3>1. j + 1 = 3 /\ r \in Changed32(3) \ {"eip", "eflags"} /\ r # "ebp" /\ 3 \notin 12 .. 36 /\ 3 # 2
      BY <1>9 DEF Changed32
    <3>2. r = "esp" /\ v = Stack(FaultTop(3))
      BY <2>3
    <3> QED
      BY <1>6, <3>1, <3>2, Zenon DEF FaultNext
  <2>7. j <= 36
    OBVIOUS
  <2> HIDE DEF r, v
  <2> QED
    BY <2>4, <2>5, <2>6, <2>7, FaultMoves
<1> QED
  BY <1>7, <1>8, <1>9

LEMMA FaultSaving ==
  ASSUME NEW j \in 0 .. 36, InFault(j), StubStep
  PROVE  FaultDone(j + 1)
<1>1. CASE j <= 2
  BY <1>1, FaultStart
<1>2. CASE j \in 3 .. 10
  <2> DEFINE k == j - 2
  <2>1. k \in 1 .. 8 /\ k + 2 = j /\ k + 3 = j + 1
    BY <1>2
  <2> HIDE DEF k
  <2> QED
    BY <2>1, GeneralStore
<1>3. CASE j \in 12 .. 36 /\ j % 2 = 0
  <2> DEFINE k == (j - 10) \div 2
  <2>1. k \in 1 .. 13 /\ 2 * k + 10 = j /\ 2 * k + 11 = j + 1
    BY <1>3
  <2> HIDE DEF k
  <2> QED
    BY <2>1, OtherStore
<1>4. CASE j \in 11 .. 29 /\ j % 2 # 0
  <2> DEFINE k == (j - 9) \div 2
  <2>1. k \in 1 .. 10 /\ 2 * k + 9 = j /\ 2 * k + 10 = j + 1
    BY <1>4
  <2> HIDE DEF k
  <2> QED
    BY <2>1, OtherMov
<1>5. CASE j \in 31 .. 35 /\ j % 2 # 0
  <2> DEFINE k == (j - 29) \div 2
  <2>1. k \in 1 .. 3 /\ 2 * k + 29 = j /\ 2 * k + 30 = j + 1
    BY <1>5
  <2> HIDE DEF k
  <2> QED
    BY <2>1, FrameLoad32
<1> QED
  BY <1>1, <1>2, <1>3, <1>4, <1>5

-----------------------------------------------------------------------------
(* From the call of the function that prints the registers on.             *)
EndNext(m) ==
  /\ DOMAIN regs' = Registers(32) /\ regs'["eip"] = Code(Gates[raised], Extra + m)
  /\ regs'["eflags"] = Flags(FALSE) /\ regs'["esp"] = Stack(FaultTop(m))
  /\ raised = 13 => regs'["ebp"] = Stack(EntryTop - 4)
  /\ KeepsAbove(Area32)
  /\ raised = 13 /\ m \in 38 .. 39 => regs'["eax"] = Stack(Area32)
  /\ raised = 13 /\ m \in 39 .. 40 => Contents(stack', Area32 - 4) = Error(13)
  /\ raised = 13 /\ m = 40 => Contents(stack', Area32 - 8) = Stack(Area32)
  /\ raised = 0 /\ m = 38 => Contents(stack', Area32 - 4) = Stack(Area32)

AtEnd(j) ==
  /\ regs["eip"] = Code(Gates[raised], Extra + j) /\ regs["eflags"] = Flags(FALSE)
  /\ regs["esp"] = Stack(FaultTop(j)) /\ Saved32(stack, 21)
  /\ raised = 13 => regs["ebp"] = Stack(EntryTop - 4)
  /\ raised = 13 /\ j \in 38 .. 39 => regs["eax"] = Stack(Area32)
  /\ raised = 13 /\ j \in 39 .. 40 => Contents(stack, Area32 - 4) = Error(13)
  /\ raised = 13 /\ j = 40 => Contents(stack, Area32 - 8) = Stack(Area32)
  /\ raised = 0 /\ j = 38 => Contents(stack, Area32 - 4) = Stack(Area32)

LEMMA FaultEnd ==
  ASSUME NEW j \in 37 .. 43, InFault(j)
  PROVE  AtEnd(j)
<1>1. FaultedIn(regs, stack, j) /\ j > 1
  BY DEF InFault
<1>2. Stored32(j) = 21
  <2>1. CASE j = 37
    <3>1. 13 \in 1 .. 13 /\ 2 * 13 + 11 = 37 /\ 8 + 13 = 21
      OBVIOUS
    <3>2. Stored32(2 * 13 + 11) = 8 + 13
      BY <3>1, StoredTable
    <3> QED
      BY <2>1, <3>1, <3>2
  <2>2. CASE j # 37
    <3>1. j \in 38 .. 43
      BY <2>2
    <3> QED
      BY <3>1, StoredTable
  <2> QED
    BY <2>1, <2>2
<1> QED
  BY <1>1, <1>2 DEF FaultedIn, AtEnd

LEMMA FaultEnds ==
  ASSUME NEW j \in 37 .. 42, InFault(j), EndNext(j + 1)
  PROVE  FaultedIn(regs', stack', j + 1) /\ KeepsAbove(EntryTop)
<1> DEFINE m == j + 1
<1>1. bits = 32 /\ Area32 \in Int /\ EntryTop \in Int /\ Area32 + 68 <= EntryTop
  BY FaultTypes
<1>2. Saved32(stack, 21)
  <2>1. j \in 37 .. 43
    OBVIOUS
  <2> QED
    BY <2>1, FaultEnd DEF AtEnd
<1>3. \A x \in Int : Area32 <= x => Contents(stack', x) = Contents(stack, x)
  BY <1>1 DEF EndNext, KeepsAbove
<1>4. Saved32(stack', 21)
  <2> DEFINE n == 21
  <2>1. n \in 0 .. 21 /\ Saved32(stack, n)
    BY <1>2
  <2> HIDE DEF n
  <2>2. Saved32(stack', n)
    BY <1>1, <1>3, <2>1, SavedStays
  <2> QED
    BY <2>2, Zenon DEF n
<1>5. KeepsAbove(EntryTop)
  BY <1>1 DEF EndNext, KeepsAbove
<1>6. m \in 38 .. 43
  OBVIOUS
<1>7. Stored32(m) = 21 /\ ~(m <= 37) /\ m \notin 12 .. 36
  BY <1>6, StoredTable
<1>8. EndNext(m)
  OBVIOUS
<1> HIDE DEF m
<1>9. Saved32(stack', Stored32(m))
  BY <1>4, <1>7
<1>10. FaultedIn(regs', stack', m)
  BY <1>7, <1>8, <1>9, Zenon DEF FaultedIn, EndNext
<1> QED
  BY <1>5, <1>10 DEF m

\* A step of the end that puts v into r.
EndPuts(j, r, v) ==
  /\ Puts(r, v) /\ r # "eip" /\ KeepsAbove(Area32)
  /\ IF r = "eflags" THEN v = Flags(FALSE) ELSE TRUE
  /\ IF r = "esp" THEN v = Stack(FaultTop(j + 1)) ELSE FaultTop(j + 1) = FaultTop(j)
  /\ raised = 13 => r # "ebp"
  /\ raised = 13 /\ j + 1 \in 38 .. 39 => (IF r = "eax" THEN v ELSE regs["eax"]) = Stack(Area32)
  /\ raised = 13 /\ j + 1 \in 39 .. 40 => Contents(stack', Area32 - 4) = Error(13)
  /\ raised = 13 /\ j + 1 = 40 => Contents(stack', Area32 - 8) = Stack(Area32)
  /\ raised = 0 /\ j + 1 = 38 => Contents(stack', Area32 - 4) = Stack(Area32)

LEMMA EndMoves ==
  ASSUME NEW j \in 37 .. 42, InFault(j), Kept, NEW r, NEW v, EndPuts(j, r, v)
  PROVE  FaultDone(j + 1)
<1>1. /\ bits = 32 /\ raised \in {0, 13} /\ Ip(bits) = "eip"
  BY FaultTypes
<1>2. /\ regs["eip"] = Code(Gates[raised], Extra + j) /\ regs["eflags"] = Flags(FALSE)
      /\ regs["esp"] = Stack(FaultTop(j)) /\ (raised = 13 => regs["ebp"] = Stack(EntryTop - 4))
  <2>1. j \in 37 .. 43
    OBVIOUS
  <2> QED
    BY <2>1, FaultEnd DEF AtEnd
<1>3. /\ DOMAIN regs' = Registers(32) /\ regs'["eip"] = Code(Gates[raised], Extra + (j + 1))
      /\ \A x \in Registers(32) \ {"eip"} : regs'[x] = IF x = r THEN v ELSE regs[x]
  <2>1. Extra \in {0, 2}
    BY DEF Extra
  <2>2. (Extra + j) + 1 = Extra + (j + 1)
    BY <2>1
  <2> QED
    BY <1>1, <1>2, <2>2 DEF EndPuts, Puts, Code, Pc
<1>4. /\ "esp" \in Registers(32) \ {"eip"} /\ "eflags" \in Registers(32) \ {"eip"}
      /\ "ebp" \in Registers(32) \ {"eip"} /\ "eax" \in Registers(32) \ {"eip"}
  BY Registers32
<1>5. regs'["eflags"] = Flags(FALSE) /\ regs'["esp"] = Stack(FaultTop(j + 1))
  BY <1>2, <1>3, <1>4 DEF EndPuts
<1>6. raised = 13 => regs'["ebp"] = Stack(EntryTop - 4)
  BY <1>2, <1>3, <1>4 DEF EndPuts
<1>7. regs'["eax"] = IF r = "eax" THEN v ELSE regs["eax"]
  BY <1>3, <1>4
<1>8. EndNext(j + 1)
  BY <1>3, <1>5, <1>6, <1>7, Zenon DEF EndPuts, EndNext
<1>9. FaultedIn(regs', stack', j + 1) /\ KeepsAbove(EntryTop)
  BY <1>8, FaultEnds
<1> QED
  BY <1>3, <1>9 DEF FaultDone

EndWrites(a, v) == Writes(a, v) /\ a < Area32

LEMMA EndKeeps ==
  ASSUME Area32 \in Int
  PROVE  /\ WritesNothing => KeepsAbove(Area32)
         /\ \A a \in Int : \A v : EndWrites(a, v) => KeepsAbove(Area32)
<1>1. WritesNothing => KeepsAbove(Area32)
  BY NothingAbove
<1>2. ASSUME NEW a \in Int, NEW v, EndWrites(a, v) PROVE KeepsAbove(Area32)
  <2> DEFINE t == Area32
  <2>1. t \in Int /\ a < t /\ Writes(a, v)
    BY <1>2 DEF EndWrites
  <2> HIDE DEF t
  <2>2. KeepsAbove(t)
    BY <2>1, NotAbove
  <2> QED
    BY <2>2 DEF t
<1> QED
  BY <1>1, <1>2

EndSub(j, n, t) == Instr = Sub("esp", -n) /\ FaultTop(j) = t /\ FaultTop(j + 1) = t + n

LEMMA EndSubs ==
  ASSUME NEW j \in 37 .. 42, InFault(j), StubStep, NEW n \in Nat, NEW t \in Int, EndSub(j, n, t), j + 1 > 40 \/ raised = 0,
         raised = 0 => j + 1 # 38
  PROVE  FaultDone(j + 1)
<1> DEFINE r == "esp"
           d == -n
           v == Stack(t - d)
<1>1. bits = 32 /\ StubsTypeOK /\ raised \in {0, 13} /\ Area32 \in Int /\ Ip(bits) = "eip"
  BY FaultTypes
<1>2. regs["esp"] = Stack(FaultTop(j))
  <2>1. j \in 37 .. 43
    OBVIOUS
  <2> QED
    BY <2>1, FaultEnd DEF AtEnd
<1>3. Instr = Sub(r, d) /\ regs[r] = Stack(t) /\ d \in Int /\ t - d = t + n
  BY <1>2 DEF EndSub
<1>4. r \in Registers(bits) \ {Ip(bits)}
  BY <1>1, Registers32
<1>5. Puts(r, v) /\ WritesNothing /\ Kept
  <2> HIDE DEF r, d
  <2> QED
    BY <1>1, <1>3, <1>4, SubDoes
<1>6. EndPuts(j, r, v)
  <2>1. r = "esp" /\ v = Stack(FaultTop(j + 1)) /\ r # "eip" /\ r # "eflags" /\ r # "ebp"
    BY <1>3 DEF EndSub
  <2>2. KeepsAbove(Area32)
    BY <1>1, <1>5, EndKeeps
  <2>3. /\ ~(raised = 13 /\ j + 1 \in 38 .. 39) /\ ~(raised = 13 /\ j + 1 \in 39 .. 40)
        /\ ~(raised = 13 /\ j + 1 = 40) /\ ~(raised = 0 /\ j + 1 = 38)
    BY <1>1
  <2> QED
    BY <1>5, <2>1, <2>2, <2>3, Zenon DEF EndPuts
<1> HIDE DEF r, v
<1> QED
  BY <1>5, <1>6, EndMoves

LEMMA EndClis ==
  ASSUME NEW j \in 37 .. 42, InFault(j), StubStep, Instr = Cli, FaultTop(j) = FaultTop(j + 1),
         j + 1 > 40
  PROVE  FaultDone(j + 1)
<1> DEFINE r == "eflags"
           v == Flags(FALSE)
<1>1. bits = 32 /\ StubsTypeOK /\ raised \in {0, 13} /\ Area32 \in Int /\ Fl(bits) = "eflags"
  BY FaultTypes
<1>2. Puts(r, v) /\ WritesNothing /\ Kept
  BY <1>1, CliDoes
<1>3. EndPuts(j, r, v)
  <2>1. r = "eflags" /\ v = Flags(FALSE) /\ r # "eip" /\ r # "esp" /\ r # "ebp"
    BY Zenon
  <2>2. KeepsAbove(Area32)
    BY <1>1, <1>2, EndKeeps
  <2>3. /\ ~(raised = 13 /\ j + 1 \in 38 .. 39) /\ ~(raised = 13 /\ j + 1 \in 39 .. 40)
        /\ ~(raised = 13 /\ j + 1 = 40) /\ ~(raised = 0 /\ j + 1 = 38)
    BY <1>1
  <2> QED
    BY <1>2, <2>1, <2>2, <2>3, Zenon DEF EndPuts
<1> HIDE DEF r, v
<1> QED
  BY <1>2, <1>3, EndMoves

LEMMA DivbyzeroArgument ==
  ASSUME InFault(37), raised = 0, StubStep
  PROVE  FaultDone(38)
<1> DEFINE j == 37
           q == "esp"
           r == "esp"
           t == Area32
           v == Stack(t - 4)
           a == t - 4
<1>1. bits = 32 /\ StubsTypeOK /\ Area32 \in Int /\ Sp(bits) = "esp" /\ Bytes(bits) = 4
  BY FaultTypes
<1>2. FaultTop(37) = Area32 /\ FaultTop(38) = Area32 - 4
  <2>1. 37 \in 3 .. 37 /\ raised # 13
    OBVIOUS
  <2> QED
    BY <2>1, FaultTops
<1>3. regs["esp"] = Stack(Area32)
  <2>1. j \in 37 .. 43
    OBVIOUS
  <2> QED
    BY <1>2, <2>1, FaultEnd DEF AtEnd
<1>4. Instr = Push(q)
  <2>1. FaultText(37) /\ raised # 13 /\ 0 + 37 = 37
    BY FaultTexts
  <2> QED
    BY <2>1 DEF FaultText, DivbyzeroIs
<1>5. Puts(r, v) /\ Writes(a, regs[q]) /\ Kept
  <2>1. regs[Sp(bits)] = Stack(t) /\ t \in Int
    BY <1>1, <1>3
  <2> HIDE DEF t, q
  <2>2. Puts(Sp(bits), Stack(t - Bytes(bits))) /\ Writes(t - Bytes(bits), regs[q]) /\ Kept
    BY <1>1, <1>4, <2>1, PushDoes
  <2> QED
    BY <1>1, <2>2
<1>6. EndPuts(j, r, v)
  <2>1. r = "esp" /\ v = Stack(FaultTop(j + 1)) /\ r # "eip" /\ r # "eflags" /\ raised # 13
    BY <1>2
  <2>2. KeepsAbove(Area32)
    <3>1. a \in Int /\ EndWrites(a, regs[q])
      BY <1>1, <1>5 DEF EndWrites
    <3> HIDE DEF a
    <3> QED
      BY <1>1, <3>1, EndKeeps
  <2>3. Contents(stack', Area32 - 4) = Stack(Area32)
    BY <1>1, <1>3, <1>5 DEF Writes
  <2> QED
    BY <1>5, <2>1, <2>2, <2>3, Zenon DEF EndPuts
<1>7. j \in 37 .. 42 /\ InFault(j) /\ j + 1 = 38
  OBVIOUS
<1> HIDE DEF j, r, v
<1>8. FaultDone(j + 1)
  BY <1>5, <1>6, <1>7, EndMoves
<1> QED
  BY <1>7, <1>8

LEMMA GPFaultArguments ==
  ASSUME NEW j \in 37 .. 39, InFault(j), raised = 13, StubStep
  PROVE  FaultDone(j + 1)
<1>1. /\ bits = 32 /\ StubsTypeOK /\ Area32 \in Int /\ EntryTop \in Int /\ Ip(bits) = "eip" /\ Sp(bits) = "esp"
      /\ Bytes(bits) = 4
  BY FaultTypes
<1>2. FaultTop(37) = Area32 /\ FaultTop(38) = Area32 /\ FaultTop(39) = Area32 - 4 /\ FaultTop(40) = Area32 - 8
  <2>1. 37 \in 3 .. 37
    OBVIOUS
  <2> QED
    BY <2>1, FaultTops
<1>3. AtEnd(j)
  <2>1. j \in 37 .. 43
    OBVIOUS
  <2> QED
    BY <2>1, FaultEnd
<1>4. FaultText(j)
  BY FaultTexts
<1>5. "eax" \in Registers(bits) \ {Ip(bits)} /\ j \in 37 .. 42
  BY <1>1, Registers32
<1>6. CASE j = 37
  <2> DEFINE r == "eax"
             q == "esp"
             v == regs[q]
  <2>1. Instr = Mov(r, q) /\ r \in Registers(bits) \ {Ip(bits)}
    BY <1>4, <1>5, <1>6 DEF FaultText, GPFaultIs
  <2>2. Puts(r, v) /\ WritesNothing /\ Kept
    <3> HIDE DEF r, q
    <3> QED
      BY <1>1, <2>1, MovDoes
  <2>3. EndPuts(j, r, v)
    <3>1. r = "eax" /\ r # "eip" /\ r # "eflags" /\ r # "esp" /\ r # "ebp" /\ raised # 0
          /\ j + 1 \notin 39 .. 40 /\ j + 1 # 40
      BY <1>6
    <3>2. v = Stack(Area32) /\ FaultTop(j + 1) = FaultTop(j)
      BY <1>2, <1>3, <1>6 DEF AtEnd
    <3>3. KeepsAbove(Area32)
      BY <1>1, <2>2, EndKeeps
    <3> QED
      BY <2>2, <3>1, <3>2, <3>3, Zenon DEF EndPuts
  <2> HIDE DEF r, v
  <2> QED
    BY <1>5, <2>2, <2>3, EndMoves
<1>7. CASE j = 38
  <2> DEFINE b == "ebp"
             n == 4
             t == Area32
             s == EntryTop - 4
             r == "esp"
             v == Stack(t - 4)
             a == t - 4
             w == Contents(stack, s + n)
  <2>1. Instr = PushAt(b, n)
    BY <1>4, <1>7 DEF FaultText, GPFaultIs
  <2>2. regs[Sp(bits)] = Stack(t) /\ regs[b] = Stack(s) /\ t \in Int /\ s \in Int /\ n \in Int
    BY <1>1, <1>2, <1>3, <1>7 DEF AtEnd
  <2>3. Puts(r, v) /\ Writes(a, w) /\ Kept
    <3> HIDE DEF b, n, t, s
    <3>1. Puts(Sp(bits), Stack(t - Bytes(bits))) /\ Writes(t - Bytes(bits), w) /\ Kept
      BY <1>1, <2>1, <2>2, PushAtDoes
    <3> QED
      BY <1>1, <3>1
  <2>4. w = Error(13)
    <3>1. s + n = EntryTop
      BY <1>1
    <3> QED
      BY <3>1, FrameWords32
  <2>5. EndPuts(j, r, v)
    <3>1. r = "esp" /\ r # "eip" /\ r # "eflags" /\ r # "ebp" /\ r # "eax" /\ raised # 0 /\ j + 1 # 40
      BY <1>7
    <3>2. v = Stack(FaultTop(j + 1)) /\ regs["eax"] = Stack(Area32)
      BY <1>2, <1>3, <1>7 DEF AtEnd
    <3>3. KeepsAbove(Area32)
      <4>1. a \in Int /\ EndWrites(a, w)
        BY <1>1, <2>3 DEF EndWrites
      <4> HIDE DEF a, w
      <4> QED
        BY <1>1, <4>1, EndKeeps
    <3>4. Contents(stack', Area32 - 4) = Error(13)
      BY <1>1, <2>3, <2>4 DEF Writes
    <3> QED
      BY <2>3, <3>1, <3>2, <3>3, <3>4, Zenon DEF EndPuts
  <2> HIDE DEF r, v
  <2> QED
    BY <1>5, <2>3, <2>5, EndMoves
<1>8. CASE j = 39
  <2> DEFINE q == "eax"
             t == Area32 - 4
             r == "esp"
             v == Stack(t - 4)
             a == t - 4
             w == regs[q]
  <2>1. Instr = Push(q)
    BY <1>4, <1>8 DEF FaultText, GPFaultIs
  <2>2. regs[Sp(bits)] = Stack(t) /\ t \in Int
    BY <1>1, <1>2, <1>3, <1>8 DEF AtEnd
  <2>3. Puts(r, v) /\ Writes(a, w) /\ Kept
    <3> HIDE DEF q, t
    <3>1. Puts(Sp(bits), Stack(t - Bytes(bits))) /\ Writes(t - Bytes(bits), w) /\ Kept
      BY <1>1, <2>1, <2>2, PushDoes
    <3> QED
      BY <1>1, <3>1
  <2>4. w = Stack(Area32) /\ Contents(stack, Area32 - 4) = Error(13)
    BY <1>3, <1>8 DEF AtEnd
  <2>5. EndPuts(j, r, v)
    <3>1. r = "esp" /\ r # "eip" /\ r # "eflags" /\ r # "ebp" /\ raised # 0 /\ j + 1 \notin 38 .. 39
      BY <1>8
    <3>2. v = Stack(FaultTop(j + 1))
      <4>1. t - 4 = Area32 - 8 /\ j + 1 = 40
        BY <1>1, <1>8
      <4> QED
        BY <1>2, <4>1
    <3>3. KeepsAbove(Area32)
      <4>1. a \in Int /\ EndWrites(a, w)
        BY <1>1, <2>3 DEF EndWrites
      <4> HIDE DEF a, w
      <4> QED
        BY <1>1, <4>1, EndKeeps
    <3>4. Contents(stack', Area32 - 4) = Error(13) /\ Contents(stack', Area32 - 8) = Stack(Area32)
      <4>1. a = Area32 - 8 /\ Area32 - 8 \in Int /\ Area32 - 4 \in Int /\ Area32 - 4 # Area32 - 8
        BY <1>1
      <4> QED
        BY <2>3, <2>4, <4>1 DEF Writes
    <3> QED
      BY <2>3, <3>1, <3>2, <3>3, <3>4, Zenon DEF EndPuts
  <2> HIDE DEF r, v
  <2> QED
    BY <1>5, <2>3, <2>5, EndMoves
<1> QED
  BY <1>6, <1>7, <1>8

LEMMA GPFaultReturned ==
  ASSUME NEW j \in 41 .. 42, InFault(j), raised = 13, StubStep
  PROVE  FaultDone(j + 1)
<1>1. Area32 \in Int
  BY FaultTypes
<1>2. FaultTop(41) = Area32 - 8 /\ FaultTop(42) = Area32 /\ FaultTop(43) = Area32
  BY FaultTops
<1>3. FaultText(j)
  BY FaultTexts
<1>4. CASE j = 41
  <2> DEFINE n == 8
             t == Area32 - 8
  <2>1. EndSub(j, n, t)
    <3>1. Instr = Sub("esp", -8)
      BY <1>3, <1>4 DEF FaultText, GPFaultIs
    <3>2. t + n = Area32 /\ j + 1 = 42
      BY <1>1, <1>4
    <3> QED
      BY <1>2, <1>4, <3>1, <3>2 DEF EndSub
  <2>2. n \in Nat /\ t \in Int /\ j \in 37 .. 42 /\ j + 1 > 40 /\ raised # 0
    BY <1>1, <1>4
  <2> HIDE DEF n, t
  <2> QED
    BY <2>1, <2>2, EndSubs
<1>5. CASE j = 42
  <2>1. Instr = Cli
    BY <1>3, <1>5 DEF FaultText, GPFaultIs
  <2>2. j \in 37 .. 42 /\ j + 1 > 40 /\ FaultTop(j) = FaultTop(j + 1)
    BY <1>2, <1>5
  <2> QED
    BY <2>1, <2>2, EndClis
<1> QED
  BY <1>4, <1>5

LEMMA DivbyzeroReturned ==
  ASSUME NEW j \in 39 .. 40, InFault(j), raised = 0, StubStep
  PROVE  FaultDone(j + 1)
<1>1. Area32 \in Int
  BY FaultTypes
<1>2. FaultTop(39) = Area32 - 4 /\ FaultTop(40) = Area32 /\ FaultTop(41) = Area32
  <2>1. raised # 13
    OBVIOUS
  <2> QED
    BY <2>1, FaultTops
<1>3. FaultText(j) /\ raised # 13
  BY FaultTexts
<1>4. CASE j = 39
  <2> DEFINE n == 4
             t == Area32 - 4
  <2>1. EndSub(j, n, t)
    <3>1. Instr = Sub("esp", -4)
      BY <1>3, <1>4 DEF FaultText, DivbyzeroIs
    <3>2. t + n = Area32 /\ j + 1 = 40
      BY <1>1, <1>4
    <3> QED
      BY <1>2, <1>4, <3>1, <3>2 DEF EndSub
  <2>2. n \in Nat /\ t \in Int /\ j \in 37 .. 42 /\ j + 1 # 38
    BY <1>1, <1>4
  <2> HIDE DEF n, t
  <2> QED
    BY <2>1, <2>2, EndSubs
<1>5. CASE j = 40
  <2>1. Instr = Cli
    BY <1>3, <1>5 DEF FaultText, DivbyzeroIs
  <2>2. j \in 37 .. 42 /\ j + 1 > 40 /\ FaultTop(j) = FaultTop(j + 1)
    BY <1>2, <1>5
  <2> QED
    BY <2>1, <2>2, EndClis
<1> QED
  BY <1>4, <1>5

LEMMA FaultSteps ==
  ASSUME NEW j, InFault(j), StubStep,
         raised = 13 => j # 40 /\ j # 43, raised = 0 => j # 38 /\ j # 41
  PROVE  FaultDone(j + 1)
<1>1. raised \in {0, 13} /\ j \in 0 .. 43 /\ (raised = 0 => j <= 41)
  <2>1. raised \in {0, 13}
    BY FaultTypes
  <2> QED
    BY <2>1 DEF InFault
<1>2. CASE j <= 36
  BY <1>1, <1>2, FaultSaving
<1>3. CASE j \in 37 .. 39 /\ raised = 13
  BY <1>3, GPFaultArguments
<1>4. CASE j \in 41 .. 42 /\ raised = 13
  BY <1>4, GPFaultReturned
<1>5. CASE j = 37 /\ raised = 0
  BY <1>5, DivbyzeroArgument
<1>6. CASE j \in 39 .. 40 /\ raised = 0
  BY <1>6, DivbyzeroReturned
<1> QED
  BY <1>1, <1>2, <1>3, <1>4, <1>5, <1>6

LEMMA HltStops ==
  ASSUME StubsInv, NEW j, InFault(j), j = (IF raised = 13 THEN 43 ELSE 41), StubStep
  PROVE  StubsInv'
<1>1. /\ bits = 32 /\ StubsTypeOK /\ raised \in {0, 13} /\ Ip(bits) = "eip" /\ Sp(bits) = "esp"
  BY FaultTypes
<1>2. Instr = Hlt
  <2>1. FaultText(j)
    BY FaultTexts
  <2>2. CASE raised = 13
    BY <2>1, <2>2 DEF FaultText, GPFaultIs
  <2>3. CASE raised # 13
    BY <2>1, <2>3 DEF FaultText, DivbyzeroIs
  <2> QED
    BY <2>2, <2>3
<1>3. ExecHlt
  BY <1>2, StepIs DEF Hlt
<1>4. regs' = [regs EXCEPT ![Ip(bits)] = Code("halt", 0)] /\ stack' = stack /\ Kept
  BY <1>3 DEF ExecHlt, Kept
<1>5. DOMAIN regs = Registers(32) /\ DOMAIN stack \subseteq Int /\ "eip" \in Registers(32) /\ regs["esp"][1] = "stack"
  BY <1>1, Registers32 DEF StubsTypeOK
<1>6. DOMAIN regs' = Registers(bits) /\ regs'["eip"] = Code("halt", 0) /\ regs'["esp"] = regs["esp"]
  BY <1>1, <1>4, <1>5
<1>7. regs'[Ip(bits)][1] = "code" /\ regs'[Sp(bits)][1] = "stack"
  BY <1>1, <1>5, <1>6 DEF Code
<1>8. KeepsAbove(Floor)
  BY <1>4, <1>5 DEF KeepsAbove
<1>9. Halted'
  BY <1>1, <1>4, <1>6, Names DEF Halted, Pc, Kept
<1> QED
  BY <1>4, <1>6, <1>7, <1>8, <1>9, InvariantStays DEF Going

LEMMA FaultGoesOn ==
  ASSUME NEW j, InFault(j), j + 1 \in 0 .. 43, raised = 0 => j + 1 <= 41, SameFault,
         FaultedIn(regs', stack', j + 1)
  PROVE  Faulted' /\ regs'["eip"][1] = "code" /\ regs'["esp"][1] = "stack"
<1> DEFINE m == j + 1
<1>1. bits = 32 /\ raised \in {0, 13}
  BY FaultTypes
<1>2. Extra = (IF raised = 13 THEN 2 ELSE 0) /\ j \in Int /\ (raised = 0 => j >= 2)
  BY DEF InFault, Extra
<1>10. PICK i \in Int : i = Extra + m
  BY <1>2
<1>3. i - Extra = m /\ i = Extra + m /\ i \in 2 .. (IF raised = 13 THEN 45 ELSE 41)
  BY <1>1, <1>2, <1>10
<1>4. FaultedIn(regs', stack', m)
  OBVIOUS
<1>5. regs'["eip"][1] = "code" /\ regs'["esp"][1] = "stack"
  BY DEF FaultedIn, Code, Stack
<1> HIDE DEF m
<1>6. FaultedAt(i)'
  BY <1>1, <1>3, <1>4, FaultedIs
<1>7. raised \in DOMAIN Gates \ IRQs
  BY <1>1 DEF Gates, Gates32, Vectors32, IRQs
<1>8. Gates' = Gates /\ bits' = 32 /\ raised' = raised
  BY <1>1, FaultMeansSame DEF SameFault
<1>9. Faulted'
  BY <1>3, <1>6, <1>7, <1>8 DEF Faulted
<1> QED
  BY <1>5, <1>9

LEMMA FaultedSteps ==
  ASSUME StubsInv, NEW j, InFault(j), StubStep,
         raised = 13 => j # 40 /\ j # 43, raised = 0 => j # 38 /\ j # 41
  PROVE  StubsInv'
<1>1. /\ bits = 32 /\ StubsTypeOK /\ raised \in {0, 13} /\ Ip(bits) = "eip" /\ Sp(bits) = "esp"
  BY FaultTypes
<1>2. FaultDone(j + 1)
  BY FaultSteps
<1>3. FaultedIn(regs', stack', j + 1) /\ Kept /\ KeepsAbove(EntryTop) /\ DOMAIN regs' = Registers(bits)
  BY <1>1, <1>2 DEF FaultDone
<1>4. j + 1 \in 0 .. 43 /\ (raised = 0 => j + 1 <= 41) /\ SameFault
  <2>1. j \in (IF raised = 13 THEN 0 ELSE 2) .. (IF raised = 13 THEN 43 ELSE 41)
    BY DEF InFault
  <2>2. SameFault
    BY <1>3 DEF Kept, SameFault
  <2> QED
    BY <1>1, <2>1, <2>2
<1>5. Faulted' /\ regs'["eip"][1] = "code" /\ regs'["esp"][1] = "stack"
  BY <1>3, <1>4, FaultGoesOn
<1>6. KeepsAbove(Floor)
  <2>1. raised # NoVector
    BY <1>1 DEF NoVector
  <2> QED
    BY <1>3, <2>1 DEF Floor
<1> QED
  BY <1>1, <1>3, <1>5, <1>6, InvariantStays DEF Going

LEMMA FaultShows ==
  ASSUME NEW j, InFault(j), Saved32(stack, 21)
  PROVE  \A r \in Registers(32) \ Mistaken : Shown32(Stack(Area32))[r] = AtFault(r)
<1> TAKE r \in Registers(32) \ Mistaken
<1>1. PICK k \in 1 .. 21 : Order32[k] = r
  BY InOrder
<1>2. Contents(stack, Area32 + Offset(32, r)) = AtFault(r)
  BY <1>1 DEF Saved32
<1>3. Stack(Area32)[2] = Area32
  BY DEF Stack
<1> QED
  BY <1>2, <1>3 DEF Shown32, Read

LEMMA FaultCalls ==
  ASSUME StubsInv, NEW j, InFault(j), j = (IF raised = 13 THEN 40 ELSE 38), StubStep
  PROVE  StubsInv'
<1>1. /\ bits = 32 /\ StubsTypeOK /\ raised \in {0, 13} /\ Ip(bits) = "eip" /\ Sp(bits) = "esp"
      /\ Area32 \in Int /\ raised # NoVector
  <2>1. raised \in {0, 13}
    BY FaultTypes
  <2> QED
    BY <2>1, FaultTypes DEF NoVector
<1>2. AtEnd(j)
  <2>1. j \in 37 .. 43
    OBVIOUS
  <2> QED
    BY <2>1, FaultEnd
<1>3. FaultText(j)
  BY FaultTexts
<1>4. Instr = Call(IF raised = 13 THEN "GPFaultHandlerM" ELSE "DivbyzeroHandlerM")
  <2>1. CASE raised = 13
    BY <1>3, <2>1 DEF FaultText, GPFaultIs
  <2>2. CASE raised # 13
    BY <1>3, <2>2 DEF FaultText, DivbyzeroIs
  <2> QED
    BY <2>1, <2>2
<1>5. Instr.op = "call" /\ Instr.fun = (IF raised = 13 THEN "GPFaultHandlerM" ELSE "DivbyzeroHandlerM")
  BY <1>4 DEF Call
<1>6. CallHandlerM
  BY <1>5, StepIs DEF CallKeyboardHandlerM, CallCPUExceptionHandler
<1> DEFINE f == Shown32(Read(Top))
           g == [r \in Registers(bits) |-> IF r \in CallerSaved(bits) THEN Scratch ELSE regs[r]]
<1>7. /\ dump' = [vector |-> Number(IF Instr.fun = "GPFaultHandlerM" THEN 13 ELSE 0),
                  error  |-> IF Instr.fun = "GPFaultHandlerM" THEN Read(Top + 4) ELSE Number(0),
                  shown  |-> f, stack  |-> <<>>]
      /\ Advance(g)
      /\ bits' = bits /\ home' = home /\ stack' = stack /\ raised' = raised
  BY <1>6, Zenon DEF CallHandlerM
<1>8. Top = FaultTop(j)
  BY <1>1, <1>2 DEF AtEnd, Top, Stack
<1>9. FaultTop(j) = (IF raised = 13 THEN Area32 - 8 ELSE Area32 - 4) /\ FaultTop(j + 1) = FaultTop(j)
  <2>1. CASE raised = 13
    BY <2>1, FaultTops
  <2>2. CASE raised # 13
    <3>1. FaultTop(38) = Area32 - 4 /\ FaultTop(39) = Area32 - 4 /\ j = 38 /\ j + 1 = 39
      BY <2>2, FaultTops
    <3> QED
      BY <2>2, <3>1
  <2> QED
    BY <2>1, <2>2
<1>10. Read(Top) = Stack(Area32) /\ (raised = 13 => Read(Top + 4) = Error(13))
  <2>1. CASE raised = 13
    <3>1. (Area32 - 8) + 4 = Area32 - 4
      BY <1>1
    <3> QED
      BY <1>2, <1>8, <1>9, <2>1, <3>1 DEF AtEnd, Read
  <2>2. CASE raised # 13
    BY <1>1, <1>2, <1>8, <1>9, <2>2 DEF AtEnd, Read
  <2> QED
    BY <2>1, <2>2
<1>11. \A r \in Registers(32) \ Mistaken : f[r] = AtFault(r)
  <2>1. Saved32(stack, 21)
    BY <1>2 DEF AtEnd
  <2> QED
    BY <1>10, <2>1, FaultShows
<1>12. SameFault /\ WritesNothing
  BY <1>1, <1>7, NothingWritten DEF SameFault
<1>13. /\ Gates' = Gates /\ EntryTop' = EntryTop /\ Mistaken' = Mistaken /\ Registers(bits)' = Registers(32)
       /\ \A r : AtFault(r)' = AtFault(r)
  BY <1>1, <1>12, FaultMeansSame DEF SameFault
<1> HIDE DEF f
<1>14. DumpKept'
  <2>1. /\ dump'.shown = f /\ dump'.vector = Number(raised)
        /\ dump'.error = IF raised \in ErrorVectors THEN Error(raised) ELSE Number(0)
    <3>1. 13 \in ErrorVectors /\ 0 \notin ErrorVectors
      BY DEF ErrorVectors
    <3>2. "GPFaultHandlerM" # "DivbyzeroHandlerM"
      OBVIOUS
    <3>3. CASE raised = 13
      BY <1>5, <1>7, <1>10, <3>1, <3>3
    <3>4. CASE raised = 0
      BY <1>5, <1>7, <3>1, <3>2, <3>4
    <3> QED
      BY <1>1, <3>3, <3>4
  <2>2. ShowsFault(Registers(bits) \ Mistaken)'
    BY <1>1, <1>7, <1>11, <1>13, <2>1 DEF ShowsFault
  <2>3. PanicNamesException'
    BY <1>7, <2>1 DEF PanicNamesException
  <2>4. raised' # NoVector
    BY <1>1, <1>7
  <2> QED
    BY <2>2, <2>3, <2>4 DEF DumpKept, DumpShowsFault
<1>15. StackKept' /\ FrameKept'
  <2>1. Base' = Base /\ Pushed' = Pushed
    BY <1>7 DEF Base, Pushed
  <2>2. StackKept /\ FrameKept
    BY DEF StubsInv
  <2> QED
    BY <1>7, <1>13, <2>1, <2>2 DEF StackKept, FrameKept, Read
<1>16. /\ DOMAIN regs' = Registers(32) /\ regs'["eip"] = Code(Gates[raised], Extra + (j + 1))
       /\ \A r \in Registers(32) \ {"eip", "eax", "ecx", "edx"} : regs'[r] = regs[r]
  <2>1. DOMAIN g = Registers(32) /\ \A r \in Registers(32) \ {"eax", "ecx", "edx"} : g[r] = regs[r]
    BY <1>1 DEF CallerSaved
  <2>2. regs["eip"] = Code(Gates[raised], Extra + j) /\ "eip" \in Registers(32)
    BY <1>2, Registers32 DEF AtEnd
  <2> HIDE DEF g
  <2>3. g["eip"] = regs["eip"]
    BY <2>1, <2>2
  <2>4. regs' = [g EXCEPT !["eip"] = Code(@[2], @[3] + 1)]
    BY <1>1, <1>7 DEF Advance
  <2>5. (Extra + j) + 1 = Extra + (j + 1)
    BY DEF Extra
  <2>6. regs'["eip"] = Code(Gates[raised], Extra + (j + 1))
    BY <2>1, <2>2, <2>3, <2>4, <2>5 DEF Code
  <2> QED
    BY <2>1, <2>4, <2>6
<1>17. EndNext(j + 1)
  <2>1. regs'["esp"] = regs["esp"] /\ regs'["eflags"] = regs["eflags"] /\ regs'["ebp"] = regs["ebp"]
    BY <1>16, Registers32
  <2>2. regs'["esp"] = Stack(FaultTop(j + 1)) /\ regs'["eflags"] = Flags(FALSE)
        /\ (raised = 13 => regs'["ebp"] = Stack(EntryTop - 4))
    BY <1>2, <1>9, <2>1 DEF AtEnd
  <2>3. KeepsAbove(Area32)
    BY <1>1, <1>12, EndKeeps
  <2>4. /\ raised = 13 => j + 1 \notin 38 .. 39 /\ j + 1 \notin 39 .. 40 /\ j + 1 # 40
        /\ raised = 0 => j + 1 # 38
    OBVIOUS
  <2> QED
    BY <1>16, <2>2, <2>3, <2>4, Zenon DEF EndNext
<1>18. FaultedIn(regs', stack', j + 1)
  <2>1. j \in 37 .. 42
    OBVIOUS
  <2> QED
    BY <1>17, <2>1, FaultEnds
<1>19. Faulted' /\ regs'["eip"][1] = "code" /\ regs'["esp"][1] = "stack"
  <2>1. j + 1 \in 0 .. 43 /\ (raised = 0 => j + 1 <= 41)
    OBVIOUS
  <2> QED
    BY <1>12, <1>18, <2>1, FaultGoesOn
<1>20. StubsTypeOK'
  <2>1. Pc'[1] = "code" /\ (Sp(bits))' = "esp"
    BY <1>1, <1>7, <1>19, Names DEF Pc
  <2> QED
    BY <1>1, <1>7, <1>13, <1>16, <1>19, <2>1 DEF StubsTypeOK
<1> QED
  BY <1>14, <1>15, <1>19, <1>20 DEF StubsInv

LEMMA FaultedPreserves ==
  ASSUME StubsInv, Faulted, StubStep
  PROVE  StubsInv'
<1>1. bits = 32 /\ raised \in {0, 13} /\ StubsTypeOK /\ FrameKept
  BY DEF Faulted, StubsInv, Gates, Gates32, Vectors32, IRQs
<1>2. PICK i \in 2 .. (IF raised = 13 THEN 45 ELSE 41) : FaultedAt(i)
  BY DEF Faulted
<1> DEFINE j == i - Extra
<1>3. j \in (IF raised = 13 THEN 0 ELSE 2) .. (IF raised = 13 THEN 43 ELSE 41) /\ i = Extra + j /\ i - Extra = j
  BY <1>1 DEF Extra
<1> HIDE DEF j
<1>4. FaultedIn(regs, stack, j)
  BY <1>1, <1>2, <1>3, FaultedIs
<1>5. InFault(j)
  BY <1>1, <1>3, <1>4 DEF InFault
<1>6. CASE j = IF raised = 13 THEN 40 ELSE 38
  BY <1>5, <1>6, FaultCalls
<1>7. CASE j = IF raised = 13 THEN 43 ELSE 41
  BY <1>5, <1>7, HltStops
<1>8. CASE /\ raised = 13 => j # 40 /\ j # 43
           /\ raised = 0 => j # 38 /\ j # 41
  BY <1>5, <1>8, FaultedSteps
<1> QED
  BY <1>1, <1>6, <1>7, <1>8

-----------------------------------------------------------------------------
(* The cli of a stub, the initial states and all steps.                    *)
LEMMA BeforeCli ==
  ASSUME StubsInv, Interruptible, Running
  PROVE  /\ raised # NoVector /\ raised \in DOMAIN Gates \ IRQs
         /\ regs[Ip(bits)] = Code(Gates[raised], 1) /\ regs[Sp(bits)] = Stack(EntryTop)
         /\ Pc = Code(Gates[raised], 1) /\ Instr = Cli
<1>1. StubsTypeOK /\ bits \in {32, 64} /\ DOMAIN regs = Registers(bits) /\ Ip(bits) \in Registers(bits)
      /\ Sp(bits) \in Registers(bits) \ {Ip(bits)} /\ Fl(bits) \in Registers(bits) \ {Ip(bits)} /\ Fl(bits) # Sp(bits)
  BY WellTyped DEF StubsInv
<1>2. \A r \in Registers(bits) : regs[r] = Before(r)
  BY DEF Interruptible
<1>3. raised # NoVector
  <2> SUFFICES ASSUME raised = NoVector
               PROVE  FALSE
    OBVIOUS
  <2>1. Before(Ip(bits)) = Code("program", 0)
    BY <1>1 DEF Before, AtFault
  <2>2. "program" \notin DOMAIN Text
    BY DEF Text, Labels
  <2> QED
    BY <1>1, <1>2, <2>1, <2>2 DEF Running, Pc, Code
<1>4. raised \in DOMAIN Gates \ IRQs
  BY <1>1, <1>3 DEF StubsTypeOK
<1>5. regs[Ip(bits)] = Code(Gates[raised], 1) /\ regs[Sp(bits)] = Stack(EntryTop)
  <2>1. Before(Ip(bits)) = Code(Gates[raised], 1)
    BY <1>1, <1>3 DEF Before
  <2>2. Before(Sp(bits)) = Stack(EntryTop)
    BY <1>1, <1>3 DEF Before
  <2> QED
    BY <1>1, <1>2, <2>1, <2>2
<1>6. Instr = Text[Gates[raised]][1] /\ Pc = Code(Gates[raised], 1)
  BY <1>5 DEF Instr, Pc, Code
<1>7. Instr = Cli
  <2>1. CASE bits = 64
    <3>1. Gates = Gates64 /\ raised \in Vectors64 \ IRQs
      BY <1>4, <2>1 DEF Gates, Gates64
    <3>2. IF raised \in ErrorVectors THEN WithError(raised) ELSE Plain(raised)
      BY <3>1, TrapCode
    <3>3. Text[Gates64[raised]][1] = Cli
      <4>1. CASE raised \in ErrorVectors
        BY <3>2, <4>1 DEF WithError, StubIs
      <4>2. CASE raised \notin ErrorVectors
        BY <3>2, <4>2 DEF Plain, StubIs
      <4> QED
        BY <4>1, <4>2
    <3> QED
      BY <1>6, <3>1, <3>3
  <2>2. CASE bits = 32
    <3>1. raised \in {0, 13}
      BY <1>4, <2>2 DEF Gates, Gates32, Vectors32, IRQs
    <3>2. Gates[raised] = IF raised = 13 THEN "GPFaultHandler32" ELSE "DivbyzeroHandler32"
      BY <2>2, <3>1 DEF Gates, Gates32, Vectors32
    <3>3. Text["GPFaultHandler32"] = GPFaultHandler32 /\ Text["DivbyzeroHandler32"] = DivbyzeroHandler32
      BY DEF Text, Labels
    <3>4. GPFaultHandler32[1] = Cli /\ DivbyzeroHandler32[1] = Cli
      BY GPFaultCode, DivbyzeroCode DEF GPFaultIs, DivbyzeroIs
    <3> QED
      BY <1>6, <3>2, <3>3, <3>4
  <2> QED
    BY <1>1, <2>1, <2>2
<1> QED
  BY <1>3, <1>4, <1>5, <1>6, <1>7

LEMMA CliPreserves ==
  ASSUME StubsInv, Interruptible, StubStep
  PROVE  StubsInv'
<1>1. StubsTypeOK /\ bits \in {32, 64} /\ DOMAIN regs = Registers(bits) /\ Ip(bits) \in Registers(bits)
      /\ Sp(bits) \in Registers(bits) \ {Ip(bits)} /\ Fl(bits) \in Registers(bits) \ {Ip(bits)} /\ Fl(bits) # Sp(bits)
  BY WellTyped DEF StubsInv
<1>2. \A r \in Registers(bits) : regs[r] = Before(r)
  BY DEF Interruptible
<1>3. Running
  BY StepIs
<1>4. raised # NoVector /\ raised \in DOMAIN Gates \ IRQs
  BY <1>3, BeforeCli
<1>5. regs[Ip(bits)] = Code(Gates[raised], 1) /\ regs[Sp(bits)] = Stack(EntryTop)
  BY <1>3, BeforeCli
<1>6. \A r \in Registers(bits) \ {Ip(bits), Sp(bits), Fl(bits)} : regs[r] = AtFault(r)
  <2>1. \A r \in Registers(bits) \ {Ip(bits), Sp(bits), Fl(bits)} : Before(r) = AtFault(r)
    BY DEF Before
  <2> QED
    BY <1>2, <2>1
<1>7. Pc = Code(Gates[raised], 1)
  BY <1>3, BeforeCli
<1>8. Instr = Cli
  BY <1>3, BeforeCli
<1>9. Puts(Fl(bits), Flags(FALSE)) /\ WritesNothing /\ Kept
  BY <1>1, <1>8, CliDoes
<1>10. /\ DOMAIN regs' = Registers(bits) /\ regs'[Ip(bits)] = Code(Gates[raised], 2)
       /\ regs'[Fl(bits)] = Flags(FALSE) /\ regs'[Sp(bits)] = Stack(EntryTop)
       /\ \A r \in Registers(bits) \ {Ip(bits), Sp(bits), Fl(bits)} : regs'[r] = AtFault(r)
  <2>1. Code(Pc[2], Pc[3] + 1) = Code(Gates[raised], 2)
    BY <1>7 DEF Code
  <2>2. /\ DOMAIN regs' = Registers(bits) /\ regs'[Ip(bits)] = Code(Gates[raised], 2)
        /\ \A x \in Registers(bits) \ {Ip(bits)} : regs'[x] = IF x = Fl(bits) THEN Flags(FALSE) ELSE regs[x]
    BY <1>9, <2>1 DEF Puts
  <2>3. regs'[Sp(bits)] = regs[Sp(bits)] /\ regs'[Fl(bits)] = Flags(FALSE)
    BY <1>1, <2>2
  <2>4. \A r \in Registers(bits) \ {Ip(bits), Sp(bits), Fl(bits)} : regs'[r] = AtFault(r)
    BY <1>6, <2>2
  <2> QED
    BY <1>5, <2>2, <2>3, <2>4
<1>11. KeepsAbove(Floor)
  BY <1>9, NothingAbove
<1>12. CASE bits = 64
  <2>1. /\ regs'["rip"] = Code(Gates[raised], 2) /\ regs'["rflags"] = Flags(FALSE) /\ regs'["rsp"] = Stack(EntryTop)
        /\ \A r \in Registers(64) \ {"rip", "rsp", "rflags"} : regs'[r] = AtFault(r)
    BY <1>10, <1>12, Names
  <2>2. Changed64(2) = {"rip", "rsp", "rflags"} /\ TrapTop(2) = EntryTop /\ Carried64(2) = "rax"
    BY <1>1, <1>12, TrapTops DEF Changed64, Carried64
  <2>3. "rax" \in Registers(64) \ {"rip", "rsp", "rflags"}
    BY Registers64
  <2>4. Arguments64(IF raised \in ErrorVectors THEN 2 - 2 ELSE 2)'
    <3>1. \A m \in 0 .. 2 : Arguments64(m)'
      BY DEF Arguments64
    <3>2. raised' = raised
      BY <1>9 DEF Kept
    <3>3. CASE raised \in ErrorVectors
      BY <3>1, <3>2, <3>3
    <3>4. CASE raised \notin ErrorVectors
      BY <3>1, <3>2, <3>4
    <3> QED
      BY <3>3, <3>4
  <2>5. Gates' = Gates /\ raised' = raised /\ bits' = 64 /\ Pc' = regs'["rip"]
    BY <1>9, <1>12, MeansKept, Names DEF Kept, Pc
  <2>6. TrappedAt(2)'
    <3>1. /\ EntryTop' = EntryTop /\ TrapTop(2)' = TrapTop(2) /\ Changed64(2)' = Changed64(2)
          /\ Carried64(2)' = Carried64(2) /\ \A r : AtFault(r)' = AtFault(r)
      BY <1>9, MeansKept
    <3>2. /\ Pc' = Code(Gates[raised], 2)' /\ regs'["rsp"] = Stack(TrapTop(2))'
          /\ \A r \in Registers(64) \ Changed64(2)' : regs'[r] = AtFault(r)'
          /\ regs'["rax"] = AtFault(Carried64(2))'
      BY <2>1, <2>2, <2>3, <2>5, <3>1
    <3> QED
      BY <2>1, <2>4, <3>2 DEF TrappedAt
  <2>7. Trapped'
    <3>1. 2 \in 2 .. (IF raised \in ErrorVectors THEN 61 ELSE 59)'
      BY <2>5
    <3> QED
      BY <1>4, <2>5, <2>6, <3>1 DEF Trapped
  <2> QED
    BY <1>9, <1>10, <1>11, <2>7, InvariantStays DEF Going, Code, Stack
<1>13. CASE bits = 32
  <2>1. raised \in {0, 13}
    BY <1>4, <1>13 DEF Gates, Gates32, Vectors32, IRQs
  <2>2. Extra = (IF raised = 13 THEN 2 ELSE 0) /\ SameFault
    BY <1>9 DEF Extra, Kept, SameFault
  <2>3. PICK j \in {0, 2} : j = 2 - Extra
    BY <2>1, <2>2
  <2>4. (raised = 13 => j = 0) /\ (raised = 0 => j = 2) /\ Extra + j = 2
    BY <2>2, <2>3
  <2>5. /\ regs'["eip"] = Code(Gates[raised], 2) /\ regs'["eflags"] = Flags(FALSE) /\ regs'["esp"] = Stack(EntryTop)
        /\ \A r \in Registers(32) \ {"eip", "esp", "eflags"} : regs'[r] = AtFault(r)
    BY <1>10, <1>13, Names
  <2>6. FaultTop(j) = EntryTop
    <3>1. CASE raised = 13
      BY <2>4, <3>1, FaultTops
    <3>2. CASE raised = 0
      <4>1. raised # 13
        BY <3>2
      <4> QED
        BY <2>4, <3>2, <4>1, FaultTops
    <3> QED
      BY <2>1, <3>1, <3>2
  <2>7. Stored32(j) = 0 /\ Saved32(stack', 0)
    <3>1. Stored32(0) = 0 /\ Stored32(2) = 0
      BY StoredTable
    <3> QED
      BY <2>3, <3>1 DEF Saved32
  <2>8. Changed32(j) = {"eip", "esp", "eflags"}
    BY <2>1, <2>4 DEF Changed32
  <2>9. FaultedIn(regs', stack', j)
    <3>1. j <= 37 /\ j \notin 12 .. 36 /\ j \notin 38 .. 39 /\ j \notin 39 .. 40 /\ j # 40 /\ j # 38
          /\ ~(raised = 13 /\ j > 1)
      BY <2>3, <2>4
    <3> QED
      BY <2>4, <2>5, <2>6, <2>7, <2>8, <3>1, Zenon DEF FaultedIn
  <2>10. FaultedAt(2)'
    <3> DEFINE i == 2
    <3>1. i = Extra + j /\ i - Extra = j
      BY <2>2, <2>3, <2>4
    <3> HIDE DEF i
    <3>2. FaultedAt(i)'
      BY <1>13, <2>2, <2>9, <3>1, FaultedIs
    <3> QED
      BY <3>2 DEF i
  <2>11. Faulted'
    <3>1. Gates' = Gates /\ raised' = raised /\ bits' = 32
      BY <1>13, <2>2, FaultMeansSame DEF SameFault
    <3>2. 2 \in 2 .. (IF raised = 13 THEN 45 ELSE 41)'
      BY <3>1
    <3> QED
      BY <1>4, <2>10, <3>1, <3>2 DEF Faulted
  <2> QED
    BY <1>9, <1>10, <1>11, <2>11, InvariantStays DEF Going, Code, Stack
<1> QED
  BY <1>1, <1>12, <1>13

LEMMA StubStepPreserves ==
  ASSUME StubsInv, StubStep
  PROVE  StubsInv'
<1>1. ~Halted
  BY StepIs, OnlyInterruptible
<1>2. Interruptible \/ Interrupted \/ Trapped \/ Faulted
  BY <1>1 DEF StubsInv
<1> QED
  BY <1>2, CliPreserves, InterruptedPreserves, TrappedPreserves, FaultedPreserves

LEMMA StubsStutter ==
  ASSUME StubsInv, UNCHANGED stubVars
  PROVE  StubsInv'
<1>1. Kept /\ regs' = regs /\ stack' = stack
  BY DEF stubVars, Kept
<1>2. StubsTypeOK /\ StackKept /\ FrameKept /\ DumpKept /\ Going
  BY DEF StubsInv, Going
<1>3. StubsTypeOK'
  BY <1>1, <1>2, MeansKept DEF StubsTypeOK, Kept, Pc
<1>4. KeepsAbove(Floor)
  BY <1>1, <1>2 DEF KeepsAbove, StubsTypeOK
<1>5. StackKept' /\ FrameKept' /\ DumpKept'
  BY <1>1, <1>2, <1>4, StaysAbove, DumpStays
<1>6. Going' = Going
  BY DEF stubVars, Going, Interruptible, Before, Gates, EntryTop, Base, Pushed, AtFault, Interrupted, InterruptedAt,
         Pc, IrqBase, IrqTop, Read, Saved, Saves, Work, Trapped, TrappedAt, TrapTop, Area64, Changed64, Carries64,
         Carried64, Missing64, Mistaken, Arguments64, Faulted, FaultedAt, Extra, Area32, FaultTop, Changed32,
         Halted
<1> QED
  BY <1>2, <1>3, <1>5, <1>6 DEF StubsInv, Going

LEMMA StubsBegin ==
  ASSUME NEW b \in {32, 64}, StubsInit(b)
  PROVE  StubsInv
<1>1. /\ bits = b /\ home \in Homes /\ home \in Int /\ raised = NoVector /\ dump = NoDump
      /\ stack = [a \in {home + Bytes(b) * i : i \in 0 .. StackWords - 1} |-> Word(a)]
  BY StubsAssumption DEF StubsInit
<1>2. \A r \in Registers(bits) : regs[r] = AtFault(r)
  BY <1>1 DEF StubsInit, AtFault
<1>3. DOMAIN regs = Registers(bits)
  BY <1>1 DEF StubsInit
<1>4. bits \in {32, 64} /\ Ip(bits) \in Registers(bits) /\ Sp(bits) \in Registers(bits) \ {Ip(bits)}
      /\ Fl(bits) # Sp(bits) /\ Ip(bits) # Fl(bits) /\ Ip(bits) # Sp(bits)
  BY <1>1, PointersAreRegisters
<1>5. Interruptible
  BY <1>1, <1>2 DEF Interruptible, Before
<1>6. AtFault(Ip(bits)) = Code("program", 0) /\ AtFault(Sp(bits)) = Stack(home)
  <2>1. AtFault(Ip(bits)) = Code("program", 0)
    BY <1>4 DEF AtFault
  <2>2. AtFault(Sp(bits)) = Stack(home)
    BY <1>4 DEF AtFault
  <2> QED
    BY <2>1, <2>2
<1>7. Bytes(b) \in {4, 8} /\ StackWords \in Nat
  BY Names, StubsAssumption
<1>8. StackKept /\ DOMAIN stack \subseteq Int
  <2> DEFINE w == Bytes(b)
  <2>1. DOMAIN stack = {home + w * i : i \in 0 .. StackWords - 1} /\ \A a \in DOMAIN stack : stack[a] = Word(a)
    BY <1>1
  <2>2. w \in {4, 8}
    BY <1>7
  <2> HIDE DEF w
  <2>3. DOMAIN stack \subseteq Int
    BY <1>1, <1>7, <2>1, <2>2
  <2>4. \A i \in 0 .. StackWords - 1 : Contents(stack, home + w * i) = Word(home + w * i)
    BY <2>1 DEF Contents
  <2> QED
    BY <1>1, <2>3, <2>4 DEF StackKept, Read, w
<1>9. StubsTypeOK
  <2>1. regs[Ip(bits)][1] = "code" /\ regs[Sp(bits)][1] = "stack"
    BY <1>2, <1>4, <1>6 DEF Code, Stack
  <2> QED
    BY <1>1, <1>3, <1>4, <1>8, <2>1 DEF StubsTypeOK, Pc
<1>10. FrameKept /\ DumpKept
  BY <1>1 DEF FrameKept, DumpKept, DumpShowsFault, ShowsFault, PanicNamesException
<1> QED
  BY <1>5, <1>8, <1>9, <1>10 DEF StubsInv

-----------------------------------------------------------------------------
(* What the invariant says of the program and of the calls.                *)
LEMMA StubsResume ==
  StubsInv => ProgramResumes
<1> SUFFICES ASSUME StubsInv, Idle
             PROVE  /\ \A r \in Registers(bits) \ {Ip(bits), Fl(bits), Sp(bits)} : regs[r] = Program(r)
                    /\ regs[Fl(bits)] = Flags(TRUE) /\ Top = home
                    /\ StackKept
  BY DEF ProgramResumes, StackKept
<1>1. Interruptible /\ raised = NoVector
  BY OnlyInterruptible
<1>2. StubsTypeOK /\ StackKept
  BY DEF StubsInv
<1>3. /\ Ip(bits) \in Registers(bits) /\ Sp(bits) \in Registers(bits) \ {Ip(bits)}
      /\ Fl(bits) \in Registers(bits) \ {Ip(bits)} /\ Fl(bits) # Sp(bits)
  BY <1>2, WellTyped
<1>4. \A r \in Registers(bits) : regs[r] = AtFault(r)
  BY <1>1 DEF Interruptible, Before
<1>5. \A r \in Registers(bits) \ {Ip(bits), Fl(bits), Sp(bits)} : AtFault(r) = Program(r)
  BY DEF AtFault
<1>6. AtFault(Fl(bits)) = Flags(TRUE)
  BY <1>3 DEF AtFault
<1>7. AtFault(Sp(bits)) = Stack(home)
  BY <1>3 DEF AtFault
<1>8. Top = home
  BY <1>3, <1>4, <1>7 DEF Top, Stack
<1> QED
  BY <1>2, <1>3, <1>4, <1>5, <1>6, <1>8

NoCall == Instr.op # "call"

LEMMA TrapsCallOnce ==
  ASSUME NEW i \in 2 .. 60, InTrap(i), raised \notin ErrorVectors => i < 59
  PROVE  NoCall
<1> DEFINE s == Text[Gates64[raised]]
<1>1. Instr = s[i]
  BY TrapInstr
<1>2. IF raised \in ErrorVectors THEN StubIs(s, 0, 16) ELSE StubIs(s, 8, 8)
  <2> HIDE DEF s
  <2>1. s = Text[Gates64[raised]]
    BY DEF s
  <2> QED
    BY <2>1, SharedInstr
<1>3. PICK p, n : StubIs(s, p, n)
  BY <1>2
<1>4. IF raised \in ErrorVectors THEN WithError(raised) ELSE Plain(raised)
  BY TrapInstr
<1>5. CASE i \in 2 .. 5
  <2>1. s[2].op # "call" /\ s[3].op # "call" /\ s[4].op # "call" /\ s[5].op # "call"
    BY <1>3 DEF StubIs, Push, Mov, Sub
  <2> HIDE DEF s
  <2> QED
    BY <1>1, <1>5, <2>1 DEF NoCall
<1>6. CASE i \in 6 .. 17
  <2>1. PICK k \in 1 .. 6 : i = 2 * k + 4 \/ i = 2 * k + 5
    <3>1. i = 2 * ((i - 4) \div 2) + 4 \/ i = 2 * ((i - 4) \div 2) + 5
      BY <1>6
    <3>2. (i - 4) \div 2 \in 1 .. 6
      BY <1>6
    <3> QED
      BY <3>1, <3>2
  <2>2. s[2 * k + 4].op # "call" /\ s[2 * k + 5].op # "call"
    BY <1>3 DEF StubIs, Mov, Push2
  <2> HIDE DEF s
  <2> QED
    BY <1>1, <2>1, <2>2 DEF NoCall
<1>7. CASE i \in 18 .. 27
  <2>1. PICK k \in 1 .. 5 : i = 2 * k + 16 \/ i = 2 * k + 17
    <3>1. i = 2 * ((i - 16) \div 2) + 16 \/ i = 2 * ((i - 16) \div 2) + 17
      BY <1>7
    <3>2. (i - 16) \div 2 \in 1 .. 5
      BY <1>7
    <3> QED
      BY <3>1, <3>2
  <2>2. s[2 * k + 16].op # "call" /\ s[2 * k + 17].op # "call"
    BY <1>3 DEF StubIs, Mov, Push
  <2> HIDE DEF s
  <2> QED
    BY <1>1, <2>1, <2>2 DEF NoCall
<1>8. CASE i \in 28 .. 35
  <2>1. PICK k \in 1 .. 8 : i = k + 27
    <3>1. i - 27 \in 1 .. 8 /\ i = (i - 27) + 27
      BY <1>8
    <3> QED
      BY <3>1
  <2>2. s[k + 27].op # "call"
    BY <1>3 DEF StubIs, Push
  <2> HIDE DEF s
  <2> QED
    BY <1>1, <2>1, <2>2 DEF NoCall
<1>9. CASE i \in 37 .. 43
  <2>1. PICK k \in 1 .. 7 : i = k + 36
    <3>1. i - 36 \in 1 .. 7 /\ i = (i - 36) + 36
      BY <1>9
    <3> QED
      BY <3>1
  <2>2. s[k + 36].op # "call"
    BY <1>3 DEF StubIs, Push
  <2> HIDE DEF s
  <2> QED
    BY <1>1, <2>1, <2>2 DEF NoCall
<1>10. CASE i \in {36, 44, 45}
  <2>1. s[36].op # "call" /\ s[44].op # "call" /\ s[45].op # "call"
    BY <1>3 DEF StubIs, Sub, Load, Push
  <2> HIDE DEF s
  <2> QED
    BY <1>1, <1>10, <2>1 DEF NoCall
<1>11. CASE i \in 46 .. 55
  <2>1. PICK k \in 1 .. 5 : i = 2 * k + 44 \/ i = 2 * k + 45
    <3>1. i = 2 * ((i - 44) \div 2) + 44 \/ i = 2 * ((i - 44) \div 2) + 45
      BY <1>11
    <3>2. (i - 44) \div 2 \in 1 .. 5
      BY <1>11
    <3> QED
      BY <3>1, <3>2
  <2>2. s[2 * k + 44].op # "call" /\ s[2 * k + 45].op # "call"
    BY <1>3 DEF StubIs, Load, Store
  <2> HIDE DEF s
  <2> QED
    BY <1>1, <2>1, <2>2 DEF NoCall
<1>12. CASE i \in 56 .. 58 /\ raised \notin ErrorVectors
  <2>1. s[56].op # "call" /\ s[57].op # "call" /\ s[58].op # "call"
    BY <1>4, <1>12 DEF Plain, Mov, Set
  <2> HIDE DEF s
  <2> QED
    BY <1>1, <1>12, <2>1 DEF NoCall
<1>13. CASE i \in 56 .. 60 /\ raised \in ErrorVectors
  <2>1. s[56].op # "call" /\ s[57].op # "call" /\ s[58].op # "call" /\ s[59].op # "call" /\ s[60].op # "call"
    BY <1>4, <1>13 DEF WithError, Load, Store, Mov, Set
  <2> HIDE DEF s
  <2> QED
    BY <1>1, <1>13, <2>1 DEF NoCall
<1> QED
  BY <1>5, <1>6, <1>7, <1>8, <1>9, <1>10, <1>11, <1>12, <1>13

LEMMA IrqsCallKeyboard ==
  ASSUME StubsTypeOK, NEW v \in IRQs, NEW i \in 1 .. 2 * Len(Saves(v)) + Work(v) + 1, InterruptedAt(v, i)
  PROVE  Instr.op = "call" => Instr.fun # "CPUExceptionHandler"
<1>1. bits \in {32, 64}
  BY DEF StubsTypeOK
<1> DEFINE n == IF v = 33 THEN IF bits = 64 THEN 10 ELSE 3 ELSE 1
           s == Text[Gates[v]]
<1>2. SavesAre(v, n)
  BY <1>1, SavesOf
<1>3. IrqIs(v, s, n, Work(v))
  <2> HIDE DEF n
  <2>1. n = (IF v = 33 THEN IF bits = 64 THEN 10 ELSE 3 ELSE 1)
    BY Zenon DEF n
  <2> QED
    BY <1>1, <2>1, IrqCode
<1>4. Len(Saves(v)) = n /\ n \in 1 .. 10 /\ Work(v) \in 1 .. 2
  BY <1>2 DEF SavesAre, Work
<1>5. Instr = s[i]
  BY DEF InterruptedAt, Instr, Code
<1> HIDE DEF n, s
<1> DEFINE w == Work(v)
<1>6. CASE i <= n
  <2>1. i \in 1 .. n
    BY <1>4, <1>6
  <2>2. s[i] = Push(Saves(v)[i])
    BY <1>3, <2>1, Zenon DEF IrqIs
  <2> QED
    BY <1>5, <2>2 DEF Push
<1>7. CASE i > n /\ i <= n + w
  <2>1. PICK k \in 1 .. w : i = n + k
    <3>1. i - n \in 1 .. w /\ i = n + (i - n)
      BY <1>4, <1>7
    <3> QED
      BY <3>1
  <2>2. s[n + k] = Set(Acc, Scratch) \/ s[n + k] = Call("KeyboardHandlerM")
    BY <1>3, <2>1 DEF IrqIs
  <2> QED
    BY <1>5, <2>1, <2>2 DEF Set, Call
<1>8. CASE i > n + w /\ i <= (n + w) + n
  <2>1. PICK k \in 1 .. n : i = (n + w) + k
    <3>1. n \in Int /\ w \in Int /\ i \in Int
      BY <1>4
    <3>2. i - (n + w) \in 1 .. n /\ i = (n + w) + (i - (n + w))
      BY <1>8, <3>1
    <3> QED
      BY <3>2
  <2>2. s[(n + w) + k] = Pop(Saves(v)[n + 1 - k])
    BY <1>3, <2>1 DEF IrqIs
  <2> QED
    BY <1>5, <2>1, <2>2 DEF Pop
<1>9. CASE i > (n + w) + n
  <2>1. i = ((n + w) + n) + 1
    BY <1>4, <1>9
  <2>2. s[((n + w) + n) + 1] = Iret
    BY <1>3 DEF IrqIs
  <2> QED
    BY <1>5, <2>1, <2>2 DEF Iret
<1> QED
  BY <1>4, <1>6, <1>7, <1>8, <1>9

LEMMA StubsAligned ==
  StubsInv => ExceptionCallsAligned
<1> SUFFICES ASSUME StubsInv, bits = 64, Running, Instr.op = "call", Instr.fun = "CPUExceptionHandler"
             PROVE  Top % 16 = 0
  BY DEF ExceptionCallsAligned, CallsAligned, Execute
<1>1. StubsTypeOK /\ FrameKept
  BY DEF StubsInv
<1>2. ~Halted
  BY OnlyInterruptible
<1>3. ~Interruptible
  <2>1. Interruptible => Instr = Cli
    BY BeforeCli
  <2> QED
    BY <2>1 DEF Cli
<1>4. ~Interrupted
  BY <1>1, IrqsCallKeyboard DEF Interrupted
<1>5. ~Faulted
  BY DEF Faulted
<1>6. Trapped
  BY <1>2, <1>3, <1>4, <1>5 DEF StubsInv
<1>7. raised \in Vectors64 \ IRQs
  BY <1>6 DEF Trapped, Gates, Gates64
<1>8. PICK i \in 2 .. (IF raised \in ErrorVectors THEN 61 ELSE 59) : TrappedAt(i)
  BY <1>6 DEF Trapped
<1>9. InTrap(i)
  BY <1>1, <1>7, <1>8 DEF InTrap
<1>10. i \in 46 .. 61
  <2> SUFFICES ASSUME i \notin 46 .. 61
               PROVE  FALSE
    OBVIOUS
  <2>1. i \in 2 .. 60 /\ i < 59
    BY <1>8
  <2> QED
    BY <1>9, <2>1, TrapsCallOnce DEF NoCall
<1>11. Top = Area64
  <2>1. regs["rsp"] = Stack(TrapTop(i)) /\ TrapTop(i) = Area64
    BY <1>1, <1>8, <1>10, TrapTops DEF TrappedAt
  <2> QED
    BY <2>1, Names DEF Top, Stack
<1>12. Base % 16 = 0 /\ Base \in Int /\ Area64 = Base - 272
  BY <1>1, Bases
<1> QED
  BY <1>11, <1>12

-----------------------------------------------------------------------------
(* From the boot loader to the halt.                                       *)
LEMMA StubsKeep ==
  StubsInv /\ [Next]_vars => StubsInv'
<1> SUFFICES ASSUME StubsInv, [Next]_vars
             PROVE  StubsInv'
  OBVIOUS
<1>1. ASSUME UNCHANGED stubVars PROVE StubsInv'
  BY <1>1, StubsStutter
<1>2. ASSUME StubStep PROVE StubsInv'
  BY <1>2, StubStepPreserves
<1>3. ASSUME NEW v, Interrupt(v) PROVE StubsInv'
  BY <1>3, InterruptPreserves
<1>4. ASSUME NEW v, Raise(v) PROVE StubsInv'
  BY <1>4, RaisePreserves
<1>5. CASE Boot
  BY <1>1, <1>5 DEF Boot
<1>6. CASE Handle
  BY <1>2, <1>6 DEF Handle
<1>7. CASE TakeInterrupt
  BY <1>3, <1>7 DEF TakeInterrupt
<1>8. CASE Except
  BY <1>4, <1>8 DEF Except
<1>9. CASE UseNull
  BY <1>1, <1>4, <1>9 DEF UseNull
<1>10. CASE UNCHANGED vars
  BY <1>1, <1>10 DEF vars
<1> QED
  BY <1>5, <1>6, <1>7, <1>8, <1>9, <1>10 DEF Next

(* The inductive invariant: the tables the loader writes, and at every     *)
(* instruction of every stub what it has saved and where, what it has left *)
(* alone, and what the dump shows once it has been printed.                *)
THEOREM StartupInvariant == Spec => []IInv
<1>1. Init => StubsInv
  <2> SUFFICES ASSUME Init
               PROVE  StubsInv
    OBVIOUS
  <2> DEFINE b == IF build = "pm32" THEN 32 ELSE 64
  <2>1. b \in {32, 64} /\ StubsInit(b)
    BY DEF Init
  <2> HIDE DEF b
  <2> QED
    BY <2>1, StubsBegin
<1>2. Spec => []StubsInv
  BY <1>1, StubsKeep, PTL DEF Spec
<1>3. Spec => [](nullUsed \in BOOLEAN)
  <2>1. Init => nullUsed \in BOOLEAN
    BY DEF Init
  <2>2. nullUsed \in BOOLEAN /\ [Next]_vars => (nullUsed \in BOOLEAN)'
    BY DEF Next, vars, Boot, Handle, TakeInterrupt, Except, UseNull
  <2> QED
    BY <2>1, <2>2, PTL DEF Spec
<1>4. LoaderInv /\ StubsInv /\ nullUsed \in BOOLEAN => IInv
  BY DEF IInv, TypeOK, LoaderInv, StubsInv
<1> QED
  BY <1>2, <1>3, <1>4, LoaderInvariant, PTL

(* When a handler has returned, the program goes on with every register    *)
(* and every word of its stack as they were, whatever C code and however   *)
(* many interrupts came in between (KeyboardHandler, SystemTimerHandler    *)
(* and TimerHandler).                                                      *)
THEOREM ProgramResumesAlways == Spec => []ProgramResumes
<1>1. IInv => ProgramResumes
  BY StubsResume DEF IInv
<1> QED
  BY <1>1, StartupInvariant, PTL

(* trap and traperr call CPUExceptionHandler with a stack aligned to 16    *)
(* bytes, whatever the program's stack pointer was: the padding of pushall *)
(* makes up for the error code.                                            *)
THEOREM ExceptionCallsAlignedAlways == Spec => []ExceptionCallsAligned
<1>1. IInv => ExceptionCallsAligned
  BY StubsAligned DEF IInv
<1> QED
  BY <1>1, StartupInvariant, PTL

(* The registers and the stack printed are those of the program at the     *)
(* fault, but for the registers a stub mistakes (pushall, savisf, savregs  *)
(* and DumpCPURegisters agree on struct cpu_reg).                          *)
THEOREM DumpShowsFaultAlways == Spec => []DumpShowsFault
<1>1. IInv => DumpShowsFault
  BY DEF IInv, StubsInv, DumpKept
<1> QED
  BY <1>1, StartupInvariant, PTL

(* The message names the exception that was raised and its error code: the *)
(* gates, the macros' vectors and the choice between trap and traperr      *)
(* agree with what the CPU pushes.                                         *)
THEOREM PanicNamesExceptionAlways == Spec => []PanicNamesException
<1>1. IInv => PanicNamesException
  BY DEF IInv, StubsInv, DumpKept
<1> QED
  BY <1>1, StartupInvariant, PTL
==============================================================================

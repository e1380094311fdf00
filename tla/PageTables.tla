----------------------------- MODULE PageTables -----------------------------
(***************************************************************************)
(* What the boot loaders do between the BIOS and the C program: the long   *)
(* mode builds (os/lm64/src/boot.asm, os/vga/src/boot.asm and              *)
(* os/vesa/src/stage1.asm) write page tables and turn paging on, pm32      *)
(* (os/pm32/src/boot.asm) only enters protected mode.                      *)
(*                                                                         *)
(* Memory is counted in page table entries (eight bytes); EntriesPerTable  *)
(* of them fill a page, whose number is its frame.  An entry is its low    *)
(* doubleword (frame and present bit) and its high doubleword, which the   *)
(* code writes separately or not at all.  The 512 entries and the eight    *)
(* page tables of the code are the constants EntriesPerTable and Tables.   *)
(***************************************************************************)
EXTENDS Integers

CONSTANTS EntriesPerTable, \* 512: entries of eight bytes in a page
          Tables,          \* 8: page tables of the identity map
          PML4T,           \* frame of the page map, the other two tables follow
          PT,              \* frame of the first page table
          FBPT,            \* vesa: frame of the frame buffer's first table
          ApicPT,          \* lm64: frame of the APIC's page table
          ApicFrame,       \* frame of the local APIC's registers
          FrameBuffer,     \* first frame of the display's memory
          PowerOn          \* the entries memory may hold before the loader

PDPT == PML4T + 1
PDT  == PML4T + 2

Size      == Tables * EntriesPerTable      \* pages identity mapped: 4096
FbTable   == Tables                        \* PDT index of the frame buffer: 8
ApicTable == 2 * Tables                    \* PDT index of the APIC's table: 16

Addr(frame, i) == frame * EntriesPerTable + i

Frames  == PML4T .. ApicPT
Address == Addr(PML4T, 0) .. Addr(ApicPT, EntriesPerTable - 1)
Empty   == [frame |-> 0, present |-> FALSE, high |-> 0]

\* The tables lie one after the other and the directory has room for all.
ASSUME TablesAssumption ==
    /\ EntriesPerTable \in Nat /\ Tables \in Nat \ {0}
    /\ 2 * Tables < EntriesPerTable
    /\ PML4T \in Nat /\ PT \in Nat /\ FBPT \in Nat /\ ApicPT \in Nat
    /\ PML4T + 2 < PT /\ PT + Tables <= FBPT /\ FBPT + Tables <= ApicPT
    /\ ApicFrame \in Nat /\ FrameBuffer \in Nat
    /\ PowerOn \subseteq [frame : Nat, present : BOOLEAN, high : Nat]

LongModeBuilds == {"lm64", "vga", "vesa"}
Builds == LongModeBuilds \cup {"pm32"}

VARIABLES build,   \* the image that was started
          before,  \* what memory held when the machine was switched on
          at,      \* the part of the loader that runs
          mem,     \* the entries, by address
          edi,     \* the entry the loop writes next
          edx,     \* the frame it writes there
          ecx,     \* iterations left
          paging   \* CR0.PG
loaderVars == <<build, before, at, mem, edi, edx, ecx, paging>>

LoaderInit ==
    /\ build \in Builds
    /\ before \in PowerOn
    /\ at = "start"
    /\ mem = [a \in Address |-> before]
    /\ edi = 0 /\ edx = 0 /\ ecx = 0
    /\ paging = FALSE

\* mov [di], edx: only the low doubleword; with mov [di+4], ebx both.
Low(m, a, frame)  == [m EXCEPT ![a].frame = frame, ![a].present = TRUE]
Both(m, a, frame) ==
    [m EXCEPT ![a] = [frame |-> frame, present |-> TRUE, high |-> 0]]

Loop(next, count) == at' = next /\ ecx' = count

\* _load_program and the A20 line, then _init_page_tables: rep stosd clears
\* three pages, and the first entries of two of them are set.
ClearTables ==
    /\ at = "start" /\ build \in LongModeBuilds
    /\ mem' = [a \in Address |->
                 IF a \in Addr(PML4T, 0) .. Addr(PDT, EntriesPerTable - 1)
                 THEN Empty ELSE mem[a]]
    /\ at' = "link"
    /\ UNCHANGED <<build, before, edi, edx, ecx, paging>>

LinkTables ==
    /\ at = "link"
    /\ mem' = Low(Low(mem, Addr(PML4T, 0), PDPT), Addr(PDPT, 0), PDT)
    /\ edi' = Addr(PDT, 0)
    /\ edx' = PT
    /\ Loop("pdt", Tables)
    /\ UNCHANGED <<build, before, paging>>

\* Mutant of LinkPageTable: edx is not reset to the first page.
LinkPageTableNoReset ==
    /\ at = "pdt"
    /\ mem' = IF build = "vesa" THEN Both(mem, edi, edx) ELSE Low(mem, edi, edx)
    /\ edx' = edx + 1
    /\ IF ecx > 1
       THEN edi' = edi + 1 /\ Loop("pdt", ecx - 1)
       ELSE edi' = Addr(PT, 0) /\ Loop("fillpt", Size)
    /\ UNCHANGED <<build, before, paging>>

\* An iteration of .pdt: vesa writes the high doubleword too.
LinkPageTable ==
    /\ at = "pdt"
    /\ mem' = IF build = "vesa" THEN Both(mem, edi, edx) ELSE Low(mem, edi, edx)
    /\ IF ecx > 1
       THEN /\ edi' = edi + 1
            /\ edx' = edx + 1
            /\ Loop("pdt", ecx - 1)
       ELSE /\ edi' = Addr(PT, 0)
            /\ edx' = 0
            /\ Loop("fillpt", Size)
    /\ UNCHANGED <<build, before, paging>>

\* An iteration of .fillpt: no build writes the high doublewords here.
FillPage ==
    /\ at = "fillpt"
    /\ mem' = Low(mem, edi, edx)
    /\ edi' = edi + 1
    /\ edx' = edx + 1
    /\ IF ecx > 1
       THEN Loop("fillpt", ecx - 1)
       ELSE Loop(CASE build = "lm64" -> "apic"
                   [] build = "vesa" -> "framebuffer"
                   [] OTHER -> "unmap", 0)
    /\ UNCHANGED <<build, before, paging>>

\* lm64: one directory entry and one page table entry, low doublewords only.
MapApic ==
    /\ at = "apic"
    /\ mem' = Low(Low(mem, Addr(PDT, ApicTable), ApicPT),
                  Addr(ApicPT, 0), ApicFrame)
    /\ at' = "unmap"
    /\ UNCHANGED <<build, before, edi, edx, ecx, paging>>

\* vesa: _init_fb_page_tables, which reads the buffer's address from the BIOS.
InitFrameBuffer ==
    /\ at = "framebuffer"
    /\ edi' = Addr(FBPT, 0)
    /\ edx' = FrameBuffer
    /\ Loop("fillfb", Size)
    /\ UNCHANGED <<build, before, mem, paging>>

FillFrameBuffer ==
    /\ at = "fillfb"
    /\ mem' = Both(mem, edi, edx)
    /\ IF ecx > 1
       THEN /\ edi' = edi + 1
            /\ edx' = edx + 1
            /\ Loop("fillfb", ecx - 1)
       ELSE /\ edi' = Addr(PDT, FbTable)
            /\ edx' = FBPT
            /\ Loop("pdtfb", Tables)
    /\ UNCHANGED <<build, before, paging>>

LinkFrameBuffer ==
    /\ at = "pdtfb"
    /\ mem' = Low(mem, edi, edx)
    /\ edi' = edi + 1
    /\ edx' = edx + 1
    /\ IF ecx > 1 THEN Loop("pdtfb", ecx - 1) ELSE Loop("unmap", 0)
    /\ UNCHANGED <<build, before, paging>>

\* Mutant of UnmapFirst: the page stays mapped.
UnmapFirstNot ==
    /\ at = "unmap"
    /\ at' = "mode"
    /\ UNCHANGED <<build, before, mem, edi, edx, ecx, paging>>

\* After the copy of the GDT: the first page is taken out of the map.
UnmapFirst ==
    /\ at = "unmap"
    /\ mem' = [mem EXCEPT ![Addr(PT, 0)] = Empty]
    /\ at' = "mode"
    /\ UNCHANGED <<build, before, edi, edx, ecx, paging>>

\* stlgmd: the next instruction is fetched through the tables.
EnterLongMode ==
    /\ at = "mode"
    /\ paging' = TRUE
    /\ at' = "start64"
    /\ UNCHANGED <<build, before, mem, edi, edx, ecx>>

\* The far jump, the segment registers, the stack, the call of the C program.
Start64 ==
    /\ at = "start64"
    /\ at' = "program"
    /\ UNCHANGED <<build, before, mem, edi, edx, ecx, paging>>

\* pm32's loader: its protected mode has no paging.
EnterProtectedMode ==
    /\ at = "start" /\ build = "pm32"
    /\ at' = "program"
    /\ UNCHANGED <<build, before, mem, edi, edx, ecx, paging>>

LoaderStep ==
    \/ ClearTables \/ LinkTables \/ LinkPageTable \/ FillPage
    \/ MapApic \/ InitFrameBuffer \/ FillFrameBuffer \/ LinkFrameBuffer
    \/ UnmapFirst \/ EnterLongMode \/ Start64 \/ EnterProtectedMode

(***************************************************************************)
(* What the CPU makes of the tables.  A virtual page of the first          *)
(* directory is looked up in the page map, the pointer table, the          *)
(* directory and a page table; an entry with something in its high         *)
(* doubleword leads to memory the program never meant.                     *)
(***************************************************************************)
NoPage == [kind |-> "none", frame |-> 0]
Wild   == [kind |-> "wild", frame |-> 0]
Page(frame) == [kind |-> "page", frame |-> frame]

Lookup(table, i) ==
    IF table.kind # "page" THEN table
    ELSE IF table.frame \notin Frames THEN Wild
    ELSE LET e == mem[Addr(table.frame, i)] IN
         IF ~e.present THEN NoPage
         ELSE IF e.high # 0 THEN Wild ELSE Page(e.frame)

VirtualPages == 0 .. Addr(EntriesPerTable, 0) - 1

Translate(v) ==
    Lookup(Lookup(Lookup(Lookup(Page(PML4T), 0), 0), v \div EntriesPerTable),
           v % EntriesPerTable)

\* The virtual memory the comments in the loaders and the memory maps in the
\* READMEs of the builds describe.
Meant(v) ==
    IF v \in 1 .. Size - 1 THEN Page(v)
    ELSE IF build = "lm64" /\ v = Addr(ApicTable, 0) THEN Page(ApicFrame)
    ELSE IF build = "vesa" /\ v \in Addr(FbTable, 0) .. Addr(FbTable, Size - 1)
    THEN Page(FrameBuffer + v - Addr(FbTable, 0))
    ELSE NoPage

LoaderTypeOK ==
    /\ build \in Builds
    /\ before \in PowerOn
    /\ at \in {"start", "link", "pdt", "fillpt", "apic", "framebuffer",
               "fillfb", "pdtfb", "unmap", "mode", "start64", "program"}
    /\ mem \in [Address -> [frame : Nat, present : BOOLEAN, high : Nat]]
    /\ edi \in Nat /\ edx \in Nat /\ ecx \in Nat
    /\ paging \in BOOLEAN

\* From the moment paging is on, every virtual page of the first gigabyte
\* leads where the memory map says, and to nothing where it says nothing:
\* the next instruction, the program, its stack and the tables are found
\* (_init_page_tables, _init_fb_page_tables and the lines of _start after).
\* The loaders write half of most entries and rely on memory that was zero;
\* the frame buffer's window and the missing first page do not, as both halves
\* of their entries are written.
MapIsMeant ==
    paging =>
      /\ before = Empty => \A v \in VirtualPages : Translate(v) = Meant(v)
      /\ Translate(0) = NoPage
      /\ build = "vesa" =>
           \A v \in Addr(FbTable, 0) .. Addr(FbTable, Size - 1) :
             Translate(v) = Meant(v)

(***************************************************************************)
(* Why: how far the loops have come, and what each table holds then.       *)
(***************************************************************************)
Linked == CASE at \in {"start", "link"} -> 0 [] at = "pdt" -> Tables - ecx
            [] OTHER -> Tables

Filled == CASE at \in {"start", "link", "pdt"} -> 0 [] at = "fillpt" -> Size - ecx
            [] OTHER -> Size

Early == at \in {"start", "link", "pdt", "fillpt", "framebuffer"}

FbFilled == CASE build # "vesa" \/ Early -> 0 [] at = "fillfb" -> Size - ecx
              [] OTHER -> Size

FbLinked == CASE build # "vesa" \/ Early \/ at = "fillfb" -> 0
              [] at = "pdtfb" -> Tables - ecx
              [] OTHER -> Tables

ApicMapped == build = "lm64" /\ ~Early /\ at # "apic"
FirstGone  == at \in {"mode", "start64", "program"}

\* Where a loop is, it goes on.
RegistersOK ==
    /\ at = "pdt" =>
         ecx \in 1 .. Tables /\ edi = Addr(PDT, Linked) /\ edx = PT + Linked
    /\ at = "fillpt" =>
         ecx \in 1 .. Size /\ edi = Addr(PT, Filled) /\ edx = Filled
    /\ at = "fillfb" =>
         ecx \in 1 .. Size /\ edi = Addr(FBPT, FbFilled) /\ edx = FrameBuffer + FbFilled
    /\ at = "pdtfb" =>
         /\ ecx \in 1 .. Tables
         /\ edi = Addr(PDT, FbTable + FbLinked) /\ edx = FBPT + FbLinked

\* The builds part after the first page tables.
PathOK ==
    /\ build = "pm32" => at \in {"start", "program"} /\ ~paging
    /\ at = "apic" => build = "lm64"
    /\ at \in {"framebuffer", "fillfb", "pdtfb"} => build = "vesa"
    /\ paging => at \in {"start64", "program"}

Entry(frame)    == [frame |-> frame, present |-> TRUE, high |-> 0]
LowEntry(frame) == [frame |-> frame, present |-> TRUE, high |-> before.high]

Directory(i) ==
    IF i < Linked THEN Entry(PT + i)
    ELSE IF i \in FbTable .. FbTable + FbLinked - 1 THEN Entry(FBPT + (i - FbTable))
    ELSE IF i = ApicTable /\ ApicMapped THEN Entry(ApicPT)
    ELSE Empty

RootOK ==
    /\ mem[Addr(PML4T, 0)] = IF at = "link" THEN Empty ELSE Entry(PDPT)
    /\ mem[Addr(PDPT, 0)] = IF at = "link" THEN Empty ELSE Entry(PDT)
DirectoryOK ==
    \A i \in 0 .. EntriesPerTable - 1 : mem[Addr(PDT, i)] = Directory(i)
PagesOK ==
    \A i \in 0 .. Size - 1 : mem[Addr(PT, i)] =
        IF i = 0 /\ FirstGone THEN Empty ELSE IF i < Filled THEN LowEntry(i) ELSE before
FrameBufferOK ==
    \A i \in 0 .. Size - 1 : mem[Addr(FBPT, i)] =
        IF i < FbFilled THEN Entry(FrameBuffer + i) ELSE before
ApicOK ==
    \A i \in 0 .. EntriesPerTable - 1 : mem[Addr(ApicPT, i)] =
        IF i = 0 /\ ApicMapped THEN LowEntry(ApicFrame) ELSE before

TablesOK ==
    build \in LongModeBuilds =>
      /\ at = "start" => mem = [a \in Address |-> before]
      /\ at # "start" =>
           RootOK /\ DirectoryOK /\ PagesOK /\ FrameBufferOK /\ ApicOK

LoaderInv == LoaderTypeOK /\ RegistersOK /\ PathOK /\ TablesOK
=============================================================================

-------------------------------- MODULE Heap --------------------------------
(***************************************************************************)
(* The allocator of libc/stdlib.c: malloc, free, morecore, brk and sbrk.   *)
(*                                                                         *)
(* Memory is counted in units of sizeof(Header).  The free list is the     *)
(* circular list through the next fields, anchored at the static header    *)
(* "base", a block of size 0.  Each loop iteration of malloc and of free   *)
(* is one step, so the walks of the list are part of the behaviour; the C  *)
(* locals are variables, and are NULL or 0 when no call is under way.      *)
(*                                                                         *)
(* A next field is NULL where no list link is stored: in the model the     *)
(* allocator clears the field of a header it takes off the list, where the *)
(* C code leaves a value it never reads again.                             *)
(***************************************************************************)
EXTENDS Integers

CONSTANTS
  HDR,         \* sizeof(Header) in bytes
  SizeMod,     \* 2^w, w the width of size_t
  NALLOC,      \* the least number of units morecore() asks for
  HeapStart,   \* the unit main() passes to brk()
  MaxBreak,    \* bound of the model: the program break stays at or below it
  Requests     \* the byte counts the program passes to malloc()

NULL == 0
base == 1      \* the unit &base, below the heap

(* Mutant of Nunits: the bytes are not rounded up.                         *)
NunitsNoRounding(nbytes) == 1 + nbytes \div HDR

(* Units that the request for nbytes needs, computed in size_t.            *)
Nunits(nbytes) == 1 + ((nbytes + HDR - 1) % SizeMod) \div HDR

(* Mutant of GrowBy: a large request grows the heap by NALLOC too.         *)
GrowByFixed(n) == NALLOC

(* The units morecore() asks sbrk() for.                                   *)
GrowBy(n) == IF n < NALLOC THEN NALLOC ELSE n

ASSUME HeapAssumption ==
  /\ HDR \in Nat \ {0}
  /\ SizeMod \in Nat \ {0}
  /\ NALLOC \in Nat \ {0}
  /\ HeapStart \in Nat
  /\ MaxBreak \in Nat
  /\ MaxBreak >= HeapStart
  /\ Requests \subseteq Nat
  /\ HeapStart > base
  /\ \A nb \in Requests : GrowBy(Nunits(nb)) < HeapStart

(* The computation of Nunits does not overflow size_t.                     *)
NoSizeWrap == \A nb \in Requests : nb + HDR - 1 < SizeMod

HeapUnits == HeapStart .. MaxBreak
Addr == {base} \cup HeapUnits

VARIABLES
  program_break, \* end of the data segment; NULL until brk() or sbrk()
  freeptr,       \* where the next search starts; NULL before the first malloc
  nxt,           \* the header's next field at each address
  size,          \* the header's size field at each address
  live,          \* blocks the program owns (address of their header)
  asked,         \* the bytes the program asked for when it got each block
  pc,            \* which loop runs: "idle", "scan" (malloc), "free", "grow"
  nbytes,        \* malloc: argument
  nunits,        \* malloc: units needed
  prevptr,       \* malloc: the block before currptr
  currptr,       \* malloc: the block looked at
  insertp,       \* free: the block to insert
  currp          \* free: the block looked at

mem == <<nxt, size>>
client == <<live, asked>>
locals == <<nbytes, nunits, prevptr, currptr, insertp, currp>>
vars == <<program_break, freeptr, mem, client, pc, locals>>

(* The blocks on the free list, the anchor included.                       *)
FreeBlocks == {a \in Addr : nxt[a] # NULL}

Init ==
  /\ program_break = NULL
  /\ freeptr = NULL
  /\ nxt = [a \in Addr |-> NULL]
  /\ size = [a \in Addr |-> 0]
  /\ live = {}
  /\ asked = [a \in Addr |-> 0]
  /\ pc = "idle"
  /\ nbytes = 0 /\ nunits = 0
  /\ prevptr = NULL /\ currptr = NULL
  /\ insertp = NULL /\ currp = NULL

(* The call returns: its locals go out of scope.                           *)
Return ==
  /\ pc' = "idle"
  /\ nbytes' = 0 /\ nunits' = 0
  /\ prevptr' = NULL /\ currptr' = NULL
  /\ insertp' = NULL /\ currp' = NULL

(***************************************************************************)
(* brk() from main, once, before any block is handed out.                  *)
(***************************************************************************)
Brk ==
  /\ pc = "idle"
  /\ program_break < HeapStart
  /\ program_break' = HeapStart
  /\ UNCHANGED <<freeptr, mem, client, pc, locals>>

(***************************************************************************)
(* Bound: the program asks only for what a free block holds or what the    *)
(* break, growing, reaches within MaxBreak; and a program whose first call *)
(* came before brk() and got NULL calls brk() before it tries again.       *)
(***************************************************************************)
MayAsk(nb) ==
  \/ program_break = NULL
  \/ /\ program_break >= HeapStart
     /\ \/ program_break + GrowBy(Nunits(nb)) <= MaxBreak
        \/ \E b \in FreeBlocks : size[b] >= Nunits(nb)

(* malloc() up to its loop: size in units, the empty list if there is      *)
(* none, and the two pointers of the search.                               *)
Malloc(nb) ==
  /\ pc = "idle"
  /\ MayAsk(nb)
  /\ pc' = "scan"
  /\ nbytes' = nb
  /\ nunits' = Nunits(nb)
  /\ IF freeptr = NULL
       THEN /\ nxt' = [nxt EXCEPT ![base] = base]
            /\ size' = [size EXCEPT ![base] = 0]
            /\ freeptr' = base
            /\ prevptr' = base
            /\ currptr' = base
       ELSE /\ prevptr' = freeptr
            /\ currptr' = nxt[freeptr]
            /\ UNCHANGED <<mem, freeptr>>
  /\ UNCHANGED <<program_break, client, insertp, currp>>

(* Mutant of MallocExact: freeptr is left on the block handed out.         *)
MallocExactKeepsPtr ==
  /\ pc = "scan"
  /\ size[currptr] = nunits
  /\ nxt' = [nxt EXCEPT ![prevptr] = nxt[currptr], ![currptr] = NULL]
  /\ freeptr' = currptr
  /\ live' = live \cup {currptr}
  /\ asked' = [asked EXCEPT ![currptr] = nbytes]
  /\ Return
  /\ UNCHANGED <<program_break, size>>

(* The block is exactly the size needed: unlink and return it.             *)
MallocExact ==
  /\ pc = "scan"
  /\ size[currptr] = nunits
  /\ nxt' = [nxt EXCEPT ![prevptr] = nxt[currptr], ![currptr] = NULL]
  /\ freeptr' = prevptr
  /\ live' = live \cup {currptr}
  /\ asked' = [asked EXCEPT ![currptr] = nbytes]
  /\ Return
  /\ UNCHANGED <<program_break, size>>

(* Mutant of MallocSplit: the block keeps its size after the cut.          *)
MallocSplitKeepsSize ==
  LET tail == currptr + (size[currptr] - nunits) IN
  /\ pc = "scan"
  /\ size[currptr] > nunits
  /\ size' = [size EXCEPT ![tail] = nunits]
  /\ freeptr' = prevptr
  /\ live' = live \cup {tail}
  /\ asked' = [asked EXCEPT ![tail] = nbytes]
  /\ Return
  /\ UNCHANGED <<program_break, nxt>>

(* The block is larger: cut the tail off it and return the tail.           *)
MallocSplit ==
  LET rest == size[currptr] - nunits
      tail == currptr + rest
  IN
  /\ pc = "scan"
  /\ size[currptr] > nunits
  /\ size' = [size EXCEPT ![currptr] = rest, ![tail] = nunits]
  /\ freeptr' = prevptr
  /\ live' = live \cup {tail}
  /\ asked' = [asked EXCEPT ![tail] = nbytes]
  /\ Return
  /\ UNCHANGED <<program_break, nxt>>

(* The block is too small and the search has not come round: go on.        *)
MallocNext ==
  /\ pc = "scan"
  /\ size[currptr] < nunits
  /\ currptr # freeptr
  /\ prevptr' = currptr
  /\ currptr' = nxt[currptr]
  /\ UNCHANGED <<program_break, freeptr, mem, client, pc>>
  /\ UNCHANGED <<nbytes, nunits, insertp, currp>>

(* Mutant of MallocGrow: the search ends at the anchor, not where it began.*)
MallocGrowAtBase ==
  /\ pc = "scan"
  /\ size[currptr] < nunits
  /\ currptr = base
  /\ program_break # NULL
  /\ program_break' = program_break + GrowBy(nunits)
  /\ size' = [size EXCEPT ![program_break] = GrowBy(nunits)]
  /\ insertp' = program_break
  /\ currp' = freeptr
  /\ pc' = "grow"
  /\ UNCHANGED <<freeptr, nxt, client, nbytes, nunits, prevptr, currptr>>

(* The search came round: morecore() moves the break and makes a block of  *)
(* the new memory, which it gives to free().                               *)
MallocGrow ==
  /\ pc = "scan"
  /\ size[currptr] < nunits
  /\ currptr = freeptr
  /\ program_break # NULL
  /\ program_break' = program_break + GrowBy(nunits)
  /\ size' = [size EXCEPT ![program_break] = GrowBy(nunits)]
  /\ insertp' = program_break
  /\ currp' = freeptr
  /\ pc' = "grow"
  /\ UNCHANGED <<freeptr, nxt, client, nbytes, nunits, prevptr, currptr>>

(* The search came round but brk() was never called: sbrk() returns NULL,  *)
(* having moved the break all the same, and malloc() returns NULL.         *)
MallocNull ==
  /\ pc = "scan"
  /\ size[currptr] < nunits
  /\ currptr = freeptr
  /\ program_break = NULL
  /\ program_break' = GrowBy(nunits)
  /\ Return
  /\ UNCHANGED <<freeptr, mem, client>>

(***************************************************************************)
(* free() of a block the program owns.                                     *)
(***************************************************************************)
Free(p) ==
  /\ pc = "idle"
  /\ p \in live
  /\ live' = live \ {p}
  /\ asked' = [asked EXCEPT ![p] = 0]
  /\ insertp' = p
  /\ currp' = freeptr
  /\ pc' = "free"
  /\ UNCHANGED <<program_break, freeptr, mem>>
  /\ UNCHANGED <<nbytes, nunits, prevptr, currptr>>

(* Mutants of PlaceFound: the ends of the arena are not recognised; the    *)
(* first block below the inserted one is taken for its predecessor.        *)
PlaceFoundInside == currp < insertp /\ insertp < nxt[currp]
PlaceFoundAnyBelow == currp < insertp

(* The place is found: between two blocks, or at an end of the arena.      *)
PlaceFound ==
  \/ currp < insertp /\ insertp < nxt[currp]
  \/ currp >= nxt[currp] /\ (currp < insertp \/ insertp < nxt[currp])

FreeWalk ==
  /\ pc \in {"free", "grow"}
  /\ ~PlaceFound
  /\ currp' = nxt[currp]
  /\ UNCHANGED <<program_break, freeptr, mem, client, pc>>
  /\ UNCHANGED <<nbytes, nunits, prevptr, currptr, insertp>>

(* Mutants of JoinsUpper and JoinsLower: the neighbour is never joined.    *)
JoinsUpperNever == FALSE
JoinsLowerNever == FALSE

(* The inserted block ends where its successor begins, or begins where its *)
(* predecessor ends.                                                       *)
JoinsUpper == insertp + size[insertp] = nxt[currp]
JoinsLower == currp + size[currp] = insertp

(* The next and size fields of the inserted block after the first if/else. *)
InsertNext == IF JoinsUpper THEN nxt[nxt[currp]] ELSE nxt[currp]
InsertSize == size[insertp] + (IF JoinsUpper THEN size[nxt[currp]] ELSE 0)

(* The two if/else pairs that link the block in, or merge it with one      *)
(* neighbour or both.  A header that is absorbed is no header any more.    *)
LinkIn ==
  LET absorbed == (IF JoinsUpper THEN {nxt[currp]} ELSE {})
                    \cup (IF JoinsLower THEN {insertp} ELSE {})
      linked == IF JoinsLower
                  THEN [nxt EXCEPT ![currp] = InsertNext]
                  ELSE [nxt EXCEPT ![insertp] = InsertNext, ![currp] = insertp]
      sized == IF JoinsLower
                 THEN [size EXCEPT ![currp] = @ + InsertSize]
                 ELSE [size EXCEPT ![insertp] = InsertSize]
  IN
  /\ nxt' = [a \in Addr |-> IF a \in absorbed THEN NULL ELSE linked[a]]
  /\ size' = [a \in Addr |-> IF a \in absorbed THEN 0 ELSE sized[a]]

(* free() links the block in and returns to the program.                   *)
FreeInsert ==
  /\ pc = "free"
  /\ PlaceFound
  /\ LinkIn
  /\ freeptr' = currp
  /\ Return
  /\ UNCHANGED <<program_break, client>>

(* free() links the block in and returns to morecore(), which returns      *)
(* freeptr; malloc()'s loop goes on with the block after it.               *)
GrowInsert ==
  /\ pc = "grow"
  /\ PlaceFound
  /\ LinkIn
  /\ freeptr' = currp
  /\ prevptr' = currp
  /\ currptr' = nxt'[currp]
  /\ pc' = "scan"
  /\ insertp' = NULL /\ currp' = NULL
  /\ UNCHANGED <<program_break, client, nbytes, nunits>>

(* The CPU runs the call that is under way.                                *)
Step ==
  \/ MallocExact \/ MallocSplit \/ MallocNext \/ MallocGrow \/ MallocNull
  \/ FreeWalk \/ FreeInsert \/ GrowInsert

(* The program makes a call.                                               *)
Call ==
  \/ Brk
  \/ \E nb \in Requests : Malloc(nb)
  \/ \E p \in live : Free(p)

Next == Step \/ Call

Spec == Init /\ [][Next]_vars /\ WF_vars(Step)

-----------------------------------------------------------------------------
(* The value of every variable is one the code can store there.  The break *)
(* is NULL, or what an sbrk() before brk() left, or in the heap.           *)
TypeOK ==
  /\ program_break \in 0 .. MaxBreak
  /\ freeptr \in Addr \cup {NULL}
  /\ nxt \in [Addr -> Addr \cup {NULL}]
  /\ size \in [Addr -> Nat]
  /\ live \subseteq HeapUnits
  /\ asked \in [Addr -> Nat]
  /\ pc \in {"idle", "scan", "free", "grow"}
  /\ nbytes \in Nat
  /\ nunits \in Nat
  /\ prevptr \in Addr \cup {NULL}
  /\ currptr \in Addr \cup {NULL}
  /\ insertp \in HeapUnits \cup {NULL}
  /\ currp \in Addr \cup {NULL}

(* b follows a when the list is in address order and closes at its anchor. *)
InOrder(a, b) ==
  \/ a < b /\ \A c \in FreeBlocks : c <= a \/ b <= c
  \/ b = base /\ \A c \in FreeBlocks : c <= a

(* Whatever malloc() and free() did, the free list is one circle through   *)
(* all its blocks in address order, and every pointer a walk starts or     *)
(* continues from is on it, which is what both loops rest on.              *)
FreeListOrdered ==
  /\ \A a \in FreeBlocks : nxt[a] \in FreeBlocks /\ InOrder(a, nxt[a])
  /\ freeptr # NULL => base \in FreeBlocks
  /\ {freeptr, prevptr, currptr, currp} \subseteq FreeBlocks \cup {NULL}
  /\ prevptr # NULL => nxt[prevptr] = currptr

(* The blocks the heap consists of: on the free list, owned by the         *)
(* program, or on the way to the free list.                                *)
Blocks == (FreeBlocks \ {base}) \cup live \cup ({insertp} \ {NULL})

Within(u, b) == b <= u /\ u < b + size[b]

(* Every unit between the start of the heap and the break is in exactly    *)
(* one block: free() and malloc() neither lose memory nor hand it out      *)
(* twice, through every split and merge.                                   *)
HeapTiled ==
  /\ \A a, b \in Blocks : a < b => a + size[a] <= b
  /\ \A b \in Blocks : size[b] > 0 /\ b + size[b] <= program_break
  /\ \A u \in HeapStart .. program_break - 1 : \E b \in Blocks : Within(u, b)

(* No free block ends where another begins: free() joined it to both its   *)
(* neighbours, so a free run of memory is one block.                       *)
Coalesced == \A b \in FreeBlocks \ {base} : b + size[b] \notin FreeBlocks

(* A block handed out has room for the bytes asked for behind its header   *)
(* (the comment on nunits in malloc()).                                    *)
PayloadFits == \A b \in live : (size[b] - 1) * HDR >= asked[b]

(* The break moves only when no free block could have served the request:  *)
(* the search from freeptr round to freeptr misses no block.               *)
GrowOnlyWhenExhausted ==
  [][MallocGrow => \A b \in FreeBlocks : size[b] < nunits]_vars

(* morecore() is called at most once for a request.  After it the search   *)
(* finds the new memory, also when free() merged it into its neighbour.    *)
GrowsOnce ==
  [][GrowInsert => \E b \in FreeBlocks' : size'[b] >= nunits]_vars

(* Every call returns: neither walk goes round the list for ever.          *)
CallReturns == pc # "idle" ~> pc = "idle"

(* The promise of malloc() and free(), without the list.                   *)
OwnedBlocks == {[at |-> b, len |-> size[b]] : b \in live}
Pending == IF pc \in {"scan", "grow"} THEN nbytes ELSE -1

Abs == INSTANCE AbstractHeap WITH
  blocks <- OwnedBlocks,
  want <- Pending,
  top <- program_break

(* The allocator implements it: a request is served from free memory, the  *)
(* break moves only when no run of free memory would do, and NULL is       *)
(* returned only while there is no heap.                                   *)
AbsSpec == Abs!Spec
=============================================================================

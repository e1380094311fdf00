----------------------------- MODULE HeapProofs -----------------------------
(***************************************************************************)
(* Proofs about the allocator of Heap, for every size of header, least     *)
(* growth, start and bound of the heap, and set of requests.               *)
(*                                                                         *)
(* IInv is inductive: the list is in address order and closed, the blocks  *)
(* tile the heap, no two free blocks touch, and, while malloc() searches,  *)
(* every block between freeptr and currptr is known to be too small.       *)
(***************************************************************************)
EXTENDS Heap, TLAPS

-----------------------------------------------------------------------------
(* Which locals mean something in which loop.                              *)
LocalsOK ==
  /\ pc = "idle" => nbytes = 0 /\ nunits = 0
  /\ pc \in {"idle", "free"} => prevptr = NULL /\ currptr = NULL
  /\ pc \in {"idle", "scan"} => insertp = NULL /\ currp = NULL
  /\ pc \in {"scan", "grow"} =>
       /\ nbytes \in Requests
       /\ nunits = Nunits(nbytes)
       /\ prevptr \in FreeBlocks
       /\ currptr \in FreeBlocks
       /\ nxt[prevptr] = currptr
  /\ pc \in {"free", "grow"} => insertp \in HeapUnits /\ currp \in FreeBlocks

(* The list exists once malloc() has been called, and starts at the anchor,*)
(* an empty block; a block is on the list, owned or being inserted.        *)
ListOK ==
  /\ freeptr = NULL => FreeBlocks = {} /\ live = {} /\ pc = "idle"
  /\ freeptr # NULL => freeptr \in FreeBlocks /\ base \in FreeBlocks
  /\ size[base] = 0
  /\ live \cap FreeBlocks = {}
  /\ insertp \notin live \cup FreeBlocks
  /\ \A a \in FreeBlocks : nxt[a] \in FreeBlocks /\ InOrder(a, nxt[a])

(* Below HeapStart there is no heap yet.  A call that begins then begins   *)
(* with the break NULL.                                                    *)
NoHeapYet ==
  program_break < HeapStart =>
    /\ FreeBlocks \subseteq {base}
    /\ live = {}
    /\ insertp = NULL
    /\ pc # "idle" => pc = "scan" /\ program_break = NULL

(* f lies after freeptr and before currptr on the circle.                  *)
Visited(f) ==
  IF freeptr < currptr THEN freeptr < f /\ f < currptr
                       ELSE freeptr < f \/ f < currptr

(* What the search knows: the blocks it passed are too small, and the      *)
(* request can be served below the bound.                                  *)
SearchOK ==
  /\ pc = "scan" =>
       /\ \A f \in FreeBlocks : Visited(f) => size[f] < nunits
       /\ \/ program_break = NULL
          \/ program_break + GrowBy(nunits) <= MaxBreak
          \/ \E f \in FreeBlocks : size[f] >= nunits
  /\ pc = "grow" => size[insertp] >= nunits

(* The inductive invariant.                                                *)
IInv ==
  /\ TypeOK
  /\ LocalsOK
  /\ ListOK
  /\ NoHeapYet
  /\ HeapTiled
  /\ Coalesced
  /\ SearchOK

-----------------------------------------------------------------------------
(* A request needs at least its header.                                    *)
LEMMA NunitsPositive ==
  ASSUME NEW nb \in Requests
  PROVE  Nunits(nb) \in Nat \ {0}
<1>1. (nb + HDR - 1) % SizeMod \in Nat
  BY HeapAssumption
<1>2. ((nb + HDR - 1) % SizeMod) \div HDR \in Nat
  BY <1>1, HeapAssumption
<1> QED
  BY <1>2 DEF Nunits

(* morecore() asks for at least the units needed.                          *)
LEMMA GrowByEnough ==
  ASSUME NEW n \in Nat
  PROVE  GrowBy(n) \in Nat \ {0} /\ GrowBy(n) >= n
  BY HeapAssumption DEF GrowBy

LEMMA AddrFacts ==
  /\ HeapUnits \subseteq Nat
  /\ Addr \subseteq Nat
  /\ HeapUnits \subseteq Addr
  /\ base \in Addr
  /\ base \notin HeapUnits
  /\ NULL \notin Addr
  /\ \A a \in Addr : a >= base
  /\ \A a \in Addr : a = base \/ a \in HeapUnits
  BY HeapAssumption DEF HeapUnits, Addr, base, NULL

LEMMA InitIInv == Init => IInv
<1> SUFFICES ASSUME Init PROVE IInv
  OBVIOUS
<1> USE AddrFacts, HeapAssumption
<1>1. FreeBlocks = {} /\ Blocks = {}
  BY DEF Init, FreeBlocks, Blocks
<1>2. TypeOK
  BY DEF Init, TypeOK, NULL
<1>3. LocalsOK /\ ListOK /\ NoHeapYet /\ SearchOK /\ Coalesced
  BY <1>1 DEF Init, LocalsOK, ListOK, NoHeapYet, SearchOK, Coalesced, NULL
<1>4. HeapTiled
  BY <1>1 DEF Init, HeapTiled, NULL
<1> QED
  BY <1>2, <1>3, <1>4 DEF IInv

(* A step that leaves the memory and who owns it alone leaves the heap in  *)
(* order.                                                                  *)
LEMMA SameHeap ==
  ASSUME HeapTiled, Coalesced,
         UNCHANGED <<program_break, mem, live, insertp>>
  PROVE  HeapTiled' /\ Coalesced' /\ FreeBlocks' = FreeBlocks /\ Blocks' = Blocks
<1>1. FreeBlocks' = FreeBlocks
  BY DEF FreeBlocks, mem
<1>2. Blocks' = Blocks
  BY <1>1 DEF Blocks
<1>3. \A u, b : Within(u, b)' <=> Within(u, b)
  BY DEF Within, mem
<1>4. HeapTiled'
  BY <1>2, <1>3 DEF HeapTiled, mem
<1> QED
  BY <1>1, <1>2, <1>4 DEF Coalesced, mem

LEMMA MallocNextIInv == ASSUME IInv, MallocNext PROVE IInv'
<1> USE AddrFacts DEF IInv, MallocNext, mem, client
<1>1. HeapTiled' /\ Coalesced' /\ FreeBlocks' = FreeBlocks /\ Blocks' = Blocks
  BY SameHeap
<1>2. /\ currptr \in FreeBlocks /\ nxt[currptr] \in FreeBlocks
      /\ InOrder(currptr, nxt[currptr])
      /\ freeptr \in FreeBlocks
  BY DEF LocalsOK, ListOK
<1>3. FreeBlocks \subseteq Addr
  BY DEF FreeBlocks
<1>4. TypeOK'
  BY <1>2, <1>3 DEF TypeOK
<1>5. LocalsOK'
  BY <1>1, <1>2 DEF LocalsOK
<1>6. ListOK'
  BY <1>1 DEF ListOK, InOrder
<1>7. NoHeapYet'
  BY <1>1 DEF NoHeapYet
<1>8. SearchOK'
  <2>1. ASSUME NEW f \in FreeBlocks, Visited(f)' PROVE Visited(f) \/ f = currptr
    <3>1. /\ f \in Nat /\ currptr \in Nat /\ freeptr \in Nat /\ nxt[currptr] \in Nat
          /\ f >= base /\ freeptr # currptr
      BY <1>2, <1>3
    <3>2. \/ currptr < nxt[currptr] /\ (f <= currptr \/ nxt[currptr] <= f)
             /\ (freeptr <= currptr \/ nxt[currptr] <= freeptr)
          \/ nxt[currptr] = base /\ f <= currptr /\ freeptr <= currptr
      BY <1>2 DEF InOrder
    <3>3. IF freeptr < nxt[currptr] THEN freeptr < f /\ f < nxt[currptr]
                                    ELSE freeptr < f \/ f < nxt[currptr]
      BY <2>1 DEF Visited
    <3> HIDE DEF IInv, MallocNext
    <3> QED
      BY <3>1, <3>2, <3>3 DEF Visited
  <2>2. \A f \in FreeBlocks : Visited(f)' => size[f] < nunits
    BY <2>1 DEF SearchOK
  <2> QED
    BY <1>1, <2>2 DEF SearchOK
<1> QED
  BY <1>1, <1>4, <1>5, <1>6, <1>7, <1>8

LEMMA FreeWalkIInv == ASSUME IInv, FreeWalk PROVE IInv'
<1> USE AddrFacts DEF IInv, FreeWalk, mem, client
<1>1. HeapTiled' /\ Coalesced' /\ FreeBlocks' = FreeBlocks /\ Blocks' = Blocks
  BY SameHeap
<1>2. currp \in FreeBlocks /\ nxt[currp] \in FreeBlocks
  BY DEF LocalsOK, ListOK
<1>3. FreeBlocks \subseteq Addr
  BY DEF FreeBlocks
<1>4. TypeOK'
  BY <1>2, <1>3 DEF TypeOK
<1>5. LocalsOK'
  BY <1>1, <1>2 DEF LocalsOK
<1>6. ListOK'
  BY <1>1 DEF ListOK, InOrder
<1>7. NoHeapYet'
  BY <1>1 DEF NoHeapYet
<1>8. SearchOK'
  BY <1>1 DEF SearchOK
<1> QED
  BY <1>1, <1>4, <1>5, <1>6, <1>7, <1>8

LEMMA BrkIInv == ASSUME IInv, Brk PROVE IInv'
<1> USE AddrFacts, HeapAssumption DEF IInv, Brk, mem, client, locals
<1>1. FreeBlocks' = FreeBlocks /\ Blocks' = Blocks
  BY DEF FreeBlocks, Blocks
<1>2. Blocks = {}
  BY DEF NoHeapYet, Blocks
<1>3. TypeOK' /\ LocalsOK'
  BY <1>1 DEF TypeOK, LocalsOK
<1>4. ListOK'
  BY <1>1 DEF ListOK, InOrder
<1>5. NoHeapYet' /\ Coalesced' /\ SearchOK'
  BY <1>1 DEF NoHeapYet, Coalesced, SearchOK, TypeOK
<1>6. HeapTiled'
  BY <1>1, <1>2 DEF HeapTiled
<1> QED
  BY <1>3, <1>4, <1>5, <1>6

LEMMA MallocIInv == ASSUME IInv, NEW nb \in Requests, Malloc(nb) PROVE IInv'
<1> USE AddrFacts, HeapAssumption DEF IInv
<1>0. Nunits(nb) \in Nat \ {0} /\ GrowBy(Nunits(nb)) \in Nat \ {0}
  BY NunitsPositive, GrowByEnough
<1>1. CASE freeptr = NULL
  <2> USE <1>1 DEF Malloc
  <2>1. FreeBlocks = {} /\ pc = "idle" /\ insertp = NULL
    BY DEF ListOK, LocalsOK
  <2>2. nxt' = [nxt EXCEPT ![base] = base] /\ FreeBlocks' = {base} /\ size' = size
    <3>1. \A a \in Addr : nxt[a] = NULL
      BY <2>1 DEF FreeBlocks
    <3>2. nxt' = [nxt EXCEPT ![base] = base] /\ size' = [size EXCEPT ![base] = 0]
      OBVIOUS
    <3>3. size' = size
      BY <3>2 DEF TypeOK, ListOK
    <3>4. \A a \in Addr : nxt'[a] = IF a = base THEN base ELSE NULL
      BY <3>1, <3>2 DEF TypeOK
    <3>5. base # NULL
      BY DEF base, NULL
    <3>6. FreeBlocks' = {base}
      BY <3>4, <3>5 DEF FreeBlocks
    <3> QED
      BY <3>2, <3>3, <3>6
  <2>3. TypeOK'
    BY <2>2, <1>0 DEF TypeOK, client
  <2>4. LocalsOK'
    BY <2>1, <2>2 DEF LocalsOK, TypeOK
  <2>5. ListOK'
    BY <2>1, <2>2 DEF ListOK, TypeOK, InOrder, client
  <2>6. MayAsk(nb)
    OBVIOUS
  <2>7. NoHeapYet'
    BY <2>1, <2>2, <2>6 DEF NoHeapYet, MayAsk, client, TypeOK
  <2>8. Blocks' = Blocks
    BY <2>1, <2>2 DEF Blocks, client
  <2>9. HeapTiled' /\ Coalesced'
    BY <2>1, <2>2, <2>8 DEF HeapTiled, Coalesced, Within
  <2>10. SearchOK'
    BY <2>1, <2>2, <2>6 DEF SearchOK, Visited, MayAsk, NULL
  <2> QED
    BY <2>3, <2>4, <2>5, <2>7, <2>9, <2>10
<1>2. CASE freeptr # NULL
  <2> USE <1>2 DEF Malloc
  <2>1. UNCHANGED <<program_break, mem, live, insertp, currp, freeptr>>
    BY DEF client
  <2>2. HeapTiled' /\ Coalesced' /\ FreeBlocks' = FreeBlocks /\ Blocks' = Blocks
    BY <2>1, SameHeap DEF mem
  <2>3. /\ freeptr \in FreeBlocks /\ nxt[freeptr] \in FreeBlocks
        /\ InOrder(freeptr, nxt[freeptr]) /\ FreeBlocks \subseteq Addr
        /\ insertp = NULL /\ currp = NULL
    BY DEF ListOK, FreeBlocks, LocalsOK
  <2>4. TypeOK'
    BY <2>1, <2>3, <1>0 DEF TypeOK, mem, client
  <2>5. LocalsOK'
    BY <2>1, <2>2, <2>3 DEF LocalsOK, mem
  <2>6. ListOK'
    BY <2>1, <2>2 DEF ListOK, InOrder, mem
  <2>7. MayAsk(nb)
    OBVIOUS
  <2>8. NoHeapYet'
    BY <2>1, <2>2, <2>3, <2>7 DEF NoHeapYet, MayAsk, TypeOK
  <2>9. \A f \in FreeBlocks : ~Visited(f)'
    <3>1. /\ \A f \in FreeBlocks : f \in Nat /\ f >= base
          /\ freeptr \in Nat /\ nxt[freeptr] \in Nat
          /\ freeptr' = freeptr /\ currptr' = nxt[freeptr]
      BY <2>1, <2>3
    <3> HIDE DEF IInv, Malloc
    <3> QED
      BY <2>3, <3>1 DEF Visited, InOrder
  <2>10. SearchOK'
    BY <2>1, <2>2, <2>7, <2>9 DEF SearchOK, MayAsk, mem
  <2> QED
    BY <2>2, <2>4, <2>5, <2>6, <2>8, <2>10
<1> QED
  BY <1>1, <1>2

LEMMA FreeIInv == ASSUME IInv, NEW p \in live, Free(p) PROVE IInv'
<1> USE AddrFacts DEF IInv, Free, mem
<1>1. FreeBlocks' = FreeBlocks
  BY DEF FreeBlocks
<1>2. p \in HeapUnits /\ insertp = NULL
  BY DEF TypeOK, LocalsOK
<1>3. Blocks' = Blocks
  BY <1>1, <1>2 DEF Blocks, NULL
<1>4. freeptr # NULL /\ freeptr \in FreeBlocks /\ FreeBlocks \subseteq Addr
  <2>1. freeptr # NULL
    BY DEF ListOK
  <2> QED
    BY <2>1 DEF ListOK, FreeBlocks
<1>5. TypeOK' /\ LocalsOK'
  BY <1>1, <1>2, <1>4 DEF TypeOK, LocalsOK
<1>6. ListOK'
  BY <1>1, <1>2, <1>4 DEF ListOK, InOrder
<1>7. NoHeapYet' /\ Coalesced' /\ SearchOK'
  BY <1>1 DEF NoHeapYet, Coalesced, SearchOK
<1>8. HeapTiled'
  BY <1>3 DEF HeapTiled, Within
<1> QED
  BY <1>5, <1>6, <1>7, <1>8

LEMMA MallocNullIInv == ASSUME IInv, MallocNull PROVE IInv'
<1> USE AddrFacts, HeapAssumption DEF IInv, MallocNull, mem, client, Return
<1>1. FreeBlocks' = FreeBlocks /\ insertp = NULL /\ currp = NULL
  BY DEF FreeBlocks, LocalsOK
<1>2. Blocks' = Blocks /\ Blocks = {}
  BY <1>1 DEF Blocks, NoHeapYet, NULL
<1>3. nunits = Nunits(nbytes) /\ nbytes \in Requests
  BY DEF LocalsOK
<1>4. program_break' \in Nat \ {0} /\ program_break' < HeapStart
  BY <1>3, NunitsPositive, GrowByEnough
<1>5. TypeOK' /\ LocalsOK'
  BY <1>1, <1>4 DEF TypeOK, LocalsOK
<1>6. ListOK'
  BY <1>1 DEF ListOK, InOrder
<1>7. NoHeapYet' /\ Coalesced' /\ SearchOK'
  BY <1>1 DEF NoHeapYet, Coalesced, SearchOK, NULL
<1>8. HeapTiled'
  BY <1>2, <1>4 DEF HeapTiled
<1> QED
  BY <1>5, <1>6, <1>7, <1>8

(* The exact-fit block leaves the list and belongs to the program.         *)
LEMMA MallocExactIInv == ASSUME IInv, MallocExact PROVE IInv'
<1> USE AddrFacts DEF IInv
<1> DEFINE p == prevptr  c == currptr
<1>1. /\ p \in FreeBlocks /\ c \in FreeBlocks /\ nxt[p] = c /\ base \in FreeBlocks
      /\ freeptr \in FreeBlocks
      /\ nxt[c] \in FreeBlocks /\ InOrder(c, nxt[c]) /\ InOrder(p, c)
      /\ FreeBlocks \subseteq Addr /\ insertp = NULL /\ currp = NULL
      /\ nbytes \in Requests /\ nunits = Nunits(nbytes) /\ nunits \in Nat \ {0}
  BY NunitsPositive DEF MallocExact, LocalsOK, ListOK, FreeBlocks, NULL
<1>2. size[c] = nunits /\ c # base /\ c \in HeapUnits
  BY <1>1 DEF MallocExact, ListOK
<1>3. p # c
  BY <1>1, <1>2 DEF InOrder
<1>4. \A a \in Addr : nxt'[a] = IF a = c THEN NULL ELSE IF a = p THEN nxt[c] ELSE nxt[a]
  BY <1>1, <1>3 DEF MallocExact, TypeOK
<1>5. /\ size' = size /\ live' = live \cup {c} /\ freeptr' = p
      /\ program_break' = program_break /\ asked' = [asked EXCEPT ![c] = nbytes]
      /\ pc' = "idle" /\ nbytes' = 0 /\ nunits' = 0 /\ prevptr' = NULL
      /\ currptr' = NULL /\ insertp' = NULL /\ currp' = NULL
  BY DEF MallocExact, Return
<1>6. FreeBlocks' = FreeBlocks \ {c}
  BY <1>1, <1>3, <1>4 DEF FreeBlocks
<1>7. Blocks' = Blocks
  BY <1>1, <1>2, <1>5, <1>6 DEF Blocks
<1>8. TypeOK'
  <2>1. nxt' \in [Addr -> Addr \cup {NULL}]
    BY <1>1 DEF MallocExact, TypeOK
  <2>2. asked' \in [Addr -> Nat]
    BY <1>1, <1>5, HeapAssumption DEF TypeOK
  <2> QED
    BY <1>1, <1>2, <1>5, <2>1, <2>2 DEF TypeOK
<1>9. LocalsOK'
  BY <1>5 DEF LocalsOK
<1>10. ListOK'
  <2>1. ASSUME NEW a \in FreeBlocks'
        PROVE  nxt'[a] \in FreeBlocks' /\ InOrder(a, nxt[a])'
    <3>1. a \in FreeBlocks /\ a # c /\ a \in Addr
      BY <1>1, <1>6
    <3>2. nxt[a] \in FreeBlocks /\ InOrder(a, nxt[a])
      BY <3>1 DEF ListOK
    <3>3. CASE a = p
      <4>1. nxt'[a] = nxt[c] /\ nxt[c] # c
        BY <1>1, <1>2, <1>4, <3>1, <3>3 DEF InOrder
      <4>2. FreeBlocks \subseteq Nat /\ p \in Nat /\ c \in Nat /\ nxt[c] \in Nat
        BY <1>1
      <4> HIDE DEF IInv
      <4>3. p < c /\ \A f \in FreeBlocks : f <= p \/ c <= f
        BY <1>1, <1>2 DEF InOrder
      <4>4. \/ c < nxt[c] /\ \A f \in FreeBlocks : f <= c \/ nxt[c] <= f
            \/ nxt[c] = base /\ \A f \in FreeBlocks : f <= c
        BY <1>1 DEF InOrder
      <4>5. \A f \in FreeBlocks \ {c} : f <= c => f <= p
        BY <4>2, <4>3
      <4>6. CASE c < nxt[c] /\ \A f \in FreeBlocks : f <= c \/ nxt[c] <= f
        <5>1. p < nxt[c] /\ \A f \in FreeBlocks \ {c} : f <= p \/ nxt[c] <= f
          BY <4>2, <4>3, <4>5, <4>6
        <5> QED
          BY <1>1, <1>6, <3>3, <4>1, <5>1 DEF InOrder
      <4>7. CASE nxt[c] = base /\ \A f \in FreeBlocks : f <= c
        <5>1. \A f \in FreeBlocks \ {c} : f <= p
          BY <4>5, <4>7
        <5> QED
          BY <1>1, <1>6, <3>3, <4>1, <4>7, <5>1 DEF InOrder
      <4> QED
        BY <4>4, <4>6, <4>7
    <3>4. CASE a # p
      <4>1. nxt'[a] = nxt[a]
        BY <1>4, <3>1, <3>4
      <4>2. nxt[a] # c
        <5>1. a \in Nat /\ p \in Nat /\ c \in Nat
          BY <1>1, <3>1
        <5> HIDE DEF IInv
        <5> QED
          BY <1>1, <1>2, <3>1, <3>2, <3>4, <5>1 DEF InOrder
      <4> QED
        BY <1>6, <3>2, <4>1, <4>2 DEF InOrder
    <3> QED
      BY <3>3, <3>4
  <2> QED
    BY <1>1, <1>2, <1>3, <1>5, <1>6, <2>1 DEF ListOK, TypeOK
<1>11. NoHeapYet' /\ SearchOK'
  BY <1>1, <1>2, <1>5, <1>6 DEF NoHeapYet, SearchOK
<1>12. HeapTiled' /\ Coalesced'
  BY <1>5, <1>6, <1>7 DEF HeapTiled, Coalesced, Within
<1> QED
  BY <1>8, <1>9, <1>10, <1>11, <1>12

(* The tail of a larger block belongs to the program; its head stays.      *)
LEMMA MallocSplitIInv == ASSUME IInv, MallocSplit PROVE IInv'
<1> USE AddrFacts DEF IInv
<1> DEFINE c == currptr
           rest == size[c] - nunits
           tail == c + rest
<1>1. /\ prevptr \in FreeBlocks /\ c \in FreeBlocks /\ base \in FreeBlocks
      /\ freeptr \in FreeBlocks
      /\ FreeBlocks \subseteq Addr /\ insertp = NULL /\ currp = NULL
      /\ nbytes \in Requests /\ nunits = Nunits(nbytes) /\ nunits \in Nat \ {0}
  BY NunitsPositive DEF MallocSplit, LocalsOK, ListOK, FreeBlocks, NULL
<1>2. /\ size[c] > nunits /\ c # base /\ c \in HeapUnits /\ c \in Blocks
      /\ rest \in Nat \ {0} /\ tail \in Nat /\ c < tail /\ size[c] \in Nat
      /\ tail + nunits = c + size[c]
  BY <1>1 DEF MallocSplit, ListOK, Blocks, TypeOK
<1>3. tail \in HeapUnits /\ tail \notin Blocks /\ tail \notin FreeBlocks
  <2>1. c + size[c] <= program_break /\ program_break <= MaxBreak
    BY <1>2 DEF HeapTiled, TypeOK
  <2>2. tail \in HeapUnits
    BY <1>1, <1>2, <2>1, HeapAssumption DEF HeapUnits, TypeOK
  <2>3. tail \notin Blocks
    BY <1>1, <1>2 DEF HeapTiled
  <2> QED
    BY <2>2, <2>3 DEF Blocks
<1>4. \A a \in Addr : size'[a] = IF a = tail THEN nunits ELSE IF a = c THEN rest ELSE size[a]
  BY <1>1, <1>2, <1>3 DEF MallocSplit, TypeOK
<1>5. /\ nxt' = nxt /\ live' = live \cup {tail} /\ freeptr' = prevptr
      /\ program_break' = program_break /\ asked' = [asked EXCEPT ![tail] = nbytes]
      /\ pc' = "idle" /\ nbytes' = 0 /\ nunits' = 0 /\ prevptr' = NULL
      /\ currptr' = NULL /\ insertp' = NULL /\ currp' = NULL
  BY DEF MallocSplit, Return
<1>6. FreeBlocks' = FreeBlocks
  BY <1>5 DEF FreeBlocks
<1>7. Blocks' = Blocks \cup {tail} /\ Blocks \subseteq HeapUnits
  BY <1>1, <1>3, <1>5, <1>6 DEF Blocks, TypeOK
<1>8. TypeOK'
  <2>1. size' \in [Addr -> Nat]
    BY <1>1, <1>2 DEF MallocSplit, TypeOK
  <2>2. asked' \in [Addr -> Nat]
    BY <1>1, <1>5, HeapAssumption DEF TypeOK
  <2> QED
    BY <1>1, <1>3, <1>5, <2>1, <2>2 DEF TypeOK
<1>9. LocalsOK'
  BY <1>5 DEF LocalsOK
<1>10. ListOK'
  BY <1>1, <1>2, <1>3, <1>4, <1>5, <1>6 DEF ListOK, InOrder
<1>11. NoHeapYet' /\ SearchOK'
  BY <1>1, <1>2, <1>5, <1>6 DEF NoHeapYet, SearchOK
<1>12. HeapTiled'
  <2>1. ASSUME NEW a \in Blocks', NEW b \in Blocks', a < b
        PROVE  a + size'[a] <= b
    <3>1. a \in Addr /\ b \in Addr /\ size[a] \in Nat
      BY <1>3, <1>7 DEF TypeOK
    <3>2. (a \in Blocks /\ b \in Blocks) => a + size[a] <= b
      BY <2>1 DEF HeapTiled
    <3>3. (a \in Blocks /\ a # c) => (a < c /\ a + size[a] <= c) \/ c + size[c] <= a
      BY <1>2, <3>1 DEF HeapTiled
    <3>4. (b \in Blocks /\ b # c) => b < c \/ c + size[c] <= b
      BY <1>2, <3>1 DEF HeapTiled
    <3> HIDE DEF IInv
    <3> QED
      BY <1>1, <1>2, <1>3, <1>4, <1>7, <2>1, <3>1, <3>2, <3>3, <3>4
  <2>2. ASSUME NEW b \in Blocks'
        PROVE  size'[b] > 0 /\ b + size'[b] <= program_break'
    <3>1. b \in Addr /\ (b \in Blocks => size[b] > 0 /\ b + size[b] <= program_break)
      BY <1>3, <1>7 DEF HeapTiled
    <3>2. c + size[c] <= program_break /\ program_break \in Nat
      BY <1>2 DEF HeapTiled, TypeOK
    <3> HIDE DEF IInv
    <3> QED
      BY <1>1, <1>2, <1>4, <1>5, <1>7, <3>1, <3>2
  <2>3. ASSUME NEW u \in HeapStart .. program_break' - 1
        PROVE  \E b \in Blocks' : Within(u, b)'
    <3>1. PICK b \in Blocks : Within(u, b)
      BY <1>5 DEF HeapTiled
    <3>2. b \in Addr /\ tail \in Addr /\ c \in Addr /\ u \in Int /\ tail \in Blocks' /\ b \in Blocks'
      BY <1>1, <1>3, <1>5, <1>7, HeapAssumption DEF TypeOK
    <3> HIDE DEF IInv
    <3>3. CASE b = c /\ u >= tail
      <4>1. PICK t \in Addr : t = tail
        BY <3>2
      <4>2. Within(u, t)'
        BY <1>1, <1>2, <1>4, <3>1, <3>2, <3>3, <4>1 DEF Within
      <4> QED
        BY <3>2, <4>1, <4>2
    <3>4. CASE b = c /\ u < tail
      <4>1. Within(u, b)'
        BY <1>1, <1>2, <1>4, <3>1, <3>2, <3>4 DEF Within
      <4> QED
        BY <3>2, <4>1
    <3>5. CASE b # c
      <4>1. b # tail
        BY <1>3
      <4>2. Within(u, b)'
        BY <1>4, <3>1, <3>2, <3>5, <4>1 DEF Within
      <4> QED
        BY <3>2, <4>2
    <3> QED
      BY <1>2, <3>2, <3>3, <3>4, <3>5
  <2> QED
    BY <2>1, <2>2, <2>3 DEF HeapTiled
<1>13. Coalesced'
  BY <1>1, <1>2, <1>3, <1>4, <1>6 DEF Coalesced
<1> QED
  BY <1>8, <1>9, <1>10, <1>11, <1>12, <1>13

(* When the search has come round, every free block is too small.          *)
LEMMA SearchedAll ==
  ASSUME IInv, pc = "scan", size[currptr] < nunits, currptr = freeptr
  PROVE  \A f \in FreeBlocks : size[f] < nunits
<1>1. ASSUME NEW f \in FreeBlocks, f # currptr
      PROVE  Visited(f)
  <2>1. f \in Nat /\ currptr \in Nat
    BY AddrFacts DEF IInv, LocalsOK, FreeBlocks
  <2> QED
    BY <1>1, <2>1 DEF Visited
<1> QED
  BY <1>1 DEF IInv, SearchOK

(* The new memory is a block that starts where the heap ended.             *)
LEMMA MallocGrowIInv == ASSUME IInv, MallocGrow PROVE IInv'
<1> USE AddrFacts DEF IInv
<1>1. /\ insertp = NULL /\ currp = NULL /\ pc = "scan"
      /\ nbytes \in Requests /\ nunits = Nunits(nbytes) /\ nunits \in Nat \ {0}
      /\ GrowBy(nunits) \in Nat \ {0} /\ GrowBy(nunits) >= nunits
      /\ freeptr \in FreeBlocks /\ FreeBlocks \subseteq Addr
      /\ program_break \in Nat /\ program_break # NULL
  BY NunitsPositive, GrowByEnough DEF MallocGrow, LocalsOK, ListOK, FreeBlocks, NULL, TypeOK
<1>2. \A f \in FreeBlocks : size[f] < nunits
  BY SearchedAll DEF MallocGrow
<1>3. program_break >= HeapStart /\ program_break + GrowBy(nunits) <= MaxBreak
  <2>1. program_break >= HeapStart
    BY <1>1, HeapAssumption DEF NoHeapYet
  <2>2. \A f \in FreeBlocks : size[f] \in Nat
    BY <1>1 DEF TypeOK
  <2> QED
    BY <1>1, <1>2, <2>1, <2>2 DEF SearchOK
<1> PICK e \in HeapUnits : e = program_break
  BY <1>1, <1>3, HeapAssumption DEF HeapUnits
<1> DEFINE g == GrowBy(nunits)
<1>4. /\ \A a \in Addr : size'[a] = IF a = e THEN g ELSE size[a]
      /\ size' \in [Addr -> Nat]
      /\ program_break' = e + g /\ insertp' = e /\ currp' = freeptr /\ pc' = "grow"
      /\ freeptr' = freeptr /\ nxt' = nxt /\ live' = live /\ asked' = asked
      /\ nbytes' = nbytes /\ nunits' = nunits /\ prevptr' = prevptr /\ currptr' = currptr
  BY <1>1 DEF MallocGrow, TypeOK, client
<1>5. FreeBlocks' = FreeBlocks
  BY <1>4 DEF FreeBlocks
<1>6. Blocks' = Blocks \cup {e} /\ e \notin Blocks /\ Blocks \subseteq HeapUnits
  <2>1. Blocks \subseteq HeapUnits
    BY <1>1 DEF Blocks, TypeOK
  <2>2. e \notin Blocks
    BY <2>1 DEF HeapTiled, TypeOK
  <2> QED
    BY <1>1, <1>4, <1>5, <2>1, <2>2 DEF Blocks
<1>7. TypeOK'
  BY <1>1, <1>3, <1>4 DEF TypeOK
<1>8. LocalsOK'
  BY <1>1, <1>4, <1>5 DEF LocalsOK
<1>9. e \notin FreeBlocks /\ e \notin live
  BY <1>6 DEF Blocks
<1>10. ListOK'
  BY <1>1, <1>4, <1>5, <1>9 DEF ListOK, InOrder
<1>11. NoHeapYet' /\ SearchOK'
  BY <1>1, <1>3, <1>4, HeapAssumption DEF NoHeapYet, SearchOK
<1>12. HeapTiled'
  <2>1. \A b \in Blocks : b \in Addr /\ size[b] \in Nat /\ size[b] > 0 /\ b + size[b] <= e
    BY <1>6 DEF HeapTiled, TypeOK
  <2>2. \A a, b \in Blocks : a < b => a + size[a] <= b
    BY DEF HeapTiled
  <2>3. ASSUME NEW u \in HeapStart .. program_break' - 1
        PROVE  \E b \in Blocks' : Within(u, b)'
    <3>1. CASE u >= e
      BY <1>1, <1>3, <1>4, <1>6, <3>1, HeapAssumption DEF Within
    <3>2. CASE u < e
      <4>1. PICK b \in Blocks : Within(u, b)
        BY <1>1, <1>4, <3>2, HeapAssumption DEF HeapTiled
      <4> QED
        BY <1>4, <1>6, <2>1, <4>1 DEF Within
    <3> QED
      BY <1>1, <3>1, <3>2, HeapAssumption
  <2> HIDE DEF IInv
  <2>4. \A a, b \in Blocks' : a < b => a + size'[a] <= b
    BY <1>1, <1>4, <1>6, <2>1, <2>2
  <2>5. \A b \in Blocks' : size'[b] > 0 /\ b + size'[b] <= program_break'
    BY <1>1, <1>4, <1>6, <2>1
  <2> QED
    BY <2>3, <2>4, <2>5 DEF HeapTiled
<1>13. Coalesced'
  BY <1>1, <1>4, <1>5, <1>9 DEF Coalesced
<1> QED
  BY <1>7, <1>8, <1>10, <1>11, <1>12, <1>13

(* Where free()'s walk stops, the block belongs between currp and its      *)
(* successor.                                                              *)
LEMMA PlaceMeaning ==
  ASSUME IInv, pc \in {"free", "grow"}, PlaceFound
  PROVE  /\ insertp \in HeapUnits /\ insertp \notin FreeBlocks /\ insertp \notin live
         /\ currp \in FreeBlocks /\ nxt[currp] \in FreeBlocks /\ base \in FreeBlocks
         /\ FreeBlocks \subseteq Addr
         /\ currp < insertp
         /\ \A f \in FreeBlocks : f <= currp \/ insertp < f
         /\ \/ insertp < nxt[currp] /\ \A f \in FreeBlocks : f <= currp \/ nxt[currp] <= f
            \/ nxt[currp] = base /\ \A f \in FreeBlocks : f <= currp
<1> USE AddrFacts
<1>1. /\ insertp \in HeapUnits /\ insertp \notin FreeBlocks /\ insertp \notin live
      /\ currp \in FreeBlocks /\ nxt[currp] \in FreeBlocks /\ base \in FreeBlocks
      /\ InOrder(currp, nxt[currp]) /\ FreeBlocks \subseteq Addr
  BY DEF IInv, LocalsOK, ListOK, FreeBlocks
<1>2. insertp \in Nat /\ currp \in Nat /\ nxt[currp] \in Nat /\ insertp > base
  <2>1. insertp # base /\ insertp >= base
    BY <1>1
  <2>2. insertp \in Nat /\ currp \in Nat /\ nxt[currp] \in Nat /\ base \in Nat
    BY <1>1
  <2> QED
    BY <2>1, <2>2
<1>3. FreeBlocks \subseteq Nat
  BY <1>1
<1>4. \/ currp < nxt[currp] /\ \A f \in FreeBlocks : f <= currp \/ nxt[currp] <= f
      \/ nxt[currp] = base /\ \A f \in FreeBlocks : f <= currp
  BY <1>1 DEF InOrder
<1>5. CASE currp < nxt[currp]
  <2>1. currp < insertp /\ insertp < nxt[currp]
    BY <1>2, <1>5 DEF PlaceFound
  <2>2. \A f \in FreeBlocks : f <= currp \/ nxt[currp] <= f
    BY <1>2, <1>3, <1>4, <1>5, <1>1
  <2> QED
    BY <1>1, <1>2, <1>3, <2>1, <2>2
<1>6. CASE ~(currp < nxt[currp])
  <2>1. nxt[currp] = base /\ \A f \in FreeBlocks : f <= currp
    BY <1>4, <1>6
  <2>2. currp < insertp
    BY <1>1, <1>2, <2>1 DEF PlaceFound
  <2> QED
    BY <1>1, <2>1, <2>2
<1> QED
  BY <1>5, <1>6

(* What linking the block in does to the list and to the heap, in each of  *)
(* the four cases of joining a neighbour or not.                           *)
LEMMA LinkInHeap ==
  ASSUME IInv, pc \in {"free", "grow"}, PlaceFound, LinkIn,
         live' = live, program_break' = program_break, insertp' = NULL
  PROVE  /\ nxt' \in [Addr -> Addr \cup {NULL}]
         /\ size' \in [Addr -> Nat]
         /\ size'[base] = 0
         /\ currp \in FreeBlocks' /\ base \in FreeBlocks'
         /\ FreeBlocks' \subseteq FreeBlocks \cup {insertp}
         /\ \A a \in FreeBlocks' : nxt'[a] \in FreeBlocks' /\ InOrder(a, nxt[a])'
         /\ \E f \in FreeBlocks' : size'[f] >= size[insertp]
         /\ HeapTiled'
         /\ Coalesced'
<1> USE AddrFacts
<1> DEFINE F == FreeBlocks
<1>0. PICK c \in Addr, i \in HeapUnits, n \in Addr :
        c = currp /\ i = insertp /\ n = nxt[currp]
  BY PlaceMeaning
<1>1. /\ i \notin F /\ i \notin live /\ c \in F /\ n \in F /\ base \in F /\ F \subseteq Addr
      /\ nxt[c] = n /\ c < i
      /\ \A f \in F : f <= c \/ i < f
      /\ \/ i < n /\ \A f \in F : f <= c \/ n <= f
         \/ n = base /\ \A f \in F : f <= c
  BY <1>0, PlaceMeaning
<1>2. /\ nxt \in [Addr -> Addr \cup {NULL}] /\ size \in [Addr -> Nat] /\ size[base] = 0
      /\ program_break \in Nat /\ live \subseteq HeapUnits
      /\ \A a \in F : nxt[a] \in F /\ InOrder(a, nxt[a])
      /\ live \cap F = {}
  BY DEF IInv, TypeOK, ListOK
<1>3. /\ Blocks = (F \ {base}) \cup live \cup {i} /\ Blocks \subseteq HeapUnits
      /\ Blocks' = (FreeBlocks' \ {base}) \cup live
  BY <1>0, <1>1, <1>2 DEF Blocks, NULL
<1>4. /\ \A a, b \in Blocks : a < b => a + size[a] <= b
      /\ \A b \in Blocks : size[b] > 0 /\ b + size[b] <= program_break
      /\ \A u \in HeapStart .. program_break - 1 : \E b \in Blocks : Within(u, b)
      /\ \A b \in F \ {base} : b + size[b] \notin F
  BY DEF IInv, HeapTiled, Coalesced
<1> DEFINE up == i + size[i] = n
           lo == c + size[c] = i
           m == IF up THEN nxt[n] ELSE n
           len == size[i] + (IF up THEN size[n] ELSE 0)
<1>5. /\ JoinsUpper <=> up
      /\ JoinsLower <=> lo
      /\ InsertNext = m /\ InsertSize = len
  BY <1>0 DEF JoinsUpper, JoinsLower, InsertNext, InsertSize
<1>6. /\ c # i /\ i # n /\ i # base /\ (up => n # base /\ n # c /\ i < n /\ nxt[n] # n)
      /\ (lo => c # base) /\ len \in Nat /\ len >= size[i] /\ size[i] > 0
  <2>1. up => i < n
    BY <1>1, <1>2, <1>3, <1>4
  <2>2. i > base
    BY DEF base
  <2>3. lo => c # base
    BY <1>2, <2>2
  <2>4. up => n # base /\ n # c /\ nxt[n] # n
    BY <1>1, <1>2, <2>1, <2>2 DEF InOrder
  <2> QED
    BY <1>1, <1>2, <1>3, <1>4, <2>1, <2>2, <2>3, <2>4
<1>7. \A a \in Addr :
        nxt'[a] = IF (up /\ a = n) \/ (lo /\ a = i) THEN NULL
                  ELSE IF a = c THEN (IF lo THEN m ELSE i)
                  ELSE IF a = i THEN m ELSE nxt[a]
  BY <1>0, <1>1, <1>2, <1>5, <1>6 DEF LinkIn
<1>8. \A a \in Addr :
        size'[a] = IF (up /\ a = n) \/ (lo /\ a = i) THEN 0
                   ELSE IF lo /\ a = c THEN size[c] + len
                   ELSE IF a = i THEN len ELSE size[a]
  BY <1>0, <1>1, <1>2, <1>5, <1>6 DEF LinkIn
<1>9. m \in F /\ m # i /\ (up => m # n)
  BY <1>1, <1>2, <1>6
<1>10. FreeBlocks' = (F \ (IF up THEN {n} ELSE {})) \cup (IF lo THEN {} ELSE {i})
  <2>1. FreeBlocks' = {a \in Addr : nxt'[a] # NULL}
    BY DEF FreeBlocks
  <2>2. \A a \in Addr : a \in F <=> nxt[a] # NULL
    BY DEF FreeBlocks
  <2>3. ASSUME NEW a \in Addr
        PROVE  nxt'[a] # NULL <=> (a \in F /\ ~(up /\ a = n)) \/ (a = i /\ ~lo)
    <3>1. m # NULL /\ i # NULL /\ c # NULL
      BY <1>1, <1>9
    <3>2. (up => c # n) /\ c # i /\ i # n
      BY <1>6
    <3> HIDE DEF up, lo, m
    <3> QED
      BY <1>1, <1>7, <2>2, <3>1, <3>2
  <2>4. \A a \in FreeBlocks' : a \in Addr
    BY <2>1
  <2> HIDE DEF up, lo
  <2>5. \A a : a \in FreeBlocks' <=> (a \in F /\ ~(up /\ a = n)) \/ (a = i /\ ~lo)
    BY <1>1, <2>1, <2>3
  <2> QED
    BY <2>5
<1>11. nxt' \in [Addr -> Addr \cup {NULL}]
  <2>1. \A a \in Addr : nxt'[a] \in Addr \cup {NULL}
    BY <1>1, <1>2, <1>7, <1>9
  <2>2. nxt' = [a \in Addr |-> nxt'[a]]
    BY DEF LinkIn
  <2> QED
    BY <2>1, <2>2
<1>12. size' \in [Addr -> Nat]
  <2>1. \A a \in Addr : size'[a] \in Nat
    BY <1>2, <1>6, <1>8
  <2>2. size' = [a \in Addr |-> size'[a]]
    BY DEF LinkIn
  <2> QED
    BY <2>1, <2>2
<1>13. size'[base] = 0 /\ c \in FreeBlocks' /\ base \in FreeBlocks'
       /\ FreeBlocks' \subseteq F \cup {i}
  BY <1>1, <1>2, <1>6, <1>8, <1>10
<1>14. \E f \in FreeBlocks' : size'[f] >= size[i]
  <2>1. CASE lo
    BY <1>1, <1>2, <1>6, <1>8, <1>13, <2>1
  <2>2. CASE ~lo
    BY <1>1, <1>2, <1>6, <1>8, <1>10, <2>2
  <2> QED
    BY <2>1, <2>2
<1>15. ASSUME NEW a \in FreeBlocks'
       PROVE  nxt'[a] \in FreeBlocks' /\ InOrder(a, nxt[a])'
  <2>1. /\ a \in F \cup {i} /\ a \in Addr /\ (lo => a # i) /\ (up => a # n)
        /\ F \subseteq Nat /\ a \in Nat /\ c \in Nat /\ i \in Nat /\ n \in Nat /\ m \in Nat
    BY <1>1, <1>6, <1>9, <1>10
  <2>2. \A f \in FreeBlocks' : (f \in F /\ (up => f # n)) \/ (f = i /\ ~lo)
    BY <1>1, <1>10
  <2>3. \/ i < m /\ \A f \in F : f <= c \/ m <= f \/ (up /\ f = n)
        \/ m = base /\ \A f \in F : f <= c \/ (up /\ f = n)
    <3>1. CASE up
      <4>1. i < n /\ \A f \in F : f <= c \/ n <= f
        BY <1>1, <1>6, <3>1
      <4>2. \/ n < m /\ \A f \in F : f <= n \/ m <= f
            \/ m = base /\ \A f \in F : f <= n
        BY <1>1, <1>2, <3>1 DEF InOrder
      <4>3. \A f \in F : f <= n => f <= c \/ f = n
        BY <2>1, <4>1
      <4> QED
        BY <2>1, <3>1, <4>1, <4>2, <4>3
    <3>2. CASE ~up
      BY <1>1, <3>2
    <3> QED
      BY <3>1, <3>2
  <2>4. CASE a = c /\ ~lo
    <3>1. nxt'[a] = i /\ i \in FreeBlocks'
      BY <1>6, <1>7, <1>10, <2>1, <2>4
    <3>2. \A f \in FreeBlocks' : f <= c \/ i <= f
      BY <1>1, <2>1, <2>2
    <3> QED
      BY <1>1, <2>4, <3>1, <3>2 DEF InOrder
  <2>5. CASE (a = c /\ lo) \/ (a = i /\ ~lo)
    <3>1. nxt'[a] = m /\ m \in FreeBlocks'
      BY <1>6, <1>7, <1>9, <1>10, <2>1, <2>5
    <3>2. c <= a /\ a <= i /\ \A f \in FreeBlocks' : f <= c \/ f = i => f <= a
      BY <1>1, <2>1, <2>2, <2>5
    <3>3. \/ a < m /\ \A f \in FreeBlocks' : f <= a \/ m <= f
          \/ m = base /\ \A f \in FreeBlocks' : f <= a
      BY <2>1, <2>2, <2>3, <3>2
    <3> QED
      BY <3>1, <3>3 DEF InOrder
  <2>6. CASE a # c /\ a # i
    <3>1. nxt'[a] = nxt[a] /\ a \in F
      BY <1>7, <2>1, <2>6
    <3>2. nxt[a] \in F /\ InOrder(a, nxt[a]) /\ nxt[a] \in Nat
      BY <1>2, <2>1, <3>1
    <3>3. \/ a < nxt[a] /\ \A f \in F : f <= a \/ nxt[a] <= f
          \/ nxt[a] = base /\ \A f \in F : f <= a
      BY <3>2 DEF InOrder
    <3>4. up => nxt[a] # n
      BY <1>1, <1>6, <2>1, <2>6, <3>1, <3>3
    <3>5. nxt[a] \in FreeBlocks'
      BY <1>10, <3>2, <3>4
    <3>6. CASE a < nxt[a] /\ \A f \in F : f <= a \/ nxt[a] <= f
      <4>1. i <= a \/ nxt[a] <= i
        BY <1>1, <2>1, <2>6, <3>1, <3>2, <3>6
      <4>2. \A f \in FreeBlocks' : f <= a \/ nxt[a] <= f
        BY <2>2, <3>6, <4>1
      <4> QED
        BY <3>1, <3>5, <3>6, <4>2 DEF InOrder
    <3>7. CASE nxt[a] = base /\ \A f \in F : f <= a
      <4>1. i <= a
        BY <1>1, <2>1, <2>6, <3>1, <3>7
      <4>2. \A f \in FreeBlocks' : f <= a
        BY <2>2, <3>7, <4>1
      <4> QED
        BY <3>1, <3>5, <3>7, <4>2 DEF InOrder
    <3> QED
      BY <3>3, <3>6, <3>7
  <2> QED
    BY <2>1, <2>4, <2>5, <2>6
<1>16. HeapTiled'
  <2>1. /\ Blocks' = (Blocks \ (IF up THEN {n} ELSE {})) \ (IF lo THEN {i} ELSE {})
        /\ i \in Blocks /\ (up => n \in Blocks) /\ (lo => c \in Blocks)
        /\ \A b \in Blocks : b \in Addr /\ b \in Nat /\ size[b] \in Nat
        /\ c \in Nat /\ i \in Nat /\ n \in Nat /\ program_break \in Nat
    BY <1>1, <1>2, <1>3, <1>6, <1>10
  <2>2. \A b \in Blocks' :
          /\ b \in Blocks /\ (up => b # n) /\ (lo => b # i) /\ b \in Addr
          /\ size'[b] = IF lo /\ b = c THEN size[c] + len ELSE IF b = i THEN len ELSE size[b]
    BY <1>8, <2>1
  <2>3. lo => c + size[c] + len = i + len
    BY <1>2, <1>6, <2>1
  <2>4. /\ \A b \in Blocks : b > i => b >= i + size[i]
        /\ up => \A b \in Blocks : b > n => b >= n + size[n]
        /\ lo => \A b \in Blocks : b > c => b >= i
    BY <1>4, <2>1
  <2>5. i + len = IF up THEN n + size[n] ELSE i + size[i]
    BY <1>1, <1>2, <2>1
  <2>6. \A b \in Blocks : (b > i /\ (up => b # n)) => b >= i + len
    BY <1>6, <2>1, <2>4, <2>5
  <2>7. ASSUME NEW a \in Blocks', NEW b \in Blocks', a < b
        PROVE  a + size'[a] <= b
    <3>1. /\ a \in Blocks /\ b \in Blocks /\ a \in Nat /\ b \in Nat /\ (up => b # n) /\ (lo => b # i)
          /\ a + size[a] <= b
      BY <1>4, <2>1, <2>2, <2>7
    <3>2. CASE lo /\ a = c
      <4>1. b >= i + len /\ size'[a] = size[c] + len
        BY <2>1, <2>2, <2>4, <2>6, <2>7, <3>1, <3>2
      <4> QED
        BY <1>2, <1>6, <2>3, <3>1, <3>2, <4>1
    <3>3. CASE a = i /\ ~(lo /\ a = c)
      BY <1>6, <2>2, <2>6, <2>7, <3>1, <3>3
    <3>4. CASE a # i /\ ~(lo /\ a = c)
      BY <2>2, <3>1, <3>4
    <3> QED
      BY <3>2, <3>3, <3>4
  <2>8. i + len <= program_break
    BY <1>4, <2>1, <2>5
  <2>9. ASSUME NEW b \in Blocks'
        PROVE  size'[b] > 0 /\ b + size'[b] <= program_break
    <3>1. b \in Blocks /\ size[b] > 0 /\ b + size[b] <= program_break
      BY <1>4, <2>2
    <3> QED
      BY <1>2, <1>6, <2>1, <2>2, <2>3, <2>8, <3>1
  <2>10. ASSUME NEW u \in HeapStart .. program_break' - 1
         PROVE  \E b \in Blocks' : Within(u, b)'
    <3>1. PICK b \in Blocks : b <= u /\ u < b + size[b]
      BY <1>4, <2>10 DEF Within
    <3>2. u \in Int /\ b \in Nat /\ size[b] \in Nat /\ size[c] \in Nat /\ size[i] \in Nat /\ size[n] \in Nat
      BY <1>2, <2>1, HeapAssumption
    <3>3. CASE b \in {i, n} /\ (b = n => up)
      <4>1. i <= u /\ u < i + len
        BY <1>6, <2>1, <2>5, <3>1, <3>2, <3>3
      <4>2. CASE lo
        <5>1. c \in Blocks' /\ size'[c] = size[c] + len
          BY <1>1, <1>6, <2>1, <2>2, <4>2
        <5> QED
          BY <1>1, <1>6, <2>1, <2>3, <3>2, <4>1, <4>2, <5>1 DEF Within
      <4>3. CASE ~lo
        <5>1. i \in Blocks' /\ size'[i] = len
          BY <1>6, <2>1, <2>2, <4>3
        <5> QED
          BY <4>1, <5>1 DEF Within
      <4> QED
        BY <4>2, <4>3
    <3>4. CASE b # i /\ (up => b # n)
      <4>1. b \in Blocks' /\ size'[b] >= size[b]
        BY <1>2, <1>6, <2>1, <2>2, <3>2, <3>4
      <4>2. size'[b] \in Nat
        BY <1>12, <2>1
      <4> QED
        BY <3>1, <3>2, <4>1, <4>2 DEF Within
    <3> QED
      BY <1>6, <3>3, <3>4
  <2> QED
    BY <2>7, <2>9, <2>10 DEF HeapTiled
<1>17. Coalesced'
  <2>1. SUFFICES ASSUME NEW b \in FreeBlocks', b # base, b + size'[b] \in FreeBlocks'
                 PROVE  FALSE
    BY DEF Coalesced
  <2>2. /\ b \in F \cup {i} /\ b \in Addr /\ b \in Blocks /\ (lo => b # i) /\ (up => b # n)
        /\ F \subseteq Nat /\ b \in Nat /\ c \in Nat /\ i \in Nat /\ n \in Nat
        /\ size[b] \in Nat /\ size[n] \in Nat /\ size[i] \in Nat /\ size[c] \in Nat
    BY <1>1, <1>2, <1>3, <1>6, <1>10, <2>1
  <2>3. i + len \notin FreeBlocks'
    <3>1. i + len # i
      BY <1>6, <2>2
    <3>2. CASE up
      BY <1>1, <1>4, <1>6, <1>13, <2>2, <3>1, <3>2
    <3>3. CASE ~up
      <4>1. SUFFICES ASSUME i + size[i] \in F PROVE FALSE
        BY <1>13, <2>2, <3>1, <3>3
      <4>2. i + size[i] > i /\ i + size[i] > c
        BY <1>1, <1>6, <2>2
      <4>3. n <= i + size[i] /\ n # base /\ i < n
        BY <1>1, <2>2, <4>1, <4>2
      <4>4. i + size[i] <= n
        BY <1>1, <1>3, <1>4, <4>3
      <4> QED
        BY <2>2, <3>3, <4>3, <4>4
    <3> QED
      BY <3>2, <3>3
  <2>4. CASE b = i \/ (lo /\ b = c)
    <3>1. b + size'[b] = i + len
      BY <1>6, <1>8, <2>2, <2>4
    <3> QED
      BY <2>1, <2>3, <3>1
  <2>5. CASE b # i /\ ~(lo /\ b = c)
    <3>1. size'[b] = size[b] /\ b \in F \ {base}
      BY <1>8, <2>1, <2>2, <2>5
    <3>2. b + size[b] = i
      BY <1>4, <1>13, <2>1, <3>1
    <3>3. b < i /\ b # c
      BY <1>3, <1>4, <2>2, <2>5, <3>2
    <3>4. b < c /\ c \in Blocks
      BY <1>1, <1>3, <2>2, <3>1, <3>3, AddrFacts
    <3>5. b + size[b] <= c
      BY <1>4, <2>2, <3>4
    <3> QED
      BY <1>1, <2>2, <3>2, <3>5
  <2> QED
    BY <2>4, <2>5
<1> QED
  BY <1>0, <1>11, <1>12, <1>13, <1>14, <1>15, <1>16, <1>17

LEMMA FreeInsertIInv == ASSUME IInv, FreeInsert PROVE IInv'
<1> USE AddrFacts
<1>1. /\ nxt' \in [Addr -> Addr \cup {NULL}]
      /\ size' \in [Addr -> Nat]
      /\ size'[base] = 0
      /\ currp \in FreeBlocks' /\ base \in FreeBlocks'
      /\ FreeBlocks' \subseteq FreeBlocks \cup {insertp}
      /\ \A a \in FreeBlocks' : nxt'[a] \in FreeBlocks' /\ InOrder(a, nxt[a])'
      /\ HeapTiled'
      /\ Coalesced'
  BY LinkInHeap DEF FreeInsert, Return, client
<1>2. /\ insertp \in HeapUnits /\ insertp \notin live /\ currp \in FreeBlocks
      /\ FreeBlocks \subseteq Addr
  BY PlaceMeaning DEF FreeInsert
<1>3. /\ freeptr' = currp /\ program_break' = program_break
      /\ live' = live /\ asked' = asked
      /\ pc' = "idle" /\ nbytes' = 0 /\ nunits' = 0 /\ prevptr' = NULL
      /\ currptr' = NULL /\ insertp' = NULL /\ currp' = NULL
  BY DEF FreeInsert, Return, client
<1>4. TypeOK'
  BY <1>1, <1>2, <1>3 DEF IInv, TypeOK
<1>5. LocalsOK' /\ SearchOK'
  BY <1>3 DEF LocalsOK, SearchOK
<1>6. ListOK'
  <2>1. live' \cap FreeBlocks' = {}
    BY <1>1, <1>2, <1>3 DEF IInv, ListOK
  <2>2. NULL \notin live' \cup FreeBlocks'
    BY <1>1, <1>2, <1>3 DEF IInv, TypeOK
  <2> QED
    BY <1>1, <1>2, <1>3, <2>1, <2>2 DEF ListOK
<1>7. NoHeapYet'
  BY <1>2, <1>3 DEF IInv, NoHeapYet
<1> QED
  BY <1>1, <1>4, <1>5, <1>6, <1>7 DEF IInv

LEMMA GrowInsertIInv ==
  ASSUME IInv, GrowInsert
  PROVE  IInv' /\ \E b \in FreeBlocks' : size'[b] >= nunits
<1> USE AddrFacts
<1>1. /\ nxt' \in [Addr -> Addr \cup {NULL}]
      /\ size' \in [Addr -> Nat]
      /\ size'[base] = 0
      /\ currp \in FreeBlocks' /\ base \in FreeBlocks'
      /\ FreeBlocks' \subseteq FreeBlocks \cup {insertp}
      /\ \A a \in FreeBlocks' : nxt'[a] \in FreeBlocks' /\ InOrder(a, nxt[a])'
      /\ \E f \in FreeBlocks' : size'[f] >= size[insertp]
      /\ HeapTiled'
      /\ Coalesced'
  BY LinkInHeap DEF GrowInsert, client
<1>2. /\ insertp \in HeapUnits /\ insertp \notin live /\ currp \in FreeBlocks
      /\ FreeBlocks \subseteq Addr
  BY PlaceMeaning DEF GrowInsert
<1>3. /\ freeptr' = currp /\ program_break' = program_break
      /\ live' = live /\ asked' = asked
      /\ pc = "grow" /\ pc' = "scan" /\ nbytes' = nbytes /\ nunits' = nunits
      /\ prevptr' = currp /\ currptr' = nxt'[currp] /\ insertp' = NULL /\ currp' = NULL
  BY DEF GrowInsert, client
<1>4. currptr' \in FreeBlocks' /\ FreeBlocks' \subseteq Addr
  BY <1>1, <1>2, <1>3
<1>5. TypeOK'
  BY <1>1, <1>2, <1>3, <1>4 DEF IInv, TypeOK
<1>6. LocalsOK'
  BY <1>1, <1>3, <1>4 DEF IInv, LocalsOK
<1>7. ListOK'
  <2>1. live' \cap FreeBlocks' = {}
    BY <1>1, <1>2, <1>3 DEF IInv, ListOK
  <2>2. NULL \notin live' \cup FreeBlocks'
    BY <1>1, <1>2, <1>3 DEF IInv, TypeOK
  <2> QED
    BY <1>1, <1>2, <1>3, <2>1, <2>2 DEF ListOK
<1>8. NoHeapYet'
  BY <1>2, <1>3 DEF IInv, NoHeapYet
<1>9. \E b \in FreeBlocks' : size'[b] >= nunits
  <2>1. PICK f \in FreeBlocks' : size'[f] >= size[insertp]
    BY <1>1
  <2>2. size[insertp] >= nunits
    BY <1>3 DEF IInv, SearchOK
  <2>3. size'[f] \in Nat /\ size[insertp] \in Nat /\ nunits \in Nat
    BY <1>1, <1>2, <1>4, <2>1 DEF IInv, TypeOK
  <2> QED
    BY <2>1, <2>2, <2>3
<1>10. \A f \in FreeBlocks' : ~Visited(f)'
  <2>1. PICK c \in FreeBlocks' : c = currp
    BY <1>1
  <2>2. /\ InOrder(c, nxt[c])' /\ freeptr' = c /\ currptr' = nxt'[c]
        /\ c \in Nat /\ nxt'[c] \in Nat
    BY <1>1, <1>3, <1>4, <2>1
  <2>3. \A f \in FreeBlocks' : f \in Nat /\ f >= base
    BY <1>4
  <2> QED
    BY <2>2, <2>3 DEF Visited, InOrder
<1>11. SearchOK'
  BY <1>3, <1>9, <1>10 DEF SearchOK
<1> QED
  BY <1>1, <1>5, <1>6, <1>7, <1>8, <1>9, <1>11 DEF IInv

-----------------------------------------------------------------------------
(* IInv is inductive.                                                      *)
LEMMA NextIInv == ASSUME IInv, [Next]_vars PROVE IInv'
<1>1. CASE MallocExact
  BY <1>1, MallocExactIInv
<1>2. CASE MallocSplit
  BY <1>2, MallocSplitIInv
<1>3. CASE MallocNext
  BY <1>3, MallocNextIInv
<1>4. CASE MallocGrow
  BY <1>4, MallocGrowIInv
<1>5. CASE MallocNull
  BY <1>5, MallocNullIInv
<1>6. CASE FreeWalk
  BY <1>6, FreeWalkIInv
<1>7. CASE FreeInsert
  BY <1>7, FreeInsertIInv
<1>8. CASE GrowInsert
  BY <1>8, GrowInsertIInv
<1>9. CASE Call
  BY <1>9, BrkIInv, MallocIInv, FreeIInv DEF Call
<1>10. CASE UNCHANGED vars
  BY <1>10 DEF vars, mem, client, locals, IInv, TypeOK, LocalsOK, ListOK, NoHeapYet,
               HeapTiled, Coalesced, SearchOK, FreeBlocks, Blocks, Within, Visited, InOrder
<1> QED
  BY <1>1, <1>2, <1>3, <1>4, <1>5, <1>6, <1>7, <1>8, <1>9, <1>10 DEF Next, Step

THEOREM Inductive == Spec => []IInv
  BY InitIInv, NextIInv, PTL DEF Spec

(* The variables of the allocator always hold values of their types; the   *)
(* program break never passes the bound of the model.                      *)
THEOREM TypeCorrect == Spec => []TypeOK
<1>1. IInv => TypeOK
  BY DEF IInv
<1> QED
  BY Inductive, <1>1, PTL

(* free() and malloc() keep the free list in address order and closed, and *)
(* never walk off it.                                                      *)
THEOREM ListStaysOrdered == Spec => []FreeListOrdered
<1>1. IInv => FreeListOrdered
  BY DEF IInv, LocalsOK, ListOK, TypeOK, FreeListOrdered
<1> QED
  BY Inductive, <1>1, PTL

(* No unit of the heap is ever lost or in two blocks.                      *)
THEOREM HeapStaysTiled == Spec => []HeapTiled
<1>1. IInv => HeapTiled
  BY DEF IInv
<1> QED
  BY Inductive, <1>1, PTL

(* Free memory never stays in two adjacent blocks.                         *)
THEOREM FreeMemoryCoalesced == Spec => []Coalesced
<1>1. IInv => Coalesced
  BY DEF IInv
<1> QED
  BY Inductive, <1>1, PTL

(* malloc() asks the system for memory only when every free block is too   *)
(* small for the request.                                                  *)
THEOREM GrowsOnlyWhenExhausted == Spec => GrowOnlyWhenExhausted
<1>1. ASSUME IInv, MallocGrow PROVE \A b \in FreeBlocks : size[b] < nunits
  BY <1>1, SearchedAll DEF MallocGrow
<1>2. IInv /\ [Next]_vars => [MallocGrow => \A b \in FreeBlocks : size[b] < nunits]_vars
  BY <1>1
<1> QED
  BY Inductive, <1>2, PTL DEF Spec, GrowOnlyWhenExhausted

(* What morecore() adds to the free list is enough for the request that    *)
(* made it grow, alone or merged into its neighbours.                      *)
THEOREM OneGrowIsEnough == Spec => GrowsOnce
<1>1. IInv /\ [Next]_vars => [GrowInsert => \E b \in FreeBlocks' : size'[b] >= nunits]_vars
  BY GrowInsertIInv
<1> QED
  BY Inductive, <1>1, PTL DEF Spec, GrowsOnce

-----------------------------------------------------------------------------
(***************************************************************************)
(* The allocator of Heap implements AbstractHeap, and every block handed   *)
(* out has room for the bytes asked for, as long as no request is so large *)
(* that the computation of its units wraps around size_t (NoSizeWrap).     *)
(***************************************************************************)

-----------------------------------------------------------------------------
(* Integer division rounds down.                                           *)
LEMMA Quotient ==
  ASSUME NEW x \in Int, NEW d \in Int, d > 0, NEW q \in Int, q = x \div d
  PROVE  q * d <= x /\ x < q * d + d
  OBVIOUS

LEMMA Division ==
  ASSUME NEW x \in Nat, NEW d \in Nat \ {0}
  PROVE  x \div d \in Nat /\ (x \div d) * d <= x /\ x < (x \div d) * d + d
<1> PICK q \in Int : q = x \div d
  OBVIOUS
<1>1. q * d <= x /\ x < q * d + d
  BY Quotient
<1>2. q >= 0
  OBVIOUS
<1> QED
  BY <1>1, <1>2

LEMMA CancelFactor ==
  ASSUME NEW a \in Nat, NEW b \in Nat, NEW d \in Nat \ {0}, a * d < b * d + d
  PROVE  a <= b
<1> SUFFICES ASSUME a > b PROVE FALSE
  OBVIOUS
<1> PICK e \in Nat : a = b + 1 + e
  <2>1. a = b + 1 + (a - b - 1) /\ a - b - 1 \in Nat
    OBVIOUS
  <2> QED
    BY <2>1
<1>1. a * d = b * d + d + e * d
  OBVIOUS
<1>2. e * d >= 0 /\ e * d \in Int /\ a * d \in Int /\ b * d \in Int
  OBVIOUS
<1> QED
  BY <1>1, <1>2

LEMMA MoreUnits ==
  ASSUME NEW a \in Nat, NEW b \in Nat, NEW d \in Nat, a <= b
  PROVE  a * d <= b * d
<1> PICK e \in Nat : b = a + e
  <2>1. b = a + (b - a) /\ b - a \in Nat
    OBVIOUS
  <2> QED
    BY <2>1
<1>1. b * d = a * d + e * d
  OBVIOUS
<1>2. e * d >= 0 /\ e * d \in Int /\ a * d \in Int
  OBVIOUS
<1> QED
  BY <1>1, <1>2

(* Nunits is the least number of units with room for the request.          *)
LEMMA NunitsExact ==
  ASSUME NoSizeWrap, NEW nb \in Requests
  PROVE  /\ \A len \in Nat \ {0} : len >= Nunits(nb) => (len - 1) * HDR >= nb
         /\ \A len \in Nat \ {0} : (len - 1) * HDR >= nb => len >= Nunits(nb)
<1> DEFINE x == nb + HDR - 1
           q == x \div HDR
<1>1. x \in Nat /\ HDR \in Nat \ {0} /\ nb \in Nat /\ x < SizeMod
  BY HeapAssumption DEF NoSizeWrap
<1>2. x % SizeMod = x
  BY <1>1, HeapAssumption
<1>3. Nunits(nb) = 1 + q
  BY <1>2 DEF Nunits
<1>4. q \in Nat /\ q * HDR <= x /\ x < q * HDR + HDR
  BY <1>1, Division
<1>5. q * HDR \in Nat
  BY <1>1, <1>4
<1> HIDE DEF q
<1>6. ASSUME NEW len \in Nat \ {0}, len >= Nunits(nb)
      PROVE  (len - 1) * HDR >= nb
  <2>1. q <= len - 1 /\ len - 1 \in Nat
    BY <1>3, <1>4, <1>6
  <2>2. q * HDR <= (len - 1) * HDR
    BY <1>1, <1>4, <2>1, MoreUnits
  <2>3. (len - 1) * HDR \in Nat
    BY <1>1, <2>1
  <2> QED
    BY <1>1, <1>4, <1>5, <2>2, <2>3
<1>7. ASSUME NEW len \in Nat \ {0}, (len - 1) * HDR >= nb
      PROVE  len >= Nunits(nb)
  <2>1. len - 1 \in Nat
    OBVIOUS
  <2>2. (len - 1) * HDR \in Nat
    BY <1>1, <2>1
  <2>3. q * HDR < (len - 1) * HDR + HDR
    BY <1>1, <1>4, <1>5, <1>7, <2>2
  <2>4. q <= len - 1
    BY <1>1, <1>4, <2>1, <2>3, CancelFactor
  <2> QED
    BY <1>3, <1>4, <2>4
<1> QED
  BY <1>6, <1>7

-----------------------------------------------------------------------------
(* Linking a block in leaves the blocks the program owns alone.            *)
LEMMA LinkInLive ==
  ASSUME IInv, pc \in {"free", "grow"}, PlaceFound, LinkIn
  PROVE  \A b \in live : size'[b] = size[b]
<1>1. /\ insertp \notin live /\ currp \in FreeBlocks /\ nxt[currp] \in FreeBlocks
      /\ FreeBlocks \subseteq Addr /\ insertp \in Addr
  BY PlaceMeaning, AddrFacts
<1>2. live \cap FreeBlocks = {} /\ live \subseteq Addr /\ size \in [Addr -> Nat]
  BY AddrFacts DEF IInv, ListOK, TypeOK
<1>3. ASSUME NEW b \in live PROVE size'[b] = size[b]
  <2>1. b \in Addr /\ b # insertp /\ b # currp /\ b # nxt[currp]
    BY <1>1, <1>2
  <2> QED
    BY <1>1, <1>2, <2>1 DEF LinkIn
<1> QED
  BY <1>3

(* What each step does to the blocks the program owns.                     *)
LEMMA LiveSizes ==
  ASSUME IInv, [Next]_vars, NEW b \in live
  PROVE  size'[b] = size[b]
<1> USE AddrFacts
<1>0. b \in Addr /\ b \in Nat /\ b \in Blocks /\ b \notin FreeBlocks /\ size \in [Addr -> Nat]
  BY DEF IInv, TypeOK, Blocks, ListOK
<1>1. CASE MallocSplit
  <2>1. /\ currptr \in FreeBlocks /\ currptr \in Nat /\ size[base] = 0
        /\ nunits \in Nat \ {0} /\ size[currptr] > nunits
    <3>1. nbytes \in Requests /\ nunits = Nunits(nbytes) /\ currptr \in FreeBlocks
      BY <1>1 DEF MallocSplit, IInv, LocalsOK
    <3>2. nunits \in Nat \ {0}
      BY <3>1, NunitsPositive
    <3> QED
      BY <1>1, <3>1, <3>2 DEF MallocSplit, IInv, ListOK, FreeBlocks
  <2>2. currptr \in Blocks /\ size[currptr] \in Nat
    BY <1>0, <2>1 DEF Blocks, FreeBlocks
  <2>3. b < currptr \/ currptr + size[currptr] <= b
    BY <1>0, <2>1, <2>2 DEF IInv, HeapTiled
  <2>4. b # currptr + (size[currptr] - nunits) /\ b # currptr
    BY <1>0, <2>1, <2>2, <2>3
  <2> QED
    BY <1>0, <1>1, <2>4 DEF MallocSplit
<1>2. CASE MallocGrow
  <2>1. b # program_break
    BY <1>0 DEF IInv, HeapTiled, TypeOK
  <2> QED
    BY <1>0, <1>2, <2>1 DEF MallocGrow
<1>3. CASE FreeInsert \/ GrowInsert
  BY <1>3, LinkInLive DEF FreeInsert, GrowInsert
<1>4. CASE MallocExact \/ MallocNext \/ MallocNull \/ FreeWalk \/ UNCHANGED vars
  BY <1>4 DEF MallocExact, MallocNext, MallocNull, FreeWalk, vars, mem
<1>5. CASE Call
  <2>1. \A nb \in Requests : Malloc(nb) => size'[b] = size[b]
    BY <1>0 DEF Malloc, mem, IInv, ListOK
  <2>2. (\E p \in live : Free(p)) \/ Brk => size'[b] = size[b]
    BY DEF Free, Brk, mem
  <2> QED
    BY <1>5, <2>1, <2>2 DEF Call
<1> QED
  BY <1>1, <1>2, <1>3, <1>4, <1>5 DEF Next, Step

(* A block that is handed out has the units of its request.                *)
LEMMA PayloadStep ==
  ASSUME IInv, NoSizeWrap, PayloadFits, [Next]_vars
  PROVE  PayloadFits'
<1> USE AddrFacts
<1>1. ASSUME NEW b \in live, b \in live', asked'[b] = asked[b]
      PROVE  (size'[b] - 1) * HDR >= asked'[b]
  BY <1>1, LiveSizes DEF PayloadFits
<1>2. (pc = "scan") =>
        /\ nunits = Nunits(nbytes) /\ nbytes \in Requests /\ nunits \in Nat \ {0}
        /\ (nunits - 1) * HDR >= nbytes
  BY NunitsPositive, NunitsExact DEF IInv, LocalsOK
<1>3. CASE MallocExact \/ MallocSplit
  <2>0. live \subseteq Addr /\ asked \in [Addr -> Nat] /\ size \in [Addr -> Nat] /\ currptr \in FreeBlocks
        /\ live \cap FreeBlocks = {} /\ FreeBlocks \subseteq Addr
    BY <1>3 DEF IInv, TypeOK, MallocExact, MallocSplit, LocalsOK, ListOK, FreeBlocks
  <2>1. PICK t \in Addr : /\ live' = live \cup {t} /\ t \notin live
                          /\ asked' = [asked EXCEPT ![t] = nbytes]
                          /\ size'[t] = nunits
    <3>1. CASE MallocExact
      BY <2>0, <3>1 DEF MallocExact
    <3>2. CASE MallocSplit
      <4>1. currptr \in Blocks /\ currptr \in FreeBlocks /\ currptr \in HeapUnits
        <5>1. currptr \in FreeBlocks /\ size[base] = 0 /\ nunits \in Nat \ {0} /\ size[currptr] > nunits
          BY <1>2, <2>0, <3>2 DEF MallocSplit, IInv, ListOK
        <5> QED
          BY <2>0, <5>1 DEF Blocks
      <4> DEFINE t == currptr + (size[currptr] - nunits)
      <4>2. size[currptr] > nunits /\ size[currptr] \in Nat /\ nunits \in Nat \ {0} /\ pc = "scan"
        BY <1>2, <2>0, <3>2, <4>1 DEF MallocSplit
      <4>3. t \in Nat /\ currptr < t /\ t < currptr + size[currptr]
        BY <4>1, <4>2
      <4>4. t \in HeapUnits
        BY <4>1, <4>2, <4>3, HeapAssumption DEF IInv, HeapTiled, TypeOK, HeapUnits
      <4>5. t \notin live
        <5>1. \A b \in Blocks : currptr < b => currptr + size[currptr] <= b
          BY <4>1 DEF IInv, HeapTiled
        <5> QED
          BY <4>1, <4>2, <4>3, <5>1 DEF Blocks
      <4>6. size'[t] = nunits
        BY <2>0, <3>2, <4>4 DEF MallocSplit
      <4>7. live' = live \cup {t} /\ asked' = [asked EXCEPT ![t] = nbytes]
        BY <3>2 DEF MallocSplit
      <4> QED
        BY <4>4, <4>5, <4>6, <4>7
    <3> QED
      BY <1>3, <3>1, <3>2
  <2>2. (size'[t] - 1) * HDR >= asked'[t]
    BY <1>2, <1>3, <2>0, <2>1 DEF MallocExact, MallocSplit
  <2>3. \A b \in live : b \in live' /\ asked'[b] = asked[b]
    BY <2>0, <2>1
  <2> QED
    BY <1>1, <2>1, <2>2, <2>3 DEF PayloadFits
<1>4. CASE \E p \in live : Free(p)
  <2>1. \A b \in live' : b \in live /\ asked'[b] = asked[b]
    BY <1>4 DEF Free, IInv, TypeOK
  <2> QED
    BY <1>1, <2>1 DEF PayloadFits
<1>5. CASE ~(MallocExact \/ MallocSplit) /\ ~(\E p \in live : Free(p))
  <2>1. live' = live /\ asked' = asked
    BY <1>5 DEF Next, Step, Call, MallocNext, MallocGrow, MallocNull, FreeWalk, FreeInsert,
                GrowInsert, Brk, Malloc, vars, client
  <2> QED
    BY <1>1, <2>1 DEF PayloadFits
<1> QED
  BY <1>3, <1>4, <1>5

(* malloc() never hands out a block too small for the request.             *)
THEOREM PayloadAlwaysFits ==
  ASSUME NoSizeWrap
  PROVE  Spec => []PayloadFits
<1>1. Init => PayloadFits
  BY DEF Init, PayloadFits
<1>2. IInv /\ PayloadFits /\ [Next]_vars => PayloadFits'
  BY PayloadStep
<1> QED
  BY Inductive, <1>1, <1>2, PTL DEF Spec

-----------------------------------------------------------------------------
(* A run of memory that no block of the program uses lies in one free      *)
(* block, because free blocks never touch.                                 *)
LEMMA FreeRunInOneBlock ==
  ASSUME IInv, pc = "scan", program_break >= HeapStart,
         NEW at \in HeapStart .. program_break, NEW len \in 1 .. (program_break - at),
         Abs!FreeRun(at, len)
  PROVE  \E b \in FreeBlocks : size[b] >= len
<1> USE AddrFacts
<1>0. /\ program_break \in Nat /\ HeapStart \in Nat /\ at \in Nat /\ len \in Nat \ {0}
      /\ at + len <= program_break /\ insertp = NULL
  BY HeapAssumption DEF IInv, TypeOK, LocalsOK
<1>1. Blocks = (FreeBlocks \ {base}) \cup live /\ \A b \in Blocks : b \in Nat /\ size[b] \in Nat
  BY <1>0 DEF Blocks, IInv, TypeOK, FreeBlocks
<1>2. ASSUME NEW u \in at .. at + len - 1
      PROVE  \E b \in FreeBlocks \ {base} : Within(u, b)
  <2>1. PICK b \in Blocks : Within(u, b)
    BY <1>0 DEF IInv, HeapTiled
  <2>2. SUFFICES ASSUME b \in live PROVE FALSE
    BY <1>1, <2>1
  <2> DEFINE r == [at |-> b, len |-> size[b]]
  <2>3. r \in OwnedBlocks /\ r.at = b /\ r.len = size[b]
    BY <2>2 DEF OwnedBlocks
  <2>4. u \in Abs!UnitsOf(r)
    BY <1>0, <1>1, <2>1, <2>3 DEF Abs!UnitsOf, Within
  <2>5. u \in Abs!OwnedUnits
    BY <2>3, <2>4 DEF Abs!OwnedUnits
  <2> QED
    BY <2>5 DEF Abs!FreeRun
<1>3. PICK b \in FreeBlocks \ {base} : Within(at, b)
  BY <1>0, <1>2
<1>4. b \in Nat /\ size[b] \in Nat /\ b <= at /\ at < b + size[b] /\ b \in Blocks
  BY <1>1, <1>3 DEF Within
<1>5. at + len <= b + size[b]
  <2>1. SUFFICES ASSUME b + size[b] < at + len PROVE FALSE
    BY <1>0, <1>4
  <2>2. b + size[b] \in at .. at + len - 1
    BY <1>0, <1>4, <2>1
  <2>3. PICK d \in FreeBlocks \ {base} : Within(b + size[b], d)
    BY <1>2, <2>2
  <2>4. d \in Nat /\ d \in Blocks /\ size[d] \in Nat /\ d <= b + size[b] /\ b + size[b] < d + size[d]
    BY <1>1, <2>3 DEF Within
  <2>5. (b < d => b + size[b] <= d) /\ (d < b => d + size[d] <= b)
    BY <1>4, <2>4 DEF IInv, HeapTiled
  <2>6. d = b + size[b]
    BY <1>4, <2>4, <2>5
  <2> QED
    BY <2>3, <2>6 DEF IInv, Coalesced
<1> QED
  BY <1>0, <1>4, <1>5

(* No block of the program overlaps the units of a free block.             *)
LEMMA FreeUnitsNotOwned ==
  ASSUME IInv, NEW b \in FreeBlocks \ {base}, NEW u \in Int, Within(u, b)
  PROVE  u \notin Abs!OwnedUnits
<1> USE AddrFacts
<1>1. SUFFICES ASSUME NEW r \in OwnedBlocks, u \in Abs!UnitsOf(r) PROVE FALSE
  BY DEF Abs!OwnedUnits
<1>2. PICK d \in live : r = [at |-> d, len |-> size[d]]
  BY DEF OwnedBlocks
<1>3. d <= u /\ u < d + size[d]
  <2>1. r.at = d /\ r.len = size[d] /\ d \in Nat /\ size[d] \in Nat
    BY <1>2 DEF IInv, TypeOK
  <2> QED
    BY <1>1, <2>1 DEF Abs!UnitsOf
<1>4. /\ b \in Blocks /\ d \in Blocks /\ b # d /\ b \in Nat /\ d \in Nat
      /\ size[b] \in Nat /\ size[d] \in Nat
  BY DEF IInv, Blocks, ListOK, TypeOK, FreeBlocks
<1>5. (b < d => b + size[b] <= d) /\ (d < b => d + size[d] <= b)
  BY <1>4 DEF IInv, HeapTiled
<1> QED
  BY <1>3, <1>4, <1>5 DEF Within

(* The abstract blocks change only with the set of blocks the program owns.*)
LEMMA SameOwned ==
  ASSUME IInv, [Next]_vars, live' = live
  PROVE  OwnedBlocks' = OwnedBlocks
  BY LiveSizes DEF OwnedBlocks

(* A new block, cut from free memory, is an abstract Serve.                *)
LEMMA HandOut ==
  ASSUME IInv, [Next]_vars, NoSizeWrap, pc = "scan", pc' = "idle",
         UNCHANGED program_break,
         NEW f \in FreeBlocks \ {base}, NEW t \in Addr,
         live' = live \cup {t}, size'[t] = nunits,
         f <= t, t + nunits <= f + size[f]
  PROVE  Abs!Serve
<1> USE AddrFacts
<1>1. /\ nunits = Nunits(nbytes) /\ nbytes \in Requests /\ nunits \in Nat \ {0}
      /\ f \in Nat /\ t \in Nat /\ size[f] \in Nat /\ f \in Blocks /\ f \in HeapUnits
      /\ program_break \in Nat /\ nbytes \in Nat
  BY NunitsPositive, HeapAssumption DEF IInv, LocalsOK, TypeOK, FreeBlocks, Blocks
<1> DEFINE r == [at |-> t, len |-> nunits]
<1> PICK n \in Nat \ {0} : n = nunits
  BY <1>1
<1> DEFINE s == [at |-> t, len |-> n]
<1>2. OwnedBlocks' = OwnedBlocks \cup {s}
  <2>1. \A b \in live : size'[b] = size[b]
    BY LiveSizes
  <2> QED
    BY <2>1 DEF OwnedBlocks
<1>3. Abs!HasRoom(s.len, Pending)
  BY <1>1, NunitsExact DEF Abs!HasRoom, Pending
<1>4. Abs!FreeRun(s.at, s.len)
  <2>1. t >= HeapStart /\ t + n <= program_break
    BY <1>1, HeapAssumption DEF IInv, HeapTiled, HeapUnits
  <2>2. ASSUME NEW u \in t .. (t + n - 1) PROVE u \notin Abs!OwnedUnits
    <3>1. u \in Int /\ Within(u, f)
      BY <1>1, <2>2 DEF Within
    <3> QED
      BY <3>1, FreeUnitsNotOwned
  <2> QED
    BY <2>1, <2>2 DEF Abs!FreeRun
<1>5. Pending # Abs!NoRequest /\ Pending' = Abs!NoRequest
  BY <1>1 DEF Pending, Abs!NoRequest
<1> QED
  BY <1>2, <1>3, <1>4, <1>5 DEF Abs!Serve

(* Every step of the allocator is a step of AbstractHeap, or none.         *)
LEMMA Simulation ==
  ASSUME IInv, NoSizeWrap, [Next]_vars
  PROVE  [Abs!Next]_Abs!vars
<1> USE AddrFacts, HeapAssumption
<1> DEFINE Stutter == UNCHANGED <<OwnedBlocks, Pending, program_break>>
<1>0. SUFFICES Abs!Next \/ Stutter
  BY DEF Abs!vars
<1>00. pc \in {"scan", "grow"} => nbytes \in Nat
  BY DEF IInv, LocalsOK
<1>1. CASE MallocExact
  <2>1. /\ currptr \in FreeBlocks /\ size[currptr] = nunits /\ nunits \in Nat \ {0} /\ size[base] = 0
    BY <1>1, NunitsPositive DEF MallocExact, IInv, LocalsOK, ListOK
  <2>2. /\ currptr \in Addr /\ currptr # base /\ currptr \in Nat
        /\ currptr <= currptr /\ currptr + nunits <= currptr + size[currptr]
    BY <2>1 DEF FreeBlocks
  <2>3. /\ pc = "scan" /\ pc' = "idle" /\ UNCHANGED program_break
        /\ live' = live \cup {currptr} /\ size'[currptr] = nunits
    BY <1>1, <2>1 DEF MallocExact, Return
  <2>4. PICK c \in FreeBlocks \ {base} : c = currptr
    BY <2>1, <2>2
  <2>5. Abs!Serve
    BY <2>1, <2>2, <2>3, <2>4, HandOut
  <2> QED
    BY <2>5 DEF Abs!Next
<1>2. CASE MallocSplit
  <2>1. /\ currptr \in FreeBlocks /\ size[currptr] > nunits /\ nunits \in Nat \ {0} /\ size[base] = 0
    BY <1>2, NunitsPositive DEF MallocSplit, IInv, LocalsOK, ListOK
  <2>2. currptr # base /\ currptr \in HeapUnits /\ currptr \in Blocks /\ size[currptr] \in Nat
    BY <2>1 DEF FreeBlocks, Blocks, IInv, TypeOK
  <2>3. currptr + (size[currptr] - nunits) \in HeapUnits
    BY <2>1, <2>2 DEF IInv, HeapTiled, TypeOK, HeapUnits
  <2>4. PICK c \in FreeBlocks \ {base}, t \in Addr : c = currptr /\ t = c + (size[c] - nunits)
    BY <2>1, <2>2, <2>3
  <2>5. /\ pc = "scan" /\ pc' = "idle" /\ UNCHANGED program_break
        /\ live' = live \cup {t} /\ size'[t] = nunits
    BY <1>2, <2>4 DEF MallocSplit, Return, IInv, TypeOK
  <2>6. c <= t /\ t + nunits <= c + size[c]
    BY <2>1, <2>2, <2>4
  <2>7. Abs!Serve
    BY <2>4, <2>5, <2>6, HandOut
  <2> QED
    BY <2>7 DEF Abs!Next
<1>3. CASE MallocNext \/ FreeWalk \/ FreeInsert \/ GrowInsert
  <2>1. live' = live /\ program_break' = program_break
    BY <1>3 DEF MallocNext, FreeWalk, FreeInsert, GrowInsert, client
  <2>2. Pending' = Pending
    BY <1>3 DEF MallocNext, FreeWalk, FreeInsert, GrowInsert, Pending, Return
  <2> QED
    BY <2>1, <2>2, SameOwned
<1>4. CASE MallocGrow
  <2>1. /\ pc = "scan" /\ pc' = "grow" /\ nbytes' = nbytes /\ live' = live /\ program_break # NULL
        /\ program_break' = program_break + GrowBy(nunits)
        /\ nunits = Nunits(nbytes) /\ nbytes \in Requests /\ nunits \in Nat \ {0}
        /\ GrowBy(nunits) \in Nat \ {0} /\ GrowBy(nunits) >= nunits /\ program_break \in Nat
    BY <1>4, NunitsPositive, GrowByEnough DEF MallocGrow, client, IInv, LocalsOK, TypeOK
  <2>2. program_break >= HeapStart
    BY <2>1 DEF IInv, NoHeapYet
  <2>3. Pending = nbytes /\ Pending' = nbytes /\ Pending # Abs!NoRequest
    BY <1>00, <2>1 DEF Pending, Abs!NoRequest
  <2>4. ASSUME NEW at \in HeapStart .. program_break, NEW len \in 1 .. (program_break - at),
               Abs!HasRoom(len, Pending), Abs!FreeRun(at, len)
        PROVE  FALSE
    <3>1. len \in Nat \ {0} /\ len >= nunits
      BY <2>1, <2>3, <2>4, NunitsExact DEF Abs!HasRoom
    <3>2. PICK b \in FreeBlocks : size[b] >= len
      BY <2>1, <2>2, <2>4, FreeRunInOneBlock
    <3>3. size[b] < nunits
      BY <1>4, SearchedAll DEF MallocGrow
    <3>4. size[b] \in Nat
      BY <3>2 DEF FreeBlocks, IInv, TypeOK
    <3> QED
      BY <2>1, <3>1, <3>2, <3>3, <3>4
  <2>5. Abs!HasRoom(program_break' - program_break, Pending)
    <3>1. program_break' - program_break = GrowBy(nunits)
      BY <2>1
    <3> QED
      BY <2>1, <2>3, <3>1, NunitsExact DEF Abs!HasRoom
  <2>6. UNCHANGED <<OwnedBlocks, Pending>>
    BY <2>1, <2>3, SameOwned
  <2>7. Abs!Grow
    BY <2>2, <2>3, <2>4, <2>5, <2>6 DEF Abs!Grow
  <2> QED
    BY <2>7 DEF Abs!Next
<1>5. CASE MallocNull
  <2>1. /\ pc = "scan" /\ pc' = "idle" /\ live' = live /\ program_break = NULL
        /\ program_break' = GrowBy(nunits) /\ nunits = Nunits(nbytes) /\ nbytes \in Requests
    BY <1>5 DEF MallocNull, client, Return, IInv, LocalsOK
  <2>2. program_break' < HeapStart /\ program_break < HeapStart
    BY <2>1 DEF NULL, base
  <2>3. Pending # Abs!NoRequest /\ Pending' = Abs!NoRequest
    BY <1>00, <2>1 DEF Pending, Abs!NoRequest
  <2>4. Abs!Refuse
    BY <2>1, <2>2, <2>3, SameOwned DEF Abs!Refuse
  <2> QED
    BY <2>4 DEF Abs!Next
<1>6. CASE Brk
  <2>1. /\ live' = live /\ Pending = Abs!NoRequest /\ Pending' = Abs!NoRequest
        /\ program_break < HeapStart /\ program_break' = HeapStart
    BY <1>6 DEF Brk, client, Pending, Abs!NoRequest
  <2>2. Abs!SetBreak
    BY <2>1, SameOwned DEF Abs!SetBreak
  <2> QED
    BY <2>2 DEF Abs!Next
<1>7. ASSUME NEW nb \in Requests, Malloc(nb)
      PROVE  Abs!Next
  <2>1. /\ live' = live /\ Pending = Abs!NoRequest /\ Pending' = nb /\ nb >= 0
        /\ program_break' = program_break
    BY <1>7 DEF Malloc, client, Pending, Abs!NoRequest
  <2>2. Abs!Request
    BY <2>1, SameOwned DEF Abs!Request
  <2> QED
    BY <2>2 DEF Abs!Next
<1>8. ASSUME NEW p \in live, Free(p)
      PROVE  Abs!Next
  <2>1. /\ live' = live \ {p} /\ Pending = Abs!NoRequest /\ Pending' = Abs!NoRequest
        /\ program_break' = program_break /\ size' = size
    BY <1>8 DEF Free, Pending, Abs!NoRequest, mem
  <2>2. PICK n : n = size[p]
    OBVIOUS
  <2> DEFINE r == [at |-> p, len |-> n]
  <2>3. r \in OwnedBlocks /\ OwnedBlocks' = OwnedBlocks \ {r}
    BY <2>1, <2>2 DEF OwnedBlocks
  <2>4. Abs!Release
    BY <2>1, <2>3 DEF Abs!Release
  <2> QED
    BY <2>4 DEF Abs!Next
<1>9. CASE UNCHANGED vars
  <2>1. live' = live /\ program_break' = program_break /\ Pending' = Pending
    BY <1>9 DEF vars, client, locals, Pending
  <2> QED
    BY <2>1, SameOwned
<1> QED
  BY <1>1, <1>2, <1>3, <1>4, <1>5, <1>6, <1>7, <1>8, <1>9 DEF Next, Step, Call

(* The allocator implements AbstractHeap.                                  *)
THEOREM ImplementsAbstractHeap ==
  ASSUME NoSizeWrap
  PROVE  Spec => AbsSpec
<1>1. Init => Abs!Init
  BY HeapAssumption DEF Init, Abs!Init, OwnedBlocks, Pending, Abs!NoRequest, NULL, base
<1>2. IInv /\ [Next]_vars => [Abs!Next]_Abs!vars
  BY Simulation
<1> QED
  BY Inductive, <1>1, <1>2, PTL DEF Spec, AbsSpec, Abs!Spec
=============================================================================

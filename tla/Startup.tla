------------------------------- MODULE Startup -------------------------------
(***************************************************************************)
(* A demo from its boot loader to the exception that stops it: PageTables  *)
(* is what runs first, EntryStubs what happens from then on.  They meet in *)
(* the page the loader takes out of the map: a null pointer faults.        *)
(***************************************************************************)
EXTENDS PageTables, EntryStubs

VARIABLE nullUsed \* a null pointer has been used, whatever came of it
vars == <<loaderVars, stubVars, nullUsed>>

Init ==
    /\ LoaderInit
    /\ StubsInit(IF build = "pm32" THEN 32 ELSE 64)
    /\ nullUsed = FALSE

Boot == LoaderStep /\ UNCHANGED <<stubVars, nullUsed>>

Started == at = "program" /\ UNCHANGED loaderVars

Handle == Started /\ StubStep /\ UNCHANGED nullUsed

\* The keyboard's gate exists in lm64 and pm32 only.
TakeInterrupt ==
    /\ Started
    /\ \/ Interrupt(32)
       \/ build \in {"lm64", "pm32"} /\ Interrupt(33)
    /\ UNCHANGED nullUsed

\* Any exception but a page fault comes from what the program computes.
Except == Started /\ (\E v \in DOMAIN Gates \ {14} : Raise(v)) /\ UNCHANGED nullUsed

\* CausePageFault: a store to an address of the first page.
UseNull ==
    /\ Started
    /\ paging /\ Idle /\ ~nullUsed
    /\ nullUsed' = TRUE
    /\ IF Translate(0) = NoPage THEN Raise(14) ELSE UNCHANGED stubVars

Next == Boot \/ Handle \/ TakeInterrupt \/ Except \/ UseNull

\* The CPU goes on with the loader and with a stub.  Interrupts can delay the
\* cli of a stub, but not for ever: a handler takes microseconds, the next
\* tick comes milliseconds later.  Nothing says that the program ever causes
\* an exception, or that an interrupt ever comes.
Spec == /\ Init /\ [][Next]_vars
        /\ WF_vars(Boot) /\ WF_vars(Handle) /\ SF_vars(Handle /\ Execute("cli"))

TypeOK == LoaderTypeOK /\ StubsTypeOK /\ nullUsed \in BOOLEAN

\* With what the loops of the loader have written so far, and what the stubs
\* have saved.
IInv == TypeOK /\ LoaderInv /\ StubsInv

\* An exception, and a null pointer among them ("first page is not mapped to
\* catch null pointer exceptions", crt1.asm:187), is always reported and
\* always stops the machine: nothing takes the CPU away from the stub for
\* ever once its cli has run.
FaultHalts == (nullUsed \/ raised # NoVector) ~> (Halted /\ dump # NoDump)
=============================================================================

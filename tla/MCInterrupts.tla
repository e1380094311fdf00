---------------------------- MODULE MCInterrupts ----------------------------
(* Interrupts for TLC, with the code of the builds.                        *)
EXTENDS Discipline

Lm64 == INSTANCE LongMode
Pm32 == INSTANCE ProtectedMode

Rm16 == INSTANCE RealMode

AllBuilds ==
  [lm64 |-> Lm64!LongModeCode, pm32 |-> Pm32!ProtectedModeCode,
   rm16 |-> Rm16!RealModeCode]
LongModeBuild == [lm64 |-> Lm64!LongModeCode]
=============================================================================

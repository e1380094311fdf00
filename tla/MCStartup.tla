------------------------------ MODULE MCStartup ------------------------------
(* Startup with tables of five entries and two page tables.                 *)
EXTENDS Startup

MCPowerOn == {Empty, [frame |-> 3, present |-> TRUE, high |-> 1]}
MCHomes   == {-16, -8}
=============================================================================

------------------------------ MODULE MCFetch ------------------------------
(***************************************************************************)
(* Two words of BIOS and two words of instruction memory, both with any    *)
(* contents; each region's program counter wraps inside the region.  Every *)
(* word is one of a JAL, a branch, a store, a NOP and the word 0.          *)
(***************************************************************************)
EXTENDS Fetch, Integers

CONSTANTS nop, zero, jal, br, st

MCPCs == 0..3
MCBiosPCs == {0, 1}
MCPlus4 == [p \in MCPCs |-> IF p % 2 = 0 THEN p + 1 ELSE p - 1]
MCAddr == [p \in MCPCs |-> p % 2]

ASSUME MCFetchAssumption == FetchAssumption

\* The FPGA configuration clears the read registers of the memories.
Configured == Init /\ bios_douta = zero /\ imem_doutb = zero
ConfiguredSpec == Configured /\ [][Next]_vars
=============================================================================

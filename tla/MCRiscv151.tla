----------------------------- MODULE MCRiscv151 -----------------------------
(***************************************************************************)
(* Programs for the core: every sequence of three or four instructions of  *)
(* a palette, at the start of the BIOS, ending in jumps to themselves.     *)
(*                                                                         *)
(* x1 is the pointer of loads and stores, x2 a value, x3 is read but never *)
(* written; the CSR instructions' address field names x3.                  *)
(***************************************************************************)
EXTENDS Riscv151, TLC

CONSTANT Palette   \* the instructions programs are made of

I(op, fn, rd, rs1, rs2, imm) ==
    [op |-> op, fn |-> fn, rd |-> rd, rs1 |-> rs1, rs2 |-> rs2, imm |-> imm]

Minus1 == WordMod - 1
DataWord(k) == IndexSize + k          \* 0x1000_0000 + 4k

lui(rd, word)      == I("LUI", "add", rd, 0, 0, word)
auipc(rd, imm)     == I("AUIPC", "add", rd, 0, 0, imm)
addi(rd, rs1, imm) == I("I", "add", rd, rs1, 0, imm)
sub(rd, rs1, rs2)  == I("R", "sub", rd, rs1, rs2, 0)
lw(rd, imm, rs1)   == I("LOAD", "lw", rd, rs1, 0, imm)
sw(rs2, imm, rs1)  == I("STORE", "sw", 0, rs1, rs2, imm)
b(fn, rs1, rs2)    == I("BRANCH", fn, 0, rs1, rs2, 2)
jal(rd, imm)       == I("JAL", "add", rd, 0, 0, imm)
jalr(rd, imm, rs1) == I("JALR", "add", rd, rs1, 0, imm)
csrrw(rd, rs1)     == I("CSR", "csrrw", rd, rs1, 3, 0)
csrrwi(rd, imm)    == I("CSR", "csrrwi", rd, 0, 3, imm)

Stop == jal(0, 0)

-----------------------------------------------------------------------------
(* Every producer of x1 or x2 before every consumer, at distance one and two. *)

HazardPalette ==
    { addi(1, 1, 1), addi(2, 2, Minus1), sub(1, 1, 3), sub(2, 2, 1), sub(2, 1, 2),
      lui(1, DataWord(3)), auipc(2, 1), lw(1, 1, 1), lw(2, 0, 1), sw(2, 0, 1), sw(1, 1, 1),
      b("beq", 1, 2), b("bne", 2, 1), b("bltu", 2, 3), jal(2, 2), jalr(2, 1, 1), jalr(1, 2, 0),
      csrrw(2, 1), csrrw(1, 2), csrrwi(2, 3) }

\* A pointer in x1 behind every kind of access.
StorePalette == { addi(1, 1, 1), lw(1, 1, 1), lw(2, 0, 1), sw(2, 0, 1), sw(1, 1, 1) }

\* Loads from the UART status and the two counters.
IoPalette == { lui(1, d) : d \in {UART_CONTROL, CYCLE_CTR, INSTR_CTR} } \cup { lw(2, 0, 1) }

MCBios(p) == [k \in Index |-> IF k < Len(p) THEN p[k + 1] ELSE Stop]

\* What a jump to 0x1000_0000 finds: a load and a store through x1.
MCImem == [k \in Index |-> IF k = 0 THEN lw(2, 0, 3) ELSE IF k = 1 THEN sw(2, 0, 1) ELSE Stop]

HazardPrograms == [1 .. 3 -> HazardPalette]
PalettePrograms == { <<MCBios(p), MCImem>> : p \in [1 .. 3 -> Palette] }

-----------------------------------------------------------------------------
(* Every device of the address map behind every other, through x1.         *)

Devices == { DataWord(2), 2 * IndexSize + 1, 3 * IndexSize + 1, 4 * IndexSize + 5,
             UART_CONTROL, UART_RX, UART_TX, CYCLE_CTR, RESET_CTR }
MapPalette ==
    { lui(1, d) : d \in Devices }
    \cup { lw(2, 0, 1), sw(2, 0, 1), lw(2, 0, 3), sw(2, 1, 3), jalr(0, IndexSize, 0) }

\* x1 is set first.
MapPrograms == { <<lui(1, d)>> \o p : d \in Devices, p \in [1 .. 3 -> MapPalette] }

\* Two instructions, then a jump into the instruction memory.
JumpPrograms == { p \o <<jalr(0, IndexSize, 0)>> : p \in [1 .. 2 -> MapPalette] }

CorePrograms ==
    { <<MCBios(p), MCImem>> : p \in HazardPrograms \cup MapPrograms \cup JumpPrograms }

\* The reset button is pressed, at any edge, in the programs that jump.
ResetBios == { MCBios(p) : p \in JumpPrograms }
CoreSpec == Init /\ [][Tick \/ (bios \in ResetBios /\ Reset)]_vars

-----------------------------------------------------------------------------
MCInstr == HazardPalette \cup MapPalette \cup IoPalette \cup {NOP, Zero, Stop, sub(2, 2, 3)}
MCDecode == [w \in Word |-> IF w % 2 = 0 THEN sub(2, 2, 3) ELSE Stop]
MCBiosData == [k \in Index |-> DataWord(k) + 1]
MCInitDmem == { [k \in Index |-> DataWord((k + 2) % IndexSize)] }
MCInitRegs == { (0 :> 0) @@ (1 :> DataWord(2)) @@ (2 :> v) @@ (3 :> DataWord(1)) :
                v \in {DataWord(2), DataWord(4)} }
QuietUart == { [status |-> 1, rdata |-> 65] }
BusyUart == { [status |-> 1, rdata |-> 65], [status |-> 3, rdata |-> 66] }
=============================================================================

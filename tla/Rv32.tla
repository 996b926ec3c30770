-------------------------------- MODULE Rv32 --------------------------------
(***************************************************************************)
(* Words, instructions and the address map, shared by the core and by the  *)
(* architecture it implements.                                             *)
(*                                                                         *)
(* A word keeps the four bits [31:28] that partition the address space and *)
(* a word index of IndexSize values; arithmetic wraps at 16 * IndexSize.   *)
(* Byte lanes and funct3 widths of loads and stores are abstracted away:   *)
(* every access is a whole aligned word and pc + 4 is the next index.      *)
(***************************************************************************)
EXTENDS Integers

CONSTANTS
    IndexSize,   \* words in a memory, standing for 2^11 and 2^14
    Regs,        \* register numbers
    Instr,       \* instructions, records of op, fn, rd, rs1, rs2, imm
    Decode       \* the instruction a stored word encodes

WordMod == 16 * IndexSize
Word == 0 .. WordMod - 1
Index == 0 .. IndexSize - 1

Ops == {"R", "I", "LOAD", "STORE", "BRANCH", "LUI", "AUIPC", "JAL", "JALR", "CSR", "NONE"}

Plus(a, b)  == (a + b) % WordMod
Minus(a, b) == (a - b) % WordMod

\* Address[31:28] and its bits.
Nibble(a) == a \div IndexSize
Bit31(a)  == Nibble(a) \div 8 = 1
Bit30(a)  == (Nibble(a) \div 4) % 2 = 1
Bit29(a)  == (Nibble(a) \div 2) % 2 = 1
Bit28(a)  == Nibble(a) % 2 = 1

\* The address bits a memory decodes.
Low(a) == a % IndexSize

\* Words 0x8000_0000 .. 0x8000_0018 of the I/O memory map.
UART_CONTROL == 8 * IndexSize
UART_RX      == 8 * IndexSize + 1
UART_TX      == 8 * IndexSize + 2
CYCLE_CTR    == 8 * IndexSize + 4
INSTR_CTR    == 8 * IndexSize + 5
RESET_CTR    == 8 * IndexSize + 6

NOP == [op |-> "I", fn |-> "add", rd |-> 0, rs1 |-> 0, rs2 |-> 0, imm |-> 0]

\* The word 0, which no opcode matches.
Zero == [op |-> "NONE", fn |-> "add", rd |-> 0, rs1 |-> 0, rs2 |-> 0, imm |-> 0]

ASSUME Rv32Assumption ==
    /\ IndexSize \in Nat /\ IndexSize >= 7
    /\ 0 \in Regs /\ Regs \subseteq Nat
    /\ \A i \in Instr : /\ i.op \in Ops
                        /\ {i.rd, i.rs1, i.rs2} \subseteq Regs
                        /\ i.imm \in Word
                        /\ i.op = "CSR" => i.fn \in {"csrrw", "csrrwi"}
    /\ {NOP, Zero} \subseteq Instr
    /\ Decode \in [Word -> Instr]

Jumps    == {i \in Instr : i.op \in {"JAL", "JALR"}}
Branches == {i \in Instr : i.op = "BRANCH"}
Stores   == {i \in Instr : i.op = "STORE"}

\* alu.v, the operations the data path needs to tell operands apart.
Alu(instr, a, b) ==
    CASE instr.op = "LUI" -> b
      [] instr.op = "R" /\ instr.fn = "sub" -> Minus(a, b)
      [] OTHER -> Plus(a, b)

\* branch_comparator.v
Taken(instr, a, b) ==
    CASE instr.fn = "beq"  -> a = b
      [] instr.fn = "bne"  -> a # b
      [] instr.fn = "bltu" -> a < b
      [] OTHER -> FALSE
=============================================================================

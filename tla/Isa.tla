-------------------------------- MODULE Isa --------------------------------
(***************************************************************************)
(* The machine a program sees, as the project specification lays it out:   *)
(* instructions execute one at a time and in order, each reading what its  *)
(* predecessors wrote, and loads and stores reach the device the address   *)
(* map names.  Nothing of the pipeline is visible.                         *)
(***************************************************************************)
EXTENDS Rv32, Sequences

CONSTANTS
    RESET_PC,
    BiosData,     \* the BIOS words as data
    UartInputs    \* what the UART can present: [status, rdata]

VARIABLES
    pc,      \* address of the next instruction
    regs,    \* register file
    dmem,    \* data memory
    bios,    \* BIOS memory
    imem,    \* instruction memory
    csr,     \* the tohost register
    io       \* the UART accesses made so far, in order

vars == <<pc, regs, dmem, bios, imem, csr, io>>

Fetched == IF Bit30(pc) THEN bios[Low(pc)] ELSE imem[Low(pc)]

\* The address map (fpga_project.tex:395-448).  Where the map names no device a
\* load may return anything and a store may also write the data memory; the
\* instruction memory is a device of BIOS code only.
IsData(addr)  == ~Bit31(addr) /\ ~Bit30(addr) /\ Bit28(addr)
IsImem(addr)  == ~Bit31(addr) /\ ~Bit30(addr) /\ Bit29(addr) /\ Bit30(pc)
IsBios(addr)  == Nibble(addr) = 4
IsStored(addr) == IsData(addr) \/ IsImem(addr) \/ addr \in {UART_TX, RESET_CTR}

\* The values a load may return.
LoadValues(addr) ==
    IF IsData(addr) THEN {dmem[Low(addr)]}
    ELSE IF IsBios(addr) THEN {BiosData[Low(addr)]}
    ELSE IF addr = UART_CONTROL THEN {in.status : in \in UartInputs}
    ELSE IF addr = UART_RX THEN {in.rdata : in \in UartInputs}
    ELSE Word

\* The values instruction i may write to its destination.
Results(i) ==
    LET a == regs[i.rs1]
        b == regs[i.rs2]
    IN  CASE i.op = "R"               -> {Alu(i, a, b)}
          [] i.op \in {"I", "LUI"}    -> {Alu(i, a, i.imm)}
          [] i.op = "AUIPC"           -> {Plus(pc, i.imm)}
          [] i.op \in {"JAL", "JALR"} -> {Plus(pc, 1)}
          [] i.op = "CSR"             -> {csr}
          [] i.op = "LOAD"            -> LoadValues(Plus(a, i.imm))
          [] OTHER                    -> {}

WriteBack(i) ==
    IF i.rd = 0 \/ Results(i) = {} THEN UNCHANGED regs
    ELSE \E v \in Results(i) : regs' = [regs EXCEPT ![i.rd] = v]

NextPc(i) ==
    LET a == regs[i.rs1]
        b == regs[i.rs2]
    IN  CASE i.op = "JAL"                       -> Plus(pc, i.imm)
          [] i.op = "JALR"                      -> Plus(a, i.imm)
          [] i.op = "BRANCH" /\ Taken(i, a, b)  -> Plus(pc, i.imm)
          [] OTHER                              -> Plus(pc, 1)

\* A store reaches every device its address names, and only those.
Store(i) ==
    LET addr == Plus(regs[i.rs1], i.imm)
        data == regs[i.rs2]
    IN  /\ IF IsData(addr) THEN dmem' = [dmem EXCEPT ![Low(addr)] = data]
           ELSE \/ UNCHANGED dmem
                \/ ~IsStored(addr) /\ dmem' = [dmem EXCEPT ![Low(addr)] = data]
        /\ IF IsImem(addr)
           THEN imem' = [imem EXCEPT ![Low(addr)] = Decode[data]]
           ELSE UNCHANGED imem
        /\ io' = IF addr = UART_TX THEN Append(io, <<"tx", data>>) ELSE io

Step ==
    LET i == Fetched
    IN  /\ pc' = NextPc(i)
        /\ WriteBack(i)
        /\ IF i.op = "STORE" THEN Store(i)
           ELSE /\ UNCHANGED <<dmem, imem>>
                /\ io' = IF i.op = "LOAD" /\ Plus(regs[i.rs1], i.imm) = UART_RX
                         THEN Append(io, <<"rx">>) ELSE io
        /\ csr' = CASE i.op = "CSR" /\ i.fn = "csrrw"  -> regs[i.rs1]
                    [] i.op = "CSR" /\ i.fn = "csrrwi" -> i.imm
                    [] OTHER                           -> csr
        /\ UNCHANGED bios

Init ==
    /\ pc = RESET_PC
    /\ regs \in [Regs -> Word] /\ regs[0] = 0
    /\ dmem \in [Index -> Word]
    /\ bios \in [Index -> Instr]
    /\ imem \in [Index -> Instr]
    /\ csr \in Word
    /\ io = <<>>

Spec == Init /\ [][Step]_vars
=============================================================================

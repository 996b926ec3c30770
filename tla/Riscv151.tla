------------------------------ MODULE Riscv151 ------------------------------
(***************************************************************************)
(* The three-stage core: the front end of module Fetch and the data path   *)
(* of its EX and WB stages (register file, forwarding, ALU, memories, CSR, *)
(* I/O decode, counters).  One action is one clock edge; everything the    *)
(* Verilog computes between two edges is a state function.                 *)
(*                                                                         *)
(* The UART behind the memory map is the environment: at every edge it     *)
(* presents any status and received byte of UartInputs.                    *)
(***************************************************************************)
EXTENDS Rv32, Sequences

CONSTANTS
    RESET_PC,
    BiosData,      \* the BIOS words as the data port reads them
    UartInputs,    \* what the UART can present: [status, rdata]
    InitRegs,      \* register files a program may start with
    InitDmem,      \* data memories a program may start with
    Programs,      \* pairs <<bios, imem>> of memory contents
    CounterMod,    \* the counters wrap here instead of at 2^32
    MaxIo          \* bound: no reset once this many UART accesses were made

ASSUME Riscv151Assumption ==
    /\ RESET_PC \in Word
    /\ BiosData \in [Index -> Word]
    /\ \A in \in UartInputs : in.status \in Word /\ in.rdata \in Word
    /\ \A r \in InitRegs : r \in [Regs -> Word] /\ r[0] = 0
    /\ InitDmem \subseteq [Index -> Word]
    /\ Programs \subseteq [Index -> Instr] \X [Index -> Instr]
    /\ CounterMod \in Nat \ {0}
    /\ MaxIo \in Nat

VARIABLES
    bios, imem, pc, pc_ex, pc_wb, bios_douta, imem_doutb, instr_ex, instr_wb,
    branch_wb, prev_stall, prev_prev_stall, arch, slot,    \* see Fetch
    rf,            \* the register file memory
    rf_wa,         \* rf_wa_reg of rf_decode, the destination of WB
    alu_reg_out,   \* alu_reg
    csr_reg_out,   \* csr_reg
    to_load,       \* store_load_reg, the data of a store in WB
    dmem,          \* data memory
    dmem_douta,    \* its read register
    bios_doutb,    \* read register of the BIOS data port
    csr_ram,       \* the CSR
    cycle,         \* cycle_ctr_reg
    instr_cnt,     \* instr_ctr_reg
    uart,          \* what the UART presents in this clock
    io             \* history: the UART accesses made so far, in order

frontend == <<bios, imem, pc, pc_ex, pc_wb, bios_douta, imem_doutb, instr_ex, instr_wb,
              branch_wb, prev_stall, prev_prev_stall, arch, slot>>
backend == <<rf, rf_wa, alu_reg_out, csr_reg_out, to_load, dmem, dmem_douta, bios_doutb,
             csr_ram, cycle, instr_cnt, uart, io>>
vars == <<frontend, backend>>

BiosPCs == {p \in Word : Bit30(p)}
Plus4   == [p \in Word |-> Plus(p, 1)]
LowBits == [p \in Word |-> Low(p)]

F == INSTANCE Fetch WITH PCs <- Word, BiosAddrs <- Index, ImemAddrs <- Index,
                         BiosAddr <- LowBits, ImemAddr <- LowBits

-----------------------------------------------------------------------------
(* data_hazard: which stage supplies an operand of the instruction in EX.  *)

RegRegOps == {"R", "CSR", "BRANCH", "JALR"}
ImmOps    == {"I", "LUI"}
AluOps    == {"R", "I", "LUI", "AUIPC", "JALR"}

\* The opcode pairs (in WB, in EX) whose rs1 or rs2 is compared with rd of WB.
ForwardsA(wb, ex) ==
    \/ wb = "LOAD" /\ ex \in {"LOAD"} \cup RegRegOps \cup ImmOps
    \/ wb \in AluOps /\ ex \in {"STORE"} \cup RegRegOps
    \/ wb \in (AluOps \ {"JALR"}) \cup {"CSR"} /\ ex \in {"LOAD"} \cup ImmOps

\* Mutant: the ALU -> MEM case leaves the store data to the register file.
ForwardsB_NoStoreData(wb, ex) ==
    \/ wb = "LOAD" /\ ex \in {"STORE"} \cup RegRegOps
    \/ wb \in AluOps /\ ex \in RegRegOps

ForwardsB(wb, ex) ==
    wb \in {"LOAD"} \cup AluOps /\ ex \in {"STORE"} \cup RegRegOps

\* Mutant: the destination of the instruction in EX is compared.
Hit_RdOfEx(rs) == rs = instr_ex.rd /\ instr_wb.rd # 0

Hit(rs) == rs = instr_wb.rd /\ instr_wb.rd # 0

Source(forwards, rs) ==
    IF instr_wb.op = "JAL" THEN "alu_reg_out"
    ELSE IF ~(forwards /\ Hit(rs)) THEN "rf"
    ELSE IF instr_wb.op = "LOAD" THEN "ldx_out" ELSE "alu_reg_out"

fwd_a == Source(ForwardsA(instr_wb.op, instr_ex.op), instr_ex.rs1)
fwd_b == Source(ForwardsB(instr_wb.op, instr_ex.op), instr_ex.rs2)

\* A store whose address register the load in WB writes.
fwd_mem_addr == instr_wb.op = "LOAD" /\ instr_ex.op = "STORE" /\ Hit(instr_ex.rs1)

-----------------------------------------------------------------------------
(* memory_control, the part that decodes the access in WB.                 *)

read  == instr_wb.op = "LOAD"
write == instr_wb.op = "STORE"

uart_control == read /\ alu_reg_out = UART_CONTROL
uart_rec     == read /\ alu_reg_out = UART_RX
cycle_ctr    == read /\ alu_reg_out = CYCLE_CTR
instr_ctr    == read /\ alu_reg_out = INSTR_CTR
uart_tran    == write /\ alu_reg_out = UART_TX
reset_ctr    == write /\ alu_reg_out = RESET_CTR

-----------------------------------------------------------------------------
(* The WB stage.                                                           *)

\* load_extend; another instruction's ldx_out is never used.
ldx_out ==
    IF Bit30(alu_reg_out) THEN bios_doutb
    ELSE IF uart_control THEN uart.status
    ELSE IF uart_rec THEN uart.rdata
    ELSE dmem_douta

\* control_logic assigns 0 to 7, but wb_sel_reg has two bits.
wb_sel ==
    LET sel == CASE instr_wb.op \in {"JAL", "JALR"}                -> 3
                 [] instr_wb.op \in {"R", "I", "LUI", "AUIPC"}     -> 2
                 [] uart_control                                   -> 4
                 [] uart_rec                                       -> 5
                 [] cycle_ctr                                      -> 6
                 [] instr_ctr                                      -> 7
                 [] OTHER                                          -> IF read THEN 1 ELSE 0
    IN  sel % 4

rf_wd == <<csr_ram, ldx_out, alu_reg_out, pc_wb>>[wb_sel + 1]

\* Mutant: x0 is a register like the others.
rf_wen_X0Written == instr_wb.op \notin {"BRANCH", "NONE"}

rf_wen == instr_wb.op \notin {"BRANCH", "NONE"} /\ rf_wa # 0

csr_wen == instr_wb.op = "CSR"

-----------------------------------------------------------------------------
(* The EX stage.                                                           *)

\* rf_decode
rf_ra1 == IF instr_ex.op \in {"LUI", "AUIPC", "JAL", "NONE"} THEN 0 ELSE instr_ex.rs1
rf_ra2 == IF instr_ex.op \in {"R", "STORE", "BRANCH"} THEN instr_ex.rs2 ELSE 0

Operand(source, ra) ==
    CASE source = "rf"          -> rf[ra]
      [] source = "alu_reg_out" -> alu_reg_out
      [] source = "ldx_out"     -> ldx_out

a_fwd_out == Operand(fwd_a, rf_ra1)
b_fwd_out == Operand(fwd_b, rf_ra2)

a_sel_out == IF instr_ex.op \in {"LUI", "AUIPC"} THEN pc_wb ELSE a_fwd_out
b_sel_out == IF instr_ex.op \in {"I", "LOAD", "JALR", "STORE", "LUI", "AUIPC"}
             THEN instr_ex.imm ELSE b_fwd_out

alu_out == Alu(instr_ex, a_sel_out, b_sel_out)

branch == Taken(instr_ex, a_fwd_out, b_fwd_out)

\* The target of a redirect: alu_out for a JALR.
target == IF instr_ex.op = "JALR" THEN alu_out ELSE Plus(pc_wb, instr_ex.imm)

\* fwd_mem_addr replaces the address, and with it the immediate.
alu_mux_value == IF fwd_mem_addr THEN rf_wd ELSE alu_out

\* csrrwi takes its operand from imm_gen.
csr_mux_value == IF instr_ex.op = "CSR" /\ instr_ex.fn = "csrrwi"
                 THEN instr_ex.imm ELSE alu_mux_value

will_write == instr_ex.op = "STORE"

\* memory_control looks at the store in EX only behind an access to the data
\* regions in WB.
behind_data_access ==
    (read \/ write) /\ ~Bit31(alu_reg_out) /\ ~Bit30(alu_reg_out)

\* Mutant: a program in the instruction memory may write it too.
in_bios_region_AnyPc == behind_data_access /\ Nibble(alu_out) # 1

in_bios_region == behind_data_access /\ Nibble(alu_out) # 1 /\ Bit30(pc_wb)

imem_on  == in_bios_region /\ will_write /\ Nibble(alu_out) \in {2, 3}

\* Behind an I/O access in WB the dmem_off_reg that rst sets is left alone.
behind_io_access ==
    \/ uart_control \/ uart_rec \/ cycle_ctr \/ instr_ctr
    \/ write /\ Bit31(alu_reg_out)

dmem_off(rst) ==
    \/ alu_out = UART_TX
    \/ in_bios_region /\ ~Bit28(alu_out)
    \/ rst /\ behind_io_access

\* The address of both memories' data ports.
mem_addr ==
    IF uart_tran \/ instr_ex.op \in {"LOAD", "STORE"}
    THEN Low(alu_mux_value) ELSE Low(alu_reg_out)

store_out == b_fwd_out

-----------------------------------------------------------------------------
(* One clock edge.                                                         *)

Memories(rst) ==
    /\ dmem' = IF will_write /\ ~dmem_off(rst) THEN [dmem EXCEPT ![mem_addr] = store_out]
               ELSE dmem
    /\ dmem_douta' = dmem[mem_addr]
    /\ imem' = IF imem_on THEN [imem EXCEPT ![mem_addr] = Decode[store_out]] ELSE imem
    /\ bios_doutb' = BiosData[Low(alu_out)]
    /\ rf' = IF rf_wen THEN [rf EXCEPT ![rf_wa] = rf_wd] ELSE rf
    /\ rf_wa' = IF instr_ex.op \in {"STORE", "BRANCH"} THEN 0 ELSE instr_ex.rd
    /\ csr_ram' = IF csr_wen THEN csr_reg_out ELSE csr_ram
    /\ UNCHANGED bios

Environment ==
    /\ uart' \in UartInputs
    /\ io' = IF uart_tran THEN Append(io, <<"tx", to_load>>)
             ELSE IF uart_rec THEN Append(io, <<"rx">>) ELSE io

Tick ==
    /\ Memories(FALSE)
    /\ F!Clock(branch, target)
    /\ alu_reg_out' = alu_mux_value
    /\ csr_reg_out' = csr_mux_value
    /\ to_load' = store_out
    /\ cycle' = IF reset_ctr THEN 0 ELSE (cycle + 1) % CounterMod
    /\ instr_cnt' = IF reset_ctr THEN 0
                    ELSE IF instr_wb.op = "NONE" THEN (instr_cnt - 1) % CounterMod
                    ELSE instr_cnt
    /\ Environment

\* An edge with rst high: rst reaches neither the memories, their read
\* registers and the register file nor cycle_ctr_reg.
Reset ==
    /\ Len(io) < MaxIo
    /\ Memories(TRUE)
    /\ F!ResetClock
    /\ alu_reg_out' = 0
    /\ csr_reg_out' = 0
    /\ to_load' = 0
    /\ cycle' = IF reset_ctr THEN 0 ELSE (cycle + 1) % CounterMod
    /\ instr_cnt' = 0
    /\ Environment

Init ==
    /\ \E program \in Programs : bios = program[1] /\ imem = program[2]
    /\ pc = RESET_PC /\ pc_ex = RESET_PC /\ pc_wb = RESET_PC
    /\ bios_douta = Zero /\ imem_doutb = Zero
    /\ instr_ex = Zero /\ instr_wb = Zero
    /\ branch_wb = FALSE /\ prev_stall = FALSE /\ prev_prev_stall = FALSE
    /\ arch = RESET_PC /\ slot = "reset"
    /\ rf \in InitRegs
    /\ rf_wa = 0
    /\ alu_reg_out = 0 /\ csr_reg_out = 0 /\ to_load = 0
    /\ dmem \in InitDmem
    /\ dmem_douta = 0 /\ bios_doutb = 0
    /\ csr_ram = 0
    /\ cycle = 0 /\ instr_cnt = 0
    /\ uart \in UartInputs
    /\ io = <<>>

Next == Tick \/ Reset

\* Power-up without the reset button, as the refinement is stated.
Run == Init /\ [][Tick]_vars /\ WF_vars(Tick)

Spec == Init /\ [][Next]_vars /\ WF_vars(Tick)

-----------------------------------------------------------------------------
(* What a program sees: the effects of the instruction in WB are counted   *)
(* as done.                                                                *)

ArchRegs == IF rf_wen THEN [rf EXCEPT ![rf_wa] = rf_wd] ELSE rf
ArchCsr  == IF csr_wen THEN csr_reg_out ELSE csr_ram
ArchIo   == IF uart_tran THEN Append(io, <<"tx", to_load>>)
            ELSE IF uart_rec THEN Append(io, <<"rx">>) ELSE io

Arch == INSTANCE Isa WITH pc <- arch, regs <- ArchRegs, csr <- ArchCsr, io <- ArchIo

\* The registers an instruction reads.
Reads(i) ==
    (IF i.op \in {"R", "I", "LOAD", "STORE", "BRANCH", "JALR", "CSR"} THEN {i.rs1} ELSE {})
    \cup (IF i.op \in {"R", "STORE", "BRANCH"} THEN {i.rs2} ELSE {})

\* What the circuit supports, of the two instructions in EX and WB.  If EX reads
\* what WB writes: a CSR's result is not forwarded, nor a loaded address of a
\* store, and wb_mux has no input for the status and the counters.
Resolved ==
    instr_wb.rd # 0 /\ instr_wb.rd \in Reads(instr_ex) =>
        /\ instr_wb.op # "CSR"
        /\ ~(instr_wb.op = "LOAD" /\ instr_ex.op = "STORE" /\ instr_wb.rd = instr_ex.rs1)
        /\ ~uart_control /\ ~cycle_ctr /\ ~instr_ctr

\* data_hazard takes the address field of a CSR instruction for rs2.
CsrApart ==
    instr_ex.op = "CSR" /\ instr_wb.op \in {"LOAD"} \cup AluOps =>
        instr_wb.rd = 0 \/ instr_wb.rd # instr_ex.rs2

\* A store leaves the data memory alone, and reaches the instruction memory,
\* only behind an access to the data regions; a status load reads the CSR.
Decoded ==
    /\ instr_ex.op = "STORE" => /\ Arch!IsImem(alu_out) => behind_data_access
                                /\ alu_out = RESET_CTR => in_bios_region
    /\ instr_ex.op = "LOAD" /\ alu_out = UART_CONTROL => instr_ex.rd = 0

\* Types of the data path's state.
TypeOK ==
    /\ F!TypeOK
    /\ rf \in [Regs -> Word] /\ rf[0] = 0
    /\ rf_wa \in Regs
    /\ {alu_reg_out, csr_reg_out, to_load, dmem_douta, bios_doutb, csr_ram} \subseteq Word
    /\ dmem \in [Index -> Word]
    /\ cycle \in 0 .. CounterMod - 1 /\ instr_cnt \in 0 .. CounterMod - 1
    /\ uart \in UartInputs

\* The data path keeps to what the front end's correctness rests on, resets
\* included: only a store of BIOS code, still in EX, writes the instruction
\* memory, and one word of it.
OnlyBiosWritesImem == [][F!ImemPort]_vars

\* fpga_project.tex:283-285, data_hazard.v:60-66: every operand of the
\* instruction in EX, a store's address included, is what the program order says.
OperandsForwarded ==
    slot = "live" /\ Resolved =>
        /\ instr_ex.op \in {"R", "I", "LOAD", "STORE", "BRANCH", "JALR", "CSR"}
             => a_fwd_out = ArchRegs[instr_ex.rs1]
        /\ instr_ex.op \in {"R", "STORE", "BRANCH"} => b_fwd_out = ArchRegs[instr_ex.rs2]

\* The pipeline implements the architecture: a word that leaves EX live does
\* exactly one step of the Isa, with the operands its predecessors computed, and
\* every other clock leaves what the program sees unchanged.  Left out are the
\* edges with rst high, the leftover word a reset executes (finding 1), and
\* what the circuit does not support.
ImplementsIsa ==
    /\ Arch!Init
    /\ [][/\ slot' # "reset"
          /\ slot = "stale" => instr_ex = Zero
          /\ Resolved /\ CsrApart /\ Decoded
          => IF slot = "live" THEN Arch!Step ELSE UNCHANGED Arch!vars]_vars

\* The address a store drives is rs1 plus the immediate.
StoreAddress ==
    slot = "live" /\ instr_ex.op = "STORE" =>
        alu_mux_value = Plus(ArchRegs[instr_ex.rs1], instr_ex.imm)

\* fpga_project.tex:445-449: a load from the I/O map returns what the device
\* presents.
LoadsReturnDevice ==
    rf_wen => /\ uart_control => rf_wd = uart.status
              /\ cycle_ctr => rf_wd = cycle
              /\ instr_ctr => rf_wd = instr_cnt
=============================================================================

--------------------------- MODULE Riscv151Proofs ---------------------------
(***************************************************************************)
(* The core executes its program as the architecture Isa does, for every   *)
(* program, memory size, register file, behaviour of the UART and reset.   *)
(*                                                                         *)
(* What the pipe holds is the front end's business: the phases of          *)
(* FetchProofs are taken over as they stand, with the data path as the     *)
(* environment that chooses branches, targets and stores.                  *)
(***************************************************************************)
EXTENDS Riscv151, TLAPS

FP == INSTANCE FetchProofs WITH PCs <- Word, BiosAddrs <- Index, ImemAddrs <- Index,
                                BiosAddr <- LowBits, ImemAddr <- LowBits

-----------------------------------------------------------------------------
(* Words, addresses and the address map.                                   *)

\* Arithmetic stays within words, and addresses within memories.
LEMMA PlusType == ASSUME NEW a \in Word, NEW b \in Word PROVE Plus(a, b) \in Word
BY Rv32Assumption, SMT DEF Plus, Word, WordMod

LEMMA PlusZero == ASSUME NEW a \in Word PROVE Plus(a, 0) = a
<1>1. WordMod \in Nat /\ WordMod > 0 /\ a \in Nat /\ a < WordMod
  BY Rv32Assumption, SMT DEF Word, WordMod
<1> QED
  BY <1>1, SMT DEF Plus

LEMMA MinusType == ASSUME NEW a \in Word, NEW b \in Word PROVE Minus(a, b) \in Word
BY Rv32Assumption, SMT DEF Minus, Word, WordMod

LEMMA LowType == ASSUME NEW a \in Word PROVE Low(a) \in Index
BY Rv32Assumption, SMT DEF Low, Word, WordMod, Index

LEMMA ZeroOneWords == 0 \in Word /\ 1 \in Word
BY Rv32Assumption, SMT DEF Word, WordMod

LEMMA NibbleType == ASSUME NEW a \in Word PROVE Nibble(a) \in 0 .. 15
<1>1. /\ a \in Nat /\ IndexSize \in Nat /\ IndexSize > 0
      /\ a < IndexSize * 16
  BY Rv32Assumption, SMT DEF Word, WordMod
<1> QED
  BY <1>1, SMT DEF Nibble

\* The devices of the I/O map are six words of region 8.
LEMMA IoMap ==
    /\ {UART_CONTROL, UART_RX, UART_TX, CYCLE_CTR, INSTR_CTR, RESET_CTR} \subseteq Word
    /\ UART_CONTROL \notin {UART_RX, UART_TX, CYCLE_CTR, INSTR_CTR, RESET_CTR}
    /\ UART_RX \notin {UART_TX, CYCLE_CTR, INSTR_CTR, RESET_CTR}
    /\ UART_TX \notin {CYCLE_CTR, INSTR_CTR, RESET_CTR}
    /\ CYCLE_CTR # INSTR_CTR
    /\ Nibble(UART_CONTROL) = 8 /\ Nibble(UART_RX) = 8 /\ Nibble(UART_TX) = 8
    /\ Nibble(CYCLE_CTR) = 8 /\ Nibble(INSTR_CTR) = 8 /\ Nibble(RESET_CTR) = 8
<1> USE Rv32Assumption
        DEF UART_CONTROL, UART_RX, UART_TX, CYCLE_CTR, INSTR_CTR, RESET_CTR
<1>1. {UART_CONTROL, UART_RX, UART_TX, CYCLE_CTR, INSTR_CTR, RESET_CTR} \subseteq Word
  BY SMT DEF Word, WordMod
<1>2. /\ Nibble(UART_CONTROL) = 8 /\ Nibble(UART_RX) = 8 /\ Nibble(UART_TX) = 8
      /\ Nibble(CYCLE_CTR) = 8 /\ Nibble(INSTR_CTR) = 8 /\ Nibble(RESET_CTR) = 8
  BY SMT DEF Nibble
<1> QED
  BY <1>1, <1>2, SMT

\* The address bits that tell the regions apart, by region.
LEMMA RegionBits ==
    ASSUME NEW a \in Word
    PROVE  /\ Bit31(a) <=> Nibble(a) >= 8
           /\ ~Bit31(a) /\ ~Bit30(a) <=> Nibble(a) \in 0 .. 3
           /\ ~Bit31(a) /\ ~Bit30(a) /\ Bit29(a) <=> Nibble(a) \in {2, 3}
           /\ ~Bit31(a) /\ ~Bit30(a) /\ Bit28(a) <=> Nibble(a) \in {1, 3}
           /\ Bit28(a) <=> Nibble(a) \in {1, 3, 5, 7, 9, 11, 13, 15}
           /\ Bit30(a) <=> Nibble(a) \in {4, 5, 6, 7, 12, 13, 14, 15}
<1>1. PICK n \in 0 .. 15 : n = Nibble(a)
  BY NibbleType
<1> QED
  BY <1>1, SMT DEF Bit31, Bit30, Bit29, Bit28

\* An instruction word has its fields.
LEMMA InstrType ==
    ASSUME NEW i \in Instr
    PROVE  i.op \in Ops /\ i.rd \in Regs /\ i.rs1 \in Regs /\ i.rs2 \in Regs /\ i.imm \in Word
BY Rv32Assumption

LEMMA AluType ==
    ASSUME NEW i, NEW a \in Word, NEW b \in Word PROVE Alu(i, a, b) \in Word
BY PlusType, MinusType DEF Alu

\* The core's constants are what the front end needs.
LEMMA FrontEndConstants == FP!FetchAssumption
<1>1. Plus4 \in [Word -> Word]
  BY PlusType, ZeroOneWords DEF Plus4
<1>2. LowBits \in [Word -> Index]
  BY LowType DEF LowBits
<1>3. {NOP, Zero} \subseteq Instr \ (Jumps \cup Branches \cup Stores)
  BY Rv32Assumption DEF NOP, Zero, Jumps, Branches, Stores
<1> QED
  BY <1>1, <1>2, <1>3, Riscv151Assumption
     DEF FP!FetchAssumption, BiosPCs, Jumps, Branches, Stores

\* The names of the front end's definitions, in Riscv151 and in its proofs.
LEMMA SameFrontEnd ==
    /\ F!TypeOK <=> FP!TypeOK
    /\ F!InOrder <=> FP!InOrder
    /\ F!InRegion <=> FP!InRegion
    /\ F!ImemPort <=> FP!ImemPort
    /\ F!ResetClock <=> FP!ResetClock
    /\ \A b, t : F!Clock(b, t) <=> FP!Clock(b, t)
BY DEF F!TypeOK, FP!TypeOK, F!InOrder, FP!InOrder, F!InRegion, FP!InRegion, F!Memory,
       FP!Memory, F!ImemPort, FP!ImemPort, F!ResetClock, FP!ResetClock, F!Clock, FP!Clock,
       F!pc_next, FP!pc_next, F!instr_if, FP!instr_if, F!stall, FP!stall, F!kill, FP!kill,
       F!jump, FP!jump, F!Redirects, FP!Redirects

-----------------------------------------------------------------------------
(* Types of what the Verilog computes between two edges.                   *)

\* What wb_mux selects, by the instruction in WB.
Selected ==
    /\ instr_wb.op \in {"JAL", "JALR"} => rf_wd = pc_wb
    /\ instr_wb.op \in {"R", "I", "LUI", "AUIPC"} => rf_wd = alu_reg_out
    /\ uart_control => rf_wd = csr_ram
    /\ uart_rec => rf_wd = ldx_out
    /\ cycle_ctr => rf_wd = alu_reg_out
    /\ instr_ctr => rf_wd = pc_wb
    /\ read /\ ~uart_control /\ ~uart_rec /\ ~cycle_ctr /\ ~instr_ctr => rf_wd = ldx_out
    /\ instr_wb.op \in {"STORE", "BRANCH", "CSR", "NONE"} => rf_wd = csr_ram

LEMMA WriteBackSource == Selected
<1>1. /\ instr_wb.op \in {"JAL", "JALR"} => wb_sel = 3 % 4
      /\ instr_wb.op \in {"R", "I", "LUI", "AUIPC"} => wb_sel = 2 % 4
      /\ uart_control => wb_sel = 4 % 4
      /\ uart_rec => wb_sel = 5 % 4
      /\ cycle_ctr => wb_sel = 6 % 4
      /\ instr_ctr => wb_sel = 7 % 4
      /\ read /\ ~uart_control /\ ~uart_rec /\ ~cycle_ctr /\ ~instr_ctr => wb_sel = 1 % 4
      /\ instr_wb.op \in {"STORE", "BRANCH", "CSR", "NONE"} => wb_sel = 0 % 4
  BY IoMap DEF wb_sel, uart_control, uart_rec, cycle_ctr, instr_ctr, read
<1>2. /\ 0 % 4 = 0 /\ 1 % 4 = 1 /\ 2 % 4 = 2 /\ 3 % 4 = 3
      /\ 4 % 4 = 0 /\ 5 % 4 = 1 /\ 6 % 4 = 2 /\ 7 % 4 = 3
  BY SMT
<1> QED
  BY <1>1, <1>2, SMT DEF rf_wd, Selected

\* Whatever WB holds, the value it offers the register file is a word.
WordWritten == TypeOK => ldx_out \in Word /\ rf_wd \in Word

LEMMA WriteBackType == WordWritten
<1> SUFFICES ASSUME TypeOK PROVE ldx_out \in Word /\ rf_wd \in Word
  BY DEF WordWritten
<1>0. FP!TypeOK
  BY SameFrontEnd DEF TypeOK
<1>1. pc_wb \in Word /\ instr_wb.op \in Ops
  BY <1>0, InstrType DEF FP!TypeOK
<1>2. uart.status \in Word /\ uart.rdata \in Word
  BY Riscv151Assumption DEF TypeOK
<1>3. ldx_out \in Word
  BY <1>2 DEF ldx_out, TypeOK
<1>4. csr_ram \in Word /\ alu_reg_out \in Word
  BY DEF TypeOK
<1> QED
  BY <1>1, <1>3, <1>4, WriteBackSource DEF Selected, Ops, read

\* Operands, results, store data and addresses have their types.
LEMMA ExTypes ==
    ASSUME TypeOK
    PROVE  /\ rf_ra1 \in Regs /\ rf_ra2 \in Regs
           /\ a_fwd_out \in Word /\ b_fwd_out \in Word
           /\ alu_out \in Word /\ alu_mux_value \in Word /\ csr_mux_value \in Word
           /\ store_out \in Word /\ target \in Word /\ mem_addr \in Index
           /\ branch \in BOOLEAN
<1>0. FP!TypeOK
  BY SameFrontEnd DEF TypeOK
<1>1. /\ pc_wb \in Word
      /\ instr_ex.rd \in Regs /\ instr_ex.rs1 \in Regs /\ instr_ex.rs2 \in Regs
      /\ instr_ex.imm \in Word
  BY <1>0, InstrType DEF FP!TypeOK
<1>2. rf_ra1 \in Regs /\ rf_ra2 \in Regs
  BY <1>1, Rv32Assumption DEF rf_ra1, rf_ra2
<1>3. /\ fwd_a \in {"rf", "alu_reg_out", "ldx_out"}
      /\ fwd_b \in {"rf", "alu_reg_out", "ldx_out"}
  BY DEF fwd_a, fwd_b, Source
<1>4. a_fwd_out \in Word /\ b_fwd_out \in Word
  BY <1>2, <1>3, WriteBackType DEF WordWritten, a_fwd_out, b_fwd_out, Operand, TypeOK
<1>5. a_sel_out \in Word /\ b_sel_out \in Word
  BY <1>1, <1>4 DEF a_sel_out, b_sel_out
<1>6. alu_out \in Word
  BY <1>5, AluType DEF alu_out
<1>7. alu_mux_value \in Word /\ csr_mux_value \in Word
  BY <1>1, <1>6, WriteBackType DEF WordWritten, alu_mux_value, csr_mux_value
<1>8. store_out \in Word /\ target \in Word
  BY <1>1, <1>4, <1>6, PlusType DEF store_out, target
<1>9. mem_addr \in Index
  BY <1>7, LowType DEF mem_addr, TypeOK
<1>10. branch \in BOOLEAN
  <2>1. CASE instr_ex.fn = "beq"
    BY <2>1 DEF branch, Taken
  <2>2. CASE instr_ex.fn = "bne"
    BY <2>2 DEF branch, Taken
  <2>3. CASE instr_ex.fn = "bltu"
    BY <2>3 DEF branch, Taken
  <2>4. CASE instr_ex.fn \notin {"beq", "bne", "bltu"}
    BY <2>4 DEF branch, Taken
  <2> QED
    BY <2>1, <2>2, <2>3, <2>4
<1> QED
  BY <1>2, <1>4, <1>6, <1>7, <1>8, <1>9, <1>10

-----------------------------------------------------------------------------
(* The data path is an environment the front end allows for.               *)

\* A write to the instruction memory is a store's, and BIOS code's.
LEMMA ImemWrite ==
    ASSUME TypeOK, NEW rst \in BOOLEAN, Memories(rst)
    PROVE  FP!ImemPort
<1>1. CASE ~imem_on
  BY <1>1 DEF Memories, FP!ImemPort
<1>2. CASE imem_on
  <2>1. instr_ex \in Stores /\ pc_wb \in BiosPCs
    BY <1>2, SameFrontEnd
       DEF imem_on, will_write, in_bios_region, Stores, BiosPCs, TypeOK, FP!TypeOK
  <2>2. mem_addr \in Index /\ Decode[store_out] \in Instr
    BY ExTypes, Rv32Assumption
  <2> QED
    BY <1>2, <2>1, <2>2 DEF Memories, FP!ImemPort
<1> QED
  BY <1>1, <1>2

\* Every step of the core is a step of the front end.
LEMMA FrontEndStep ==
    ASSUME TypeOK, [Next]_vars
    PROVE  [FP!Next]_(FP!vars)
<1>1. CASE Tick
  BY <1>1, ExTypes, ImemWrite, SameFrontEnd DEF Tick, FP!Next, FP!Tick
<1>2. CASE Reset
  BY <1>2, ImemWrite, SameFrontEnd DEF Reset, FP!Next, FP!Reset
<1>3. CASE UNCHANGED vars
  BY <1>3 DEF vars, frontend, FP!vars, FP!circuit
<1> QED
  BY <1>1, <1>2, <1>3 DEF Next

\* The core powers up as the front end does.
LEMMA FrontEndInit == Init => FP!Init
BY Riscv151Assumption, Rv32Assumption DEF Init, FP!Init

-----------------------------------------------------------------------------
(* Types.                                                                  *)

\* Memories and register file keep their types, and x0 stays zero.
LEMMA MemoryTypes ==
    ASSUME TypeOK, NEW rst \in BOOLEAN, Memories(rst)
    PROVE  /\ rf' \in [Regs -> Word] /\ rf'[0] = 0 /\ rf_wa' \in Regs
           /\ dmem' \in [Index -> Word]
           /\ dmem_douta' \in Word /\ bios_doutb' \in Word /\ csr_ram' \in Word
<1>0. instr_ex \in Instr
  BY SameFrontEnd DEF TypeOK, FP!TypeOK
<1>1. rf' \in [Regs -> Word] /\ rf'[0] = 0
  BY WriteBackType DEF WordWritten, Memories, TypeOK, rf_wen
<1>2. rf_wa' \in Regs
  BY <1>0, InstrType, Rv32Assumption DEF Memories
<1>3. dmem' \in [Index -> Word] /\ dmem_douta' \in Word
  BY ExTypes DEF Memories, TypeOK
<1>4. bios_doutb' \in Word
  BY ExTypes, LowType, Riscv151Assumption DEF Memories
<1>5. csr_ram' \in Word
  BY DEF Memories, TypeOK
<1> QED
  BY <1>1, <1>2, <1>3, <1>4, <1>5

\* The counters stay below their modulus.
LEMMA CounterTypes ==
    ASSUME NEW c \in 0 .. CounterMod - 1
    PROVE  /\ (c + 1) % CounterMod \in 0 .. CounterMod - 1
           /\ (c - 1) % CounterMod \in 0 .. CounterMod - 1
           /\ 0 \in 0 .. CounterMod - 1
BY Riscv151Assumption, SMT

\* Every step keeps the types.
LEMMA TypeStep == TypeOK /\ [Next]_vars => TypeOK'
<1> SUFFICES ASSUME TypeOK, [Next]_vars PROVE TypeOK'
  OBVIOUS
<1>1. F!TypeOK'
  <2>1. FP!TypeOK'
    BY FrontEndStep, FrontEndConstants, SameFrontEnd, FP!TypeStep DEF TypeOK
  <2> QED
    BY <2>1 DEF F!TypeOK, FP!TypeOK
<1>2. cycle \in 0 .. CounterMod - 1 /\ instr_cnt \in 0 .. CounterMod - 1
  BY DEF TypeOK
<1>3. CASE Tick
  <2>1. cycle' \in 0 .. CounterMod - 1 /\ instr_cnt' \in 0 .. CounterMod - 1
    BY <1>2, <1>3, CounterTypes DEF Tick
  <2>2. alu_reg_out' \in Word /\ csr_reg_out' \in Word /\ to_load' \in Word
    BY <1>3, ExTypes DEF Tick
  <2> QED
    BY <1>1, <1>3, <2>1, <2>2, MemoryTypes DEF Tick, Environment, TypeOK
<1>4. CASE Reset
  <2>1. cycle' \in 0 .. CounterMod - 1 /\ instr_cnt' \in 0 .. CounterMod - 1
    BY <1>2, <1>4, CounterTypes DEF Reset
  <2>2. alu_reg_out' \in Word /\ csr_reg_out' \in Word /\ to_load' \in Word
    BY <1>4, ZeroOneWords DEF Reset
  <2> QED
    BY <1>1, <1>4, <2>1, <2>2, MemoryTypes DEF Reset, Environment, TypeOK
<1>5. CASE UNCHANGED vars
  BY <1>1, <1>5 DEF vars, backend, TypeOK
<1> QED
  BY <1>3, <1>4, <1>5 DEF Next

LEMMA TypeInit == Init => TypeOK
<1> SUFFICES ASSUME Init PROVE TypeOK
  OBVIOUS
<1>1. F!TypeOK
  BY FrontEndInit, FrontEndConstants, FP!Initial, SameFrontEnd DEF FP!IInv
<1>2. cycle \in 0 .. CounterMod - 1 /\ instr_cnt \in 0 .. CounterMod - 1
  BY Riscv151Assumption, SMT DEF Init
<1> QED
  BY <1>1, <1>2, Riscv151Assumption, Rv32Assumption, ZeroOneWords DEF Init, TypeOK

-----------------------------------------------------------------------------
(* Forwarding.                                                             *)

\* rf_wa_reg holds the destination of the word in WB, 0 if it has none.
DestinationKept ==
    instr_wb.op # "NONE" =>
        rf_wa = IF instr_wb.op \in {"STORE", "BRANCH"} THEN 0 ELSE instr_wb.rd

\* Behind a jump or a taken branch EX is empty.
NothingBehindJump == slot = "live" => ~FP!Redirects(instr_wb, branch_wb)

DataInv == TypeOK /\ DestinationKept /\ NothingBehindJump

LEMMA DataStep == DataInv /\ [Next]_vars => DataInv'
<1> SUFFICES ASSUME DataInv, [Next]_vars PROVE DataInv'
  OBVIOUS
<1>0. TypeOK /\ TypeOK'
  BY TypeStep DEF DataInv
<1>1. CASE Tick
  <2>1. FP!Clock(branch, target)
    BY <1>1, SameFrontEnd DEF Tick
  <2>2. DestinationKept'
    BY <1>1, <2>1 DEF Tick, Memories, FP!Clock, DestinationKept
  <2>3. NothingBehindJump'
    BY <2>1 DEF FP!Clock, NothingBehindJump, FP!stall, FP!jump, FP!Redirects
  <2> QED
    BY <1>0, <2>2, <2>3 DEF DataInv
<1>2. CASE Reset
  <2>1. FP!ResetClock
    BY <1>2, SameFrontEnd DEF Reset
  <2> QED
    BY <1>0, <2>1 DEF FP!ResetClock, DataInv, DestinationKept, NothingBehindJump, Zero
<1>3. CASE UNCHANGED vars
  BY <1>0, <1>3
     DEF vars, frontend, backend, DataInv, DestinationKept, NothingBehindJump, FP!Redirects
<1> QED
  BY <1>1, <1>2, <1>3 DEF Next

LEMMA DataInit == Init => DataInv
BY TypeInit DEF Init, DataInv, DestinationKept, NothingBehindJump, Zero

\* Behind the word in WB the program finds a register as the register file has
\* it, unless it is the destination of that word.
LEMMA NotWritten ==
    ASSUME DataInv, NEW r \in Regs,
           ~Hit(r) \/ instr_wb.op \in {"STORE", "BRANCH", "NONE"}
    PROVE  ArchRegs[r] = rf[r]
BY DEF DataInv, TypeOK, DestinationKept, Hit, ArchRegs, rf_wen

LEMMA Written ==
    ASSUME DataInv, NEW r \in Regs, Hit(r), instr_wb.op \notin {"STORE", "BRANCH", "NONE"}
    PROVE  ArchRegs[r] = rf_wd
BY DEF DataInv, TypeOK, DestinationKept, Hit, ArchRegs, rf_wen

\* What EX takes for a register it reads is what the program order says.
LEMMA Forwarding ==
    ASSUME DataInv, slot = "live", Resolved
    PROVE  /\ instr_ex.op \in {"R", "I", "LOAD", "STORE", "BRANCH", "JALR", "CSR"}
                => a_fwd_out = ArchRegs[instr_ex.rs1]
           /\ instr_ex.op \in {"R", "STORE", "BRANCH"} => b_fwd_out = ArchRegs[instr_ex.rs2]
<1>0. /\ instr_ex \in Instr /\ instr_wb \in Instr
      /\ instr_wb.op \in Ops \ {"JAL", "JALR"}
      /\ instr_ex.rs1 \in Regs /\ instr_ex.rs2 \in Regs
  <2>1. instr_ex \in Instr /\ instr_wb \in Instr
    BY SameFrontEnd DEF DataInv, TypeOK, FP!TypeOK
  <2> QED
    BY <2>1, InstrType DEF DataInv, NothingBehindJump, FP!Redirects, Jumps
<1>1. ASSUME instr_ex.op \in {"R", "I", "LOAD", "STORE", "BRANCH", "JALR", "CSR"}
      PROVE  a_fwd_out = ArchRegs[instr_ex.rs1]
  <2>1. rf_ra1 = instr_ex.rs1 /\ instr_ex.rs1 \in Reads(instr_ex)
    BY <1>1 DEF rf_ra1, Reads
  <2>2. CASE ~Hit(instr_ex.rs1) \/ instr_wb.op \in {"STORE", "BRANCH", "NONE"}
    <3>1. fwd_a = "rf"
      BY <1>0, <2>2 DEF fwd_a, Source, ForwardsA, AluOps
    <3> QED
      BY <1>0, <2>1, <2>2, <3>1, NotWritten DEF a_fwd_out, Operand
  <2>3. CASE Hit(instr_ex.rs1) /\ instr_wb.op = "LOAD"
    <3>1. fwd_a = "ldx_out"
      BY <1>1, <2>1, <2>3 DEF fwd_a, Source, ForwardsA, RegRegOps, ImmOps, Hit, Resolved
    <3>2. rf_wd = ldx_out
      BY <2>1, <2>3, WriteBackSource DEF Selected, Hit, Resolved, read
    <3> QED
      BY <1>0, <2>3, <3>1, <3>2, Written DEF a_fwd_out, Operand
  <2>4. CASE Hit(instr_ex.rs1) /\ instr_wb.op \in {"R", "I", "LUI", "AUIPC"}
    <3>1. fwd_a = "alu_reg_out"
      BY <1>1, <2>4 DEF fwd_a, Source, ForwardsA, AluOps, RegRegOps, ImmOps
    <3>2. rf_wd = alu_reg_out
      BY <2>4, WriteBackSource DEF Selected
    <3> QED
      BY <1>0, <2>4, <3>1, <3>2, Written DEF a_fwd_out, Operand
  <2>5. ~(Hit(instr_ex.rs1) /\ instr_wb.op = "CSR")
    BY <2>1 DEF Hit, Resolved
  <2> QED
    BY <1>0, <2>2, <2>3, <2>4, <2>5 DEF Ops
<1>2. ASSUME instr_ex.op \in {"R", "STORE", "BRANCH"}
      PROVE  b_fwd_out = ArchRegs[instr_ex.rs2]
  <2>1. rf_ra2 = instr_ex.rs2 /\ instr_ex.rs2 \in Reads(instr_ex)
    BY <1>2 DEF rf_ra2, Reads
  <2>2. CASE ~Hit(instr_ex.rs2) \/ instr_wb.op \in {"STORE", "BRANCH", "NONE"}
    <3>1. fwd_b = "rf"
      BY <1>0, <2>2 DEF fwd_b, Source, ForwardsB, AluOps
    <3> QED
      BY <1>0, <2>1, <2>2, <3>1, NotWritten DEF b_fwd_out, Operand
  <2>3. CASE Hit(instr_ex.rs2) /\ instr_wb.op = "LOAD"
    <3>1. fwd_b = "ldx_out"
      BY <1>2, <2>3 DEF fwd_b, Source, ForwardsB, RegRegOps
    <3>2. rf_wd = ldx_out
      BY <2>1, <2>3, WriteBackSource DEF Selected, Hit, Resolved, read
    <3> QED
      BY <1>0, <2>3, <3>1, <3>2, Written DEF b_fwd_out, Operand
  <2>4. CASE Hit(instr_ex.rs2) /\ instr_wb.op \in {"R", "I", "LUI", "AUIPC"}
    <3>1. fwd_b = "alu_reg_out"
      BY <1>2, <2>4 DEF fwd_b, Source, ForwardsB, AluOps, RegRegOps
    <3>2. rf_wd = alu_reg_out
      BY <2>4, WriteBackSource DEF Selected
    <3> QED
      BY <1>0, <2>4, <3>1, <3>2, Written DEF b_fwd_out, Operand
  <2>5. ~(Hit(instr_ex.rs2) /\ instr_wb.op = "CSR")
    BY <2>1 DEF Hit, Resolved
  <2> QED
    BY <1>0, <2>2, <2>3, <2>4, <2>5 DEF Ops
<1> QED
  BY <1>1, <1>2

-----------------------------------------------------------------------------
(* The refinement of Isa.                                                  *)

\* The names of the words' definitions, in the core and in the architecture.
LEMMA SameWords ==
    /\ \A a, b : Arch!Plus(a, b) = Plus(a, b)
    /\ \A i, a, b : Arch!Alu(i, a, b) = Alu(i, a, b)
    /\ \A a : Arch!Low(a) = Low(a) /\ Arch!Nibble(a) = Nibble(a)
    /\ Arch!Word = Word /\ Arch!Index = Index
    /\ Arch!UART_CONTROL = UART_CONTROL /\ Arch!UART_RX = UART_RX
    /\ Arch!UART_TX = UART_TX /\ Arch!RESET_CTR = RESET_CTR
<1> USE DEF Arch!WordMod, WordMod
<1>1. \A a, b : Arch!Plus(a, b) = Plus(a, b) /\ Arch!Minus(a, b) = Minus(a, b)
  BY DEF Arch!Plus, Plus, Arch!Minus, Minus
<1>2. \A i, a, b : Arch!Alu(i, a, b) = Alu(i, a, b)
  BY <1>1 DEF Arch!Alu, Alu
<1>3. \A a : Arch!Low(a) = Low(a) /\ Arch!Nibble(a) = Nibble(a)
  BY DEF Arch!Low, Low, Arch!Nibble, Nibble
<1>4. /\ Arch!Word = Word /\ Arch!Index = Index
      /\ Arch!UART_CONTROL = UART_CONTROL /\ Arch!UART_RX = UART_RX
      /\ Arch!UART_TX = UART_TX /\ Arch!RESET_CTR = RESET_CTR
  BY DEF Arch!Word, Word, Arch!Index, Index, Arch!UART_CONTROL, UART_CONTROL,
         Arch!UART_RX, UART_RX, Arch!UART_TX, UART_TX, Arch!RESET_CTR, RESET_CTR
<1> QED
  BY <1>1, <1>2, <1>3, <1>4

\* EX holds the word the architecture fetches, with its PC and the next one.
LEMMA LiveWord ==
    ASSUME DataInv, FP!IInv, slot = "live"
    PROVE  /\ instr_ex \in Instr /\ arch \in Word
           /\ Arch!Fetched = instr_ex
           /\ pc_wb = arch
           /\ pc_ex = Plus(arch, 1)
<1>1. FP!Flow /\ FP!TypeOK
  BY DEF FP!IInv, FP!Phase, FP!AfterReset, FP!StaleSlot, FP!Shadow1, FP!Shadow2, FP!Shadow3
<1>2. instr_ex \in Instr /\ arch \in Word
  BY <1>1 DEF FP!TypeOK
<1>3. /\ pc_wb = arch /\ pc_ex = Plus4[arch] /\ instr_ex = FP!Memory(arch)
  BY <1>1 DEF FP!Flow
<1>4. /\ Plus4[arch] = Plus(arch, 1)
      /\ LowBits[arch] = Low(arch)
      /\ arch \in BiosPCs <=> Bit30(arch)
  BY <1>2 DEF Plus4, LowBits, BiosPCs
<1>5. Arch!Fetched = instr_ex
  <2>1. Arch!Nibble(arch) = Nibble(arch) /\ Arch!Low(arch) = Low(arch)
    BY SameWords
  <2> QED
    BY <1>3, <1>4, <2>1 DEF Arch!Fetched, FP!Memory, Arch!Bit30, Bit30
<1> QED
  BY <1>2, <1>3, <1>4, <1>5

\* The value the ALU computes for a live word, from what the program sees.
LEMMA AluValue ==
    ASSUME DataInv, FP!IInv, slot = "live", Resolved
    PROVE  /\ instr_ex.op = "R" =>
                alu_out = Alu(instr_ex, ArchRegs[instr_ex.rs1], ArchRegs[instr_ex.rs2])
           /\ instr_ex.op \in {"I", "LUI"} =>
                alu_out = Alu(instr_ex, ArchRegs[instr_ex.rs1], instr_ex.imm)
           /\ instr_ex.op = "AUIPC" => alu_out = Plus(arch, instr_ex.imm)
           /\ instr_ex.op \in {"LOAD", "STORE", "JALR"} =>
                alu_out = Plus(ArchRegs[instr_ex.rs1], instr_ex.imm)
           /\ alu_mux_value = alu_out
<1>1. instr_ex.op = "R" =>
        alu_out = Alu(instr_ex, ArchRegs[instr_ex.rs1], ArchRegs[instr_ex.rs2])
  BY Forwarding DEF alu_out, a_sel_out, b_sel_out
<1>2. instr_ex.op = "I" => alu_out = Alu(instr_ex, ArchRegs[instr_ex.rs1], instr_ex.imm)
  BY Forwarding DEF alu_out, a_sel_out, b_sel_out
<1>3. instr_ex.op = "LUI" => alu_out = Alu(instr_ex, ArchRegs[instr_ex.rs1], instr_ex.imm)
  BY DEF alu_out, b_sel_out, Alu
<1>4. instr_ex.op = "AUIPC" => alu_out = Plus(arch, instr_ex.imm)
  BY LiveWord DEF alu_out, a_sel_out, b_sel_out, Alu
<1>5. instr_ex.op \in {"LOAD", "STORE", "JALR"} =>
        alu_out = Plus(ArchRegs[instr_ex.rs1], instr_ex.imm)
  BY Forwarding DEF alu_out, a_sel_out, b_sel_out, Alu
<1>6. ~fwd_mem_addr
  BY DEF fwd_mem_addr, Resolved, Hit, Reads
<1> QED
  BY <1>1, <1>2, <1>3, <1>4, <1>5, <1>6 DEF alu_mux_value

\* A CSR instruction writes its register or its immediate.
LEMMA CsrValue ==
    ASSUME DataInv, FP!IInv, slot = "live", Resolved, CsrApart, instr_ex.op = "CSR"
    PROVE  csr_mux_value = IF instr_ex.fn = "csrrw" THEN ArchRegs[instr_ex.rs1] ELSE instr_ex.imm
<1>1. instr_ex \in Instr /\ instr_ex.fn \in {"csrrw", "csrrwi"}
  BY LiveWord, Rv32Assumption
<1>2. CASE instr_ex.fn = "csrrwi"
  BY <1>2 DEF csr_mux_value
<1>3. CASE instr_ex.fn = "csrrw"
  <2>1. instr_wb.op \notin {"JAL", "JALR"} /\ instr_wb \in Instr
    BY SameFrontEnd
       DEF DataInv, TypeOK, FP!TypeOK, NothingBehindJump, FP!Redirects, Jumps
  <2>2. fwd_b = "rf"
    BY <2>1 DEF fwd_b, Source, ForwardsB, Hit, CsrApart
  <2>3. b_fwd_out = 0
    BY <2>2 DEF b_fwd_out, Operand, rf_ra2, DataInv, TypeOK
  <2>4. a_fwd_out = ArchRegs[instr_ex.rs1] /\ a_fwd_out \in Word
    BY Forwarding, ExTypes DEF DataInv
  <2>5. Plus(a_fwd_out, 0) = a_fwd_out
    BY <2>4, PlusZero
  <2>6. alu_out = a_fwd_out
    BY <2>3, <2>5 DEF alu_out, a_sel_out, b_sel_out, Alu
  <2> QED
    BY <1>3, <2>4, <2>6, AluValue DEF csr_mux_value
<1> QED
  BY <1>1, <1>2, <1>3

\* After a clock edge the program sees the register file with the result of the
\* word that has moved to WB, whatever that word was.
LEMMA RegistersNext ==
    ASSUME DataInv, Tick
    PROVE  /\ instr_wb' = instr_ex
           /\ ArchRegs' = IF instr_ex.op \in {"STORE", "BRANCH", "NONE"} \/ instr_ex.rd = 0
                          THEN ArchRegs ELSE [ArchRegs EXCEPT ![instr_ex.rd] = rf_wd']
           /\ csr_ram' = ArchCsr
           /\ ArchCsr' = IF instr_ex.op = "CSR" THEN csr_mux_value ELSE ArchCsr
           /\ io' = ArchIo
<1>1. instr_wb' = instr_ex
  BY SameFrontEnd DEF Tick, FP!Clock
<1>2. rf' = ArchRegs
  BY DEF Tick, Memories, ArchRegs
<1>3. rf_wa' = IF instr_ex.op \in {"STORE", "BRANCH"} THEN 0 ELSE instr_ex.rd
  BY DEF Tick, Memories
<1>4. rf_wen' = (instr_ex.op \notin {"BRANCH", "NONE"} /\ rf_wa' # 0)
  BY <1>1 DEF rf_wen
<1>5. ArchRegs' = IF rf_wen' THEN [rf' EXCEPT ![rf_wa'] = rf_wd'] ELSE rf'
  BY DEF ArchRegs
<1>6. csr_ram' = ArchCsr /\ csr_reg_out' = csr_mux_value /\ io' = ArchIo
  BY DEF Tick, Memories, Environment, ArchCsr, ArchIo
<1>7. ArchCsr' = IF instr_ex.op = "CSR" THEN csr_reg_out' ELSE csr_ram'
  BY <1>1 DEF ArchCsr, csr_wen
<1> QED
  BY <1>1, <1>2, <1>3, <1>4, <1>5, <1>6, <1>7

LEMMA SelectedNext == Selected' /\ WordWritten'
BY WriteBackSource, WriteBackType, PTL

\* The regions of an address as the architecture names them.
LEMMA Regions ==
    ASSUME NEW a \in Word
    PROVE  /\ Arch!IsData(a) <=> Nibble(a) \in {1, 3}
           /\ Arch!IsBios(a) <=> Nibble(a) = 4
           /\ Arch!IsImem(a) <=> Nibble(a) \in {2, 3} /\ Bit30(arch)
<1>1. PICK n \in 0 .. 15 : n = Nibble(a)
  BY NibbleType
<1>2. Arch!Nibble(a) = n /\ Arch!Nibble(arch) = Nibble(arch)
  BY <1>1, SameWords
<1>3. Arch!Bit30(arch) <=> Bit30(arch)
  BY <1>2 DEF Arch!Bit30, Bit30
<1>4. /\ Arch!IsData(a) <=> n \in {1, 3}
      /\ Arch!IsBios(a) <=> n = 4
  BY <1>2, SMT DEF Arch!IsData, Arch!IsBios, Arch!Bit31, Arch!Bit30, Arch!Bit28
<1>5. ~Arch!Bit31(a) /\ ~Arch!Bit30(a) /\ Arch!Bit29(a) <=> n \in {2, 3}
  BY <1>2, SMT DEF Arch!Bit31, Arch!Bit30, Arch!Bit29
<1> QED
  BY <1>1, <1>3, <1>4, <1>5 DEF Arch!IsImem

\* A load returns what the address map names.
LEMMA LoadNext ==
    ASSUME DataInv, TypeOK', FP!IInv, Tick, slot = "live", Resolved, Decoded,
           instr_ex.op = "LOAD", instr_ex.rd # 0
    PROVE  rf_wd' \in Arch!LoadValues(Plus(ArchRegs[instr_ex.rs1], instr_ex.imm))
<1> DEFINE addr == Plus(ArchRegs[instr_ex.rs1], instr_ex.imm)
<1>1. addr = alu_out /\ alu_mux_value = alu_out /\ alu_out \in Word
  BY AluValue, ExTypes DEF DataInv
<1>2. alu_reg_out' = addr /\ instr_wb' = instr_ex
  BY <1>1, RegistersNext DEF Tick
<1>3. read'
  BY <1>2 DEF read
<1>4. /\ dmem_douta' = dmem[Low(addr)]
      /\ bios_doutb' = BiosData[Low(addr)]
  BY <1>1 DEF Tick, Memories, mem_addr
<1>5. uart' \in UartInputs
  BY DEF Tick, Environment
<1>6. /\ uart_control' <=> addr = UART_CONTROL
      /\ uart_rec' <=> addr = UART_RX
      /\ cycle_ctr' <=> addr = CYCLE_CTR
      /\ instr_ctr' <=> addr = INSTR_CTR
  BY <1>2, <1>3 DEF uart_control, uart_rec, cycle_ctr, instr_ctr
<1>7. Bit30(addr) <=> Nibble(addr) \in {4, 5, 6, 7, 12, 13, 14, 15}
  BY <1>1, RegionBits
<1>8. addr \in Word /\ Low(addr) = Arch!Low(addr)
  BY <1>1, SameWords
<1> HIDE DEF addr
<1>9. CASE Arch!IsData(addr)
  <2>1. Nibble(addr) \in {1, 3}
    BY <1>8, <1>9, Regions
  <2>2. rf_wd' = ldx_out' /\ ldx_out' = dmem_douta'
    BY <1>2, <1>3, <1>6, <1>7, <2>1, IoMap, SelectedNext DEF Selected, ldx_out
  <2> QED
    BY <1>4, <1>8, <1>9, <2>2 DEF Arch!LoadValues, addr
<1>10. CASE Arch!IsBios(addr)
  <2>1. Nibble(addr) = 4
    BY <1>8, <1>10, Regions
  <2>2. ~Arch!IsData(addr)
    BY <1>8, <2>1, Regions
  <2>3. rf_wd' = ldx_out' /\ ldx_out' = bios_doutb'
    BY <1>2, <1>3, <1>6, <1>7, <2>1, IoMap, SelectedNext DEF Selected, ldx_out
  <2> QED
    BY <1>4, <1>8, <1>10, <2>2, <2>3 DEF Arch!LoadValues, addr
<1>11. CASE addr = UART_RX
  <2>1. rf_wd' = ldx_out' /\ ldx_out' = uart'.rdata
    BY <1>2, <1>6, <1>7, <1>11, IoMap, SelectedNext DEF Selected, ldx_out
  <2>2. ~Arch!IsData(addr) /\ ~Arch!IsBios(addr)
    BY <1>8, <1>11, IoMap, Regions
  <2>3. addr # Arch!UART_CONTROL /\ addr = Arch!UART_RX
    BY <1>11, IoMap, SameWords
  <2> QED
    BY <1>5, <2>1, <2>2, <2>3 DEF Arch!LoadValues, addr
<1>12. addr # UART_CONTROL
  BY <1>1 DEF Decoded
<1>13. CASE ~Arch!IsData(addr) /\ ~Arch!IsBios(addr) /\ addr # UART_RX
  <2>1. rf_wd' \in Word
    BY SelectedNext DEF WordWritten
  <2>2. addr # Arch!UART_CONTROL /\ addr # Arch!UART_RX
    BY <1>12, <1>13, SameWords
  <2> QED
    BY <1>13, <2>1, <2>2, SameWords DEF Arch!LoadValues, addr
<1> QED
  BY <1>9, <1>10, <1>11, <1>13

\* The value a live word leaves for its destination is its result.
LEMMA ResultNext ==
    ASSUME DataInv, TypeOK', FP!IInv, Tick, slot = "live", Resolved, Decoded,
           instr_ex.op \notin {"STORE", "BRANCH", "NONE"}, instr_ex.rd # 0
    PROVE  rf_wd' \in Arch!Results(instr_ex)
<1>1. instr_wb' = instr_ex /\ csr_ram' = ArchCsr
  BY RegistersNext
<1>2. pc_wb' = pc_ex
  BY SameFrontEnd DEF Tick, FP!Clock
<1>3. alu_reg_out' = alu_mux_value
  BY DEF Tick
<1>4. instr_ex.op \in Ops
  BY LiveWord, InstrType
<1>5. CASE instr_ex.op = "R"
  <2>1. rf_wd' = Alu(instr_ex, ArchRegs[instr_ex.rs1], ArchRegs[instr_ex.rs2])
    BY <1>1, <1>3, <1>5, AluValue, SelectedNext DEF Selected
  <2> QED
    BY <1>5, <2>1, SameWords DEF Arch!Results
<1>6. CASE instr_ex.op \in {"I", "LUI"}
  <2>1. rf_wd' = Alu(instr_ex, ArchRegs[instr_ex.rs1], instr_ex.imm)
    BY <1>1, <1>3, <1>6, AluValue, SelectedNext DEF Selected
  <2> QED
    BY <1>6, <2>1, SameWords DEF Arch!Results
<1>7. CASE instr_ex.op = "AUIPC"
  <2>1. rf_wd' = Plus(arch, instr_ex.imm)
    BY <1>1, <1>3, <1>7, AluValue, SelectedNext DEF Selected
  <2> QED
    BY <1>7, <2>1, SameWords DEF Arch!Results
<1>8. CASE instr_ex.op \in {"JAL", "JALR"}
  <2>1. rf_wd' = Plus(arch, 1)
    BY <1>1, <1>2, <1>8, LiveWord, SelectedNext DEF Selected
  <2> QED
    BY <1>8, <2>1, SameWords DEF Arch!Results
<1>9. CASE instr_ex.op = "CSR"
  <2>1. rf_wd' = ArchCsr
    BY <1>1, <1>9, SelectedNext DEF Selected
  <2> QED
    BY <1>9, <2>1 DEF Arch!Results
<1>10. CASE instr_ex.op = "LOAD"
  BY <1>10, LoadNext, SameWords DEF Arch!Results
<1> QED
  BY <1>4, <1>5, <1>6, <1>7, <1>8, <1>9, <1>10 DEF Ops

\* The word after a live one is the one the architecture goes on to.
LEMMA PcNext ==
    ASSUME DataInv, FP!IInv, Tick, slot = "live", Resolved
    PROVE  arch' = Arch!NextPc(instr_ex)
<1>1. arch' = IF FP!jump(branch) THEN target ELSE Plus4[arch]
  BY SameFrontEnd DEF Tick, FP!Clock
<1>2. Plus4[arch] = Plus(arch, 1) /\ pc_wb = arch /\ instr_ex \in Instr
  BY LiveWord DEF Plus4
<1>3. CASE instr_ex.op = "JAL"
  <2>1. FP!jump(branch) /\ target = Plus(arch, instr_ex.imm)
    BY <1>2, <1>3 DEF FP!jump, FP!Redirects, Jumps, target
  <2> QED
    BY <1>1, <1>3, <2>1, SameWords DEF Arch!NextPc
<1>4. CASE instr_ex.op = "JALR"
  <2>1. FP!jump(branch) /\ target = Plus(ArchRegs[instr_ex.rs1], instr_ex.imm)
    BY <1>2, <1>4, AluValue DEF FP!jump, FP!Redirects, Jumps, target
  <2> QED
    BY <1>1, <1>4, <2>1, SameWords DEF Arch!NextPc
<1>5. CASE instr_ex.op = "BRANCH"
  <2> DEFINE taken == Arch!Taken(instr_ex, ArchRegs[instr_ex.rs1], ArchRegs[instr_ex.rs2])
  <2>1. FP!jump(branch) <=> branch
    BY <1>2, <1>5 DEF FP!jump, FP!Redirects, Jumps, Branches
  <2>2. a_fwd_out = ArchRegs[instr_ex.rs1] /\ b_fwd_out = ArchRegs[instr_ex.rs2]
    BY <1>5, Forwarding
  <2>3. branch <=> taken
    BY <2>2 DEF branch, Taken, Arch!Taken
  <2>4. target = Plus(arch, instr_ex.imm)
    BY <1>2, <1>5 DEF target
  <2>5. Arch!NextPc(instr_ex) = IF taken THEN Plus(arch, instr_ex.imm) ELSE Plus(arch, 1)
    BY <1>5, SameWords DEF Arch!NextPc
  <2> QED
    BY <1>1, <1>2, <2>1, <2>3, <2>4, <2>5
<1>6. CASE instr_ex.op \notin {"JAL", "JALR", "BRANCH"}
  <2>1. ~FP!jump(branch)
    BY <1>6 DEF FP!jump, FP!Redirects, Jumps, Branches
  <2> QED
    BY <1>1, <1>2, <1>6, <2>1, SameWords DEF Arch!NextPc
<1> QED
  BY <1>3, <1>4, <1>5, <1>6

\* A store reaches the devices its address names and no other.
LEMMA StoreNext ==
    ASSUME DataInv, FP!IInv, Tick, slot = "live", Resolved, Decoded, instr_ex.op = "STORE"
    PROVE  Arch!Store(instr_ex)
<1> DEFINE addr == Plus(ArchRegs[instr_ex.rs1], instr_ex.imm)
           data == ArchRegs[instr_ex.rs2]
<1>1. /\ addr = alu_out /\ alu_mux_value = alu_out /\ alu_out \in Word
      /\ data = store_out /\ mem_addr = Low(addr) /\ pc_wb = arch
  BY AluValue, ExTypes, Forwarding, LiveWord DEF DataInv, store_out, mem_addr
<1>2. /\ Arch!Low(addr) = Low(addr) /\ Arch!Plus(ArchRegs[instr_ex.rs1], instr_ex.imm) = addr
      /\ Arch!UART_TX = UART_TX /\ Arch!RESET_CTR = RESET_CTR
  BY SameWords
<1>3. /\ Arch!IsData(addr) <=> Nibble(addr) \in {1, 3}
      /\ Arch!IsImem(addr) <=> Nibble(addr) \in {2, 3} /\ Bit30(arch)
      /\ Bit28(addr) <=> Nibble(addr) \in {1, 3, 5, 7, 9, 11, 13, 15}
  BY <1>1, Regions, RegionBits
<1> HIDE DEF addr, data
<1>4. dmem' = IF dmem_off(FALSE) THEN dmem ELSE [dmem EXCEPT ![Low(addr)] = data]
  BY <1>1 DEF Tick, Memories, will_write
<1>5. dmem_off(FALSE) <=> addr = UART_TX \/ (in_bios_region /\ ~Bit28(addr))
  BY <1>1 DEF dmem_off
<1>6. Arch!IsData(addr) => ~dmem_off(FALSE)
  <2>1. Nibble(addr) \in {1, 3} => addr # UART_TX /\ Bit28(addr)
    BY <1>3, IoMap
  <2> QED
    BY <1>3, <1>5, <2>1, Zenon
<1>7. Arch!IsImem(addr) => behind_data_access /\ in_bios_region
  BY <1>1, <1>3 DEF Decoded, in_bios_region
<1>8. Arch!IsStored(addr) /\ ~Arch!IsData(addr) => dmem_off(FALSE)
  <2>1. addr = RESET_CTR => in_bios_region /\ ~Bit28(addr)
    BY <1>1, <1>3, IoMap DEF Decoded
  <2>2. Arch!IsImem(addr) /\ ~Arch!IsData(addr) => in_bios_region /\ ~Bit28(addr)
    BY <1>3, <1>7
  <2> QED
    BY <1>2, <1>5, <2>1, <2>2 DEF Arch!IsStored
<1>9. IF Arch!IsData(addr) THEN dmem' = [dmem EXCEPT ![Arch!Low(addr)] = data]
      ELSE \/ UNCHANGED dmem
           \/ ~Arch!IsStored(addr) /\ dmem' = [dmem EXCEPT ![Arch!Low(addr)] = data]
  BY <1>2, <1>4, <1>6, <1>8
<1>10. imem_on <=> Arch!IsImem(addr)
  BY <1>1, <1>3, <1>7 DEF imem_on, in_bios_region, will_write
<1>11. IF Arch!IsImem(addr) THEN imem' = [imem EXCEPT ![Arch!Low(addr)] = Decode[data]]
       ELSE UNCHANGED imem
  BY <1>1, <1>2, <1>10 DEF Tick, Memories
<1>12. ArchIo' = IF addr = Arch!UART_TX THEN Append(ArchIo, <<"tx", data>>) ELSE ArchIo
  <2>1. instr_wb' = instr_ex /\ io' = ArchIo
    BY RegistersNext
  <2>2. alu_reg_out' = addr /\ to_load' = data
    BY <1>1 DEF Tick
  <2>3. (uart_tran' <=> addr = UART_TX) /\ ~uart_rec'
    BY <2>1, <2>2 DEF uart_tran, uart_rec, write, read
  <2> QED
    BY <1>2, <2>1, <2>2, <2>3 DEF ArchIo
<1> QED
  BY <1>2, <1>9, <1>11, <1>12 DEF Arch!Store, addr, data

\* A word that leaves EX live does one step of the architecture.
LEMMA LiveStep ==
    ASSUME DataInv, TypeOK', FP!IInv, Tick, slot = "live", Resolved, CsrApart, Decoded
    PROVE  Arch!Step
<1>1. Arch!Fetched = instr_ex /\ instr_ex \in Instr
  BY LiveWord
<1>2. arch' = Arch!NextPc(instr_ex)
  BY PcNext
<1>3. Arch!WriteBack(instr_ex)
  <2>1. CASE instr_ex.op \in {"STORE", "BRANCH", "NONE"}
    BY <2>1, RegistersNext DEF Arch!WriteBack, Arch!Results
  <2>2. CASE instr_ex.rd = 0
    BY <2>2, RegistersNext DEF Arch!WriteBack
  <2>3. CASE instr_ex.op \notin {"STORE", "BRANCH", "NONE"} /\ instr_ex.rd # 0
    BY <2>3, RegistersNext, ResultNext DEF Arch!WriteBack
  <2> QED
    BY <2>1, <2>2, <2>3
<1>4. IF instr_ex.op = "STORE" THEN Arch!Store(instr_ex)
      ELSE /\ UNCHANGED <<dmem, imem>>
           /\ ArchIo' = IF /\ instr_ex.op = "LOAD"
                           /\ Arch!Plus(ArchRegs[instr_ex.rs1], instr_ex.imm) = Arch!UART_RX
                        THEN Append(ArchIo, <<"rx">>) ELSE ArchIo
  <2>1. CASE instr_ex.op = "STORE"
    BY <2>1, StoreNext
  <2>2. CASE instr_ex.op # "STORE"
    <3>1. UNCHANGED <<dmem, imem>>
      BY <2>2 DEF Tick, Memories, imem_on, will_write
    <3>2. instr_wb' = instr_ex /\ io' = ArchIo /\ alu_reg_out' = alu_mux_value
      BY RegistersNext DEF Tick
    <3>3. ~uart_tran' /\ (uart_rec' <=> instr_ex.op = "LOAD" /\ alu_mux_value = UART_RX)
      BY <2>2, <3>2 DEF uart_tran, uart_rec, write, read
    <3>4. instr_ex.op = "LOAD" =>
            alu_mux_value = Arch!Plus(ArchRegs[instr_ex.rs1], instr_ex.imm)
      BY AluValue, SameWords
    <3>5. Arch!UART_RX = UART_RX
      BY SameWords
    <3> QED
      BY <2>2, <3>1, <3>2, <3>3, <3>4, <3>5 DEF ArchIo
  <2> QED
    BY <2>1, <2>2
<1>5. ArchCsr' = CASE instr_ex.op = "CSR" /\ instr_ex.fn = "csrrw"  -> ArchRegs[instr_ex.rs1]
                   [] instr_ex.op = "CSR" /\ instr_ex.fn = "csrrwi" -> instr_ex.imm
                   [] OTHER                                         -> ArchCsr
  <2>1. instr_ex.op = "CSR" => instr_ex.fn \in {"csrrw", "csrrwi"}
    BY <1>1, Rv32Assumption
  <2> QED
    BY <2>1, RegistersNext, CsrValue
<1>6. UNCHANGED bios
  BY DEF Tick, Memories
<1> QED
  BY <1>1, <1>2, <1>3, <1>4, <1>5, <1>6 DEF Arch!Step

\* Any other clock leaves what the program sees as it is.
LEMMA QuietStep ==
    ASSUME DataInv, FP!IInv, Tick, slot # "live", slot = "stale" => instr_ex = Zero
    PROVE  UNCHANGED Arch!vars
<1>1. instr_ex \in {NOP, Zero}
  BY DEF FP!IInv, FP!Phase, FP!AfterReset, FP!StaleSlot, FP!Flow, FP!Shadow1, FP!Shadow2,
         FP!Shadow3
<1>2. instr_ex.op \in {"I", "NONE"} /\ instr_ex.rd = 0
  BY <1>1 DEF NOP, Zero
<1>3. arch' = arch
  <2>1. ~FP!jump(branch)
    BY <1>2 DEF FP!jump, FP!Redirects, Jumps, Branches
  <2> QED
    BY <2>1, SameFrontEnd DEF Tick, FP!Clock
<1>4. ArchRegs' = ArchRegs /\ ArchCsr' = ArchCsr
  BY <1>2, RegistersNext
<1>5. ArchIo' = ArchIo
  <2>1. instr_wb' = instr_ex /\ io' = ArchIo
    BY RegistersNext
  <2>2. ~uart_tran' /\ ~uart_rec'
    BY <1>2, <2>1 DEF uart_tran, uart_rec, write, read
  <2> QED
    BY <2>1, <2>2 DEF ArchIo
<1>6. UNCHANGED <<dmem, imem, bios>>
  BY <1>2 DEF Tick, Memories, imem_on, will_write
<1> QED
  BY <1>3, <1>4, <1>5, <1>6 DEF Arch!vars

\* The core powers up as the architecture does.
LEMMA ArchInit == Init => Arch!Init
<1> SUFFICES ASSUME Init PROVE Arch!Init
  OBVIOUS
<1>1. ~rf_wen /\ ~csr_wen /\ ~uart_tran /\ ~uart_rec
  BY DEF Init, Zero, rf_wen, csr_wen, uart_tran, uart_rec, write, read
<1>2. ArchRegs = rf /\ ArchCsr = 0 /\ ArchIo = <<>>
  BY <1>1 DEF Init, ArchRegs, ArchCsr, ArchIo
<1>3. TypeOK
  BY TypeInit
<1>4. bios \in [Index -> Instr] /\ imem \in [Index -> Instr]
  BY Riscv151Assumption DEF Init
<1> QED
  BY <1>2, <1>3, <1>4, SameWords, ZeroOneWords DEF Init, TypeOK, Arch!Init

-----------------------------------------------------------------------------
\* The registers, memories and counters of the core keep their types, and x0
\* stays zero.
THEOREM CoreTypeOK == Spec => []TypeOK
BY TypeInit, TypeStep, PTL DEF Spec

LEMMA DataInvariant == Spec => []DataInv
BY DataInit, DataStep, PTL DEF Spec

\* Every operand of the instruction in EX is what the program order says.
THEOREM ForwardingCorrect == Spec => []OperandsForwarded
<1>1. DataInv => OperandsForwarded
  BY Forwarding DEF OperandsForwarded
<1> QED
  BY <1>1, DataInvariant, PTL

\* Only a store of BIOS code writes the instruction memory.
THEOREM ImemWritesAreBios == Spec => OnlyBiosWritesImem
<1>1. TypeOK /\ [Next]_vars => [F!ImemPort]_vars
  BY ImemWrite, SameFrontEnd DEF Next, Tick, Reset
<1> QED
  BY <1>1, CoreTypeOK, PTL DEF Spec, OnlyBiosWritesImem

\* The core, data path included, is a front end: what is proved of Fetch for
\* every branch outcome, target and store holds of what the data path chooses.
THEOREM CoreImplementsFetch == Spec => F!Init /\ [][F!Next]_(F!vars)
<1>1. Init => F!Init
  BY Riscv151Assumption, Rv32Assumption DEF Init, F!Init
<1>2. TypeOK /\ [Next]_vars => [F!Next]_(F!vars)
  <2> SUFFICES ASSUME TypeOK, [Next]_vars PROVE [F!Next]_(F!vars)
    OBVIOUS
  <2>1. CASE Tick
    BY <2>1, ExTypes, ImemWrite, SameFrontEnd DEF Tick, F!Next, F!Tick
  <2>2. CASE Reset
    BY <2>2, ImemWrite, SameFrontEnd DEF Reset, F!Next, F!Reset
  <2>3. CASE UNCHANGED vars
    BY <2>3 DEF vars, frontend, F!vars, F!circuit
  <2> QED
    BY <2>1, <2>2, <2>3 DEF Next
<1> QED
  BY <1>1, <1>2, CoreTypeOK, PTL DEF Spec

\* Whatever the data path does, EX executes the program in order, each
\* instruction once, with its own PC and as the memory holds it now.
LEMMA PhaseOfCore == Spec /\ []F!InRegion => []FP!IInv
<1>1. Init => FP!IInv
  BY FrontEndInit, FrontEndConstants, FP!Initial
<1>2. /\ TypeOK /\ FP!IInv /\ F!InRegion /\ F!InRegion' /\ [Next]_vars
      => FP!IInv'
  <2> SUFFICES ASSUME TypeOK, FP!IInv, F!InRegion, F!InRegion', [Next]_vars
               PROVE  FP!IInv'
    OBVIOUS
  <2>1. FP!InRegion /\ FP!InRegion'
    BY DEF F!InRegion, FP!InRegion
  <2> QED
    BY <2>1, FrontEndStep, FrontEndConstants, FP!Inductive
<1> QED
  BY <1>1, <1>2, CoreTypeOK, PTL DEF Spec

\* The core executes every instruction once, in program order, with its own PC
\* and as memory holds it.
THEOREM CoreInOrder == Spec /\ []F!InRegion => []F!InOrder
<1>1. FP!IInv => F!InOrder
  BY SameFrontEnd
     DEF FP!IInv, FP!Phase, FP!AfterReset, FP!StaleSlot, FP!Flow, FP!Shadow1, FP!Shadow2,
         FP!Shadow3, FP!InOrder
<1> QED
  BY <1>1, PhaseOfCore, PTL

\* The pipeline implements the architecture, for every program that stays in its
\* memory region.
THEOREM CoreImplementsIsa == Spec /\ []F!InRegion => ImplementsIsa
<1>1. ASSUME DataInv, FP!IInv, [Next]_vars
      PROVE  [/\ slot' # "reset"
              /\ slot = "stale" => instr_ex = Zero
              /\ Resolved /\ CsrApart /\ Decoded
              => IF slot = "live" THEN Arch!Step ELSE UNCHANGED Arch!vars]_vars
  <2> SUFFICES ASSUME Next, slot' # "reset", slot = "stale" => instr_ex = Zero,
                      Resolved, CsrApart, Decoded
               PROVE  IF slot = "live" THEN Arch!Step ELSE UNCHANGED Arch!vars
    BY <1>1
  <2>1. Tick
    BY SameFrontEnd DEF Next, Reset, FP!ResetClock
  <2>2. TypeOK'
    BY <1>1, TypeStep DEF DataInv
  <2>3. CASE slot = "live"
    BY <1>1, <2>1, <2>2, <2>3, LiveStep
  <2>4. CASE slot # "live"
    BY <1>1, <2>1, <2>4, QuietStep
  <2> QED
    BY <2>3, <2>4
<1> QED
  BY <1>1, ArchInit, DataInvariant, PhaseOfCore, PTL DEF Spec, ImplementsIsa
=============================================================================

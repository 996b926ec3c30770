------------------------------- MODULE Fetch -------------------------------
(***************************************************************************)
(* The front end of the three-stage core Riscv151: the PC registers, the   *)
(* two instruction memories with their synchronous read ports, the         *)
(* instruction multiplexer and control_hazard's stall and kill logic.      *)
(*                                                                         *)
(* A word is fetched in three clocks: pc addresses both memories, one edge *)
(* later their output registers hold the word of pc_ex, and one edge later *)
(* instr_ex holds it with its PC in pc_wb.  A taken branch, a JAL or a     *)
(* JALR redirects pc from EX and turns the words behind it into NOPs.      *)
(*                                                                         *)
(* The data path is the environment here: the outcome of a branch and the  *)
(* target of a jump are inputs of every clock, and a store may rewrite the *)
(* instruction memory when the instruction in EX was fetched from the BIOS *)
(* (memory_control's PC[30] rule).                                         *)
(***************************************************************************)

CONSTANTS
    PCs,          \* the values of the program counter
    RESET_PC,     \* the parameter of Riscv151
    Plus4,        \* pc + 4, a function on PCs
    BiosPCs,      \* the PCs with bit 30 set
    Instr,        \* instruction words
    NOP,          \* addi x0, x0, 0
    Zero,         \* the word 0 that a reset puts into instr_ex and instr_wb
    Jumps,        \* JAL and JALR words
    Branches,     \* conditional branch words
    Stores,       \* store words
    BiosAddrs,    \* addresses of the BIOS memory
    ImemAddrs,    \* addresses of the instruction memory
    BiosAddr,     \* pc_if[12:2], the bits the BIOS memory takes from a PC
    ImemAddr      \* pc_if[15:2], the bits the instruction memory takes

\* Types of the constants.  The core meets them (Riscv151Proofs), and so do the
\* constants of MCFetch.
FetchAssumption ==
    /\ RESET_PC \in PCs
    /\ Plus4 \in [PCs -> PCs]
    /\ BiosPCs \subseteq PCs
    /\ {NOP, Zero} \subseteq Instr \ (Jumps \cup Branches \cup Stores)
    /\ Jumps \subseteq Instr
    /\ Branches \subseteq Instr
    /\ Stores \subseteq Instr
    /\ Stores \cap (Jumps \cup Branches) = {}
    /\ BiosAddr \in [PCs -> BiosAddrs]
    /\ ImemAddr \in [PCs -> ImemAddrs]

VARIABLES
    bios,             \* the words of the BIOS memory, never written
    imem,             \* the words of the instruction memory
    pc,               \* program_counter
    pc_ex,            \* pc_if_ex_reg
    pc_wb,            \* pc_ex_wb_reg, the PC of the instruction in EX
    bios_douta,       \* read register of the BIOS memory
    imem_doutb,       \* read register of the instruction memory
    instr_ex,         \* instr_ex_reg
    instr_wb,         \* instr_ex_wb_reg
    branch_wb,        \* branch_reg of control_hazard
    prev_stall,       \* stall_cleanup
    prev_prev_stall,  \* stall_cleanup2
    \* History variables: they record and never influence the circuit.
    arch,             \* PC of the oldest instruction still to leave EX
    slot              \* what EX holds: "reset" the word 0 a reset put there,
                      \* "stale" the word the reset found in the read
                      \* registers of the memories, "bubble" an injected NOP,
                      \* "live" a word fetched to be executed

circuit == <<bios, imem, pc, pc_ex, pc_wb, bios_douta, imem_doutb, instr_ex,
             instr_wb, branch_wb, prev_stall, prev_prev_stall>>
vars == <<circuit, arch, slot>>

(***************************************************************************)
(* Combinational logic.  branch is the output of branch_comparator.        *)
(***************************************************************************)
Redirects(instr, taken) == instr \in Jumps \/ (instr \in Branches /\ taken)

jump(branch)  == Redirects(instr_ex, branch)

\* Mutant: a branch in WB stalls whether or not it was taken.
stall_AnyBranch(branch) == jump(branch) \/ Redirects(instr_wb, TRUE)

\* Mutant: a stall prolongs itself.
stall_Latched(branch) == jump(branch) \/ Redirects(instr_wb, branch_wb) \/ prev_stall

stall(branch) == jump(branch) \/ Redirects(instr_wb, branch_wb)

\* Mutant: only stall injects NOPs.
kill_Never == FALSE

kill == prev_stall /\ prev_prev_stall

\* instr_sel chooses between the memories by bit 30 of pc_wb, the PC one
\* ahead of the word being delivered.
instr_if(branch) ==
    IF stall(branch) \/ kill THEN NOP
    ELSE IF pc_wb \in BiosPCs THEN bios_douta ELSE imem_doutb

\* Mutant: the fetched word takes the place of the jump target.
pc_next_FetchedWord(branch, target) ==
    IF jump(branch) THEN instr_if(branch)
    ELSE IF stall(branch) THEN pc ELSE Plus4[pc]

\* Mutant: a stall does not hold the PC.
pc_next_NoHold(branch, target) ==
    IF jump(branch) THEN target ELSE Plus4[pc]

pc_next(branch, target) ==
    IF jump(branch) THEN target
    ELSE IF stall(branch) THEN pc ELSE Plus4[pc]

(***************************************************************************)
(* One clock edge with rst low.                                            *)
(***************************************************************************)
Clock(branch, target) ==
    /\ pc' = pc_next(branch, target)
    /\ pc_ex' = pc
    /\ pc_wb' = pc_ex
    /\ bios_douta' = bios[BiosAddr[pc]]
    /\ imem_doutb' = imem[ImemAddr[pc]]
    /\ instr_ex' = instr_if(branch)
    /\ instr_wb' = instr_ex
    /\ branch_wb' = branch
    /\ prev_stall' = stall(branch)
    /\ prev_prev_stall' = prev_stall
    /\ arch' = IF jump(branch) THEN target
               ELSE IF slot = "live" THEN Plus4[arch] ELSE arch
    /\ slot' = IF stall(branch) \/ kill THEN "bubble"
               ELSE IF slot = "reset" THEN "stale" ELSE "live"

(***************************************************************************)
(* One clock edge with rst high.  The memories' read registers have no     *)
(* reset and go on reading at the old pc.                                  *)
(***************************************************************************)
ResetClock ==
    /\ pc' = RESET_PC
    /\ pc_ex' = RESET_PC
    /\ pc_wb' = RESET_PC
    /\ bios_douta' = bios[BiosAddr[pc]]
    /\ imem_doutb' = imem[ImemAddr[pc]]
    /\ instr_ex' = Zero
    /\ instr_wb' = Zero
    /\ branch_wb' = FALSE
    /\ prev_stall' = FALSE
    /\ prev_prev_stall' = FALSE
    /\ arch' = RESET_PC
    /\ slot' = "reset"

Init ==
    /\ bios \in [BiosAddrs -> Instr]
    /\ imem \in [ImemAddrs -> Instr]
    /\ pc = RESET_PC
    /\ pc_ex = RESET_PC
    /\ pc_wb = RESET_PC
    /\ bios_douta \in Instr
    /\ imem_doutb \in Instr
    /\ instr_ex = Zero
    /\ instr_wb = Zero
    /\ branch_wb = FALSE
    /\ prev_stall = FALSE
    /\ prev_prev_stall = FALSE
    /\ arch = RESET_PC
    /\ slot = "reset"

\* A store in EX may rewrite one word while EX runs BIOS code.
ImemPort ==
    /\ UNCHANGED bios
    /\ \/ UNCHANGED imem
       \/ /\ instr_ex \in Stores
          /\ pc_wb \in BiosPCs
          /\ \E a \in ImemAddrs, w \in Instr : imem' = [imem EXCEPT ![a] = w]

Tick ==
    /\ ImemPort
    /\ \E branch \in BOOLEAN, target \in PCs : Clock(branch, target)

Reset == ImemPort /\ ResetClock

Next == Tick \/ Reset

Spec == Init /\ [][Next]_vars /\ WF_vars(Tick)
-----------------------------------------------------------------------------
Memory(p) == IF p \in BiosPCs THEN bios[BiosAddr[p]] ELSE imem[ImemAddr[p]]

\* The program does not run off the end of one memory region into the other:
\* the two are 768 MiB apart and hold 8 KiB and 64 KiB.
InRegion == Plus4[arch] \in BiosPCs <=> arch \in BiosPCs

\* Types of the registers and of the history variables.
TypeOK ==
    /\ bios \in [BiosAddrs -> Instr]
    /\ imem \in [ImemAddrs -> Instr]
    /\ pc \in PCs /\ pc_ex \in PCs /\ pc_wb \in PCs /\ arch \in PCs
    /\ bios_douta \in Instr /\ imem_doutb \in Instr
    /\ instr_ex \in Instr /\ instr_wb \in Instr
    /\ branch_wb \in BOOLEAN
    /\ prev_stall \in BOOLEAN /\ prev_prev_stall \in BOOLEAN
    /\ slot \in {"reset", "stale", "bubble", "live"}

\* EX executes the program: a word that was neither injected nor left over by
\* a reset sits in EX with its own PC, is the next one the program calls for
\* (none skipped, repeated or taken from behind a jump), and is what the
\* memory of its region holds now, whatever was stored since it was fetched.
InOrder ==
    slot = "live" => /\ pc_wb = arch
                     /\ instr_ex = Memory(arch)

\* The value wb_mux offers a JAL or JALR in WB (pc_wb, one stage behind) is the
\* address of the word after it.
LinkIsNextPC ==
    [][slot = "live" /\ instr_ex \in Jumps /\ instr_wb' = instr_ex
         => pc_wb' = Plus4[arch]]_vars

\* Only a redirect costs clocks: a word that cannot redirect is followed by the
\* next one at once (the leftovers of stall and kill never reach it).
NoNeedlessBubble ==
    [][slot = "live" /\ instr_ex \notin Jumps \cup Branches => slot' # "bubble"]_vars

\* The core always gets to the next instruction unless it is reset for ever.
Progress == []<><<Reset>>_vars \/ []<>(slot = "live")

\* fpga_project.tex:380, 392: a reset returns the processor to the program at
\* RESET_PC: EX has the word of RESET_PC next, or gets to it after what it has.
ResetReturnsToBios ==
    [][slot = "stale" => arch' = RESET_PC \/ instr_ex = Memory(RESET_PC)]_vars
=============================================================================

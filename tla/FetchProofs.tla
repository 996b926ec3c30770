---------------------------- MODULE FetchProofs ----------------------------
(***************************************************************************)
(* The front end executes the program, for every program, memory layout,   *)
(* branch outcome and jump target.  The inductive invariant says in which  *)
(* of six phases the pipeline is: executing in order, in one of the three  *)
(* clocks of a redirect's shadow, or in one of the two clocks after rst.   *)
(***************************************************************************)
EXTENDS Fetch, TLAPS

\* The read register of p's memory holds p's word.
Loaded(p) ==
    IF p \in BiosPCs THEN bios_douta = bios[BiosAddr[p]] ELSE imem_doutb = imem[ImemAddr[p]]

\* No redirect is still unwinding.
Settled ==
    /\ ~Redirects(instr_wb, branch_wb)
    /\ prev_stall = FALSE

\* The next instruction to execute is in the read registers and the word after
\* it is being addressed.
NextLoaded ==
    /\ pc_wb = arch
    /\ pc_ex = arch
    /\ pc = Plus4[arch]
    /\ Loaded(arch)

\* rst was high at the last edge.
AfterReset ==
    /\ slot = "reset"
    /\ Settled
    /\ instr_ex = Zero
    /\ pc = arch /\ pc_ex = arch /\ pc_wb = arch

\* EX holds the word the reset found in the read registers.
StaleSlot ==
    /\ slot = "stale"
    /\ Settled
    /\ prev_prev_stall = FALSE
    /\ NextLoaded

\* One instruction in EX, its successor in the read registers.
Flow ==
    /\ slot = "live"
    /\ Settled
    /\ prev_prev_stall = FALSE
    /\ pc_wb = arch
    /\ pc_ex = Plus4[arch]
    /\ pc = Plus4[Plus4[arch]]
    /\ Loaded(Plus4[arch])
    /\ instr_ex = Memory(arch)

\* The redirecting instruction has moved to WB and its target addresses the memories.
Shadow1 ==
    /\ slot = "bubble" /\ instr_ex = NOP
    /\ Redirects(instr_wb, branch_wb)
    /\ prev_stall = TRUE /\ prev_prev_stall = FALSE
    /\ pc = arch

\* The target's word is loaded but pc_wb does not yet tell its region: kill.
Shadow2 ==
    /\ slot = "bubble" /\ instr_ex = NOP
    /\ instr_wb = NOP
    /\ prev_stall = TRUE /\ prev_prev_stall = TRUE
    /\ pc = arch /\ pc_ex = arch

\* The target's word is loaded again and pc_wb tells its region.
Shadow3 ==
    /\ slot = "bubble" /\ instr_ex = NOP
    /\ Settled
    /\ NextLoaded

Phase == AfterReset \/ StaleSlot \/ Flow \/ Shadow1 \/ Shadow2 \/ Shadow3

IInv == TypeOK /\ Phase

-----------------------------------------------------------------------------
\* Every step keeps the registers in their types.
LEMMA TypeStep == FetchAssumption /\ TypeOK /\ [Next]_vars => TypeOK'
<1> SUFFICES ASSUME FetchAssumption, TypeOK, [Next]_vars PROVE TypeOK'
  OBVIOUS
<1> USE DEF FetchAssumption
<1>1. ASSUME ImemPort
      PROVE  imem' \in [ImemAddrs -> Instr] /\ bios' \in [BiosAddrs -> Instr]
  BY <1>1 DEF ImemPort, TypeOK
<1>2. ASSUME NEW branch \in BOOLEAN, NEW target \in PCs, Clock(branch, target), ImemPort
      PROVE  TypeOK'
  <2>1. stall(branch) \in BOOLEAN
    BY DEF stall, jump, Redirects
  <2>2. pc_next(branch, target) \in PCs
    BY DEF TypeOK, pc_next
  <2>3. instr_if(branch) \in Instr
    BY DEF TypeOK, instr_if
  <2>4. (bios[BiosAddr[pc]] \in Instr) /\ (imem[ImemAddr[pc]] \in Instr) /\ (Plus4[arch] \in PCs)
    BY DEF TypeOK
  <2>5. slot' \in {"reset", "stale", "bubble", "live"} /\ arch' \in PCs
    BY <1>2, <2>4 DEF TypeOK, Clock
  <2> QED
    BY <1>1, <1>2, <2>1, <2>2, <2>3, <2>4, <2>5 DEF TypeOK, Clock
<1>3. ASSUME Reset PROVE TypeOK'
  BY <1>1, <1>3 DEF TypeOK, Reset, ResetClock
<1>4. CASE UNCHANGED vars
  BY <1>4 DEF TypeOK, vars, circuit
<1> QED
  BY <1>2, <1>3, <1>4 DEF Next, Tick

\* A clock edge with rst low leads from each phase to one of the phases.
LEMMA ClockStep ==
    ASSUME FetchAssumption, IInv, InRegion, InRegion', ImemPort,
           NEW branch \in BOOLEAN, NEW target \in PCs, Clock(branch, target)
    PROVE  Phase'
<1> USE DEF FetchAssumption, IInv
<1>0. Redirects(instr_wb, branch_wb)' = jump(branch)
  BY DEF Clock, Redirects, jump
<1>1. CASE AfterReset
  <2>1. ~stall(branch) /\ ~kill /\ ~jump(branch)
    BY <1>1 DEF AfterReset, Settled, stall, jump, kill, Redirects
  <2>2. imem' = imem /\ bios' = bios
    BY <1>1 DEF AfterReset, ImemPort
  <2>3. /\ pc' = Plus4[pc] /\ pc_ex' = pc /\ pc_wb' = pc_ex
        /\ arch' = arch /\ slot' = "stale"
        /\ bios_douta' = bios[BiosAddr[pc]] /\ imem_doutb' = imem[ImemAddr[pc]]
    BY <1>1, <2>1 DEF AfterReset, Clock, pc_next
  <2>4. prev_stall' = FALSE /\ prev_prev_stall' = FALSE
    BY <1>1, <2>1 DEF AfterReset, Settled, Clock
  <2>5. NextLoaded'
    BY <1>1, <2>2, <2>3 DEF AfterReset, NextLoaded, Loaded
  <2> QED
    BY <1>0, <2>1, <2>3, <2>4, <2>5 DEF StaleSlot, Settled, Phase
<1>2. CASE StaleSlot /\ ~jump(branch)
  <2>1. ~stall(branch) /\ ~kill
    BY <1>2 DEF StaleSlot, Settled, stall, kill
  <2>2. /\ pc' = Plus4[pc] /\ pc_ex' = pc /\ pc_wb' = pc_ex
        /\ arch' = arch /\ slot' = "live"
        /\ bios_douta' = bios[BiosAddr[pc]] /\ imem_doutb' = imem[ImemAddr[pc]]
        /\ instr_ex' = IF pc_wb \in BiosPCs THEN bios_douta ELSE imem_doutb
    BY <1>2, <2>1 DEF StaleSlot, Clock, pc_next, instr_if
  <2>3. prev_stall' = FALSE /\ prev_prev_stall' = FALSE
    BY <1>2, <2>1 DEF StaleSlot, Settled, Clock
  <2>4. arch \in PCs /\ pc = Plus4[arch] /\ pc \in PCs
    BY <1>2 DEF StaleSlot, NextLoaded, TypeOK
  <2>5. pc \in BiosPCs <=> pc_wb \in BiosPCs
    BY <1>2, <2>4 DEF StaleSlot, NextLoaded, InRegion
  <2>6. instr_ex' = Memory(arch)'
    BY <1>2, <2>2, <2>4 DEF StaleSlot, NextLoaded, Loaded, Memory, ImemPort
  <2>7. Loaded(Plus4[arch])'
    BY <2>2, <2>4, <2>5 DEF Loaded, ImemPort
  <2> QED
    BY <1>0, <1>2, <2>2, <2>3, <2>4, <2>6, <2>7
       DEF StaleSlot, NextLoaded, Flow, Settled, Phase
<1>3. CASE Flow /\ ~jump(branch)
  <2>1. ~stall(branch) /\ ~kill
    BY <1>3 DEF Flow, Settled, stall, kill
  <2>2. /\ pc' = Plus4[pc] /\ pc_ex' = pc /\ pc_wb' = pc_ex
        /\ arch' = Plus4[arch] /\ slot' = "live"
        /\ bios_douta' = bios[BiosAddr[pc]] /\ imem_doutb' = imem[ImemAddr[pc]]
        /\ instr_ex' = IF pc_wb \in BiosPCs THEN bios_douta ELSE imem_doutb
    BY <1>3, <2>1 DEF Flow, Clock, pc_next, instr_if
  <2>3. prev_stall' = FALSE /\ prev_prev_stall' = FALSE
    BY <1>3, <2>1 DEF Flow, Settled, Clock
  <2>4. /\ arch \in PCs /\ pc_ex \in PCs /\ pc \in PCs
        /\ pc_wb = arch /\ pc_ex = Plus4[arch] /\ pc = Plus4[pc_ex]
    BY <1>3 DEF Flow, TypeOK
  <2>5. /\ pc_ex \in BiosPCs <=> pc_wb \in BiosPCs
        /\ pc \in BiosPCs <=> pc_wb \in BiosPCs
    BY <2>2, <2>4 DEF InRegion
  <2>6. instr_ex' = Memory(pc_ex)
    BY <1>3, <2>2, <2>4, <2>5 DEF Flow, Loaded, Memory
  <2>7. arch' = pc_ex /\ (pc_ex \in BiosPCs \/ imem' = imem) /\ bios' = bios
    BY <2>2, <2>4, <2>5 DEF ImemPort
  <2>8. instr_ex' = Memory(arch)'
    BY <2>6, <2>7 DEF Memory
  <2>9. Loaded(Plus4[arch])'
    BY <2>2, <2>4, <2>5 DEF Loaded, ImemPort
  <2> QED
    BY <1>0, <1>3, <2>2, <2>3, <2>4, <2>8, <2>9 DEF Flow, Settled, Phase
<1>4. CASE (StaleSlot \/ Flow) /\ jump(branch)
  <2>1. stall(branch) /\ ~prev_stall
    BY <1>4 DEF StaleSlot, Flow, Settled, stall
  <2>2. /\ pc' = target /\ arch' = target /\ slot' = "bubble" /\ instr_ex' = NOP
        /\ prev_stall' = TRUE /\ prev_prev_stall' = FALSE
    BY <1>4, <2>1 DEF StaleSlot, Flow, Settled, Clock, pc_next, instr_if, stall
  <2> QED
    BY <1>0, <1>4, <2>2 DEF Shadow1, Phase
<1>5. CASE Shadow1
  <2>1. ~jump(branch) /\ stall(branch)
    BY <1>5 DEF Shadow1, jump, stall, Redirects
  <2>2. /\ pc' = pc /\ pc_ex' = pc /\ arch' = arch /\ slot' = "bubble"
        /\ instr_ex' = NOP /\ instr_wb' = NOP
        /\ prev_stall' = TRUE /\ prev_prev_stall' = TRUE
    BY <1>5, <2>1 DEF Shadow1, Clock, pc_next, instr_if
  <2> QED
    BY <1>5, <2>2 DEF Shadow1, Shadow2, Phase
<1>6. CASE Shadow2
  <2>1. ~jump(branch) /\ ~stall(branch) /\ kill
    BY <1>6 DEF Shadow2, jump, stall, kill, Redirects
  <2>2. /\ pc' = Plus4[pc] /\ pc_ex' = pc /\ pc_wb' = pc_ex
        /\ arch' = arch /\ slot' = "bubble" /\ instr_ex' = NOP
        /\ bios_douta' = bios[BiosAddr[pc]] /\ imem_doutb' = imem[ImemAddr[pc]]
        /\ prev_stall' = FALSE
    BY <1>6, <2>1 DEF Shadow2, Clock, pc_next, instr_if
  <2>3. imem' = imem /\ bios' = bios
    BY <1>6 DEF Shadow2, ImemPort
  <2>4. NextLoaded'
    BY <1>6, <2>2, <2>3 DEF Shadow2, NextLoaded, Loaded
  <2> QED
    BY <1>0, <2>1, <2>2, <2>4 DEF Shadow3, Settled, Phase
<1>7. CASE Shadow3
  <2>1. ~jump(branch) /\ ~stall(branch) /\ ~kill
    BY <1>7 DEF Shadow3, Settled, jump, stall, kill, Redirects
  <2>2. /\ pc' = Plus4[pc] /\ pc_ex' = pc /\ pc_wb' = pc_ex
        /\ arch' = arch /\ slot' = "live"
        /\ bios_douta' = bios[BiosAddr[pc]] /\ imem_doutb' = imem[ImemAddr[pc]]
        /\ instr_ex' = IF pc_wb \in BiosPCs THEN bios_douta ELSE imem_doutb
        /\ prev_stall' = FALSE /\ prev_prev_stall' = FALSE
    BY <1>7, <2>1 DEF Shadow3, Settled, Clock, pc_next, instr_if
  <2>3. imem' = imem /\ bios' = bios
    BY <1>7 DEF Shadow3, ImemPort
  <2>4. instr_ex' = Memory(arch)' /\ Loaded(Plus4[arch])'
    BY <1>7, <2>2, <2>3 DEF Shadow3, NextLoaded, Loaded, Memory
  <2> QED
    BY <1>0, <1>7, <2>1, <2>2, <2>4
       DEF Shadow3, NextLoaded, Flow, Settled, Phase
<1> QED
  BY <1>1, <1>2, <1>3, <1>4, <1>5, <1>6, <1>7 DEF Phase

\* The phases are closed under every step of the front end, resets included.
LEMMA Inductive ==
    FetchAssumption /\ IInv /\ InRegion /\ InRegion' /\ [Next]_vars => IInv'
<1> SUFFICES ASSUME FetchAssumption, IInv, InRegion, InRegion', [Next]_vars PROVE IInv'
  OBVIOUS
<1>1. TypeOK'
  BY TypeStep DEF IInv
<1>2. CASE Tick
  BY <1>1, <1>2, ClockStep DEF Tick, IInv
<1>3. CASE Reset
  <2>1. AfterReset'
    BY <1>3 DEF FetchAssumption, Reset, ResetClock, AfterReset, Settled, Redirects
  <2> QED
    BY <1>1, <2>1 DEF IInv, Phase
<1>4. CASE UNCHANGED vars
  BY <1>1, <1>4
     DEF vars, circuit, IInv, Phase, AfterReset, StaleSlot, Flow, Shadow1, Shadow2,
         Shadow3, Settled, NextLoaded, Loaded, Redirects, Memory
<1> QED
  BY <1>2, <1>3, <1>4 DEF Next

\* Power-up is the phase a reset leaves behind.
LEMMA Initial == FetchAssumption /\ Init => IInv
BY DEF FetchAssumption, Init, IInv, TypeOK, Phase, AfterReset, Settled, Redirects

-----------------------------------------------------------------------------
\* The pipeline is in one of the six phases at every clock.
THEOREM PhaseInvariant == FetchAssumption => (Spec /\ []InRegion => []IInv)
<1> SUFFICES ASSUME FetchAssumption PROVE Spec /\ []InRegion => []IInv
  OBVIOUS
<1>1. Init => IInv
  BY Initial
<1>2. IInv /\ InRegion /\ InRegion' /\ [Next]_vars => IInv'
  BY Inductive
<1> QED
  BY <1>1, <1>2, PTL DEF Spec

\* Registers and history variables keep their types.
THEOREM FetchTypeOK == FetchAssumption => (Spec => []TypeOK)
<1> SUFFICES ASSUME FetchAssumption PROVE Spec => []TypeOK
  OBVIOUS
<1>1. Init => TypeOK
  BY Initial DEF IInv
<1>2. TypeOK /\ [Next]_vars => TypeOK'
  BY TypeStep
<1> QED
  BY <1>1, <1>2, PTL DEF Spec

\* Whatever the program, EX executes its instructions in order, each once, each
\* with its own PC and as the memory holds it.
THEOREM InOrderExecution == FetchAssumption => (Spec /\ []InRegion => []InOrder)
<1> SUFFICES ASSUME FetchAssumption PROVE Spec /\ []InRegion => []InOrder
  OBVIOUS
<1>0. Spec /\ []InRegion => []IInv
  BY PhaseInvariant
<1>1. IInv => InOrder
  BY DEF IInv, Phase, AfterReset, StaleSlot, Flow, Shadow1, Shadow2, Shadow3, InOrder
<1> QED
  BY <1>0, <1>1, PTL

\* Every JAL and JALR links to the word after it.
THEOREM LinkAddress == FetchAssumption => (Spec /\ []InRegion => LinkIsNextPC)
<1> SUFFICES ASSUME FetchAssumption PROVE Spec /\ []InRegion => LinkIsNextPC
  OBVIOUS
<1>0. Spec /\ []InRegion => []IInv
  BY PhaseInvariant
<1>1. ASSUME IInv, [Next]_vars
      PROVE  [slot = "live" /\ instr_ex \in Jumps /\ instr_wb' = instr_ex
                => pc_wb' = Plus4[arch]]_vars
  <2> SUFFICES ASSUME slot = "live", instr_ex \in Jumps, instr_wb' = instr_ex, Next
               PROVE  pc_wb' = Plus4[arch]
    BY <1>1
  <2>1. pc_ex = Plus4[arch]
    BY <1>1 DEF IInv, Phase, AfterReset, StaleSlot, Flow, Shadow1, Shadow2, Shadow3
  <2>2. ~Reset
    BY DEF FetchAssumption, Reset, ResetClock
  <2> QED
    BY <2>1, <2>2 DEF Next, Tick, Clock
<1> QED
  BY <1>0, <1>1, PTL DEF Spec, LinkIsNextPC

\* A word that cannot redirect is followed at once by the next one.
THEOREM NoNeedlessBubbles ==
    FetchAssumption => (Spec /\ []InRegion => NoNeedlessBubble)
<1> SUFFICES ASSUME FetchAssumption PROVE Spec /\ []InRegion => NoNeedlessBubble
  OBVIOUS
<1>0. Spec /\ []InRegion => []IInv
  BY PhaseInvariant
<1>1. ASSUME IInv, [Next]_vars
      PROVE  [slot = "live" /\ instr_ex \notin Jumps \cup Branches
                => slot' # "bubble"]_vars
  <2> SUFFICES ASSUME slot = "live", instr_ex \notin Jumps \cup Branches, Next
               PROVE  slot' # "bubble"
    BY <1>1
  <2>1. Flow
    BY <1>1 DEF IInv, Phase, AfterReset, StaleSlot, Shadow1, Shadow2, Shadow3
  <2>2. CASE Reset
    BY <2>2 DEF Reset, ResetClock
  <2>3. ASSUME NEW branch \in BOOLEAN, NEW target \in PCs, Clock(branch, target)
        PROVE  slot' # "bubble"
    BY <2>1, <2>3 DEF Flow, Settled, Clock, stall, jump, kill, Redirects
  <2> QED
    BY <2>2, <2>3 DEF Next, Tick
<1> QED
  BY <1>0, <1>1, PTL DEF Spec, NoNeedlessBubble
=============================================================================

CONSTANTS
    nop = nop
    zero = zero
    jal = jal
    br = br
    st = st
    PCs <- MCPCs
    RESET_PC = 0
    Plus4 <- MCPlus4
    BiosPCs <- MCBiosPCs
    Instr = {nop, zero, jal, br, st}
    NOP = nop
    Zero = zero
    Jumps = {jal}
    Branches = {br}
    Stores = {st}
    BiosAddrs = {0, 1}
    ImemAddrs = {0, 1}
    BiosAddr <- MCAddr
    ImemAddr <- MCAddr
SPECIFICATION ConfiguredSpec
PROPERTIES
    ResetReturnsToBios

CONSTANTS
    IndexSize = 8
    Regs = {0, 1, 2, 3}
    Palette <- HazardPalette
    Instr <- MCInstr
    Decode <- MCDecode
    RESET_PC = 32
    BiosData <- MCBiosData
    UartInputs <- BusyUart
    InitRegs <- MCInitRegs
    InitDmem <- MCInitDmem
    Programs <- CorePrograms
    CounterMod = 1
    MaxIo = 2
SPECIFICATION CoreSpec
INVARIANTS
    TypeOK
    OperandsForwarded
PROPERTIES
    ImplementsIsa
    OnlyBiosWritesImem

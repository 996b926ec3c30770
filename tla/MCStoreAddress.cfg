CONSTANTS
    IndexSize = 8
    Regs = {0, 1, 2, 3}
    Palette <- StorePalette
    Instr <- MCInstr
    Decode <- MCDecode
    RESET_PC = 32
    BiosData <- MCBiosData
    UartInputs <- QuietUart
    InitRegs <- MCInitRegs
    InitDmem <- MCInitDmem
    Programs <- PalettePrograms
    CounterMod = 1
    MaxIo = 2
SPECIFICATION Run
INVARIANTS
    StoreAddress

CONSTANTS
    Programs <- MaskedLoad
    Settings <- AllSettings
    Inputs <- Trips
    Lanes = {1, 2}
    Regs <- SomeRegs
    Fuel = 300
    Unset = 9
SPECIFICATION Spec
INVARIANTS StoresKept


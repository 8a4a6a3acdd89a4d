SPECIFICATION Spec
CONSTANTS
    NodeCount = 3
    Faulty = {"transfer_A", "dmem_cross_module_transfers", "dmem_error_handling"}
INVARIANTS
    TypeOK
    AloneInv
    OnceInv
    NoFalseAlarm
    FaultsAreNoticed

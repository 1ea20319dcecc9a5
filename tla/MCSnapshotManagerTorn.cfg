\* A process may die between the truncate and the write of the state file.
CONSTANTS
    system_a = system_a
    system_b = system_b
    vendor_a = vendor_a
    vendor_b = vendor_b
    Names <- MCNames
    SlotOf <- MCSlotOf
    MaxReboots = 3
    MaxFailures = 1
    TornWrites = TRUE
    FreeSpace = FALSE
SPECIFICATION Spec
INVARIANT UpdateDataVisible

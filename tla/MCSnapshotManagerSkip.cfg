CONSTANTS
    system_a = system_a
    system_b = system_b
    vendor_a = vendor_a
    vendor_b = vendor_b
    Names <- MCNames
    SlotOf <- MCSlotOf
    MaxReboots = 1
    MaxFailures = 0
    TornWrites = FALSE
    FreeSpace = TRUE
SPECIFICATION Spec
PROPERTY CreateFailsOnlyOnError

CONSTANTS
    system_a = system_a
    system_b = system_b
    vendor_a = vendor_a
    vendor_b = vendor_b
    Names <- MCNames
    SlotOf <- MCSlotOf
    MaxReboots = 4
    MaxFailures = 2
    TornWrites = FALSE
    FreeSpace = FALSE
SPECIFICATION FairSpec
PROPERTY MergeEventuallyEnds

\* The pure parts over bounded inputs.
SPECIFICATION Spec
CONSTANTS
    Nil = Nil
    Empty = Empty
    UnknownType = UnknownType
    Char <- Characters
    Decimal <- InDecimal
    Values <- FieldValues
    DiskLists <- SomeDiskLists
    Requests <- SomeRequests
    Machines <- SomeMachines
INVARIANT DiskDevicesApart VolumeNamesApart MachineGetsSettings
CHECK_DEADLOCK FALSE

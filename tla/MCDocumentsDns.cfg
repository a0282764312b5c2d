\* The DNS servers of a machine.
SPECIFICATION Spec
CONSTANTS
    Nil = Nil
    Empty = Empty
    UnknownType = UnknownType
    Char <- Characters
    Decimal <- InDecimal
    Values <- FieldValues
    DiskLists <- SomeDiskLists
    Requests <- SomeRequests
    Machines <- SomeMachines
INVARIANT MachineGetsNameservers
CHECK_DEADLOCK FALSE

SPECIFICATION Spec
CONSTANTS
    Amounts = {10, 12, 60, 80, 150}
INVARIANTS
    SalaryRangeAccepted
CHECK_DEADLOCK FALSE

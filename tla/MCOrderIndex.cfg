SPECIFICATION Spec
CONSTANTS
    user = user
    Orders = {o1, o2}
    Users = {user}
    Owner <- OneUser
    OthersTick = FALSE
    MaxStops = 1
INVARIANTS
    IndexTypeOK
    OpenOrderIsIndexed
    CountCoversIndex
PROPERTY
    HitOrderIsFilled
CHECK_DEADLOCK FALSE

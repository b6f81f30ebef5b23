CONSTANTS
  Layouts <- MCLayouts
  Values <- MCValues
  Memory <- MCMemory
  Received <- MCReceived
  Clz0 = 32
SPECIFICATION Spec
CHECK_DEADLOCK FALSE
INVARIANTS TypeOK FieldsIntact FieldsRoundTrip OverflowIsReal AcceptedComesBack

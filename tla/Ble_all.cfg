\* A sensor with a timer and writes at both ends; messages add one instruction
\* of each kind.
SPECIFICATION Spec
CONSTANTS
  Configured <- MCConfigured
  Added = {"poll", "blink", "dark"}
  TypeOf <- MCTypeOf
  MayFail = {"malloc", "BLEIO_gatt_connect", "g_main_loop_new", "BLEIO_gatt_read_char_by_uuid", "g_timeout_add"}
  MaxReads = 1
  None = None
INVARIANTS
  BleInv
  CompletesLast
PROPERTY DestroyIsFinished
CHECK_DEADLOCK FALSE

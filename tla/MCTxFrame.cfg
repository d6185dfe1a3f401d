SPECIFICATION Spec
CONSTANTS
  Tasks <- TwoTasks
  Requests <- MixedRequests
  MaxCalls <- ThreeCalls
  WIFIR_UART_SEND_BUF_LMT = 8
INVARIANTS
  TypeOK LoneFramesAreWhole
CHECK_DEADLOCK FALSE

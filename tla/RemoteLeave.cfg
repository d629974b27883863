CONSTANTS
  MaxInFlight = 2
  MaxAttempts = 2
  MaxTracked = 1
  LastCommand = 2
  LastSession = 1
  MaxBacklog = 1
SPECIFICATION Spec
INVARIANT ServerOutlivesClients
CHECK_DEADLOCK FALSE

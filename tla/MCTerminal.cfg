SPECIFICATION TerminalSpec
CONSTANTS
  Requests = {r1, r2}
  Tickets = {t1}
  Conns = {c1, c2}
  Writable = {c1}
  Streams = {out}
  Kinds <- MCKinds
  MaxInput = 1
  MaxOutput = 2
  Window = 1
  MaxSockets = 1
  MaxFailures = 1
INVARIANTS
  OneUse
PROPERTIES
  BridgeReturns
  OutputArrives
\* A browser and a shell may stay idle for ever, and a refused request is over.
CHECK_DEADLOCK FALSE

SPECIFICATION OwedSpec
CONSTANTS
  FIFO_CAPACITY = 3
  MAX_HANDLERS_PER_IRQ = 2
  Vectors = {32, 33}
  Payloads = {0}
  Handlers = {h1, h2, h3}
  NoEvent = NoEvent
SYMMETRY MCSymmetry
PROPERTIES QueueSpec AllHandlersCalled

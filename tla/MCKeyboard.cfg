SPECIFICATION KFairSpec
CONSTANTS
  FIFO_CAPACITY = 2
  MAX_HANDLERS_PER_IRQ = 4
  Vectors = {33}
  Payloads <- MCPayloads
  Handlers = {"kbd_isr", "kbd_process"}
  NoEvent = NoEvent
  KEY_BUFFER_SIZE = 3
  Letters = {"a"}
  Digits = {"1"}
  MaxKeys = 3
  MaxSerial = 1
INVARIANTS TypedOrder NoKeyLost
PROPERTY KeysReachShell

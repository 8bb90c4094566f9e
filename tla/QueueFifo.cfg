SPECIFICATION Spec
CONSTANTS
  NULL = NULL
  Payload = {a, b}
  Cells = {c1, c2, c3}
PROPERTIES ImplementsFifo

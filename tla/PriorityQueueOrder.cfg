CONSTANTS
  a = a
  b = b
  c = c
  d = d
  e = e
  f = f
  Tasks = {a, b, c, d, e, f}
  Priority <- MCPriority
  Ceiling = 5
  None = None
SPECIFICATION Spec
PROPERTY PopsLowest

CONSTANTS
  Symbols = {a, b}
  MaxIds = 3
SPECIFICATION Spec
INVARIANT ViewsValid

CONSTANTS
  Threads = {t1, t2}
  Ids = {a, b}
  DedupWindow = 2
  Modulus = 16
  MaxTime = 5
SPECIFICATION Spec
PROPERTIES OneForwardPerWindow

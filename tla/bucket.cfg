SPECIFICATION Spec
CONSTANTS
  Threads = {t1, t2, t3}
  Rate = 2
  Capacity = 7
  Cost = 3
  MaxClock = 9
SYMMETRY Symmetry
INVARIANTS WindowBounded NapSuffices

SPECIFICATION Spec
SYMMETRY GuestSymmetry
CONSTANTS
  Top = 5
  Head = 1
  End = 5
  p1 = p1
  p2 = p2
  Owners = {p1, p2}
  Free = Free
  Foreign <- DataMix
  MaxGeneration = 1
  Confined = TRUE
INVARIANTS TypeOK ArenaTiled PromisesKept CallsExact
PROPERTIES PoisonIsFinal CallsProgress

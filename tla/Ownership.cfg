SPECIFICATION Spec
CONSTANTS
  dA = dA
  dB = dB
  Daemon = {dA, dB}
  Writer = {w}
  Seeder = {e}
  main = main
  side = side
  Socket = {main, side}
  DefaultSocket = main
  Setups <- MCSetups
  NoOne = NoOne
  Stale = Stale
  MayStop = TRUE
  MayCrash = TRUE
  MaxWrites = 2
SYMMETRY MCSymmetry
VIEW MCView
INVARIANTS
  TypeOK
  NeverHigh
  SoleOwnerExact
  CleanExitLeavesNothing

SPECIFICATION Spec
CONSTANTS
  Workers = {w1, w2}
  Shapes <- MCShapes
  Kinds = {"Haar", "Hd3", "Auto"}
  ShieldK = 8
  SmallShieldK = 15
  MaxOffloads = 2
INVARIANTS
  OperandIsFresh
  PassFitsSession
  MasksDistinct
  VerifiedNotWrong

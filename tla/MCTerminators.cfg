SPECIFICATION Spec
CONSTANTS
  Blocks = {self, b1, b2, b3}
  Self = self
  NoBlock = NoBlock
  Exit = Exit
INVARIANTS
  TypeOK
  TargetsKept
  EdgesCoverTargets
  StaysAnalyzable
  FoldingRests

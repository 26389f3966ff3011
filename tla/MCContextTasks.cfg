SPECIFICATION ContextSpec
CONSTANTS
  Chains = {t1, t2, t3}
  MaxDepth = 2
  Default <- WithDefault
SYMMETRY ChainSymmetry
INVARIANTS RestRestoresDefault NoSilentLoss

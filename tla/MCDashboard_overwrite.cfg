SPECIFICATION MCSpec
CONSTANTS
  t1 = t1
  t2 = t2
  t3 = t3
  p1 = p1
  p2 = p2
  p3 = p3
  b1 = b1
  b2 = b2
  a1 = a1
  a2 = a2
  a3 = a3
  a4 = a4
  a5 = a5
  a6 = a6
  f1 = f1
  None = None
  Identities = {f1}
  Tokens = {t1, t2, t3}
  Projects = {p1, p2, p3}
  Branches = {b1, b2}
  Analyses = {a1, a2, a3, a4, a5, a6}
  Visible <- MCVisible
  ProjectOf <- MCProjectOf
  BranchOf <- MCBranchOf
  IdentityOf <- MCIdentityOf
  ContextOf <- MCContextOf
  MaxPending = 2
  MaxVersion = 2
INVARIANT NoBlindOverwrite

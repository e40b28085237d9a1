SPECIFICATION Spec
CONSTANTS
  p = p
  c = c
  t1 = t1
  t2 = t2
  i1 = i1
  i2 = i2
  i3 = i3
  Sessions = {p, c}
  Root = p
  Tasks = {t1}
  Ids = {i1, i2}
  Kinds = {"k"}
  Labels = {"x"}
  Notes = {"n"}
  Limits = {1}
  MaxDepth = 1
  MaxOps = 3
  None = None
INVARIANT UseIsRemembered

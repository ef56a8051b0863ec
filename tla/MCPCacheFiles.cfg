CONSTANTS
  m1 = m1
  a1 = a1
  t1 = t1
  t2 = t2
  t3 = t3
  Msgs = {m1}
  Acks = {a1}
  Token = {t1, t2, t3}
  MaxTokens = 2
  MaxFresh = 5
SYMMETRY TokenSymmetry
SPECIFICATION Spec
PROPERTIES CleanStopRestores 

SPECIFICATION Spec
CONSTANTS
  Nodes = {n1, n2, n3}
  Windows = {w1, w2}
  aKey = aKey
  none = none
  Parts = {"trees", "figures", "cache", "places", "pages", "pricing", "reports", "prices", "views", "endpoints", "cards", "completion", "page", "choices"}
SYMMETRY Symmetry
INVARIANTS  CountsOnce  FiguresAddUp  KeyStaysHome KnowsTheServer 
PROPERTIES   KeepsWhatIsTyped
CHECK_DEADLOCK FALSE

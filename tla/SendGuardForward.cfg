SPECIFICATION Spec
CONSTANTS
  Attempts = {a1, a2}
  Ids = {i1}
  Texts <- MCTexts
  Msgs <- Forwards
SYMMETRY Symmetry
CHECK_DEADLOCK FALSE
INVARIANT
  ForwardSentOnce

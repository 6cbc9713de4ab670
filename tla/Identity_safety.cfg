SPECIFICATION Spec
CONSTANTS
  n1 = n1
  n2 = n2
  ascii = ascii
  rfc1459 = rfc1459
  Ids = {u1, u2, u3}
  Nicks = {n1, n2}
  Accounts = {a1, a2}
  Mappings = {ascii, rfc1459}
  Fold <- FoldNicks
  MaxRemaps = 1
  MaxWork = 1
  None = None
SYMMETRY IdSymmetry
INVARIANTS SpeakerHoldsTheAccount OneAccountPerProfile TablesAreSound
PROPERTIES NickChangesKeepTheProfile AccountsKeepTheirProfile ErasedIdsStayErased
CHECK_DEADLOCK FALSE

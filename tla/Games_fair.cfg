SPECIFICATION GamesSpec
CONSTANTS
  ann = ann
  ben = ben
  la = la
  lb = lb
  lc = lc
  Unlimited = Unlimited
  Nobody = Nobody
  NoLetter = NoLetter
  MaxMishaps = 1
PROPERTY WinsAreFair
CHECK_DEADLOCK FALSE

CONSTANTS
  Tetros = {t1, t2, t3, t4, t5}
  None = None
SPECIFICATION BagSpec
INVARIANTS ShakeSplits NoDrought
PROPERTIES ImplementsFairDeal

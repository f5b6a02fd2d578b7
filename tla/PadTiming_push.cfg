\* Units of a millisecond; the second and the delay of a volume key are shortened.
CONSTANTS
  Intervals = {3, 5, 9, 30}
  MinRate = 4
  MinPolling = 6
  Second = 20
  Delay = 5
  Volume = 7
  Sample = 1
  Work = 1
  Word = 128
  UintWord = 48
  MaxLost = 1
  MaxAge = 80
  None = None
  Missing = Missing
SPECIFICATION TimingSpec
INVARIANTS IntervalInForce DataInTime TimingInv

SPECIFICATION FairSpec
CONSTANTS
  w1 = w1  w2 = w2
  Workers = {w1, w2}
  InitCwnd = 1
  SeqMod = 3
  NoWorker = NoWorker
  Modes <- SmallModes
INVARIANTS TypeOK PipeWithinWindow NegativeIsClamped
PROPERTIES SendsGoOn AcksEnd

SPECIFICATION Spec
CONSTANTS
  NumOps = 3
  NumChannels = 2
  Period = 500
  Gap = 1
  ChannelOf <- MCChannelOf
  Modulator <- MCModulator
  RhythmOf <- MCNoDrums
  Keys = {}
  None = None
INVARIANTS
  EveryFeedbackPairs

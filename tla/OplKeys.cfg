SPECIFICATION MCKeys
CONSTANTS
  NumOps = 3
  NumChannels = 2
  Period = 24
  Gap = 1
  ChannelOf <- MCChannelOf
  Modulator <- MCModulator
  RhythmOf <- MCBassDrum
  Keys = {1}
  None = None
VIEW KeyView
INVARIANTS
  KeysHeard

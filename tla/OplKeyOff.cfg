SPECIFICATION Spec
CONSTANTS
  NumOps = 3
  NumChannels = 2
  Period = 500
  Gap = 25
  ChannelOf <- MCChannelOf
  Modulator <- MCModulator
  RhythmOf <- MCNoDrums
  Keys = {1}
  None = None
PROPERTIES
  NoKeyOffSkipped

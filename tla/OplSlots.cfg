\* The code's own numbers.
SPECIFICATION AudioSpec
CONSTANTS
  NumOps = 18
  NumChannels = 9
  Period = 500
  HighTicks = 256
  Gap = 1
  ChannelOf <- AllChannelOf
  Modulator <- AllModulator
  RhythmOf <- AllNoDrums
  Keys = {}
  None = None
INVARIANTS
  SynthTypeOK
  SlotsInOrder
  SamplesDelivered

SPECIFICATION Spec
PROPERTIES
  VibratoFollowsSamples

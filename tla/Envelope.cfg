\* Three patches, of which the CPU changes at any time.
SPECIFICATION Spec
CONSTANTS
  Patches <- ThreePatches
PROPERTIES
  LevelSane
  NotesEnd

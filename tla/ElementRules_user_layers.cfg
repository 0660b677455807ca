CONSTANTS
  NoBlock = NoBlock
  MatchSets <- InUserLayers
  Slots = 1
  Outer = 1
  AttributeBlock <- Attributes
  EffectBlock <- EffectBlocks
  FallbackBlock = "try"
  InitialContent <- Contents
  InPlace <- Changed
SPECIFICATION Spec
INVARIANTS PathOrdered

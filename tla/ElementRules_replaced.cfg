CONSTANTS
  NoBlock = NoBlock
  MatchSets <- InLayersAndTrees
  Slots = 1
  Outer = 1
  AttributeBlock <- Attributes
  EffectBlock <- EffectBlocks
  FallbackBlock = "try"
  InitialContent <- Contents
  InPlace <- Changed
SPECIFICATION Spec
INVARIANTS PathOrdered CascadeOrderRespected DerivedPathsRight AnimationsKnowOverrides

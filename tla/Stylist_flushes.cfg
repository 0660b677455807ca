CONSTANTS
  Sheet <- TwoOriginsSheet
  Rule <- TwoOriginsRule
  Kind <- TwoOriginsKind
  Name <- DocName
  Defines <- TwoOriginsDefines
  SheetMedia <- TwoOriginsSheetMedia
  OriginOf <- TwoOriginsOriginOf
  InitialContents <- TwoOriginsContents
  InitialCondition <- TwoOriginsCondition
  Scripted <- TwoOriginsScripted
SPECIFICATION Spec
INVARIANTS UpToDate InvalidationDataComplete MediaChangesReported OwnCommittedWhenFlushed
PROPERTIES RestyleCovers
VIEW WithoutReturned

CONSTANTS
  Sheet <- RootSheet
  Rule <- RootRule
  Kind <- RootKind
  Name = {}
  Defines <- NoDefines
  SheetMedia <- RootSheetMedia
  Root = {r1, r2}
  MaxEntries = 4
  InitialContents <- RootContents
  InitialCondition <- RootCondition
  Scripted = {"edited.added"}
SPECIFICATION Spec
INVARIANTS RootsUpToDate RootsInvalidationDataComplete RootsCommitted
CONSTRAINT EditedByOne
SYMMETRY RootsAlike

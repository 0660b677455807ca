CONSTANTS
  Sheet <- RootSheet
  Rule <- RootRule
  Kind <- RootKind
  Name = {}
  Defines <- NoDefines
  SheetMedia <- RootSheetMedia
  Root = {r1, r2}
  MaxEntries = 5
  InitialContents <- RootContents
  InitialCondition <- RootCondition
  Scripted = {"edited.added"}
SPECIFICATION Spec
INVARIANTS RootsUpToDate
SYMMETRY RootsAlike

CONSTANTS
  Sheet <- CustomSheet
  Rule <- CustomRule
  Kind <- CustomKind
  Name <- DocName
  Defines <- CustomDefines
  SheetMedia <- CustomSheetMedia
  OriginOf <- CustomOriginOf
  InitialContents <- CustomContents
  InitialCondition <- CustomCondition
  Scripted = {}
SPECIFICATION Spec
INVARIANTS InvalidationDataComplete

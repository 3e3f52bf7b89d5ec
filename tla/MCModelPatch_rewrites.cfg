CONSTANTS
  Size = 4
  MaxRewrites = 2
  MaxPatches = 5
  Comparable <- Unary
  Models <- MCModels
  Patches <- MCPatches
SPECIFICATION Spec
INVARIANTS EdgesReciprocal MeaningPreserved SignatureKept CompactIsNormal NoLiveDummy AllMerged
PROPERTY EachPatchMerges
CHECK_DEADLOCK FALSE

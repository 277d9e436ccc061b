\* Files, options and start commands of 48 patches each.
SPECIFICATION Spec
CONSTANTS
  Patches <- MCPatches
INVARIANTS
  TypeOK
  ResolutionOrder
  ValidOrRefused
  AcceptedApplies

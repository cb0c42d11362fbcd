SPECIFICATION Spec
INVARIANTS
  ColourOnlyOnTty

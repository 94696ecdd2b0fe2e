CONSTANTS
    l1 = l1
    l2 = l2
    Layers <- MCLayers
    MaxRefs <- MCMaxRefs
    MaxRestarts <- MCMaxRestarts
SPECIFICATION Spec
CONSTRAINT KernelBound
SYMMETRY Symmetry
INVARIANT NoPanic
CHECK_DEADLOCK FALSE

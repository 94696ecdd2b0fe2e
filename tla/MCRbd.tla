------------------------------- MODULE MCRbd ---------------------------------
EXTENDS Rbd, TLC

CONSTANTS l1, l2

MCLayers == {l1, l2}
MCMaxRefs == 2
MCMaxRestarts == 1

\* Failed unmounts can stack mounts and restarts can stack mappings
\* without bound; two of each are enough to see every step.
MaxKernel == 2
KernelBound == \A h \in Layers : lay[h].kmap <= MaxKernel /\ lay[h].kmnt <= MaxKernel

Symmetry == Permutations(MCLayers)
==============================================================================

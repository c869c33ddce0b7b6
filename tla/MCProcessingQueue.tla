------------------------ MODULE MCProcessingQueue ------------------------
EXTENDS ProcessingQueue, TLC

Symmetry == Permutations(Session)

=============================================================================

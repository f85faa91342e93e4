-------------------------- MODULE MCPluginRegistry --------------------------
EXTENDS PluginRegistry, TLC

\* Request slots are interchangeable.
Symmetry == Permutations(Slots)
=============================================================================

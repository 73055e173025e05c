-------------------------- MODULE MCSqlServerStorage --------------------------
EXTENDS SqlServerStorage, TLC
MCSymmetry == Permutations(Installers)
=============================================================================

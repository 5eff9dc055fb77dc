-------------------------- MODULE MCMadadkarFunding --------------------------
EXTENDS MadadkarFunding, TLC

RowSymmetry == Permutations(Participations)
=============================================================================

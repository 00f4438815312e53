------------------------------- MODULE MCTFS -------------------------------
EXTENDS TFS, TLC
CONSTANTS a, b, c, long, bad, x, y, none

NameSymmetry == Permutations(Names)
ShortAndLong == {<<x>>, <<x, x>>}
TwoValues == {<<x>>, <<y, y>>}

AllModes == SUBSET {"TFS_O_CREAT", "TFS_O_TRUNC", "TFS_O_APPEND"}
SomeModes == {{"TFS_O_CREAT"}, {"TFS_O_TRUNC"}, {"TFS_O_APPEND"}}
==============================================================================

---------------------------- MODULE MCComApartment ----------------------------
EXTENDS ComApartment, TLC

CONSTANTS t1, t2, t3

MCThreads  == {t1, t2, t3}
MCSymmetry == Permutations(MCThreads)

\* An i32, a u16 and a u32 of 8, 4 and 8 bits, as 32, 16 and 32 are: the
\* largest rate fits with one channel and not with two, and 8 channels do not
\* fit into a block.
MCRates    == {-1, 3, 127}
MCChannels == {0, 1, 2, 7, 8, 127}

=============================================================================

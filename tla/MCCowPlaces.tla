---------------------------- MODULE MCCowPlaces -----------------------------
EXTENDS CowPlaces, TLC

MCPaths == {<<>>, <<-1>>, <<0, -1>>}

MCIndices == {0, -1}

MCSymmetry == Permutations(Symbols)
=============================================================================

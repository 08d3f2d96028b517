---------------------------- MODULE MCDriftImport ----------------------------
EXTENDS DriftImport, TLC
CONSTANTS s, t, g, h

MCPathOrder == <<s, <<s, g>>, <<s, h>>, <<s, s>>, <<s, t>>, t, <<t, g>>, <<t, h>>, <<t, s>>, <<t, t>>>>
MCPathRank == [p \in Ids |-> 10 - CHOOSE i \in DOMAIN MCPathOrder : MCPathOrder[i] = p]
MCInterchangeable == Permutations(Bodies)
MCSuppressions == {{}, {s, <<s, g>>}}
==============================================================================

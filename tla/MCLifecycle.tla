----------------------------- MODULE MCLifecycle -----------------------------
EXTENDS Lifecycle, TLC
CONSTANTS r1, r2

MCSelections == {<<r1>>, <<r1, r2>>}

Row(tp, fp, bp) == [tp |-> tp, fp |-> fp, bp |-> bp]
Found(runs, read, rows) == [lookup |-> "found", runs |-> runs, read |-> read, rows |-> rows]
Without(lookup) == [lookup |-> lookup, runs |-> FALSE, read |-> FALSE, rows |-> <<>>]

\* Noisy under its old name, quiet under its id, and above the threshold together.
MCWorkspaces ==
  {Without("declined"), Without("failed"), Found(FALSE, TRUE, <<>>), Found(TRUE, TRUE, <<>>),
   Found(TRUE, TRUE, "id" :> Row(1, 0, 0) @@ "name" :> Row(0, 2, 0))}

InLife(status, plain, at, forced) ==
  [status |-> status, plain |-> plain, stamp |-> [at |-> at, forced |-> forced],
   validated |-> 0, locked |-> FALSE, version |-> 0]
MCInitialFiles ==
  {InLife("experimental", TRUE, Never, FALSE), InLife("experimental", FALSE, Never, FALSE),
   InLife("deprecated", TRUE, 0, FALSE)}
Interchangeable == Permutations(Clones)
==============================================================================

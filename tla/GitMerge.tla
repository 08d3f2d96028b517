------------------------------- MODULE GitMerge -------------------------------
(***************************************************************************)
(* Three-way merges of records, field by field: what git does to a file    *)
(* whose fields are on lines of their own.                                 *)
(***************************************************************************)

\* Both sides changed it, and not in the same way.
Differ(base, ours, theirs) == ours # theirs /\ base # ours /\ base # theirs
Merged(base, ours, theirs) == IF base = ours THEN theirs ELSE ours

FieldsDiffer(base, ours, theirs) ==
  \E k \in DOMAIN base : Differ(base[k], ours[k], theirs[k])
FieldsMerged(base, ours, theirs) ==
  [k \in DOMAIN base |-> Merged(base[k], ours[k], theirs[k])]
==============================================================================

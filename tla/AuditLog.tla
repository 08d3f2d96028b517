------------------------------- MODULE AuditLog -------------------------------
(***************************************************************************)
(* What the audit trail promises its callers: a log that batches are added *)
(* to one at a time, each whole, in order, with timestamps that only grow, *)
(* and a verdict for every batch. No files, tails, retries or days.        *)
(***************************************************************************)
EXTENDS Naturals, Sequences

CONSTANT Writers

VARIABLES size,      \* the number of records in each writer's batch
          log,       \* bodies in trail order
          verdict    \* what each writer was told about its batch

vars == <<size, log, verdict>>

Init ==
    /\ size \in [Writers -> Nat \ {0}]
    /\ log = <<>>
    /\ verdict = [w \in Writers |-> "pending"]

Increasing(s) == \A i \in 1..(Len(s) - 1) : s[i].ts < s[i + 1].ts

\* The batch is added whole, after all that is there, and its writer is told so.
Record(w) ==
    /\ verdict[w] = "pending"
    /\ verdict' = [verdict EXCEPT ![w] = "recorded"]
    /\ Len(log') = Len(log) + size[w]
    /\ SubSeq(log', 1, Len(log)) = log
    /\ \A i \in 1..size[w] : /\ log'[Len(log) + i].by = w
                             /\ log'[Len(log) + i].nth = i
    /\ Increasing(log')
    /\ UNCHANGED size

\* The writer is told that its batch is not in the log (or dies first).
Refuse(w) ==
    /\ verdict[w] = "pending"
    /\ verdict' = [verdict EXCEPT ![w] = "refused"]
    /\ UNCHANGED <<size, log>>

Next == \E w \in Writers : Record(w) \/ Refuse(w)

Spec == Init /\ [][Next]_vars
=============================================================================

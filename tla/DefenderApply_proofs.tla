-------------------------- MODULE DefenderApply_proofs --------------------------
(***************************************************************************)
(* Why no display name is taken twice, for every number of runs, checkouts *)
(* and faults. While a name is still to be deployed in a run, every rule   *)
(* that bears it is the one the index points at: what the run did not list *)
(* it created, and was told of, or it has passed the only YAML of the name.*)
(***************************************************************************)
EXTENDS DefenderApply, TLAPS

Calls ==
    /\ pc # "idle" => run > 0 /\ at <= Len(yamls)
    /\ Len(results) = at - 1
    /\ pc \in {"compare", "patch", "post", "verify"} => listed
    /\ pc \in {"compare", "patch", "verify"} => graphId # None
    /\ pc \in {"compare", "patch", "post"} => graphId = ResolveGraphId(Current)
    /\ pc = "post" => graphId = None

Claimed(n) == Unshared(n) /\ Unrenamed(n)
NoMore(n) == \A k \in at..Len(yamls) : yamls[k].name # n

Known ==
    listed =>
        \A n \in Names : Claimed(n) =>
            \A i \in DOMAIN rules :
                rules[i].name = n =>
                    (n \in DOMAIN nameMap /\ nameMap[n] = i) \/ NoMore(n)

\* What this run was told of is in its index, under its own name only.
Indexed(p) ==
    /\ p.name \in DOMAIN nameMap /\ nameMap[p.name] = p.id
    /\ \A m \in DOMAIN nameMap : nameMap[m] = p.id => m = p.name

Told ==
    /\ \A k \in DOMAIN yamls : yamls[k].arm <= lastId
    /\ \A p \in posts :
           /\ p.id <= lastId /\ p.run <= run
           /\ p.run = run => listed /\ \A k \in DOMAIN yamls : yamls[k].arm < p.id
           /\ p.run = run /\ p.told /\ Unrenamed(p.name) => Indexed(p)

IInv == TypeOK /\ Calls /\ Known /\ Told /\ OneRulePerName /\ SecondYamlPatches

-----------------------------------------------------------------------------
USE CheckoutsAssumption, BoundsAssumption, MaxRetriesAssumption

Steps == {"idle", "resolve", "compare", "patch", "post", "verify"}

LEMMA PartialIff ==
    ASSUME NEW D, NEW S, NEW f
    PROVE  f \in Partial(D, S) <=> DOMAIN f \subseteq D /\ f \in [DOMAIN f -> S]
  <1>1. ASSUME f \in Partial(D, S) PROVE DOMAIN f \subseteq D /\ f \in [DOMAIN f -> S]
    <2>1. PICK d \in SUBSET D : f \in [d -> S]
      BY <1>1 DEF Partial
    <2> QED
      BY <2>1
  <1>2. ASSUME DOMAIN f \subseteq D, f \in [DOMAIN f -> S] PROVE f \in Partial(D, S)
    BY <1>2 DEF Partial
  <1> QED
    BY <1>1, <1>2

LEMMA CheckoutTyped ==
    ASSUME TypeOK
    PROVE  yamls \in Seq(Yaml)
  BY DEF TypeOK

LEMMA CurrentTyped ==
    ASSUME TypeOK, Calls, pc # "idle"
    PROVE  /\ at \in DOMAIN yamls /\ Current \in Yaml
           /\ [name |-> Current.name, body |-> Current.body] \in Rule
  <1>1. at \in 1..Len(yamls)
    BY CheckoutTyped DEF TypeOK, Calls
  <1>2. at \in DOMAIN yamls /\ Current \in Yaml
    BY CheckoutTyped, <1>1 DEF Current
  <1> QED
    BY <1>2 DEF Yaml, Rule

\* Where the run stands once a YAML has its result.
LEMMA ReturnTyped ==
    ASSUME TypeOK, Calls, pc # "idle", NEW status \in Statuses, Return(status)
    PROVE  /\ results' \in Seq(Statuses) /\ Len(results') = at' - 1
           /\ at' = at + 1 /\ at' \in 1..(Len(yamls) + 1)
           /\ pc' \in {"idle", "resolve"} /\ (pc' # "idle" => at' <= Len(yamls))
           /\ tries' = 0 /\ graphId' = None
  <1>1. results \in Seq(Statuses) /\ at \in Nat /\ at <= Len(yamls) /\ Len(yamls) \in Nat
    BY CheckoutTyped DEF TypeOK, Calls
  <1>2. results' = Append(results, status) /\ at' = at + 1
    BY DEF Return
  <1>3. results' \in Seq(Statuses) /\ Len(results') = Len(results) + 1
    BY <1>1, <1>2
  <1> QED
    BY <1>1, <1>2, <1>3 DEF Return, Goto, Calls, TypeOK

\* The part of TypeOK that a call which changes the tenant, or the index, touches.
TenantTyped == /\ rules \in Partial(Ids, Rule) /\ lagging \in Partial(Ids, Rule)
               /\ lastId \in Nat /\ posts \subseteq Post
IndexTyped == nameMap \in Partial(Names, Ids) /\ graphIds \subseteq Ids

LEMMA ReturnStep ==
    ASSUME TypeOK, Calls, pc # "idle", NEW status \in Statuses, Return(status),
           UNCHANGED <<run, yamls, edits>>, lastId' \in Nat, lastId <= lastId',
           TenantTyped', IndexTyped', listed' \in BOOLEAN
    PROVE  TypeOK'
  <1>1. /\ results' \in Seq(Statuses) /\ Len(results') <= Len(yamls')
        /\ at' \in 1..(Len(yamls') + 1) /\ pc' \in Steps
    <2>1. Len(yamls) \in Nat
      BY CheckoutTyped
    <2> QED
      BY <2>1, ReturnTyped DEF Steps
  <1>2. graphId' = None /\ tries' \in 0..(MaxRetries + MaxVerify)
    BY ReturnTyped
  <1> QED
    BY <1>1, <1>2 DEF TypeOK, TenantTyped, IndexTyped, Steps

LEMMA FailStep ==
    ASSUME TypeOK, Calls, pc # "idle", NEW b \in BOOLEAN, NEW seen \in Refusals \cup Exceptions,
           RetryOrFail(b, seen), UNCHANGED <<run, yamls, edits, listed>>,
           lastId' \in Nat, lastId <= lastId', TenantTyped', IndexTyped'
    PROVE  TypeOK'
  <1>1. CASE /\ tries < MaxRetries /\ tries' = tries + 1
             /\ UNCHANGED <<pc, at, results, graphId>>
    <2>1. tries' \in 0..(MaxRetries + MaxVerify)
      BY <1>1 DEF TypeOK
    <2>2. graphId' \in Ids' \cup {None}
      BY <1>1 DEF TypeOK, Ids
    <2> QED
      BY <1>1, <2>1, <2>2 DEF TypeOK, TenantTyped, IndexTyped
  <1>2. ASSUME NEW status \in Statuses, Return(status) PROVE TypeOK'
    <2>1. listed' \in BOOLEAN
      BY DEF TypeOK
    <2> QED
      BY <1>2, <2>1, ReturnStep
  <1>3. "error-apply" \in Statuses /\ "error-status" \in Statuses
    BY DEF Statuses
  <1> QED
    BY <1>1, <1>2, <1>3 DEF RetryOrFail, Retries

LEMMA RecordTyped ==
    ASSUME TypeOK, NEW name \in Names, NEW id \in Nat \ {0}, RecordGraphId(name, id),
           lastId' \in Nat, lastId <= lastId', id <= lastId'
    PROVE  IndexTyped'
  <1>1. Ids \subseteq Ids' /\ id \in Ids'
    BY DEF TypeOK, Ids
  <1>2. DOMAIN nameMap \subseteq Names /\ nameMap \in [DOMAIN nameMap -> Ids] /\ graphIds \subseteq Ids
    BY PartialIff DEF TypeOK
  <1>3. DOMAIN nameMap' \subseteq Names /\ nameMap' \in [DOMAIN nameMap' -> Ids']
    BY <1>1, <1>2 DEF RecordGraphId
  <1>4. nameMap' \in Partial(Names, Ids')
    BY <1>3, PartialIff
  <1> QED
    BY <1>1, <1>2, <1>4 DEF RecordGraphId, IndexTyped

LEMMA SameIndexTyped ==
    ASSUME TypeOK, UNCHANGED <<nameMap, graphIds>>, lastId' \in Nat, lastId <= lastId'
    PROVE  IndexTyped'
  <1>1. Ids \subseteq Ids'
    BY DEF TypeOK, Ids
  <1>2. nameMap' \in Partial(Names, Ids')
    BY <1>1, PartialIff DEF TypeOK
  <1> QED
    BY <1>1, <1>2 DEF TypeOK, IndexTyped

LEMMA ChangeTyped ==
    ASSUME TypeOK, NEW new \in Partial(Ids', Rule), Change(new),
           lastId' \in Nat, lastId <= lastId', posts' \subseteq Post
    PROVE  TenantTyped'
  <1>1. rules \in Partial(Ids', Rule)
    BY PartialIff DEF TypeOK, Ids
  <1> QED
    BY <1>1 DEF Change, TenantTyped

LEMMA PatchedTyped ==
    ASSUME TypeOK, Calls, pc # "idle", graphId \in DOMAIN rules
    PROVE  Patched \in Partial(Ids, Rule)
  <1>1. DOMAIN rules \subseteq Ids /\ rules \in [DOMAIN rules -> Rule]
    BY PartialIff DEF TypeOK
  <1>2. DOMAIN Patched \subseteq Ids /\ Patched \in [DOMAIN Patched -> Rule]
    BY <1>1, CurrentTyped DEF Patched
  <1> QED
    BY <1>2, PartialIff

LEMMA CreateTyped ==
    ASSUME TypeOK, Calls, pc # "idle", NEW told \in BOOLEAN, Create(told)
    PROVE  TenantTyped' /\ lastId' = lastId + 1 /\ lastId' \in Nat /\ lastId \in Nat
  <1> DEFINE id == lastId + 1
             new == [i \in DOMAIN rules \cup {id} |->
                        IF i = id THEN [name |-> Current.name, body |-> Current.body] ELSE rules[i]]
  <1>1. DOMAIN rules \subseteq Ids /\ rules \in [DOMAIN rules -> Rule] /\ lastId \in Nat
    BY PartialIff DEF TypeOK
  <1>2. lastId' = id /\ id \in Nat \ {0} /\ Ids \cup {id} \subseteq Ids'
    BY <1>1 DEF Create, Ids
  <1>3. DOMAIN new \subseteq Ids' /\ new \in [DOMAIN new -> Rule]
    BY <1>1, <1>2, CurrentTyped
  <1>4. new \in Partial(Ids', Rule)
    BY <1>3, PartialIff
  <1>5. posts' \subseteq Post
    <2>1. [id |-> id, run |-> run, at |-> at, name |-> Current.name, told |-> told] \in Post
      BY <1>2, CurrentTyped DEF TypeOK, Calls, Post, Yaml
    <2> QED
      BY <2>1 DEF Create, TypeOK
  <1>6. Change(new)
    BY DEF Create
  <1> QED
    <2> HIDE DEF new
    <2> QED
      BY <1>1, <1>2, <1>4, <1>5, <1>6, ChangeTyped

LEMMA NameMapTyped ==
    ASSUME TypeOK, \A n \in Names : ~Duplicated(n)
    PROVE  BuildNameMap \in Partial(Names, Ids)
  <1>1. DOMAIN rules \subseteq Ids /\ rules \in [DOMAIN rules -> Rule]
    BY PartialIff DEF TypeOK
  <1>2. DOMAIN BuildNameMap \subseteq Names
    BY <1>1 DEF BuildNameMap, Rule
  <1>3. BuildNameMap \in [DOMAIN BuildNameMap -> Ids]
    BY <1>1 DEF BuildNameMap
  <1> QED
    BY <1>2, <1>3, PartialIff

LEMMA ResolvedTyped ==
    ASSUME TypeOK, NEW yaml \in Yaml
    PROVE  ResolveGraphId(yaml) \in Ids \cup {None}
  <1>1. nameMap \in [DOMAIN nameMap -> Ids] /\ graphIds \subseteq Ids
    BY PartialIff DEF TypeOK
  <1> QED
    BY <1>1 DEF ResolveGraphId

LEMMA StartTyped == TypeOK /\ Start => TypeOK'
  <1> SUFFICES ASSUME TypeOK, Start PROVE TypeOK'
    OBVIOUS
  <1>1. yamls' \in Checkouts /\ Len(yamls') \in Nat /\ run' \in 0..MaxRuns
    BY DEF Start, TypeOK
  <1>2. at' \in 1..(Len(yamls') + 1) /\ results' \in Seq(Statuses) /\ Len(results') <= Len(yamls')
    BY <1>1 DEF Start
  <1>3. nameMap' \in Partial(Names, Ids') /\ graphIds' \subseteq Ids'
    <2>1. nameMap' = <<>> /\ graphIds' = {}
      BY DEF Start
    <2>2. <<>> \in [{} -> Ids']
      OBVIOUS
    <2>3. <<>> \in Partial(Names, Ids')
      BY <2>2, {} \in SUBSET Names DEF Partial
    <2> QED
      BY <2>1, <2>3
  <1>4. Ids' = Ids /\ UNCHANGED <<rules, lagging, lastId, edits, posts>>
    BY DEF Start, tenant, Ids
  <1>5. /\ graphId' = None /\ tries' = 0 /\ listed' = FALSE
        /\ pc' \in {"idle", "resolve"}
    BY DEF Start, Goto
  <1>6. 0 \in 0..(MaxRetries + MaxVerify)
    OBVIOUS
  <1> QED
    BY <1>1, <1>2, <1>3, <1>4, <1>5, <1>6 DEF TypeOK

LEMMA TypeStep == TypeOK /\ Calls /\ [Next]_vars => TypeOK'
  <1> SUFFICES ASSUME TypeOK, Calls, [Next]_vars PROVE TypeOK'
    OBVIOUS
  <1> DEFINE Still == UNCHANGED <<rules, lagging, lastId, posts>>
  <1>0. Still => TenantTyped' /\ lastId' \in Nat /\ lastId <= lastId'
    BY DEF TypeOK, TenantTyped, Ids
  <1>1. ASSUME ListRules PROVE TypeOK'
    <2>1. CASE /\ \A n \in Names : ~Duplicated(n)
               /\ listed' = TRUE /\ nameMap' = BuildNameMap /\ graphIds' = DOMAIN rules
               /\ UNCHANGED <<at, pc, graphId, tries, results>>
      <3>1. BuildNameMap \in Partial(Names, Ids) /\ DOMAIN rules \subseteq Ids
        BY <2>1, NameMapTyped, PartialIff DEF TypeOK
      <3> QED
        BY <1>1, <2>1, <3>1 DEF ListRules, TypeOK, tenant, Ids
    <2>2. CASE Return("error-apply") /\ UNCHANGED <<listed, nameMap, graphIds>>
      BY <1>0, <1>1, <2>2, ReturnStep, SameIndexTyped DEF ListRules, tenant, TypeOK, Statuses
    <2> QED
      BY <1>1, <2>1, <2>2 DEF ListRules
  <1>2. ASSUME Resolve PROVE TypeOK'
    <2>1. graphId' \in Ids \cup {None}
      BY <1>2, CurrentTyped, ResolvedTyped DEF Resolve
    <2> QED
      BY <1>2, <2>1 DEF Resolve, Goto, TypeOK, tenant, Ids
  <1>3. ASSUME Compare PROVE TypeOK'
    <2>1. CASE Goto("patch") /\ UNCHANGED <<at, graphId, results>>
      BY <1>3, <2>1 DEF Compare, Goto, TypeOK, tenant, Ids
    <2>2. ASSUME NEW status \in {"noop", "error-apply"}, Return(status) PROVE TypeOK'
      BY <1>0, <1>3, <2>2, ReturnStep, SameIndexTyped DEF Compare, tenant, TypeOK, Statuses
    <2> QED
      BY <1>3, <2>1, <2>2 DEF Compare
  <1>4. ASSUME Patch PROVE TypeOK'
    <2>0. pc # "idle" /\ lastId' = lastId /\ lastId \in Nat /\ Ids' = Ids
      BY <1>4 DEF Patch, TypeOK, Ids
    <2>1. ASSUME graphId \in DOMAIN rules, Change(Patched) PROVE TenantTyped'
      BY <1>4, <2>0, <2>1, PatchedTyped, ChangeTyped DEF Patch, TypeOK
    <2>2. CASE graphId \in DOMAIN rules /\ Change(Patched) /\ RecordGraphId(Current.name, graphId)
                 /\ Goto("verify") /\ UNCHANGED <<at, graphId, results>>
      <3>1. graphId \in Nat \ {0} /\ graphId <= lastId
        BY <2>2, PartialIff DEF TypeOK, Ids
      <3>2. IndexTyped'
        BY <2>0, <2>2, <3>1, CurrentTyped, RecordTyped DEF Yaml
      <3> QED
        BY <1>4, <2>0, <2>1, <2>2, <3>2 DEF Patch, Goto, TypeOK, TenantTyped, IndexTyped
    <2>3. CASE Return("error-status") /\ UNCHANGED <<rules, lagging, nameMap, graphIds>>
      BY <1>0, <1>4, <2>0, <2>3, ReturnStep, SameIndexTyped DEF Patch, TypeOK, Statuses
    <2>4. ASSUME NEW seen \in Refusals \cup Exceptions, NEW committed \in BOOLEAN,
                 IF committed /\ graphId \in DOMAIN rules
                     THEN Change(Patched) ELSE UNCHANGED <<rules, lagging>>,
                 RetryOrFail(TRUE, seen), UNCHANGED <<nameMap, graphIds>>
          PROVE  TypeOK'
      <3>1. TenantTyped'
        BY <1>0, <1>4, <2>1, <2>4 DEF Patch
      <3>2. IndexTyped'
        BY <2>0, <2>4, SameIndexTyped
      <3>3. UNCHANGED <<run, yamls, edits, listed>>
        BY <1>4 DEF Patch
      <3>4. RetryOrFail(TRUE, seen)
        BY <2>4
      <3>5. lastId' \in Nat /\ lastId <= lastId' /\ seen \in Refusals \cup Exceptions
        BY <2>0
      <3> QED
        BY ONLY <2>0, <3>1, <3>2, <3>3, <3>4, <3>5, TypeOK, Calls, FailStep
    <2> QED
      BY <1>4, <2>2, <2>3, <2>4 DEF Patch
  <1>5. ASSUME PostRule PROVE TypeOK'
    <2>0. pc # "idle"
      BY <1>5 DEF PostRule
    <2>1. CASE Create(TRUE) /\ graphId' = lastId + 1 /\ RecordGraphId(Current.name, lastId + 1)
                 /\ Goto("verify") /\ UNCHANGED <<at, results>>
      <3>1. TenantTyped' /\ lastId' = lastId + 1 /\ lastId \in Nat
        BY <2>0, <2>1, CreateTyped
      <3>2. IndexTyped'
        BY <2>0, <2>1, <3>1, CurrentTyped, RecordTyped DEF Yaml
      <3>3. graphId' \in Ids'
        BY <2>1, <3>1 DEF Ids
      <3> QED
        BY <1>5, <2>1, <3>1, <3>2, <3>3 DEF PostRule, Goto, TypeOK, TenantTyped, IndexTyped
    <2>2. CASE Create(FALSE) /\ Return("unverified") /\ UNCHANGED <<nameMap, graphIds>>
      <3>1. TenantTyped' /\ lastId' = lastId + 1 /\ lastId \in Nat
        BY <2>0, <2>2, CreateTyped
      <3> QED
        BY <1>5, <2>0, <2>2, <3>1, ReturnStep, SameIndexTyped DEF PostRule, TypeOK, Statuses
    <2>3. ASSUME NEW seen \in Refusals \cup Exceptions, NEW committed \in BOOLEAN,
                 IF committed THEN Create(FALSE) ELSE UNCHANGED <<rules, lagging, lastId, posts>>,
                 RetryOrFail(FALSE, seen), UNCHANGED <<nameMap, graphIds>>
          PROVE  TypeOK'
      <3>1. TenantTyped' /\ lastId' \in Nat /\ lastId <= lastId'
        <4>1. ASSUME Create(FALSE) PROVE TenantTyped' /\ lastId' = lastId + 1 /\ lastId \in Nat
          BY <2>0, <4>1, CreateTyped
        <4>2. CASE Create(FALSE)
          BY <4>1, <4>2
        <4>3. CASE UNCHANGED <<rules, lagging, lastId, posts>>
          BY <1>0, <4>3
        <4> QED
          BY ONLY <2>3, <4>2, <4>3
      <3>2. IndexTyped'
        BY <2>3, <3>1, SameIndexTyped
      <3>3. UNCHANGED <<run, yamls, edits, listed>>
        BY <1>5 DEF PostRule
      <3>4. RetryOrFail(FALSE, seen) /\ seen \in Refusals \cup Exceptions
        BY <2>3
      <3> QED
        BY ONLY <2>0, <3>1, <3>2, <3>3, <3>4, TypeOK, Calls, FailStep
    <2> QED
      BY <1>5, <2>1, <2>2, <2>3 DEF PostRule
  <1>6. ASSUME Verify PROVE TypeOK'
    <2>1. CASE tries + 1 < MaxVerify /\ tries' = tries + 1 /\ UNCHANGED <<at, pc, graphId, results>>
      <3>1. tries' \in 0..(MaxRetries + MaxVerify)
        BY <2>1 DEF TypeOK
      <3> QED
        BY <1>6, <2>1, <3>1 DEF Verify, TypeOK, tenant, Ids
    <2>2. ASSUME NEW status \in {"verified", "unverified"}, Return(status) PROVE TypeOK'
      BY <1>0, <1>6, <2>2, ReturnStep, SameIndexTyped DEF Verify, tenant, TypeOK, Statuses
    <2> QED
      BY <1>6, <2>1, <2>2 DEF Verify
  <1>7. ASSUME Crash PROVE TypeOK'
    BY <1>7 DEF Crash, Goto, TypeOK, tenant, Ids
  <1>8. ASSUME Converge PROVE TypeOK'
    BY <1>8 DEF Converge, TypeOK, Ids
  <1>9. ASSUME PortalEdit PROVE TypeOK'
    <2>0. lastId' = lastId /\ lastId \in Nat /\ Ids' = Ids /\ posts' = posts /\ edits' \in 0..MaxEdits
      BY <1>9 DEF PortalEdit, TypeOK, Ids
    <2>1. DOMAIN rules \subseteq Ids /\ rules \in [DOMAIN rules -> Rule]
      BY PartialIff DEF TypeOK
    <2>2. PICK i \in DOMAIN rules :
              \/ \E b \in Bodies : Change([rules EXCEPT ![i].body = b])
              \/ Change(Restrict(rules, DOMAIN rules \ {i}))
      BY <1>9 DEF PortalEdit
    <2>3. ASSUME NEW b \in Bodies PROVE [rules EXCEPT ![i].body = b] \in Partial(Ids, Rule)
      <3> DEFINE new == [rules EXCEPT ![i].body = b]
      <3>1. [rules[i] EXCEPT !.body = b] \in Rule
        BY <2>1 DEF Rule
      <3>2. DOMAIN new = DOMAIN rules /\ new \in [DOMAIN rules -> Rule]
        BY <2>1, <3>1
      <3> QED
        BY ONLY <2>1, <3>2, PartialIff
    <2>4. Restrict(rules, DOMAIN rules \ {i}) \in Partial(Ids, Rule)
      BY <2>1, PartialIff DEF Restrict
    <2>5. ASSUME NEW new \in Partial(Ids, Rule), Change(new) PROVE TenantTyped'
      BY <2>0, <2>5, ChangeTyped DEF TypeOK
    <2>6. TenantTyped'
      BY <2>2, <2>3, <2>4, <2>5
    <2> QED
      BY <1>9, <2>0, <2>6 DEF PortalEdit, TypeOK, TenantTyped
  <1>10. CASE UNCHANGED vars
    BY <1>10 DEF vars, TypeOK, Ids
  <1> QED
    BY <1>1, <1>2, <1>3, <1>4, <1>5, <1>6, <1>7, <1>8, <1>9, <1>10, StartTyped DEF Next, RunStep

-----------------------------------------------------------------------------
LEMMA InitStep == Init => IInv
  <1> SUFFICES ASSUME Init PROVE IInv
    OBVIOUS
  <1>1. /\ lastId \in Nat /\ DOMAIN rules = Ids /\ rules \in [Ids -> Rule]
        /\ \A i, j \in DOMAIN rules : rules[i].name = rules[j].name => i = j
    BY InitialRulesAssumption DEF Init, Ids
  <1>2. rules \in Partial(Ids, Rule) /\ lagging \in Partial(Ids, Rule)
    BY <1>1, PartialIff DEF Init
  <1>3. nameMap \in Partial(Names, Ids)
    <2>1. <<>> \in [{} -> Ids] /\ {} \in SUBSET Names
      OBVIOUS
    <2> QED
      BY <2>1 DEF Partial, Init
  <1>4. results \in Seq(Statuses) /\ Len(results) = 0 /\ Len(yamls) = 0 /\ DOMAIN yamls = {}
    BY DEF Init
  <1>5. TypeOK
    <2>1. 0 \in 0..MaxEdits /\ 0 \in 0..MaxRuns /\ 0 \in 0..(MaxRetries + MaxVerify)
      OBVIOUS
    <2>2. edits = 0 /\ run = 0 /\ tries = 0 /\ at = 1 /\ yamls = <<>>
      BY DEF Init
    <2>3. at \in 1..(Len(yamls) + 1) /\ Len(results) <= Len(yamls)
      BY <1>4, <2>2
    <2>4. /\ pc = "idle" /\ listed = FALSE /\ graphIds = {} /\ graphId = None /\ posts = {}
      BY DEF Init
    <2> QED
      BY <1>1, <1>2, <1>3, <1>4, <2>1, <2>2, <2>3, <2>4 DEF TypeOK
  <1>6. Calls /\ Known /\ Told /\ SecondYamlPatches
    BY <1>4 DEF Init, Calls, Known, Told, SecondYamlPatches
  <1>7. OneRulePerName
    BY <1>1 DEF OneRulePerName, Duplicated
  <1> QED
    BY <1>5, <1>6, <1>7 DEF IInv

\* A YAML of a name that no checkout renames resolves by that name.
LEMMA ByName ==
    ASSUME TypeOK, Calls, pc \in {"compare", "patch", "post"}, Unrenamed(Current.name)
    PROVE  IF Current.name \in DOMAIN nameMap THEN graphId = nameMap[Current.name]
                                              ELSE graphId = None
  <1>1. at \in DOMAIN yamls
    BY CurrentTyped
  <1>2. yamls \in Checkouts
    BY <1>1 DEF TypeOK
  <1>3. Current.arm = None
    BY <1>1, <1>2 DEF Unrenamed, Current
  <1>4. None \notin graphIds
    BY DEF TypeOK, Ids, None
  <1> QED
    BY <1>3, <1>4 DEF Calls, ResolveGraphId

LEMMA ReturnMoves ==
    ASSUME TypeOK, Calls, pc # "idle", NEW status \in Statuses, Return(status),
           UNCHANGED <<run, yamls, listed>>
    PROVE  Calls' /\ at' = at + 1
  <1>1. /\ Len(results') = at' - 1 /\ at' = at + 1
        /\ pc' \in {"idle", "resolve"} /\ (pc' # "idle" => at' <= Len(yamls))
    BY ReturnTyped
  <1> QED
    BY <1>1 DEF Calls

LEMMA SameCalls ==
    ASSUME Calls,
           UNCHANGED <<run, yamls, at, pc, listed, nameMap, graphIds, graphId, results>>
    PROVE  Calls'
  BY DEF Calls, ResolveGraphId, Current

\* A failed call leaves the run where it was, or moves it to the next YAML.
LEMMA FailMoves ==
    ASSUME TypeOK, Calls, pc # "idle", NEW b \in BOOLEAN, NEW seen \in Refusals \cup Exceptions,
           RetryOrFail(b, seen), UNCHANGED <<run, yamls, listed, nameMap, graphIds>>
    PROVE  /\ Calls' /\ at' \in {at, at + 1}
           /\ seen \notin Retryable(b) => at' = at + 1
  <1>1. CASE Retries(b, seen, tries) /\ UNCHANGED <<pc, at, results, graphId>>
    BY <1>1, SameCalls DEF Retries
  <1>2. ASSUME NEW status \in Statuses, Return(status) PROVE Calls' /\ at' = at + 1
    BY <1>2, ReturnMoves
  <1>3. "error-apply" \in Statuses /\ "error-status" \in Statuses
    BY DEF Statuses
  <1> QED
    BY <1>1, <1>2, <1>3 DEF RetryOrFail

\* What a PATCH leaves: the rule as it was, or the YAML's rule, which its answer
\* puts under the YAML's name.
LEMMA PatchCases ==
    ASSUME TypeOK, Calls, Patch
    PROVE  /\ Calls' /\ at' \in {at, at + 1}
           /\ UNCHANGED <<lastId, posts, run, yamls, listed>>
           /\ \/ UNCHANGED <<rules, nameMap>>
              \/ graphId \in DOMAIN rules /\ rules' = Patched /\ nameMap' = nameMap
              \/ /\ graphId \in DOMAIN rules /\ rules' = Patched
                 /\ RecordGraphId(Current.name, graphId) /\ at' = at
  <1>0. pc # "idle" /\ pc = "patch" /\ UNCHANGED <<lastId, posts, run, yamls, listed>>
    BY DEF Patch
  <1>1. CASE /\ graphId \in DOMAIN rules /\ Change(Patched)
             /\ RecordGraphId(Current.name, graphId)
             /\ Goto("verify") /\ UNCHANGED <<at, graphId, results>>
    <2>1. Calls'
      BY <1>0, <1>1 DEF Calls, Goto
    <2> QED
      BY <1>0, <1>1, <2>1 DEF Change
  <1>2. CASE Return("error-status") /\ UNCHANGED <<rules, lagging, nameMap, graphIds>>
    BY <1>0, <1>2, ReturnMoves DEF Statuses
  <1>3. ASSUME NEW seen \in Refusals \cup Exceptions, NEW committed \in BOOLEAN,
               IF committed /\ graphId \in DOMAIN rules
                   THEN Change(Patched) ELSE UNCHANGED <<rules, lagging>>,
               RetryOrFail(TRUE, seen), UNCHANGED <<nameMap, graphIds>>
        PROVE  /\ Calls' /\ at' \in {at, at + 1} /\ nameMap' = nameMap
               /\ rules' = rules \/ (graphId \in DOMAIN rules /\ rules' = Patched)
    <2>1. Calls' /\ at' \in {at, at + 1}
      BY <1>0, <1>3, FailMoves
    <2>2. CASE graphId \in DOMAIN rules /\ Change(Patched)
      BY <1>3, <2>1, <2>2 DEF Change
    <2>3. CASE UNCHANGED <<rules, lagging>>
      BY <1>3, <2>1, <2>3
    <2> QED
      BY ONLY <1>3, <2>2, <2>3
  <1> QED
    BY <1>0, <1>1, <1>2, <1>3 DEF Patch

Created(told) ==
    /\ lastId' = lastId + 1
    /\ DOMAIN rules' = DOMAIN rules \cup {lastId + 1}
    /\ rules'[lastId + 1].name = Current.name
    /\ \A i \in DOMAIN rules : i # lastId + 1 => rules'[i] = rules[i]
    /\ posts' = posts \cup {[id |-> lastId + 1, run |-> run, at |-> at,
                             name |-> Current.name, told |-> told]}

\* What a POST leaves: no rule, a rule that the index names, or a rule that the
\* run was not told of, past whose YAML it has moved.
LEMMA PostCases ==
    ASSUME TypeOK, Calls, PostRule
    PROVE  /\ Calls' /\ at' \in {at, at + 1}
           /\ UNCHANGED <<run, yamls, listed>>
           /\ \/ UNCHANGED <<rules, lastId, posts, nameMap>>
              \/ Created(TRUE) /\ RecordGraphId(Current.name, lastId + 1) /\ at' = at
              \/ Created(FALSE) /\ nameMap' = nameMap /\ at' = at + 1
  <1>0. pc # "idle" /\ pc = "post" /\ UNCHANGED <<run, yamls, listed>> /\ lastId \in Nat
    BY DEF PostRule, TypeOK
  <1>1. ASSUME NEW told, Create(told) PROVE Created(told)
    BY <1>1 DEF Create, Change, Created
  <1>2. CASE /\ Create(TRUE) /\ graphId' = lastId + 1
             /\ RecordGraphId(Current.name, lastId + 1)
             /\ Goto("verify") /\ UNCHANGED <<at, results>>
    <2>1. Calls'
      BY <1>0, <1>2 DEF Calls, Goto, None
    <2> QED
      BY <1>0, <1>1, <1>2, <2>1
  <1>3. CASE Create(FALSE) /\ Return("unverified") /\ UNCHANGED <<nameMap, graphIds>>
    BY <1>0, <1>1, <1>3, ReturnMoves DEF Statuses
  <1>4. ASSUME NEW seen \in Refusals \cup Exceptions, NEW committed \in BOOLEAN,
               Fault(seen, committed),
               IF committed THEN Create(FALSE) ELSE UNCHANGED <<rules, lagging, lastId, posts>>,
               RetryOrFail(FALSE, seen), UNCHANGED <<nameMap, graphIds>>
        PROVE  /\ Calls' /\ at' \in {at, at + 1} /\ nameMap' = nameMap
               /\ UNCHANGED <<rules, lastId, posts>> \/ (Created(FALSE) /\ at' = at + 1)
    <2>1. /\ Calls' /\ at' \in {at, at + 1}
          /\ seen \notin Retryable(FALSE) => at' = at + 1
      BY <1>0, <1>4, FailMoves
    <2>2. committed => seen \notin Retryable(FALSE)
      BY <1>4 DEF Fault, Retryable
    <2>3. CASE committed /\ Create(FALSE)
      BY <1>1, <1>4, <2>1, <2>2, <2>3
    <2>4. CASE UNCHANGED <<rules, lagging, lastId, posts>>
      BY <1>4, <2>1, <2>4
    <2> QED
      BY ONLY <1>4, <2>3, <2>4
  <1> QED
    BY <1>0, <1>2, <1>3, <1>4 DEF PostRule

\* What no step but a listing and a push does: name a rule, or note one.
Quiet ==
    /\ \A i \in DOMAIN rules' : i \in DOMAIN rules /\ rules'[i].name = rules[i].name
    /\ UNCHANGED <<lastId, posts, run, yamls, listed, nameMap>>
    /\ at' \in {at, at + 1}

Indexes ==
    /\ ~listed /\ \A n \in Names : ~Duplicated(n)
    /\ nameMap' = BuildNameMap
    /\ UNCHANGED <<rules, lastId, posts, run, yamls, at>>

LEMMA NextCases ==
    ASSUME TypeOK, Calls, [Next]_vars
    PROVE  Calls' /\ (Start \/ Indexes \/ Patch \/ PostRule \/ Quiet)
  <1>0. ASSUME UNCHANGED <<rules, lastId, posts, run, yamls, listed, nameMap>>, pc # "idle",
               NEW status \in Statuses, Return(status)
        PROVE  Calls' /\ Quiet
    BY <1>0, ReturnMoves DEF Quiet
  <1>1. CASE Start
    <2>1. yamls' # <<>> => Len(yamls') >= 1
      BY <1>1 DEF Start
    <2> QED
      BY <1>1, <2>1 DEF Start, Goto, Calls, TypeOK
  <1>2. CASE ListRules
    <2>1. CASE Return("error-apply") /\ UNCHANGED <<listed, nameMap, graphIds>>
      BY <1>0, <1>2, <2>1 DEF ListRules, tenant, Statuses
    <2>2. CASE /\ \A n \in Names : ~Duplicated(n)
               /\ listed' = TRUE /\ nameMap' = BuildNameMap /\ graphIds' = DOMAIN rules
               /\ UNCHANGED <<at, pc, graphId, tries, results>>
      BY <1>2, <2>2 DEF ListRules, tenant, Calls, Indexes
    <2> QED
      BY <1>2, <2>1, <2>2 DEF ListRules
  <1>3. CASE Resolve
    <2>1. Calls'
      BY <1>3 DEF Resolve, Goto, Calls, ResolveGraphId, Current
    <2> QED
      BY <1>3, <2>1 DEF Resolve, tenant, Quiet
  <1>4. CASE Compare
    <2>1. CASE Goto("patch") /\ UNCHANGED <<at, graphId, results>>
      <3>1. Calls'
        BY <1>4, <2>1 DEF Compare, Goto, Calls, ResolveGraphId, Current
      <3> QED
        BY <1>4, <2>1, <3>1 DEF Compare, tenant, Quiet
    <2>2. CASE Return("noop") \/ Return("error-apply")
      BY <1>0, <1>4, <2>2 DEF Compare, tenant, Statuses
    <2> QED
      BY <1>4, <2>1, <2>2 DEF Compare
  <1>5. CASE Patch
    BY <1>5, PatchCases
  <1>6. CASE PostRule
    BY <1>6, PostCases
  <1>7. CASE Verify
    <2>1. CASE UNCHANGED <<at, pc, graphId, results>>
      BY <1>7, <2>1, SameCalls DEF Verify, tenant, Quiet
    <2>2. CASE Return("verified") \/ Return("unverified")
      BY <1>0, <1>7, <2>2 DEF Verify, tenant, Statuses
    <2> QED
      BY <1>7, <2>1, <2>2 DEF Verify
  <1>8. CASE Crash
    BY <1>8 DEF Crash, Goto, tenant, Calls, Quiet
  <1>9. CASE Converge
    BY <1>9, SameCalls DEF Converge, Quiet
  <1>10. CASE PortalEdit
    <2>1. PICK i \in DOMAIN rules :
              \/ \E b \in Bodies : rules' = [rules EXCEPT ![i].body = b]
              \/ rules' = Restrict(rules, DOMAIN rules \ {i})
      BY <1>10 DEF PortalEdit, Change
    <2>2. \A j \in DOMAIN rules : rules[j] \in Rule
      BY PartialIff DEF TypeOK
    <2>3. \A j \in DOMAIN rules' : j \in DOMAIN rules /\ rules'[j].name = rules[j].name
      BY <2>1, <2>2 DEF Restrict, Rule
    <2> QED
      BY <1>10, <2>3, SameCalls DEF PortalEdit, Quiet
  <1>11. CASE UNCHANGED vars
    BY <1>11, SameCalls DEF vars, Quiet
  <1> QED
    BY <1>1, <1>2, <1>3, <1>4, <1>5, <1>6, <1>7, <1>8, <1>9, <1>10, <1>11 DEF Next, RunStep

-----------------------------------------------------------------------------
Bearers == Known /\ OneRulePerName      \* who bears a name
Posted == Told /\ SecondYamlPatches     \* what the posts tell

LEMMA NoMoreStays ==
    ASSUME TypeOK, NEW n, NoMore(n), yamls' = yamls, at' \in {at, at + 1}
    PROVE  NoMore(n)'
  <1>1. at \in Nat /\ at' >= at /\ at' \in Nat /\ Len(yamls) \in Nat
    BY CheckoutTyped DEF TypeOK
  <1> QED
    BY <1>1 DEF NoMore

LEMMA QuietStep ==
    ASSUME TypeOK, Bearers, Posted, Quiet
    PROVE  Bearers' /\ Posted'
  <1>1. Known'
    <2> SUFFICES ASSUME listed', NEW n \in Names, Claimed(n), NEW i \in DOMAIN rules',
                        rules'[i].name = n
                 PROVE  (n \in DOMAIN nameMap' /\ nameMap'[n] = i) \/ NoMore(n)'
      BY DEF Known, Claimed, Unshared, Unrenamed
    <2>1. (n \in DOMAIN nameMap /\ nameMap[n] = i) \/ NoMore(n)
      BY DEF Quiet, Bearers, Known
    <2> QED
      BY <2>1, NoMoreStays DEF Quiet
  <1>2. OneRulePerName'
    <2>1. \A n \in Names : Duplicated(n)' => Duplicated(n)
      BY DEF Quiet, Duplicated
    <2> QED
      BY <2>1 DEF Bearers, OneRulePerName, Unshared, Unrenamed
  <1>3. Told'
    BY DEF Quiet, Posted, Told, Indexed, Unrenamed
  <1>4. SecondYamlPatches'
    BY DEF Quiet, Posted, SecondYamlPatches, Unrenamed
  <1> QED
    BY <1>1, <1>2, <1>3, <1>4 DEF Bearers, Posted

LEMMA StartStep ==
    ASSUME TypeOK, Bearers, Posted, Start
    PROVE  Bearers' /\ Posted'
  <1>0. /\ UNCHANGED <<rules, lastId, posts>> /\ listed' = FALSE /\ run' = run + 1 /\ run \in Nat
        /\ \A k \in DOMAIN yamls' : yamls'[k].arm <= lastId
    BY DEF Start, tenant, TypeOK
  <1>1. Known' /\ OneRulePerName'
    BY <1>0 DEF Bearers, Known, OneRulePerName, Duplicated, Unshared, Unrenamed
  <1>2. \A p \in posts : p.run <= run /\ p.run \in Nat
    BY DEF Posted, Told, TypeOK, Post
  <1>3. Told'
    BY <1>0, <1>2 DEF Posted, Told
  <1>4. SecondYamlPatches'
    BY <1>0 DEF Posted, SecondYamlPatches, Unrenamed
  <1> QED
    BY <1>1, <1>3, <1>4 DEF Bearers, Posted

LEMMA IndexesStep ==
    ASSUME TypeOK, Bearers, Posted, Indexes
    PROVE  Bearers' /\ Posted'
  <1>1. Known'
    <2> SUFFICES ASSUME NEW n \in Names, NEW i \in DOMAIN rules, rules[i].name = n
                 PROVE  n \in DOMAIN BuildNameMap /\ BuildNameMap[n] = i
      BY DEF Indexes, Known
    <2>1. \A j \in DOMAIN rules : rules[j].name = n => j = i
      BY DEF Indexes, Duplicated
    <2> QED
      BY <2>1 DEF BuildNameMap
  <1>2. OneRulePerName'
    BY DEF Indexes, Bearers, OneRulePerName, Duplicated, Unshared, Unrenamed
  <1>3. Told' /\ SecondYamlPatches'
    <2>1. \A p \in posts : p.run # run
      BY DEF Posted, Told, Indexes
    <2> QED
      BY <2>1 DEF Indexes, Posted, Told, SecondYamlPatches, Unrenamed
  <1> QED
    BY <1>1, <1>2, <1>3 DEF Bearers, Posted

\* While a YAML of a claimed name is pushed, only the rule it resolved to, if any,
\* bears that name.
LEMMA OnlyBearer ==
    ASSUME TypeOK, Calls, Known, pc \in {"compare", "patch", "post"}, Claimed(Current.name),
           NEW i \in DOMAIN rules, rules[i].name = Current.name
    PROVE  i = graphId
  <1>1. at \in DOMAIN yamls /\ Current.name \in Names /\ listed
    BY CurrentTyped DEF Calls, Yaml
  <1>2. ~NoMore(Current.name)
    BY <1>1, CheckoutTyped DEF NoMore, Current
  <1> QED
    BY <1>1, <1>2, ByName DEF Known, Claimed

LEMMA PatchStep ==
    ASSUME TypeOK, Calls, Bearers, Posted, Patch
    PROVE  Bearers' /\ Posted'
  <1>0. /\ pc = "patch" /\ listed /\ graphId # None /\ graphId = ResolveGraphId(Current)
        /\ Current.name \in Names
    BY CurrentTyped DEF Patch, Calls, Yaml
  <1>1. CASE UNCHANGED <<rules, nameMap>>
    BY <1>1, PatchCases, QuietStep DEF Quiet
  <1>2. CASE /\ graphId \in DOMAIN rules /\ rules' = Patched
             /\ nameMap' = nameMap \/ RecordGraphId(Current.name, graphId)
    <2>0. /\ UNCHANGED <<lastId, posts, run, yamls, listed>> /\ at' \in {at, at + 1}
      BY PatchCases
    <2>1. /\ DOMAIN rules' = DOMAIN rules /\ rules'[graphId].name = Current.name
          /\ \A i \in DOMAIN rules : i # graphId => rules'[i] = rules[i]
      BY <1>2, PartialIff DEF Patched, TypeOK
    <2>2. Known'
      <3> SUFFICES ASSUME NEW n \in Names, Claimed(n), NEW i \in DOMAIN rules, rules'[i].name = n
                   PROVE  (n \in DOMAIN nameMap' /\ nameMap'[n] = i) \/ NoMore(n)'
        BY <2>1 DEF Known, Claimed, Unshared, Unrenamed
      <3>1. CASE i = graphId
        <4>1. n = Current.name
          BY <2>1, <3>1
        <4>2. n \in DOMAIN nameMap /\ nameMap[n] = i
          BY <1>0, <3>1, <4>1, ByName DEF Claimed
        <4> QED
          BY <1>2, <3>1, <4>1, <4>2 DEF RecordGraphId
      <3>2. CASE i # graphId
        <4>1. rules[i].name = n
          BY <2>1, <3>2
        <4>2. n # Current.name
          BY <1>0, <3>2, <4>1, OnlyBearer DEF Bearers
        <4>3. (n \in DOMAIN nameMap /\ nameMap[n] = i) \/ NoMore(n)
          BY <1>0, <4>1 DEF Bearers, Known
        <4>4. CASE NoMore(n)
          BY <2>0, <4>4, NoMoreStays
        <4>5. CASE n \in DOMAIN nameMap /\ nameMap[n] = i
          BY <1>2, <3>2, <4>2, <4>5 DEF RecordGraphId
        <4> QED
          BY <4>3, <4>4, <4>5
      <3> QED
        BY <3>1, <3>2
    <2>3. OneRulePerName'
      <3> SUFFICES ASSUME NEW n \in Names, Claimed(n), NEW i \in DOMAIN rules, NEW j \in DOMAIN rules,
                          i # j, rules'[i].name = n, rules'[j].name = n
                   PROVE  FALSE
        BY <2>1 DEF OneRulePerName, Duplicated, Claimed, Unshared, Unrenamed
      <3>1. CASE i # graphId /\ j # graphId
        BY <2>1, <3>1 DEF Bearers, OneRulePerName, Duplicated, Claimed
      <3>2. ASSUME NEW k \in DOMAIN rules, k # graphId, rules'[k].name = Current.name,
                   Claimed(Current.name)
            PROVE  FALSE
        BY <1>0, <2>1, <3>2, OnlyBearer DEF Bearers
      <3> QED
        BY <2>1, <3>1, <3>2
    <2>4. Told'
      <3>1. ASSUME NEW p \in posts, p.run = run, p.told, Unrenamed(p.name)
            PROVE  Indexed(p)'
        <4>1. Indexed(p) /\ \A k \in DOMAIN yamls : yamls[k].arm < p.id
          BY <3>1 DEF Posted, Told
        <4>2. Current.arm < p.id /\ Current.arm \in Nat /\ p.id \in Nat
          BY <1>0, <3>1, <4>1, CurrentTyped DEF Current, Yaml, TypeOK, Post
        <4>3. graphId = p.id <=> Current.name = p.name
          <5>1. ASSUME graphId = p.id PROVE Current.name = p.name
            BY <1>0, <4>1, <4>2, <5>1 DEF ResolveGraphId, Indexed
          <5>2. ASSUME Current.name = p.name PROVE graphId = p.id
            BY <1>0, <3>1, <4>1, <5>2, ByName DEF Indexed
          <5> QED
            BY <5>1, <5>2
        <4> QED
          BY <1>2, <4>1, <4>3 DEF Indexed, RecordGraphId
      <3> QED
        BY <2>0, <3>1 DEF Posted, Told, Unrenamed
    <2>5. SecondYamlPatches'
      BY <2>0 DEF Posted, SecondYamlPatches, Unrenamed
    <2> QED
      BY <2>2, <2>3, <2>4, <2>5 DEF Bearers, Posted
  <1> QED
    BY <1>1, <1>2, PatchCases

LEMMA PostStep ==
    ASSUME TypeOK, Calls, Bearers, Posted, PostRule
    PROVE  Bearers' /\ Posted'
  <1> DEFINE new == lastId + 1
  <1>0. /\ pc = "post" /\ listed /\ graphId = None /\ graphId = ResolveGraphId(Current)
        /\ Current.name \in Names /\ at \in DOMAIN yamls /\ lastId \in Nat
        /\ \A i \in DOMAIN rules : i # new /\ i # None
        /\ \A m \in DOMAIN nameMap : nameMap[m] # new /\ nameMap[m] # None
    <2>1. \A m \in DOMAIN nameMap : nameMap[m] \in Ids
      BY PartialIff DEF TypeOK
    <2>2. DOMAIN rules \subseteq Ids
      BY PartialIff DEF TypeOK
    <2>3. /\ pc = "post" /\ listed /\ graphId = None /\ graphId = ResolveGraphId(Current)
          /\ Current.name \in Names /\ at \in DOMAIN yamls /\ lastId \in Nat
      BY CurrentTyped DEF PostRule, Calls, Yaml, TypeOK
    <2>4. new \notin Ids /\ None \notin Ids
      BY <2>3 DEF Ids, None
    <2> HIDE DEF new
    <2> QED
      BY ONLY <2>1, <2>2, <2>3, <2>4
  <1>1. CASE UNCHANGED <<rules, lastId, posts, nameMap>>
    BY <1>1, PostCases, QuietStep DEF Quiet
  <1>2. ASSUME NEW told \in BOOLEAN, Created(told),
               \/ told /\ RecordGraphId(Current.name, new) /\ at' = at
               \/ ~told /\ nameMap' = nameMap /\ at' = at + 1
        PROVE  Bearers' /\ Posted'
    <2>q. PICK q : q = [id |-> new, run |-> run, at |-> at, name |-> Current.name, told |-> told]
      OBVIOUS
    <2>0. /\ lastId' = new /\ UNCHANGED <<run, yamls, listed>> /\ at' \in {at, at + 1}
          /\ posts' = posts \cup {q}
          /\ DOMAIN rules' = DOMAIN rules \cup {new} /\ rules'[new].name = Current.name
          /\ \A i \in DOMAIN rules : rules'[i] = rules[i]
      BY <1>0, <1>2, <2>q, PostCases DEF Created
    <2>1. Unrenamed(Current.name) => Current.name \notin DOMAIN nameMap
      BY <1>0, ByName
    <2>2. ASSUME NEW i \in DOMAIN rules, Claimed(Current.name) PROVE rules[i].name # Current.name
      BY <1>0, <2>2, OnlyBearer DEF Bearers
    <2>3. Known'
      <3> SUFFICES ASSUME NEW n \in Names, Claimed(n), NEW i \in DOMAIN rules', rules'[i].name = n
                   PROVE  (n \in DOMAIN nameMap' /\ nameMap'[n] = i) \/ NoMore(n)'
        BY <2>0 DEF Known, Claimed, Unshared, Unrenamed
      <3>1. CASE i = new
        <4>1. n = Current.name
          BY <2>0, <3>1
        <4>2. CASE told
          BY <1>2, <3>1, <4>1, <4>2 DEF RecordGraphId
        <4>3. CASE ~told
          <5>1. yamls \in Checkouts /\ at' = at + 1 /\ at \in Nat /\ Len(yamls) \in Nat
            BY <1>0, <1>2, <4>3, CheckoutTyped DEF TypeOK
          <5>2. \A k \in DOMAIN yamls : yamls[k].name = n => k = at
            BY <1>0, <4>1, <5>1 DEF Claimed, Unshared, Current
          <5>3. \A k \in (at + 1)..Len(yamls) : k \in DOMAIN yamls /\ k # at
            BY <1>0, <5>1, CheckoutTyped
          <5> QED
            BY <2>0, <5>1, <5>2, <5>3 DEF NoMore
        <4> QED
          BY <4>2, <4>3
      <3>2. CASE i # new
        <4>1. i \in DOMAIN rules /\ rules[i].name = n /\ n # Current.name
          BY <2>0, <2>2, <3>2
        <4>2. (n \in DOMAIN nameMap /\ nameMap[n] = i) \/ NoMore(n)
          BY <1>0, <4>1 DEF Bearers, Known
        <4>3. CASE NoMore(n)
          BY <2>0, <4>3, NoMoreStays
        <4>4. CASE n \in DOMAIN nameMap /\ nameMap[n] = i
          BY <1>2, <3>2, <4>1, <4>4 DEF RecordGraphId
        <4> QED
          BY <4>2, <4>3, <4>4
      <3> QED
        BY <3>1, <3>2
    <2>4. OneRulePerName'
      <3> SUFFICES ASSUME NEW n \in Names, Claimed(n), NEW i \in DOMAIN rules', NEW j \in DOMAIN rules',
                          i # j, rules'[i].name = n, rules'[j].name = n
                   PROVE  FALSE
        BY DEF OneRulePerName, Duplicated, Claimed, Unshared, Unrenamed
      <3>1. CASE i # new /\ j # new
        BY <2>0, <3>1 DEF Bearers, OneRulePerName, Duplicated, Claimed
      <3>2. CASE i = new \/ j = new
        BY <2>0, <2>2, <3>2
      <3> QED
        BY <3>1, <3>2
    <2>5. Told'
      <3>1. \A k \in DOMAIN yamls : yamls[k].arm \in Nat /\ yamls[k].arm <= lastId
        <4>1. \A k \in DOMAIN yamls : yamls[k] \in Yaml
          BY CheckoutTyped
        <4> QED
          BY <4>1 DEF Posted, Told, Yaml
      <3>2. ASSUME NEW p \in posts
            PROVE  /\ p.id <= new /\ p.id # new /\ p.run <= run
                   /\ p.run = run => \A k \in DOMAIN yamls : yamls[k].arm < p.id
        BY <1>0 DEF Posted, Told, TypeOK, Post
      <3>3. ASSUME NEW p \in posts, p.run = run, p.told, Unrenamed(p.name) PROVE Indexed(p)'
        <4>1. Indexed(p)
          BY <3>3 DEF Posted, Told
        <4>2. p.name # Current.name
          BY <2>1, <3>3, <4>1 DEF Indexed
        <4> QED
          BY <1>2, <3>2, <4>1, <4>2 DEF Indexed, RecordGraphId
      <3>4. told => Indexed(q)'
        <4>1. \A m \in DOMAIN nameMap : nameMap[m] # new
          BY <1>0
        <4>2. q.name = Current.name /\ q.id = new
          BY <2>q
        <4>3. ASSUME RecordGraphId(Current.name, new) PROVE Indexed(q)'
          <5>1. /\ Current.name \in DOMAIN nameMap' /\ nameMap'[Current.name] = new
                /\ \A m \in DOMAIN nameMap' : nameMap'[m] = new => m = Current.name
            <6> HIDE DEF new
            <6> QED
              BY ONLY <4>1, <4>3 DEF RecordGraphId
          <5> QED
            BY ONLY <4>2, <5>1 DEF Indexed
        <4> QED
          BY <1>2, <4>3
      <3>5. q.id = lastId' /\ q.id <= lastId' /\ q.run = run /\ q.run <= run /\ q.told = told
            /\ \A k \in DOMAIN yamls : yamls[k].arm <= lastId' /\ yamls[k].arm < q.id
        BY <1>0, <2>q, <2>0, <3>1 DEF TypeOK
      <3>6. \A p \in posts : p.run = run /\ p.told /\ Unrenamed(p.name) => Indexed(p)'
        BY <3>3
      <3>7. UNCHANGED <<run, yamls, listed>> /\ listed /\ lastId' = new /\ posts' = posts \cup {q}
        BY <1>0, <2>0
      <3>8. \A p \in posts' :
                /\ p.id <= lastId' /\ p.run <= run
                /\ p.run = run => \A k \in DOMAIN yamls : yamls[k].arm < p.id
        <4> HIDE DEF new
        <4>1. \A p \in posts : p.id <= lastId'
          BY ONLY <3>2, <3>7
        <4> QED
          BY ONLY <3>2, <3>5, <3>7, <4>1
      <3>9. \A p \in posts' : p.run = run /\ p.told /\ Unrenamed(p.name) => Indexed(p)'
        BY ONLY <3>4, <3>5, <3>6, <3>7
      <3> QED
        BY ONLY <3>5, <3>7, <3>8, <3>9 DEF Told, Unrenamed
    <2>6. SecondYamlPatches'
      <3>1. ASSUME NEW p \in posts, p.run = run, p.name = Current.name, Unrenamed(p.name) PROVE ~p.told
        BY <2>1, <3>1 DEF Posted, Told, Indexed
      <3>2. \A p \in posts : p.id <= lastId /\ p.id \in Nat
        BY DEF Posted, Told, TypeOK, Post
      <3> QED
        BY <1>0, <2>q, <2>0, <3>1, <3>2 DEF Posted, SecondYamlPatches, Unrenamed
    <2> QED
      BY <2>3, <2>4, <2>5, <2>6 DEF Bearers, Posted
  <1> QED
    BY <1>1, <1>2, PostCases

-----------------------------------------------------------------------------
LEMMA Inductive == IInv /\ [Next]_vars => IInv'
  <1> SUFFICES ASSUME IInv, [Next]_vars PROVE IInv'
    OBVIOUS
  <1>1. TypeOK /\ Calls /\ Bearers /\ Posted
    BY DEF IInv, Bearers, Posted
  <1>2. TypeOK'
    BY <1>1, TypeStep
  <1>3. Calls'
    BY <1>1, NextCases
  <1>4. Bearers' /\ Posted'
    BY <1>1, NextCases, StartStep, IndexesStep, PatchStep, PostStep, QuietStep
  <1> QED
    BY <1>2, <1>3, <1>4 DEF IInv, Bearers, Posted

LEMMA Invariance == Spec => []IInv
  BY InitStep, Inductive, PTL DEF Spec

\* The index, the YAMLs and the ids that Graph gives out stay what they are taken for.
THEOREM TypeCorrect == Spec => []TypeOK
  BY Invariance, PTL DEF IInv

\* However many runs, YAMLs and faults there are, no YAML makes a second rule of a
\* name that it alone claims: neither deploy.py's index nor a POST whose answer
\* was lost brings one about.
THEOREM NeverASecondRule == Spec => []NoSecondRule
  <1>1. IInv => NoSecondRule
    BY DEF IInv, NoSecondRule
  <1> QED
    BY <1>1, Invariance, PTL

\* resolve_graph_id: a POST is never made for a YAML whose recorded id is listed.
THEOREM RenamesInPlace == Spec => RenamedInPlace
  <1>1. IInv /\ [Next]_vars => [\A p \in posts' \ posts : yamls[p.at].arm \notin graphIds]_vars
    <2> SUFFICES ASSUME IInv, Next, NEW p \in posts' \ posts PROVE yamls[p.at].arm \notin graphIds
      OBVIOUS
    <2>1. TypeOK /\ Calls
      BY DEF IInv
    <2>2. ASSUME PostRule PROVE yamls[p.at].arm \notin graphIds
      <3>1. p.at = at
        BY <2>1, <2>2, PostCases DEF Created
      <3>2. None = ResolveGraphId(Current) /\ None \notin graphIds
        BY <2>1, <2>2 DEF PostRule, Calls, TypeOK, Ids, None
      <3> QED
        BY <3>1, <3>2 DEF ResolveGraphId, Current
    <2>3. ~PostRule => posts' = posts
      BY <2>1, NextCases, PatchCases DEF Start, tenant, Indexes, Quiet
    <2> QED
      BY <2>2, <2>3
  <1> QED
    BY <1>1, Invariance, PTL DEF Spec, RenamedInPlace
=============================================================================

---------------------------- MODULE ArmApply_proofs ----------------------------
(***************************************************************************)
(* What If-Match guarantees of ArmApply, for every number of runs, retries *)
(* and portal edits. An etag that has been replaced never comes back: a    *)
(* run whose etag moved, because its own PUT or somebody else's took       *)
(* effect, can change nothing any more, whatever it still has on the wire. *)
(* Then what the tool tells: what a green report means, for any            *)
(* installation; what the page of deployments says, after any past; what a *)
(* delta says, of any two reports.                                         *)
(***************************************************************************)
EXTENDS ArmApply, Doctor, StatusViews, Health, TLAPS

Calls ==
    /\ \A a \in Appliers : pc[a] \in {"get", "put", "verify", "done"}
    /\ \A p \in Pruners : pc[p] \in {"delete", "done"}
    /\ \A c \in Clients : result[c] # "none" => pc[c] = "done"

\* A PUT on the wire carries what its run read, however old the attempt is.
Wire ==
    \A m \in wire :
        /\ m.call = "put" =>
               /\ m.from \in Appliers /\ pc[m.from] # "get" /\ m.match = base[m.from]
               /\ result[m.from] \notin {"skipped", "dry-run"}
        /\ m.call = "delete" => m.from \in Pruners

\* Etags only grow, and a replaced one is never that of the resource again.
Tags ==
    /\ rule.tag <= lastTag
    /\ \A a \in Appliers : base[a] <= lastTag /\ answer[a].rule.tag <= lastTag
    /\ \A e \in writes : e.over <= lastTag /\ (e.over # 0 => rule.tag # e.over)

Landed(a) == \E e \in writes : e.by = a
Moved(a) == base[a] # 0 /\ rule.tag # base[a]

\* What an applier may conclude from what it has seen.
Progress ==
    \A a \in Appliers :
        /\ pc[a] = "get" => ~Landed(a)
        /\ pc[a] = "put" /\ answer[a].seen \in {"200", "201"} => Landed(a)
        /\ pc[a] = "put" /\ answer[a].seen = "412" => Moved(a)
        /\ pc[a] = "verify" => Landed(a)
        /\ result[a] \in {"success", "unverified"} => Landed(a)
        /\ result[a] = "error-412" => Moved(a)

Gone == rule.tag = 0 \/ \E e \in writes : 0 \in {e.over, e.tag}

\* And a pruner.
Deletions ==
    \A p \in Pruners :
        \/ Gone
        \/ answer[p].seen \notin {"200", "404"} /\ result[p] # "success"

IInv ==
    /\ TypeOK /\ Calls /\ Wire /\ Tags /\ NothingUnseenOverwritten /\ AppliedOnce
    /\ Progress /\ Deletions

-----------------------------------------------------------------------------
USE ClientsAssumption, BodiesAssumption, EditsAssumption, MaxRetriesAssumption

LEMMA CallTyped ==
    ASSUME TypeOK, NEW c \in Clients,
           NEW call \in {"get", "put", "verify", "delete", "done"}, Call(c, call)
    PROVE  /\ pc' \in [Clients -> {"get", "put", "verify", "delete", "done"}]
           /\ attempts' \in [Clients -> 0..MaxRetries]
           /\ answer' \in [Clients -> Answer]
  BY DEF TypeOK, Call, Idle, Answer, Seen, Absent, Rule, Content

LEMMA FinishTyped ==
    ASSUME TypeOK, NEW c \in Clients,
           NEW status \in {"skipped", "dry-run", "success", "unverified", "error-412",
                           "error-status", "error-apply", "error-exception"},
           Finish(c, status), UNCHANGED base
    PROVE  TypeOK'
  <1>1. Call(c, "done")
    BY DEF Finish
  <1>2. result' \in [Clients -> {"none", "skipped", "dry-run", "success", "unverified",
                                 "error-412", "error-status", "error-apply",
                                 "error-exception"}]
    BY DEF Finish, TypeOK
  <1> QED
    BY <1>1, <1>2, CallTyped DEF TypeOK, Call

LEMMA CurrentTyped ==
    ASSUME TypeOK, Calls, NEW c \in Clients, pc[c] # "done"
    PROVE  Current(c) \in Request
  <1>1. pc[c] \in {"get", "put", "verify", "delete"} /\ attempts[c] \in 0..MaxRetries
    BY DEF TypeOK
  <1>2. IfMatch(c) \in Nat
    BY DEF TypeOK, Calls, IfMatch, Clients
  <1>3. (IF c \in Appliers THEN body[c] ELSE PortalBody) \in Content
    BY DEF TypeOK, Content
  <1> QED
    BY <1>1, <1>2, <1>3 DEF Current, Request

LEMMA ActTyped ==
    ASSUME TypeOK, NEW m \in Request, NEW code \in Seen, Act(m, code)
    PROVE  rule' \in Rule /\ lastTag' \in Nat /\ writes' \subseteq Write
  <1>1. CASE UNCHANGED <<rule, lastTag, writes>>
    BY <1>1 DEF TypeOK
  <1>2. ASSUME NEW t \in Nat, Record(m.from, t)
        PROVE  writes' \subseteq Write
    BY <1>2 DEF TypeOK, Record, Write, Rule, Request
  <1>3. CASE /\ lastTag' = lastTag + 1
             /\ rule' = [body |-> m.body, tag |-> lastTag + 1]
             /\ Record(m.from, lastTag + 1)
    BY <1>2, <1>3 DEF TypeOK, Rule, Request
  <1>4. CASE rule' = Absent /\ Record(m.from, 0) /\ UNCHANGED lastTag
    BY <1>2, <1>4 DEF TypeOK, Rule, Absent, Content
  <1> QED
    BY <1>1, <1>3, <1>4 DEF Act

LEMMA TypeStep == TypeOK /\ Calls /\ [Next]_vars => TypeOK'
  <1> SUFFICES ASSUME TypeOK, Calls, [Next]_vars PROVE TypeOK'
    OBVIOUS
  <1> USE DEF See, Idle
  <1>1. ASSUME NEW c \in Clients, Send(c) PROVE TypeOK'
    <2>1. Current(c) \in Request
      BY <1>1, CurrentTyped DEF Send
    <2>2. answer' \in [Clients -> Answer]
      BY <1>1 DEF Send, TypeOK, Answer, Seen, Absent, Rule, Content
    <2> QED
      BY <1>1, <2>1, <2>2 DEF Send, TypeOK
  <1>2. ASSUME NEW c \in Clients, ConnectFault(c) \/ ReadTimeout(c) PROVE TypeOK'
    <2>1. answer' \in [Clients -> Answer]
      BY <1>2 DEF ConnectFault, ReadTimeout, TypeOK, Answer, Seen, Absent, Rule, Content,
                  Exceptions
    <2>2. wire' \subseteq Request
      BY <1>2 DEF ConnectFault, ReadTimeout, TypeOK
    <2> QED
      BY <1>2, <2>1, <2>2 DEF ConnectFault, ReadTimeout, TypeOK
  <1>3. ASSUME NEW c \in Clients, Retry(c) PROVE TypeOK'
    <2>1. answer' \in [Clients -> Answer]
      BY <1>3 DEF Retry, TypeOK, Answer, Seen, Absent, Rule, Content
    <2>2. attempts' \in [Clients -> 0..MaxRetries]
      BY <1>3 DEF Retry, Retries, TypeOK
    <2> QED
      BY <1>3, <2>1, <2>2 DEF Retry, TypeOK
  <1>4. ASSUME NEW a \in Appliers, Skip(a) PROVE TypeOK'
    BY <1>4, FinishTyped DEF Skip, Clients
  <1>5. ASSUME NEW a \in Appliers, Got(a) PROVE TypeOK'
    <2>1. CASE Finish(a, "error-apply") /\ UNCHANGED base
      BY <2>1, FinishTyped DEF Clients
    <2>2. CASE /\ base' = [base EXCEPT ![a] = answer[a].rule.tag]
               /\ Call(a, "put") /\ UNCHANGED result
      <3>1. base' \in [Appliers -> Nat]
        BY <2>2 DEF TypeOK, Answer, Rule, Clients
      <3> QED
        BY <2>2, <3>1, CallTyped DEF TypeOK, Call, Clients
    <2> QED
      BY <1>5, <2>1, <2>2 DEF Got
  <1>6. ASSUME NEW a \in Appliers, PutAnswered(a) PROVE TypeOK'
    <2>1. CASE Call(a, "verify") /\ UNCHANGED result /\ UNCHANGED base
      BY <2>1, CallTyped DEF TypeOK, Call, Clients
    <2> QED
      BY <1>6, <2>1, FinishTyped DEF PutAnswered, Clients
  <1>7. ASSUME NEW a \in Appliers, Verified(a) PROVE TypeOK'
    BY <1>7, FinishTyped DEF Verified, Clients
  <1>8. ASSUME NEW p \in Pruners, Deleted(p) PROVE TypeOK'
    BY <1>8, FinishTyped DEF Deleted, Clients
  <1>9. ASSUME NEW m \in wire, Serve(m) PROVE TypeOK'
    <2>1. m \in Request
      BY DEF TypeOK
    <2>2. PICK code \in Seen :
              /\ Act(m, code)
              /\ IF Listening(m)
                 THEN \E seen \in {code, "5xx", "transport"} :
                        answer' = [answer EXCEPT ![m.from] =
                            [seen |-> seen,
                             rule |-> IF seen = code /\ code = "200" /\ m.call # "put"
                                      THEN rule ELSE Absent]]
                 ELSE UNCHANGED answer
      BY <1>9 DEF Serve
    <2>3. rule' \in Rule /\ lastTag' \in Nat /\ writes' \subseteq Write
      BY <2>1, <2>2, ActTyped
    <2>4. Absent \in Rule /\ rule \in Rule
      BY DEF Absent, Rule, Content, TypeOK
    <2>5. {code, "5xx", "transport"} \subseteq Seen
      BY DEF Seen, Refusals, Exceptions
    <2>6. answer' \in [Clients -> Answer]
      <3>1. ASSUME NEW seen \in {code, "5xx", "transport"}, NEW r \in Rule
            PROVE  [seen |-> seen, rule |-> r] \in Answer
        BY <2>5 DEF Answer
      <3>2. CASE Listening(m)
        <4>1. PICK seen \in {code, "5xx", "transport"} :
                answer' = [answer EXCEPT ![m.from] =
                    [seen |-> seen,
                     rule |-> IF seen = code /\ code = "200" /\ m.call # "put"
                              THEN rule ELSE Absent]]
          BY <2>2, <3>2
        <4> DEFINE r == IF seen = code /\ code = "200" /\ m.call # "put"
                        THEN rule ELSE Absent
        <4>2. r \in Rule
          BY <2>4
        <4> HIDE DEF r
        <4>3. [seen |-> seen, rule |-> r] \in Answer
          BY <3>1, <4>2
        <4>4. answer' = [answer EXCEPT ![m.from] = [seen |-> seen, rule |-> r]]
          BY <4>1 DEF r
        <4> QED
          BY <4>3, <4>4 DEF TypeOK
      <3> QED
        BY <2>2, <3>2 DEF TypeOK
    <2> QED
      BY <1>9, <2>3, <2>6 DEF Serve, TypeOK
  <1>10. ASSUME NEW m \in wire, Refuse(m) PROVE TypeOK'
    <2>1. answer' \in [Clients -> Answer]
      <3>1. CASE Listening(m)
        <4>1. PICK seen \in Refusals : answer' = [answer EXCEPT ![m.from] = See(seen)]
          BY <1>10, <3>1 DEF Refuse
        <4>2. See(seen) \in Answer
          BY DEF Answer, Seen, Absent, Rule, Content
        <4> QED
          BY <4>1, <4>2 DEF TypeOK
      <3> QED
        BY <1>10, <3>1 DEF Refuse, TypeOK
    <2> QED
      BY <1>10, <2>1 DEF Refuse, TypeOK
  <1>11. CASE PortalEdit
    <2>1. rule' \in Rule /\ lastTag' \in Nat
      BY <1>11 DEF PortalEdit, TypeOK, Rule, Absent, Content
    <2>2. writes' \subseteq Write
      BY <1>11 DEF PortalEdit, TypeOK, Record, Write, Rule
    <2>3. edits' \in 0..MaxEdits
      BY <1>11 DEF PortalEdit, TypeOK
    <2> QED
      BY <1>11, <2>1, <2>2, <2>3 DEF PortalEdit, TypeOK
  <1>12. CASE UNCHANGED vars
    BY <1>12 DEF vars, TypeOK
  <1> QED
    BY <1>1, <1>2, <1>3, <1>4, <1>5, <1>6, <1>7, <1>8, <1>9, <1>10, <1>11, <1>12
    DEF Next, Step

-----------------------------------------------------------------------------
(* The invariant is inductive: one lemma for what a client does on its own,  *)
(* one for what changes the resource.                                       *)

\* The steps of a client that is between two answers, and a refused request.
Quiet ==
    \/ \E c \in Clients : Send(c) \/ ConnectFault(c) \/ ReadTimeout(c) \/ Retry(c)
    \/ \E m \in wire : Refuse(m)

LEMMA QuietStep == TypeOK' /\ IInv /\ Quiet => IInv'
  <1> SUFFICES ASSUME TypeOK', IInv, Quiet PROVE IInv'
    OBVIOUS
  <1> USE DEF IInv
  <1>1. UNCHANGED <<rule, lastTag, writes, base, result, pc>>
    BY DEF Quiet, Send, ConnectFault, ReadTimeout, Retry, Refuse
  <1>2. \A c \in Clients :
           \/ answer'[c] = answer[c]
           \/ /\ answer'[c].seen \in {"idle", "waiting"} \cup Refusals \cup Exceptions
              /\ answer'[c].rule = Absent
    <2>1. ASSUME NEW c \in Clients,
                 NEW seen \in {"idle", "waiting"} \cup Refusals \cup Exceptions,
                 answer' = [answer EXCEPT ![c] = See(seen)]
          PROVE  \A d \in Clients :
                    \/ answer'[d] = answer[d]
                    \/ answer'[d].seen = seen /\ answer'[d].rule = Absent
      BY <2>1 DEF TypeOK, See
    <2>2. ASSUME NEW c \in Clients, Send(c) \/ ConnectFault(c) \/ ReadTimeout(c) \/ Retry(c)
          PROVE  \E seen \in {"idle", "waiting"} \cup Exceptions :
                    answer' = [answer EXCEPT ![c] = See(seen)]
      BY <2>2 DEF Send, ConnectFault, ReadTimeout, Retry, Exceptions, See, Idle
    <2>3. ASSUME NEW m \in wire, Refuse(m)
          PROVE  /\ m.from \in Clients
                 /\ \/ UNCHANGED answer
                    \/ \E seen \in Refusals : answer' = [answer EXCEPT ![m.from] = See(seen)]
      <3>1. m.from \in Clients
        BY DEF TypeOK, Request
      <3> QED
        BY <2>3, <3>1 DEF Refuse
    <2>4. CASE UNCHANGED answer
      BY <2>4
    <2>5. CASE ~ UNCHANGED answer
      <3>1. PICK c \in Clients, seen \in {"idle", "waiting"} \cup Refusals \cup Exceptions :
                answer' = [answer EXCEPT ![c] = See(seen)]
        BY <2>2, <2>3, <2>5 DEF Quiet
      <3>2. \A d \in Clients :
                \/ answer'[d] = answer[d]
                \/ answer'[d].seen = seen /\ answer'[d].rule = Absent
        BY <2>1, <3>1
      <3> QED
        BY <3>2
    <2> QED
      BY <2>4, <2>5
  <1>3. ASSUME NEW m \in wire', m \notin wire
        PROVE  /\ m.from \in Clients /\ m.call = pc[m.from] /\ pc[m.from] # "done"
               /\ m.match = IfMatch(m.from)
    <2>1. PICK c \in Clients : Send(c)
      BY <1>3 DEF Quiet, Send, ConnectFault, ReadTimeout, Retry, Refuse
    <2>2. m = Current(c)
      BY <1>3, <2>1 DEF Send
    <2> QED
      BY <2>1, <2>2 DEF Send, Current
  <1>4. Calls'
    BY <1>1 DEF Calls
  <1>5. Wire'
    <2> SUFFICES ASSUME NEW m \in wire'
                 PROVE  /\ m.call = "put" =>
                            /\ m.from \in Appliers /\ pc[m.from] # "get"
                            /\ m.match = base[m.from]
                            /\ result[m.from] \notin {"skipped", "dry-run"}
                        /\ m.call = "delete" => m.from \in Pruners
      BY <1>1 DEF Wire
    <2>1. CASE m \in wire
      BY <2>1 DEF Wire
    <2>2. CASE m \notin wire
      BY <2>2, <1>3 DEF Calls, IfMatch, Clients
    <2> QED
      BY <2>1, <2>2
  <1>6. Tags'
    BY <1>1, <1>2 DEF Tags, TypeOK, Absent, Clients
  <1>7. NothingUnseenOverwritten' /\ AppliedOnce'
    BY <1>1 DEF NothingUnseenOverwritten, AppliedOnce
  <1>8. Progress'
    BY <1>1, <1>2 DEF Progress, Landed, Moved, Clients, Refusals, Exceptions
  <1>9. Deletions'
    BY <1>1, <1>2 DEF Deletions, Gone, Clients, Refusals, Exceptions
  <1> QED
    BY <1>4, <1>5, <1>6, <1>7, <1>8, <1>9

LEMMA CallFacts ==
    ASSUME TypeOK, NEW c \in Clients,
           NEW call \in {"get", "put", "verify", "delete", "done"}, Call(c, call)
    PROVE  /\ pc' = [pc EXCEPT ![c] = call]
           /\ \A d \in Clients \ {c} : pc'[d] = pc[d] /\ answer'[d] = answer[d]
           /\ pc'[c] = call /\ answer'[c].seen = "idle" /\ answer'[c].rule.tag = 0
           /\ UNCHANGED <<rule, lastTag, wire, writes>>
  BY DEF Call, TypeOK, Idle, Absent

LEMMA FinishStep ==
    ASSUME TypeOK', IInv, NEW c \in Clients, pc[c] # "done", UNCHANGED base,
           NEW status \in {"skipped", "dry-run", "success", "unverified", "error-412",
                           "error-status", "error-apply", "error-exception"},
           Finish(c, status),
           status \in {"skipped", "dry-run"} => pc[c] = "get",
           c \in Appliers /\ status \in {"success", "unverified"} => Landed(c),
           c \in Appliers /\ status = "error-412" => Moved(c),
           c \in Pruners /\ status = "success" => Gone
    PROVE  IInv'
  <1> USE DEF IInv
  <1>1. /\ \A d \in Clients \ {c} : /\ pc'[d] = pc[d] /\ answer'[d] = answer[d]
                                    /\ result'[d] = result[d]
        /\ pc'[c] = "done" /\ result'[c] = status
        /\ answer'[c].seen = "idle" /\ answer'[c].rule.tag = 0
        /\ UNCHANGED <<rule, lastTag, wire, writes>>
    <2>1. Call(c, "done") /\ result' = [result EXCEPT ![c] = status]
      BY DEF Finish
    <2> QED
      BY <2>1, CallFacts DEF TypeOK
  <1>2. Calls'
    BY <1>1 DEF Calls, Clients
  <1>3. Wire'
    BY <1>1 DEF Wire, Clients
  <1>4. Tags'
    BY <1>1 DEF Tags, Clients, TypeOK
  <1>5. NothingUnseenOverwritten' /\ AppliedOnce'
    BY <1>1 DEF NothingUnseenOverwritten, AppliedOnce
  <1>6. Progress'
    BY <1>1 DEF Progress, Landed, Moved, Clients
  <1>7. Deletions'
    BY <1>1 DEF Deletions, Gone, Clients
  <1> QED
    BY <1>2, <1>3, <1>4, <1>5, <1>6, <1>7

\* The GET that names the version to replace.
LEMMA BaseStep ==
    ASSUME TypeOK', IInv, NEW a \in Appliers, pc[a] = "get", Call(a, "put"),
           base' = [base EXCEPT ![a] = answer[a].rule.tag], UNCHANGED result
    PROVE  IInv'
  <1> USE DEF IInv
  <1>1. /\ \A d \in Clients \ {a} : pc'[d] = pc[d] /\ answer'[d] = answer[d]
        /\ pc'[a] = "put" /\ answer'[a].seen = "idle" /\ answer'[a].rule.tag = 0
        /\ UNCHANGED <<rule, lastTag, wire, writes>>
    BY CallFacts DEF Clients
  <1>2. /\ \A d \in Appliers \ {a} : base'[d] = base[d]
        /\ base'[a] = answer[a].rule.tag
    BY DEF TypeOK
  <1>3. Calls'
    BY <1>1 DEF Calls, Clients
  <1>4. Wire'
    BY <1>1, <1>2 DEF Wire, Clients
  <1>5. Tags'
    BY <1>1, <1>2 DEF Tags, Clients, TypeOK
  <1>6. NothingUnseenOverwritten' /\ AppliedOnce'
    BY <1>1, <1>2 DEF NothingUnseenOverwritten, AppliedOnce, Progress, Landed
  <1>7. Progress'
    BY <1>1, <1>2 DEF Progress, Landed, Moved, Clients, Calls
  <1>8. Deletions'
    BY <1>1 DEF Deletions, Gone, Clients
  <1> QED
    BY <1>3, <1>4, <1>5, <1>6, <1>7, <1>8

LEMMA VerifyStep ==
    ASSUME TypeOK', IInv, NEW a \in Appliers, pc[a] = "put", Call(a, "verify"),
           Landed(a), UNCHANGED <<base, result>>
    PROVE  IInv'
  <1> USE DEF IInv
  <1>1. /\ \A d \in Clients \ {a} : pc'[d] = pc[d] /\ answer'[d] = answer[d]
        /\ pc'[a] = "verify" /\ answer'[a].seen = "idle" /\ answer'[a].rule.tag = 0
        /\ UNCHANGED <<rule, lastTag, wire, writes>>
    BY CallFacts DEF Clients
  <1>2. Calls' /\ Wire'
    BY <1>1 DEF Calls, Wire, Clients
  <1>3. Tags'
    BY <1>1 DEF Tags, Clients, TypeOK
  <1>4. NothingUnseenOverwritten' /\ AppliedOnce'
    BY <1>1 DEF NothingUnseenOverwritten, AppliedOnce
  <1>5. Progress'
    BY <1>1 DEF Progress, Landed, Moved, Clients
  <1>6. Deletions'
    BY <1>1 DEF Deletions, Gone, Clients
  <1> QED
    BY <1>2, <1>3, <1>4, <1>5, <1>6

Handled ==
    \/ \E a \in Appliers : Skip(a) \/ Got(a) \/ PutAnswered(a) \/ Verified(a)
    \/ \E p \in Pruners : Deleted(p)

LEMMA HandledStep == TypeOK' /\ IInv /\ Handled => IInv'
  <1> SUFFICES ASSUME TypeOK', IInv, Handled PROVE IInv'
    OBVIOUS
  <1>1. ASSUME NEW a \in Appliers, Skip(a) PROVE IInv'
    BY <1>1, FinishStep DEF Skip, Clients
  <1>2. ASSUME NEW a \in Appliers, Got(a) PROVE IInv'
    <2>1. CASE Finish(a, "error-apply") /\ UNCHANGED base
      BY <1>2, <2>1, FinishStep DEF Got, Clients
    <2> QED
      BY <1>2, <2>1, BaseStep DEF Got
  <1>3. ASSUME NEW a \in Appliers, PutAnswered(a) PROVE IInv'
    <2>1. CASE answer[a].seen \in {"200", "201"} /\ Call(a, "verify") /\ UNCHANGED result
      <3>1. Landed(a)
        BY <1>3, <2>1 DEF PutAnswered, IInv, Progress
      <3> QED
        BY <1>3, <2>1, <3>1, VerifyStep DEF PutAnswered
    <2>2. CASE answer[a].seen = "412" /\ Finish(a, "error-412")
      <3>1. Moved(a)
        BY <1>3, <2>2 DEF PutAnswered, IInv, Progress
      <3> QED
        BY <1>3, <2>2, <3>1, FinishStep DEF PutAnswered, Clients
    <2>3. CASE Finish(a, "error-status") \/ Finish(a, "error-apply")
      BY <1>3, <2>3, FinishStep DEF PutAnswered, Clients
    <2> QED
      BY <1>3, <2>1, <2>2, <2>3 DEF PutAnswered
  <1>4. ASSUME NEW a \in Appliers, Verified(a) PROVE IInv'
    <2>1. Landed(a)
      BY <1>4 DEF Verified, IInv, Progress
    <2> QED
      BY <1>4, <2>1, FinishStep DEF Verified, Clients
  <1>5. ASSUME NEW p \in Pruners, Deleted(p) PROVE IInv'
    <2>1. answer[p].seen \in {"200", "404"} => Gone
      BY DEF IInv, Deletions
    <2>2. p \notin Appliers
      OBVIOUS
    <2> QED
      BY <1>5, <2>1, <2>2, FinishStep DEF Deleted, Clients
  <1> QED
    BY <1>1, <1>2, <1>3, <1>4, <1>5 DEF Handled

-----------------------------------------------------------------------------
\* What the step of a request or of the portal leaves alone, and what a client
\* may have seen of it.
Untouched == UNCHANGED <<pc, base, result>> /\ wire' \subseteq wire

Saw(d, code) ==
    \/ answer'[d] = answer[d]
    \/ /\ answer'[d].seen \in {code, "5xx", "transport"}
       /\ answer'[d].rule \in {rule, Absent}

\* The resource changes: from the version a PUT has read, blindly, or not by PUT.
LEMMA EffectStep ==
    ASSUME TypeOK', IInv, Untouched, NEW by \in Clients \cup {"portal"}, NEW tag \in Nat,
           NEW code \in {"200", "201"},
           Record(by, tag), rule'.tag = tag,
           tag \in {0, lastTag + 1}, lastTag' \in {lastTag, lastTag + 1}, tag <= lastTag',
           by \in Appliers => pc[by] = "put" \/ pc[by] \in {"verify", "done"},
           by \in Appliers => base[by] \in {0, rule.tag} /\ tag # 0,
           by \in Clients \ Appliers => tag = 0,
           \A d \in Clients : answer'[d] = answer[d] \/ (d = by /\ Saw(d, code))
    PROVE  IInv'
  <1> USE DEF IInv
  <1> DEFINE new == [by |-> by, over |-> rule.tag, tag |-> tag]
  <1>1. writes' = writes \cup {new}
    BY DEF Record
  <1>2. rule.tag \in Nat /\ lastTag \in Nat /\ \A a \in Appliers : base[a] \in Nat
    BY DEF TypeOK, Rule
  <1>3. new.by = by /\ new.over = rule.tag /\ new.tag = tag
    OBVIOUS
  <1> HIDE DEF new
  <1>4. Calls' /\ Wire'
    BY DEF Untouched, Calls, Wire
  <1>5. Tags'
    <2>1. rule'.tag <= lastTag'
      OBVIOUS
    <2>2. \A a \in Appliers : base'[a] <= lastTag' /\ answer'[a].rule.tag <= lastTag'
      <3> SUFFICES ASSUME NEW a \in Appliers
                   PROVE  base[a] <= lastTag' /\ answer'[a].rule.tag <= lastTag'
        BY DEF Untouched
      <3>1. base[a] <= lastTag /\ answer[a].rule.tag <= lastTag /\ rule.tag <= lastTag
        BY DEF Tags
      <3>2. answer[a].rule.tag \in Nat
        BY DEF TypeOK, Answer, Rule, Clients
      <3>3. answer'[a].rule = answer[a].rule \/ answer'[a].rule \in {rule, Absent}
        BY DEF Saw, Clients
      <3>4. Absent.tag = 0
        BY DEF Absent
      <3> QED
        BY <1>2, <3>1, <3>2, <3>3, <3>4
    <2>3. ASSUME NEW e \in writes
          PROVE  e.over <= lastTag' /\ (e.over # 0 => rule'.tag # e.over)
      <3>1. e.over \in Nat /\ e.over <= lastTag
        BY DEF Tags, TypeOK, Write
      <3> QED
        BY <1>2, <3>1
    <2>4. new.over <= lastTag' /\ (new.over # 0 => rule'.tag # new.over)
      BY <1>2, <1>3 DEF Tags
    <2> QED
      BY <1>1, <2>1, <2>2, <2>3, <2>4 DEF Tags
  <1>6. NothingUnseenOverwritten'
    BY <1>1, <1>3 DEF NothingUnseenOverwritten, Untouched
  <1>7. AppliedOnce'
    <2>1. ASSUME NEW e \in writes, by \in Appliers, e.by = by, base[by] # 0
          PROVE  FALSE
      BY <2>1 DEF NothingUnseenOverwritten, Tags
    <2> QED
      BY <1>1, <1>3, <2>1 DEF AppliedOnce, Untouched
  <1>8. \A a \in Appliers : Landed(a)' <=> Landed(a) \/ a = by
    BY <1>1, <1>3 DEF Landed
  <1>9. \A a \in Appliers : Moved(a) => Moved(a)'
    BY <1>2 DEF Moved, Untouched, Tags
  <1>10. Progress'
    <2> SUFFICES ASSUME NEW a \in Appliers
                 PROVE  /\ pc[a] = "get" => ~Landed(a)'
                        /\ pc[a] = "put" /\ answer'[a].seen \in {"200", "201"} => Landed(a)'
                        /\ pc[a] = "put" /\ answer'[a].seen = "412" => Moved(a)'
                        /\ pc[a] = "verify" => Landed(a)'
                        /\ result[a] \in {"success", "unverified"} => Landed(a)'
                        /\ result[a] = "error-412" => Moved(a)'
      BY DEF Progress, Untouched
    <2>1. answer'[a] = answer[a] \/ (a = by /\ answer'[a].seen # "412")
      BY DEF Saw, Clients
    <2> QED
      BY <1>8, <1>9, <2>1 DEF Progress
  <1>11. Deletions'
    <2>1. Gone => Gone'
      BY <1>1, <1>3 DEF Gone
    <2>2. by \in Pruners => Gone'
      BY <1>1, <1>3 DEF Gone, Clients
    <2> QED
      BY <2>1, <2>2 DEF Deletions, Untouched, Clients
  <1> QED
    BY <1>4, <1>5, <1>6, <1>7, <1>10, <1>11

\* A request that changes nothing; the client may learn what it wanted to know.
LEMMA AnswerStep ==
    ASSUME TypeOK', IInv, Untouched, UNCHANGED <<rule, lastTag, writes>>,
           NEW m \in wire, NEW code \in Seen,
           \A d \in Clients :
               answer'[d] = answer[d] \/ (d = m.from /\ m.call = pc[d] /\ Saw(d, code)),
           m.call = "put" => code = "412" /\ m.match \notin {0, rule.tag},
           m.call = "delete" => rule.tag = 0
    PROVE  IInv'
  <1> USE DEF IInv
  <1>1. Calls' /\ Wire'
    BY DEF Untouched, Calls, Wire
  <1>2. Tags'
    BY DEF Tags, Untouched, Saw, Absent, Clients, TypeOK, Rule
  <1>3. NothingUnseenOverwritten' /\ AppliedOnce'
    BY DEF NothingUnseenOverwritten, AppliedOnce, Untouched
  <1>4. Progress'
    <2> SUFFICES ASSUME NEW a \in Appliers, pc[a] = "put", answer'[a] # answer[a]
                 PROVE  answer'[a].seen \notin {"200", "201"} /\
                        (answer'[a].seen = "412" => Moved(a))
      BY DEF Progress, Landed, Moved, Untouched
    <2>1. m.from = a /\ m.call = "put" /\ answer'[a].seen \in {"412", "5xx", "transport"}
      BY DEF Saw, Clients
    <2>2. m.match = base[a]
      BY <2>1 DEF Wire
    <2> QED
      BY <2>1, <2>2 DEF Moved
  <1>5. Deletions'
    <2>1. ASSUME NEW p \in Pruners, answer'[p] # answer[p]
          PROVE  Gone
      <3>1. m.call = pc[p] /\ m.call # "done" /\ pc[p] \in {"delete", "done"}
        BY <2>1 DEF TypeOK, Request, Calls, Clients
      <3> QED
        BY <3>1 DEF Gone
    <2> QED
      BY <2>1 DEF Deletions, Gone, Untouched
  <1> QED
    BY <1>1, <1>2, <1>3, <1>4, <1>5

LEMMA ServeStep == ASSUME TypeOK', IInv, NEW m \in wire, Serve(m) PROVE IInv'
  <1> USE DEF IInv
  <1>1. PICK code \in Seen :
            /\ Act(m, code)
            /\ IF Listening(m)
               THEN \E seen \in {code, "5xx", "transport"} :
                      answer' = [answer EXCEPT ![m.from] =
                          [seen |-> seen,
                           rule |-> IF seen = code /\ code = "200" /\ m.call # "put"
                                    THEN rule ELSE Absent]]
               ELSE UNCHANGED answer
    BY DEF Serve
  <1>2. Untouched
    BY DEF Serve, Untouched
  <1>3. m.from \in Clients /\ (Listening(m) => m.call = pc[m.from])
    BY DEF TypeOK, Request, Listening, Current
  <1>4. \A d \in Clients :
            answer'[d] = answer[d] \/ (d = m.from /\ m.call = pc[d] /\ Saw(d, code))
    BY <1>1, <1>3 DEF Saw, TypeOK
  <1>5. CASE UNCHANGED <<rule, lastTag, writes>> /\ m.call \in {"get", "verify"}
    BY <1>2, <1>4, <1>5, AnswerStep
  <1>6. CASE /\ UNCHANGED <<rule, lastTag, writes>>
             /\ m.call = "put" /\ code = "412" /\ m.match \notin {0, rule.tag}
    BY <1>2, <1>4, <1>6, AnswerStep
  <1>7. CASE UNCHANGED <<rule, lastTag, writes>> /\ m.call = "delete" /\ rule.tag = 0
    BY <1>2, <1>4, <1>7, AnswerStep
  <1>8. CASE /\ m.call = "put" /\ m.match \in {0, rule.tag} /\ code \in {"200", "201"}
             /\ lastTag' = lastTag + 1
             /\ rule' = [body |-> m.body, tag |-> lastTag + 1]
             /\ Record(m.from, lastTag + 1)
    <2>1. m.from \in Appliers /\ pc[m.from] \in {"put", "verify", "done"}
      BY <1>8 DEF Wire, Calls
    <2>2. base[m.from] \in {0, rule.tag}
      BY <1>8 DEF Wire
    <2>3. lastTag \in Nat /\ lastTag + 1 \in Nat /\ lastTag + 1 # 0 /\ rule'.tag = lastTag + 1
      BY <1>8 DEF TypeOK
    <2> QED
      BY <1>2, <1>3, <1>4, <1>8, <2>1, <2>2, <2>3, EffectStep
  <1>9. CASE /\ m.call = "delete" /\ rule.tag # 0 /\ code = "200"
             /\ rule' = Absent /\ Record(m.from, 0) /\ UNCHANGED lastTag
    <2>1. m.from \notin Appliers
      BY <1>9 DEF Wire
    <2>2. rule'.tag = 0 /\ lastTag \in Nat
      BY <1>9 DEF Absent, TypeOK
    <2> QED
      BY <1>2, <1>3, <1>4, <1>9, <2>1, <2>2, EffectStep
  <1> QED
    BY <1>1, <1>5, <1>6, <1>7, <1>8, <1>9 DEF Act

LEMMA PortalStep == TypeOK' /\ IInv /\ PortalEdit => IInv'
  <1> SUFFICES ASSUME TypeOK', IInv, PortalEdit PROVE IInv'
    OBVIOUS
  <1>1. Untouched /\ UNCHANGED answer /\ lastTag \in Nat /\ "portal" \notin Appliers
    BY DEF PortalEdit, Untouched, IInv, TypeOK, Clients
  <1>2. CASE /\ lastTag' = lastTag + 1 /\ rule' = [body |-> PortalBody, tag |-> lastTag + 1]
             /\ Record("portal", lastTag + 1)
    <2>1. rule'.tag = lastTag + 1 /\ lastTag + 1 \in Nat
      BY <1>1, <1>2
    <2> QED
      BY <1>1, <1>2, <2>1, EffectStep
  <1>3. CASE rule' = Absent /\ Record("portal", 0) /\ UNCHANGED lastTag
    <2>1. rule'.tag = 0
      BY <1>3 DEF Absent
    <2> QED
      BY <1>1, <1>3, <2>1, EffectStep
  <1> QED
    BY <1>2, <1>3 DEF PortalEdit

-----------------------------------------------------------------------------
LEMMA IInvInit == Init => IInv
  <1> SUFFICES ASSUME Init PROVE IInv
    OBVIOUS
  <1>1. rule \in Rule /\ rule.tag \in {0, 1}
    BY DEF Init, Rule, Absent, Content
  <1>2. Idle \in Answer /\ Idle.rule.tag = 0 /\ Idle.seen = "idle"
    BY DEF Idle, Answer, Seen, Rule, Absent, Content
  <1>3. TypeOK
    BY <1>1, <1>2 DEF Init, TypeOK, Clients
  <1>4. Calls /\ Wire
    BY DEF Init, Calls, Wire, Clients
  <1>5. Tags
    BY <1>1, <1>2 DEF Init, Tags, Clients
  <1>6. NothingUnseenOverwritten /\ AppliedOnce
    BY DEF Init, NothingUnseenOverwritten, AppliedOnce
  <1>7. Progress
    BY <1>2 DEF Init, Progress, Landed, Moved, Clients
  <1>8. Deletions
    BY <1>2 DEF Init, Deletions, Clients
  <1> QED
    BY <1>3, <1>4, <1>5, <1>6, <1>7, <1>8 DEF IInv

LEMMA IInvStep == IInv /\ [Next]_vars => IInv'
  <1> SUFFICES ASSUME IInv, [Next]_vars PROVE IInv'
    OBVIOUS
  <1>1. TypeOK'
    BY TypeStep DEF IInv
  <1>2. CASE UNCHANGED vars
    BY <1>2 DEF vars, IInv, TypeOK, Calls, Wire, Tags, NothingUnseenOverwritten,
                AppliedOnce, Progress, Landed, Moved, Deletions, Gone
  <1>3. CASE Quiet
    BY <1>1, <1>3, QuietStep
  <1>4. CASE Handled
    BY <1>1, <1>4, HandledStep
  <1>5. ASSUME NEW m \in wire, Serve(m) PROVE IInv'
    BY <1>1, <1>5, ServeStep
  <1>6. CASE PortalEdit
    BY <1>1, <1>6, PortalStep
  <1> QED
    BY <1>2, <1>3, <1>4, <1>5, <1>6 DEF Next, Step, Quiet, Handled, Clients

\* Every reachable state satisfies the inductive invariant.
THEOREM Inductive == Spec => []IInv
  <1> QED
    BY IInvInit, IInvStep, PTL DEF Spec

\* Every reachable state is well-formed.
THEOREM TypeCorrect == Spec => []TypeOK
  <1>1. IInv => TypeOK
    BY DEF IInv
  <1> QED
    BY <1>1, Inductive, PTL

\* A run that found the resource replaces the version it read and no other, for
\* every number of concurrent runs, retries and portal edits.
THEOREM EditsSurvive == Spec => []NothingUnseenOverwritten
  <1>1. IInv => NothingUnseenOverwritten
    BY DEF IInv
  <1> QED
    BY <1>1, Inductive, PTL

\* Such a run changes the resource at most once, however often its PUT is sent.
THEOREM AtMostOnce == Spec => []AppliedOnce
  <1>1. IInv => AppliedOnce
    BY DEF IInv
  <1> QED
    BY <1>1, Inductive, PTL

\* A success is told only of what took effect.
THEOREM SuccessIsEarned == Spec => []SuccessTookEffect
  <1>1. IInv => SuccessTookEffect
    BY DEF IInv, SuccessTookEffect, Progress, Landed, Deletions, Gone
  <1> QED
    BY <1>1, Inductive, PTL

\* After a success or a conflict nothing of the run on the wire can change the
\* resource: a success has moved the etag its PUTs carry, a conflict shows that
\* somebody has.
THEOREM NothingAfterTheVerdict == Spec => ConclusiveIsFinal
  <1> DEFINE Final == \A a \in Appliers : Conclusive(a) =>
                          \A e \in writes' \ writes : e.by # a
  <1>1. IInv /\ [Next]_vars => [Final]_vars
    <2> SUFFICES ASSUME IInv, Next, NEW a \in Appliers, Conclusive(a),
                        NEW e \in writes' \ writes, e.by = a
                 PROVE  FALSE
      OBVIOUS
    <2> USE DEF IInv
    <2>1. ~ PortalEdit
      BY DEF PortalEdit, Record, Clients
    <2>2. PICK m \in wire : Serve(m)
      BY <2>1 DEF Next, Step, Send, ConnectFault, ReadTimeout, Retry, Skip, Got,
                  PutAnswered, Verified, Deleted, Finish, Call, Refuse
    <2>3. PICK code \in Seen : Act(m, code)
      BY <2>2 DEF Serve
    <2>4. m.from = a
      BY <2>3 DEF Act, Record
    <2>5. m.call = "put" /\ m.match \in {0, rule.tag}
      BY <2>3, <2>4 DEF Act, Wire
    <2>6. m.match = base[a] /\ result[a] \notin {"skipped", "dry-run"}
      BY <2>4, <2>5 DEF Wire
    <2>7. base[a] # 0 /\ result[a] \in {"success", "unverified", "error-412"}
      BY <2>6 DEF Conclusive
    <2>8. CASE Landed(a)
      <3>1. PICK f \in writes : f.by = a
        BY <2>8 DEF Landed
      <3>2. f.over = base[a] /\ rule.tag # f.over
        BY <2>7, <3>1 DEF NothingUnseenOverwritten, Tags
      <3> QED
        BY <2>5, <2>6, <2>7, <3>2
    <2>9. CASE Moved(a)
      BY <2>5, <2>6, <2>9 DEF Moved
    <2> QED
      BY <2>7, <2>8, <2>9 DEF Progress
  <1>2. Spec => [][Final]_vars
    <2> HIDE DEF Final
    <2> QED
      BY <1>1, Inductive, PTL DEF Spec
  <1> QED
    BY <1>2 DEF ConclusiveIsFinal

-----------------------------------------------------------------------------
(* What a green report means.  A report passes layer by layer.             *)

LEMMA LayersPass ==
  ASSUME NEW f, Passed(Report(f, Layers))
  PROVE  /\ Passed(LocalRows(f)) /\ Passed(TenantRows(f)) /\ Passed(TokenRows(f))
         /\ Passed(GraphRows(f, GraphToken(f))) /\ Passed(RbacRows(f, ArmToken(f)))
         /\ Passed(ReachRows(f, ArmToken(f), GraphToken(f)))
<1> DEFINE arm == "L3" \in Layers /\ ArmToken(f)
           graph == "L3" \in Layers /\ GraphToken(f)
           rows(l) == CASE l = "L1" -> LocalRows(f) [] l = "L2" -> TenantRows(f)
                        [] l = "L3" -> TokenRows(f) [] l = "L4" -> GraphRows(f, graph)
                        [] l = "L5" -> RbacRows(f, arm) [] l = "L6" -> ReachRows(f, arm, graph)
                        [] OTHER -> GitHubRows(f)
<1>1. Report(f, Layers) = UNION {rows(l) : l \in Layers}
  BY DEF Report
<1>2. (arm <=> ArmToken(f)) /\ (graph <=> GraphToken(f))
  BY DEF Layers
<1>3. arm = ArmToken(f) /\ graph = GraphToken(f)
  BY <1>2 DEF ArmToken, GraphToken
<1>4. /\ rows("L1") = LocalRows(f) /\ rows("L2") = TenantRows(f) /\ rows("L3") = TokenRows(f)
      /\ rows("L4") = GraphRows(f, graph) /\ rows("L5") = RbacRows(f, arm)
      /\ rows("L6") = ReachRows(f, arm, graph)
  OBVIOUS
<1> HIDE DEF rows, arm, graph
<1>5. \A l \in Layers : Passed(rows(l))
  BY <1>1 DEF Passed
<1>6. {"L1", "L2", "L3", "L4", "L5", "L6"} \subseteq Layers
  BY DEF Layers
<1> QED BY <1>3, <1>4, <1>5, <1>6

(* Rows that pass, one by one. *)

LEMMA RowsPass ==
  /\ \A layer, name, status : Passed(Row(layer, name, status)) <=> status # "FAIL"
  /\ \A ok : Passed(Row("x", "x", Verdict(ok))) <=> ok
  /\ \A R, S : Passed(R \cup S) <=> Passed(R) /\ Passed(S)
  /\ Passed({})
<1>1. ASSUME NEW layer, NEW name, NEW status
      PROVE  Passed(Row(layer, name, status)) <=> status # "FAIL"
  BY DEF Passed, Row
<1>2. ASSUME NEW ok PROVE Passed(Row("x", "x", Verdict(ok))) <=> ok
  BY <1>1 DEF Verdict
<1> QED BY <1>1, <1>2 DEF Passed

LEMMA VerdictPasses == \A ok : Verdict(ok) # "FAIL" <=> ok
  BY DEF Verdict

LEMMA BothTokens ==
  ASSUME NEW f, Passed(TokenRows(f))
  PROVE  ArmToken(f) /\ GraphToken(f)
<1>1. Acquired(f)
  BY RowsPass DEF TokenRows
<1> QED BY <1>1, RowsPass, VerdictPasses DEF TokenRows

LEMMA RolesFit ==
  ASSUME NEW f, Complete(f), Passed(GraphRows(f, TRUE))
  PROVE  /\ Profile(f).required \in Held(f)
         /\ Profile(f).forbidden \cap Held(f) = {}
<1>1. Passed(RoleRows(f))
  <2>1. CASE f.claim = "yes"
    BY <2>1 DEF GraphRows, Complete
  <2>2. CASE f.claim # "yes"
    <3>1. f.principal = "200" /\ f.client = "set"
      BY <2>2 DEF Complete
    <3>2. Passed(AssignmentRows(f))
      BY <2>2, <3>1, RowsPass DEF GraphRows
    <3> QED BY <3>2, RowsPass DEF AssignmentRows
  <2> QED BY <2>1, <2>2
<1>2. SeenRoles(f) = Held(f)
  BY DEF Complete, SeenRoles
<1>3. Profile(f).required \in Held(f)
  <2>1. Verdict(Profile(f).required \in SeenRoles(f)) # "FAIL"
    BY <1>1, RowsPass DEF RoleRows
  <2> QED BY <1>2, <2>1 DEF Verdict
<1>4. CASE Profile(f).forbidden = {}
  BY <1>3, <1>4
<1>5. CASE Profile(f).forbidden # {}
  <2>1. Verdict(Profile(f).forbidden \cap SeenRoles(f) = {}) # "FAIL"
    BY <1>1, <1>5, RowsPass DEF RoleRows
  <2> QED BY <1>2, <1>3, <2>1 DEF Verdict
<1> QED BY <1>4, <1>5

LEMMA GrantsFit ==
  ASSUME NEW f, Complete(f), Passed(RbacRows(f, TRUE))
  PROVE  /\ (f.rbac # "none") = Profile(f).write
         /\ Profile(f).write /\ Managed("playbook", f) => f.logic = "write"
         /\ Profile(f).write /\ Managed("automation", f) => f.rbac = "all"
<1>1. Passed(WorkspaceRows(f))
  BY DEF RbacRows, Complete
<1>2. f.workspace = "200"
  BY <1>1, RowsPass, VerdictPasses DEF WorkspaceRows
<1>3. Passed(PermissionRows(f))
  BY <1>1, <1>2, RowsPass DEF WorkspaceRows, Complete
<1>4. f.perms = "200"
  BY <1>3, RowsPass DEF PermissionRows
<1>5. (f.rbac # "none") = Profile(f).write /\ Passed(SupportRows(f))
  BY <1>3, <1>4, RowsPass, VerdictPasses DEF PermissionRows
<1>6. ASSUME Profile(f).write, Managed("automation", f) PROVE f.rbac = "all"
  BY <1>5, <1>6, RowsPass DEF SupportRows, Soft
<1>7. ASSUME Profile(f).write, Managed("playbook", f) PROVE f.logic = "write"
  BY <1>5, <1>7, RowsPass DEF SupportRows, Soft
<1> QED BY <1>5, <1>6, <1>7

(* A report of conformance over all layers that passes, where every answer came  *)
(* back, means what it says, for any installation whatever its other facts: the   *)
(* identity that deploys can, and the one that reads cannot write (conformance.py: *)
(* 309, 810, 1279, 1358).                                                         *)
THEOREM GreenReportsMeanSo == \A f : GreenMeansSo(f)
<1> SUFFICES ASSUME NEW f, Complete(f), Passed(Report(f, Layers))
             PROVE  IF f.identity = "read" /\ f.mode # "single"
                    THEN f.holds = "read" /\ f.rbac = "none"
                    ELSE /\ "write" \in Held(f) /\ f.rbac # "none"
                         /\ Managed("playbook", f) => f.logic = "write"
                         /\ Managed("automation", f) => f.rbac = "all"
  BY DEF GreenMeansSo
<1>1. ArmToken(f) /\ GraphToken(f)
  BY LayersPass, BothTokens
<1>2. Passed(GraphRows(f, TRUE)) /\ Passed(RbacRows(f, TRUE))
  BY <1>1, LayersPass
<1>3. CASE f.identity = "read" /\ f.mode # "single"
  <2>1. Profile(f).required = "read" /\ Profile(f).forbidden = {"write"} /\ Profile(f).write = FALSE
    BY <1>3 DEF Profile, Mode
  <2>2. "read" \in Held(f) /\ "write" \notin Held(f)
    BY <1>2, <2>1, RolesFit
  <2>3. f.holds = "read"
    BY <2>2 DEF Held
  <2>4. f.rbac = "none"
    BY <1>2, <2>1, GrantsFit
  <2> QED BY <1>3, <2>3, <2>4
<1>4. CASE ~(f.identity = "read" /\ f.mode # "single")
  <2>1. Profile(f).required = "write" /\ Profile(f).write = TRUE
    BY <1>4 DEF Profile, Mode
  <2> QED BY <1>2, <1>4, <2>1, RolesFit, GrantsFit
<1> QED BY <1>3, <1>4

(* Doctor. *)

\* Of the facts, what tenant.yml and its list of workspaces can be.
Installation(f) ==
  f.tenant \in {"ok", "missing", "invalid"} /\ f.workspaces \in {"none", "one"}

LEMMA LiveRowsPass ==
  ASSUME NEW f, f.tenant = "ok", f.workspaces \in {"none", "one"},
         ArmToken(f), GraphToken(f), Passed(ReachRows(f, TRUE, TRUE))
  PROVE  Passed(LiveRows(f))
<1>1. f.detectionRules = "200" /\ (f.workspaces = "one" => f.alertRules = "200")
  BY RowsPass DEF ReachRows, Verdict
<1>2. WorkspaceReachable(f) # "FAIL"
  BY <1>1 DEF WorkspaceReachable
<1>3. GraphReachable(f) # "FAIL"
  BY <1>1 DEF GraphReachable, Verdict
<1>4. /\ Passed(Check("token_acquisition", Warned(ArmToken(f) /\ GraphToken(f))))
      /\ Passed(Check("sentinel_health", Warned(f.health = "rows" /\ ArmToken(f))))
  BY DEF Passed, Check, Row, Warned
<1>5. /\ Passed(Check("workspace_reachable", WorkspaceReachable(f)))
      /\ Passed(Check("graph_reachable", GraphReachable(f)))
  BY <1>2, <1>3 DEF Passed, Check, Row
<1> QED BY <1>4, <1>5 DEF LiveRows, Passed

(* Where conformance passes in full and there is a directory of detections,      *)
(* `doctor --auth' finds nothing that fails: what the one takes for reachable the *)
(* other does not call broken (doctor.py:203-414 against conformance.py:677-728). *)
THEOREM DoctorsAgree == \A f : Installation(f) => DoctorAgrees(f)
<1> SUFFICES ASSUME NEW f, Installation(f), Passed(Report(f, Layers)), f.detections # "none"
             PROVE  Passed(Checks(f, TRUE, FALSE))
  BY DEF DoctorAgrees
<1>1. /\ Passed(LocalRows(f)) /\ Passed(TenantRows(f))
      /\ ArmToken(f) /\ GraphToken(f)
      /\ Passed(ReachRows(f, TRUE, TRUE))
  BY LayersPass, BothTokens
<1>2. f.python = "new" /\ f.imports = "ok" /\ f.detections = "ok"
  <2>1. /\ Passed(Row("L1", "python_version", Verdict(f.python = "new")))
        /\ Passed(Row("L1", "package_import", Verdict(f.imports = "ok")))
        /\ Passed(Row("L1", "envelopes_parse",
                      IF f.detections = "none" THEN "SKIP" ELSE Verdict(f.detections = "ok")))
    BY <1>1 DEF LocalRows, Passed
  <2>2. /\ Verdict(f.python = "new") # "FAIL" /\ Verdict(f.imports = "ok") # "FAIL"
        /\ Verdict(f.detections = "ok") # "FAIL"
    BY <2>1, RowsPass
  <2> QED BY <2>2, VerdictPasses DEF Verdict
<1>3. f.tenant = "ok"
  BY <1>1, RowsPass DEF TenantRows, Installation
<1>4. Passed(LiveRows(f))
  BY <1>1, <1>3, LiveRowsPass DEF Installation
<1>5. /\ Passed(Check("dotenv", Warned(f.dotenv = "loaded")))
      /\ Passed(Check("git", Warned(f.git = "ok")))
      /\ Passed(Check("auth_env", Warned(f.client = "set" /\ f.az = "in")))
  BY DEF Passed, Check, Row, Warned
<1>6. /\ TenantYml(f) # "FAIL" /\ Verdict(f.python = "new") # "FAIL"
      /\ Verdict(f.imports = "ok") # "FAIL" /\ Verdict(f.detections # "none") # "FAIL"
      /\ Verdict(f.detections = "ok") # "FAIL"
  BY <1>2, <1>3 DEF TenantYml, Verdict
<1>7. /\ Passed(Check("python_version", Verdict(f.python = "new")))
      /\ Passed(Check("python_deps", Verdict(f.imports = "ok")))
      /\ Passed(Check("tenant_yml", TenantYml(f)))
      /\ Passed(Check("detections_dir", Verdict(f.detections # "none")))
      /\ Passed(Check("detections_parse", Verdict(f.detections = "ok")))
  BY <1>6 DEF Passed, Check, Row
<1>8. Checks(f, TRUE, FALSE) =
        Check("python_version", Verdict(f.python = "new"))
          \cup Check("python_deps", Verdict(f.imports = "ok"))
          \cup Check("dotenv", Warned(f.dotenv = "loaded"))
          \cup Check("auth_env", Warned(f.client = "set" /\ f.az = "in"))
          \cup Check("tenant_yml", TenantYml(f))
          \cup Check("detections_dir", Verdict(f.detections # "none"))
          \cup Check("detections_parse", Verdict(f.detections = "ok"))
          \cup Check("git", Warned(f.git = "ok"))
          \cup LiveRows(f)
  BY Zenon DEF Checks
<1> QED BY <1>4, <1>5, <1>7, <1>8 DEF Passed

(* The fixes. *)

LEMMA FailingIs ==
  ASSUME NEW f
  PROVE  /\ Failing(f, "dotenv") <=> f.dotenv # "loaded"
         /\ Failing(f, "detections_dir") <=> f.detections = "none"
         /\ Failing(f, "python_deps") <=> f.imports # "ok"
<1>1. \A r \in Checks(f, FALSE, FALSE) :
        /\ r.name = "dotenv" => r.status = Warned(f.dotenv = "loaded")
        /\ r.name = "detections_dir" => r.status = Verdict(f.detections # "none")
        /\ r.name = "python_deps" => r.status = Verdict(f.imports = "ok")
  BY DEF Checks, Check, Row
<1>2. /\ \E r \in Checks(f, FALSE, FALSE) : r.name = "dotenv"
      /\ \E r \in Checks(f, FALSE, FALSE) : r.name = "detections_dir"
      /\ \E r \in Checks(f, FALSE, FALSE) : r.name = "python_deps"
  BY DEF Checks, Check, Row
<1>3. /\ Warned(f.dotenv = "loaded") # "PASS" <=> f.dotenv # "loaded"
      /\ Verdict(f.detections # "none") # "PASS" <=> f.detections = "none"
      /\ Verdict(f.imports = "ok") # "PASS" <=> f.imports # "ok"
  BY DEF Warned, Verdict
<1> QED BY <1>1, <1>2, <1>3 DEF Failing

\* A record with the facts that a fix looks at, of which it changes three.
Facts(f) ==
  /\ f = [k \in DOMAIN f |-> f[k]]
  /\ {"dotenv", "example", "detections", "imports", "project", "pip"} \subseteq DOMAIN f

LEMMA FixedIs ==
  ASSUME NEW f, Facts(f)
  PROVE  /\ Facts(Fixed(f)) /\ DOMAIN Fixed(f) = DOMAIN f
         /\ \A k \in DOMAIN f \ {"dotenv", "detections", "imports"} : Fixed(f)[k] = f[k]
         /\ Fixed(f).dotenv = IF f.dotenv = "none" /\ f.example = "there" THEN "found" ELSE f.dotenv
         /\ Fixed(f).detections = IF f.detections = "none" THEN "ok" ELSE f.detections
         /\ Fixed(f).imports = IF f.imports # "ok" /\ f.project = "there" /\ f.pip = "works"
                               THEN "ok" ELSE f.imports
<1> DEFINE f1 == IF Failing(f, "dotenv") THEN FixDotenv(f) ELSE f
           f2 == IF Failing(f, "detections_dir") THEN FixDetections(f1) ELSE f1
           f3 == IF Failing(f, "python_deps") THEN FixDeps(f2) ELSE f2
<1>0. Fixed(f) = f3
  BY DEF Fixed
<1>1. /\ Facts(f1) /\ DOMAIN f1 = DOMAIN f
      /\ \A k \in DOMAIN f \ {"dotenv"} : f1[k] = f[k]
      /\ f1.dotenv = IF f.dotenv = "none" /\ f.example = "there" THEN "found" ELSE f.dotenv
  <2>1. f1 = IF f.dotenv = "none" /\ f.example = "there" THEN [f EXCEPT !.dotenv = "found"] ELSE f
    BY FailingIs DEF FixDotenv
  <2> QED BY <2>1 DEF Facts
<1> HIDE DEF f1
<1>2. /\ Facts(f2) /\ DOMAIN f2 = DOMAIN f1
      /\ \A k \in DOMAIN f1 \ {"detections"} : f2[k] = f1[k]
      /\ f2.detections = IF f.detections = "none" THEN "ok" ELSE f1.detections
  <2>1. f2 = IF f.detections = "none" THEN [f1 EXCEPT !.detections = "ok"] ELSE f1
    BY <1>1, FailingIs DEF FixDetections, Facts
  <2> QED BY <1>1, <2>1 DEF Facts
<1> HIDE DEF f2
<1>3. /\ Facts(f3) /\ DOMAIN f3 = DOMAIN f2
      /\ \A k \in DOMAIN f2 \ {"imports"} : f3[k] = f2[k]
      /\ f3.imports = IF f.imports # "ok" /\ f2.project = "there" /\ f2.pip = "works"
                      THEN "ok" ELSE f2.imports
  <2>1. f3 = IF f.imports # "ok" /\ f2.project = "there" /\ f2.pip = "works"
             THEN [f2 EXCEPT !.imports = "ok"] ELSE f2
    BY FailingIs DEF FixDeps
  <2> QED BY <1>2, <2>1 DEF Facts
<1> HIDE DEF f3
<1>4. /\ f2.project = f.project /\ f2.pip = f.pip /\ f2.imports = f.imports
      /\ f1.detections = f.detections
      /\ f3.dotenv = f1.dotenv /\ f3.detections = f2.detections
  BY <1>1, <1>2, <1>3 DEF Facts
<1>5. \A k \in DOMAIN f \ {"dotenv", "detections", "imports"} : f3[k] = f[k]
  BY <1>1, <1>2, <1>3
<1> QED BY <1>0, <1>1, <1>2, <1>3, <1>4, <1>5

(* `doctor --fix', run again, changes nothing, and what it has fixed passes the   *)
(* checks that it runs anew (doctor.py:810).                                      *)
THEOREM FixesAreDone == \A f : Facts(f) => FixesHold(f)
<1> SUFFICES ASSUME NEW f, Facts(f) PROVE FixesHold(f)
  OBVIOUS
<1> DEFINE g == Fixed(f)
<1>1. /\ Facts(g) /\ DOMAIN g = DOMAIN f
      /\ \A k \in DOMAIN f \ {"dotenv", "detections", "imports"} : g[k] = f[k]
      /\ g.dotenv = IF f.dotenv = "none" /\ f.example = "there" THEN "found" ELSE f.dotenv
      /\ g.detections = IF f.detections = "none" THEN "ok" ELSE f.detections
      /\ g.imports = IF f.imports # "ok" /\ f.project = "there" /\ f.pip = "works"
                     THEN "ok" ELSE f.imports
  BY FixedIs
<1> HIDE DEF g
<1>2. /\ Facts(Fixed(g)) /\ DOMAIN Fixed(g) = DOMAIN g
      /\ \A k \in DOMAIN g \ {"dotenv", "detections", "imports"} : Fixed(g)[k] = g[k]
      /\ Fixed(g).dotenv = IF g.dotenv = "none" /\ g.example = "there" THEN "found" ELSE g.dotenv
      /\ Fixed(g).detections = IF g.detections = "none" THEN "ok" ELSE g.detections
      /\ Fixed(g).imports = IF g.imports # "ok" /\ g.project = "there" /\ g.pip = "works"
                            THEN "ok" ELSE g.imports
  BY <1>1, FixedIs
<1>3. g.example = f.example /\ g.project = f.project /\ g.pip = f.pip
  BY <1>1 DEF Facts
<1>4. \A k \in DOMAIN g : Fixed(g)[k] = g[k]
  <2>1. Fixed(g).dotenv = g.dotenv
    BY <1>1, <1>2, <1>3
  <2>2. Fixed(g).detections = g.detections
    BY <1>1, <1>2
  <2>3. Fixed(g).imports = g.imports
    BY <1>1, <1>2, <1>3
  <2> QED BY <1>2, <2>1, <2>2, <2>3
<1>5. Fixed(g) = g
  BY <1>1, <1>2, <1>4 DEF Facts
<1>6. ~Failing(g, "detections_dir")
  BY <1>1, FailingIs
<1>7. f.project = "there" /\ f.pip = "works" => ~Failing(g, "python_deps")
  BY <1>1, FailingIs
<1> QED BY <1>5, <1>6, <1>7 DEF FixesHold, g

-----------------------------------------------------------------------------
(* What is told of a rule after a past of any length.                      *)
VARIABLE world
Past == world = Start /\ [][world' \in NextWorlds(world)]_world

Actions == {"apply", "retry", "rollback", "delete", "edit"}
Statuses == {"success", "failed", "skipped", "ok"}
Records == [at : Nat, id : Assets, action : Actions, status : Statuses]
Entries == [status : {"success", "failed", "adopted"}]
States == [applied : BOOLEAN, managed : UNION {[S -> Entries] : S \in SUBSET Assets}]
Worlds ==
  [git : SUBSET Assets, idle : SUBSET Assets, sync : SUBSET Assets, state : States,
   trail : Seq(Records), tried : [Assets -> {"nothing", "applied", "success", "failed", "skipped", "edited"}]]

\* The last record of a; and what records there are of it.
LastOf(w, a, n) ==
  /\ n \in DOMAIN w.trail /\ w.trail[n].id = a
  /\ \A m \in DOMAIN w.trail : w.trail[m].id = a => m <= n
Tells(w, a, status) == \E n \in DOMAIN w.trail : w.trail[n].id = a /\ w.trail[n].status = status
TellsLast(w, a, status) == \E n \in DOMAIN w.trail : LastOf(w, a, n) /\ w.trail[n].status = status

PastInv(w) ==
  /\ w \in Worlds
  /\ \A n \in DOMAIN w.trail : w.trail[n].at = n
  /\ \A n \in DOMAIN w.trail : \E m \in DOMAIN w.trail : LastOf(w, w.trail[n].id, m)
  /\ \A a \in DOMAIN w.state.managed :
       /\ w.state.managed[a].status = "success" => Tells(w, a, "success")
       /\ w.state.managed[a].status = "failed" => Tells(w, a, "failed")
  /\ \A a \in Assets :
       /\ w.tried[a] = "applied" =>
            /\ a \in DOMAIN w.state.managed /\ w.state.managed[a].status # "failed"
            /\ TellsLast(w, a, "success")
       /\ w.tried[a] = "failed" => TellsLast(w, a, "failed")

\* What the last record of an asset is.
LEMMA LatestIs ==
  ASSUME NEW w, PastInv(w), NEW a, NEW n, LastOf(w, a, n)
  PROVE  a \in DOMAIN LatestRecords(w) /\ LatestRecords(w)[a] = w.trail[n]
<1> DEFINE of == {m \in DOMAIN w.trail : w.trail[m].id = a}
           last == CHOOSE k \in of : \A m \in of : w.trail[m].at <= w.trail[k].at
<1>1. DOMAIN w.trail = 1..Len(w.trail) /\ Len(w.trail) \in Nat
  BY DEF PastInv, Worlds
<1>2. n \in of /\ \A m \in of : w.trail[m].at <= w.trail[n].at
  BY DEF PastInv, LastOf
<1>3. last \in of /\ \A m \in of : w.trail[m].at <= w.trail[last].at
  BY <1>2
<1>4. last = n
  <2> HIDE DEF last
  <2>1. last <= n
    BY <1>3 DEF LastOf
  <2> HIDE DEF of
  <2>2. w.trail[n].at <= w.trail[last].at
    BY <1>2, <1>3
  <2>3. n \in DOMAIN w.trail /\ last \in DOMAIN w.trail
    BY <1>2, <1>3 DEF of
  <2>4. \A k \in DOMAIN w.trail : k \in Nat /\ w.trail[k].at = k
    BY <1>1 DEF PastInv
  <2> QED BY <2>1, <2>2, <2>3, <2>4
<1> HIDE DEF last
<1>5. a \in {w.trail[m].id : m \in DOMAIN w.trail}
  BY DEF LastOf
<1>6. LatestRecords(w)[a] = w.trail[last]
  BY <1>5 DEF LatestRecords, last
<1> QED BY <1>4, <1>5, <1>6 DEF LatestRecords

LEMMA AuditIs ==
  ASSUME NEW w, PastInv(w), NEW a, NEW status, TellsLast(w, a, status)
  PROVE  AuditOf(w, a) = status
BY LatestIs DEF TellsLast, AuditOf

LEMMA FailureIsTold ==
  ASSUME NEW w, PastInv(w), NEW a, AuditOf(w, a) = "failed"
  PROVE  Tells(w, a, "failed")
<1>1. a \in DOMAIN LatestRecords(w) /\ LatestRecords(w)[a].status = "failed"
  BY DEF AuditOf
<1>2. PICK k \in DOMAIN w.trail : w.trail[k].id = a
  BY <1>1 DEF LatestRecords
<1>3. PICK n \in DOMAIN w.trail : LastOf(w, a, n)
  BY <1>2 DEF PastInv
<1>4. LatestRecords(w)[a] = w.trail[n] /\ w.trail[n].id = a
  BY <1>3, LatestIs DEF LastOf
<1> QED BY <1>1, <1>3, <1>4 DEF Tells

LEMMA PageFollows ==
  ASSUME NEW w, PastInv(w)
  PROVE  PageTellsTheLast(w)
<1> SUFFICES ASSUME NEW a \in w.git
             PROVE  /\ w.tried[a] = "applied" /\ EntryOf(w, a) # "adopted" => ClassOf(w, a) = "in-sync"
                    /\ w.tried[a] = "failed" => ClassOf(w, a) # "in-sync"
                    /\ ClassOf(w, a) = "in-sync" /\ EntryOf(w, a) # "adopted" => a \in DOMAIN DeployDates(w)
                    /\ ClassOf(w, a) = "failed" => a \in FailedBefore(w)
  BY DEF PageTellsTheLast
<1>0. a \in Assets
  BY DEF PastInv, Worlds
<1>e. CASE ~IsManaged(w.state, a)
  <2>0. EntryOf(w, a) = "none"
    BY <1>e DEF EntryOf
  <2>1. EntryOf(w, a) = "none" /\ ClassOf(w, a) = "unmanaged"
    BY <2>0 DEF ClassOf, Classify
  <2>2. w.tried[a] # "applied"
    BY <1>0, <1>e DEF PastInv, IsManaged
  <2> QED BY <2>1, <2>2
<1>m. CASE IsManaged(w.state, a)
  <2>0. /\ EntryOf(w, a) = w.state.managed[a].status
        /\ w.state.managed[a].status \in {"success", "failed", "adopted"}
    BY <1>m DEF EntryOf, IsManaged, PastInv, Worlds, States, Entries
  <2>1. ClassOf(w, a) = IF EntryOf(w, a) = "failed" \/ AuditOf(w, a) = "failed" THEN "failed" ELSE "in-sync"
    BY <2>0 DEF ClassOf, Classify
  <2>2. ASSUME w.tried[a] = "applied", EntryOf(w, a) # "adopted" PROVE ClassOf(w, a) = "in-sync"
    <3>1. AuditOf(w, a) = "success" /\ w.state.managed[a].status # "failed"
      BY <1>0, <2>2, AuditIs DEF PastInv
    <3> QED BY <2>0, <2>1, <3>1
  <2>3. ASSUME w.tried[a] = "failed" PROVE ClassOf(w, a) # "in-sync"
    <3>1. AuditOf(w, a) = "failed"
      BY <1>0, <2>3, AuditIs DEF PastInv
    <3> QED BY <2>1, <3>1
  <2>4. ASSUME ClassOf(w, a) = "in-sync", EntryOf(w, a) # "adopted" PROVE a \in DOMAIN DeployDates(w)
    <3>1. w.state.managed[a].status = "success"
      BY <2>0, <2>1, <2>4
    <3>2. Tells(w, a, "success")
      BY <1>m, <3>1 DEF PastInv, IsManaged
    <3> QED BY <1>0, <3>2 DEF DeployDates, Tells
  <2>5. ASSUME ClassOf(w, a) = "failed" PROVE a \in FailedBefore(w)
    <3>1. Tells(w, a, "failed")
      <4>1. CASE EntryOf(w, a) = "failed"
        BY <1>m, <2>0, <4>1 DEF PastInv, IsManaged
      <4>2. CASE AuditOf(w, a) = "failed"
        BY <4>2, FailureIsTold
      <4> QED BY <2>1, <2>5, <4>1, <4>2
    <3> QED BY <3>1 DEF FailedBefore, Tells
  <2> QED BY <2>2, <2>3, <2>4, <2>5
<1> QED BY <1>e, <1>m

(* What a record more does. *)
\* v tells what w does, and of a, last, status.
OneMore(w, v, a, status) ==
  /\ v.trail \in Seq(Records)
  /\ \A n \in DOMAIN v.trail : v.trail[n].at = n
  /\ \A n \in DOMAIN v.trail : \E m \in DOMAIN v.trail : LastOf(v, v.trail[n].id, m)
  /\ \A b, s : Tells(w, b, s) => Tells(v, b, s)
  /\ \A b, s : b # a /\ TellsLast(w, b, s) => TellsLast(v, b, s)
  /\ Tells(v, a, status) /\ TellsLast(v, a, status)

LEMMA RecordMore ==
  ASSUME NEW w, PastInv(w), NEW a \in Assets, NEW action \in Actions, NEW status \in Statuses,
         NEW v, v.trail = Append(w.trail, [at |-> Len(w.trail) + 1, id |-> a, action |-> action, status |-> status])
  PROVE  OneMore(w, v, a, status)
<1> DEFINE len == Len(w.trail)
           new == [at |-> len + 1, id |-> a, action |-> action, status |-> status]
<1>1. /\ w.trail \in Seq(Records) /\ len \in Nat /\ DOMAIN w.trail = 1..len
      /\ new \in Records
  BY DEF PastInv, Worlds, Records
<1>2. v.trail = Append(w.trail, new)
  OBVIOUS
<1> HIDE DEF len, new
<1>3. /\ v.trail \in Seq(Records) /\ DOMAIN v.trail = 1..(len + 1)
      /\ \A n \in 1..len : v.trail[n] = w.trail[n]
      /\ v.trail[len + 1] = new
  BY <1>1, <1>2 DEF len
<1>4. new.at = len + 1 /\ new.id = a /\ new.status = status
  BY DEF new
<1>5. \A n \in DOMAIN v.trail : v.trail[n].at = n
  BY <1>1, <1>3, <1>4 DEF PastInv
<1>6. LastOf(v, a, len + 1)
  BY <1>1, <1>3, <1>4 DEF LastOf
<1>7. \A b, n : b # a /\ LastOf(w, b, n) => LastOf(v, b, n)
  BY <1>1, <1>3, <1>4 DEF LastOf
<1>8. ASSUME NEW n \in DOMAIN v.trail PROVE \E m \in DOMAIN v.trail : LastOf(v, v.trail[n].id, m)
  <2>1. CASE v.trail[n].id = a
    BY <1>1, <1>3, <1>6, <2>1
  <2>2. CASE v.trail[n].id # a
    <3>1. n \in DOMAIN w.trail /\ v.trail[n] = w.trail[n]
      BY <1>1, <1>3, <1>4, <2>2
    <3>2. PICK m \in DOMAIN w.trail : LastOf(w, w.trail[n].id, m)
      BY <3>1 DEF PastInv
    <3> QED BY <1>1, <1>3, <1>7, <2>2, <3>1, <3>2
  <2> QED BY <2>1, <2>2
<1>9. \A b, s : Tells(w, b, s) => Tells(v, b, s)
  BY <1>1, <1>3 DEF Tells
<1>10. \A b, s : b # a /\ TellsLast(w, b, s) => TellsLast(v, b, s)
  BY <1>1, <1>3, <1>7 DEF TellsLast, LastOf
<1>11. Tells(v, a, status) /\ TellsLast(v, a, status)
  BY <1>1, <1>3, <1>4, <1>6 DEF Tells, TellsLast
<1> QED BY <1>3, <1>5, <1>8, <1>9, <1>10, <1>11 DEF OneMore

\* The same trail tells the same.
LEMMA SameTrail ==
  ASSUME NEW w, PastInv(w), NEW v, v.trail = w.trail
  PROVE  /\ v.trail \in Seq(Records)
         /\ \A n \in DOMAIN v.trail : v.trail[n].at = n
         /\ \A n \in DOMAIN v.trail : \E m \in DOMAIN v.trail : LastOf(v, v.trail[n].id, m)
         /\ \A b, s : Tells(w, b, s) <=> Tells(v, b, s)
         /\ \A b, s : TellsLast(w, b, s) <=> TellsLast(v, b, s)
BY DEF PastInv, Worlds, LastOf, Tells, TellsLast

LEMMA StartOK == PastInv(Start)
<1>1. <<>> \in [{} -> Entries] /\ <<>> \in Seq(Records)
  OBVIOUS
<1>2. Start.state \in States
  BY <1>1 DEF Start, States
<1>3. Start \in Worlds
  BY <1>1, <1>2 DEF Start, Worlds
<1> QED BY <1>3 DEF Start, PastInv

\* What is merged into the state file.
Alone(a, outcome) == [b \in {a} |-> outcome]

LEMMA Merging ==
  ASSUME NEW st \in States, NEW a \in Assets, NEW outcome \in {"success", "failed", "skipped"}
  PROVE  LET new == MergeResults(st, Alone(a, outcome)) IN
         /\ new \in States
         /\ \A b \in DOMAIN new.managed :
              IF b = a /\ outcome # "skipped" THEN new.managed[b].status = outcome
              ELSE b \in DOMAIN st.managed /\ new.managed[b] = st.managed[b]
         /\ DOMAIN st.managed \subseteq DOMAIN new.managed
         /\ outcome # "skipped" => a \in DOMAIN new.managed
<1> DEFINE ran == Alone(a, outcome)
           did == {b \in DOMAIN ran : ran[b] # "skipped"}
           managed == [b \in DOMAIN st.managed \cup did |->
                         IF b \in did THEN [status |-> ran[b]] ELSE st.managed[b]]
           new == MergeResults(st, ran)
<1>1. new = [applied |-> TRUE, managed |-> managed]
  BY DEF MergeResults
<1>2. did = IF outcome # "skipped" THEN {a} ELSE {}
  BY DEF Alone
<1>3. \A b \in did : b = a /\ ran[b] = outcome
  BY DEF Alone
<1> HIDE DEF did
<1>4. /\ DOMAIN managed = DOMAIN st.managed \cup did
      /\ \A b \in DOMAIN managed :
           managed[b] = IF b \in did THEN [status |-> outcome] ELSE st.managed[b]
  BY <1>3
<1>5. managed \in [DOMAIN managed -> Entries] /\ DOMAIN managed \in SUBSET Assets
  <2>1. st.managed \in [DOMAIN st.managed -> Entries] /\ DOMAIN st.managed \subseteq Assets
    BY DEF States
  <2>2. \A b \in did : [status |-> outcome] \in Entries
    BY <1>2 DEF Entries
  <2>3. DOMAIN managed \subseteq Assets
    BY <1>2, <1>4, <2>1
  <2> QED BY <1>4, <2>1, <2>2, <2>3
<1> HIDE DEF managed
<1> HIDE DEF new
<1>6. new \in States
  BY <1>1, <1>5 DEF States
<1> QED BY <1>1, <1>2, <1>4, <1>6 DEF new

LEMMA RecordedIs ==
  ASSUME NEW w \in Worlds, NEW a, NEW action, NEW status
  PROVE  LET u == Recorded(w, a, action, status) IN
         /\ u = [git |-> w.git, idle |-> w.idle, sync |-> w.sync, state |-> w.state, trail |-> u.trail, tried |-> w.tried]
         /\ u.trail = Append(w.trail, [at |-> Len(w.trail) + 1, id |-> a, action |-> action, status |-> status])
<1> DEFINE new == Append(w.trail, [at |-> Len(w.trail) + 1, id |-> a, action |-> action, status |-> status])
           u == Recorded(w, a, action, status)
<1>1. u = [w EXCEPT !.trail = new]
  BY DEF Recorded
<1> HIDE DEF new, u
<1>2. /\ u = [git |-> w.git, idle |-> w.idle, sync |-> w.sync, state |-> w.state, trail |-> u.trail, tried |-> w.tried]
      /\ u.trail = new
  BY <1>1 DEF Worlds
<1> QED BY <1>2 DEF new, u

LEMMA AppliedOK ==
  ASSUME NEW w, PastInv(w), NEW a \in w.git, NEW ok \in BOOLEAN, NEW published \in BOOLEAN
  PROVE  PastInv(Applied(w, a, ok, published))
<1> DEFINE outcome == OutcomeOf(w, a, ok)
           v == Applied(w, a, ok, published)
<1>0. a \in Assets /\ outcome \in {"success", "failed", "skipped"} /\ w \in Worlds /\ w.state \in States
  BY DEF PastInv, Worlds, OutcomeOf
<1> DEFINE u == Recorded(w, a, "apply", outcome)
           state == IF published THEN MergeResults(w.state, [b \in {a} |-> outcome]) ELSE w.state
           sync == IF outcome = "success" THEN w.sync \cup {a} ELSE w.sync
           tried == IF outcome = "success" /\ published THEN "applied" ELSE outcome
           new == Append(w.trail, [at |-> Len(w.trail) + 1, id |-> a, action |-> "apply", status |-> outcome])
<1>u. u = [git |-> w.git, idle |-> w.idle, sync |-> w.sync, state |-> w.state, trail |-> new, tried |-> w.tried]
  BY <1>0, RecordedIs
<1>v. v = [u EXCEPT !.state = IF published THEN MergeResults(u.state, [b \in {a} |-> outcome]) ELSE u.state,
                    !.sync = IF outcome = "success" THEN u.sync \cup {a} ELSE u.sync,
                    !.tried = [u.tried EXCEPT ![a] = tried]]
  BY DEF Applied
<1> HIDE DEF v, outcome, u
<1>w. u.state = w.state /\ u.sync = w.sync /\ u.tried = w.tried
  BY <1>u
<1>x. v = [u EXCEPT !.state = state, !.sync = sync, !.tried = [w.tried EXCEPT ![a] = tried]]
  BY <1>v, <1>w
<1> HIDE DEF state, sync, tried, new
<1>1. v = [git |-> w.git, idle |-> w.idle, sync |-> sync, state |-> state, trail |-> new,
           tried |-> [w.tried EXCEPT ![a] = tried]]
  BY <1>u, <1>x
<1>2. /\ v.trail \in Seq(Records)
      /\ \A n \in DOMAIN v.trail : v.trail[n].at = n
      /\ \A n \in DOMAIN v.trail : \E m \in DOMAIN v.trail : LastOf(v, v.trail[n].id, m)
      /\ \A b, s : Tells(w, b, s) => Tells(v, b, s)
      /\ \A b, s : b # a /\ TellsLast(w, b, s) => TellsLast(v, b, s)
      /\ Tells(v, a, outcome) /\ TellsLast(v, a, outcome)
  <2>1. v.trail = Append(w.trail, [at |-> Len(w.trail) + 1, id |-> a, action |-> "apply", status |-> outcome])
    BY <1>1 DEF new
  <2>2. "apply" \in Actions /\ outcome \in Statuses
    BY <1>0 DEF Actions, Statuses
  <2>3. OneMore(w, v, a, outcome)
    BY <1>0, <2>1, <2>2, RecordMore
  <2> QED BY <2>3 DEF OneMore
<1>3. /\ v.state \in States
      /\ DOMAIN w.state.managed \subseteq DOMAIN v.state.managed
      /\ \A b \in DOMAIN v.state.managed :
           \/ b = a /\ v.state.managed[b].status = outcome
           \/ b \in DOMAIN w.state.managed /\ v.state.managed[b] = w.state.managed[b]
      /\ published /\ outcome = "success" =>
           a \in DOMAIN v.state.managed /\ v.state.managed[a].status = "success"
  <2>1. v.state = IF published THEN MergeResults(w.state, Alone(a, outcome)) ELSE w.state
    BY <1>1 DEF state, Alone
  <2>2. CASE ~published
    BY <1>0, <2>1, <2>2
  <2>3. CASE published
    BY <1>0, <2>1, <2>3, Merging
  <2> QED BY <2>2, <2>3
<1>4. v \in Worlds
  <2>1. sync \in SUBSET Assets
    BY <1>0 DEF sync, Worlds
  <2>2. [w.tried EXCEPT ![a] = tried] \in [Assets -> {"nothing", "applied", "success", "failed", "skipped", "edited"}]
    BY <1>0 DEF tried, Worlds
  <2>3. v.state \in States /\ v.trail \in Seq(Records)
    BY <1>2, <1>3
  <2> QED BY <1>0, <1>1, <2>1, <2>2, <2>3 DEF Worlds
<1>5. ASSUME NEW b \in DOMAIN v.state.managed
      PROVE  /\ v.state.managed[b].status = "success" => Tells(v, b, "success")
             /\ v.state.managed[b].status = "failed" => Tells(v, b, "failed")
  BY <1>2, <1>3 DEF PastInv
<1>6. ASSUME NEW b \in Assets
      PROVE  /\ v.tried[b] = "applied" =>
                  /\ b \in DOMAIN v.state.managed /\ v.state.managed[b].status # "failed"
                  /\ TellsLast(v, b, "success")
             /\ v.tried[b] = "failed" => TellsLast(v, b, "failed")
  <2>1. CASE b = a
    <3>1. v.tried[b] = IF outcome = "success" /\ published THEN "applied" ELSE outcome
      BY <1>0, <1>1, <2>1 DEF Worlds, tried
    <3> QED BY <1>0, <1>2, <1>3, <2>1, <3>1
  <2>2. CASE b # a
    <3>1. v.tried[b] = w.tried[b]
      BY <1>0, <1>1, <2>2 DEF Worlds
    <3> QED BY <1>2, <1>3, <2>2, <3>1 DEF PastInv
  <2> QED BY <2>1, <2>2
<1> QED BY <1>2, <1>4, <1>5, <1>6 DEF PastInv, v

\* A record that leaves the state file alone.
LEMMA OnlyTold ==
  ASSUME NEW w, PastInv(w), NEW a \in Assets, NEW status, NEW x, NEW v, v \in Worlds,
         OneMore(w, v, a, status), v.state = w.state, v.tried = [w.tried EXCEPT ![a] = x],
         x # "applied", x = "failed" => status = "failed"
  PROVE  PastInv(v)
<1>0. w \in Worlds
  BY DEF PastInv
<1>1. \A b \in Assets : v.tried[b] = IF b = a THEN x ELSE w.tried[b]
  BY <1>0 DEF Worlds
<1>2. ASSUME NEW b \in Assets
      PROVE  /\ v.tried[b] = "applied" =>
                  /\ b \in DOMAIN v.state.managed /\ v.state.managed[b].status # "failed"
                  /\ TellsLast(v, b, "success")
             /\ v.tried[b] = "failed" => TellsLast(v, b, "failed")
  <2>1. CASE b = a
    BY <1>1, <2>1 DEF OneMore
  <2>2. CASE b # a
    BY <1>1, <2>2 DEF OneMore, PastInv
  <2> QED BY <2>1, <2>2
<1>3. ASSUME NEW b \in DOMAIN v.state.managed
      PROVE  /\ v.state.managed[b].status = "success" => Tells(v, b, "success")
             /\ v.state.managed[b].status = "failed" => Tells(v, b, "failed")
  BY DEF OneMore, PastInv
<1> QED BY <1>2, <1>3 DEF PastInv, OneMore

LEMMA ReplayedOK ==
  ASSUME NEW w, PastInv(w), NEW a \in w.git, NEW ok \in BOOLEAN, NEW action \in {"retry", "rollback"}
  PROVE  PastInv(Replayed(w, a, ok, action))
<1> DEFINE outcome == OutcomeOf(w, a, ok)
           v == Replayed(w, a, ok, action)
           u == Recorded(w, a, action, outcome)
           new == Append(w.trail, [at |-> Len(w.trail) + 1, id |-> a, action |-> action, status |-> outcome])
           sync == IF outcome # "success" THEN w.sync ELSE IF action = "retry" THEN w.sync \cup {a} ELSE w.sync \ {a}
<1>0. a \in Assets /\ outcome \in {"success", "failed", "skipped"} /\ w \in Worlds
  BY DEF PastInv, Worlds, OutcomeOf
<1>1. u = [git |-> w.git, idle |-> w.idle, sync |-> w.sync, state |-> w.state, trail |-> new, tried |-> w.tried]
  BY <1>0, RecordedIs
<1>2. v = [u EXCEPT !.sync = IF outcome # "success" THEN u.sync
                             ELSE IF action = "retry" THEN u.sync \cup {a} ELSE u.sync \ {a},
                    !.tried = [u.tried EXCEPT ![a] = outcome]]
  BY DEF Replayed
<1> HIDE DEF v, outcome, u
<1>3. v = [u EXCEPT !.sync = sync, !.tried = [w.tried EXCEPT ![a] = outcome]]
  BY <1>1, <1>2
<1> HIDE DEF sync, new
<1>4. v = [git |-> w.git, idle |-> w.idle, sync |-> sync, state |-> w.state, trail |-> new,
           tried |-> [w.tried EXCEPT ![a] = outcome]]
  BY <1>1, <1>3
<1>5. OneMore(w, v, a, outcome)
  <2>1. v.trail = Append(w.trail, [at |-> Len(w.trail) + 1, id |-> a, action |-> action, status |-> outcome])
    BY <1>4 DEF new
  <2>2. action \in Actions /\ outcome \in Statuses
    BY <1>0 DEF Actions, Statuses
  <2> QED BY <1>0, <2>1, <2>2, RecordMore
<1>6. v \in Worlds
  <2>1. sync \in SUBSET Assets
    BY <1>0 DEF sync, Worlds
  <2>2. [w.tried EXCEPT ![a] = outcome] \in [Assets -> {"nothing", "applied", "success", "failed", "skipped", "edited"}]
    BY <1>0 DEF Worlds
  <2>3. new \in Seq(Records)
    BY <1>4, <1>5 DEF OneMore
  <2> QED BY <1>0, <1>4, <2>1, <2>2, <2>3 DEF Worlds
<1>7. v.state = w.state /\ v.tried = [w.tried EXCEPT ![a] = outcome]
  BY <1>4
<1> QED BY <1>0, <1>5, <1>6, <1>7, OnlyTold DEF v

LEMMA PrunedOK ==
  ASSUME NEW w, PastInv(w), NEW a \in Assets, NEW ok \in BOOLEAN
  PROVE  PastInv(Pruned(w, a, ok))
<1> DEFINE outcome == IF ok THEN "success" ELSE "failed"
           v == Pruned(w, a, ok)
           u == Recorded(w, a, "delete", outcome)
           new == Append(w.trail, [at |-> Len(w.trail) + 1, id |-> a, action |-> "delete", status |-> outcome])
<1>0. outcome \in {"success", "failed"} /\ w \in Worlds
  BY DEF PastInv
<1>1. u = [git |-> w.git, idle |-> w.idle, sync |-> w.sync, state |-> w.state, trail |-> new, tried |-> w.tried]
  BY <1>0, RecordedIs
<1>2. v = [u EXCEPT !.tried = [u.tried EXCEPT ![a] = outcome]]
  BY DEF Pruned
<1> HIDE DEF v, outcome, u, new
<1>4. v = [git |-> w.git, idle |-> w.idle, sync |-> w.sync, state |-> w.state, trail |-> new,
           tried |-> [w.tried EXCEPT ![a] = outcome]]
  BY <1>1, <1>2
<1>5. OneMore(w, v, a, outcome)
  <2>1. v.trail = Append(w.trail, [at |-> Len(w.trail) + 1, id |-> a, action |-> "delete", status |-> outcome])
    BY <1>4 DEF new
  <2>2. "delete" \in Actions /\ outcome \in Statuses
    BY <1>0 DEF Actions, Statuses
  <2> QED BY <1>0, <2>1, <2>2, RecordMore
<1>6. v \in Worlds
  <2>2. [w.tried EXCEPT ![a] = outcome] \in [Assets -> {"nothing", "applied", "success", "failed", "skipped", "edited"}]
    BY <1>0 DEF Worlds
  <2>3. new \in Seq(Records)
    BY <1>4, <1>5 DEF OneMore
  <2> QED BY <1>0, <1>4, <2>2, <2>3 DEF Worlds
<1>7. v.state = w.state /\ v.tried = [w.tried EXCEPT ![a] = outcome]
  BY <1>4
<1> QED BY <1>0, <1>5, <1>6, <1>7, OnlyTold DEF v

LEMMA EditedOK ==
  ASSUME NEW w, PastInv(w), NEW a \in Assets, NEW idle \in BOOLEAN
  PROVE  PastInv(Edited(w, a, idle))
<1> DEFINE v == Edited(w, a, idle)
           u == Recorded(w, a, "edit", "ok")
           new == Append(w.trail, [at |-> Len(w.trail) + 1, id |-> a, action |-> "edit", status |-> "ok"])
           left == IF idle THEN w.idle \cup {a} ELSE w.idle \ {a}
<1>0. w \in Worlds
  BY DEF PastInv
<1>1. u = [git |-> w.git, idle |-> w.idle, sync |-> w.sync, state |-> w.state, trail |-> new, tried |-> w.tried]
  BY <1>0, RecordedIs
<1>2. v = [u EXCEPT !.idle = IF idle THEN u.idle \cup {a} ELSE u.idle \ {a},
                    !.tried = [u.tried EXCEPT ![a] = "edited"]]
  BY DEF Edited
<1> HIDE DEF v, u, new
<1>3. v = [u EXCEPT !.idle = left, !.tried = [w.tried EXCEPT ![a] = "edited"]]
  BY <1>1, <1>2
<1> HIDE DEF left
<1>4. v = [git |-> w.git, idle |-> left, sync |-> w.sync, state |-> w.state, trail |-> new,
           tried |-> [w.tried EXCEPT ![a] = "edited"]]
  BY <1>1, <1>3
<1>5. OneMore(w, v, a, "ok")
  <2>1. v.trail = Append(w.trail, [at |-> Len(w.trail) + 1, id |-> a, action |-> "edit", status |-> "ok"])
    BY <1>4 DEF new
  <2>2. "edit" \in Actions /\ "ok" \in Statuses
    BY DEF Actions, Statuses
  <2> QED BY <1>0, <2>1, <2>2, RecordMore
<1>6. v \in Worlds
  <2>1. left \in SUBSET Assets
    BY <1>0 DEF left, Worlds
  <2>2. [w.tried EXCEPT ![a] = "edited"] \in [Assets -> {"nothing", "applied", "success", "failed", "skipped", "edited"}]
    BY <1>0 DEF Worlds
  <2>3. new \in Seq(Records)
    BY <1>4, <1>5 DEF OneMore
  <2> QED BY <1>0, <1>4, <2>1, <2>2, <2>3 DEF Worlds
<1>7. v.state = w.state /\ v.tried = [w.tried EXCEPT ![a] = "edited"]
  BY <1>4
<1> QED BY <1>0, <1>5, <1>6, <1>7, OnlyTold DEF v

\* What leaves the trail and what was tried alone.
LEMMA Untold ==
  ASSUME NEW w, PastInv(w), NEW v, v \in Worlds, v.trail = w.trail, v.tried = w.tried,
         DOMAIN w.state.managed \subseteq DOMAIN v.state.managed,
         \A b \in DOMAIN v.state.managed :
           \/ v.state.managed[b].status = "adopted"
           \/ b \in DOMAIN w.state.managed /\ v.state.managed[b] = w.state.managed[b]
  PROVE  PastInv(v)
<1>1. /\ \A n \in DOMAIN v.trail : v.trail[n].at = n
      /\ \A n \in DOMAIN v.trail : \E m \in DOMAIN v.trail : LastOf(v, v.trail[n].id, m)
      /\ \A b, s : Tells(w, b, s) <=> Tells(v, b, s)
      /\ \A b, s : TellsLast(w, b, s) <=> TellsLast(v, b, s)
  BY SameTrail
<1>2. ASSUME NEW b \in Assets
      PROVE  /\ v.tried[b] = "applied" =>
                  /\ b \in DOMAIN v.state.managed /\ v.state.managed[b].status # "failed"
                  /\ TellsLast(v, b, "success")
             /\ v.tried[b] = "failed" => TellsLast(v, b, "failed")
  BY <1>1 DEF PastInv
<1>3. ASSUME NEW b \in DOMAIN v.state.managed
      PROVE  /\ v.state.managed[b].status = "success" => Tells(v, b, "success")
             /\ v.state.managed[b].status = "failed" => Tells(v, b, "failed")
  BY <1>1 DEF PastInv
<1> QED BY <1>1, <1>2, <1>3 DEF PastInv

\* The entries after an adoption.
LEMMA Adopting ==
  ASSUME NEW w, w \in Worlds, NEW refresh \in BOOLEAN
  PROVE  LET new == Adopt(w, TRUE, refresh) IN
         /\ new \in States /\ new.applied = w.state.applied
         /\ DOMAIN new.managed = DOMAIN w.state.managed \cup w.sync
         /\ \A a \in DOMAIN new.managed :
              new.managed[a] = IF a \in w.sync /\ (refresh \/ a \notin DOMAIN w.state.managed)
                               THEN [status |-> "adopted"] ELSE w.state.managed[a]
<1> DEFINE taken == {a \in w.sync : refresh \/ ~IsManaged(w.state, a)}
           managed == [a \in DOMAIN w.state.managed \cup taken |->
                         IF a \in taken THEN [status |-> "adopted"] ELSE w.state.managed[a]]
           new == Adopt(w, TRUE, refresh)
<1>0. w.state \in States /\ w.sync \subseteq Assets
  BY DEF Worlds
<1>1. new = [w.state EXCEPT !.managed = managed]
  BY DEF Adopt
<1>2. \A a : a \in taken <=> a \in w.sync /\ (refresh \/ a \notin DOMAIN w.state.managed)
  BY DEF IsManaged
<1> HIDE DEF taken
<1>3. /\ DOMAIN managed = DOMAIN w.state.managed \cup taken
      /\ \A a \in DOMAIN managed :
           managed[a] = IF a \in taken THEN [status |-> "adopted"] ELSE w.state.managed[a]
      /\ managed = [a \in DOMAIN managed |-> managed[a]]
  OBVIOUS
<1> HIDE DEF managed, new
<1>4. DOMAIN managed = DOMAIN w.state.managed \cup w.sync
  BY <1>2, <1>3
<1>5. managed \in [DOMAIN managed -> Entries] /\ DOMAIN managed \in SUBSET Assets
  <2>1. w.state.managed \in [DOMAIN w.state.managed -> Entries] /\ DOMAIN w.state.managed \subseteq Assets
    BY <1>0 DEF States
  <2>2. [status |-> "adopted"] \in Entries
    BY DEF Entries
  <2>3. \A a \in DOMAIN managed : managed[a] \in Entries
    BY <1>3, <2>1, <2>2
  <2> QED BY <1>0, <1>3, <1>4, <2>1, <2>3
<1>6. new = [applied |-> w.state.applied, managed |-> managed] /\ w.state.applied \in BOOLEAN
  BY <1>0, <1>1 DEF States
<1>7. new \in States
  BY <1>5, <1>6 DEF States
<1>8. new.applied = w.state.applied /\ new.managed = managed
  BY <1>6
<1>9. \A a \in DOMAIN managed :
        managed[a] = IF a \in w.sync /\ (refresh \/ a \notin DOMAIN w.state.managed)
                     THEN [status |-> "adopted"] ELSE w.state.managed[a]
  BY <1>2, <1>3
<1>10. /\ new \in States /\ new.applied = w.state.applied
       /\ DOMAIN new.managed = DOMAIN w.state.managed \cup w.sync
       /\ \A a \in DOMAIN new.managed :
            new.managed[a] = IF a \in w.sync /\ (refresh \/ a \notin DOMAIN w.state.managed)
                             THEN [status |-> "adopted"] ELSE w.state.managed[a]
  BY <1>4, <1>7, <1>8, <1>9
<1> QED BY <1>10 DEF new

LEMMA WithState ==
  ASSUME NEW w, w \in Worlds, NEW new, new \in States, NEW v, v = [w EXCEPT !.state = new]
  PROVE  /\ v \in Worlds /\ v.state = new
         /\ v.git = w.git /\ v.sync = w.sync /\ v.trail = w.trail /\ v.tried = w.tried
BY DEF Worlds

LEMMA StepOK ==
  ASSUME NEW w, PastInv(w), NEW v \in NextWorlds(w)
  PROVE  PastInv(v)
<1>0. w \in Worlds /\ w.git \subseteq Assets
  BY DEF PastInv, Worlds
<1>1. CASE \E a \in w.git, ok, published \in BOOLEAN : v = Applied(w, a, ok, published)
  BY <1>1, AppliedOK
<1>2. CASE \E a \in w.git \cap FailedBefore(w), ok \in BOOLEAN : v = Replayed(w, a, ok, "retry")
  BY <1>2, ReplayedOK
<1>3. CASE \E a \in w.git, ok \in BOOLEAN : v = Replayed(w, a, ok, "rollback")
  BY <1>3, ReplayedOK
<1>4. CASE \E a \in Assets \ w.git, ok \in BOOLEAN : v = Pruned(w, a, ok)
  BY <1>4, PrunedOK
<1>5. CASE \E a \in w.git, idle \in BOOLEAN : v = Edited(w, a, idle)
  BY <1>0, <1>5, EditedOK
<1>6. ASSUME NEW a \in w.git, v = FileRemoved(w, a) PROVE PastInv(v)
  <2>1. v = [git |-> w.git \ {a}, idle |-> w.idle \ {a}, sync |-> w.sync \ {a}, state |-> w.state,
             trail |-> w.trail, tried |-> w.tried]
    BY <1>0, <1>6 DEF FileRemoved, Worlds
  <2>2. v \in Worlds
    BY <1>0, <2>1 DEF Worlds
  <2> QED BY <2>1, <2>2, Untold
<1>7. ASSUME NEW a \in w.git, v = [w EXCEPT !.sync = @ \cup {a}] \/ v = [w EXCEPT !.sync = @ \ {a}]
      PROVE  PastInv(v)
  <2>1. v = [git |-> w.git, idle |-> w.idle, sync |-> v.sync, state |-> w.state, trail |-> w.trail, tried |-> w.tried]
    BY <1>0, <1>7 DEF Worlds
  <2>2. v.sync \subseteq Assets
    BY <1>0, <1>7 DEF Worlds
  <2>3. v \in Worlds
    BY <1>0, <2>1, <2>2 DEF Worlds
  <2> QED BY <2>1, <2>3, Untold
<1>8. ASSUME NEW refresh \in BOOLEAN, v = [w EXCEPT !.state = Adopt(w, TRUE, refresh)]
      PROVE  PastInv(v)
  <2> DEFINE new == Adopt(w, TRUE, refresh)
  <2>0. new \in States /\ v = [w EXCEPT !.state = new]
    BY <1>0, <1>8, Adopting
  <2>2. /\ DOMAIN new.managed = DOMAIN w.state.managed \cup w.sync
        /\ \A a \in DOMAIN new.managed :
             new.managed[a] = IF a \in w.sync /\ (refresh \/ a \notin DOMAIN w.state.managed)
                              THEN [status |-> "adopted"] ELSE w.state.managed[a]
    BY <1>0, Adopting
  <2> HIDE DEF new
  <2>1. v \in Worlds /\ v.state = new /\ v.trail = w.trail /\ v.tried = w.tried
    BY <1>0, <2>0, WithState
  <2>3. DOMAIN w.state.managed \subseteq DOMAIN v.state.managed
    BY <2>1, <2>2
  <2>4. \A b \in DOMAIN v.state.managed :
          \/ v.state.managed[b].status = "adopted"
          \/ b \in DOMAIN w.state.managed /\ v.state.managed[b] = w.state.managed[b]
    BY <2>1, <2>2
  <2> QED BY <2>1, <2>3, <2>4, Untold
<1> DEFINE A == {Applied(w, a, ok, published) : a \in w.git, ok, published \in BOOLEAN}
           B == {Replayed(w, a, ok, "retry") : a \in w.git \cap FailedBefore(w), ok \in BOOLEAN}
           C == {Replayed(w, a, ok, "rollback") : a \in w.git, ok \in BOOLEAN}
           D == {Pruned(w, a, ok) : a \in Assets \ w.git, ok \in BOOLEAN}
           E == {Edited(w, a, idle) : a \in w.git, idle \in BOOLEAN}
           F == {FileRemoved(w, a) : a \in w.git}
           G == {[w EXCEPT !.sync = @ \cup {a}] : a \in w.git}
           H == {[w EXCEPT !.sync = @ \ {a}] : a \in w.git}
           I == {[w EXCEPT !.state = Adopt(w, TRUE, refresh)] : refresh \in BOOLEAN}
<1>9. NextWorlds(w) = A \cup B \cup C \cup D \cup E \cup F \cup G \cup H \cup I
  BY DEF NextWorlds
<1>10. /\ v \in A => PastInv(v)
       /\ v \in B => PastInv(v)
       /\ v \in C => PastInv(v)
       /\ v \in D => PastInv(v)
       /\ v \in E => PastInv(v)
  BY <1>1, <1>2, <1>3, <1>4, <1>5
<1>11. v \in F => PastInv(v)
  BY <1>6
<1>12. v \in G \cup H => PastInv(v)
  BY <1>7
<1>13. v \in I => PastInv(v)
  BY <1>8
<1> HIDE DEF A, B, C, D, E, F, G, H, I
<1> QED BY <1>9, <1>10, <1>11, <1>12, <1>13

LEMMA PastOK == Past => []PastInv(world)
<1>1. world = Start => PastInv(world)
  BY StartOK
<1>2. PastInv(world) /\ [world' \in NextWorlds(world)]_world => PastInv(world)'
  BY StepOK
<1> QED BY <1>1, <1>2, PTL DEF Past

(* After a past of any length, of any assets, with applies that fail or are not   *)
(* published, retries, rollbacks, prunes, edits, adoptions and changes by hand:   *)
(* no file whose deploy failed last is called in sync, one that was deployed last *)
(* and published is, and what the page says has its record in the trail           *)
(* (deployments.py:74, assemble.py:256).                                          *)
THEOREM PageTellsThePast == Past => []PageTellsTheLast(world)
<1>1. PastInv(world) => PageTellsTheLast(world)
  BY PageFollows
<1> QED BY <1>1, PastOK, PTL

\* What adoption does to a world of entries and records.
LEMMA AdoptionIsTrue ==
  ASSUME NEW w, PastInv(w), w.sync \subseteq Assets
  PROVE  AdoptionTellsNoLie(w)
<1> SUFFICES ASSUME NEW refresh \in BOOLEAN
             PROVE  LET after == [w EXCEPT !.state = Adopt(w, TRUE, refresh)] IN
                    /\ Adopt(w, FALSE, refresh) = w.state
                    /\ Adopt(after, TRUE, refresh) = after.state /\ after.state.applied = w.state.applied
                    /\ w.sync \subseteq DOMAIN after.state.managed
                    /\ FindUndeployed(after) = FindUndeployed(w) \ w.sync
                    /\ \A a \in Rows(w) \ (IF refresh THEN w.sync ELSE {b \in w.sync : ~IsManaged(w.state, b)}) :
                         ClassOf(after, a) = ClassOf(w, a)
                    /\ \A a \in w.sync : AuditOf(w, a) = "failed" => ClassOf(after, a) # "in-sync"
  BY DEF AdoptionTellsNoLie
<1> DEFINE new == Adopt(w, TRUE, refresh)
           after == [w EXCEPT !.state = new]
           newer == Adopt(after, TRUE, refresh)
<1>0. w \in Worlds
  BY DEF PastInv
<1>1. new \in States
  BY <1>0, Adopting
<1>2. /\ new.applied = w.state.applied
      /\ DOMAIN new.managed = DOMAIN w.state.managed \cup w.sync
      /\ \A a \in DOMAIN new.managed :
           new.managed[a] = IF a \in w.sync /\ (refresh \/ a \notin DOMAIN w.state.managed)
                            THEN [status |-> "adopted"] ELSE w.state.managed[a]
  BY <1>0, Adopting
<1> HIDE DEF new
<1>3. /\ after \in Worlds /\ after.state = new
      /\ after.git = w.git /\ after.sync = w.sync /\ after.trail = w.trail /\ after.tried = w.tried
  BY <1>0, <1>1, WithState
<1> HIDE DEF after
<1>4. newer = new
  <2>1. newer \in States
    BY <1>3, Adopting
  <2>2. /\ newer.applied = new.applied
        /\ DOMAIN newer.managed = DOMAIN new.managed \cup w.sync
        /\ \A a \in DOMAIN newer.managed :
             newer.managed[a] = IF a \in w.sync /\ (refresh \/ a \notin DOMAIN new.managed)
                                THEN [status |-> "adopted"] ELSE new.managed[a]
    <3>1. /\ newer.applied = after.state.applied
          /\ DOMAIN newer.managed = DOMAIN after.state.managed \cup after.sync
          /\ \A a \in DOMAIN newer.managed :
               newer.managed[a] = IF a \in after.sync /\ (refresh \/ a \notin DOMAIN after.state.managed)
                                  THEN [status |-> "adopted"] ELSE after.state.managed[a]
      BY <1>3, Adopting
    <3> HIDE DEF newer
    <3> QED BY <1>3, <3>1
  <2> HIDE DEF newer
  <2>3. DOMAIN newer.managed = DOMAIN new.managed
    BY <1>2, <2>2
  <2>4. \A a \in DOMAIN newer.managed : newer.managed[a] = new.managed[a]
    BY <1>2, <2>2, <2>3
  <2>5. newer.managed = new.managed
    <3>1. /\ newer.managed = [a \in DOMAIN newer.managed |-> newer.managed[a]]
          /\ new.managed = [a \in DOMAIN new.managed |-> new.managed[a]]
      BY <1>1, <2>1 DEF States
    <3> QED BY <2>3, <2>4, <3>1
  <2> QED BY <1>1, <2>1, <2>2, <2>5 DEF States
<1>5. FindUndeployed(after) = FindUndeployed(w) \ w.sync
  BY <1>2, <1>3 DEF FindUndeployed, IsManaged
<1>6. \A a : AuditOf(after, a) = AuditOf(w, a)
  BY <1>3 DEF AuditOf, LatestRecords
<1>7. ASSUME NEW a \in Rows(w) \ (IF refresh THEN w.sync ELSE {b \in w.sync : ~IsManaged(w.state, b)})
      PROVE  ClassOf(after, a) = ClassOf(w, a)
  <2>1. EntryOf(after, a) = EntryOf(w, a)
    BY <1>2, <1>3 DEF EntryOf, IsManaged
  <2> QED BY <1>3, <1>6, <2>1 DEF ClassOf
<1>8. ASSUME NEW a \in w.sync, AuditOf(w, a) = "failed" PROVE ClassOf(after, a) # "in-sync"
  <2>1. EntryOf(after, a) # "none"
    <3>1. a \in DOMAIN new.managed /\ new.managed[a] \in Entries
      BY <1>1, <1>2 DEF States
    <3> QED BY <1>3, <3>1 DEF EntryOf, IsManaged, Entries
  <2>2. AuditOf(after, a) = "failed"
    BY <1>6, <1>8
  <2> QED BY <2>1, <2>2 DEF ClassOf, Classify
<1>9. Adopt(w, FALSE, refresh) = w.state
  BY DEF Adopt
<1> QED BY <1>2, <1>3, <1>4, <1>5, <1>7, <1>8, <1>9 DEF new, after, newer

(* After any such past an adoption takes what is in sync and nothing else, hides  *)
(* no failure, and has nothing left to do (cli state.py:214).                     *)
THEOREM AdoptionTellsThePast == Past => []AdoptionTellsNoLie(world)
<1>1. PastInv(world) => AdoptionTellsNoLie(world)
  BY AdoptionIsTrue DEF PastInv, Worlds
<1> QED BY <1>1, PastOK, PTL

-----------------------------------------------------------------------------
(* What the delta of two reports says.                                     *)

\* A report: rows in the order of the files, each rule once.
ReportRows(rows) ==
  /\ DOMAIN rows \subseteq Nat
  /\ \A i, j \in DOMAIN rows : rows[i].id = rows[j].id => i = j

LEMMA RecIs ==
  ASSUME NEW rows, ReportRows(rows), NEW i \in DOMAIN rows
  PROVE  RecOf(rows, rows[i].id) = rows[i].rec
<1>1. {j \in DOMAIN rows : rows[j].id = rows[i].id} = {i}
  BY DEF ReportRows
<1>2. Max({i}) = i
  BY DEF ReportRows, Max
<1> QED BY <1>1, <1>2 DEF RecOf

LEMMA SectionIs ==
  ASSUME NEW rows, ReportRows(rows), NEW rec \in {"TUNE", "SILENT"}
  PROVE  /\ Section(rows, rec) \subseteq Ids(rows)
         /\ \A id : id \in Section(rows, rec) <=> RecOf(rows, id) = Plain(rec)
<1>1. Section(rows, rec) \subseteq Ids(rows)
  BY DEF Section, Ids
<1>2. ASSUME NEW id, id \in Ids(rows) PROVE id \in Section(rows, rec) <=> RecOf(rows, id) = Plain(rec)
  <2>1. PICK i \in DOMAIN rows : rows[i].id = id
    BY <1>2 DEF Ids
  <2>2. RecOf(rows, id) = rows[i].rec
    BY <2>1, RecIs
  <2>3. \A j \in DOMAIN rows : rows[j].id = id => j = i
    BY <2>1 DEF ReportRows
  <2> QED BY <2>1, <2>2, <2>3 DEF Section
<1>3. ASSUME NEW id, id \notin Ids(rows) PROVE RecOf(rows, id) # Plain(rec)
  BY <1>3 DEF RecOf, Ids, Plain
<1> QED BY <1>1, <1>2, <1>3

(* Of any two reports in which no rule has two rows, the delta turns the lists of *)
(* the one into those of the other (health_snapshot.py:105-154).                  *)
THEOREM DeltasRebuild ==
  \A before, now : ReportRows(before) /\ ReportRows(now) => DeltaRebuilds(before, now)
<1> SUFFICES ASSUME NEW before, NEW now, ReportRows(before), ReportRows(now)
             PROVE  DeltaRebuilds(before, now)
  OBVIOUS
<1> DEFINE d == Delta(before, now)
           all == Ids(before) \cup Ids(now)
<1>1. /\ d.newTune = {id \in all : RecOf(before, id) # Plain("TUNE") /\ RecOf(now, id) = Plain("TUNE")}
      /\ d.resolvedTune = {id \in all : RecOf(before, id) = Plain("TUNE") /\ RecOf(now, id) # Plain("TUNE")}
      /\ d.newSilent = {id \in all : RecOf(before, id) # Plain("SILENT") /\ RecOf(now, id) = Plain("SILENT")}
      /\ d.newlyActive = {id \in all : RecOf(before, id) = Plain("SILENT") /\ RecOf(now, id) # Plain("SILENT")}
      /\ d.changes = {id \in Ids(before) \cap Ids(now) : RecOf(before, id) # RecOf(now, id)}
  BY DEF Delta
<1> HIDE DEF d
<1>2. ASSUME NEW rows \in {before, now}, NEW rec \in {"TUNE", "SILENT"}
      PROVE  /\ Section(rows, rec) \subseteq all
             /\ \A id : id \in Section(rows, rec) <=> RecOf(rows, id) = Plain(rec)
  BY SectionIs
<1>3. Section(now, "TUNE") = (Section(before, "TUNE") \ d.resolvedTune) \cup d.newTune
  BY <1>1, <1>2
<1>4. Section(now, "SILENT") = (Section(before, "SILENT") \ d.newlyActive) \cup d.newSilent
  BY <1>1, <1>2
<1>5. (d.resolvedTune \cup d.newSilent) \cap Ids(before) \cap Ids(now) \subseteq d.changes
  BY <1>1
<1> QED BY <1>3, <1>4, <1>5 DEF DeltaRebuilds, d
================================================================================

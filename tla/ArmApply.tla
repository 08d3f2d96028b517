------------------------------- MODULE ArmApply -------------------------------
(***************************************************************************)
(* One Sentinel resource, and everybody who writes it: the ARM handlers    *)
(* (contentops/handlers/sentinel_analytic.py and its siblings) over the    *)
(* provider (contentops/providers/sentinel_arm.py) and the retry loop.     *)
(*                                                                         *)
(* An applier is one run of the handler's apply(): GET the resource, PUT   *)
(* it with If-Match on the etag it read, GET it back and compare hashes.   *)
(* A pruner is one run of delete(). Each call is repeated after a          *)
(* retryable fault; the server may have acted on an attempt whose answer   *)
(* was lost, and may act on one its client has given up.                   *)
(* Meanwhile people edit the resource in the portal.                       *)
(***************************************************************************)
EXTENDS HttpRetry, FiniteSets

CONSTANTS Appliers, Pruners,  \* runs that write the resource
          Bodies,             \* contents a checkout may hold
          PortalBody,         \* the content of an edit in the portal
          MaxEdits            \* bound: edits and deletions in the portal

Clients == Appliers \cup Pruners

ASSUME ClientsAssumption == Appliers \cap Pruners = {} /\ "portal" \notin Clients
ASSUME BodiesAssumption == PortalBody \notin Bodies
ASSUME EditsAssumption == MaxEdits \in Nat

VARIABLES rule,      \* the resource at ARM: its content and its etag
          lastTag,   \* the last etag ARM issued
          edits,     \* edits made in the portal so far
          wire,      \* requests ARM has not acted on yet
          body,      \* the content of each applier's checkout
          pc,        \* the call each client is at
          attempts,  \* retries of that call so far
          answer,    \* what the client has seen of its current attempt
          base,      \* the etag an applier's first GET returned, 0 for none
          result,    \* the status of the ActionResult
          writes     \* history: what took effect, over which etag

vars == <<rule, lastTag, edits, wire, body, pc, attempts, answer, base, result, writes>>

Content == Bodies \cup {PortalBody}
Rule == [body : Content, tag : Nat]
Absent == [body |-> PortalBody, tag |-> 0]
Request == [from : Clients, call : {"get", "put", "verify", "delete"},
            attempt : 0..MaxRetries, match : Nat, body : Content]
Write == [by : Clients \cup {"portal"}, over : Nat, tag : Nat]
Seen == {"idle", "waiting", "200", "201", "404", "412"} \cup Refusals \cup Exceptions
Answer == [seen : Seen, rule : Rule]

TypeOK ==
    /\ rule \in Rule
    /\ lastTag \in Nat
    /\ edits \in 0..MaxEdits
    /\ wire \subseteq Request
    /\ body \in [Appliers -> Bodies]
    /\ pc \in [Clients -> {"get", "put", "verify", "delete", "done"}]
    /\ attempts \in [Clients -> 0..MaxRetries]
    /\ answer \in [Clients -> Answer]
    /\ base \in [Appliers -> Nat]
    /\ result \in [Clients -> {"none", "skipped", "dry-run", "success", "unverified",
                               "error-412", "error-status", "error-apply",
                               "error-exception"}]
    /\ writes \subseteq Write

Idle == [seen |-> "idle", rule |-> Absent]
See(code) == [seen |-> code, rule |-> Absent]

Init ==
    /\ rule \in {Absent, [body |-> PortalBody, tag |-> 1]}
    /\ lastTag = rule.tag
    /\ edits = 0
    /\ wire = {}
    /\ body \in [Appliers -> Bodies]
    /\ pc = [c \in Clients |-> IF c \in Appliers THEN "get" ELSE "delete"]
    /\ attempts = [c \in Clients |-> 0]
    /\ answer = [c \in Clients |-> Idle]
    /\ base = [a \in Appliers |-> 0]
    /\ result = [c \in Clients |-> "none"]
    /\ writes = {}

-----------------------------------------------------------------------------
(* A client's call: send, perhaps repeat, then settle.                     *)

\* Mutant: the etag is looked up where this API version does not put it.
EtagMissed(c) == 0

\* extract_etag: If-Match is sent when the first GET found the resource.
IfMatch(c) == IF pc[c] = "put" THEN base[c] ELSE 0

Current(c) ==
    [from |-> c, call |-> pc[c], attempt |-> attempts[c], match |-> IfMatch(c),
     body |-> IF c \in Appliers THEN body[c] ELSE PortalBody]

Send(c) ==
    /\ pc[c] # "done" /\ answer[c].seen = "idle"
    /\ wire' = wire \cup {Current(c)}
    /\ answer' = [answer EXCEPT ![c] = See("waiting")]
    /\ UNCHANGED <<rule, lastTag, edits, body, pc, attempts, base, result, writes>>

\* The connection fails before the request leaves: it is never acted on.
ConnectFault(c) ==
    /\ answer[c].seen = "waiting" /\ Current(c) \in wire
    /\ wire' = wire \ {Current(c)}
    /\ answer' = [answer EXCEPT ![c] = See("connect")]
    /\ UNCHANGED <<rule, lastTag, edits, body, pc, attempts, base, result, writes>>

\* The client stops waiting; a PUT or DELETE may still be on its way, and be
\* acted on later. (A GET may, too, and changes nothing.)
ReadTimeout(c) ==
    /\ answer[c].seen = "waiting"
    /\ answer' = [answer EXCEPT ![c] = See("transport")]
    /\ wire' = wire \ {m \in {Current(c)} : m.call \in {"get", "verify"}}
    /\ UNCHANGED <<rule, lastTag, edits, body, pc, attempts, base, result, writes>>

Retry(c) ==
    /\ Retries(TRUE, answer[c].seen, attempts[c])
    /\ attempts' = [attempts EXCEPT ![c] = @ + 1]
    /\ answer' = [answer EXCEPT ![c] = Idle]
    /\ UNCHANGED <<rule, lastTag, edits, wire, body, pc, base, result, writes>>

\* The answer of the last attempt reaches the handler.
Settled(c) ==
    /\ answer[c].seen \notin {"idle", "waiting"}
    /\ ~ Retries(TRUE, answer[c].seen, attempts[c])

Call(c, call) ==
    /\ pc' = [pc EXCEPT ![c] = call]
    /\ attempts' = [attempts EXCEPT ![c] = 0]
    /\ answer' = [answer EXCEPT ![c] = Idle]
    /\ UNCHANGED <<rule, lastTag, edits, wire, body, writes>>

Finish(c, status) ==
    /\ result' = [result EXCEPT ![c] = status]
    /\ Call(c, "done")

-----------------------------------------------------------------------------
(* apply(): one action per answer the handler acts on.                     *)

\* An experimental rule is skipped and a dry run only prints.
Skip(a) ==
    /\ pc[a] = "get" /\ answer[a].seen = "idle" /\ attempts[a] = 0
    /\ \E status \in {"skipped", "dry-run"} : Finish(a, status)
    /\ UNCHANGED base

\* get_resource: 404 is None, another error status or an exception is raised
\* and becomes error-apply in _process_apply_asset.
Got(a) ==
    /\ pc[a] = "get" /\ Settled(a)
    /\ \/ /\ answer[a].seen \in {"200", "404"}
          /\ base' = [base EXCEPT ![a] = answer[a].rule.tag]
          /\ Call(a, "put")
          /\ UNCHANGED result
       \/ /\ answer[a].seen \notin {"200", "404"}
          /\ Finish(a, "error-apply")
          /\ UNCHANGED base

\* Mutant: a PUT that fails for good is followed by the verification, too.
PutUnchecked(a) ==
    /\ pc[a] = "put" /\ Settled(a)
    /\ \/ ~ Raises(answer[a].seen) /\ Call(a, "verify") /\ UNCHANGED result
       \/ Raises(answer[a].seen) /\ Finish(a, "error-apply")
    /\ UNCHANGED base

\* put_resource has answered.
PutAnswered(a) ==
    /\ pc[a] = "put" /\ Settled(a)
    /\ \/ answer[a].seen \in {"200", "201"} /\ Call(a, "verify") /\ UNCHANGED result
       \/ answer[a].seen = "412" /\ Finish(a, "error-412")
       \/ answer[a].seen \in Refusals /\ Finish(a, "error-status")
       \/ Raises(answer[a].seen) /\ Finish(a, "error-apply")
    /\ UNCHANGED base

\* The resource is read back: gone or another hash is a success that is not
\* verified; a failing GET fails the apply although the PUT took effect.
Verified(a) ==
    /\ pc[a] = "verify" /\ Settled(a)
    /\ \/ /\ answer[a].seen \in {"200", "404"}
          /\ Finish(a, IF answer[a].rule.tag # 0 /\ answer[a].rule.body = body[a]
                       THEN "success" ELSE "unverified")
       \/ answer[a].seen \notin {"200", "404"} /\ Finish(a, "error-apply")
    /\ UNCHANGED base

\* Mutant: a delete is a success whatever was answered.
DeleteUnchecked(p) ==
    /\ pc[p] = "delete" /\ Settled(p)
    /\ Finish(p, "success")
    /\ UNCHANGED base

\* delete(): 200, 204 and 404 are all success.
Deleted(p) ==
    /\ pc[p] = "delete" /\ Settled(p)
    /\ \/ answer[p].seen \in {"200", "404"} /\ Finish(p, "success")
       \/ answer[p].seen \in Refusals /\ Finish(p, "error-status")
       \/ Raises(answer[p].seen) /\ Finish(p, "error-exception")
    /\ UNCHANGED base

-----------------------------------------------------------------------------
(* The server and the portal.                                              *)

Record(by, tag) == writes' = writes \cup {[by |-> by, over |-> rule.tag, tag |-> tag]}

\* ARM acts on a request and means to answer with `code`.
Act(m, code) ==
    \/ /\ m.call \in {"get", "verify"}
       /\ code = IF rule.tag = 0 THEN "404" ELSE "200"
       /\ UNCHANGED <<rule, lastTag, writes>>
    \/ /\ m.call = "put" /\ m.match \notin {0, rule.tag}
       /\ code = "412"
       /\ UNCHANGED <<rule, lastTag, writes>>
    \/ /\ m.call = "put" /\ m.match \in {0, rule.tag}
       /\ code = IF rule.tag = 0 THEN "201" ELSE "200"
       /\ lastTag' = lastTag + 1
       /\ rule' = [body |-> m.body, tag |-> lastTag + 1]
       /\ Record(m.from, lastTag + 1)
    \/ /\ m.call = "delete" /\ rule.tag # 0
       /\ code = "200"
       /\ rule' = Absent
       /\ Record(m.from, 0)
       /\ UNCHANGED lastTag
    \/ /\ m.call = "delete" /\ rule.tag = 0
       /\ code = "404"
       /\ UNCHANGED <<rule, lastTag, writes>>

Listening(m) == answer[m.from].seen = "waiting" /\ m = Current(m.from)

\* What the client sees of it: the answer, a 5xx of the gateway, or nothing.
\* An attempt nobody listens to any more is acted on all the same.
Serve(m) ==
    /\ m \in wire
    /\ wire' = wire \ {m}
    /\ \E code \in Seen :
         /\ Act(m, code)
         /\ IF Listening(m)
            THEN \E seen \in {code, "5xx", "transport"} :
                   answer' = [answer EXCEPT ![m.from] =
                       [seen |-> seen,
                        rule |-> IF seen = code /\ code = "200" /\ m.call # "put"
                                 THEN rule ELSE Absent]]
            ELSE UNCHANGED answer
    /\ UNCHANGED <<edits, body, pc, attempts, base, result>>

\* A request is refused, or dropped when its client has given it up.
Refuse(m) ==
    /\ m \in wire
    /\ wire' = wire \ {m}
    /\ IF Listening(m)
       THEN \E seen \in Refusals : answer' = [answer EXCEPT ![m.from] = See(seen)]
       ELSE UNCHANGED answer
    /\ UNCHANGED <<rule, lastTag, edits, body, pc, attempts, base, result, writes>>

PortalEdit ==
    /\ edits < MaxEdits
    /\ edits' = edits + 1
    /\ \/ /\ lastTag' = lastTag + 1
          /\ rule' = [body |-> PortalBody, tag |-> lastTag + 1]
          /\ Record("portal", lastTag + 1)
       \/ /\ rule.tag # 0
          /\ rule' = Absent
          /\ Record("portal", 0)
          /\ UNCHANGED lastTag
    /\ UNCHANGED <<wire, body, pc, attempts, answer, base, result>>

-----------------------------------------------------------------------------
Step(c) ==
    \/ Send(c) \/ ConnectFault(c) \/ ReadTimeout(c) \/ Retry(c)
    \/ c \in Appliers /\ (Skip(c) \/ Got(c) \/ PutAnswered(c) \/ Verified(c))
    \/ c \in Pruners /\ Deleted(c)

Next ==
    \/ \E c \in Clients : Step(c)
    \/ \E m \in wire : Serve(m) \/ Refuse(m)
    \/ PortalEdit

Spec == Init /\ [][Next]_vars

-----------------------------------------------------------------------------
\* A run that found the resource replaces the version it read and no other: an
\* edit made in the portal, or by another run, after the GET is never
\* overwritten unseen (put_resource's If-Match, extract_etag).
NothingUnseenOverwritten ==
    \A e \in writes : e.by \in Appliers /\ base[e.by] # 0 => e.over = base[e.by]

\* Retries and late duplicates of its PUT included, such a run changes the
\* resource at most once (request_with_retry repeats every PUT).
AppliedOnce ==
    \A a \in Appliers : base[a] # 0 =>
        \A e, f \in writes : e.by = a /\ f.by = a => e = f

\* A success, verified or not, is told only of what took effect: the PUT did,
\* and for a delete the resource was absent at some moment.
SuccessTookEffect ==
    /\ \A a \in Appliers : result[a] \in {"success", "unverified"} =>
           \E e \in writes : e.by = a
    /\ \A p \in Pruners : result[p] = "success" =>
           rule.tag = 0 \/ \E e \in writes : 0 \in {e.over, e.tag}

Conclusive(a) ==
    \/ result[a] \in {"skipped", "dry-run"}
    \/ base[a] # 0 /\ result[a] \in {"success", "unverified", "error-412"}

\* Once apply() has returned success or a conflict, no request of that run that
\* is still on its way changes the resource.
ConclusiveIsFinal ==
    [][\A a \in Appliers : Conclusive(a) =>
           \A e \in writes' \ writes : e.by # a]_vars

\* error-412 is told only when somebody else changed the resource after the GET
\* (ETAG_CONFLICT_MESSAGE: "Remote etag changed since plan").  It does not hold:
\* a PUT whose answer was lost is repeated with the etag that it replaced itself.
ConflictIsReal ==
    \A a \in Appliers : result[a] = "error-412" =>
        \E e \in writes : e.by # a /\ e.over = base[a]
=============================================================================

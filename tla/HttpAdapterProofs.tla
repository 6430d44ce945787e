------------------------- MODULE HttpAdapterProofs -------------------------
(***************************************************************************)
(* The safety of the HTTP adapters and of the identity tracker behind them,*)
(* for every registry, every set of tokens and connections and every size  *)
(* of the tracker.                                                         *)
(*                                                                         *)
(* IdentityChangesHands speaks of the last use of an identity, which is    *)
(* long past when it changes hands.  TrackerKept says what must hold in    *)
(* between: an identity the tracker still knows has its owner, and every   *)
(* identity behind it was bound since; one that it forgot has seen at least*)
(* TrackerSize others.  SoundConn says the same of an answer: what a       *)
(* connection's status and wire may be, given how the service call ended.  *)
(***************************************************************************)
EXTENDS HttpAdapter, LruProofs, FiniteSetTheorems

(***************************************************************************)
(* The inductive invariants.                                               *)
(***************************************************************************)
Bindings == [key: Digests, value: {Subject(token) : token \in Tokens}]

\* Each identity in the tracker is its owner's, and was used before those behind
\* it; each one that was forgotten was so for want of room.
TrackerKept ==
    /\ tracker \in Seq(Bindings)
    /\ Unique(tracker)
    /\ Len(tracker) <= TrackerSize
    /\ owner = [d \in Digests |-> owner[d]]
    /\ since \in [Digests -> SUBSET Digests]
    /\ \A i \in 1..Len(tracker) : owner[tracker[i].key] = tracker[i].value
    /\ \A i, l \in 1..Len(tracker) : i < l => tracker[l].key \in since[tracker[i].key]
    /\ \A d \in Digests :
          owner[d] # None /\ ~Holds(tracker, d) => Cardinality(since[d]) >= TrackerSize

ClockKept ==
    /\ clock \in Nat
    /\ latest \in Nat
    /\ latest <= clock

HasFields(conn) ==
    conn = [stage |-> conn.stage, request |-> conn.request, opened |-> conn.opened,
            arrived |-> conn.arrived, taken |-> conn.taken, gone |-> conn.gone,
            status |-> conn.status, wire |-> conn.wire, result |-> conn.result]

Silent(conn) == conn.wire = <<>> /\ conn.result = None

\* An answer about to be given, half given or given says how the service ended.
Answering(conn) ==
    /\ conn.result # None =>
          /\ conn.request.token # None
          /\ \/ conn.request.route \in GetRoutes
             \/ conn.request.json /\ conn.taken = Len(conn.request.parts)
    /\ conn.request.route \notin {"live", "ready"} =>
          (conn.status \in Success <=> conn.result = "DONE")
    /\ conn.stage = "start" => conn.wire = <<>>
    /\ conn.stage = "body" => conn.wire = <<conn.status>>
    /\ conn.stage = "done" => conn.wire = <<conn.status, "body">>

SoundConn(conn) ==
    \/ conn = NoRequest
    \/ /\ HasFields(conn)
       /\ conn.request.token \in Tokens \cup {None}
       /\ \/ conn.stage \in {"new", "failed"} /\ Silent(conn)
          \/ /\ conn.stage = "reading"
             /\ Silent(conn)
             /\ conn.request.token # None
             /\ conn.request.json
          \/ conn.stage \in {"start", "body", "done"} /\ Answering(conn)

ConnsKept ==
    /\ app \in Apps
    /\ conns = [c \in Conns |-> conns[c]]
    /\ \A c \in Conns : SoundConn(conns[c])

HttpInv ==
    /\ TrackerKept
    /\ ClockKept
    /\ ConnsKept

-----------------------------------------------------------------------------

(***************************************************************************)
(* Counting.                                                               *)
(***************************************************************************)
\* One item a key: as many keys as items.
LEMMA KeyCount ==
    ASSUME NEW S, NEW items \in Seq(S), Unique(items)
    PROVE  LET keys == {items[i].key : i \in 1..Len(items)} IN
           IsFiniteSet(keys) /\ Cardinality(keys) = Len(items)
<1> DEFINE keys == {items[i].key : i \in 1..Len(items)}
           keyAt == [i \in 1..Len(items) |-> items[i].key]
<1>1. Len(items) \in Nat
  BY LenProperties
<1>2. IsFiniteSet(1..Len(items)) /\ Cardinality(1..Len(items)) = Len(items)
  <2>1. PICK length \in Nat : length = Len(items)
    BY <1>1
  <2>2. IsFiniteSet(1..length) /\ Cardinality(1..length) = length
    BY FS_Interval
  <2> QED  BY <2>1, <2>2
<1>3. keyAt \in Surjection(1..Len(items), keys)
  BY DEF Surjection
<1>4. keyAt \in Injection(1..Len(items), keys)
  BY DEF Injection, IsInjective, Unique
<1> QED  BY <1>2, <1>3, <1>4, FS_Surjection

\* There are finitely many token identities.
LEMMA DigestsFinite == IsFiniteSet(Digests)
<1> DEFINE digestOf == [token \in Tokens |-> Digest(token)]
<1>1. digestOf \in Surjection(Tokens, Digests)
  BY DEF Surjection, Digests
<1> QED  BY <1>1, TokensAssumption, FS_Surjection

(***************************************************************************)
(* The tracker.                                                            *)
(***************************************************************************)
\* Binding an identity takes it to the end of the tracker, behind all others,
\* and takes at most the one used least recently out of it.
LEMMA BindKeeps ==
    ASSUME TrackerKept, NEW token \in Tokens, Bind(token)
    PROVE  TrackerKept'
<1>1. PICK d \in Digests : d = Digest(token)
  BY DEF Digests
<1>2. PICK v : v = Subject(token)
  OBVIOUS
<1>3. PICK item : item = [key |-> d, value |-> v]
  OBVIOUS
<1>4. item \in Bindings /\ item.key = d /\ item.value = v
  BY <1>2, <1>3 DEF Bindings
<1>5. PICK put : put = PutBounded(tracker, d, v, TrackerSize)
  OBVIOUS
<1>6. tracker' = put
  BY <1>1, <1>2, <1>5 DEF Bind
<1>7. /\ owner' = [owner EXCEPT ![d] = v]
      /\ since' = [x \in Digests |-> IF x = d THEN {} ELSE since[x] \cup {d}]
  BY <1>1, <1>2 DEF Bind
<1>8. tracker \in Seq(Bindings) /\ Unique(tracker) /\ Len(tracker) \in Nat
  BY LenProperties DEF TrackerKept
<1>9. /\ put \in Seq(Bindings) /\ Len(put) <= TrackerSize /\ Unique(put)
      /\ \A i \in 1..Len(put) :
            put[i] = item \/ \E j \in 1..Len(tracker) : put[i] = tracker[j]
  BY <1>3, <1>4, <1>5, <1>8, PutItems, TrackerSizeAssumption
<1>10. PICK all : all = Append(tracker, item)
  OBVIOUS
<1>11. /\ Len(put) >= 1 /\ put[Len(put)] = item
       /\ \A i \in 1..Len(tracker) : tracker[i].key # d =>
             \/ \E j \in 1..Len(put) : put[j] = tracker[i] /\ Behind(put, j, all, i)
             \/ Len(put) = TrackerSize /\ Behind(put, 0, all, i)
  <2>1. LET p == PutBounded(tracker, d, v, TrackerSize)
            it == [key |-> d, value |-> v]
        IN  /\ Len(p) >= 1 /\ p[Len(p)] = it
            /\ \A i \in 1..Len(tracker) : tracker[i].key # d =>
                  \/ \E j \in 1..Len(p) :
                        /\ p[j] = tracker[i]
                        /\ Behind(p, j, Append(tracker, it), i)
                  \/ Len(p) = TrackerSize /\ Behind(p, 0, Append(tracker, it), i)
    BY <1>3, <1>4, <1>8, PutOrder, TrackerSizeAssumption
  <2> QED  BY <1>3, <1>5, <1>10, <2>1
<1>12. /\ Len(all) = Len(tracker) + 1 /\ all[Len(tracker) + 1] = item
       /\ \A i \in 1..Len(tracker) : all[i] = tracker[i]
  BY <1>4, <1>8, <1>10, AppendProperties
<1>13. Len(put) \in Nat /\ \A i \in 1..Len(put) : put[i] \in Bindings
  BY <1>9, LenProperties, ElementOfSeq
<1> HIDE <1>3, <1>5, <1>10
<1>14. \A i \in 1..Len(put) : put[i].key = d => i = Len(put)
  BY <1>4, <1>9, <1>11, <1>13 DEF Unique
<1>15. owner' = [x \in Digests |-> owner'[x]]
  BY <1>7 DEF TrackerKept
<1>16. \A x \in Digests : owner'[x] = IF x = d THEN v ELSE owner[x]
  BY <1>7 DEF TrackerKept
<1>17. since' \in [Digests -> SUBSET Digests]
  BY <1>7 DEF TrackerKept
<1>18. \A x \in Digests : since'[x] = IF x = d THEN {} ELSE since[x] \cup {d}
  BY <1>7
<1>19. ASSUME NEW m \in 1..Len(tracker), tracker[m].key # d,
              NEW j \in Nat, Behind(put, j, all, m), NEW l \in (j + 1)..Len(put)
       PROVE  put[l].key \in since'[tracker[m].key]
  <2>1. PICK n \in (m + 1)..Len(all) : put[l] = all[n]
    BY <1>19 DEF Behind
  <2>2. tracker[m].key \in Digests
    <3>1. tracker[m] \in Bindings
      BY <1>8, ElementOfSeq
    <3> QED  BY <3>1 DEF Bindings
  <2>3. CASE n = Len(tracker) + 1
    BY <1>4, <1>12, <1>18, <1>19, <2>1, <2>2, <2>3
  <2>4. CASE n # Len(tracker) + 1
    <3>1. n \in 1..Len(tracker) /\ m < n
      BY <1>8, <1>12, <2>4
    <3>2. tracker[n].key \in since[tracker[m].key]
      BY <3>1 DEF TrackerKept
    <3> QED  BY <1>12, <1>18, <1>19, <2>1, <2>2, <3>1, <3>2
  <2> QED  BY <2>3, <2>4
<1>20. ASSUME NEW i \in 1..Len(put)
       PROVE  owner'[put[i].key] = put[i].value
  <2>1. put[i].key \in Digests
    BY <1>13 DEF Bindings
  <2>2. CASE put[i].key = d
    BY <1>4, <1>11, <1>14, <1>16, <2>2
  <2>3. CASE put[i].key # d
    <3>1. PICK j \in 1..Len(tracker) : put[i] = tracker[j]
      BY <1>4, <1>9, <2>3
    <3> QED  BY <1>16, <2>1, <2>3, <3>1 DEF TrackerKept
  <2> QED  BY <2>2, <2>3
<1>21. ASSUME NEW i \in 1..Len(put), NEW l \in 1..Len(put), i < l
       PROVE  put[l].key \in since'[put[i].key]
  <2>1. put[i].key # d
    BY <1>13, <1>14, <1>21
  <2>2. PICK m \in 1..Len(tracker) : put[i] = tracker[m]
    BY <1>4, <1>9, <2>1
  <2>3. CASE \E j \in 1..Len(put) : put[j] = tracker[m] /\ Behind(put, j, all, m)
    <3>1. Behind(put, i, all, m)
      BY <1>9, <2>2, <2>3 DEF Unique
    <3>2. i \in Nat /\ l \in (i + 1)..Len(put)
      BY <1>13, <1>21
    <3> QED  BY <1>19, <2>1, <2>2, <3>1, <3>2
  <2>4. CASE Behind(put, 0, all, m)
    <3>1. l \in (0 + 1)..Len(put)
      BY <1>13
    <3> QED  BY <1>19, <2>1, <2>2, <2>4, <3>1
  <2> QED  BY <1>11, <2>1, <2>2, <2>3, <2>4
<1>22. ASSUME NEW x \in Digests, owner'[x] # None, ~Holds(put, x)
       PROVE  Cardinality(since'[x]) >= TrackerSize
  <2>1. x # d
    BY <1>4, <1>11, <1>13, <1>22 DEF Holds
  <2>2. /\ since[x] \subseteq since'[x] /\ IsFiniteSet(since'[x])
        /\ owner[x] # None
    BY <1>16, <1>17, <1>18, <1>22, <2>1, DigestsFinite, FS_Subset
  <2>3. Cardinality(since'[x]) \in Nat
    BY <2>2, FS_CardinalityType
  <2>4. CASE ~Holds(tracker, x)
    <3>1. Cardinality(since[x]) >= TrackerSize
      BY <2>2, <2>4 DEF TrackerKept
    <3>2. Cardinality(since[x]) <= Cardinality(since'[x]) /\ Cardinality(since[x]) \in Nat
      BY <2>2, FS_Subset, FS_CardinalityType
    <3> QED  BY <2>3, <3>1, <3>2, TrackerSizeAssumption
  <2>5. CASE Holds(tracker, x)
    <3>1. PICK m \in 1..Len(tracker) : tracker[m].key = x
      BY <2>5 DEF Holds
    <3>2. Len(put) = TrackerSize /\ Behind(put, 0, all, m)
      BY <1>11, <1>22, <2>1, <3>1 DEF Holds
    <3>3. \A l \in 1..Len(put) : put[l].key \in since'[x]
      BY <1>19, <2>1, <3>1, <3>2
    <3>4. PICK keys : keys = {put[l].key : l \in 1..Len(put)}
      OBVIOUS
    <3>5. Cardinality(keys) = TrackerSize
      BY <1>9, <3>2, <3>4, KeyCount
    <3>6. keys \subseteq since'[x]
      BY <3>3, <3>4
    <3> QED  BY <2>2, <2>3, <3>5, <3>6, FS_Subset
  <2> QED  BY <2>4, <2>5
<1> QED  BY <1>6, <1>9, <1>15, <1>17, <1>20, <1>21, <1>22 DEF TrackerKept

\* The tracker that nobody writes.
LEMMA TrackerStays ==
    ASSUME TrackerKept, UNCHANGED identityVars
    PROVE  TrackerKept'
<1>1. tracker' = tracker /\ owner' = owner /\ since' = since
  BY DEF identityVars
<1> QED  BY <1>1 DEF TrackerKept

\* An identity that is bound to somebody else than before had been forgotten.
LEMMA BindChangesHands ==
    ASSUME TrackerKept, NEW token \in Tokens, NEW now, Bind(token),
           Verdict(token, now) = "ADMITTED",
           NEW d \in Digests, owner[d] # None, owner'[d] # owner[d]
    PROVE  Cardinality(since[d]) >= TrackerSize
<1>1. owner' = [owner EXCEPT ![Digest(token)] = Subject(token)]
  BY DEF Bind
<1>2. d = Digest(token) /\ owner'[d] = Subject(token)
  BY <1>1 DEF TrackerKept
<1>3. Lookup(tracker, d, None) \in {None, Subject(token)}
  BY <1>2 DEF Verdict
<1>4. ~Holds(tracker, d)
  <2> SUFFICES ASSUME Holds(tracker, d)
               PROVE  FALSE
    OBVIOUS
  <2>1. PICK p \in 1..Len(tracker) : p = Position(tracker, d) /\ tracker[p].key = d
    BY PositionOf
  <2>2. Lookup(tracker, d, None) = owner[d]
    BY <2>1 DEF Lookup, TrackerKept
  <2> QED  BY <1>2, <1>3, <2>2
<1> QED  BY <1>4 DEF TrackerKept

(***************************************************************************)
(* Reasons and their status.                                               *)
(***************************************************************************)
\* No reason of the verifier is the outcome of an operation that was executed.
LEMMA VerdictNotDone ==
    ASSUME NEW token, NEW now
    PROVE  Verdict(token, now) # "DONE"
<1>1. TimeVerdict(token, now) # "DONE"
  BY DEF TimeVerdict
<1>2. TokenVerdict(token, now) # "DONE"
  BY <1>1 DEF TokenVerdict
<1> QED  BY <1>2 DEF Verdict

\* A reason never has the status of a success.
LEMMA RefusalStatus ==
    ASSUME app \in Apps, NEW reason
    PROVE  StatusOf(reason) \notin Success
<1>1. UsageStatus(reason) \in {400, 401, 403, 404, 409, 503}
  BY DEF UsageStatus
<1>2. GuardrailStatus(reason) \in {400, 401, 403, 404, 409, 503}
  BY DEF GuardrailStatus
<1>3. CASE app = "policy"
  BY <1>3 DEF StatusOf, Success
<1>4. CASE app = "guardrails"
  BY <1>2, <1>4 DEF StatusOf, Success
<1>5. CASE app = "usage"
  BY <1>1, <1>5 DEF StatusOf, Success
<1> QED  BY <1>3, <1>4, <1>5 DEF Apps

\* The checks before the body refuse with an error status, and let nobody pass
\* without a token or with a body of another type.
LEMMA EarlyStatusFields ==
    ASSUME NEW r
    PROVE  /\ EarlyStatus(r) \notin Success
           /\ EarlyStatus(r) = 0 => r.token # None /\ (r.json \/ r.route \in GetRoutes)
  BY DEF EarlyStatus, Success

(***************************************************************************)
(* The connections.                                                        *)
(***************************************************************************)
\* A step of one connection leaves all sound if it leaves that one sound.
LEMMA ConnMoves ==
    ASSUME ConnsKept, NEW c \in Conns, NEW new, SoundConn(new), app' = app,
           conns' = [conns EXCEPT ![c] = new]
    PROVE  ConnsKept'
<1>1. conns' = [d \in Conns |-> IF d = c THEN new ELSE conns[d]]
  BY DEF ConnsKept
<1>2. conns' = [d \in Conns |-> conns'[d]]
  BY <1>1
<1>3. \A d \in Conns : conns'[d] = IF d = c THEN new ELSE conns[d]
  BY <1>1
<1> QED  BY <1>2, <1>3 DEF ConnsKept

\* A connection on which a request was opened has the fields of one.
LEMMA OpenedConn ==
    ASSUME ConnsKept, NEW c \in Conns, conns[c].stage # "closed"
    PROVE  /\ SoundConn(conns[c]) /\ HasFields(conns[c])
           /\ conns[c].request.token \in Tokens \cup {None}
<1>1. conns[c] # NoRequest
  BY DEF NoRequest
<1> QED  BY <1>1 DEF ConnsKept, SoundConn

\* An error answer before the service was called, or a health report.
LEMMA AnswerKeeps ==
    ASSUME ConnsKept, NEW c \in Conns, conns[c].stage # "closed", Silent(conns[c]),
           NEW status, Answer(c, status), app' = app,
           conns[c].request.route \in {"live", "ready"} \/ status \notin Success
    PROVE  ConnsKept'
<1>1. HasFields(conns[c]) /\ conns[c].request.token \in Tokens \cup {None}
  BY OpenedConn
<1>2. PICK new : new = [conns[c] EXCEPT !.stage = "start", !.status = status, !.opened = 0]
  OBVIOUS
<1>3. /\ HasFields(new)
      /\ new.stage = "start" /\ new.status = status
      /\ new.request = conns[c].request /\ new.wire = conns[c].wire
      /\ new.result = conns[c].result
  BY <1>1, <1>2 DEF HasFields
<1>4. Answering(new)
  BY <1>3, NoResultAssumption DEF Answering, Silent
<1>5. SoundConn(new)
  BY <1>1, <1>3, <1>4 DEF SoundConn
<1>6. conns' = [conns EXCEPT ![c] = new]
  BY <1>2 DEF Answer
<1> QED  BY <1>5, <1>6, ConnMoves

\* The answer to a service call.
LEMMA EndedKeeps ==
    ASSUME ConnsKept, NEW c \in Conns, conns[c].stage # "closed", Silent(conns[c]),
           conns[c].request.token # None, NEW taken, NEW outcome,
           \/ conns[c].request.route \in GetRoutes
           \/ conns[c].request.json /\ taken = Len(conns[c].request.parts),
           Ended(c, taken, outcome), app' = app
    PROVE  ConnsKept'
<1>1. HasFields(conns[c]) /\ conns[c].request.token \in Tokens \cup {None}
  BY OpenedConn
<1>2. PICK status :
         status = IF outcome = "DONE"
                  THEN IF conns[c].request.route \in Created THEN 201 ELSE 200
                  ELSE StatusOf(outcome)
  OBVIOUS
<1>3. status \in Success <=> outcome = "DONE"
  BY <1>2, RefusalStatus DEF Success, ConnsKept
<1>4. PICK new : new = [conns[c] EXCEPT !.stage = "start", !.taken = taken,
                                        !.result = outcome, !.opened = 0, !.status = status]
  OBVIOUS
<1>5. /\ HasFields(new)
      /\ new.stage = "start" /\ new.status = status /\ new.taken = taken
      /\ new.request = conns[c].request /\ new.wire = conns[c].wire
      /\ new.result = outcome
  BY <1>1, <1>4 DEF HasFields
<1>6. Answering(new)
  BY <1>3, <1>5 DEF Answering, Silent
<1>7. SoundConn(new)
  BY <1>1, <1>5, <1>6 DEF SoundConn
<1>8. conns' = [conns EXCEPT ![c] = new]
  BY <1>2, <1>4 DEF Ended
<1> QED  BY <1>7, <1>8, ConnMoves

\* A coroutine that raises leaves no answer.
LEMMA RaisedKeeps ==
    ASSUME ConnsKept, NEW c \in Conns, conns[c].stage # "closed", Silent(conns[c]),
           NEW taken, Raised(c, taken), app' = app
    PROVE  ConnsKept'
<1>1. HasFields(conns[c]) /\ conns[c].request.token \in Tokens \cup {None}
  BY OpenedConn
<1>2. PICK new : new = [conns[c] EXCEPT !.stage = "failed", !.taken = taken, !.opened = 0]
  OBVIOUS
<1>3. /\ HasFields(new)
      /\ new.stage = "failed"
      /\ new.request = conns[c].request /\ new.wire = conns[c].wire
      /\ new.result = conns[c].result
  BY <1>1, <1>2 DEF HasFields
<1>4. SoundConn(new)
  BY <1>1, <1>3 DEF SoundConn, Silent
<1>5. conns' = [conns EXCEPT ![c] = new]
  BY <1>2 DEF Raised
<1> QED  BY <1>4, <1>5, ConnMoves

(***************************************************************************)
(* What a step does to the identities and to the clock.                    *)
(***************************************************************************)
IdentityStep ==
    \/ UNCHANGED identityVars
    \/ \E token \in Tokens : Bind(token) /\ Verdict(token, clock) = "ADMITTED"

ClockStep ==
    \/ clock' = clock /\ latest' \in {latest, clock}
    \/ clock' \in Nat /\ clock' = clock + 1 /\ latest' = latest

Effects == IdentityStep /\ ClockStep /\ ConnsKept'

\* The service call: refused, or the identity bound and the operation ended, with
\* an answer or an exception.
LEMMA ServeKeeps ==
    ASSUME HttpInv, NEW c \in Conns, conns[c].stage # "closed", Silent(conns[c]),
           conns[c].request.token # None, NEW taken,
           \/ conns[c].request.route \in GetRoutes
           \/ conns[c].request.json /\ taken = Len(conns[c].request.parts),
           Serve(c, taken), app' = app, clock' = clock
    PROVE  Effects
<1>1. ConnsKept /\ conns[c].request.token \in Tokens
  BY OpenedConn DEF HttpInv
<1>2. latest' = clock
  BY DEF Serve, ServiceInstant
<1>3. Raised(c, taken) \/ \E outcome : Ended(c, taken, outcome)
  BY DEF Serve
<1>4. ConnsKept'
  BY <1>1, <1>3, EndedKeeps, RaisedKeeps
<1>5. IdentityStep
  BY <1>1 DEF Serve, ServiceInstant, IdentityStep
<1> QED  BY <1>2, <1>4, <1>5 DEF Effects, ClockStep

(***************************************************************************)
(* Step by step.                                                           *)
(***************************************************************************)
\* A step of a connection that leaves the clock and the identities alone.
LEMMA QuietEffects ==
    ASSUME UNCHANGED <<identityVars, clock, latest>>, ConnsKept'
    PROVE  Effects
  BY DEF Effects, IdentityStep, ClockStep

\* A request whose body is read, or which is not served yet, has no answer.
LEMMA SilentStages ==
    ASSUME ConnsKept, NEW c \in Conns, conns[c].stage \in {"new", "reading"}
    PROVE  /\ conns[c].stage # "closed"
           /\ Silent(conns[c])
           /\ conns[c].stage = "reading" =>
                 conns[c].request.token # None /\ conns[c].request.json
<1>1. SoundConn(conns[c])
  BY OpenedConn
<1> QED  BY <1>1 DEF SoundConn, NoRequest

\* A connection that begins to read its body.
LEMMA StageKeeps ==
    ASSUME ConnsKept, NEW c \in Conns, conns[c].stage = "new",
           conns[c].request.token # None, conns[c].request.json,
           conns' = [conns EXCEPT ![c].stage = "reading"], app' = app
    PROVE  ConnsKept'
<1>1. /\ HasFields(conns[c]) /\ Silent(conns[c])
      /\ conns[c].request.token \in Tokens \cup {None}
  BY OpenedConn, SilentStages
<1>2. PICK new : new = [conns[c] EXCEPT !.stage = "reading"]
  OBVIOUS
<1>3. /\ HasFields(new)
      /\ new.stage = "reading"
      /\ new.request = conns[c].request /\ new.wire = conns[c].wire
      /\ new.result = conns[c].result
  BY <1>1, <1>2 DEF HasFields
<1>4. SoundConn(new)
  BY <1>1, <1>3 DEF SoundConn, Silent
<1>5. conns' = [conns EXCEPT ![c] = new]
  BY <1>2
<1> QED  BY <1>4, <1>5, ConnMoves

\* A connection whose body is still read keeps its request, and has no answer.
LEMMA ReadingKeeps ==
    ASSUME ConnsKept, NEW c \in Conns, conns[c].stage = "reading", app' = app,
           NEW new, HasFields(new), new.stage = "reading",
           new.request = conns[c].request, new.wire = conns[c].wire,
           new.result = conns[c].result, conns' = [conns EXCEPT ![c] = new]
    PROVE  ConnsKept'
<1>1. Silent(conns[c]) /\ conns[c].request.token # None /\ conns[c].request.json
  BY SilentStages
<1>2. conns[c].request.token \in Tokens \cup {None}
  BY OpenedConn
<1>3. SoundConn(new)
  BY <1>1, <1>2 DEF SoundConn, Silent
<1> QED  BY <1>3, ConnMoves

\* The first step of the coroutine, by route.
LEMMA StartEffects ==
    ASSUME HttpInv, NEW c \in Conns, Start(c)
    PROVE  Effects
<1>1. /\ ConnsKept /\ conns[c].stage = "new" /\ app' = app /\ clock' = clock
      /\ conns[c].stage # "closed" /\ Silent(conns[c])
  BY SilentStages DEF Start, HttpInv
<1>2. CASE Start_Health(c)
  <2>1. UNCHANGED <<identityVars, latest>>
    BY <1>2 DEF Start_Health
  <2>2. ASSUME conns[c].request.route = "live" /\ Answer(c, 200)
        PROVE  ConnsKept'
    BY <1>1, <2>2, AnswerKeeps
  <2>3. ASSUME conns[c].request.route = "ready" /\ \E status \in {200, 503} : Answer(c, status)
        PROVE  ConnsKept'
    BY <1>1, <2>3, AnswerKeeps
  <2>4. ASSUME Raised(c, 0)
        PROVE  ConnsKept'
    BY <1>1, <2>4, RaisedKeeps
  <2>5. ConnsKept'
    BY <1>2, <2>2, <2>3, <2>4 DEF Start_Health
  <2> QED  BY <1>1, <2>1, <2>5, QuietEffects
<1>3. CASE Start_Refused(c)
  <2>1. UNCHANGED <<identityVars, latest>>
    BY <1>3 DEF Start_Refused
  <2>2. EarlyStatus(conns[c].request) \notin Success
    BY EarlyStatusFields
  <2>3. ConnsKept'
    BY <1>1, <1>3, <2>2, AnswerKeeps DEF Start_Refused
  <2> QED  BY <1>1, <2>1, <2>3, QuietEffects
<1>4. CASE Start_Get(c)
  <2>1. conns[c].request.route \in GetRoutes /\ Serve(c, 0) /\ conns[c].request.token # None
    BY <1>4, EarlyStatusFields DEF Start_Get
  <2> QED  BY <1>1, <2>1, ServeKeeps
<1>5. CASE Start_Body(c)
  <2>1. /\ UNCHANGED <<identityVars, latest>>
        /\ conns' = [conns EXCEPT ![c].stage = "reading"]
        /\ conns[c].request.token # None /\ conns[c].request.json
    BY <1>5, EarlyStatusFields DEF Start_Body
  <2>2. ConnsKept'
    BY <1>1, <2>1, StageKeeps
  <2> QED  BY <1>1, <2>1, <2>2, QuietEffects
<1> QED  BY <1>2, <1>3, <1>4, <1>5 DEF Start

\* A part of the body: too much of it, one of several, or the last one.
LEMMA ReceiveEffects ==
    ASSUME HttpInv, NEW c \in Conns, Receive(c)
    PROVE  Effects
<1>1. /\ ConnsKept /\ conns[c].stage = "reading" /\ app' = app /\ clock' = clock
      /\ conns[c].stage # "closed" /\ Silent(conns[c])
      /\ conns[c].request.token # None /\ conns[c].request.json
  BY SilentStages DEF Receive, HttpInv
<1>2. CASE Answer(c, 400) /\ UNCHANGED <<identityVars, latest>>
  <2>1. 400 \notin Success
    BY DEF Success
  <2>2. ConnsKept'
    BY <1>1, <1>2, <2>1, AnswerKeeps
  <2> QED  BY <1>1, <1>2, <2>2, QuietEffects
<1>3. CASE /\ conns' = [conns EXCEPT ![c].taken = conns[c].taken + 1]
           /\ UNCHANGED <<identityVars, latest>>
  <2>1. HasFields(conns[c])
    BY <1>1, OpenedConn
  <2>2. PICK new : new = [conns[c] EXCEPT !.taken = conns[c].taken + 1]
    OBVIOUS
  <2>3. /\ HasFields(new) /\ new.stage = conns[c].stage
        /\ new.request = conns[c].request /\ new.wire = conns[c].wire
        /\ new.result = conns[c].result
    BY <2>1, <2>2 DEF HasFields
  <2>4. conns' = [conns EXCEPT ![c] = new]
    BY <1>3, <2>2
  <2>5. ConnsKept'
    BY <1>1, <2>3, <2>4, ReadingKeeps
  <2> QED  BY <1>1, <1>3, <2>5, QuietEffects
<1>4. CASE /\ conns[c].taken + 1 = Len(conns[c].request.parts)
           /\ Serve(c, conns[c].taken + 1)
  BY <1>1, <1>4, ServeKeeps
<1> QED  BY <1>2, <1>3, <1>4 DEF Receive

\* The client was gone: an error answer, and the service is not called.
LEMMA DisconnectedEffects ==
    ASSUME HttpInv, NEW c \in Conns, Disconnected(c)
    PROVE  Effects
<1>1. /\ ConnsKept /\ conns[c].stage = "reading" /\ app' = app
      /\ conns[c].stage # "closed" /\ Silent(conns[c])
      /\ UNCHANGED <<identityVars, clock, latest>>
      /\ Answer(c, 400)
  BY SilentStages DEF Disconnected, HttpInv
<1>2. 400 \notin Success
  BY DEF Success
<1>3. ConnsKept'
  BY <1>1, <1>2, AnswerKeeps
<1> QED  BY <1>1, <1>3, QuietEffects

\* The answer keeps its status from its start to its body.
LEMMA SendKeeps ==
    ASSUME ConnsKept, NEW c \in Conns, NEW stage, NEW wire,
           \/ conns[c].stage = "start" /\ stage = "body" /\ wire = <<conns[c].status>>
           \/ conns[c].stage = "body" /\ stage = "done" /\ wire = <<conns[c].status, "body">>,
           conns' = [conns EXCEPT ![c].stage = stage, ![c].wire = wire], app' = app
    PROVE  ConnsKept'
<1>1. /\ HasFields(conns[c]) /\ SoundConn(conns[c])
      /\ conns[c].request.token \in Tokens \cup {None}
  BY OpenedConn
<1>2. Answering(conns[c])
  BY <1>1 DEF SoundConn, NoRequest
<1>3. PICK new : new = [conns[c] EXCEPT !.stage = stage, !.wire = wire]
  OBVIOUS
<1>4. /\ HasFields(new)
      /\ new.stage = stage /\ new.wire = wire
      /\ new.request = conns[c].request /\ new.taken = conns[c].taken
      /\ new.status = conns[c].status /\ new.result = conns[c].result
  BY <1>1, <1>3 DEF HasFields
<1>5. Answering(new)
  BY <1>2, <1>4 DEF Answering
<1>6. SoundConn(new)
  BY <1>1, <1>4, <1>5 DEF SoundConn
<1>7. conns' = [conns EXCEPT ![c] = new]
  BY <1>3
<1> QED  BY <1>6, <1>7, ConnMoves

\* The start of the answer is the first thing sent.
LEMMA SendStartEffects ==
    ASSUME HttpInv, NEW c \in Conns, SendStart(c)
    PROVE  Effects
<1>1. /\ ConnsKept /\ conns[c].stage = "start" /\ app' = app
      /\ UNCHANGED <<identityVars, clock, latest>>
      /\ conns' = [conns EXCEPT ![c].stage = "body",
                                ![c].wire = Append(@, conns[c].status)]
  BY DEF SendStart, HttpInv
<1>2. SoundConn(conns[c]) /\ HasFields(conns[c])
  BY <1>1, OpenedConn
<1>3. conns[c].wire = <<>>
  BY <1>1, <1>2 DEF SoundConn, NoRequest, Answering
<1>4. Append(conns[c].wire, conns[c].status) = <<conns[c].status>>
  BY <1>3
<1>5. conns' = [conns EXCEPT ![c].stage = "body", ![c].wire = <<conns[c].status>>]
  BY <1>1, <1>4
<1>6. ConnsKept'
  BY <1>1, <1>5, SendKeeps
<1> QED  BY <1>1, <1>6, QuietEffects

\* A second element.
LEMMA AppendSecond ==
    ASSUME NEW x, NEW y
    PROVE  Append(<<x>>, y) = <<x, y>>
<1>1. <<x>> \in Seq({x, y}) /\ Len(<<x>>) = 1 /\ <<x, y>> \in Seq({x, y})
  OBVIOUS
<1>2. PICK longer : longer = Append(<<x>>, y)
  OBVIOUS
<1>3. longer \in Seq({x, y}) /\ Len(longer) = 2 /\ longer[1] = x /\ longer[2] = y
  BY <1>1, <1>2, AppendProperties
<1> HIDE <1>2
<1>4. longer = <<x, y>>
  BY <1>1, <1>3, SeqEqual
<1> QED  BY <1>2, <1>4

\* Its body is the second.
LEMMA SendBodyEffects ==
    ASSUME HttpInv, NEW c \in Conns, SendBody(c)
    PROVE  Effects
<1>1. /\ ConnsKept /\ conns[c].stage = "body" /\ app' = app
      /\ UNCHANGED <<identityVars, clock, latest>>
      /\ conns' = [conns EXCEPT ![c].stage = "done", ![c].wire = Append(@, "body")]
  BY DEF SendBody, HttpInv
<1>2. SoundConn(conns[c]) /\ HasFields(conns[c])
  BY <1>1, OpenedConn
<1>3. conns[c].wire = <<conns[c].status>>
  BY <1>1, <1>2 DEF SoundConn, NoRequest, Answering
<1>4. Append(conns[c].wire, "body") = <<conns[c].status, "body">>
  BY <1>3, AppendSecond
<1>5. conns' = [conns EXCEPT ![c].stage = "done", ![c].wire = <<conns[c].status, "body">>]
  BY <1>1, <1>4
<1>6. ConnsKept'
  BY <1>1, <1>5, SendKeeps
<1> QED  BY <1>1, <1>6, QuietEffects

\* A new request has no answer.
LEMMA OpenEffects ==
    ASSUME HttpInv, NEW c \in Conns, NEW r \in HttpRequests[app], Open(c, r)
    PROVE  Effects
<1>1. /\ ConnsKept /\ app \in Apps /\ app' = app
      /\ UNCHANGED <<identityVars, clock, latest>>
      /\ conns' = [conns EXCEPT ![c] = NewRequest(r)]
  BY DEF Open, HttpInv, ConnsKept
<1>2. r.token \in Tokens \cup {None}
  BY <1>1, HttpRequestsAssumption DEF HttpRequest
<1>3. PICK new : new = NewRequest(r)
  OBVIOUS
<1>4. /\ HasFields(new)
      /\ new.stage = "new" /\ new.request = r /\ new.wire = <<>> /\ new.result = None
  BY <1>3 DEF NewRequest, HasFields
<1>5. SoundConn(new)
  BY <1>2, <1>4 DEF SoundConn, Silent
<1>6. ConnsKept'
  BY <1>1, <1>3, <1>5, ConnMoves
<1> QED  BY <1>1, <1>6, QuietEffects

\* The client sends a part of its body, or goes away.
LEMMA ClientEffects ==
    ASSUME HttpInv, NEW c \in Conns, Upload(c) \/ Leave(c)
    PROVE  Effects
<1>1. /\ ConnsKept /\ conns[c].stage = "reading" /\ app' = app
      /\ UNCHANGED <<identityVars, clock, latest>>
  BY DEF Upload, Leave, HttpInv
<1>2. HasFields(conns[c])
  BY <1>1, OpenedConn
<1>3. CASE Upload(c)
  <2>1. PICK new : new = [conns[c] EXCEPT !.arrived = conns[c].arrived + 1]
    OBVIOUS
  <2>2. /\ HasFields(new) /\ new.stage = conns[c].stage
        /\ new.request = conns[c].request /\ new.wire = conns[c].wire
        /\ new.result = conns[c].result
    BY <1>2, <2>1 DEF HasFields
  <2>3. conns' = [conns EXCEPT ![c] = new]
    BY <1>3, <2>1 DEF Upload
  <2>4. ConnsKept'
    BY <1>1, <2>2, <2>3, ReadingKeeps
  <2> QED  BY <1>1, <2>4, QuietEffects
<1>4. CASE Leave(c)
  <2>1. PICK new : new = [conns[c] EXCEPT !.gone = TRUE]
    OBVIOUS
  <2>2. /\ HasFields(new) /\ new.stage = conns[c].stage
        /\ new.request = conns[c].request /\ new.wire = conns[c].wire
        /\ new.result = conns[c].result
    BY <1>2, <2>1 DEF HasFields
  <2>3. conns' = [conns EXCEPT ![c] = new]
    BY <1>4, <2>1 DEF Leave
  <2>4. ConnsKept'
    BY <1>1, <2>2, <2>3, ReadingKeeps
  <2> QED  BY <1>1, <2>4, QuietEffects
<1> QED  BY <1>3, <1>4

\* The wall clock.
LEMMA TickEffects ==
    ASSUME HttpInv, Tick
    PROVE  Effects
<1>1. clock' = clock + 1 /\ clock' \in Nat /\ latest' = latest
  BY TimesAssumption DEF Tick
<1>2. ConnsKept'
  BY DEF Tick, HttpInv, ConnsKept
<1> QED  BY <1>1, <1>2 DEF Effects, IdentityStep, ClockStep, Tick

-----------------------------------------------------------------------------
(***************************************************************************)
(* The theorems.                                                           *)
(***************************************************************************)
\* A process starts with an empty tracker and no requests.
LEMMA HttpStarts ==
    ASSUME HttpInit
    PROVE  HttpInv
<1>1. /\ tracker = <<>>
      /\ owner = [d \in Digests |-> None]
      /\ since = [d \in Digests |-> {}]
  BY DEF HttpInit, IdentityInit
<1>2. tracker \in Seq(Bindings) /\ Len(tracker) = 0
  BY <1>1
<1>3. TrackerKept
  BY <1>1, <1>2, TrackerSizeAssumption DEF TrackerKept, Unique
<1>4. ClockKept
  BY DEF HttpInit, ClockKept
<1>5. ConnsKept
  BY DEF HttpInit, ConnsKept, SoundConn
<1> QED  BY <1>3, <1>4, <1>5 DEF HttpInv

\* Every step, with what it does to identities, clock and connections.
LEMMA StepEffects ==
    ASSUME HttpInv, [HttpNext]_httpVars
    PROVE  Effects
<1>1. CASE UNCHANGED httpVars
  <2>1. ConnsKept'
    BY <1>1 DEF httpVars, HttpInv, ConnsKept
  <2> QED  BY <1>1, <2>1, QuietEffects DEF httpVars
<1>2. ASSUME NEW c \in Conns, Coroutine(c)
      PROVE  Effects
  BY <1>2, StartEffects, ReceiveEffects, DisconnectedEffects, SendStartEffects,
     SendBodyEffects DEF Coroutine
<1> QED
  BY <1>1, <1>2, OpenEffects, ClientEffects, TickEffects DEF HttpNext

\* The effects of a step keep the invariant.
LEMMA EffectsKeep ==
    ASSUME HttpInv, Effects
    PROVE  HttpInv'
<1>1. TrackerKept'
  BY BindKeeps, TrackerStays DEF Effects, IdentityStep, HttpInv
<1>2. ClockKept'
  BY DEF Effects, ClockStep, ClockKept, HttpInv
<1> QED  BY <1>1, <1>2 DEF Effects, HttpInv

\* The invariant is inductive.
LEMMA HttpInvariant == Http => []HttpInv
<1>1. HttpInit => HttpInv
  BY HttpStarts
<1>2. HttpInv /\ [HttpNext]_httpVars => HttpInv'
  BY StepEffects, EffectsKeep
<1> QED  BY <1>1, <1>2, PTL DEF Http

\* The instants that reach a service never go back, whatever the order in which
\* the bodies of the requests arrive.
THEOREM InstantsAreOrdered == Http => InstantsInOrder
<1>1. HttpInv /\ [HttpNext]_httpVars => [latest' >= latest]_httpVars
  <2> SUFFICES ASSUME HttpInv, [HttpNext]_httpVars
               PROVE  latest' >= latest
    OBVIOUS
  <2> QED  BY StepEffects DEF Effects, ClockStep, HttpInv, ClockKept
<1> QED  BY <1>1, HttpInvariant, PTL DEF Http, InstantsInOrder

\* An answer that is being sent, or was, tells how the service call ended, and
\* consists of one start and one body.
THEOREM AnswersAreTrue == Http => []AnsweredAsServed
<1>1. HttpInv => AnsweredAsServed
  <2> SUFFICES ASSUME HttpInv, NEW c \in Conns, conns[c].stage # "closed"
               PROVE  /\ conns[c].wire \in {<<>>, <<conns[c].status>>,
                                            <<conns[c].status, "body">>}
                      /\ conns[c].result # None =>
                            /\ conns[c].request.token # None
                            /\ \/ conns[c].request.route \in GetRoutes
                               \/ /\ conns[c].request.json
                                  /\ conns[c].taken = Len(conns[c].request.parts)
                      /\ conns[c].wire # <<>>
                         /\ conns[c].request.route \notin {"live", "ready"} =>
                            (conns[c].wire[1] \in Success) = (conns[c].result = "DONE")
    BY DEF AnsweredAsServed
  <2>1. SoundConn(conns[c]) /\ conns[c] # NoRequest
    BY DEF HttpInv, ConnsKept, NoRequest
  <2>2. CASE Silent(conns[c])
    BY <2>2 DEF Silent
  <2>3. CASE conns[c].stage \in {"start", "body", "done"} /\ Answering(conns[c])
    <3>1. \/ conns[c].wire = <<>>
          \/ conns[c].wire = <<conns[c].status>>
          \/ conns[c].wire = <<conns[c].status, "body">>
      BY <2>3 DEF Answering
    <3>2. conns[c].wire # <<>> => conns[c].wire[1] = conns[c].status
      BY <3>1
    <3>3. conns[c].request.route \notin {"live", "ready"} =>
             (conns[c].status \in Success) = (conns[c].result = "DONE")
      BY <2>3 DEF Answering
    <3>4. conns[c].wire # <<>> /\ conns[c].request.route \notin {"live", "ready"} =>
             (conns[c].wire[1] \in Success) = (conns[c].result = "DONE")
      BY <3>2, <3>3
    <3> QED  BY <2>3, <3>1, <3>4 DEF Answering
  <2> QED  BY <2>1, <2>2, <2>3 DEF SoundConn
<1> QED  BY <1>1, HttpInvariant, PTL

\* A token identity changes hands only once the tracker had to forget it.
THEOREM IdentitiesAreKept == Http => IdentityChangesHands
<1> DEFINE Step == \A d \in Digests :
                      owner[d] # None /\ owner'[d] # owner[d] =>
                         Cardinality(since[d]) >= TrackerSize
<1>1. HttpInv /\ [HttpNext]_httpVars => [Step]_identityVars
  <2> SUFFICES ASSUME HttpInv, [HttpNext]_httpVars, ~UNCHANGED identityVars,
                      NEW d \in Digests, owner[d] # None, owner'[d] # owner[d]
               PROVE  Cardinality(since[d]) >= TrackerSize
    OBVIOUS
  <2>1. \E token \in Tokens : Bind(token) /\ Verdict(token, clock) = "ADMITTED"
    BY StepEffects DEF Effects, IdentityStep
  <2> QED  BY <2>1, BindChangesHands DEF HttpInv
<1> QED  BY <1>1, HttpInvariant, PTL DEF Http, IdentityChangesHands
=============================================================================
